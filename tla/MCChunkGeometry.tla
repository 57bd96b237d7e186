-------------------------- MODULE MCChunkGeometry ---------------------------
(* Instances of ChunkGeometry for TLC: the constants are small numbers, in *)
(* the order of the real ones: MaxPayload < Width, MaxChunks < Width.      *)
EXTENDS ChunkGeometry
=============================================================================
