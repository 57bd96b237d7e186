--------------------------- MODULE MCFileReceiver ---------------------------
(* Instances of FileReceiver for TLC: offers f1 and f2 of two and one      *)
(* chunks, and f3, the contents of f1 cut into one chunk.                  *)
EXTENDS FileReceiver

CONSTANTS f1, f2, f3, d1, d2

MCNumChunks == [f \in Offer |-> IF f = f1 THEN 2 ELSE 1]
MCDigest    == [f \in Offer |-> IF f = f2 THEN d2 ELSE d1]
=============================================================================
