-------------------------- MODULE MCClientTransfer --------------------------
(* Instances of ClientTransfer for TLC: two chunks, sent by one worker or  *)
(* by two; no ports at all with --max-parallel 0.                          *)
EXTENDS ClientTransfer
=============================================================================
