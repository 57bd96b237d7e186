---------------------------- MODULE MCAcceptLoop ----------------------------
(* Instances of AcceptLoop for TLC: more clients than permits.             *)
EXTENDS AcceptLoop
=============================================================================
