---------------------------- MODULE MCDataPorts -----------------------------
(* Instances of DataPorts for TLC: transfers t1, t2 of one data port each, *)
(* and every other transfer of two.                                        *)
EXTENDS DataPorts

CONSTANTS t1, t2

MCWant == [t \in Transfer |-> IF t \in {t1, t2} THEN 1 ELSE 2]
=============================================================================
