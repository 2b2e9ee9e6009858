------------------------------- MODULE MCSessions -------------------------------
(* Instances of Sessions for TLC.                                          *)
EXTENDS Sessions, TLC

CONSTANTS t1, t2, k1, k2, k3, f1, f2

Connections == Permutations(Txns)
================================================================================
