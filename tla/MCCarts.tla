-------------------------------- MODULE MCCarts ---------------------------------
(* Instances of Carts for TLC.                                             *)
EXTENDS CartsSafety, TLC

CONSTANTS t1, t2, a, g, c1, c2, c3, x, y

AnyOp == AllOps
Connections == Permutations(Txns)
================================================================================
