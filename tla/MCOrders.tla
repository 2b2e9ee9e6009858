-------------------------------- MODULE MCOrders --------------------------------
(* Instances of Orders for TLC.                                            *)
EXTENDS OrdersSafety, TLC

CONSTANTS o1, o2, o3, c1, c2, c3, t1, t2, t3

\* Two carts that share variant 1, or both variants.
BasketOf   == (c1 :> (1 :> 1 @@ 2 :> 1)) @@ (c2 :> (1 :> 1 @@ 2 :> 0))
TotalOf    == (c1 :> 2) @@ (c2 :> 1)
SameBasket == (c1 :> (1 :> 1 @@ 2 :> 1)) @@ (c2 :> (1 :> 1 @@ 2 :> 1))
SameTotal  == (c1 :> 2) @@ (c2 :> 2)
\* A single cart.
OneBasket  == c1 :> (1 :> 1 @@ 2 :> 1)
OneTotal   == c1 :> 2
\* Enough for one of two equal carts, or for both.
EnoughStock == 1 :> 2 @@ 2 :> 1
TwoEach     == 1 :> 2 @@ 2 :> 2

Item(i)  == [v \in Variants |-> IF v = i THEN 1 ELSE 0]
Stocked  == {1, 2}
OneOrAll == { Item(1), Item(2), [v \in Variants |-> 1] }
AllItems == { [v \in Variants |-> 1] }
NoLine   == { [v \in Variants |-> 0] }
Repeat   == { Item(1) }
AnyOp    == AllOps
Connections == Permutations(Txns)
================================================================================
