------------------------------ MODULE CartsSafety -------------------------------
(* What carts promise for some workloads of Carts.                         *)
EXTENDS Carts, Functions

Units(v, cs) == SumFunctionOnSet([c \in CartIds |-> items[c][v].qty], cs)

(* No race of requests puts units into active carts that nobody asked for:     *)
(* retries and merges never count an item twice (addItem, mergeCart).          *)
NothingInvented ==
  \A v \in Variants :
    Units(v, { c \in CartIds : status[c] = "active" }) <= asked[v]

(* One at a time, requests do to the carts what CartBags says, although some   *)
(* of them take two transactions and any of them may stop half way.            *)
Bag == INSTANCE CartBags WITH
  bag <- [w \in Owners |-> [v \in Variants |-> Units(v, ActiveCarts(w))]]
BagsHold == Bag!Spec
================================================================================
