-------------------------------- MODULE CartBags --------------------------------
(***************************************************************************)
(* What carts promise to their owners: each owner has one bag of units,    *)
(* which requests fill, correct, merge and turn into orders, each at once. *)
(***************************************************************************)
EXTENDS Naturals

CONSTANTS Customers, Sessions, Variants, Quantities

VARIABLE bag

Empty == [v \in Variants |-> 0]
Init == bag = [w \in Customers \cup Sessions |-> Empty]

Add(w, v, q) == bag' = [bag EXCEPT ![w][v] = @ + q]

SetQuantity(w, v, q) == bag[w][v] > 0 /\ bag' = [bag EXCEPT ![w][v] = q]

\* At login everything in the session's bag moves into the customer's.
MergeBags(w, s) ==
  bag' = [bag EXCEPT ![w] = [v \in Variants |-> bag[w][v] + bag[s][v]], ![s] = Empty]

Order(w) == bag[w] # Empty /\ bag' = [bag EXCEPT ![w] = Empty]

Next ==
  \/ \E w \in Customers \cup Sessions :
       \/ Order(w)
       \/ \E v \in Variants, q \in Quantities : Add(w, v, q) \/ SetQuantity(w, v, q)
  \/ \E w \in Customers, s \in Sessions : MergeBags(w, s)

Spec == Init /\ [][Next]_bag
================================================================================
