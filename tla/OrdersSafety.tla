------------------------------ MODULE OrdersSafety ------------------------------
(***************************************************************************)
(* Properties of Orders that some workloads have and others do not: what   *)
(* holds when service calls run one at a time, or when only some of them   *)
(* run, and what the documentation promises of all of them.                *)
(***************************************************************************)
EXTENDS Orders, Functions

Live(o) == order[o].status \in {"pending", "confirmed", "completed"}
LiveUnits(v) ==
  SumFunctionOnSet([o \in Orders |-> IF Live(o) THEN Basket[order[o].cart][v] ELSE 0], Orders)

(* Every unit is either on the shelf or in an order that is not cancelled: a   *)
(* checkout takes its basket exactly once, a cancellation returns it           *)
(* exactly once (orders.service.ts restoreStockForOrder).                      *)
ShelfOrOrder == \A v \in Variants : stock[v] + LiveUnits(v) = Stock0[v]

(* The refunds recorded for an order never exceed what was captured for it     *)
(* (PaymentsService.refundPayment, REFUND_EXCEEDS_PAYMENT).                    *)
RefundWithinCapture == \A o \in Orders : refund[o] <= Total[order[o].cart]

(* Cancelling returns the money in the same commit: when an order becomes      *)
(* cancelled and its payment is captured, all of it has been refunded          *)
(* (cancelOrderSideEffects).                                                   *)
CancellationRefunds ==
  [][\A o \in Orders :
       /\ order[o].status # "cancelled" /\ order'[o].status = "cancelled"
       /\ payment'[o] = "captured"
       => refund'[o] = Total[order[o].cart]]_<<order, payment, refund>>

(* The shipments of an order add up: no item is sent beyond the quantity       *)
(* ordered, and fulfillment_status is what the shipments on record amount to   *)
(* (createShipment).                                                           *)
ShipmentsAddUp ==
  \A o \in Orders :
    /\ \A v \in Variants : sent[o][v] <= Basket[order[o].cart][v]
    /\ order[o].ful = DeriveFulfillment(Basket[order[o].cart], sent[o])

(* A capture event that was recorded for an order reached its payment.         *)
EventApplied ==
  \A o \in Orders : Exists(o) /\ events[o] > 0 => payment[o] = "captured"

(* A cart becomes at most one order (checkout takes only active carts).        *)
OneOrderPerCart ==
  \A o, p \in Orders : Exists(o) /\ Exists(p) /\ order[o].cart = order[p].cart => o = p

(* An order that is completed or cancelled stays so, and none goes back to     *)
(* pending, whatever is asked of it afterwards (transitionStatus, cancelOrder, *)
(* createShipment, handleWebhookEvent).                                        *)
ClosedStays ==
  [][\A o \in Orders : order'[o].status # order[o].status =>
       /\ order[o].status \notin {"completed", "cancelled"}
       /\ order'[o].status = "pending" => order[o].status = "none"]_order

(* The lifecycle that the documentation draws and order-state-machine.ts has:  *)
(* an order is committed pending, or confirmed when its payment was captured   *)
(* at once, and makes no other moves than those.                               *)
LifecycleSteps == DocumentedMoves \cup {<<"none", "pending">>, <<"none", "confirmed">>}
Lifecycle ==
  [][\A o \in Orders : order'[o].status # order[o].status =>
       <<order[o].status, order'[o].status>> \in LifecycleSteps]_order

(* No deadlock among transactions: every group of them has one that waits for  *)
(* none of the others (variants are locked in the order of their ids, and      *)
(* payments, orders, events and carts after them).                             *)
NoLockCycle ==
  \A S \in SUBSET Txns : S # {} => \E t \in S : \A u \in S : ~WaitsFor(t, u)

--------------------------------------------------------------------------------
(* A transaction whose next statement can run infinitely often runs it: row   *)
(* locks are granted in the order they were asked for.  The scheduler         *)
(* (EVERY_5_MINUTES) keeps coming back.                                       *)
Fairness == \A t \in Txns : SF_vars(Run(t)) /\ WF_vars(BeginExpire(t))
FairSpec == Spec /\ Fairness

(* An order whose deadline passes while it is pending is eventually something  *)
(* else: confirmed by a late payment or cancelled by the scheduler.            *)
ExpiredLeavesPending ==
  \A o \in Orders : (order[o].status = "pending" /\ o \in elapsed)
                      ~> order[o].status # "pending"
================================================================================
