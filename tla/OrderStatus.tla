------------------------------ MODULE OrderStatus ------------------------------
(***************************************************************************)
(* The pure domain of an order: its three status columns, the lifecycle    *)
(* tables of apps/api/src/orders/domain/order-state-machine.ts and of      *)
(* OrdersService, and the fulfilment status derived from shipments.        *)
(***************************************************************************)
EXTENDS Integers, FiniteSets

\* orders.status, with "none" for a row that does not exist.
LifecycleStatus == {"pending", "confirmed", "completed", "cancelled"}

PaymentStatus ==
  {"pending", "authorized", "partially_captured", "paid", "partially_refunded",
   "refunded", "voided", "failed", "disputed", "charged_back"}

FulfillmentStatus == {"unfulfilled", "partially_fulfilled", "fulfilled"}

\* What a caller of OrdersService.transitionStatus may ask of a status.
ValidTransitions_Recancel(status) ==
  CASE status \in {"pending", "cancelled"} -> {"confirmed", "cancelled"}
    [] status = "confirmed"               -> {"completed", "cancelled"}
    [] OTHER                              -> {}

ValidTransitions(status) ==
  CASE status = "pending"   -> {"confirmed", "cancelled"}
    [] status = "confirmed" -> {"completed", "cancelled"}
    [] OTHER                -> {}

\* transitionLifecycle of the domain: <<current, event, next>>.
LifecycleTable ==
  { <<"pending",   "PAYMENT_SUCCESS",      "confirmed">>,
    <<"pending",   "CANCEL",               "cancelled">>,
    <<"confirmed", "CANCEL",               "cancelled">>,
    <<"confirmed", "FULFILLMENT_COMPLETE", "completed">> }

DocumentedMoves == { <<row[1], row[3]>> : row \in LifecycleTable }

(* deriveFulfillmentStatus: ordered and sent give, per order item, the      *)
(* quantity ordered and the quantity all shipments together carry.  The     *)
(* code adds up min(sent, ordered); the sum is 0 when nothing was sent and  *)
(* reaches the ordered total exactly when every item is covered.            *)
DeriveFulfillment(ordered, sent) ==
  LET items == { i \in DOMAIN ordered : ordered[i] > 0 }
  IN  IF \A i \in items : sent[i] = 0 THEN "unfulfilled"
      ELSE IF \A i \in items : sent[i] >= ordered[i] THEN "fulfilled"
      ELSE "partially_fulfilled"
================================================================================
