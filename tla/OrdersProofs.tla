------------------------------ MODULE OrdersProofs ------------------------------
(***************************************************************************)
(* Proofs about Orders and of the properties in OrdersSafety, for every    *)
(* number of connections, orders, carts and variants, every stock and      *)
(* every basket.                                                           *)
(*                                                                         *)
(* First its types, and what the row locks achieve: no stock update is     *)
(* lost and a provider event is recorded once. The inductive invariants    *)
(* are TInv and LockInv. With OrderlyInv, no group of connections ever     *)
(* waits in a circle.                                                      *)
(*                                                                         *)
(* Then the theorems about service calls that run one at a time, which is  *)
(* what OneConnection says: with two connections each of them is false.    *)
(* SerialInv describes the                                                 *)
(* books that are committed and what each stage of a transaction has made  *)
(* of them; ShelfInv adds up the units in orders, which may be any finite  *)
(* set.                                                                    *)
(***************************************************************************)
EXTENDS OrdersSafety, Sums, TLAPS

\* In these states the transaction works on one order, tx[t].o.
OnSomeOrder(r) == /\ r.pc \notin {"idle", "pay", "expired"}
                  /\ ~(r.pc = "items" /\ r.op = "checkout")

\* Orders rows exist, are locked and are worked on only for ids that the
\* provider has accepted a payment for.
Fits(r) == /\ r.rows \subseteq charged
           /\ OnSomeOrder(r) => r.o \in charged

Charged == /\ \A o \in Orders : Exists(o) => o \in charged
           /\ \A t \in Txns : Fits(tx[t])

TInv == TypeOK /\ Charged

LEMMA NoRowType == NoRow \in Row
  <1>1. NoCart \in Carts
    BY IdsAssumption DEF NoCart
  <1>2. QED
    BY <1>1 DEF NoRow, Row, StoredPay, LifecycleStatus, FulfillmentStatus

LEMMA IdleType == Idle \in TxRecord /\ Fits(Idle)
  <1>1. NoCart \in Carts
    BY IdsAssumption DEF NoCart
  <1>2. QED
    BY <1>1, NoRowType DEF Idle, TxRecord, Steps, NoLines, Fits, OnSomeOrder

\* A statement keeps the type invariant when the new record is of its type.
LEMMA StatementType ==
  ASSUME TInv, NEW t \in Txns, NEW r \in TxRecord, Fits(r), Statement(t, r)
  PROVE  TInv'
  BY DEF TInv, TypeOK, Charged, Fits, Statement, Go, db, bounds, Exists, OnSomeOrder

LEMMA RequestType ==
  ASSUME TInv, NEW t \in Txns, NEW r \in TxRecord, Fits(r), Request(t, r)
  PROVE  TInv'
  BY DEF TInv, TypeOK, Charged, Fits, Request, Go, db, Exists, OnSomeOrder

LEMMA OnOrderType ==
  ASSUME TInv, NEW o \in Orders, Exists(o), NEW op \in AllOps, NEW pc \in Steps
  PROVE  /\ OnOrder(op, o, pc) \in TxRecord /\ Fits(OnOrder(op, o, pc))
  BY ZenonT(30), IdleType DEF TInv, TypeOK, Charged, Fits, OnSomeOrder, OnOrder, Row, Idle, TxRecord

LEMMA TypeInit == Init => TInv
  BY IdleType, NoRowType, StockAssumption
  DEF Init, TInv, TypeOK, Charged, NoLines, Exists, NoRow, Row
--------------------------------------------------------------------------------
(* Each action keeps the type invariant.                                       *)

LEMMA FailType == ASSUME TInv, NEW t \in Txns, Fail(t) PROVE TInv'
  BY IdleType, StatementType DEF Fail

LEMMA CheckoutType ==
  ASSUME TInv, NEW t \in Txns, NEW c \in Carts, BeginCheckout(t, c)
  PROVE  TInv'
  <1> DEFINE r == [Idle EXCEPT !.pc = "items", !.op = "checkout", !.c = c,
                               !.todo = Items(c)]
  <1>1. r \in TxRecord /\ Fits(r)
    BY IdleType DEF TxRecord, Items, Steps, AllOps, Fits, OnSomeOrder, Idle
  <1>2. QED
    BY <1>1, RequestType DEF BeginCheckout

LEMMA LockType ==
  ASSUME TInv, NEW t \in Txns, NEW v \in Variants, tx[t].pc = "items", v \in tx[t].todo,
         \/ /\ tx[t].op = "checkout" /\ Enough(t, v)
            /\ LockVariant(t, v, -Basket[tx[t].c][v], "pay")
         \/ /\ tx[t].op # "checkout" /\ LockVariant(t, v, Basket[tx[t].c][v], "settle")
  PROVE  TInv'
  <1>1. tx[t] \in TxRecord /\ Fits(tx[t]) /\ stock \in [Variants -> Nat]
    BY DEF TInv, TypeOK, Charged
  <1>2. Basket[tx[t].c][v] \in Nat /\ StockSeen(t, v) \in Nat
    BY <1>1, BasketAssumption DEF TxRecord, StockSeen
  <1>3. ASSUME NEW change \in Int, StockSeen(t, v) + change >= 0,
               NEW after \in {"pay", "settle"},
               after = "pay" <=> tx[t].op = "checkout",
               LockVariant(t, v, change, after)
        PROVE  TInv'
    <2> DEFINE r == [tx[t] EXCEPT
         !.todo = @ \ {v}, !.held = @ \cup {v},
         !.wrote[v] = StockSeen(t, v) + change, !.net[v] = @ - change,
         !.pc = IF tx[t].todo = {v} THEN after ELSE "items"]
    <2>0. /\ [tx[t].wrote EXCEPT ![v] = StockSeen(t, v) + change] \in [Variants -> Nat]
          /\ [tx[t].net EXCEPT ![v] = @ - change] \in [Variants -> Int]
      BY <1>1, <1>2, <1>3 DEF TxRecord
    <2>1. r \in TxRecord
      BY ZenonT(30), <1>1, <2>0 DEF TxRecord, Steps
    <2>2. Fits(r)
      BY <1>1, <1>3 DEF TxRecord, Fits, OnSomeOrder
    <2>3. QED
      BY <1>3, <2>1, <2>2, StatementType DEF LockVariant
  <1>4. QED
    BY <1>2, <1>3 DEF Enough

LEMMA PlaceType ==
  ASSUME TInv, NEW t \in Txns, NEW o \in Orders, NEW result \in {"captured", "pending"},
         PlaceOrder(t, o, result)
  PROVE  TInv'
  <1> DEFINE paid == result = "captured"
             row  == [status |-> IF paid THEN "confirmed" ELSE "pending",
                      pay |-> result, exp |-> ~paid, ful |-> "unfulfilled",
                      cart |-> tx[t].c]
             r    == [tx[t] EXCEPT !.pc = "cart", !.o = o, !.ent = row, !.rows = @ \cup {o},
                                   !.wrow[o] = row, !.wpay = result]
  <1>1. tx[t] \in TxRecord /\ Fits(tx[t]) /\ tx[t].pc = "pay"
    BY DEF TInv, TypeOK, Charged, PlaceOrder
  <1>2. row \in Row
    BY <1>1 DEF TxRecord, Row, StoredPay, LifecycleStatus, FulfillmentStatus
  <1> HIDE DEF row
  <1>a. [tx[t].wrow EXCEPT ![o] = row] \in [Orders -> Row]
    BY <1>1, <1>2 DEF TxRecord
  <1>3. r \in TxRecord
    BY <1>1, <1>2, <1>a DEF TxRecord, Steps
  <1>b. r.rows = tx[t].rows \cup {o} /\ r.o = o
    BY <1>1 DEF TxRecord
  <1>4. /\ charged' = charged \cup {o} /\ Go(t, r)
        /\ UNCHANGED <<db, repaid, elapsed, bounds>>
    BY DEF PlaceOrder, row
  <1>5. TypeOK'
    BY <1>3, <1>4 DEF TInv, TypeOK, Go, db, bounds
  <1>6. Charged'
    <2>1. \A p \in Orders : Exists(p)' => p \in charged'
      BY <1>4 DEF TInv, Charged, Exists, db
    <2>2. r.pc = "cart" /\ r.op = tx[t].op
      BY <1>1 DEF TxRecord
    <2>3. QED
      BY <1>3, <1>4, <2>1, <2>2, <1>b DEF TInv, TypeOK, Charged, Fits, Go, OnSomeOrder
  <1>7. QED
    BY <1>5, <1>6 DEF TInv

LEMMA ConvertType == ASSUME TInv, NEW t \in Txns, ConvertCart(t) PROVE TInv'
  <1>1. tx[t] \in TxRecord /\ Fits(tx[t]) /\ tx[t].pc = "cart"
    BY DEF TInv, TypeOK, Charged, ConvertCart
  <1>2. /\ [tx[t] EXCEPT !.pc = "commit"] \in TxRecord
        /\ [tx[t] EXCEPT !.pc = "commit", !.wcart = TRUE] \in TxRecord
    BY <1>1 DEF TxRecord, Steps
  <1>3. /\ Fits([tx[t] EXCEPT !.pc = "commit"])
        /\ Fits([tx[t] EXCEPT !.pc = "commit", !.wcart = TRUE])
    BY <1>1 DEF TxRecord, Fits, OnSomeOrder
  <1>4. QED
    BY <1>2, <1>3, StatementType DEF ConvertCart

\* The cancelling calls, transitions, refunds, shipments and webhooks begin.
LEMMA OrderRequestType ==
  ASSUME TInv, NEW t \in Txns, NEW o \in Orders, OrderRequest(t, o)
  PROVE  TInv'
  <1>1. order[o] \in Row /\ order[o].cart \in Carts
    BY DEF TInv, TypeOK, Row
  <1>2. CASE Confirm(t, o)
    <2> DEFINE r == [OnOrder("confirm", o, "diff") EXCEPT
                       !.ent.status = "confirmed", !.ent.exp = FALSE]
    <2>1. Exists(o)
      BY <1>2 DEF Confirm, ValidTransitions, Exists
    <2>2. OnOrder("confirm", o, "diff") \in TxRecord /\ Fits(OnOrder("confirm", o, "diff"))
      BY <2>1, OnOrderType DEF AllOps, Steps
    <2>3. [OnOrder("confirm", o, "diff").ent EXCEPT
             !.status = "confirmed", !.exp = FALSE] \in Row
      BY <2>2 DEF TxRecord, Row, LifecycleStatus
    <2>4. r \in TxRecord /\ Fits(r)
      BY <2>2, <2>3 DEF TxRecord, Fits, OnSomeOrder
    <2>5. QED
      BY <1>2, <2>4, RequestType DEF Confirm
  <1>3. CASE Complete(t, o)
    <2> DEFINE r == [OnOrder("complete", o, "diff") EXCEPT !.ent.status = "completed"]
    <2>1. Exists(o)
      BY <1>3 DEF Complete, ValidTransitions, Exists
    <2>2. OnOrder("complete", o, "diff") \in TxRecord /\ Fits(OnOrder("complete", o, "diff"))
      BY <2>1, OnOrderType DEF AllOps, Steps
    <2>3. [OnOrder("complete", o, "diff").ent EXCEPT !.status = "completed"] \in Row
      BY <2>2 DEF TxRecord, Row, LifecycleStatus
    <2>4. r \in TxRecord /\ Fits(r)
      BY <2>2, <2>3 DEF TxRecord, Fits, OnSomeOrder
    <2>5. QED
      BY <1>3, <2>4, RequestType DEF Complete
  <1>4. CASE BeginCancel(t, o) \/ BeginCustomerCancel(t, o)
    <2>1. Exists(o)
      BY <1>4 DEF BeginCancel, BeginCustomerCancel, ValidTransitions, Exists
    <2>2. ASSUME NEW op \in {"cancel", "customerCancel"}
          PROVE  /\ [OnOrder(op, o, "items") EXCEPT !.todo = Items(order[o].cart)] \in TxRecord
                 /\ Fits([OnOrder(op, o, "items") EXCEPT !.todo = Items(order[o].cart)])
      <3>1. OnOrder(op, o, "items") \in TxRecord /\ Fits(OnOrder(op, o, "items"))
        BY <2>1, OnOrderType DEF AllOps, Steps
      <3>2. QED
        BY <3>1 DEF TxRecord, Items, Fits, OnSomeOrder
    <2>3. QED
      BY <1>4, <2>2, RequestType DEF BeginCancel, BeginCustomerCancel
  <1>5. ASSUME NEW a \in RefundAmounts, BeginRefund(t, o, a)
        PROVE  TInv'
    <2> DEFINE r == [OnOrder("refund", o, "refund") EXCEPT !.amt = a]
    <2>1. OnOrder("refund", o, "refund") \in TxRecord /\ Fits(OnOrder("refund", o, "refund"))
      BY <1>5, OnOrderType DEF AllOps, Steps, BeginRefund
    <2>2. r \in TxRecord /\ Fits(r)
      BY <2>1, InputAssumption DEF TxRecord, Fits, OnSomeOrder
    <2>3. QED
      BY <1>5, <2>2, RequestType DEF BeginRefund
  <1>6. ASSUME NEW f \in ShipLines, NEW s \in RepeatedLines, BeginShipment(t, o, f, s)
        PROVE  TInv'
    <2> DEFINE r == [OnOrder("ship", o, "shipments") EXCEPT !.line1 = f, !.line2 = s]
    <2>1. OnOrder("ship", o, "shipments") \in TxRecord /\ Fits(OnOrder("ship", o, "shipments"))
      BY <1>6, OnOrderType DEF AllOps, Steps, BeginShipment, Shippable
    <2>2. r \in TxRecord /\ Fits(r)
      BY <2>1, InputAssumption DEF TxRecord, Fits, OnSomeOrder
    <2>3. QED
      BY <1>6, <2>2, RequestType DEF BeginShipment
  <1>7. CASE BeginWebhook(t, o)
    <2> DEFINE r == [OnOrder("webhook", o, WebhookTarget(o)) EXCEPT !.ent = NoRow]
    <2>1. WebhookTarget(o) \in {"record", "hookPayment"}
      BY DEF WebhookTarget
    <2>2. r \in TxRecord
      BY <1>1, <2>1, IdleType, NoRowType DEF OnOrder, TxRecord, Steps, AllOps, Idle
    <2>3. o \in charged
      BY <1>7 DEF BeginWebhook
    <2>4. Fits(r)
      BY <2>1, <2>3 DEF Fits, OnSomeOrder, OnOrder, Idle
    <2>5. QED
      BY <1>7, <2>2, <2>4, RequestType DEF BeginWebhook
  <1>8. QED
    BY <1>2, <1>3, <1>4, <1>5, <1>6, <1>7 DEF OrderRequest

LEMMA BeginExpireType == ASSUME TInv, NEW t \in Txns, BeginExpire(t) PROVE TInv'
  <1> DEFINE r == [Idle EXCEPT !.op = "expire", !.pc = "expired"]
  <1>1. r \in TxRecord /\ Fits(r)
    BY IdleType DEF TxRecord, Steps, AllOps, Fits, OnSomeOrder, Idle
  <1>2. QED
    BY <1>1, StatementType DEF BeginExpire

LEMMA CancelledType ==
  ASSUME NEW t \in Txns, tx[t] \in TxRecord
  PROVE  Cancelled(t) \in Row
  BY DEF Cancelled, TxRecord, Row, LifecycleStatus

LEMMA RefundSeenType ==
  ASSUME TInv, NEW t \in Txns, tx[t].o \in Orders
  PROVE  RefundSeen(t, tx[t].o) \in Nat
  BY DEF TInv, TypeOK, TxRecord, RefundSeen

\* A transaction that works on one order holds a real order id.
LEMMA OrderOfTx ==
  ASSUME TInv, NEW t \in Txns, OnSomeOrder(tx[t])
  PROVE  tx[t] \in TxRecord /\ Fits(tx[t]) /\ tx[t].o \in charged /\ tx[t].o \in Orders
  BY DEF TInv, TypeOK, Charged, Fits

LEMMA SettleType ==
  ASSUME TInv, NEW t \in Txns, SettleByRefund(t) \/ SettleWithoutRefund(t)
  PROVE  TInv'
  <1>1. tx[t].pc = "settle"
    BY DEF SettleByRefund, SettleWithoutRefund
  <1>2. tx[t] \in TxRecord /\ Fits(tx[t]) /\ tx[t].o \in charged /\ tx[t].o \in Orders
    BY <1>1, OrderOfTx DEF OnSomeOrder
  <1>3. CASE SettleByRefund(t)
    <2>1. Total[tx[t].c] \in Nat /\ RefundSeen(t, tx[t].o) \in Nat
      BY <1>2, RefundSeenType, TotalAssumption DEF TxRecord
    <2>2. Total[tx[t].c] - RefundSeen(t, tx[t].o) \in Nat
      BY <1>3, <2>1 DEF SettleByRefund, HasCapturedBalance
    <2> DEFINE a == Total[tx[t].c] - RefundSeen(t, tx[t].o)
               r == [tx[t] EXCEPT !.pc = "refund", !.amt = a]
    <2>3. a \in Nat
      BY <2>2
    <2> HIDE DEF a
    <2>4. r \in TxRecord /\ Fits(r)
      BY <1>2, <2>3 DEF TxRecord, Steps, Fits, OnSomeOrder
    <2>5. QED
      BY <1>3, <2>4, StatementType DEF SettleByRefund, a
  <1>4. CASE SettleWithoutRefund(t)
    <2> DEFINE r == [tx[t] EXCEPT !.pc = "diff", !.ent = Cancelled(t)]
    <2>1. r \in TxRecord /\ Fits(r)
      BY <1>2, CancelledType DEF TxRecord, Steps, Fits, OnSomeOrder
    <2>2. QED
      BY <1>4, <2>1, StatementType DEF SettleWithoutRefund
  <1>5. QED
    BY <1>3, <1>4

LEMMA CheckRefundType == ASSUME TInv, NEW t \in Txns, CheckRefund(t) PROVE TInv'
  <1>1. tx[t] \in TxRecord /\ Fits(tx[t]) /\ tx[t].o \in charged
    BY OrderOfTx DEF OnSomeOrder, CheckRefund
  <1>2. [tx[t] EXCEPT !.pc = "send"] \in TxRecord /\ Fits([tx[t] EXCEPT !.pc = "send"])
    BY <1>1 DEF TxRecord, Steps, Fits, OnSomeOrder
  <1>3. QED
    BY <1>2, StatementType DEF CheckRefund

LEMMA SendRefundType == ASSUME TInv, NEW t \in Txns, SendRefund(t) PROVE TInv'
  <1> DEFINE r == [tx[t] EXCEPT !.ref[tx[t].o] = @ + tx[t].amt]
             e == [Cancelled(t) EXCEPT !.pay = "refunded"]
             q == IF r.op = "refund" THEN [r EXCEPT !.pc = "label"]
                  ELSE [r EXCEPT !.pc = "diff", !.ent = e]
  <1>1. tx[t] \in TxRecord /\ Fits(tx[t]) /\ tx[t].o \in charged /\ tx[t].o \in Orders
    BY OrderOfTx DEF OnSomeOrder, SendRefund
  <1>2. /\ [tx[t].ref EXCEPT ![tx[t].o] = @ + tx[t].amt] \in [Orders -> Nat]
        /\ [repaid EXCEPT ![tx[t].o] = @ + tx[t].amt] \in [Orders -> Nat]
    BY <1>1 DEF TxRecord, TInv, TypeOK
  <1>3. r \in TxRecord /\ r.rows = tx[t].rows /\ r.o = tx[t].o
    BY <1>1, <1>2 DEF TxRecord
  <1>4. e \in Row
    BY <1>1, CancelledType DEF Row, StoredPay
  <1>5. /\ Go(t, q) /\ UNCHANGED <<db, charged, elapsed, bounds>>
        /\ repaid' = [repaid EXCEPT ![tx[t].o] = @ + tx[t].amt]
    BY DEF SendRefund
  <1> HIDE DEF r, e
  <1>6. q \in TxRecord
    BY ZenonT(30), <1>3, <1>4 DEF TxRecord, Steps
  <1>7. Fits(q)
    BY <1>1, <1>3 DEF TxRecord, Fits
  <1> HIDE DEF q
  <1>8. QED
    BY <1>2, <1>5, <1>6, <1>7
    DEF TInv, TypeOK, Charged, Fits, Go, db, bounds, Exists, OnSomeOrder

LEMMA LabelRefundType == ASSUME TInv, NEW t \in Txns, LabelRefund(t) PROVE TInv'
  <1> DEFINE p == IF FullyRefunded(t) THEN "refunded" ELSE "partially_refunded"
             r == [tx[t] EXCEPT !.pc = "diff", !.ent.pay = p]
  <1>1. tx[t] \in TxRecord /\ Fits(tx[t]) /\ tx[t].o \in charged
    BY OrderOfTx DEF OnSomeOrder, LabelRefund
  <1>2. [tx[t].ent EXCEPT !.pay = p] \in Row
    BY <1>1 DEF TxRecord, Row, StoredPay
  <1>3. r \in TxRecord /\ Fits(r)
    BY <1>1, <1>2 DEF TxRecord, Steps, Fits, OnSomeOrder
  <1>4. QED
    BY <1>3, StatementType DEF LabelRefund

LEMMA InsertShipmentType == ASSUME TInv, NEW t \in Txns, InsertShipment(t) PROVE TInv'
  <1> DEFINE f == DeriveFulfillment(Basket[tx[t].c], AllShipped(t))
             s == IF f = "fulfilled" THEN "completed" ELSE tx[t].ent.status
             r == [tx[t] EXCEPT !.pc = "diff", !.ent.ful = f, !.ent.status = s]
  <1>1. tx[t] \in TxRecord /\ Fits(tx[t]) /\ tx[t].o \in charged
    BY OrderOfTx DEF OnSomeOrder, InsertShipment
  <1>2. f \in FulfillmentStatus
    BY DEF DeriveFulfillment, FulfillmentStatus
  <1>3. InsertShipment(t) => Statement(t, r)
    BY <1>1 DEF InsertShipment, TxRecord, Row
  <1> HIDE DEF f
  <1>4. [tx[t].ent EXCEPT !.ful = f, !.status = s] \in Row
    BY <1>1, <1>2 DEF TxRecord, Row, LifecycleStatus
  <1>5. r \in TxRecord /\ Fits(r)
    BY <1>1, <1>4 DEF TxRecord, Steps, Fits, OnSomeOrder
  <1>6. QED
    BY <1>3, <1>5, StatementType

LEMMA HookType ==
  ASSUME TInv, NEW t \in Txns, HookPayment(t) \/ HookOrder(t) \/ RecordEvent(t)
  PROVE  TInv'
  <1>1. tx[t] \in TxRecord /\ Fits(tx[t]) /\ tx[t].o \in charged /\ tx[t].o \in Orders
    BY OrderOfTx DEF OnSomeOrder, HookPayment, HookOrder, RecordEvent
  <1>2. CASE HookPayment(t)
    <2> DEFINE r == [tx[t] EXCEPT !.pc = "hookOrder"]
    <2>1. r \in TxRecord /\ Fits(r)
      BY <1>1 DEF TxRecord, Steps, Fits, OnSomeOrder
    <2>2. /\ [r EXCEPT !.wpay = "captured"] \in TxRecord
          /\ Fits([r EXCEPT !.wpay = "captured"])
      BY <1>1 DEF TxRecord, Steps, Fits, OnSomeOrder
    <2>3. QED
      BY <1>2, <2>1, <2>2, StatementType DEF HookPayment
  <1>3. CASE HookOrder(t)
    <2> DEFINE row == order[tx[t].o]
               s   == IF row.status = "pending" THEN "confirmed" ELSE row.status
               e   == [row EXCEPT !.pay = "captured", !.status = s]
    <2>1. row \in Row
      BY <1>1 DEF TInv, TypeOK
    <2>2. e \in Row
      BY <2>1 DEF Row, StoredPay, LifecycleStatus
    <2>3. HookOrder(t) => \/ Statement(t, [tx[t] EXCEPT !.pc = "record", !.ent = row])
                          \/ Statement(t, [tx[t] EXCEPT !.pc = "diff", !.ent = e])
      BY <2>1 DEF HookOrder, Row
    <2> HIDE DEF e, row
    <2>4. /\ [tx[t] EXCEPT !.pc = "record", !.ent = row] \in TxRecord
          /\ Fits([tx[t] EXCEPT !.pc = "record", !.ent = row])
      BY <1>1, <2>1 DEF TxRecord, Steps, Fits, OnSomeOrder
    <2>5. /\ [tx[t] EXCEPT !.pc = "diff", !.ent = e] \in TxRecord
          /\ Fits([tx[t] EXCEPT !.pc = "diff", !.ent = e])
      BY <1>1, <2>2 DEF TxRecord, Steps, Fits, OnSomeOrder
    <2>6. QED
      BY <1>3, <2>3, <2>4, <2>5, StatementType
  <1>4. CASE RecordEvent(t)
    <2>1. /\ [tx[t] EXCEPT !.pc = "commit", !.rec = TRUE] \in TxRecord
          /\ Fits([tx[t] EXCEPT !.pc = "commit", !.rec = TRUE])
      BY <1>1 DEF TxRecord, Steps, Fits, OnSomeOrder
    <2>2. QED
      BY <1>4, <2>1, StatementType DEF RecordEvent
  <1>5. QED
    BY <1>2, <1>3, <1>4

LEMMA MergeType ==
  ASSUME NEW row \in Row, NEW ent \in Row, NEW cols
  PROVE  Merge(row, ent, cols) \in Row
  BY DEF Merge, Row

LEMMA RowSeenType ==
  ASSUME TInv, NEW t \in Txns, NEW o \in Orders
  PROVE  RowSeen(t, o) \in Row
  BY DEF TInv, TypeOK, TxRecord, RowSeen

LEMMA SaveType ==
  ASSUME TInv, NEW t \in Txns, ComputeDiff(t) \/ UpdateRow(t)
  PROVE  TInv'
  <1>1. tx[t] \in TxRecord /\ Fits(tx[t]) /\ tx[t].o \in charged /\ tx[t].o \in Orders
    BY OrderOfTx DEF OnSomeOrder, ComputeDiff, UpdateRow
  <1>2. AfterSave(t) \in {"record", "commit"}
    BY DEF AfterSave
  <1>3. CASE ComputeDiff(t)
    <2> DEFINE d  == { col \in Columns : tx[t].ent[col] # RowSeen(t, tx[t].o)[col] }
               pc == IF d = {} THEN AfterSave(t) ELSE "row"
               r  == [tx[t] EXCEPT !.diff = d, !.pc = pc]
    <2>1. d \in SUBSET Columns /\ pc \in {"record", "commit", "row"}
      BY <1>2
    <2>2. ComputeDiff(t) => Statement(t, r)
      BY DEF ComputeDiff
    <2> HIDE DEF d, pc
    <2>3. r \in TxRecord /\ Fits(r)
      BY <1>1, <2>1 DEF TxRecord, Steps, Fits, OnSomeOrder
    <2>4. QED
      BY <1>3, <2>2, <2>3, StatementType
  <1>4. CASE UpdateRow(t)
    <2> DEFINE o == tx[t].o
               m == Merge(RowSeen(t, o), tx[t].ent, tx[t].diff)
               r == [tx[t] EXCEPT !.pc = AfterSave(t), !.rows = @ \cup {o}, !.wrow[o] = m]
    <2>1. m \in Row
      BY <1>1, RowSeenType, MergeType DEF TxRecord
    <2>2. UpdateRow(t) => Statement(t, r)
      BY DEF UpdateRow
    <2> HIDE DEF m
    <2>3. [tx[t].wrow EXCEPT ![o] = m] \in [Orders -> Row]
      BY <1>1, <2>1 DEF TxRecord
    <2>4. r \in TxRecord
      BY <1>1, <1>2, <2>3 DEF TxRecord, Steps
    <2>5. Fits(r)
      BY <1>1, <1>2 DEF TxRecord, Fits, OnSomeOrder
    <2>6. QED
      BY <1>4, <2>2, <2>4, <2>5, StatementType
  <1>5. QED
    BY <1>3, <1>4

LEMMA CommitType == ASSUME TInv, NEW t \in Txns, Commit(t) PROVE TInv'
  <1>1. tx[t] \in TxRecord /\ Fits(tx[t]) /\ tx[t].o \in charged /\ tx[t].o \in Orders
    BY OrderOfTx DEF OnSomeOrder, Commit
  <1>2. stock' \in [Variants -> Nat] /\ moved' \in [Variants -> Int]
    BY <1>1 DEF Commit, TInv, TypeOK, TxRecord, StockSeen
  <1>3. order' \in [Orders -> Row]
    BY RowSeenType DEF Commit
  <1>4. refund' \in [Orders -> Nat]
    BY <1>1 DEF Commit, TInv, TypeOK, TxRecord, RefundSeen
  <1>5. sent' \in [Orders -> [Variants -> Nat]]
    BY <1>1 DEF Commit, TInv, TypeOK, TxRecord
  <1>6. /\ cart' \in [Carts -> {"active", "converted"}]
        /\ payment' \in [Orders -> {"none", "pending", "captured"}]
        /\ settled' \subseteq Orders
        /\ events' \in [Orders -> Nat]
    BY <1>1 DEF Commit, TInv, TypeOK, TxRecord
  <1>7. tx' = [tx EXCEPT ![t] = Idle] /\ UNCHANGED <<charged, repaid, elapsed, bounds>>
    BY DEF Commit, Go
  <1>8. TypeOK'
    BY <1>2, <1>3, <1>4, <1>5, <1>6, <1>7, IdleType DEF TInv, TypeOK, bounds
  <1>9. Charged'
    <2>1. \A o \in Orders : Exists(o)' => o \in charged'
      BY <1>1, <1>7 DEF Commit, Exists, RowSeen, TInv, Charged, Fits
    <2>2. QED
      BY <1>7, <2>1, IdleType DEF TInv, TypeOK, Charged, Fits
  <1>10. QED
    BY <1>8, <1>9 DEF TInv

LEMMA AbortType == ASSUME TInv, NEW t \in Txns, Abort(t) PROVE TInv'
  BY IdleType DEF TInv, TypeOK, Charged, Fits, Abort, Go, db, Exists, OnSomeOrder

LEMMA ElapseType == ASSUME TInv, NEW o \in Orders, Elapse(o) PROVE TInv'
  BY DEF TInv, TypeOK, Charged, Fits, Elapse, db, bounds, Exists, OnSomeOrder

LEMMA RunType == ASSUME TInv, NEW t \in Txns, Run(t) PROVE TInv'
  <1>1. ASSUME NEW v \in Variants, TakeStock(t, v) \/ RestoreStock(t, v) PROVE TInv'
    BY <1>1, LockType DEF TakeStock, RestoreStock, NextLine
  <1>2. CASE \/ \E v \in Variants : InsufficientStock(t, v)
             \/ PaymentDeclined(t) \/ RefundRejected(t) \/ ShipmentRejected(t)
             \/ DuplicateEvent(t) \/ ExpiryRefused(t)
    BY <1>2, FailType DEF InsufficientStock, PaymentDeclined, RefundRejected,
                          ShipmentRejected, DuplicateEvent, ExpiryRefused
  <1>3. CASE \E o \in Orders, result \in {"captured", "pending"} : PlaceOrder(t, o, result)
    BY <1>3, PlaceType
  <1>4. CASE \/ ConvertCart(t) \/ SettleByRefund(t) \/ SettleWithoutRefund(t)
             \/ CheckRefund(t) \/ SendRefund(t) \/ LabelRefund(t) \/ InsertShipment(t)
    BY <1>4, ConvertType, SettleType, CheckRefundType, SendRefundType, LabelRefundType,
       InsertShipmentType
  <1>5. CASE \/ HookPayment(t) \/ HookOrder(t) \/ RecordEvent(t)
             \/ ComputeDiff(t) \/ UpdateRow(t) \/ Commit(t)
    BY <1>5, HookType, SaveType, CommitType
  <1>6. QED
    BY <1>1, <1>2, <1>3, <1>4, <1>5 DEF Run

LEMMA TypeNext == TInv /\ [Next]_vars => TInv'
  <1> SUFFICES ASSUME TInv, [Next]_vars PROVE TInv'
    OBVIOUS
  <1>1. ASSUME NEW t \in Txns,
               \/ \E c \in Carts : BeginCheckout(t, c)
               \/ \E o \in Orders : OrderRequest(t, o)
               \/ BeginExpire(t) \/ Run(t) \/ Abort(t)
        PROVE  TInv'
    BY <1>1, CheckoutType, OrderRequestType, BeginExpireType, RunType, AbortType
  <1>2. ASSUME NEW o \in Orders, Elapse(o) PROVE TInv'
    BY <1>2, ElapseType
  <1>3. CASE UNCHANGED vars
    BY <1>3 DEF vars, db, bounds, TInv, TypeOK, Charged, Fits, Exists, OnSomeOrder
  <1>4. QED
    BY <1>1, <1>2, <1>3 DEF Next

LEMMA TypeAlways == Spec => []TInv
  <1>1. QED
    BY TypeInit, TypeNext, PTL DEF Spec

(* Type correctness: whatever checkouts, cancellations, refunds, shipments,    *)
(* webhooks and crashes interleave, no variant's stock becomes negative and    *)
(* every stored status is one the code's tables know.                          *)
THEOREM TypeCorrect == Spec => []TypeOK
  <1>1. TInv => TypeOK
    BY DEF TInv
  <1>2. QED
    BY <1>1, TypeAlways, PTL

--------------------------------------------------------------------------------
(* What transactions hold.                                                     *)

\* What a transaction knows of the committed rows it has locked or written.
Own(r) ==
  /\ \A v \in Variants : IF v \in r.held THEN r.wrote[v] = stock[v] - r.net[v]
                                         ELSE r.net[v] = 0
  /\ r.pc = "pay" => r.op = "checkout"
  /\ r.rec => r.pc = "commit" /\ events[r.o] = 0

\* No two transactions hold the same row.
Apart(r, s) == /\ r.held \cap s.held = {} /\ r.rows \cap s.rows = {}
               /\ r.rec /\ s.rec => r.o # s.o

AllApart == \A t, u \in Txns : t # u => Apart(tx[t], tx[u])

LockInv == /\ TInv /\ AllApart /\ StockLedger /\ EventOnce
           /\ \A t \in Txns : Own(tx[t])

LEMMA LockInit == Init => LockInv
  <1> SUFFICES ASSUME Init PROVE LockInv
    OBVIOUS
  <1>1. \A t \in Txns : Own(tx[t])
    BY DEF Init, Own, Idle, NoLines, OnSomeOrder
  <1>2. AllApart
    BY DEF Init, AllApart, Apart, Idle
  <1>3. StockLedger /\ EventOnce
    BY StockAssumption DEF Init, StockLedger, EventOnce, NoLines
  <1>4. QED
    BY <1>1, <1>2, <1>3, TypeInit DEF LockInv

\* Nothing committed changes and only tx[t] does, keeping what it must.
LEMMA LocalStep ==
  ASSUME LockInv, TInv', NEW t \in Txns, NEW r,
         tx' = [tx EXCEPT ![t] = r], UNCHANGED <<stock, order, events, moved>>,
         Own(r), \A u \in Txns \ {t} : Apart(r, tx[u])
  PROVE  LockInv'
  <1>1. tx'[t] = r /\ \A u \in Txns \ {t} : tx'[u] = tx[u]
    BY DEF LockInv, TInv, TypeOK
  <1>2. \A u \in Txns : Own(tx[u])'
    <2> SUFFICES ASSUME NEW u \in Txns PROVE Own(tx[u])'
      OBVIOUS
    <2>1. Own(tx'[u])
      BY <1>1 DEF LockInv
    <2>2. QED
      BY <2>1 DEF Own, OnSomeOrder
  <1>3. AllApart'
    BY <1>1 DEF LockInv, AllApart, Apart
  <1>4. (StockLedger /\ EventOnce)'
    BY DEF LockInv, StockLedger, EventOnce
  <1>5. QED
    BY <1>2, <1>3, <1>4 DEF LockInv

\* A record that holds nothing.
Fresh(r) == /\ r.held = {} /\ r.net = NoLines /\ r.rows = {} /\ ~r.rec
            /\ r.pc # "pay"

LEMMA FreshStep ==
  ASSUME LockInv, TInv', NEW t \in Txns, NEW r, Fresh(r),
         tx' = [tx EXCEPT ![t] = r], UNCHANGED <<stock, order, events, moved>>
  PROVE  LockInv'
  <1>1. Own(r) /\ \A u \in Txns \ {t} : Apart(r, tx[u])
    BY DEF Fresh, Own, Apart, NoLines
  <1>2. QED
    BY <1>1, LocalStep

LEMMA IdleFresh == Fresh(Idle)
  BY DEF Fresh, Idle

\* A record that holds what tx[t] holds.
Quiet(t, r) == /\ r.held = tx[t].held /\ r.wrote = tx[t].wrote /\ r.net = tx[t].net
               /\ r.rows = tx[t].rows /\ r.op = tx[t].op /\ ~r.rec
               /\ r.pc # "pay" /\ (OnSomeOrder(r) => r.o = tx[t].o)

LEMMA QuietStep ==
  ASSUME LockInv, TInv', NEW t \in Txns, NEW r, Quiet(t, r), OnSomeOrder(tx[t]),
         tx' = [tx EXCEPT ![t] = r], UNCHANGED <<stock, order, events, moved>>
  PROVE  LockInv'
  <1>1. Own(tx[t]) /\ \A u \in Txns \ {t} : Apart(tx[t], tx[u])
    BY DEF LockInv, AllApart
  <1>2. Own(r)
    BY <1>1 DEF Quiet, Own
  <1>3. \A u \in Txns \ {t} : Apart(r, tx[u])
    BY <1>1 DEF Quiet, Apart
  <1>4. QED
    BY <1>2, <1>3, LocalStep

\* Only the recording of an event, once it is made, carries rec.
LEMMA NotRecorded ==
  ASSUME LockInv, NEW t \in Txns, tx[t].pc # "commit"
  PROVE  ~tx[t].rec
  BY DEF LockInv, Own
--------------------------------------------------------------------------------
(* Each action keeps LockInv.                                                  *)

LEMMA FailLock == ASSUME LockInv, TInv', NEW t \in Txns, Fail(t) PROVE LockInv'
  BY IdleFresh, FreshStep DEF Fail, Statement, Go, db

LEMMA AbortLock ==
  ASSUME LockInv, TInv', NEW t \in Txns, Abort(t)
  PROVE  LockInv'
  BY IdleFresh, FreshStep DEF Abort, Go, db

LEMMA RequestLock ==
  ASSUME LockInv, TInv', NEW t \in Txns, NEW r, Fresh(r), Request(t, r)
  PROVE  LockInv'
  BY FreshStep DEF Request, Go, db

LEMMA BeginLock ==
  ASSUME LockInv, TInv', NEW t \in Txns,
         \/ \E c \in Carts : BeginCheckout(t, c)
         \/ \E o \in Orders : OrderRequest(t, o)
  PROVE  LockInv'
  <1>1. ASSUME NEW c \in Carts, BeginCheckout(t, c) PROVE LockInv'
    <2> DEFINE r == [Idle EXCEPT !.pc = "items", !.op = "checkout", !.c = c, !.todo = Items(c)]
    <2>1. Fresh(r)
      BY DEF Fresh, Idle
    <2>2. QED
      BY <1>1, <2>1, RequestLock DEF BeginCheckout
  <1>2. ASSUME NEW o \in Orders, OrderRequest(t, o) PROVE LockInv'
    <2>2. CASE Confirm(t, o) \/ Complete(t, o)
      <3>1. /\ Fresh([OnOrder("confirm", o, "diff") EXCEPT
                        !.ent.status = "confirmed", !.ent.exp = FALSE])
            /\ Fresh([OnOrder("complete", o, "diff") EXCEPT !.ent.status = "completed"])
        BY DEF Fresh, OnOrder, Idle
      <3>2. QED
        BY <2>2, <3>1, RequestLock DEF Confirm, Complete
    <2>3. CASE BeginCancel(t, o) \/ BeginCustomerCancel(t, o)
      <3>1. \A op \in {"cancel", "customerCancel"} :
              Fresh([OnOrder(op, o, "items") EXCEPT !.todo = Items(order[o].cart)])
        BY DEF Fresh, OnOrder, Idle
      <3>2. QED
        BY <2>3, <3>1, RequestLock DEF BeginCancel, BeginCustomerCancel
    <2>4. ASSUME NEW a \in RefundAmounts, BeginRefund(t, o, a) PROVE LockInv'
      <3>1. Fresh([OnOrder("refund", o, "refund") EXCEPT !.amt = a])
        BY DEF Fresh, OnOrder, Idle
      <3>2. QED
        BY <2>4, <3>1, RequestLock DEF BeginRefund
    <2>5. ASSUME NEW f \in ShipLines, NEW s \in RepeatedLines, BeginShipment(t, o, f, s)
          PROVE  LockInv'
      <3>1. Fresh([OnOrder("ship", o, "shipments") EXCEPT !.line1 = f, !.line2 = s])
        BY DEF Fresh, OnOrder, Idle
      <3>2. QED
        BY <2>5, <3>1, RequestLock DEF BeginShipment
    <2>6. CASE BeginWebhook(t, o)
      <3>1. WebhookTarget(o) # "pay"
        BY DEF WebhookTarget
      <3>2. Fresh([OnOrder("webhook", o, WebhookTarget(o)) EXCEPT !.ent = NoRow])
        BY <3>1 DEF Fresh, OnOrder, Idle
      <3>3. QED
        BY <2>6, <3>2, RequestLock DEF BeginWebhook
    <2>7. QED
      BY <1>2, <2>2, <2>3, <2>4, <2>5, <2>6 DEF OrderRequest
  <1>3. QED
    BY <1>1, <1>2

LEMMA QuietStatement ==
  ASSUME LockInv, TInv', NEW t \in Txns, NEW r, Quiet(t, r), OnSomeOrder(tx[t]),
         Statement(t, r)
  PROVE  LockInv'
  BY QuietStep DEF Statement, Go, db

LEMMA QuietLock ==
  ASSUME LockInv, TInv', NEW t \in Txns,
         \/ ConvertCart(t) \/ SettleByRefund(t) \/ SettleWithoutRefund(t)
         \/ CheckRefund(t) \/ LabelRefund(t) \/ InsertShipment(t)
         \/ HookPayment(t) \/ HookOrder(t) \/ ComputeDiff(t)
  PROVE  LockInv'
  <1>1. /\ tx[t] \in TxRecord /\ OnSomeOrder(tx[t]) /\ tx[t].pc # "commit"
    BY DEF LockInv, TInv, TypeOK, OnSomeOrder, ConvertCart, SettleByRefund,
           SettleWithoutRefund, CheckRefund, LabelRefund, InsertShipment, HookPayment,
           HookOrder, ComputeDiff
  <1>2. ~tx[t].rec
    BY <1>1, NotRecorded
  <1>3. ASSUME NEW pc \in Steps \ {"pay"}
        PROVE  /\ Quiet(t, [tx[t] EXCEPT !.pc = pc])
               /\ Quiet(t, [tx[t] EXCEPT !.pc = pc, !.wcart = TRUE])
               /\ \A p : Quiet(t, [tx[t] EXCEPT !.pc = pc, !.wpay = p])
               /\ \A a : Quiet(t, [tx[t] EXCEPT !.pc = pc, !.amt = a])
               /\ \A e : Quiet(t, [tx[t] EXCEPT !.pc = pc, !.ent = e])
               /\ \A d : Quiet(t, [tx[t] EXCEPT !.diff = d, !.pc = pc])
    BY <1>1, <1>2 DEF Quiet, TxRecord
  <1>4. CASE ConvertCart(t)
    BY <1>1, <1>3, <1>4, QuietStatement DEF ConvertCart, Steps
  <1>5. CASE SettleByRefund(t) \/ SettleWithoutRefund(t) \/ CheckRefund(t)
    BY <1>1, <1>3, <1>5, QuietStatement
    DEF SettleByRefund, SettleWithoutRefund, CheckRefund, Steps
  <1>6. CASE LabelRefund(t)
    <2> DEFINE p == IF FullyRefunded(t) THEN "refunded" ELSE "partially_refunded"
    <2>1. Quiet(t, [tx[t] EXCEPT !.pc = "diff", !.ent.pay = p])
      BY <1>1, <1>2 DEF Quiet, TxRecord
    <2>2. QED
      BY <1>1, <1>6, <2>1, QuietStatement DEF LabelRefund
  <1>7. CASE InsertShipment(t)
    <2> DEFINE f == DeriveFulfillment(Basket[tx[t].c], AllShipped(t))
               s == IF f = "fulfilled" THEN "completed" ELSE tx[t].ent.status
               r == [tx[t] EXCEPT !.pc = "diff", !.ent.ful = f, !.ent.status = s]
    <2>1. Statement(t, r)
      BY <1>1, <1>7 DEF InsertShipment, TxRecord, Row
    <2> HIDE DEF f, s
    <2>2. Quiet(t, r)
      BY <1>1, <1>2 DEF Quiet, TxRecord
    <2>3. QED
      BY <1>1, <2>1, <2>2, QuietStatement
  <1>8. CASE HookPayment(t)
    <2>1. \/ Statement(t, [tx[t] EXCEPT !.pc = "hookOrder"])
          \/ Statement(t, [[tx[t] EXCEPT !.pc = "hookOrder"] EXCEPT !.wpay = "captured"])
      BY <1>8 DEF HookPayment
    <2>2. Quiet(t, [[tx[t] EXCEPT !.pc = "hookOrder"] EXCEPT !.wpay = "captured"])
      BY <1>1, <1>2 DEF Quiet, TxRecord
    <2>3. QED
      BY <1>1, <1>3, <2>1, <2>2, QuietStatement DEF Steps
  <1>9. CASE HookOrder(t)
    <2>1. \E pc \in {"record", "diff"} : \E e : Statement(t, [tx[t] EXCEPT !.pc = pc, !.ent = e])
      BY <1>9 DEF HookOrder
    <2>2. QED
      BY <1>1, <1>3, <2>1, QuietStatement DEF Steps
  <1>10. CASE ComputeDiff(t)
    <2>1. \E d, pc : /\ pc \in Steps \ {"pay"}
                     /\ Statement(t, [tx[t] EXCEPT !.diff = d, !.pc = pc])
      BY <1>10 DEF ComputeDiff, AfterSave, Steps
    <2>2. QED
      BY <1>1, <1>3, <2>1, QuietStatement
  <1>11. QED
    BY <1>4, <1>5, <1>6, <1>7, <1>8, <1>9, <1>10

LEMMA SendRefundLock == ASSUME LockInv, TInv', NEW t \in Txns, SendRefund(t) PROVE LockInv'
  <1>1. tx[t] \in TxRecord /\ OnSomeOrder(tx[t]) /\ ~tx[t].rec
    BY NotRecorded DEF LockInv, TInv, TypeOK, OnSomeOrder, SendRefund
  <1>2. \E f, e, pc : /\ pc \in {"label", "diff"}
                      /\ tx' = [tx EXCEPT ![t] = [tx[t] EXCEPT !.ref = f, !.ent = e, !.pc = pc]]
    <2> DEFINE f == [tx[t].ref EXCEPT ![tx[t].o] = @ + tx[t].amt]
               e == [Cancelled(t) EXCEPT !.pay = "refunded"]
    <2>1. CASE tx[t].op = "refund"
      <3>1. tx' = [tx EXCEPT ![t] = [tx[t] EXCEPT !.ref = f, !.pc = "label"]]
        BY <1>1, <2>1 DEF SendRefund, Go, TxRecord
      <3>2. [tx[t] EXCEPT !.ref = f, !.pc = "label"] =
            [tx[t] EXCEPT !.ref = f, !.ent = tx[t].ent, !.pc = "label"]
        BY <1>1 DEF TxRecord
      <3>3. QED
        BY <3>1, <3>2
    <2>2. CASE tx[t].op # "refund"
      <3>1. tx' = [tx EXCEPT ![t] = [tx[t] EXCEPT !.ref = f, !.ent = e, !.pc = "diff"]]
        BY <1>1, <2>2 DEF SendRefund, Go, TxRecord
      <3>2. QED
        BY <3>1
    <2>3. QED
      BY <2>1, <2>2
  <1>3. \A f, e, pc : pc \in {"label", "diff"} =>
          Quiet(t, [tx[t] EXCEPT !.ref = f, !.ent = e, !.pc = pc])
    BY <1>1 DEF Quiet, TxRecord
  <1>4. QED
    BY ZenonT(30), <1>1, <1>2, <1>3, QuietStep DEF SendRefund, db

LEMMA LockVariantLock ==
  ASSUME LockInv, TInv', NEW t \in Txns, NEW v \in Variants,
         TakeStock(t, v) \/ RestoreStock(t, v)
  PROVE  LockInv'
  <1>1. /\ tx[t] \in TxRecord /\ stock \in [Variants -> Nat]
        /\ tx[t].pc = "items" /\ v \in tx[t].todo /\ StockFree(t, v) /\ ~tx[t].rec
    BY NotRecorded DEF LockInv, TInv, TypeOK, TakeStock, RestoreStock, NextLine, LockVariant
  <1>2. Basket[tx[t].c][v] \in Nat
    BY <1>1, BasketAssumption DEF TxRecord
  <1>3. ASSUME NEW change \in Int, NEW after \in {"pay", "settle"},
               after = "pay" <=> tx[t].op = "checkout",
               LockVariant(t, v, change, after)
        PROVE  LockInv'
    <2> DEFINE w == [tx[t].wrote EXCEPT ![v] = StockSeen(t, v) + change]
               n == [tx[t].net EXCEPT ![v] = @ - change]
               p == IF tx[t].todo = {v} THEN after ELSE "items"
               r == [tx[t] EXCEPT !.todo = @ \ {v}, !.held = @ \cup {v},
                                  !.wrote = w, !.net = n, !.pc = p]
    <2>1. Statement(t, r)
      BY <1>1, <1>3 DEF LockVariant, TxRecord
    <2>2. /\ r.held = tx[t].held \cup {v} /\ r.wrote = w /\ r.net = n /\ r.pc = p
          /\ r.op = tx[t].op /\ r.o = tx[t].o /\ r.rows = tx[t].rows /\ ~r.rec
      BY <1>1 DEF TxRecord
    <2> HIDE DEF r
    <2>3. \A x \in Variants : IF x \in r.held THEN r.wrote[x] = stock[x] - r.net[x]
                                              ELSE r.net[x] = 0
      <3> SUFFICES ASSUME NEW x \in Variants
                   PROVE  IF x \in r.held THEN r.wrote[x] = stock[x] - r.net[x]
                                          ELSE r.net[x] = 0
        OBVIOUS
      <3>1. IF x \in tx[t].held THEN tx[t].wrote[x] = stock[x] - tx[t].net[x]
                                ELSE tx[t].net[x] = 0
        BY DEF LockInv, Own
      <3>2. /\ tx[t].net[x] \in Int /\ tx[t].wrote[x] \in Int /\ stock[x] \in Int
            /\ tx[t].wrote \in [Variants -> Nat] /\ tx[t].net \in [Variants -> Int]
        BY <1>1 DEF TxRecord
      <3>3. CASE x = v
        BY <1>3, <2>2, <3>1, <3>2, <3>3 DEF StockSeen
      <3>4. CASE x # v
        BY <2>2, <3>1, <3>2, <3>4
      <3>5. QED
        BY <3>3, <3>4
    <2>4. Own(r)
      <3>1. Own(tx[t])
        BY DEF LockInv
      <3>2. r.pc = "pay" => r.op = "checkout"
        BY <1>3, <2>2
      <3>3. QED
        BY <2>2, <2>3, <3>1, <3>2 DEF Own
    <2>5. \A u \in Txns \ {t} : Apart(r, tx[u])
      BY <1>1, <2>2 DEF LockInv, AllApart, Apart, StockFree
    <2>6. QED
      BY <2>1, <2>4, <2>5, LocalStep DEF Statement, Go, db
  <1>4. QED
    BY <1>2, <1>3 DEF TakeStock, RestoreStock

LEMMA PlaceLock ==
  ASSUME LockInv, TInv', NEW t \in Txns, NEW o \in Orders,
         NEW result \in {"captured", "pending"}, PlaceOrder(t, o, result)
  PROVE  LockInv'
  <1>1. /\ tx[t] \in TxRecord /\ Fits(tx[t]) /\ tx[t].pc = "pay" /\ tx[t].op = "checkout"
        /\ o \notin charged /\ ~tx[t].rec
    BY NotRecorded DEF LockInv, TInv, TypeOK, Charged, Own, PlaceOrder
  <1> DEFINE paid == result = "captured"
             row  == [status |-> IF paid THEN "confirmed" ELSE "pending",
                      pay |-> result, exp |-> ~paid, ful |-> "unfulfilled",
                      cart |-> tx[t].c]
             r    == [tx[t] EXCEPT !.pc = "cart", !.o = o, !.ent = row, !.rows = @ \cup {o},
                                   !.wrow[o] = row, !.wpay = result]
  <1>2. tx' = [tx EXCEPT ![t] = r] /\ UNCHANGED <<stock, order, events, moved>>
    BY DEF PlaceOrder, Go, db
  <1> HIDE DEF row
  <1>3. /\ r.held = tx[t].held /\ r.wrote = tx[t].wrote /\ r.net = tx[t].net
        /\ r.rows = tx[t].rows \cup {o} /\ r.op = "checkout" /\ r.pc = "cart" /\ ~r.rec
    BY <1>1 DEF TxRecord
  <1> HIDE DEF r
  <1>4. Own(r)
    BY <1>3 DEF LockInv, Own
  <1>5. \A u \in Txns \ {t} : Apart(r, tx[u])
    BY <1>1, <1>3 DEF LockInv, TInv, Charged, Fits, AllApart, Apart
  <1>6. QED
    BY <1>2, <1>4, <1>5, LocalStep

LEMMA ExpireLock == ASSUME LockInv, TInv', NEW t \in Txns, BeginExpire(t) PROVE LockInv'
  <1>1. Fresh([Idle EXCEPT !.op = "expire", !.pc = "expired"])
    BY DEF Fresh, Idle
  <1>2. QED
    BY <1>1, FreshStep DEF BeginExpire, Statement, Go, db

LEMMA UpdateRowLock == ASSUME LockInv, TInv', NEW t \in Txns, UpdateRow(t) PROVE LockInv'
  <1> DEFINE o == tx[t].o
             m == Merge(RowSeen(t, o), tx[t].ent, tx[t].diff)
             r == [tx[t] EXCEPT !.pc = AfterSave(t), !.rows = @ \cup {o}, !.wrow[o] = m]
  <1>1. /\ tx[t] \in TxRecord /\ OnSomeOrder(tx[t]) /\ ~tx[t].rec
        /\ Own(tx[t]) /\ RowFree(t, tx[t].o)
        /\ \A u \in Txns \ {t} : Apart(tx[t], tx[u])
    BY NotRecorded DEF LockInv, TInv, TypeOK, OnSomeOrder, AllApart, UpdateRow
  <1>2. Statement(t, r)
    BY DEF UpdateRow
  <1>3. AfterSave(t) \in {"record", "commit"}
    BY DEF AfterSave
  <1> HIDE DEF m
  <1>4. /\ r.held = tx[t].held /\ r.wrote = tx[t].wrote /\ r.net = tx[t].net
        /\ r.rows = tx[t].rows \cup {tx[t].o} /\ r.op = tx[t].op /\ r.o = tx[t].o
        /\ r.pc # "pay" /\ ~r.rec
    BY <1>1, <1>3 DEF TxRecord
  <1> HIDE DEF r
  <1>5. Own(r)
    BY <1>1, <1>4 DEF Own
  <1>6. \A u \in Txns \ {t} : Apart(r, tx[u])
    BY <1>1, <1>4 DEF Apart, RowFree
  <1>7. QED
    BY <1>2, <1>5, <1>6, LocalStep DEF Statement, Go, db

LEMMA RecordLock == ASSUME LockInv, TInv', NEW t \in Txns, RecordEvent(t) PROVE LockInv'
  <1> DEFINE r == [tx[t] EXCEPT !.pc = "commit", !.rec = TRUE]
  <1>1. /\ tx[t] \in TxRecord /\ OnSomeOrder(tx[t]) /\ Own(tx[t]) /\ EventFree(t)
        /\ events[tx[t].o] = 0 /\ \A u \in Txns \ {t} : Apart(tx[t], tx[u])
    BY DEF LockInv, TInv, TypeOK, OnSomeOrder, AllApart, RecordEvent
  <1>2. Statement(t, r)
    BY DEF RecordEvent
  <1>3. /\ r.held = tx[t].held /\ r.wrote = tx[t].wrote /\ r.net = tx[t].net
        /\ r.rows = tx[t].rows /\ r.op = tx[t].op /\ r.o = tx[t].o
        /\ r.pc = "commit" /\ r.rec
    BY <1>1 DEF TxRecord
  <1> HIDE DEF r
  <1>4. Own(r)
    BY <1>1, <1>3 DEF Own
  <1>5. \A u \in Txns \ {t} : Apart(r, tx[u])
    BY <1>1, <1>3 DEF Apart, EventFree
  <1>6. QED
    BY <1>2, <1>4, <1>5, LocalStep DEF Statement, Go, db

\* The committed rows become what the transaction wrote, which no other
\* transaction that it is apart from has locked.
LEMMA CommitLock == ASSUME LockInv, TInv', NEW t \in Txns, Commit(t) PROVE LockInv'
  <1>1. /\ tx[t] \in TxRecord /\ Own(tx[t])
        /\ tx' = [tx EXCEPT ![t] = Idle] /\ tx \in [Txns -> TxRecord]
        /\ \A u \in Txns \ {t} : Apart(tx[t], tx[u])
    BY DEF LockInv, TInv, TypeOK, AllApart, Commit, Go
  <1>2. /\ \A v \in Variants : stock[v] \in Int /\ tx[t].net[v] \in Int /\ moved[v] \in Int
        /\ \A v \in Variants : Stock0[v] \in Int /\ tx[t].wrote[v] \in Int
        /\ \A o \in Orders : events[o] \in Nat
    BY <1>1, StockAssumption DEF LockInv, TInv, TypeOK, TxRecord
  <1>3. \A v \in Variants : /\ stock'[v] = stock[v] - tx[t].net[v]
                            /\ moved'[v] = moved[v] + tx[t].net[v]
    BY <1>1, <1>2 DEF Commit, StockSeen, Own
  <1>4. StockLedger'
    BY <1>2, <1>3 DEF LockInv, StockLedger
  <1>5. \A o \in Orders : /\ tx[t].rec /\ o = tx[t].o => events[o] = 0 /\ events'[o] = 1
                          /\ ~(tx[t].rec /\ o = tx[t].o) => events'[o] = events[o]
    BY <1>1, <1>2 DEF Commit, Own, LockInv, TInv, TypeOK
  <1>6. EventOnce'
    BY <1>2, <1>5 DEF LockInv, EventOnce
  <1>7. \A o \in Orders : o \notin tx[t].rows => order'[o] = order[o]
    BY DEF Commit, RowSeen
  <1>8. ASSUME NEW u \in Txns PROVE Own(tx[u])'
    <2>1. CASE u = t
      <3>1. tx'[u] = Idle
        BY <1>1, <2>1
      <3>2. QED
        BY <3>1 DEF Own, Idle, NoLines, OnSomeOrder
    <2>2. CASE u # t
      <3>1. tx'[u] = tx[u] /\ Own(tx[u]) /\ Apart(tx[t], tx[u]) /\ tx[u] \in TxRecord
        BY <1>1, <2>2 DEF LockInv
      <3>2. \A v \in tx[u].held : v \in Variants /\ stock'[v] = stock[v]
        BY <1>2, <1>3, <3>1 DEF Own, Apart, TxRecord, LockInv, TInv, TypeOK, Commit, StockSeen
      <3>3. \A o \in tx[u].rows : o \in Orders /\ order'[o] = order[o]
        BY <1>7, <3>1 DEF Apart, TxRecord
      <3>4. tx[u].rec => events'[tx[u].o] = 0
        <4> SUFFICES ASSUME tx[u].rec PROVE events'[tx[u].o] = 0
          OBVIOUS
        <4>1. tx[u].pc = "commit" /\ events[tx[u].o] = 0 /\ OnSomeOrder(tx[u])
          BY <3>1 DEF Own, OnSomeOrder
        <4>2. tx[u].o \in Orders
          BY <4>1, OrderOfTx DEF LockInv
        <4>3. QED
          BY <1>5, <3>1, <4>1, <4>2 DEF Apart
      <3>5. QED
        BY <3>1, <3>2, <3>3, <3>4 DEF Own, OnSomeOrder
    <2>3. QED
      BY <2>1, <2>2
  <1>9. AllApart'
    BY <1>1 DEF LockInv, AllApart, Apart, Idle
  <1>10. QED
    BY <1>4, <1>6, <1>8, <1>9 DEF LockInv

LEMMA RunLock == ASSUME LockInv, TInv', NEW t \in Txns, Run(t) PROVE LockInv'
  <1>1. CASE \E v \in Variants : TakeStock(t, v) \/ RestoreStock(t, v)
    BY <1>1, LockVariantLock
  <1>2. CASE \/ \E v \in Variants : InsufficientStock(t, v)
             \/ PaymentDeclined(t) \/ RefundRejected(t) \/ ShipmentRejected(t)
             \/ DuplicateEvent(t) \/ ExpiryRefused(t)
    BY <1>2, FailLock DEF InsufficientStock, PaymentDeclined, RefundRejected,
                          ShipmentRejected, DuplicateEvent, ExpiryRefused
  <1>3. CASE \E o \in Orders, result \in {"captured", "pending"} : PlaceOrder(t, o, result)
    BY <1>3, PlaceLock
  <1>4. CASE \/ ConvertCart(t) \/ SettleByRefund(t) \/ SettleWithoutRefund(t)
             \/ CheckRefund(t) \/ LabelRefund(t) \/ InsertShipment(t)
             \/ HookPayment(t) \/ HookOrder(t) \/ ComputeDiff(t)
    BY <1>4, QuietLock
  <1>5. CASE SendRefund(t) \/ RecordEvent(t) \/ UpdateRow(t) \/ Commit(t)
    BY <1>5, SendRefundLock, RecordLock, UpdateRowLock, CommitLock
  <1>6. QED
    BY <1>1, <1>2, <1>3, <1>4, <1>5 DEF Run

LEMMA StillLock ==
  ASSUME LockInv, TInv', UNCHANGED <<stock, order, events, moved, tx>>
  PROVE  LockInv'
  BY DEF LockInv, AllApart, Apart, StockLedger, EventOnce, Own, OnSomeOrder

LEMMA LockNext == LockInv /\ [Next]_vars => LockInv'
  <1> SUFFICES ASSUME LockInv, [Next]_vars PROVE LockInv'
    OBVIOUS
  <1>1. TInv'
    BY TypeNext DEF LockInv
  <1>2. ASSUME NEW t \in Txns,
               \/ \E c \in Carts : BeginCheckout(t, c)
               \/ \E o \in Orders : OrderRequest(t, o)
               \/ BeginExpire(t) \/ Run(t) \/ Abort(t)
        PROVE  LockInv'
    BY <1>1, <1>2, BeginLock, ExpireLock, RunLock, AbortLock
  <1>3. CASE (\E o \in Orders : Elapse(o)) \/ UNCHANGED vars
    BY <1>1, <1>3, StillLock DEF Elapse, vars, db
  <1>4. QED
    BY <1>2, <1>3 DEF Next

LEMMA LockAlways == Spec => []LockInv
  BY LockInit, LockNext, PTL DEF Spec
--------------------------------------------------------------------------------

(* No stock update is lost: the FOR UPDATE locks of checkout and of            *)
(* restoreStockForOrder keep every variant's stock equal to the initial stock  *)
(* less what committed transactions took, however they interleave.             *)
THEOREM StockConserved == Spec => []StockLedger
  <1>1. LockInv => StockLedger
    BY DEF LockInv
  <1>2. QED
    BY <1>1, LockAlways, PTL

(* handleWebhookEvent records a provider event at most once, whatever the      *)
(* number and the concurrency of its deliveries: the check before the insert   *)
(* is not enough, the unique index is.                                         *)
THEOREM WebhookIdempotent == Spec => []EventOnce
  <1>1. LockInv => EventOnce
    BY DEF LockInv
  <1>2. QED
    BY <1>1, LockAlways, PTL

--------------------------------------------------------------------------------
(* No deadlock among transactions.                                             *)

\* A transaction locks variants in the order of their ids, and only then writes a
\* payments row; an orders row after that, and last the event or the cart.
Orderly(r) ==
  /\ r.wcart \/ r.rec => r.pc = "commit"
  /\ r.rows # {} => r.pc \in {"cart", "record", "commit"}
  /\ r.wpay # "none" => r.pc \notin {"items", "hookPayment"}
  /\ r.pc = "items" => \A v \in r.held, w \in r.todo : v < w

OrderlyInv == TInv /\ \A t \in Txns : Orderly(tx[t])

LEMMA OrderlyIdle == Orderly(Idle)
BY DEF Orderly, Idle

LEMMA OrderlyGo ==
  ASSUME OrderlyInv, TInv', NEW t \in Txns, NEW r, Orderly(r), Go(t, r)
  PROVE  OrderlyInv'
BY DEF OrderlyInv, TInv, TypeOK, Go

LEMMA OrderlyFail ==
  ASSUME OrderlyInv, TInv', NEW t \in Txns, Fail(t) PROVE OrderlyInv'
BY OrderlyIdle, OrderlyGo DEF Fail, Statement

LEMMA OrderlyRequest ==
  ASSUME OrderlyInv, TInv', NEW t \in Txns,
         \/ \E c \in Carts : BeginCheckout(t, c)
         \/ \E o \in Orders : OrderRequest(t, o)
  PROVE  OrderlyInv'
<1> DEFINE Bare(r) == ~r.wcart /\ ~r.rec /\ r.rows = {} /\ r.wpay = "none" /\ r.held = {}
<1>0. ASSUME NEW r, Bare(r), Request(t, r) PROVE OrderlyInv'
  <2>1. Orderly(r)
    BY <1>0 DEF Orderly
  <2> QED
    BY <1>0, <2>1, OrderlyGo DEF Request
<1>1. ASSUME NEW c \in Carts, BeginCheckout(t, c) PROVE OrderlyInv'
  <2>1. Bare([Idle EXCEPT !.pc = "items", !.op = "checkout", !.c = c, !.todo = Items(c)])
    BY DEF Idle
  <2> QED
    BY <1>0, <1>1, <2>1 DEF BeginCheckout
<1>2. ASSUME NEW o \in Orders, OrderRequest(t, o) PROVE OrderlyInv'
  <2>1. Bare([OnOrder("confirm", o, "diff") EXCEPT !.ent.status = "confirmed", !.ent.exp = FALSE])
    BY DEF OnOrder, Idle
  <2>2. Bare([OnOrder("complete", o, "diff") EXCEPT !.ent.status = "completed"])
    BY DEF OnOrder, Idle
  <2>3. \A op \in {"cancel", "customerCancel"} :
          Bare([OnOrder(op, o, "items") EXCEPT !.todo = Items(order[o].cart)])
    BY DEF OnOrder, Idle
  <2>4. \A a : Bare([OnOrder("refund", o, "refund") EXCEPT !.amt = a])
    BY DEF OnOrder, Idle
  <2>5. \A f, s : Bare([OnOrder("ship", o, "shipments") EXCEPT !.line1 = f, !.line2 = s])
    BY DEF OnOrder, Idle
  <2>6. Bare([OnOrder("webhook", o, WebhookTarget(o)) EXCEPT !.ent = NoRow])
    BY DEF OnOrder, Idle, WebhookTarget
  <2> HIDE DEF Bare
  <2>7. CASE Confirm(t, o) \/ Complete(t, o)
    BY <1>0, <2>1, <2>2, <2>7 DEF Confirm, Complete
  <2>8. CASE BeginCancel(t, o) \/ BeginCustomerCancel(t, o)
    BY <1>0, <2>3, <2>8 DEF BeginCancel, BeginCustomerCancel
  <2>9. CASE (\E a \in RefundAmounts : BeginRefund(t, o, a)) \/ BeginWebhook(t, o)
    BY <1>0, <2>4, <2>6, <2>9 DEF BeginRefund, BeginWebhook
  <2>10. ASSUME NEW f \in ShipLines, NEW s \in RepeatedLines, BeginShipment(t, o, f, s)
         PROVE  OrderlyInv'
    BY <1>0, <2>5, <2>10 DEF BeginShipment
  <2> QED
    BY <1>2, <2>7, <2>8, <2>9, <2>10 DEF OrderRequest
<1> QED
  BY <1>1, <1>2

\* The next variant to lock is the smallest that is left.
LEMMA OrderlyLock ==
  ASSUME OrderlyInv, TInv', NEW t \in Txns, NEW v \in Variants,
         TakeStock(t, v) \/ RestoreStock(t, v)
  PROVE  OrderlyInv'
<1>1. ASSUME NEW change, NEW after \in {"pay", "settle"}, LockVariant(t, v, change, after),
             tx[t].pc = "items", NextLine(t, v)
      PROVE  OrderlyInv'
  <2> DEFINE r == [tx[t] EXCEPT
         !.todo = @ \ {v}, !.held = @ \cup {v},
         !.wrote[v] = StockSeen(t, v) + change, !.net[v] = @ - change,
         !.pc = IF tx[t].todo = {v} THEN after ELSE "items"]
  <2>1. tx[t] \in TxRecord /\ Orderly(tx[t])
    BY DEF OrderlyInv, TInv, TypeOK
  <2>2. /\ r.wcart = tx[t].wcart /\ r.rec = tx[t].rec /\ r.rows = tx[t].rows
        /\ r.wpay = tx[t].wpay /\ r.todo = tx[t].todo \ {v} /\ r.held = tx[t].held \cup {v}
        /\ r.pc \in {"pay", "settle", "items"}
    BY <2>1 DEF TxRecord
  <2>3. Go(t, r)
    BY <1>1 DEF LockVariant, Statement
  <2> HIDE DEF r
  <2>4. \A x \in r.held, w \in r.todo : x < w
    <3>1. tx[t].held \subseteq Nat /\ tx[t].todo \subseteq Nat
      BY <2>1, IdsAssumption DEF TxRecord
    <3> QED
      BY <1>1, <2>1, <2>2, <3>1 DEF NextLine, Orderly
  <2>5. Orderly(r)
    BY <1>1, <2>1, <2>2, <2>4 DEF Orderly
  <2> QED
    BY <2>3, <2>5, OrderlyGo
<1> QED
  BY <1>1 DEF TakeStock, RestoreStock

\* A step past the variants and the payments row.
LEMMA OrderlySame ==
  ASSUME OrderlyInv, TInv', NEW t \in Txns, NEW r, Go(t, r),
         r.pc \notin {"items", "hookPayment"},
         r.rows = {} \/ r.pc \in {"cart", "record", "commit"},
         r.wcart \/ r.rec => r.pc = "commit"
  PROVE  OrderlyInv'
<1>1. Orderly(r)
  BY DEF Orderly
<1> QED
  BY <1>1, OrderlyGo

LEMMA OrderlyRun ==
  ASSUME OrderlyInv, TInv', NEW t \in Txns, Run(t)
  PROVE  OrderlyInv'
<1>1. tx[t] \in TxRecord /\ Orderly(tx[t])
  BY DEF OrderlyInv, TInv, TypeOK
<1>2. CASE \E v \in Variants : TakeStock(t, v) \/ RestoreStock(t, v)
  BY <1>2, OrderlyLock
<1>3. CASE \/ \E v \in Variants : InsufficientStock(t, v)
           \/ PaymentDeclined(t) \/ RefundRejected(t) \/ ShipmentRejected(t)
           \/ DuplicateEvent(t) \/ ExpiryRefused(t)
  BY <1>3, OrderlyFail DEF InsufficientStock, PaymentDeclined, RefundRejected,
                           ShipmentRejected, DuplicateEvent, ExpiryRefused
<1>4. ASSUME NEW o \in Orders, NEW result \in {"captured", "pending"}, PlaceOrder(t, o, result)
      PROVE  OrderlyInv'
  <2>1. PICK row : Go(t, [tx[t] EXCEPT !.pc = "cart", !.o = o, !.ent = row,
                             !.rows = @ \cup {o}, !.wrow[o] = row, !.wpay = result])
    BY <1>4 DEF PlaceOrder
  <2> DEFINE r == [tx[t] EXCEPT !.pc = "cart", !.o = o, !.ent = row,
                             !.rows = @ \cup {o}, !.wrow[o] = row, !.wpay = result]
  <2>2. r.pc = "cart" /\ r.wcart = tx[t].wcart /\ r.rec = tx[t].rec
    BY <1>1 DEF TxRecord
  <2>3. tx[t].pc = "pay"
    BY <1>4 DEF PlaceOrder
  <2> HIDE DEF r
  <2> QED
    BY <1>1, <2>1, <2>2, <2>3, OrderlySame DEF Orderly, r
<1>5. CASE ConvertCart(t)
  <2>1. /\ [tx[t] EXCEPT !.pc = "commit"].pc = "commit"
        /\ [tx[t] EXCEPT !.pc = "commit", !.wcart = TRUE].pc = "commit"
    BY <1>1 DEF TxRecord
  <2> QED
    BY <1>5, <2>1, OrderlySame DEF ConvertCart, Statement
<1>6. CASE \/ SettleByRefund(t) \/ SettleWithoutRefund(t) \/ CheckRefund(t)
           \/ SendRefund(t) \/ LabelRefund(t) \/ InsertShipment(t) \/ HookPayment(t)
           \/ HookOrder(t)
  <2> DEFINE Like(r) == /\ r.pc \in Steps \ {"items", "hookPayment"}
                        /\ r.rows = tx[t].rows /\ r.wcart = tx[t].wcart /\ r.rec = tx[t].rec
  <2>1. tx[t].rows = {} /\ ~tx[t].wcart /\ ~tx[t].rec
    BY <1>1, <1>6 DEF Orderly, SettleByRefund, SettleWithoutRefund, CheckRefund, SendRefund,
                 LabelRefund, InsertShipment, HookPayment, HookOrder
  <2>2. ASSUME NEW r, Like(r), Go(t, r) PROVE OrderlyInv'
    BY <2>1, <2>2, OrderlySame
  <2>3. /\ \A a : Like([tx[t] EXCEPT !.pc = "refund", !.amt = a])
        /\ \A e : Like([tx[t] EXCEPT !.pc = "diff", !.ent = e])
        /\ \A e : Like([tx[t] EXCEPT !.pc = "diff", !.ent.pay = e])
        /\ \A e, f : Like([tx[t] EXCEPT !.pc = "diff", !.ent.ful = e, !.ent.status = f])
        /\ \A e : Like([tx[t] EXCEPT !.pc = "record", !.ent = e])
        /\ Like([tx[t] EXCEPT !.pc = "send"])
    BY <1>1 DEF TxRecord, Steps
  <2>4. /\ Like([tx[t] EXCEPT !.pc = "hookOrder"])
        /\ Like([[tx[t] EXCEPT !.pc = "hookOrder"] EXCEPT !.wpay = "captured"])
    BY <1>1 DEF TxRecord, Steps
  <2>5. ASSUME NEW a, NEW e
        PROVE  /\ Like([[tx[t] EXCEPT !.ref[tx[t].o] = a] EXCEPT !.pc = "label"])
               /\ Like([[tx[t] EXCEPT !.ref[tx[t].o] = a] EXCEPT !.pc = "diff", !.ent = e])
    BY <1>1 DEF TxRecord, Steps
  <2> HIDE DEF Like
  <2>6. CASE SettleByRefund(t) \/ SettleWithoutRefund(t) \/ CheckRefund(t) \/ LabelRefund(t)
    BY <2>2, <2>3, <2>6 DEF SettleByRefund, SettleWithoutRefund, CheckRefund, LabelRefund,
                            Statement
  <2>7. CASE InsertShipment(t) \/ HookOrder(t)
    BY <2>2, <2>3, <2>7 DEF InsertShipment, HookOrder, Statement
  <2>8. CASE HookPayment(t)
    BY <2>2, <2>4, <2>8 DEF HookPayment, Statement
  <2>9. CASE SendRefund(t)
    BY <2>2, <2>5, <2>9 DEF SendRefund
  <2> QED
    BY <1>6, <2>6, <2>7, <2>8, <2>9
<1>7. CASE RecordEvent(t)
  <2> DEFINE r == [tx[t] EXCEPT !.pc = "commit", !.rec = TRUE]
  <2>1. r.pc = "commit"
    BY <1>1 DEF TxRecord
  <2> QED
    BY <1>7, <2>1, OrderlySame DEF RecordEvent, Statement
<1>8. AfterSave(t) \in {"record", "commit"}
  BY DEF AfterSave
<1>9. CASE ComputeDiff(t)
  <2>1. PICK d : Go(t, [tx[t] EXCEPT !.diff = d, !.pc = IF d = {} THEN AfterSave(t) ELSE "row"])
    BY <1>9 DEF ComputeDiff, Statement
  <2> DEFINE r == [tx[t] EXCEPT !.diff = d, !.pc = IF d = {} THEN AfterSave(t) ELSE "row"]
  <2>2. /\ r.pc \in {"record", "commit", "row"}
        /\ r.rows = tx[t].rows /\ r.wcart = tx[t].wcart /\ r.rec = tx[t].rec
    BY <1>1, <1>8 DEF TxRecord
  <2>3. tx[t].rows = {} /\ ~tx[t].wcart /\ ~tx[t].rec
    BY <1>1, <1>9 DEF Orderly, ComputeDiff
  <2> HIDE DEF r
  <2> QED
    BY <2>1, <2>2, <2>3, OrderlySame DEF r
<1>10. CASE UpdateRow(t)
  <2>1. PICK row : Go(t, [tx[t] EXCEPT !.pc = AfterSave(t), !.rows = @ \cup {tx[t].o},
                                       !.wrow[tx[t].o] = row])
    BY <1>10 DEF UpdateRow, Statement
  <2> DEFINE r == [tx[t] EXCEPT !.pc = AfterSave(t), !.rows = @ \cup {tx[t].o},
                                !.wrow[tx[t].o] = row]
  <2>2. r.pc \in {"record", "commit"} /\ r.wcart = tx[t].wcart /\ r.rec = tx[t].rec
    BY <1>1, <1>8 DEF TxRecord
  <2>3. ~tx[t].wcart /\ ~tx[t].rec
    BY <1>1, <1>10 DEF Orderly, UpdateRow
  <2> HIDE DEF r
  <2> QED
    BY <2>1, <2>2, <2>3, OrderlySame DEF r
<1>11. CASE Commit(t)
  BY <1>11, OrderlyIdle, OrderlyGo DEF Commit
<1> QED
  BY <1>2, <1>3, <1>4, <1>5, <1>6, <1>7, <1>9, <1>10, <1>11 DEF Run

LEMMA OrderlyNext == OrderlyInv /\ [Next]_vars => OrderlyInv'
<1> SUFFICES ASSUME OrderlyInv, [Next]_vars PROVE OrderlyInv'
  OBVIOUS
<1>1. TInv'
  BY TypeNext DEF OrderlyInv
<1>2. ASSUME NEW t \in Txns, Abort(t) PROVE OrderlyInv'
  BY <1>1, <1>2, OrderlyIdle, OrderlyGo DEF Abort
<1>3. ASSUME NEW t \in Txns, BeginExpire(t) PROVE OrderlyInv'
  <2>1. Orderly([Idle EXCEPT !.op = "expire", !.pc = "expired"])
    BY DEF Orderly, Idle
  <2> QED
    BY <1>1, <1>3, <2>1, OrderlyGo DEF BeginExpire, Statement
<1>4. CASE (\E o \in Orders : Elapse(o)) \/ UNCHANGED vars
  BY <1>1, <1>4 DEF OrderlyInv, Elapse, vars
<1> QED
  BY <1>1, <1>2, <1>3, <1>4, OrderlyRequest, OrderlyRun DEF Next

\* The transaction that is waited for is further on: past the cart and the event,
\* past the orders row, past the payments row, or it wants a greater variant.
LEMMA OrderlyCycle ==
  ASSUME OrderlyInv, IsFiniteSet(Txns) PROVE NoLockCycle
<1> SUFFICES ASSUME NEW S \in SUBSET Txns, S # {}, \A t \in S : \E u \in S : WaitsFor(t, u)
             PROVE  FALSE
  BY DEF NoLockCycle
<1>1. \A t \in S : Orderly(tx[t]) /\ tx[t] \in TxRecord
  BY DEF OrderlyInv, TInv, TypeOK
<1>2. \A t \in S : tx[t].pc \in {"items", "hookPayment", "row", "record", "cart"}
  BY DEF WaitsFor
<1>3. \A t \in S : tx[t].pc \notin {"cart", "record"}
  BY <1>1, <1>2 DEF WaitsFor, Orderly
<1>4. \A t \in S : tx[t].pc # "row"
  BY <1>1, <1>2, <1>3 DEF WaitsFor, Orderly
<1>a. \A t \in S : tx[t].pc # "hookPayment"
  BY <1>1, <1>2, <1>3, <1>4 DEF WaitsFor, Orderly
<1>5. \A t \in S : tx[t].pc = "items" /\ \E u \in S : \E v \in tx[u].held : NextLine(t, v)
  BY <1>2, <1>3, <1>4, <1>a DEF WaitsFor
<1> DEFINE Want(t) == CHOOSE v \in Variants : NextLine(t, v)
           Above(t) == { u \in S : Want(t) < Want(u) }
           C == { Above(t) : t \in S }
<1>6. ASSUME NEW t \in S, NEW v, NextLine(t, v) PROVE v = Want(t) /\ v \in Nat
  <2>1. tx[t].todo \subseteq Variants /\ tx[t].todo \subseteq Nat
    BY <1>1, IdsAssumption DEF TxRecord
  <2>2. v \in Variants /\ v \in Nat
    BY <1>6, <2>1 DEF NextLine
  <2>3. Want(t) \in Variants /\ NextLine(t, Want(t))
    BY <1>6, <2>2
  <2> HIDE DEF Want
  <2>4. v \in tx[t].todo /\ Want(t) \in tx[t].todo /\ v <= Want(t) /\ Want(t) <= v
    BY <1>6, <2>3 DEF NextLine
  <2> QED
    BY <2>1, <2>4
<1> HIDE DEF Want
<1>7. \A t \in S : Want(t) \in Nat
  BY <1>5, <1>6
<1>8. \A t \in S : \E u \in S : Want(t) < Want(u)
  <2> SUFFICES ASSUME NEW t \in S PROVE \E u \in S : Want(t) < Want(u)
    OBVIOUS
  <2>1. PICK u \in S : \E v \in tx[u].held : NextLine(t, v)
    BY <1>5
  <2>a. PICK v \in tx[u].held : NextLine(t, v)
    BY <2>1
  <2>2. PICK w : NextLine(u, w)
    BY <1>5
  <2>3. v = Want(t) /\ w = Want(u)
    BY <1>6, <2>a, <2>2
  <2>4. v < w
    BY <1>1, <1>5, <2>a, <2>2 DEF Orderly, NextLine
  <2> QED
    BY <2>3, <2>4
<1>9. PICK T \in C : \A U \in C : U \subseteq T => U = T
  <2>1. IsFiniteSet(S)
    BY FS_Subset
  <2>2. C \subseteq SUBSET S /\ C # {}
    OBVIOUS
  <2> HIDE DEF C
  <2> QED
    BY <2>1, <2>2, Smallest
<1>10. PICK t \in S : T = Above(t)
  OBVIOUS
<1>11. PICK u \in S : Want(t) < Want(u)
  BY <1>8
<1>12. Above(u) \subseteq Above(t) /\ u \in Above(t) /\ u \notin Above(u)
  BY <1>7, <1>11
<1> QED
  BY <1>9, <1>10, <1>12

(* Service calls never deadlock, any number of them, webhooks included:        *)
(* variants are locked in the order of their ids, by checkout and by           *)
(* restoreStockForOrder; a payments row is written when no variant is left to  *)
(* lock, an orders row after it, and an event or a cart last.                  *)
THEOREM HandlersNeverDeadlock ==
  ASSUME IsFiniteSet(Txns)
  PROVE  Spec => []NoLockCycle
<1>1. Init => OrderlyInv
  BY TypeInit, OrderlyIdle DEF Init, OrderlyInv
<1>2. OrderlyInv /\ [Next]_vars => OrderlyInv'
  BY OrderlyNext
<1>3. OrderlyInv => NoLockCycle
  BY OrderlyCycle
<1> QED
  BY <1>1, <1>2, <1>3, PTL DEF Spec

--------------------------------------------------------------------------------
(* One connection: the books of an order agree.                                *)

OneConnection == \A t, u \in Txns : t = u

\* No shipment names an order item in two lines.
SingleLines == RepeatedLines \subseteq {NoLines}

\* The records of one order agree: its row, its refunds, payment, shipments, events.
Agree(row, refunded, paid, shipped, recorded) ==
  /\ refunded <= Total[row.cart]
  /\ SingleLines => \A v \in Variants : shipped[v] <= Basket[row.cart][v]
  /\ row.ful = DeriveFulfillment(Basket[row.cart], shipped)
  /\ row.status = "none" => row = NoRow /\ refunded = 0 /\ shipped = NoLines /\ paid = "none"
  /\ row.status # "none" => paid # "none" /\ (recorded > 0 => paid = "captured")
  /\ row.status \notin {"none", "cancelled"} =>
       /\ paid = "captured" => row.pay # "pending"
       /\ row.pay = "refunded" => refunded = Total[row.cart]

\* What is committed.
Books ==
  /\ \A p \in Orders : Agree(order[p], refund[p], payment[p], sent[p], events[p])
  /\ OneOrderPerCart
  /\ \A p \in Orders : /\ Exists(p) => cart[order[p].cart] = "converted"
                       /\ events[p] > 0 => p \in charged

\* What a transaction would leave of an order if it committed now.
RowIn(r, p)     == IF p \in r.rows THEN r.wrow[p] ELSE order[p]
RefundIn(r, p)  == refund[p] + r.ref[p]
PaymentIn(r, p) == IF r.wpay # "none" /\ p = r.o THEN r.wpay ELSE payment[p]
EventsIn(r, p)  == IF r.rec /\ p = r.o THEN events[p] + 1 ELSE events[p]
SentIn(r, p)    == IF r.op = "ship" /\ p = r.o
                   THEN [v \in Variants |-> sent[p][v] + r.line1[v] + r.line2[v]]
                   ELSE sent[p]

\* Statuses between which one commit may take an order.
Move(from, to) == /\ from \notin {"completed", "cancelled"}
                  /\ from = "none" => to \in {"pending", "confirmed"}
                  /\ to = "pending" => from = "none"

\* An order may go from its committed row to this one.
Lawful(p, row, refunded, paid) ==
  /\ row.status # order[p].status => Move(order[p].status, row.status)
  /\ Exists(p) => row.cart = order[p].cart
  /\ order[p].status # "cancelled" /\ row.status = "cancelled" /\ paid = "captured"
       => refunded = Total[row.cart]

Fine(r, p, row) ==
  /\ Agree(row, RefundIn(r, p), PaymentIn(r, p), SentIn(r, p), EventsIn(r, p))
  /\ Lawful(p, row, RefundIn(r, p), PaymentIn(r, p))

Cancelling(r) == r.op \in {"cancel", "customerCancel"}

\* A checkout before it has an order, and with one.
Shopping(r) == /\ r.op = "checkout" /\ r.o = "none" /\ cart[r.c] = "active"
               /\ r.rows = {} /\ r.wpay = "none" /\ ~r.wcart /\ ~r.rec
               /\ r.ref = [o \in Orders |-> 0]
Placed(r) == /\ r.op = "checkout" /\ r.o \in Orders /\ ~Exists(r.o) /\ cart[r.c] = "active"
             /\ r.rows = {r.o} /\ r.wrow[r.o].cart = r.c /\ r.wrow[r.o].status # "none"
             /\ ~r.rec /\ Fine(r, r.o, r.wrow[r.o])

\* A transaction that has not written the row of its order yet, has only read it,
\* is to cancel it, to refund it, is about to save it, and has done so.
OnExisting(r) == /\ r.op # "checkout" /\ ~r.wcart /\ ~r.rec
                 /\ r.o \in Orders /\ Exists(r.o)
                 /\ r.c = order[r.o].cart /\ RowIn(r, r.o) = order[r.o]
                 /\ r.op # "webhook" => r.wpay = "none"
Reading(r)  == /\ OnExisting(r) /\ r.op \notin {"ship", "webhook"}
               /\ r.ent = order[r.o] /\ r.ref[r.o] = 0
ToCancel(r) == Reading(r) /\ Cancelling(r) /\ order[r.o].status \in {"pending", "confirmed"}
ToRefund(r) == \/ Reading(r) /\ r.op = "refund"
               \/ ToCancel(r) /\ r.amt + refund[r.o] = Total[r.c]
Refunding(r) == payment[r.o] = "captured" /\ refund[r.o] + r.amt <= Total[r.c]
Labelling(r) == /\ OnExisting(r) /\ r.op = "refund" /\ r.ent = order[r.o]
                /\ Refunding(r) /\ r.ref[r.o] = r.amt
Shipping(r) == /\ OnExisting(r) /\ r.op = "ship" /\ r.ent = order[r.o] /\ r.ref[r.o] = 0
               /\ order[r.o].status # "cancelled" /\ (SingleLines => r.line2 = NoLines)
Hooked(r)   == OnExisting(r) /\ r.op = "webhook" /\ r.ref[r.o] = 0
Saving(r)   == /\ OnExisting(r) /\ r.ent.cart = r.c /\ r.ent.status # "none"
               /\ Fine(r, r.o, r.ent)
               /\ r.op = "webhook" => PaymentIn(r, r.o) = "captured"
Written(r)  == /\ r.op # "checkout" /\ ~r.wcart /\ (r.rec => r.op = "webhook") /\ r.o \in Orders
               /\ Fine(r, r.o, RowIn(r, r.o))
               /\ r.op = "webhook" /\ Exists(r.o) => PaymentIn(r, r.o) = "captured"
               /\ r.op # "webhook" => r.wpay = "none"
Stage(r) ==
  /\ r.pc = "idle" => r = Idle
  /\ r.pc = "items" => IF r.op = "checkout" THEN Shopping(r) ELSE ToCancel(r)
  /\ r.pc = "pay" => Shopping(r)
  /\ r.pc = "cart" => Placed(r) /\ ~r.wcart
  /\ r.pc = "settle" => ToCancel(r)
  /\ r.pc = "refund" => ToRefund(r)
  /\ r.pc = "send" => ToRefund(r) /\ Refunding(r)
  /\ r.pc = "label" => Labelling(r)
  /\ r.pc = "shipments" => Shipping(r)
  /\ r.pc = "hookPayment" => Hooked(r) /\ r.wpay = "none"
  /\ r.pc = "hookOrder" => Hooked(r) /\ PaymentIn(r, r.o) = "captured"
  /\ r.pc = "diff" => Saving(r)
  /\ r.pc = "row" => Saving(r) /\ r.diff = { col \in Columns : r.ent[col] # order[r.o][col] }
  /\ r.pc = "record" => Written(r) /\ r.op = "webhook" /\ ~r.rec
  /\ r.pc = "commit" => (Placed(r) /\ r.wcart) \/ Written(r)

\* The other orders.
Elsewhere(r) ==
  /\ \A p \in Orders \ {r.o} : Fine(r, p, RowIn(r, p))
  /\ r.op # "checkout" => \A p \in r.rows : Exists(p)

SerialInv == Books /\ \A t \in Txns : Stage(tx[t]) /\ Elsewhere(tx[t])
--------------------------------------------------------------------------------
(* What follows from the definitions.                                          *)

LEMMA TxTypes ==
  ASSUME TInv, NEW t \in Txns
  PROVE  /\ tx[t] \in TxRecord /\ tx[t].c \in Carts /\ tx[t].ent \in Row
         /\ tx[t].o \in Orders =>
              /\ order[tx[t].o] \in Row /\ refund[tx[t].o] \in Nat /\ events[tx[t].o] \in Nat
              /\ order[tx[t].o].cart \in Carts /\ Total[order[tx[t].o].cart] \in Nat
              /\ sent[tx[t].o] \in [Variants -> Nat] /\ tx[t].ref[tx[t].o] \in Nat
              /\ payment[tx[t].o] \in {"none", "pending", "captured"}
         /\ Total[tx[t].c] \in Nat
<1>1. tx[t] \in TxRecord
  BY DEF TInv, TypeOK
<1>2. tx[t].c \in Carts /\ tx[t].ent \in Row /\ tx[t].ref \in [Orders -> Nat]
  BY <1>1 DEF TxRecord
<1>3. ASSUME tx[t].o \in Orders
      PROVE  /\ order[tx[t].o] \in Row /\ refund[tx[t].o] \in Nat /\ events[tx[t].o] \in Nat
             /\ sent[tx[t].o] \in [Variants -> Nat]
             /\ payment[tx[t].o] \in {"none", "pending", "captured"}
  BY <1>3 DEF TInv, TypeOK
<1>4. \A row \in Row : row.cart \in Carts
  BY DEF Row
<1> QED
  BY <1>1, <1>2, <1>3, <1>4, TotalAssumption

LEMMA OrderTypes ==
  ASSUME TInv, NEW o \in Orders
  PROVE  /\ order[o] \in Row /\ refund[o] \in Nat /\ events[o] \in Nat
         /\ order[o].cart \in Carts /\ Total[order[o].cart] \in Nat
         /\ Basket[order[o].cart] \in [Variants -> Nat]
         /\ sent[o] \in [Variants -> Nat] /\ payment[o] \in {"none", "pending", "captured"}
<1>1. /\ order[o] \in Row /\ refund[o] \in Nat /\ events[o] \in Nat
      /\ sent[o] \in [Variants -> Nat] /\ payment[o] \in {"none", "pending", "captured"}
  BY DEF TInv, TypeOK
<1>2. order[o].cart \in Carts
  BY <1>1 DEF Row
<1> QED
  BY <1>1, <1>2, TotalAssumption, BasketAssumption

\* A record that has written nothing of order p.
Blank(r, p) == /\ p \notin r.rows \/ r.wrow[p] = order[p]
               /\ r.ref[p] = 0 /\ (r.wpay = "none" \/ p # r.o) /\ (~r.rec \/ p # r.o)

LEMMA BlankIn ==
  ASSUME TInv, NEW p \in Orders, NEW r, Blank(r, p)
  PROVE  /\ RowIn(r, p) = order[p] /\ RefundIn(r, p) = refund[p]
         /\ PaymentIn(r, p) = payment[p] /\ EventsIn(r, p) = events[p]
         /\ r.op # "ship" \/ p # r.o => SentIn(r, p) = sent[p]
BY OrderTypes DEF Blank, RowIn, RefundIn, PaymentIn, EventsIn, SentIn

LEMMA BlankFine ==
  ASSUME TInv, Books, NEW p \in Orders, NEW r, Blank(r, p), r.op # "ship" \/ p # r.o
  PROVE  Fine(r, p, RowIn(r, p)) /\ Fine(r, p, order[p])
<1>1. Agree(order[p], refund[p], payment[p], sent[p], events[p])
  BY DEF Books
<1>2. Lawful(p, order[p], refund[p], payment[p])
  BY DEF Lawful
<1> QED
  BY <1>1, <1>2, BlankIn DEF Fine

\* Records with the same writes.
Alike(r, s) == /\ s.op = r.op /\ s.o = r.o /\ s.rows = r.rows /\ s.wrow = r.wrow
               /\ s.ref = r.ref /\ s.wpay = r.wpay /\ s.rec = r.rec
               /\ s.line1 = r.line1 /\ s.line2 = r.line2

LEMMA AlikeFine ==
  ASSUME NEW r, NEW s, Alike(r, s), NEW p, NEW row
  PROVE  /\ Fine(s, p, row) <=> Fine(r, p, row)
         /\ RowIn(s, p) = RowIn(r, p) /\ PaymentIn(s, p) = PaymentIn(r, p)
BY DEF Alike, Fine, RowIn, RefundIn, PaymentIn, EventsIn, SentIn

LEMMA AlikeElsewhere ==
  ASSUME NEW r, NEW s, Alike(r, s), Elsewhere(r) PROVE Elsewhere(s)
BY AlikeFine DEF Elsewhere, Alike

\* Records that differ in what they write of their own order only.
Beside(r, s) == /\ s.op = r.op /\ s.o = r.o
                /\ s.line1 = r.line1 /\ s.line2 = r.line2
                /\ \A p \in Orders : p # r.o =>
                     /\ p \in s.rows <=> p \in r.rows
                     /\ s.wrow[p] = r.wrow[p] /\ s.ref[p] = r.ref[p]

LEMMA BesideElsewhere ==
  ASSUME NEW r, NEW s, Beside(r, s), Elsewhere(r), s.rows \subseteq Orders,
         r.op = "checkout" \/ r.o \notin s.rows \/ Exists(r.o)
  PROVE  Elsewhere(s)
<1>1. ASSUME NEW p \in Orders, p # r.o
      PROVE  RowIn(s, p) = RowIn(r, p) /\ \A row : Fine(s, p, row) <=> Fine(r, p, row)
  BY <1>1 DEF Beside, Fine, RowIn, RefundIn, PaymentIn, EventsIn, SentIn
<1> QED
  BY <1>1 DEF Elsewhere, Beside

--------------------------------------------------------------------------------
(* Steps that commit nothing.                                                  *)

SInv == TInv /\ SerialInv

Still == UNCHANGED <<order, cart, payment, refund, sent, events>>

LEMMA LocalSerial ==
  ASSUME OneConnection, SInv, TInv', NEW t \in Txns, NEW r, Go(t, r), Still,
         charged \subseteq charged', Stage(r), Elsewhere(r)
  PROVE  SerialInv'
<1>1. tx'[t] = r
  BY DEF SInv, TInv, TypeOK, Go
<1>2. \A p, row : Fine(tx[t], p, row)' <=> Fine(r, p, row)
  BY <1>1 DEF Still, Fine, Agree, Lawful, RefundIn, PaymentIn, EventsIn, SentIn, Exists
<1>3. \A p : RowIn(tx[t], p)' = RowIn(r, p)
  BY <1>1 DEF Still, RowIn
<1>4. PaymentIn(tx[t], tx[t].o)' = PaymentIn(r, r.o)
  BY <1>1 DEF Still, PaymentIn
<1>5. OnExisting(tx[t])' <=> OnExisting(r)
  BY <1>1, <1>3 DEF Still, OnExisting, Exists
<1>6. ToCancel(tx[t])' <=> ToCancel(r)
  BY <1>1, <1>5 DEF Still, ToCancel, Reading, Cancelling
<1>7. ToRefund(tx[t])' <=> ToRefund(r)
  BY <1>1, <1>5, <1>6 DEF Still, ToRefund, Reading
<1>8. Refunding(tx[t])' <=> Refunding(r)
  BY <1>1 DEF Still, Refunding
<1>9. (Shopping(tx[t])' <=> Shopping(r)) /\ (Placed(tx[t])' <=> Placed(r))
  BY <1>1, <1>2 DEF Still, Shopping, Placed, Exists
<1>10. (Labelling(tx[t])' <=> Labelling(r)) /\ (Shipping(tx[t])' <=> Shipping(r))
  BY <1>1, <1>5, <1>8 DEF Still, Labelling, Shipping
<1>11. (Hooked(tx[t])' <=> Hooked(r)) /\ (Saving(tx[t])' <=> Saving(r))
  BY <1>1, <1>2, <1>4, <1>5 DEF Still, Hooked, Saving
<1>12. Written(tx[t])' <=> Written(r)
  BY <1>1, <1>2, <1>3, <1>4 DEF Still, Written, Exists
<1>13. Stage(tx[t])'
  BY <1>1, <1>4, <1>6, <1>7, <1>8, <1>9, <1>10, <1>11, <1>12 DEF Still, Stage
<1>14. Elsewhere(tx[t])'
  BY <1>1, <1>2, <1>3 DEF Still, Elsewhere, Exists
<1>15. Books'
  BY DEF Still, SInv, SerialInv, Books, Agree, OneOrderPerCart, Exists
<1> QED
  BY <1>13, <1>14, <1>15 DEF SerialInv, OneConnection

\* A request that has only read its order.
Opened(r, o) == /\ r.o = o /\ r.c = order[o].cart /\ r.rows = {} /\ r.wpay = "none"
                /\ ~r.rec /\ ~r.wcart /\ r.ref = [p \in Orders |-> 0]
                /\ r.op # "checkout"

LEMMA OpenedFine ==
  ASSUME SInv, NEW o \in Orders, Exists(o), NEW r, Opened(r, o)
  PROVE  /\ OnExisting(r) /\ Elsewhere(r)
         /\ RefundIn(r, o) = refund[o] /\ PaymentIn(r, o) = payment[o]
         /\ EventsIn(r, o) = events[o] /\ (r.op # "ship" => SentIn(r, o) = sent[o])
<1>1. \A p \in Orders : Blank(r, p)
  BY DEF Opened, Blank
<1>2. OnExisting(r)
  BY DEF Opened, OnExisting, RowIn
<1>3. Elsewhere(r)
  <2>1. \A p \in Orders \ {r.o} : Fine(r, p, RowIn(r, p))
    BY <1>1, BlankFine DEF SInv, SerialInv
  <2> QED
    BY <2>1 DEF Elsewhere, Opened
<1> QED
  BY <1>1, <1>2, <1>3, BlankIn DEF SInv, Opened

LEMMA BookOf ==
  ASSUME SInv, NEW o \in Orders
  PROVE  /\ Agree(order[o], refund[o], payment[o], sent[o], events[o])
         /\ order[o] \in Row
BY OrderTypes DEF SInv, SerialInv, Books

LEMMA RequestSerial ==
  ASSUME OneConnection, SInv, TInv', NEW t \in Txns, NEW r, Request(t, r),
         Stage(r), Elsewhere(r)
  PROVE  SerialInv'
BY LocalSerial DEF Request, Still, db

LEMMA StatementSerial ==
  ASSUME OneConnection, SInv, TInv', NEW t \in Txns, NEW r, Statement(t, r),
         Stage(r), Elsewhere(r)
  PROVE  SerialInv'
BY LocalSerial DEF Statement, Still, db

LEMMA CheckoutSerial ==
  ASSUME OneConnection, SInv, TInv', NEW t \in Txns, NEW c \in Carts, BeginCheckout(t, c)
  PROVE  SerialInv'
<1> DEFINE r == [Idle EXCEPT !.pc = "items", !.op = "checkout", !.c = c, !.todo = Items(c)]
<1>1. /\ r.pc = "items" /\ r.op = "checkout" /\ r.o = "none" /\ r.c = c /\ r.rows = {}
      /\ r.wpay = "none" /\ ~r.wcart /\ ~r.rec /\ r.ref = [o \in Orders |-> 0]
  BY DEF Idle
<1>2. Request(t, r) /\ cart[c] = "active"
  BY DEF BeginCheckout, ActiveCart
<1> HIDE DEF r
<1>3. Stage(r)
  BY <1>1, <1>2 DEF Stage, Shopping
<1>4. Elsewhere(r)
  <2>1. \A p \in Orders : Blank(r, p)
    BY <1>1 DEF Blank
  <2> QED
    BY <1>1, <2>1, BlankFine DEF SInv, SerialInv, Elsewhere
<1> QED
  BY <1>2, <1>3, <1>4, RequestSerial

\* A change of the row that the records of the order allow.
LEMMA MoveFine ==
  ASSUME SInv, NEW o \in Orders, Exists(o), NEW r, Opened(r, o), r.op # "ship",
         NEW row,
         \/ order[o].status = "pending" /\ row.status = "confirmed"
         \/ order[o].status = "confirmed" /\ row.status = "completed",
         row.pay = order[o].pay,
         row.ful = order[o].ful, row.cart = order[o].cart
  PROVE  Fine(r, o, row)
<1>1. Agree(order[o], refund[o], payment[o], sent[o], events[o])
  BY BookOf
<1>2. order[o].status \in {"pending", "confirmed"} /\ row.status \in {"confirmed", "completed"}
  OBVIOUS
<1>4. Agree(row, refund[o], payment[o], sent[o], events[o])
  BY <1>1, <1>2 DEF Agree
<1>5. Lawful(o, row, refund[o], payment[o])
  BY <1>2 DEF Lawful, Move
<1> QED
  BY <1>4, <1>5, OpenedFine DEF Fine

LEMMA OrderRequestSerial ==
  ASSUME OneConnection, SInv, TInv',
         NEW t \in Txns, NEW o \in Orders, OrderRequest(t, o)
  PROVE  SerialInv'
<1>1. ASSUME NEW op \in AllOps \ {"checkout"}, NEW pc
      PROVE  LET r == OnOrder(op, o, pc)
             IN  Opened(r, o) /\ r.pc = pc /\ r.op = op /\ r.ent = order[o]
  BY DEF OnOrder, Idle, Opened
<1>a. order[o] \in Row
  BY BookOf
<1>2. CASE Confirm(t, o)
  <2> DEFINE r == [OnOrder("confirm", o, "diff") EXCEPT
                     !.ent.status = "confirmed", !.ent.exp = FALSE]
  <2>1. /\ Opened(r, o) /\ r.pc = "diff" /\ r.op = "confirm"
        /\ r.ent = [[order[o] EXCEPT !.status = "confirmed"] EXCEPT !.exp = FALSE]
    BY DEF OnOrder, Idle, Opened
  <2>2. Request(t, r) /\ order[o].status = "pending"
    BY <1>2, <1>a DEF Confirm, ValidTransitions, Row, LifecycleStatus
  <2> HIDE DEF r
  <2>3. /\ r.ent.status = "confirmed" /\ r.ent.pay = order[o].pay
        /\ r.ent.ful = order[o].ful /\ r.ent.cart = order[o].cart
    BY <1>a, <2>1 DEF Row
  <2>4. OnExisting(r) /\ Elsewhere(r) /\ Exists(o)
    BY <2>1, <2>2, OpenedFine DEF Exists
  <2>5. Fine(r, o, r.ent)
    <3>1. r.op # "ship"
      BY <2>1
    <3> QED
      BY <2>1, <2>2, <2>3, <2>4, <3>1, MoveFine
  <2>6. Stage(r)
    BY <2>1, <2>3, <2>4, <2>5 DEF Stage, Saving, Opened
  <2> QED
    BY <2>2, <2>4, <2>6, RequestSerial
<1>3. CASE Complete(t, o)
  <2> DEFINE r == [OnOrder("complete", o, "diff") EXCEPT !.ent.status = "completed"]
  <2>1. /\ Opened(r, o) /\ r.pc = "diff" /\ r.op = "complete"
        /\ r.ent = [order[o] EXCEPT !.status = "completed"]
    BY DEF OnOrder, Idle, Opened
  <2>2. Request(t, r) /\ order[o].status = "confirmed"
    BY <1>3, <1>a DEF Complete, ValidTransitions, Row, LifecycleStatus
  <2> HIDE DEF r
  <2>3. /\ r.ent.status = "completed" /\ r.ent.pay = order[o].pay
        /\ r.ent.ful = order[o].ful /\ r.ent.cart = order[o].cart
    BY <1>a, <2>1 DEF Row
  <2>4. OnExisting(r) /\ Elsewhere(r) /\ Exists(o)
    BY <2>1, <2>2, OpenedFine DEF Exists
  <2>5. Fine(r, o, r.ent)
    <3>1. r.op # "ship"
      BY <2>1
    <3> QED
      BY <2>1, <2>2, <2>3, <2>4, <3>1, MoveFine
  <2>6. Stage(r)
    BY <2>1, <2>3, <2>4, <2>5 DEF Stage, Saving, Opened
  <2> QED
    BY <2>2, <2>4, <2>6, RequestSerial
<1>4. CASE BeginCancel(t, o) \/ BeginCustomerCancel(t, o)
  <2> DEFINE r(op) == [OnOrder(op, o, "items") EXCEPT !.todo = Items(order[o].cart)]
  <2>1. PICK op \in {"cancel", "customerCancel"} :
          Request(t, r(op)) /\ order[o].status \in {"pending", "confirmed"}
    BY <1>4, <1>a DEF BeginCancel, BeginCustomerCancel, ValidTransitions, Row, LifecycleStatus
  <2>2. /\ Opened(r(op), o) /\ r(op).pc = "items" /\ r(op).op = op /\ r(op).ent = order[o]
    BY DEF OnOrder, Idle, Opened
  <2> HIDE DEF r
  <2>4. OnExisting(r(op)) /\ Elsewhere(r(op)) /\ Exists(o)
    BY <2>1, <2>2, OpenedFine DEF Exists
  <2>6. Stage(r(op))
    BY <2>1, <2>2, <2>4 DEF Stage, ToCancel, Reading, Cancelling, Opened
  <2> QED
    BY <2>1, <2>4, <2>6, RequestSerial
<1>5. ASSUME NEW a \in RefundAmounts, BeginRefund(t, o, a) PROVE SerialInv'
  <2> DEFINE r == [OnOrder("refund", o, "refund") EXCEPT !.amt = a]
  <2>1. Opened(r, o) /\ r.pc = "refund" /\ r.op = "refund" /\ r.ent = order[o]
    BY DEF OnOrder, Idle, Opened
  <2>2. Request(t, r) /\ Exists(o)
    BY <1>5 DEF BeginRefund
  <2> HIDE DEF r
  <2>4. OnExisting(r) /\ Elsewhere(r)
    BY <2>1, <2>2, OpenedFine
  <2>6. Stage(r)
    BY <2>1, <2>2, <2>4 DEF Stage, ToRefund, Reading, Opened
  <2> QED
    BY <2>2, <2>4, <2>6, RequestSerial
<1>6. ASSUME NEW f \in ShipLines, NEW s \in RepeatedLines, BeginShipment(t, o, f, s)
      PROVE  SerialInv'
  <2> DEFINE r == [OnOrder("ship", o, "shipments") EXCEPT !.line1 = f, !.line2 = s]
  <2>1. /\ Opened(r, o) /\ r.pc = "shipments" /\ r.op = "ship" /\ r.ent = order[o]
        /\ r.line2 = s /\ (SingleLines => s = NoLines)
    BY <1>6 DEF OnOrder, Idle, Opened, SingleLines
  <2>2. Request(t, r) /\ Exists(o) /\ order[o].status # "cancelled"
    BY <1>6 DEF BeginShipment, Shippable
  <2> HIDE DEF r
  <2>4. OnExisting(r) /\ Elsewhere(r)
    BY <2>1, <2>2, OpenedFine
  <2>6. Stage(r)
    BY <2>1, <2>2, <2>4 DEF Stage, Shipping, Opened
  <2> QED
    BY <2>2, <2>4, <2>6, RequestSerial
<1>7. CASE BeginWebhook(t, o)
  <2> DEFINE r == [OnOrder("webhook", o, WebhookTarget(o)) EXCEPT !.ent = NoRow]
  <2>1. Opened(r, o) /\ r.pc = WebhookTarget(o) /\ r.op = "webhook"
    BY DEF OnOrder, Idle, Opened
  <2>2. Request(t, r)
    BY <1>7 DEF BeginWebhook
  <2> HIDE DEF r
  <2>3. Exists(o) <=> payment[o] # "none"
    BY BookOf DEF Agree, Exists
  <2>4. CASE Exists(o)
    <3>1. r.pc = "hookPayment"
      BY <2>1, <2>3, <2>4 DEF WebhookTarget
    <3>2. OnExisting(r) /\ Elsewhere(r)
      BY <2>1, <2>4, OpenedFine
    <3>3. Stage(r)
      BY <2>1, <3>1, <3>2 DEF Stage, Hooked, Opened
    <3> QED
      BY <2>2, <3>2, <3>3, RequestSerial
  <2>5. CASE ~Exists(o)
    <3>1. r.pc = "record"
      BY <2>1, <2>3, <2>5 DEF WebhookTarget
    <3>2. \A p \in Orders : Blank(r, p)
      BY <2>1 DEF Opened, Blank
    <3>3. \A p \in Orders : Fine(r, p, RowIn(r, p))
      BY <2>1, <3>2, BlankFine DEF SInv, SerialInv
    <3>4. Elsewhere(r)
      BY <2>1, <3>3 DEF Elsewhere, Opened
    <3>5. Stage(r)
      BY <2>1, <2>5, <3>1, <3>3 DEF Stage, Written, Opened
    <3> QED
      BY <2>2, <3>4, <3>5, RequestSerial
  <2> QED
    BY <2>4, <2>5
<1> QED
  BY <1>2, <1>3, <1>4, <1>5, <1>6, <1>7 DEF OrderRequest

--------------------------------------------------------------------------------
(* The statements of a transaction.                                            *)

LEMMA Staged ==
  ASSUME SInv, NEW t \in Txns
  PROVE  /\ Stage(tx[t]) /\ Elsewhere(tx[t]) /\ Books
         /\ tx[t] \in TxRecord /\ Fits(tx[t])
         /\ tx[t].rows \subseteq Orders
<1>1. tx[t] \in TxRecord
  BY DEF SInv, TInv, TypeOK
<1> QED
  BY <1>1 DEF SInv, SerialInv, TInv, Charged, TxRecord

\* The stages that a record like r shares with it.
LEMMA AlikeStages ==
  ASSUME NEW r, NEW s, Alike(r, s), s.c = r.c, s.wcart = r.wcart
  PROVE  /\ OnExisting(s) <=> OnExisting(r)
         /\ Shopping(s) <=> Shopping(r)
         /\ Placed(s) <=> Placed(r)
         /\ Written(s) <=> Written(r)
         /\ s.ent = r.ent => (Reading(s) <=> Reading(r)) /\ (ToCancel(s) <=> ToCancel(r))
         /\ s.ent = r.ent /\ s.amt = r.amt =>
              (ToRefund(s) <=> ToRefund(r)) /\ (Refunding(s) <=> Refunding(r))
<1>1. OnExisting(s) <=> OnExisting(r)
  BY AlikeFine DEF Alike, OnExisting
<1>2. (Shopping(s) <=> Shopping(r)) /\ (Placed(s) <=> Placed(r))
  BY AlikeFine DEF Alike, Shopping, Placed
<1>3. Written(s) <=> Written(r)
  BY AlikeFine DEF Alike, Written
<1>4. ASSUME s.ent = r.ent PROVE (Reading(s) <=> Reading(r)) /\ (ToCancel(s) <=> ToCancel(r))
  BY <1>1, <1>4 DEF Alike, Reading, ToCancel, Cancelling
<1>5. ASSUME s.ent = r.ent, s.amt = r.amt
      PROVE  (ToRefund(s) <=> ToRefund(r)) /\ (Refunding(s) <=> Refunding(r))
  BY <1>4, <1>5 DEF Alike, ToRefund, Refunding
<1> QED
  BY <1>1, <1>2, <1>3, <1>4, <1>5

\* A transaction is over, or it is the job's, which the database refuses.
LEMMA FailSerial ==
  ASSUME OneConnection, SInv, TInv', NEW t \in Txns, Fail(t) \/ BeginExpire(t) \/ Abort(t)
  PROVE  SerialInv'
<1> DEFINE e == [Idle EXCEPT !.op = "expire", !.pc = "expired"]
<1>1. Stage(Idle) /\ Stage(e)
  BY DEF Stage, Idle
<1>2. ASSUME NEW r, r \in {Idle, e} PROVE Elsewhere(r)
  <2>1. /\ r.op \in {"none", "expire"} /\ r.rows = {} /\ r.wpay = "none" /\ ~r.rec
        /\ r.ref = [o \in Orders |-> 0]
    <3>1. CASE r = Idle
      BY <3>1 DEF Idle
    <3>2. CASE r = e
      BY <3>2 DEF Idle
    <3> QED
      BY <1>2, <3>1, <3>2
  <2>2. \A p \in Orders : Blank(r, p)
    BY <2>1 DEF Blank
  <2> QED
    BY <2>1, <2>2, BlankFine DEF SInv, SerialInv, Elsewhere
<1> HIDE DEF e
<1> QED
  BY <1>1, <1>2, StatementSerial, LocalSerial
     DEF Fail, BeginExpire, Abort, Still, db, e

LEMMA LockSerial ==
  ASSUME OneConnection, SInv, TInv', NEW t \in Txns, NEW v \in Variants,
         TakeStock(t, v) \/ RestoreStock(t, v)
  PROVE  SerialInv'
<1>1. ASSUME NEW change, NEW after, LockVariant(t, v, change, after), tx[t].pc = "items",
             after = IF tx[t].op = "checkout" THEN "pay" ELSE "settle"
      PROVE  SerialInv'
  <2> DEFINE r == [tx[t] EXCEPT
         !.todo = @ \ {v}, !.held = @ \cup {v},
         !.wrote[v] = StockSeen(t, v) + change, !.net[v] = @ - change,
         !.pc = IF tx[t].todo = {v} THEN after ELSE "items"]
  <2>1. /\ Alike(tx[t], r) /\ r.c = tx[t].c /\ r.wcart = tx[t].wcart /\ r.ent = tx[t].ent
        /\ r.pc \in {after, "items"}
    BY Staged DEF TxRecord, Alike
  <2>2. Statement(t, r)
    BY <1>1 DEF LockVariant
  <2> HIDE DEF r
  <2>3. IF tx[t].op = "checkout" THEN Shopping(tx[t]) ELSE ToCancel(tx[t])
    BY <1>1, Staged DEF Stage
  <2>4. IF r.op = "checkout" THEN Shopping(r) ELSE ToCancel(r)
    BY <2>1, <2>3, AlikeStages DEF Alike
  <2>5. Stage(r)
    BY <1>1, <2>1, <2>4 DEF Stage, Alike
  <2>6. Elsewhere(r)
    BY <2>1, AlikeElsewhere, Staged
  <2> QED
    BY <2>2, <2>5, <2>6, StatementSerial
<1> QED
  BY <1>1 DEF TakeStock, RestoreStock

LEMMA ConvertSerial ==
  ASSUME OneConnection, SInv, TInv', NEW t \in Txns, ConvertCart(t)
  PROVE  SerialInv'
<1> DEFINE r == [tx[t] EXCEPT !.pc = "commit", !.wcart = TRUE]
<1>1. tx[t].pc = "cart" /\ Placed(tx[t])
  BY Staged DEF ConvertCart, Stage
<1>2. Statement(t, r)
  BY <1>1 DEF ConvertCart, Placed
<1>3. Alike(tx[t], r) /\ r.c = tx[t].c /\ r.wcart /\ r.pc = "commit"
  BY Staged DEF TxRecord, Alike
<1> HIDE DEF r
<1>4. Placed(r)
  BY <1>1, <1>3, AlikeFine DEF Alike, Placed
<1>5. Stage(r) /\ Elsewhere(r)
  BY <1>3, <1>4, AlikeElsewhere, Staged DEF Stage
<1> QED
  BY <1>2, <1>5, StatementSerial

\* An empty shipment of nothing.
LEMMA NothingSent ==
  ASSUME NEW b \in [Variants -> Nat]
  PROVE  DeriveFulfillment(b, NoLines) = "unfulfilled"
BY DEF DeriveFulfillment, NoLines

LEMMA PlaceSerial ==
  ASSUME OneConnection, SInv, TInv', NEW t \in Txns, NEW o \in Orders,
         NEW result \in {"captured", "pending"}, PlaceOrder(t, o, result)
  PROVE  SerialInv'
<1> DEFINE row == [status |-> IF result = "captured" THEN "confirmed" ELSE "pending",
                   pay |-> result, exp |-> ~(result = "captured"), ful |-> "unfulfilled",
                   cart |-> tx[t].c]
           r == [tx[t] EXCEPT !.pc = "cart", !.o = o, !.ent = row, !.rows = @ \cup {o},
                              !.wrow[o] = row, !.wpay = result]
<1>1. tx[t].pc = "pay" /\ ~Exists(o) /\ o \notin charged
  BY DEF PlaceOrder
<1>2. Go(t, r) /\ UNCHANGED db /\ charged \subseteq charged'
  BY DEF PlaceOrder
<1>3. Shopping(tx[t])
  BY <1>1, Staged DEF Stage
<1>4. /\ row.status = (IF result = "captured" THEN "confirmed" ELSE "pending")
      /\ row.pay = result /\ row.ful = "unfulfilled" /\ row.cart = tx[t].c
  OBVIOUS
<1> HIDE DEF row
<1>5. /\ r.pc = "cart" /\ r.o = o /\ r.rows = {o} /\ r.wrow[o] = row /\ r.wpay = result
      /\ r.op = "checkout" /\ r.c = tx[t].c /\ ~r.wcart /\ ~r.rec /\ r.ref = [p \in Orders |-> 0]
  <2>1. tx[t].wrow \in [Orders -> Row]
    BY Staged DEF TxRecord
  <2> QED
    BY <1>3, <2>1, Staged DEF Shopping, TxRecord
<1> HIDE DEF r
<1>6. /\ order[o] = NoRow /\ refund[o] = 0 /\ sent[o] = NoLines /\ payment[o] = "none"
      /\ order[o].status = "none" /\ events[o] = 0
  <2>1. order[o] = NoRow /\ refund[o] = 0 /\ sent[o] = NoLines /\ payment[o] = "none"
    BY <1>1, BookOf DEF Agree, Exists
  <2>2. events[o] = 0
    <3>1. ~(events[o] > 0) /\ events[o] \in Nat
      BY <1>1, OrderTypes, Staged DEF Books, SInv
    <3> QED
      BY <3>1
  <2> QED
    BY <1>1, <2>1, <2>2 DEF Exists
<1>7. /\ RefundIn(r, o) = 0 /\ PaymentIn(r, o) = result /\ SentIn(r, o) = NoLines
      /\ EventsIn(r, o) = 0
  BY <1>5, <1>6 DEF RefundIn, PaymentIn, SentIn, EventsIn
<1>8. Agree(row, 0, result, NoLines, 0)
  <2>1. Total[tx[t].c] \in Nat /\ Basket[tx[t].c] \in [Variants -> Nat]
    BY TxTypes, BasketAssumption DEF SInv
  <2>2. \A v \in Variants : NoLines[v] <= Basket[tx[t].c][v]
    BY <2>1 DEF NoLines
  <2> QED
    BY <1>4, <2>1, <2>2, NothingSent DEF Agree
<1>9. Fine(r, o, row)
  BY <1>1, <1>4, <1>6, <1>7, <1>8 DEF Fine, Lawful, Exists, Move
<1>10. Placed(r)
  BY <1>1, <1>3, <1>4, <1>5, <1>9 DEF Placed, Shopping
<1>11. Elsewhere(r)
  <2>1. ASSUME NEW p \in Orders \ {o} PROVE Fine(r, p, RowIn(r, p))
    <3>1. Blank(r, p)
      BY <1>5 DEF Blank
    <3> QED
      BY <1>5, <3>1, BlankFine, Staged DEF SInv
  <2> QED
    BY <1>5, <2>1 DEF Elsewhere
<1>12. Stage(r)
  BY <1>5, <1>10 DEF Stage
<1> QED
  BY <1>2, <1>11, <1>12, LocalSerial DEF Still, db

\* Cancelling an order and returning all that was captured leaves its records in
\* agreement.
LEMMA CancelFine ==
  ASSUME SInv, NEW t \in Txns, NEW r, r.o = tx[t].o, r.o \in Orders,
         ToCancel(tx[t]), NEW row, row.status = "cancelled",
         row.ful = order[r.o].ful, row.cart = order[r.o].cart,
         RefundIn(r, r.o) <= Total[order[r.o].cart],
         PaymentIn(r, r.o) = payment[r.o], SentIn(r, r.o) = sent[r.o],
         EventsIn(r, r.o) = events[r.o],
         payment[r.o] = "captured" => RefundIn(r, r.o) = Total[order[r.o].cart]
  PROVE  Fine(r, r.o, row)
<1>1. Agree(order[r.o], refund[r.o], payment[r.o], sent[r.o], events[r.o])
  BY BookOf
<1>2. order[r.o].status \in {"pending", "confirmed"}
  BY DEF ToCancel
<1>3. Agree(row, RefundIn(r, r.o), payment[r.o], sent[r.o], events[r.o])
  BY <1>1, <1>2 DEF Agree
<1>4. Lawful(r.o, row, RefundIn(r, r.o), payment[r.o])
  BY <1>2 DEF Lawful, Move
<1> QED
  BY <1>3, <1>4 DEF Fine

LEMMA CancelledIs ==
  ASSUME SInv, NEW t \in Txns
  PROVE  /\ Cancelled(t).status = "cancelled" /\ Cancelled(t).ful = tx[t].ent.ful
         /\ Cancelled(t).cart = tx[t].ent.cart /\ Cancelled(t).pay = tx[t].ent.pay
         /\ Cancelled(t) \in Row
BY TxTypes DEF SInv, Cancelled, Row, LifecycleStatus

\* What a transaction that has only read its order sees of it.
LEMMA ReadIn ==
  ASSUME SInv, NEW t \in Txns, OnExisting(tx[t]), tx[t].op \notin {"ship", "webhook"}
  PROVE  LET o == tx[t].o
         IN  /\ PaymentIn(tx[t], o) = payment[o] /\ SentIn(tx[t], o) = sent[o]
             /\ EventsIn(tx[t], o) = events[o]
             /\ tx[t].ref[o] = 0 => RefundIn(tx[t], o) = refund[o] /\ RefundSeen(t, o) = refund[o]
<1>1. tx[t].o \in Orders
  BY DEF OnExisting
<1>2. refund[tx[t].o] \in Nat
  BY <1>1, OrderTypes DEF SInv
<1> QED
  BY <1>2 DEF OnExisting, PaymentIn, SentIn, EventsIn, RefundIn, RefundSeen

LEMMA SettleSerial ==
  ASSUME OneConnection, SInv, TInv', NEW t \in Txns,
         SettleByRefund(t) \/ SettleWithoutRefund(t)
  PROVE  SerialInv'
<1> DEFINE o == tx[t].o
<1>1. ToCancel(tx[t])
  BY Staged DEF SettleByRefund, SettleWithoutRefund, Stage
<1>2. /\ OnExisting(tx[t]) /\ tx[t].op \notin {"ship", "webhook"} /\ tx[t].ent = order[o]
      /\ o \in Orders /\ tx[t].ref[o] = 0 /\ tx[t].c = order[o].cart
      /\ order[o].status \in {"pending", "confirmed"}
  BY <1>1 DEF ToCancel, Reading, OnExisting
<1>3. RefundSeen(t, o) = refund[o] /\ RefundIn(tx[t], o) = refund[o]
  BY <1>2, ReadIn
<1>4. refund[o] \in Nat /\ Total[order[o].cart] \in Nat /\ order[o] \in Row
  BY <1>2, OrderTypes DEF SInv
<1>5. CASE SettleByRefund(t)
  <2> DEFINE r == [tx[t] EXCEPT !.pc = "refund", !.amt = Total[tx[t].c] - RefundSeen(t, tx[t].o)]
  <2>1. Statement(t, r)
    BY <1>5 DEF SettleByRefund
  <2>2. /\ Alike(tx[t], r) /\ r.pc = "refund" /\ r.c = tx[t].c /\ r.wcart = tx[t].wcart
        /\ r.ent = tx[t].ent /\ r.amt = Total[tx[t].c] - refund[o]
    BY <1>3, Staged DEF TxRecord, Alike
  <2> HIDE DEF r
  <2>3. ToCancel(r)
    BY <1>1, <2>2, AlikeStages
  <2>4. r.amt + refund[r.o] = Total[r.c]
    BY <1>2, <1>4, <2>2 DEF Alike
  <2>5. Stage(r)
    BY <2>2, <2>3, <2>4 DEF Stage, ToRefund
  <2> QED
    BY <2>1, <2>2, <2>5, Staged, AlikeElsewhere, StatementSerial
<1>6. CASE SettleWithoutRefund(t)
  <2> DEFINE ent == Cancelled(t)
             r == [tx[t] EXCEPT !.pc = "diff", !.ent = ent]
  <2>1. Statement(t, r) /\ ~HasCapturedBalance(t)
    BY <1>6 DEF SettleWithoutRefund
  <2> HIDE DEF ent
  <2>2. /\ Alike(tx[t], r) /\ r.pc = "diff" /\ r.c = tx[t].c /\ r.wcart = tx[t].wcart
        /\ r.ent = ent
    BY Staged DEF TxRecord, Alike
  <2> HIDE DEF r
  <2>3. Agree(order[o], refund[o], payment[o], sent[o], events[o])
    BY <1>2, BookOf
  <2>4. payment[o] = "captured" => refund[o] = Total[order[o].cart]
    BY SMTT(20), <1>2, <1>3, <1>4, <2>1, <2>3 DEF Agree, HasCapturedBalance, Row, StoredPay
  <2>5. /\ RefundIn(r, o) = refund[o] /\ PaymentIn(r, o) = payment[o]
        /\ SentIn(r, o) = sent[o] /\ EventsIn(r, o) = events[o]
    BY <1>2, <1>3, <2>2, ReadIn DEF Alike, RefundIn, PaymentIn, SentIn, EventsIn
  <2>6. r.o = o
    BY <2>2 DEF Alike
  <2>7. /\ ent.status = "cancelled" /\ ent.ful = order[o].ful /\ ent.cart = order[o].cart
    BY <1>2, CancelledIs DEF ent
  <2>8. Fine(r, r.o, ent)
    <3>1. refund[o] <= Total[order[o].cart]
      BY <2>3 DEF Agree
    <3> HIDE DEF o
    <3> QED
      BY <1>1, <1>2, <2>4, <2>5, <2>6, <2>7, <3>1, CancelFine DEF o
  <2>9. OnExisting(r)
    BY <1>2, <2>2, AlikeStages
  <2>10. Saving(r)
    BY <1>2, <2>2, <2>6, <2>7, <2>8, <2>9 DEF Saving, Alike
  <2>11. Stage(r)
    BY <2>2, <2>10 DEF Stage
  <2> QED
    BY <2>1, <2>2, <2>11, Staged, AlikeElsewhere, StatementSerial
<1> QED
  BY <1>5, <1>6

LEMMA CheckRefundSerial ==
  ASSUME OneConnection, SInv, TInv', NEW t \in Txns, CheckRefund(t)
  PROVE  SerialInv'
<1> DEFINE r == [tx[t] EXCEPT !.pc = "send"]
<1>1. ToRefund(tx[t])
  BY Staged DEF CheckRefund, Stage
<1>2. Statement(t, r) /\ Refundable(t)
  BY DEF CheckRefund
<1>3. /\ Alike(tx[t], r) /\ r.pc = "send" /\ r.c = tx[t].c /\ r.wcart = tx[t].wcart
      /\ r.ent = tx[t].ent /\ r.amt = tx[t].amt
  BY Staged DEF TxRecord, Alike
<1> HIDE DEF r
<1>4. Reading(tx[t])
  BY <1>1 DEF ToRefund, ToCancel
<1>5. RefundSeen(t, tx[t].o) = refund[tx[t].o]
  BY <1>4, ReadIn DEF Reading
<1>6. Refunding(tx[t])
  BY <1>2, <1>5 DEF Refundable, Refunding
<1>7. ToRefund(r) /\ Refunding(r)
  BY <1>1, <1>3, <1>6, AlikeStages
<1>8. Stage(r)
  BY <1>3, <1>7 DEF Stage
<1> QED
  BY <1>2, <1>3, <1>8, Staged, AlikeElsewhere, StatementSerial

LEMMA SendRefundSerial ==
  ASSUME OneConnection, SInv, TInv', NEW t \in Txns, SendRefund(t)
  PROVE  SerialInv'
<1> DEFINE o == tx[t].o
           x == [tx[t] EXCEPT !.ref[tx[t].o] = @ + tx[t].amt]
           ent == [Cancelled(t) EXCEPT !.pay = "refunded"]
           r == IF x.op = "refund" THEN [x EXCEPT !.pc = "label"]
                ELSE [x EXCEPT !.pc = "diff", !.ent = ent]
<1>1. ToRefund(tx[t]) /\ Refunding(tx[t])
  BY Staged DEF SendRefund, Stage
<1>2. Go(t, r) /\ UNCHANGED db /\ charged' = charged
  BY DEF SendRefund
<1>3. Reading(tx[t])
  BY <1>1 DEF ToRefund, ToCancel
<1>4. /\ OnExisting(tx[t]) /\ tx[t].op \notin {"ship", "webhook"} /\ tx[t].ent = order[o]
      /\ o \in Orders /\ tx[t].ref[o] = 0 /\ tx[t].c = order[o].cart /\ Exists(o)
  BY <1>3 DEF Reading, OnExisting
<1>5. tx[t] \in TxRecord /\ tx[t].amt \in Nat /\ tx[t].ref \in [Orders -> Nat]
  BY Staged DEF TxRecord
<1>6. ent.status = "cancelled" /\ ent.ful = order[o].ful /\ ent.cart = order[o].cart
  BY <1>4, CancelledIs DEF Row
<1> HIDE DEF ent
<1>7. /\ Beside(tx[t], r) /\ r.rows = tx[t].rows /\ r.wrow = tx[t].wrow /\ r.c = tx[t].c
      /\ r.wcart = tx[t].wcart /\ r.rec = tx[t].rec /\ r.wpay = tx[t].wpay
      /\ r.ref[o] = tx[t].amt /\ r.amt = tx[t].amt
      /\ r.pc = (IF tx[t].op = "refund" THEN "label" ELSE "diff")
      /\ r.ent = (IF tx[t].op = "refund" THEN tx[t].ent ELSE ent)
  BY <1>4, <1>5 DEF TxRecord, Beside
<1> HIDE DEF r, x
<1>8. Elsewhere(r)
  BY <1>4, <1>7, Staged, BesideElsewhere
<1>9. r.op = tx[t].op /\ r.o = o
  BY <1>7 DEF Beside
<1>10. OnExisting(r)
  BY <1>4, <1>7, <1>9 DEF OnExisting, RowIn
<1>11. CASE tx[t].op = "refund"
  <2>1. Labelling(r)
    BY <1>1, <1>4, <1>7, <1>9, <1>10, <1>11 DEF Labelling, Refunding
  <2>2. Stage(r)
    BY <1>7, <1>11, <2>1 DEF Stage
  <2> QED
    BY <1>2, <1>8, <2>2, LocalSerial DEF Still, db
<1>12. CASE tx[t].op # "refund"
  <2>1. ToCancel(tx[t]) /\ tx[t].amt + refund[o] = Total[tx[t].c]
    BY <1>1, <1>12 DEF ToRefund
  <2>2. refund[o] \in Nat /\ Total[tx[t].c] \in Nat
    BY <1>4, OrderTypes DEF SInv
  <2>3. RefundIn(r, o) = Total[order[o].cart]
    BY <1>4, <1>5, <1>7, <2>1, <2>2 DEF RefundIn
  <2>4. PaymentIn(r, o) = payment[o] /\ SentIn(r, o) = sent[o] /\ EventsIn(r, o) = events[o]
    BY <1>4, <1>7, <1>9, <1>10 DEF PaymentIn, SentIn, EventsIn, OnExisting
  <2>5. Fine(r, r.o, ent)
    <3>1. RefundIn(r, o) <= Total[order[o].cart]
      BY <1>4, <2>2, <2>3
    <3> HIDE DEF o
    <3> QED
      BY <1>4, <1>6, <1>9, <2>1, <2>3, <2>4, <3>1, CancelFine DEF o
  <2>6. Saving(r)
    BY <1>4, <1>6, <1>7, <1>9, <1>10, <1>12, <2>5 DEF Saving
  <2>7. Stage(r)
    BY <1>7, <1>12, <2>6 DEF Stage
  <2> QED
    BY <1>2, <1>8, <2>7, LocalSerial DEF Still, db
<1> QED
  BY <1>11, <1>12

\* A statement that changes the entity in memory and leaves it to be saved.
LEMMA ToSave ==
  ASSUME OneConnection, SInv, TInv', NEW t \in Txns, OnExisting(tx[t]),
         NEW ent \in Row, ent.cart = tx[t].c, ent.status # "none",
         Fine(tx[t], tx[t].o, ent),
         tx[t].op = "webhook" => PaymentIn(tx[t], tx[t].o) = "captured",
         Statement(t, [tx[t] EXCEPT !.pc = "diff", !.ent = ent])
  PROVE  SerialInv'
<1> DEFINE r == [tx[t] EXCEPT !.pc = "diff", !.ent = ent]
<1>1. /\ Alike(tx[t], r) /\ r.pc = "diff" /\ r.c = tx[t].c /\ r.wcart = tx[t].wcart
      /\ r.ent = ent
  BY Staged DEF TxRecord, Alike
<1>2. Statement(t, r)
  OBVIOUS
<1> HIDE DEF r
<1>3. r.o = tx[t].o /\ r.op = tx[t].op
  BY <1>1 DEF Alike
<1>4. OnExisting(r) /\ Fine(r, r.o, ent) /\ PaymentIn(r, r.o) = PaymentIn(tx[t], tx[t].o)
  BY <1>1, <1>3, AlikeStages, AlikeFine
<1>5. Saving(r)
  BY <1>1, <1>3, <1>4 DEF Saving
<1>6. Stage(r)
  BY <1>1, <1>5 DEF Stage
<1> QED
  BY <1>1, <1>2, <1>6, Staged, AlikeElsewhere, StatementSerial

LEMMA LabelSerial ==
  ASSUME OneConnection, SInv, TInv', NEW t \in Txns, LabelRefund(t)
  PROVE  SerialInv'
<1> DEFINE o == tx[t].o
           pay == IF FullyRefunded(t) THEN "refunded" ELSE "partially_refunded"
           ent == [tx[t].ent EXCEPT !.pay = pay]
<1>1. Labelling(tx[t])
  BY Staged DEF LabelRefund, Stage
<1>2. /\ OnExisting(tx[t]) /\ tx[t].op = "refund" /\ tx[t].ent = order[o] /\ o \in Orders
      /\ tx[t].c = order[o].cart /\ Exists(o) /\ tx[t].wpay = "none" /\ ~tx[t].rec
      /\ payment[o] = "captured" /\ refund[o] + tx[t].amt <= Total[order[o].cart]
      /\ tx[t].ref[o] = tx[t].amt
  BY <1>1 DEF Labelling, OnExisting, Refunding
<1>3. /\ tx[t] \in TxRecord /\ order[o] \in Row /\ refund[o] \in Nat
      /\ Total[order[o].cart] \in Nat /\ tx[t].amt \in Nat
  BY <1>2, Staged, OrderTypes DEF SInv, TxRecord
<1>4. [tx[t] EXCEPT !.pc = "diff", !.ent.pay = pay] = [tx[t] EXCEPT !.pc = "diff", !.ent = ent]
  BY <1>3 DEF TxRecord
<1>5. /\ ent.status = order[o].status /\ ent.ful = order[o].ful /\ ent.cart = order[o].cart
      /\ ent.pay = pay /\ ent \in Row
  BY <1>2, <1>3 DEF Row, StoredPay
<1>6. Statement(t, [tx[t] EXCEPT !.pc = "diff", !.ent = ent])
  BY <1>4 DEF LabelRefund
<1> HIDE DEF ent
<1>7. /\ RefundIn(tx[t], o) = refund[o] + tx[t].amt /\ PaymentIn(tx[t], o) = "captured"
      /\ SentIn(tx[t], o) = sent[o] /\ EventsIn(tx[t], o) = events[o]
  BY <1>2 DEF RefundIn, PaymentIn, SentIn, EventsIn
<1>8. Agree(order[o], refund[o], payment[o], sent[o], events[o])
  BY <1>2, BookOf
<1>9. pay = "refunded" => refund[o] + tx[t].amt = Total[order[o].cart]
  BY <1>2, <1>3 DEF FullyRefunded, RefundSeen
<1>10. pay # "pending" /\ order[o].status # "none"
  BY <1>2 DEF Exists
<1> HIDE DEF pay
<1>11. Fine(tx[t], o, ent)
  <2>1. Agree(ent, refund[o] + tx[t].amt, "captured", sent[o], events[o])
    BY <1>2, <1>5, <1>8, <1>9, <1>10 DEF Agree
  <2>2. Lawful(o, ent, refund[o] + tx[t].amt, "captured")
    BY <1>5 DEF Lawful
  <2> QED
    BY <1>7, <2>1, <2>2 DEF Fine
<1> QED
  BY <1>2, <1>5, <1>6, <1>10, <1>11, ToSave

LEMMA ShipmentSerial ==
  ASSUME OneConnection, SInv, TInv', NEW t \in Txns, InsertShipment(t)
  PROVE  SerialInv'
<1> DEFINE o == tx[t].o
           ful == DeriveFulfillment(Basket[tx[t].c], AllShipped(t))
           status == IF ful = "fulfilled" THEN "completed" ELSE order[o].status
           ent == [[tx[t].ent EXCEPT !.ful = ful] EXCEPT !.status = status]
<1>1. Shipping(tx[t])
  BY Staged DEF InsertShipment, Stage
<1>2. /\ OnExisting(tx[t]) /\ tx[t].op = "ship" /\ tx[t].ent = order[o] /\ o \in Orders
      /\ tx[t].c = order[o].cart /\ Exists(o) /\ tx[t].wpay = "none" /\ ~tx[t].rec
      /\ tx[t].ref[o] = 0 /\ order[o].status # "cancelled" /\ (SingleLines => tx[t].line2 = NoLines)
  BY <1>1 DEF Shipping, OnExisting
<1>3. /\ tx[t] \in TxRecord /\ order[o] \in Row /\ refund[o] \in Nat
      /\ sent[o] \in [Variants -> Nat] /\ Basket[order[o].cart] \in [Variants -> Nat]
      /\ tx[t].line1 \in [Variants -> Nat]
  BY <1>2, Staged, OrderTypes DEF SInv, TxRecord
<1>a. ful \in FulfillmentStatus
  BY DEF DeriveFulfillment, FulfillmentStatus
<1>4. Statement(t, [tx[t] EXCEPT !.pc = "diff", !.ent = ent])
  <2>1. Statement(t, [tx[t] EXCEPT !.pc = "diff", !.ent.ful = ful,
                         !.ent.status = IF ful = "fulfilled" THEN "completed" ELSE @])
    BY DEF InsertShipment
  <2>2. tx[t].ent.status = order[o].status
    BY <1>2
  <2> HIDE DEF ful
  <2>3. [tx[t] EXCEPT !.pc = "diff", !.ent.ful = ful,
                         !.ent.status = IF ful = "fulfilled" THEN "completed" ELSE @]
        = [tx[t] EXCEPT !.pc = "diff", !.ent = ent]
    BY <1>2, <1>3, <2>2 DEF TxRecord, Row
  <2> QED
    BY <2>1, <2>3
<1>5. /\ ent.status = status /\ ent.ful = ful /\ ent.cart = order[o].cart
      /\ ent.pay = order[o].pay /\ ent \in Row
  BY <1>2, <1>3, <1>a DEF Row, LifecycleStatus
<1> HIDE DEF ent
<1>6. SentIn(tx[t], o) = AllShipped(t)
  BY <1>2 DEF SentIn, AllShipped
<1>7. /\ RefundIn(tx[t], o) = refund[o] /\ PaymentIn(tx[t], o) = payment[o]
      /\ EventsIn(tx[t], o) = events[o]
  BY <1>2, <1>3 DEF RefundIn, PaymentIn, EventsIn
<1>8. Agree(order[o], refund[o], payment[o], sent[o], events[o])
  BY <1>2, BookOf
<1>9. SingleLines => \A v \in Variants : AllShipped(t)[v] <= Basket[order[o].cart][v]
  <2> SUFFICES ASSUME SingleLines, NEW v \in Variants
               PROVE  AllShipped(t)[v] <= Basket[order[o].cart][v]
    OBVIOUS
  <2>1. sent[o][v] <= Basket[order[o].cart][v]
    BY <1>8 DEF Agree
  <2>2. tx[t].line1[v] > 0 => sent[o][v] + tx[t].line1[v] <= Basket[order[o].cart][v]
    BY <1>2 DEF InsertShipment, LinesFit
  <2>3. AllShipped(t)[v] = sent[o][v] + tx[t].line1[v] + 0
    BY <1>2 DEF AllShipped, NoLines
  <2>4. sent[o][v] \in Nat /\ tx[t].line1[v] \in Nat /\ Basket[order[o].cart][v] \in Nat
    BY <1>3
  <2> QED
    BY <2>1, <2>2, <2>3, <2>4
<1>10. order[o].status \in {"pending", "confirmed", "completed"}
  BY <1>2, <1>3 DEF Exists, Row, LifecycleStatus
<1>11. status \in {"pending", "confirmed", "completed"}
  BY <1>10
<1>12. Agree(ent, refund[o], payment[o], AllShipped(t), events[o])
  <2>1. ent.ful = DeriveFulfillment(Basket[ent.cart], AllShipped(t))
    BY <1>2, <1>5
  <2> HIDE DEF ful, status
  <2> QED
    BY <1>5, <1>8, <1>9, <1>10, <1>11, <2>1 DEF Agree
<1>13. Lawful(o, ent, refund[o], payment[o])
  <2>1. status # order[o].status => Move(order[o].status, status)
    BY <1>10 DEF Move
  <2> HIDE DEF status
  <2> QED
    BY <1>5, <1>11, <2>1 DEF Lawful
<1>14. Fine(tx[t], o, ent)
  BY <1>6, <1>7, <1>12, <1>13 DEF Fine
<1> HIDE DEF status, ful, o
<1> QED
  BY <1>2, <1>4, <1>5, <1>11, <1>14, ToSave DEF o

LEMMA HookPaymentSerial ==
  ASSUME OneConnection, SInv, TInv', NEW t \in Txns, HookPayment(t)
  PROVE  SerialInv'
<1> DEFINE r(w) == [[tx[t] EXCEPT !.pc = "hookOrder"] EXCEPT !.wpay = w]
<1>1. Hooked(tx[t]) /\ tx[t].wpay = "none"
  BY Staged DEF HookPayment, Stage
<1>2. [tx[t] EXCEPT !.pc = "hookOrder"] = r("none")
  BY <1>1, Staged DEF TxRecord
<1>3. PICK w \in {"none", "captured"} :
        Statement(t, r(w)) /\ (w = "none" => payment[tx[t].o] = "captured")
  BY <1>2 DEF HookPayment
<1>4. /\ Beside(tx[t], r(w)) /\ r(w).rows = tx[t].rows /\ r(w).wrow = tx[t].wrow
      /\ r(w).c = tx[t].c /\ r(w).wcart = tx[t].wcart /\ r(w).rec = tx[t].rec
      /\ r(w).ref = tx[t].ref /\ r(w).wpay = w /\ r(w).pc = "hookOrder"
  BY Staged DEF TxRecord, Beside
<1> HIDE DEF r
<1>5. r(w).o = tx[t].o /\ r(w).op = "webhook"
  BY <1>1, <1>4 DEF Beside, Hooked
<1>6. Hooked(r(w))
  BY <1>1, <1>4, <1>5 DEF Hooked, OnExisting, RowIn
<1>7. PaymentIn(r(w), r(w).o) = "captured"
  BY <1>3, <1>4, <1>5 DEF PaymentIn
<1>8. Elsewhere(r(w))
  BY <1>1, <1>4, Staged, BesideElsewhere DEF Hooked, OnExisting
<1>9. Stage(r(w))
  BY <1>4, <1>6, <1>7 DEF Stage
<1> QED
  BY <1>3, <1>8, <1>9, StatementSerial

LEMMA HookOrderSerial ==
  ASSUME OneConnection, SInv, TInv', NEW t \in Txns, HookOrder(t)
  PROVE  SerialInv'
<1> DEFINE o == tx[t].o
<1>1. /\ Hooked(tx[t]) /\ PaymentIn(tx[t], o) = "captured" /\ o \in Orders /\ Exists(o)
      /\ OnExisting(tx[t]) /\ tx[t].op = "webhook" /\ tx[t].ref[o] = 0
      /\ tx[t].c = order[o].cart /\ ~tx[t].rec /\ ~tx[t].wcart /\ RowIn(tx[t], o) = order[o]
  BY Staged DEF HookOrder, Stage, Hooked, OnExisting
<1>2. order[o] \in Row /\ refund[o] \in Nat
  BY <1>1, OrderTypes DEF SInv
<1>3. /\ RefundIn(tx[t], o) = refund[o] /\ SentIn(tx[t], o) = sent[o]
      /\ EventsIn(tx[t], o) = events[o]
  BY <1>1, <1>2 DEF RefundIn, SentIn, EventsIn
<1>4. Agree(order[o], refund[o], payment[o], sent[o], events[o])
  BY <1>1, BookOf
<1>5. CASE order[o].status = "cancelled"
  <2> DEFINE r == [tx[t] EXCEPT !.pc = "record", !.ent = order[o]]
  <2>1. Statement(t, r)
    BY <1>5 DEF HookOrder
  <2>2. /\ Alike(tx[t], r) /\ r.pc = "record" /\ r.c = tx[t].c /\ r.wcart = tx[t].wcart
    BY Staged DEF TxRecord, Alike
  <2> HIDE DEF r
  <2>3. Fine(tx[t], o, order[o])
    BY <1>1, <1>3, <1>4, <1>5 DEF Fine, Agree, Lawful
  <2>4. Written(tx[t])
    BY <1>1, <2>3 DEF Written
  <2>5. Written(r) /\ r.op = "webhook" /\ ~r.rec
    BY <1>1, <2>2, <2>4, AlikeStages DEF Alike
  <2>6. Stage(r)
    BY <2>2, <2>5 DEF Stage
  <2> QED
    BY <2>1, <2>2, <2>6, Staged, AlikeElsewhere, StatementSerial
<1>6. CASE order[o].status # "cancelled"
  <2> DEFINE status == IF order[o].status = "pending" THEN "confirmed" ELSE order[o].status
             ent == [order[o] EXCEPT !.pay = "captured",
                                     !.status = IF @ = "pending" THEN "confirmed" ELSE @]
  <2>1. Statement(t, [tx[t] EXCEPT !.pc = "diff", !.ent = ent])
    BY <1>6 DEF HookOrder
  <2>2. /\ ent.status = status /\ ent.pay = "captured" /\ ent.ful = order[o].ful
        /\ ent.cart = order[o].cart /\ ent \in Row
    BY <1>2 DEF Row, StoredPay, LifecycleStatus
  <2> HIDE DEF ent
  <2>3. order[o].status # "none" /\ status \notin {"none", "cancelled"}
    BY <1>1, <1>6 DEF Exists
  <2>4. Agree(ent, refund[o], "captured", sent[o], events[o])
    BY <1>4, <2>2, <2>3 DEF Agree
  <2>5. Lawful(o, ent, refund[o], "captured")
    BY <2>2, <2>3 DEF Lawful, Move
  <2>6. Fine(tx[t], o, ent)
    BY <1>1, <1>3, <2>4, <2>5 DEF Fine
  <2> QED
    BY <1>1, <2>1, <2>2, <2>3, <2>6, ToSave
<1> QED
  BY <1>5, <1>6

LEMMA RecordSerial ==
  ASSUME OneConnection, SInv, TInv', NEW t \in Txns, RecordEvent(t)
  PROVE  SerialInv'
<1> DEFINE r == [tx[t] EXCEPT !.pc = "commit", !.rec = TRUE]
           o == tx[t].o
<1>1. Written(tx[t]) /\ tx[t].op = "webhook" /\ ~tx[t].rec
  BY Staged DEF RecordEvent, Stage
<1>2. /\ Beside(tx[t], r) /\ r.rows = tx[t].rows /\ r.wrow = tx[t].wrow /\ r.c = tx[t].c
      /\ r.wcart = tx[t].wcart /\ r.rec /\ r.wpay = tx[t].wpay /\ r.ref = tx[t].ref
      /\ r.pc = "commit"
  BY Staged DEF TxRecord, Beside
<1>3. Statement(t, r)
  BY DEF RecordEvent
<1> HIDE DEF r
<1>4. r.o = o /\ r.op = "webhook" /\ o \in Orders
  BY <1>1, <1>2 DEF Beside, Written
<1>5. o \notin tx[t].rows \/ Exists(o)
  BY <1>1, Staged DEF Elsewhere
<1>6. Elsewhere(r)
  BY <1>1, <1>2, <1>5, Staged, BesideElsewhere
<1>7. /\ RowIn(r, o) = RowIn(tx[t], o) /\ RefundIn(r, o) = RefundIn(tx[t], o)
      /\ PaymentIn(r, o) = PaymentIn(tx[t], o) /\ SentIn(r, o) = SentIn(tx[t], o)
  BY <1>1, <1>2, <1>4 DEF RowIn, RefundIn, PaymentIn, SentIn
<1>8. RowIn(r, o).status # "none" => PaymentIn(r, o) = "captured"
  BY <1>1, <1>4, <1>5, <1>7 DEF Written, RowIn, Exists
<1>9. Fine(r, o, RowIn(r, o))
  BY <1>1, <1>7, <1>8 DEF Written, Fine, Agree
<1>10. Written(r)
  BY <1>1, <1>2, <1>4, <1>7, <1>9 DEF Written
<1>11. Stage(r)
  BY <1>2, <1>10 DEF Stage
<1> QED
  BY <1>3, <1>6, <1>11, StatementSerial

\* A transaction that has saved its order goes on.
LEMMA SavedSerial ==
  ASSUME OneConnection, SInv, TInv', NEW t \in Txns, NEW r, Statement(t, r),
         Saving(tx[t]), Beside(tx[t], r), r.rows \subseteq Orders,
         r.wcart = tx[t].wcart, r.rec = tx[t].rec,
         r.wpay = tx[t].wpay, r.ref = tx[t].ref, r.pc = AfterSave(t),
         RowIn(r, r.o) = tx[t].ent
  PROVE  SerialInv'
<1> DEFINE o == tx[t].o
<1>1. /\ OnExisting(tx[t]) /\ Fine(tx[t], o, tx[t].ent) /\ o \in Orders /\ Exists(o)
      /\ (tx[t].op = "webhook" => PaymentIn(tx[t], o) = "captured")
      /\ tx[t].op # "checkout" /\ ~tx[t].wcart /\ ~tx[t].rec
      /\ (tx[t].op # "webhook" => tx[t].wpay = "none")
  BY DEF Saving, OnExisting
<1>2. r.o = o /\ r.op = tx[t].op
  BY DEF Beside
<1>3. Elsewhere(r)
  BY <1>1, <1>2, Staged, BesideElsewhere
<1>4. /\ PaymentIn(r, o) = PaymentIn(tx[t], o) /\ RefundIn(r, o) = RefundIn(tx[t], o)
      /\ SentIn(r, o) = SentIn(tx[t], o) /\ EventsIn(r, o) = EventsIn(tx[t], o)
  BY <1>2 DEF Beside, PaymentIn, RefundIn, SentIn, EventsIn
<1>5. Fine(r, o, RowIn(r, o))
  BY <1>1, <1>2, <1>4 DEF Fine
<1>6. Written(r)
  BY <1>1, <1>2, <1>4, <1>5 DEF Written
<1>7. CASE tx[t].op = "webhook"
  <2>1. r.pc = "record"
    BY <1>7 DEF AfterSave
  <2> QED
    BY <1>1, <1>2, <1>3, <1>6, <1>7, <2>1, StatementSerial DEF Stage
<1>8. CASE tx[t].op # "webhook"
  <2>1. r.pc = "commit"
    BY <1>8 DEF AfterSave
  <2> QED
    BY <1>3, <1>6, <2>1, StatementSerial DEF Stage
<1> QED
  BY <1>7, <1>8

LEMMA SameRow ==
  ASSUME NEW r \in Row, NEW s \in Row, r.cart = s.cart, \A col \in Columns : r[col] = s[col]
  PROVE  r = s
BY DEF Row, Columns

LEMMA ComputeDiffSerial ==
  ASSUME OneConnection, SInv, TInv', NEW t \in Txns, ComputeDiff(t)
  PROVE  SerialInv'
<1> DEFINE d == { col \in Columns : tx[t].ent[col] # order[tx[t].o][col] }
           r == [tx[t] EXCEPT !.diff = d, !.pc = IF d = {} THEN AfterSave(t) ELSE "row"]
<1>1. Saving(tx[t])
  BY Staged DEF ComputeDiff, Stage
<1>2. RowSeen(t, tx[t].o) = order[tx[t].o]
  BY <1>1 DEF Saving, OnExisting, RowIn, RowSeen
<1>3. Statement(t, r)
  BY <1>2 DEF ComputeDiff
<1> HIDE DEF d
<1>4. /\ Alike(tx[t], r) /\ r.c = tx[t].c /\ r.wcart = tx[t].wcart /\ r.ent = tx[t].ent
      /\ r.diff = d /\ r.pc = (IF d = {} THEN AfterSave(t) ELSE "row")
  BY Staged DEF TxRecord, Alike
<1> HIDE DEF r
<1>5. CASE d = {}
  <2>1. /\ tx[t].ent \in Row /\ order[tx[t].o] \in Row /\ tx[t].ent.cart = order[tx[t].o].cart
    BY <1>1, TxTypes DEF SInv, Saving, OnExisting
  <2>2. tx[t].ent = order[tx[t].o]
    BY <1>5, <2>1, SameRow DEF d
  <2>3. RowIn(r, r.o) = tx[t].ent
    BY <1>1, <1>4, <2>2 DEF Alike, RowIn, Saving, OnExisting
  <2>4. Beside(tx[t], r) /\ r.rows \subseteq Orders /\ r.rec = tx[t].rec
        /\ r.wpay = tx[t].wpay /\ r.ref = tx[t].ref
    BY <1>4, Staged DEF Alike, Beside
  <2> QED
    BY <1>1, <1>3, <1>4, <1>5, <2>3, <2>4, SavedSerial
<1>6. CASE d # {}
  <2>1. r.o = tx[t].o /\ r.op = tx[t].op
    BY <1>4 DEF Alike
  <2>2. Saving(r)
    BY <1>1, <1>4, <2>1, AlikeStages, AlikeFine DEF Saving
  <2>3. r.diff = { col \in Columns : r.ent[col] # order[r.o][col] }
    BY <1>4, <2>1 DEF d
  <2>4. Stage(r)
    BY <1>4, <1>6, <2>2, <2>3 DEF Stage
  <2> QED
    BY <1>3, <1>4, <2>4, Staged, AlikeElsewhere, StatementSerial
<1> QED
  BY <1>5, <1>6

\* With nobody else about, the row becomes the entity.
LEMMA MergeAll ==
  ASSUME NEW row \in Row, NEW ent \in Row, row.cart = ent.cart
  PROVE  Merge(row, ent, { col \in Columns : ent[col] # row[col] }) = ent
<1> DEFINE m == Merge(row, ent, { col \in Columns : ent[col] # row[col] })
<1>1. /\ m.status = ent.status /\ m.pay = ent.pay /\ m.exp = ent.exp
      /\ m.ful = ent.ful /\ m.cart = ent.cart
  BY DEF Merge, Columns
<1>2. m = [status |-> m.status, pay |-> m.pay, exp |-> m.exp, ful |-> m.ful, cart |-> m.cart]
  BY DEF Merge
<1>3. ent = [status |-> ent.status, pay |-> ent.pay, exp |-> ent.exp, ful |-> ent.ful,
             cart |-> ent.cart]
  BY DEF Row
<1> HIDE DEF m
<1>4. m = ent
  BY <1>1, <1>2, <1>3
<1> QED
  BY <1>4 DEF m

LEMMA UpdateRowSerial ==
  ASSUME OneConnection, SInv, TInv', NEW t \in Txns, UpdateRow(t)
  PROVE  SerialInv'
<1> DEFINE o == tx[t].o
           row == Merge(RowSeen(t, o), tx[t].ent, tx[t].diff)
           r == [tx[t] EXCEPT !.pc = AfterSave(t), !.rows = @ \cup {o}, !.wrow[o] = row]
<1>1. Saving(tx[t]) /\ tx[t].diff = { col \in Columns : tx[t].ent[col] # order[o][col] }
  BY Staged DEF UpdateRow, Stage
<1>2. RowSeen(t, o) = order[o] /\ o \in Orders /\ tx[t].ent.cart = order[o].cart
  BY <1>1 DEF Saving, OnExisting, RowIn, RowSeen
<1>3. order[o] \in Row /\ tx[t].ent \in Row
  BY <1>2, TxTypes, OrderTypes DEF SInv
<1>4. row = tx[t].ent
  BY <1>1, <1>2, <1>3, MergeAll
<1>5. Statement(t, r)
  BY DEF UpdateRow
<1> HIDE DEF row
<1>6. /\ Beside(tx[t], r) /\ r.rows = tx[t].rows \cup {o} /\ r.wrow[o] = row
      /\ r.c = tx[t].c /\ r.wcart = tx[t].wcart /\ r.rec = tx[t].rec /\ r.o = o
      /\ r.wpay = tx[t].wpay /\ r.ref = tx[t].ref /\ r.pc = AfterSave(t)
  <2>1. tx[t].wrow \in [Orders -> Row]
    BY Staged DEF TxRecord
  <2> QED
    BY <1>2, <2>1, Staged DEF TxRecord, Beside
<1> HIDE DEF r
<1>7. RowIn(r, r.o) = tx[t].ent
  BY <1>4, <1>6 DEF RowIn
<1>8. r.rows \subseteq Orders
  BY <1>2, <1>6, Staged
<1> QED
  BY <1>1, <1>5, <1>6, <1>7, <1>8, SavedSerial

--------------------------------------------------------------------------------
(* A commit makes what the transaction saw what everybody sees.                *)

LEMMA CommitReady ==
  ASSUME SInv, NEW t \in Txns, tx[t].pc = "commit"
  PROVE  /\ \A p \in Orders : Fine(tx[t], p, RowIn(tx[t], p))
         /\ (Placed(tx[t]) /\ tx[t].wcart) \/ (Written(tx[t]) /\ ~tx[t].wcart)
         /\ tx[t].o \in Orders
<1>1. (Placed(tx[t]) /\ tx[t].wcart) \/ Written(tx[t])
  BY Staged DEF Stage
<1>2. Placed(tx[t]) => RowIn(tx[t], tx[t].o) = tx[t].wrow[tx[t].o]
  BY DEF Placed, RowIn
<1>3. Fine(tx[t], tx[t].o, RowIn(tx[t], tx[t].o)) /\ tx[t].o \in Orders
  BY <1>1, <1>2 DEF Placed, Written
<1>4. Written(tx[t]) => ~tx[t].wcart
  BY DEF Written
<1> QED
  BY <1>1, <1>3, <1>4, Staged DEF Elsewhere

LEMMA CommitSees ==
  ASSUME SInv, NEW t \in Txns, Commit(t), NEW p \in Orders
  PROVE  /\ order'[p] = RowIn(tx[t], p) /\ refund'[p] = RefundIn(tx[t], p)
         /\ payment'[p] = PaymentIn(tx[t], p) /\ sent'[p] = SentIn(tx[t], p)
         /\ events'[p] = EventsIn(tx[t], p)
<1>1. /\ payment \in [Orders -> {"none", "pending", "captured"}]
      /\ sent \in [Orders -> [Variants -> Nat]] /\ events \in [Orders -> Nat]
  BY DEF SInv, TInv, TypeOK
<1>2. order'[p] = RowIn(tx[t], p) /\ refund'[p] = RefundIn(tx[t], p)
  BY DEF Commit, RowSeen, RowIn, RefundSeen, RefundIn
<1>3. payment'[p] = PaymentIn(tx[t], p)
  BY <1>1 DEF Commit, PaymentIn
<1>4. sent'[p] = SentIn(tx[t], p)
  BY <1>1 DEF Commit, SentIn
<1>5. events'[p] = EventsIn(tx[t], p)
  BY <1>1 DEF Commit, EventsIn
<1> QED
  BY <1>2, <1>3, <1>4, <1>5

LEMMA CommitSerial ==
  ASSUME OneConnection, SInv, TInv', NEW t \in Txns, Commit(t)
  PROVE  SerialInv'
<1> DEFINE x == tx[t]
<1>1. x.pc = "commit" /\ tx' = [tx EXCEPT ![t] = Idle] /\ charged' = charged
  BY DEF Commit, Go
<1>2. /\ \A p \in Orders : Fine(x, p, RowIn(x, p))
      /\ (Placed(x) /\ x.wcart) \/ (Written(x) /\ ~x.wcart)
      /\ x.o \in Orders
  BY <1>1, CommitReady
<1>3. \A p \in Orders : Agree(order[p], refund[p], payment[p], sent[p], events[p])'
  <2> SUFFICES ASSUME NEW p \in Orders
               PROVE  Agree(order[p], refund[p], payment[p], sent[p], events[p])'
    OBVIOUS
  <2>1. Agree(RowIn(x, p), RefundIn(x, p), PaymentIn(x, p), SentIn(x, p), EventsIn(x, p))
    BY <1>2 DEF Fine
  <2>2. Agree(order'[p], refund'[p], payment'[p], sent'[p], events'[p])
    BY <2>1, CommitSees
  <2> QED
    BY <2>2 DEF Agree
<1>4. \A p \in Orders : Exists(p) => order'[p].cart = order[p].cart
  BY <1>2, CommitSees DEF Fine, Lawful
<1>5. ASSUME Placed(x), x.wcart
     PROVE  OneOrderPerCart' /\ \A p \in Orders : Exists(p)' => cart'[order'[p].cart] = "converted"
  <2>1. /\ x.rows = {x.o} /\ ~Exists(x.o) /\ cart[x.c] = "active" /\ x.wrow[x.o].cart = x.c
        /\ x.op = "checkout"
    BY <1>5 DEF Placed
  <2>2. order'[x.o].cart = x.c
    BY <1>2, <2>1, CommitSees DEF RowIn
  <2>3. \A p \in Orders : p # x.o => order'[p] = order[p]
    BY <2>1, CommitSees DEF RowIn
  <2>4. cart' = [cart EXCEPT ![x.c] = "converted"] /\ x.c \in Carts
    BY <1>5, TxTypes DEF Commit, SInv
  <2>5. \A p \in Orders : Exists(p) => cart[order[p].cart] = "converted" /\ order[p].cart # x.c
    BY <2>1, Staged DEF Books
  <2>6. cart \in [Carts -> {"active", "converted"}]
    BY DEF SInv, TInv, TypeOK
  <2>7. OneOrderPerCart'
    BY <2>2, <2>3, <2>5, Staged DEF Books, OneOrderPerCart, Exists
  <2>8. ASSUME NEW p \in Orders, Exists(p)' PROVE cart'[order'[p].cart] = "converted"
    <3>1. CASE p = x.o
      BY <2>2, <2>4, <2>6, <3>1
    <3>2. CASE p # x.o
      <4>1. Exists(p) /\ order'[p] = order[p]
        BY <2>3, <2>8, <3>2 DEF Exists
      <4>2. order[p].cart \in Carts
        BY OrderTypes DEF SInv
      <4> QED
        BY <2>4, <2>5, <2>6, <4>1, <4>2
    <3> QED
      BY <3>1, <3>2
  <2> QED
    BY <2>7, <2>8
<1>6. ASSUME Written(x), ~x.wcart
     PROVE  OneOrderPerCart' /\ \A p \in Orders : Exists(p)' => cart'[order'[p].cart] = "converted"
  <2>1. x.op # "checkout" /\ \A p \in x.rows : Exists(p)
    BY <1>6, Staged DEF Written, Elsewhere
  <2>2. \A p \in Orders : Exists(p)' => Exists(p)
    BY <2>1, CommitSees DEF RowIn, Exists
  <2>3. cart' = cart
    BY <1>6 DEF Commit
  <2>4. OneOrderPerCart'
    BY <1>4, <2>2, Staged DEF Books, OneOrderPerCart
  <2>5. ASSUME NEW p \in Orders, Exists(p)' PROVE cart'[order'[p].cart] = "converted"
    BY <1>4, <2>2, <2>3, <2>5, Staged DEF Books
  <2> QED
    BY <2>4, <2>5
<1>7. ASSUME NEW p \in Orders, events'[p] > 0 PROVE p \in charged'
  <2>1. CASE x.rec /\ p = x.o
    <3>1. OnSomeOrder(x)
      BY <1>1 DEF OnSomeOrder
    <3> QED
      BY <1>1, <2>1, <3>1, Staged DEF Fits
  <2>2. CASE ~(x.rec /\ p = x.o)
    BY <1>1, <1>7, <2>2, CommitSees, Staged DEF EventsIn, Books
  <2> QED
    BY <2>1, <2>2
<1>8. Books'
  <2>1. OneOrderPerCart' /\ \A p \in Orders : Exists(p)' => cart'[order'[p].cart] = "converted"
    BY <1>2, <1>5, <1>6
  <2> QED
    BY <1>3, <1>7, <2>1 DEF Books
<1>9. (\A p \in Orders : Blank(Idle, p))'
  BY DEF Blank, Idle
<1>10. tx'[t] = Idle
  BY <1>1 DEF SInv, TInv, TypeOK
<1>11. Stage(Idle)'
  BY DEF Stage, Idle
<1>12. Elsewhere(Idle)'
  <2>1. ASSUME NEW p \in Orders PROVE Fine(Idle, p, RowIn(Idle, p))'
    <3>1. /\ Idle.rows = {} /\ Idle.ref[p] = 0 /\ Idle.wpay = "none" /\ ~Idle.rec
          /\ Idle.op = "none"
      BY DEF Idle
    <3>2. refund'[p] \in Nat
      BY DEF TInv, TypeOK
    <3>3. /\ RowIn(Idle, p)' = order'[p] /\ RefundIn(Idle, p)' = refund'[p]
          /\ PaymentIn(Idle, p)' = payment'[p] /\ SentIn(Idle, p)' = sent'[p]
          /\ EventsIn(Idle, p)' = events'[p]
      BY <3>1, <3>2 DEF RowIn, RefundIn, PaymentIn, SentIn, EventsIn
    <3>4. Agree(order'[p], refund'[p], payment'[p], sent'[p], events'[p])
      BY <1>3 DEF Agree
    <3> QED
      BY <3>3, <3>4 DEF Fine, Lawful, Agree
  <2>2. Idle.rows = {} /\ Idle.op = "none"
    BY DEF Idle
  <2> QED
    BY <2>1, <2>2 DEF Elsewhere
<1>13. Stage(tx[t])' /\ Elsewhere(tx[t])'
  <2>1. tx[t]' = Idle
    BY <1>10
  <2> QED
    BY <1>11, <1>12, <2>1
<1> QED
  BY <1>8, <1>13 DEF SerialInv, OneConnection

--------------------------------------------------------------------------------
(* Every step, and what follows for the properties.                            *)

LEMMA RunSerial ==
  ASSUME OneConnection, SInv, TInv', NEW t \in Txns, Run(t)
  PROVE  SerialInv'
<1>1. CASE \E v \in Variants : TakeStock(t, v) \/ RestoreStock(t, v)
  BY <1>1, LockSerial
<1>2. CASE \/ \E v \in Variants : InsufficientStock(t, v)
           \/ PaymentDeclined(t) \/ RefundRejected(t) \/ ShipmentRejected(t)
           \/ DuplicateEvent(t) \/ ExpiryRefused(t)
  <2>1. Fail(t)
    BY <1>2 DEF InsufficientStock, PaymentDeclined, RefundRejected, ShipmentRejected,
                DuplicateEvent, ExpiryRefused
  <2> QED
    BY <2>1, FailSerial
<1>3. CASE \E o \in Orders, result \in {"captured", "pending"} : PlaceOrder(t, o, result)
  BY <1>3, PlaceSerial
<1>5. CASE ConvertCart(t) \/ SettleByRefund(t) \/ SettleWithoutRefund(t)
           \/ CheckRefund(t) \/ SendRefund(t) \/ LabelRefund(t)
  BY <1>5, ConvertSerial, SettleSerial, CheckRefundSerial, SendRefundSerial, LabelSerial
<1>6. CASE InsertShipment(t) \/ HookPayment(t) \/ HookOrder(t) \/ RecordEvent(t)
  BY <1>6, ShipmentSerial, HookPaymentSerial, HookOrderSerial, RecordSerial
<1>7. CASE ComputeDiff(t) \/ UpdateRow(t) \/ Commit(t)
  BY <1>7, ComputeDiffSerial, UpdateRowSerial, CommitSerial
<1> QED
  BY <1>1, <1>2, <1>3, <1>5, <1>6, <1>7 DEF Run

LEMMA StillSerial ==
  ASSUME OneConnection, SInv, TInv', Still, UNCHANGED tx, charged \subseteq charged'
  PROVE  SerialInv'
<1>1. ASSUME NEW t \in Txns PROVE SerialInv'
  <2>1. Go(t, tx[t])
    BY DEF Go, SInv, TInv, TypeOK
  <2> QED
    BY <2>1, Staged, LocalSerial
<1>2. Books'
  BY DEF Still, SInv, SerialInv, Books, Agree, OneOrderPerCart, Exists
<1> QED
  BY <1>1, <1>2 DEF SerialInv

LEMMA SerialNext ==
  ASSUME OneConnection PROVE SInv /\ [Next]_vars => SInv'
<1> SUFFICES ASSUME SInv, [Next]_vars PROVE SInv'
  OBVIOUS
<1>1. TInv'
  BY TypeNext DEF SInv
<1>2. ASSUME NEW t \in Txns, \E c \in Carts : BeginCheckout(t, c) PROVE SerialInv'
  BY <1>1, <1>2, CheckoutSerial
<1>3. ASSUME NEW t \in Txns, \E o \in Orders : OrderRequest(t, o) PROVE SerialInv'
  BY <1>1, <1>3, OrderRequestSerial
<1>5. ASSUME NEW t \in Txns, Run(t) PROVE SerialInv'
  BY <1>1, <1>5, RunSerial
<1>6. ASSUME NEW t \in Txns, BeginExpire(t) \/ Abort(t) PROVE SerialInv'
  BY <1>1, <1>6, FailSerial
<1>7. ASSUME (\E o \in Orders : Elapse(o)) \/ UNCHANGED vars PROVE SerialInv'
  <2>1. UNCHANGED <<order, cart, payment, refund, sent, events, tx, charged>>
    BY <1>7 DEF Elapse, vars, db
  <2> QED
    BY <1>1, <2>1, StillSerial DEF Still
<1> QED
  BY <1>1, <1>2, <1>3, <1>5, <1>6, <1>7 DEF Next, SInv

LEMMA SerialInit == Init => SInv
<1> SUFFICES ASSUME Init PROVE SInv
  OBVIOUS
<1>1. TInv
  BY TypeInit
<1>2. NoRow.status = "none" /\ NoRow.cart \in Carts /\ NoRow.ful = "unfulfilled"
  BY NoRowType DEF NoRow, Row
<1>3. \A p \in Orders : ~Exists(p)
  BY <1>2 DEF Init, Exists
<1>4. Basket[NoRow.cart] \in [Variants -> Nat] /\ Total[NoRow.cart] \in Nat
  BY <1>2, BasketAssumption, TotalAssumption
<1>5. Agree(NoRow, 0, "none", NoLines, 0)
  <2>1. \A v \in Variants : NoLines[v] <= Basket[NoRow.cart][v]
    BY <1>4 DEF NoLines
  <2> QED
    BY <1>2, <1>4, <2>1, NothingSent DEF Agree
<1>6. Books
  BY <1>3, <1>5 DEF Init, Books, OneOrderPerCart
<1>7. \A p \in Orders : Blank(Idle, p)
  BY DEF Blank, Idle
<1>8. Stage(Idle)
  BY DEF Stage, Idle
<1>9. Elsewhere(Idle)
  <2>1. Idle.rows = {} /\ Idle.op = "none"
    BY DEF Idle
  <2> QED
    BY <1>1, <1>6, <1>7, <2>1, BlankFine DEF Elsewhere
<1>10. \A t \in Txns : tx[t] = Idle
  BY DEF Init
<1> QED
  BY <1>1, <1>6, <1>8, <1>9, <1>10 DEF SInv, SerialInv

LEMMA SerialAlways ==
  ASSUME OneConnection PROVE Spec => []SInv
BY SerialInit, SerialNext, PTL DEF Spec

\* A commit is the only step that changes an order, its refunds or its payment.
LEMMA OnlyCommit ==
  ASSUME [Next]_vars, ~ UNCHANGED order
  PROVE  \E t \in Txns : Commit(t)
<1>1. ASSUME NEW t \in Txns, Run(t), ~Commit(t) PROVE UNCHANGED order
  <2>1. ASSUME NEW r, Statement(t, r) PROVE UNCHANGED order
    BY <2>1 DEF Statement, db
  <2>2. CASE \E v \in Variants : TakeStock(t, v) \/ InsufficientStock(t, v) \/ RestoreStock(t, v)
    BY <2>1, <2>2 DEF TakeStock, InsufficientStock, RestoreStock, LockVariant, Fail
  <2>3. CASE \E o \in Orders, result \in {"captured", "pending"} : PlaceOrder(t, o, result)
    BY <2>3 DEF PlaceOrder, db
  <2>4. CASE PaymentDeclined(t) \/ ConvertCart(t) \/ ExpiryRefused(t)
    BY <2>1, <2>4 DEF PaymentDeclined, ConvertCart, ExpiryRefused, Fail
  <2>5. CASE \/ SettleByRefund(t) \/ SettleWithoutRefund(t) \/ CheckRefund(t)
             \/ RefundRejected(t) \/ LabelRefund(t)
    BY <2>1, <2>5 DEF SettleByRefund, SettleWithoutRefund, CheckRefund, RefundRejected,
                      LabelRefund, Fail
  <2>6. CASE SendRefund(t)
    BY <2>6 DEF SendRefund, db
  <2>7. CASE InsertShipment(t) \/ ShipmentRejected(t)
    BY <2>1, <2>7 DEF InsertShipment, ShipmentRejected, Fail
  <2>8. CASE HookPayment(t) \/ HookOrder(t) \/ RecordEvent(t) \/ DuplicateEvent(t)
    BY <2>1, <2>8 DEF HookPayment, HookOrder, RecordEvent, DuplicateEvent, Fail
  <2>9. CASE ComputeDiff(t) \/ UpdateRow(t)
    BY <2>1, <2>9 DEF ComputeDiff, UpdateRow
  <2> QED
    BY <1>1, <2>2, <2>3, <2>4, <2>5, <2>6, <2>7, <2>8, <2>9 DEF Run
<1>2. ASSUME NEW t \in Txns, NEW r, Request(t, r) PROVE UNCHANGED order
  BY <1>2 DEF Request, db
<1>3. ASSUME NEW t \in Txns, NEW o \in Orders, OrderRequest(t, o) PROVE UNCHANGED order
  BY <1>2, <1>3 DEF OrderRequest, Confirm, Complete, BeginCancel, BeginCustomerCancel,
                    BeginRefund, BeginShipment, BeginWebhook
<1>4. ASSUME NEW t \in Txns, \/ \E c \in Carts : BeginCheckout(t, c)
                             \/ BeginExpire(t) \/ Abort(t)
      PROVE UNCHANGED order
  BY <1>2, <1>4 DEF BeginCheckout, BeginExpire, Abort, Statement, db
<1>5. ASSUME (\E o \in Orders : Elapse(o)) \/ UNCHANGED vars PROVE UNCHANGED order
  BY <1>5 DEF Elapse, vars, db
<1> QED
  BY <1>1, <1>3, <1>4, <1>5 DEF Next

\* What a commit leaves of an order is lawful.
LEMMA CommitLawful ==
  ASSUME SInv, NEW t \in Txns, Commit(t), NEW o \in Orders
  PROVE  Lawful(o, order'[o], refund'[o], payment'[o])
<1>1. Lawful(o, RowIn(tx[t], o), RefundIn(tx[t], o), PaymentIn(tx[t], o))
  BY CommitReady DEF Commit, Fine
<1> QED
  BY <1>1, CommitSees

(* Requests handled one at a time never refund more than was captured          *)
(* (refundPayment's REFUND_EXCEEDS_PAYMENT check and the remaining balance     *)
(* that cancelOrderSideEffects refunds).                                       *)
THEOREM RefundsBounded ==
  ASSUME OneConnection PROVE Spec => []RefundWithinCapture
<1>1. SInv => RefundWithinCapture
  BY DEF SInv, SerialInv, Books, Agree, RefundWithinCapture
<1> QED
  BY <1>1, SerialAlways, PTL

(* Requests handled one at a time turn a cart into one order at most: checkout *)
(* converts the cart in the transaction that inserts the order.                *)
THEOREM CartOrderedOnce ==
  ASSUME OneConnection PROVE Spec => []OneOrderPerCart
<1>1. SInv => OneOrderPerCart
  BY DEF SInv, SerialInv, Books
<1> QED
  BY <1>1, SerialAlways, PTL

(* Requests handled one at a time apply a capture event to the payment in the  *)
(* transaction that records the event (handleWebhookEvent).                    *)
THEOREM EventReachesPayment ==
  ASSUME OneConnection PROVE Spec => []EventApplied
<1>1. SInv => EventApplied
  BY DEF SInv, SerialInv, Books, Agree, EventApplied, Exists
<1> QED
  BY <1>1, SerialAlways, PTL

(* Shipments created one at a time, none of which names an order item twice,   *)
(* send no more than was ordered, and fulfillment_status is what they amount   *)
(* to (createShipment).                                                        *)
THEOREM ShipmentsCounted ==
  ASSUME OneConnection, RepeatedLines \subseteq {NoLines}
  PROVE  Spec => []ShipmentsAddUp
<1>1. SingleLines
  BY DEF SingleLines
<1>2. SInv => ShipmentsAddUp
  BY <1>1 DEF SInv, SerialInv, Books, Agree, ShipmentsAddUp
<1> QED
  BY <1>2, SerialAlways, PTL

(* Requests handled one at a time find a completed or cancelled order as it is *)
(* and leave it so, and return none to pending (transitionStatus, cancelOrder, *)
(* createShipment, handleWebhookEvent).                                        *)
THEOREM ClosedForGood ==
  ASSUME OneConnection PROVE Spec => ClosedStays
<1>1. SInv /\ [Next]_vars =>
        [\A o \in Orders : order'[o].status # order[o].status =>
           /\ order[o].status \notin {"completed", "cancelled"}
           /\ order'[o].status = "pending" => order[o].status = "none"]_order
  <2> SUFFICES ASSUME SInv, [Next]_vars, ~ UNCHANGED order, NEW o \in Orders,
                      order'[o].status # order[o].status
               PROVE  /\ order[o].status \notin {"completed", "cancelled"}
                      /\ order'[o].status = "pending" => order[o].status = "none"
    OBVIOUS
  <2>1. PICK t \in Txns : Commit(t)
    BY OnlyCommit
  <2> QED
    BY <2>1, CommitLawful DEF Lawful, Move
<1> QED
  BY <1>1, SerialAlways, PTL DEF Spec, ClosedStays

(* Requests handled one at a time return the captured money in the commit that *)
(* cancels the order, whoever cancels it (cancelOrderSideEffects).             *)
THEOREM CancellationPaysBack ==
  ASSUME OneConnection PROVE Spec => CancellationRefunds
<1>1. SInv /\ [Next]_vars =>
        [\A o \in Orders :
           /\ order[o].status # "cancelled" /\ order'[o].status = "cancelled"
           /\ payment'[o] = "captured"
           => refund'[o] = Total[order[o].cart]]_<<order, payment, refund>>
  <2> SUFFICES ASSUME SInv, [Next]_vars, NEW o \in Orders,
                      order[o].status # "cancelled", order'[o].status = "cancelled",
                      payment'[o] = "captured"
               PROVE  refund'[o] = Total[order[o].cart]
    OBVIOUS
  <2>1. PICK t \in Txns : Commit(t)
    BY OnlyCommit
  <2>2. Lawful(o, order'[o], refund'[o], payment'[o])
    BY <2>1, CommitLawful
  <2>3. Exists(o)
    BY <2>2 DEF Lawful, Move, Exists
  <2> QED
    BY <2>2, <2>3 DEF Lawful
<1> QED
  BY <1>1, SerialAlways, PTL DEF Spec, CancellationRefunds

--------------------------------------------------------------------------------
(* One connection: what is not on the shelf is in an order.                    *)

LiveRow(row) == row.status \in {"pending", "confirmed", "completed"}
UnitsOf(row, v) == IF LiveRow(row) THEN Basket[row.cart][v] ELSE 0

\* The units in orders, if the transaction committed now.
UnitsIn(r, v) == SumFunctionOnSet([o \in Orders |-> UnitsOf(RowIn(r, o), v)], Orders)

\* Units that a transaction has taken for no order yet, or put back for an order
\* that it has not cancelled yet.
Taking(r) == r.op = "checkout" /\ r.pc \in {"items", "pay"}
Putting(r) == Cancelling(r) /\ r.pc \in {"items", "settle", "refund", "send", "diff", "row"}
Done(r, v) == IF v \in r.todo THEN 0 ELSE Basket[r.c][v]
Outstanding(r, v) == IF Taking(r) THEN Done(r, v) ELSE IF Putting(r) THEN 0 - Done(r, v) ELSE 0

Balanced(r) == \A v \in Variants : moved[v] + r.net[v] = UnitsIn(r, v) + Outstanding(r, v)

\* A save takes the units of an order away if it cancels it, and only then.
Ready(r) ==
  /\ r.pc \in {"diff", "row"} =>
       /\ Cancelling(r) => r.ent.status = "cancelled" /\ LiveRow(order[r.o])
       /\ ~Cancelling(r) => (LiveRow(r.ent) <=> LiveRow(order[r.o]))
  /\ r.pc # "items" => r.todo = {}

ShelfInv == /\ \A v \in Variants : moved[v] = LiveUnits(v)
            /\ \A t \in Txns : Balanced(tx[t]) /\ Ready(tx[t])

XInv == SInv /\ ShelfInv

LEMMA UnitsType ==
  ASSUME NEW row \in Row, NEW v \in Variants
  PROVE  UnitsOf(row, v) \in Nat /\ Basket[row.cart][v] \in Nat
<1>1. row.cart \in Carts
  BY DEF Row
<1> QED
  BY <1>1, BasketAssumption DEF UnitsOf

LEMMA RowsType ==
  ASSUME TInv, NEW r, r \in TxRecord, NEW o \in Orders
  PROVE  RowIn(r, o) \in Row
<1>1. r.wrow \in [Orders -> Row] /\ order[o] \in Row
  BY OrderTypes DEF TxRecord
<1> QED
  BY <1>1 DEF RowIn

LEMMA UnitsSame ==
  ASSUME IsFiniteSet(Orders), NEW r, NEW s, \A o \in Orders : RowIn(s, o) = RowIn(r, o),
         NEW v \in Variants
  PROVE  UnitsIn(s, v) = UnitsIn(r, v)
<1> DEFINE f == [o \in Orders |-> UnitsOf(RowIn(r, o), v)]
           g == [o \in Orders |-> UnitsOf(RowIn(s, o), v)]
<1>1. \A o \in Orders : f[o] = g[o]
  OBVIOUS
<1>2. UnitsIn(r, v) = SumFunctionOnSet(f, Orders) /\ UnitsIn(s, v) = SumFunctionOnSet(g, Orders)
  BY DEF UnitsIn
<1> HIDE DEF f, g
<1> QED
  BY <1>1, <1>2, SumSame

LEMMA UnitsInType ==
  ASSUME IsFiniteSet(Orders), TInv, NEW r, r \in TxRecord, NEW v \in Variants
  PROVE  UnitsIn(r, v) \in Int
<1> DEFINE f == [o \in Orders |-> UnitsOf(RowIn(r, o), v)]
<1>1. \A o \in Orders : f[o] \in Int
  BY RowsType, UnitsType
<1>2. UnitsIn(r, v) = SumFunctionOnSet(f, Orders)
  BY DEF UnitsIn
<1> HIDE DEF f
<1> QED
  BY <1>1, <1>2, SumInt

LEMMA UnitsChange ==
  ASSUME IsFiniteSet(Orders), TInv, NEW r, r \in TxRecord, NEW s, NEW o \in Orders,
         RowIn(s, o) \in Row, \A p \in Orders : p # o => RowIn(s, p) = RowIn(r, p),
         NEW v \in Variants
  PROVE  UnitsIn(s, v) = UnitsIn(r, v) - UnitsOf(RowIn(r, o), v) + UnitsOf(RowIn(s, o), v)
<1> DEFINE f == [p \in Orders |-> UnitsOf(RowIn(r, p), v)]
           g == [p \in Orders |-> UnitsOf(RowIn(s, p), v)]
<1>1. \A p \in Orders : RowIn(r, p) \in Row /\ RowIn(s, p) \in Row
  BY RowsType
<1>2. \A p \in Orders : f[p] \in Int /\ g[p] \in Int
  BY <1>1, UnitsType
<1>3. \A p \in Orders : p # o => f[p] = g[p]
  OBVIOUS
<1>4. /\ UnitsIn(r, v) = SumFunctionOnSet(f, Orders) /\ UnitsIn(s, v) = SumFunctionOnSet(g, Orders)
      /\ f[o] = UnitsOf(RowIn(r, o), v) /\ g[o] = UnitsOf(RowIn(s, o), v)
  BY DEF UnitsIn
<1> HIDE DEF f, g
<1> QED
  BY <1>2, <1>3, <1>4, SumChange

\* With nothing under way, the units in orders are those of the live ones.
LEMMA UnitsLive ==
  ASSUME IsFiniteSet(Orders), NEW r, \A o \in Orders : RowIn(r, o) = order[o], NEW v \in Variants
  PROVE  UnitsIn(r, v) = LiveUnits(v)
<1> DEFINE f == [o \in Orders |-> UnitsOf(RowIn(r, o), v)]
           g == [o \in Orders |-> IF Live(o) THEN Basket[order[o].cart][v] ELSE 0]
<1>1. \A o \in Orders : f[o] = g[o]
  BY DEF UnitsOf, LiveRow, Live
<1>2. UnitsIn(r, v) = SumFunctionOnSet(f, Orders) /\ LiveUnits(v) = SumFunctionOnSet(g, Orders)
  BY DEF UnitsIn, LiveUnits
<1> HIDE DEF f, g
<1> QED
  BY <1>1, <1>2, SumSame

LEMMA DoneType ==
  ASSUME NEW r \in TxRecord, NEW v \in Variants
  PROVE  Done(r, v) \in Nat /\ Outstanding(r, v) \in Int /\ r.net[v] \in Int
                            /\ Basket[r.c][v] \in Nat
<1>1. r.c \in Carts /\ r.net \in [Variants -> Int]
  BY DEF TxRecord
<1> QED
  BY <1>1, BasketAssumption DEF Done, Outstanding

LEMMA LocalShelf ==
  ASSUME OneConnection, XInv, TInv', NEW t \in Txns, NEW r, Go(t, r),
         UNCHANGED <<order, moved>>, Balanced(r), Ready(r)
  PROVE  ShelfInv'
<1>1. tx'[t] = r
  BY DEF XInv, SInv, TInv, TypeOK, Go
<1>2. Balanced(tx[t])'
  BY <1>1 DEF Balanced, UnitsIn, RowIn, Outstanding, Taking, Putting, Cancelling, Done
<1>3. Ready(tx[t])'
  BY <1>1 DEF Ready, Cancelling
<1>4. \A v \in Variants : moved'[v] = LiveUnits(v)'
  BY DEF XInv, ShelfInv, LiveUnits, Live
<1> QED
  BY <1>2, <1>3, <1>4 DEF ShelfInv, OneConnection

\* A transaction that has written nothing.
LEMMA BlankShelf ==
  ASSUME IsFiniteSet(Orders), OneConnection, XInv, TInv', NEW t \in Txns, NEW r, Go(t, r),
         UNCHANGED <<order, moved>>, Ready(r), r.net = NoLines,
         \A o \in Orders : RowIn(r, o) = order[o],
         \A v \in Variants : Outstanding(r, v) = 0
  PROVE  ShelfInv'
<1>1. ASSUME NEW v \in Variants PROVE moved[v] + r.net[v] = UnitsIn(r, v) + Outstanding(r, v)
  <2>1. moved[v] = LiveUnits(v) /\ moved[v] \in Int
    BY DEF XInv, ShelfInv, SInv, TInv, TypeOK
  <2>2. UnitsIn(r, v) = LiveUnits(v)
    BY UnitsLive
  <2>3. r.net[v] = 0
    BY DEF NoLines
  <2> QED
    BY <2>1, <2>2, <2>3
<1> QED
  BY <1>1, LocalShelf DEF Balanced

\* A transaction that goes on as it was.
LEMMA SameShelf ==
  ASSUME IsFiniteSet(Orders), OneConnection, XInv, TInv', NEW t \in Txns, NEW r, Go(t, r),
         UNCHANGED <<order, moved>>, Ready(r), r.net = tx[t].net,
         \A o \in Orders : RowIn(r, o) = RowIn(tx[t], o),
         \A v \in Variants : Outstanding(r, v) = Outstanding(tx[t], v)
  PROVE  ShelfInv'
<1>1. Balanced(r)
  BY UnitsSame DEF XInv, ShelfInv, Balanced
<1> QED
  BY <1>1, LocalShelf

LEMMA FailShelf ==
  ASSUME IsFiniteSet(Orders), OneConnection, XInv, TInv', NEW t \in Txns,
         Fail(t) \/ BeginExpire(t) \/ Abort(t)
  PROVE  ShelfInv'
<1>1. PICK r \in {Idle, [Idle EXCEPT !.op = "expire", !.pc = "expired"]} :
        Go(t, r) /\ UNCHANGED <<order, moved>>
  BY DEF Fail, BeginExpire, Abort, Statement, db
<1>2. r.net = NoLines /\ r.rows = {} /\ r.pc \in {"idle", "expired"} /\ r.todo = {}
  <2>1. CASE r = Idle
    BY <2>1 DEF Idle
  <2>2. CASE r = [Idle EXCEPT !.op = "expire", !.pc = "expired"]
    BY <2>2 DEF Idle
  <2> QED
    BY <2>1, <2>2
<1>3. Ready(r) /\ \A v : Outstanding(r, v) = 0
  BY <1>2 DEF Ready, Outstanding, Taking, Putting
<1>4. \A o \in Orders : RowIn(r, o) = order[o]
  BY <1>2 DEF RowIn
<1> QED
  BY <1>1, <1>2, <1>3, <1>4, BlankShelf

\* A request that has only read.
LEMMA RequestShelf ==
  ASSUME IsFiniteSet(Orders), OneConnection, XInv, TInv', NEW t \in Txns, NEW r, Request(t, r),
         r.rows = {}, r.net = NoLines, Ready(r), \A v \in Variants : Outstanding(r, v) = 0
  PROVE  ShelfInv'
<1>1. \A o \in Orders : RowIn(r, o) = order[o]
  BY DEF RowIn
<1>2. Go(t, r) /\ UNCHANGED <<order, moved>>
  BY DEF Request, db
<1> QED
  BY <1>1, <1>2, BlankShelf

LEMMA UntouchedLines ==
  ASSUME NEW c \in Carts, NEW r, r.todo = Items(c), r.c = c, r.pc = "items", NEW v \in Variants
  PROVE  Outstanding(r, v) = 0
<1>1. v \notin Items(c) => Basket[c][v] = 0
  BY BasketAssumption DEF Items
<1>2. Done(r, v) = 0
  BY <1>1 DEF Done
<1> QED
  BY <1>2 DEF Outstanding

LEMMA CheckoutShelf ==
  ASSUME IsFiniteSet(Orders), OneConnection, XInv, TInv', NEW t \in Txns, NEW c \in Carts,
         BeginCheckout(t, c)
  PROVE  ShelfInv'
<1> DEFINE r == [Idle EXCEPT !.pc = "items", !.op = "checkout", !.c = c, !.todo = Items(c)]
<1>1. /\ r.pc = "items" /\ r.c = c /\ r.rows = {} /\ r.net = NoLines /\ r.todo = Items(c)
  BY DEF Idle
<1>2. Request(t, r)
  BY DEF BeginCheckout
<1> HIDE DEF r
<1>3. Ready(r)
  BY <1>1 DEF Ready
<1> QED
  BY <1>1, <1>2, <1>3, UntouchedLines, RequestShelf

LEMMA OrderRequestShelf ==
  ASSUME IsFiniteSet(Orders), OneConnection, XInv, TInv', NEW t \in Txns, NEW o \in Orders,
         OrderRequest(t, o)
  PROVE  ShelfInv'
<1>1. ASSUME NEW op, NEW pc
      PROVE  LET r == OnOrder(op, o, pc)
             IN  r.pc = pc /\ r.op = op /\ r.ent = order[o] /\ r.o = o /\ r.todo = {}
                 /\ r.rows = {} /\ r.net = NoLines /\ r.c = order[o].cart
  BY DEF OnOrder, Idle
<1>2. order[o] \in Row /\ order[o].cart \in Carts
  BY OrderTypes DEF XInv, SInv
<1>3. ASSUME NEW r, Request(t, r), r.rows = {}, r.net = NoLines,
             r.op \notin {"checkout", "cancel", "customerCancel"}, r.todo = {},
             r.pc = "diff" => (LiveRow(r.ent) <=> LiveRow(order[r.o])), r.pc # "row"
      PROVE  ShelfInv'
  BY <1>3, RequestShelf DEF Ready, Outstanding, Taking, Putting, Cancelling
<1>4. CASE Confirm(t, o)
  <2> DEFINE r == [OnOrder("confirm", o, "diff") EXCEPT
                     !.ent.status = "confirmed", !.ent.exp = FALSE]
  <2>1. order[o].status = "pending"
    BY <1>4 DEF Confirm, ValidTransitions
  <2>2. /\ r.op = "confirm" /\ r.rows = {} /\ r.net = NoLines /\ r.todo = {} /\ r.o = o
        /\ r.pc = "diff" /\ r.ent.status = "confirmed"
    BY <1>2 DEF OnOrder, Idle, Row
  <2>3. Request(t, r)
    BY <1>4 DEF Confirm
  <2> HIDE DEF r
  <2> QED
    BY <1>3, <2>1, <2>2, <2>3 DEF LiveRow
<1>5. CASE Complete(t, o)
  <2> DEFINE r == [OnOrder("complete", o, "diff") EXCEPT !.ent.status = "completed"]
  <2>1. order[o].status = "confirmed"
    BY <1>5 DEF Complete, ValidTransitions
  <2>2. /\ r.op = "complete" /\ r.rows = {} /\ r.net = NoLines /\ r.todo = {} /\ r.o = o
        /\ r.pc = "diff" /\ r.ent.status = "completed"
    BY <1>2 DEF OnOrder, Idle, Row
  <2>3. Request(t, r)
    BY <1>5 DEF Complete
  <2> HIDE DEF r
  <2> QED
    BY <1>3, <2>1, <2>2, <2>3 DEF LiveRow
<1>6. ASSUME NEW op, Request(t, [OnOrder(op, o, "items") EXCEPT !.todo = Items(order[o].cart)])
      PROVE  ShelfInv'
  <2> DEFINE r == [OnOrder(op, o, "items") EXCEPT !.todo = Items(order[o].cart)]
  <2>1. /\ r.rows = {} /\ r.net = NoLines /\ r.todo = Items(order[o].cart) /\ r.pc = "items"
        /\ r.c = order[o].cart
    BY DEF OnOrder, Idle
  <2>2. Request(t, r)
    BY <1>6
  <2> HIDE DEF r
  <2>3. Ready(r)
    BY <2>1 DEF Ready
  <2> QED
    BY <1>2, <2>1, <2>2, <2>3, UntouchedLines, RequestShelf
<1>7. CASE BeginCancel(t, o) \/ BeginCustomerCancel(t, o)
  BY <1>6, <1>7 DEF BeginCancel, BeginCustomerCancel
<1>8. ASSUME NEW a \in RefundAmounts, BeginRefund(t, o, a) PROVE ShelfInv'
  <2> DEFINE r == [OnOrder("refund", o, "refund") EXCEPT !.amt = a]
  <2>1. r.op = "refund" /\ r.rows = {} /\ r.net = NoLines /\ r.todo = {} /\ r.pc = "refund"
    BY DEF OnOrder, Idle
  <2>2. Request(t, r)
    BY <1>8 DEF BeginRefund
  <2> HIDE DEF r
  <2> QED
    BY <1>3, <2>1, <2>2
<1>9. ASSUME NEW f \in ShipLines, NEW s \in RepeatedLines, BeginShipment(t, o, f, s)
      PROVE  ShelfInv'
  <2> DEFINE r == [OnOrder("ship", o, "shipments") EXCEPT !.line1 = f, !.line2 = s]
  <2>1. r.op = "ship" /\ r.rows = {} /\ r.net = NoLines /\ r.todo = {} /\ r.pc = "shipments"
    BY DEF OnOrder, Idle
  <2>2. Request(t, r)
    BY <1>9 DEF BeginShipment
  <2> HIDE DEF r
  <2> QED
    BY <1>3, <2>1, <2>2
<1>10. CASE BeginWebhook(t, o)
  <2> DEFINE r == [OnOrder("webhook", o, WebhookTarget(o)) EXCEPT !.ent = NoRow]
  <2>1. /\ r.op = "webhook" /\ r.rows = {} /\ r.net = NoLines /\ r.todo = {}
        /\ r.pc \in {"record", "hookPayment"}
    BY DEF OnOrder, Idle, WebhookTarget
  <2>2. Request(t, r)
    BY <1>10 DEF BeginWebhook
  <2> HIDE DEF r
  <2> QED
    BY <1>3, <2>1, <2>2
<1> QED
  BY <1>4, <1>5, <1>7, <1>8, <1>9, <1>10 DEF OrderRequest

LEMMA LockShelf ==
  ASSUME IsFiniteSet(Orders), OneConnection, XInv, TInv', NEW t \in Txns, NEW v \in Variants,
         TakeStock(t, v) \/ RestoreStock(t, v)
  PROVE  ShelfInv'
<1>1. ASSUME NEW change, NEW after, LockVariant(t, v, change, after), tx[t].pc = "items",
             v \in tx[t].todo,
             \/ tx[t].op = "checkout" /\ change = -Basket[tx[t].c][v] /\ after = "pay"
             \/ tx[t].op # "checkout" /\ change = Basket[tx[t].c][v] /\ after = "settle"
      PROVE  ShelfInv'
  <2> DEFINE r == [tx[t] EXCEPT
                !.todo = @ \ {v}, !.held = @ \cup {v},
                !.wrote[v] = StockSeen(t, v) + change, !.net[v] = @ - change,
                !.pc = IF tx[t].todo = {v} THEN after ELSE "items"]
  <2>1. Statement(t, r)
    BY <1>1 DEF LockVariant
  <2>2. tx[t] \in TxRecord /\ tx[t].net \in [Variants -> Int] /\ Stage(tx[t])
    BY Staged DEF XInv, TxRecord
  <2>3. /\ r.todo = tx[t].todo \ {v} /\ r.rows = tx[t].rows /\ r.wrow = tx[t].wrow
        /\ r.net = [tx[t].net EXCEPT ![v] = @ - change] /\ r.op = tx[t].op /\ r.c = tx[t].c
        /\ r.pc = IF tx[t].todo = {v} THEN after ELSE "items"
    BY <2>2 DEF TxRecord
  <2> HIDE DEF r
  <2>4. tx[t].op = "checkout" \/ Cancelling(tx[t])
    BY <1>1, <2>2 DEF Stage, ToCancel
  <2>5. Basket[tx[t].c][v] \in Nat
    BY <2>2, DoneType
  <2>6. ASSUME NEW w \in Variants
        PROVE  moved[w] + r.net[w] = UnitsIn(r, w) + Outstanding(r, w)
    <3>1. /\ moved[w] + tx[t].net[w] = UnitsIn(tx[t], w) + Outstanding(tx[t], w)
          /\ moved[w] \in Int /\ tx[t].net[w] \in Int
      BY <2>2 DEF XInv, ShelfInv, Balanced, SInv, TInv, TypeOK
    <3>2. UnitsIn(r, w) = UnitsIn(tx[t], w) /\ UnitsIn(tx[t], w) \in Int
      <4>1. \A p \in Orders : RowIn(r, p) = RowIn(tx[t], p)
        BY <2>3 DEF RowIn
      <4> QED
        BY <2>2, <4>1, UnitsSame, UnitsInType DEF XInv, SInv
    <3>3. Outstanding(tx[t], w) \in Int
      BY <2>2, DoneType
    <3>4. Outstanding(r, w) = IF w = v THEN Outstanding(tx[t], v) - change
                                       ELSE Outstanding(tx[t], w)
      BY <1>1, <2>3, <2>4, <2>5 DEF Outstanding, Done, Taking, Putting, Cancelling
    <3>5. r.net[w] = IF w = v THEN tx[t].net[w] - change ELSE tx[t].net[w]
      BY <2>2, <2>3
    <3>6. change \in Int
      BY <1>1, <2>5
    <3> QED
      BY <3>1, <3>2, <3>3, <3>4, <3>5, <3>6
  <2>7. Ready(r)
    BY <1>1, <2>3 DEF Ready
  <2> QED
    BY <2>1, <2>6, <2>7, LocalShelf DEF Balanced, Statement, db
<1>2. ASSUME TakeStock(t, v) PROVE ShelfInv'
  BY <1>1, <1>2 DEF TakeStock, NextLine
<1>3. ASSUME RestoreStock(t, v) PROVE ShelfInv'
  BY <1>1, <1>3 DEF RestoreStock, NextLine
<1> QED
  BY <1>2, <1>3

LEMMA PlaceShelf ==
  ASSUME IsFiniteSet(Orders), OneConnection, XInv, TInv', NEW t \in Txns, NEW o \in Orders,
         NEW result \in {"captured", "pending"}, PlaceOrder(t, o, result)
  PROVE  ShelfInv'
<1> DEFINE row == [status |-> IF result = "captured" THEN "confirmed" ELSE "pending",
                   pay |-> result, exp |-> ~(result = "captured"), ful |-> "unfulfilled",
                   cart |-> tx[t].c]
           r == [tx[t] EXCEPT !.pc = "cart", !.o = o, !.ent = row, !.rows = @ \cup {o},
                              !.wrow[o] = row, !.wpay = result]
<1>1. /\ Go(t, r) /\ tx[t].pc = "pay" /\ ~Exists(o) /\ UNCHANGED <<order, moved>>
  BY DEF PlaceOrder, db
<1>2. /\ tx[t] \in TxRecord /\ Shopping(tx[t]) /\ Ready(tx[t])
  BY <1>1, Staged DEF Stage, XInv, ShelfInv
<1>3. /\ tx[t].todo = {} /\ tx[t].rows = {} /\ tx[t].op = "checkout" /\ tx[t].c \in Carts
      /\ tx[t].wrow \in [Orders -> Row]
  BY <1>1, <1>2 DEF Ready, Shopping, TxRecord
<1>4. row \in Row /\ LiveRow(row) /\ row.cart = tx[t].c
  BY <1>3 DEF Row, LiveRow, LifecycleStatus, StoredPay, FulfillmentStatus
<1> HIDE DEF row
<1>5. /\ r.pc = "cart" /\ r.net = tx[t].net /\ r.op = "checkout" /\ r.rows = {o} /\ r.wrow[o] = row
      /\ r.todo = {}
  BY <1>2, <1>3 DEF TxRecord
<1> HIDE DEF r
<1>6. /\ RowIn(r, o) = row /\ RowIn(tx[t], o) = order[o]
      /\ \A p \in Orders : p # o => RowIn(r, p) = RowIn(tx[t], p)
  BY <1>3, <1>5 DEF RowIn
<1>7. ASSUME NEW v \in Variants
      PROVE  moved[v] + r.net[v] = UnitsIn(r, v) + Outstanding(r, v)
  <2>1. /\ moved[v] + tx[t].net[v] = UnitsIn(tx[t], v) + Outstanding(tx[t], v)
    BY DEF XInv, ShelfInv, Balanced
  <2>2. UnitsIn(r, v) = UnitsIn(tx[t], v) - UnitsOf(order[o], v) + UnitsOf(row, v)
    BY <1>2, <1>4, <1>6, UnitsChange DEF XInv, SInv
  <2>3. UnitsOf(order[o], v) = 0 /\ UnitsOf(row, v) = Basket[tx[t].c][v]
    BY <1>1, <1>4 DEF UnitsOf, LiveRow, Exists
  <2>4. Outstanding(tx[t], v) = Basket[tx[t].c][v] /\ Outstanding(r, v) = 0
    BY <1>1, <1>3, <1>5 DEF Outstanding, Done, Taking, Putting, Cancelling
  <2>5. UnitsIn(tx[t], v) \in Int /\ Basket[tx[t].c][v] \in Nat
    BY <1>2, UnitsInType, DoneType DEF XInv, SInv
  <2> QED
    BY <1>5, <2>1, <2>2, <2>3, <2>4, <2>5
<1>8. Ready(r)
  BY <1>5 DEF Ready
<1> QED
  BY <1>1, <1>7, <1>8, LocalShelf DEF Balanced

\* A statement that neither locks a variant nor writes an order.
LEMMA StatementShelf ==
  ASSUME IsFiniteSet(Orders), OneConnection, XInv, TInv', NEW t \in Txns, NEW r, Go(t, r),
         UNCHANGED <<order, moved>>, r.rows = tx[t].rows, r.wrow = tx[t].wrow,
         r.net = tx[t].net, r.op = tx[t].op, r.c = tx[t].c, r.todo = tx[t].todo,
         Taking(r) <=> Taking(tx[t]), Putting(r) <=> Putting(tx[t]), Ready(r)
  PROVE  ShelfInv'
<1>1. \A v \in Variants : Outstanding(r, v) = Outstanding(tx[t], v)
  BY DEF Outstanding, Done
<1>2. \A o \in Orders : RowIn(r, o) = RowIn(tx[t], o)
  BY DEF RowIn
<1> QED
  BY <1>1, <1>2, SameShelf

LEMMA SettleShelf ==
  ASSUME IsFiniteSet(Orders), OneConnection, XInv, TInv', NEW t \in Txns,
         \/ SettleByRefund(t) \/ SettleWithoutRefund(t) \/ CheckRefund(t) \/ SendRefund(t)
  PROVE  ShelfInv'
<1> DEFINE ent == [Cancelled(t) EXCEPT !.pay = "refunded"]
<1>1. /\ tx[t] \in TxRecord /\ Stage(tx[t]) /\ Ready(tx[t])
      /\ Cancelled(t).status = "cancelled" /\ Cancelled(t) \in Row
  BY Staged, CancelledIs DEF XInv, ShelfInv
<1>2. ent.status = "cancelled"
  BY <1>1 DEF Row
<1>3. tx[t].pc \in {"settle", "refund", "send"}
  BY DEF SettleByRefund, SettleWithoutRefund, CheckRefund, SendRefund
<1>4. tx[t].todo = {}
  BY <1>1, <1>3 DEF Ready
<1>5. /\ tx[t].op # "checkout"
      /\ tx[t].op # "refund" => Cancelling(tx[t]) /\ LiveRow(order[tx[t].o])
  BY <1>1, <1>3 DEF Stage, ToRefund, ToCancel, Reading, OnExisting, LiveRow
<1>6. ASSUME NEW r, Go(t, r), UNCHANGED <<order, moved>>, r.pc \in {"refund", "diff", "send", "label"},
             r.pc = "diff" => r.ent.status = "cancelled" /\ tx[t].op # "refund",
             r.pc = "label" => tx[t].op = "refund",
             r.rows = tx[t].rows, r.wrow = tx[t].wrow, r.net = tx[t].net, r.op = tx[t].op,
             r.c = tx[t].c, r.todo = tx[t].todo, r.o = tx[t].o
      PROVE  ShelfInv'
  <2>1. (Taking(r) <=> Taking(tx[t])) /\ (Putting(r) <=> Putting(tx[t]))
    BY <1>3, <1>5, <1>6 DEF Taking, Putting, Cancelling
  <2>2. Ready(r)
    BY <1>4, <1>5, <1>6 DEF Ready, Cancelling
  <2> QED
    BY <1>6, <2>1, <2>2, StatementShelf
<1>7. CASE SettleByRefund(t)
  <2> DEFINE r == [tx[t] EXCEPT !.pc = "refund", !.amt = Total[tx[t].c] - RefundSeen(t, tx[t].o)]
  <2>1. Go(t, r) /\ UNCHANGED <<order, moved>>
    BY <1>7 DEF SettleByRefund, Statement, db
  <2>2. /\ r.pc = "refund" /\ r.rows = tx[t].rows /\ r.wrow = tx[t].wrow /\ r.net = tx[t].net
        /\ r.op = tx[t].op /\ r.c = tx[t].c /\ r.todo = tx[t].todo /\ r.o = tx[t].o
    BY <1>1 DEF TxRecord
  <2> HIDE DEF r
  <2> QED
    BY <1>6, <2>1, <2>2
<1>8. CASE SettleWithoutRefund(t)
  <2> DEFINE r == [tx[t] EXCEPT !.pc = "diff", !.ent = Cancelled(t)]
  <2>1. Go(t, r) /\ UNCHANGED <<order, moved>>
    BY <1>8 DEF SettleWithoutRefund, Statement, db
  <2>2. /\ r.pc = "diff" /\ r.rows = tx[t].rows /\ r.wrow = tx[t].wrow /\ r.net = tx[t].net
        /\ r.op = tx[t].op /\ r.c = tx[t].c /\ r.todo = tx[t].todo /\ r.o = tx[t].o
        /\ r.ent = Cancelled(t)
    BY <1>1 DEF TxRecord
  <2>3. tx[t].op # "refund"
    BY <1>1, <1>8 DEF SettleWithoutRefund, Stage, ToCancel, Cancelling
  <2> HIDE DEF r
  <2> QED
    BY <1>1, <1>6, <2>1, <2>2, <2>3
<1>9. CASE CheckRefund(t)
  <2> DEFINE r == [tx[t] EXCEPT !.pc = "send"]
  <2>1. Go(t, r) /\ UNCHANGED <<order, moved>>
    BY <1>9 DEF CheckRefund, Statement, db
  <2>2. /\ r.pc = "send" /\ r.rows = tx[t].rows /\ r.wrow = tx[t].wrow /\ r.net = tx[t].net
        /\ r.op = tx[t].op /\ r.c = tx[t].c /\ r.todo = tx[t].todo /\ r.o = tx[t].o
    BY <1>1 DEF TxRecord
  <2> HIDE DEF r
  <2> QED
    BY <1>6, <2>1, <2>2
<1>10. CASE SendRefund(t)
  <2> DEFINE x == [tx[t] EXCEPT !.ref[tx[t].o] = @ + tx[t].amt]
             r == IF x.op = "refund" THEN [x EXCEPT !.pc = "label"]
                  ELSE [x EXCEPT !.pc = "diff", !.ent = ent]
  <2>1. Go(t, r) /\ UNCHANGED <<order, moved>>
    BY <1>10 DEF SendRefund, db
  <2> HIDE DEF ent
  <2>2. /\ r.pc = (IF tx[t].op = "refund" THEN "label" ELSE "diff")
        /\ r.rows = tx[t].rows /\ r.wrow = tx[t].wrow /\ r.net = tx[t].net
        /\ r.op = tx[t].op /\ r.c = tx[t].c /\ r.todo = tx[t].todo /\ r.o = tx[t].o
        /\ tx[t].op # "refund" => r.ent = ent
    BY <1>1 DEF TxRecord
  <2> HIDE DEF r
  <2> QED
    BY <1>2, <1>6, <2>1, <2>2
<1> QED
  BY <1>7, <1>8, <1>9, <1>10

LEMMA QuietShelf ==
  ASSUME IsFiniteSet(Orders), OneConnection, XInv, TInv', NEW t \in Txns,
         \/ ConvertCart(t) \/ LabelRefund(t) \/ InsertShipment(t)
         \/ HookPayment(t) \/ HookOrder(t) \/ RecordEvent(t)
  PROVE  ShelfInv'
<1>1. /\ tx[t] \in TxRecord /\ Stage(tx[t])
      /\ tx[t].pc \in {"cart", "label", "shipments", "hookPayment", "hookOrder", "record"}
  BY Staged DEF XInv, ConvertCart, LabelRefund, InsertShipment, HookPayment, HookOrder, RecordEvent
<1>2. ~Cancelling(tx[t]) /\ (tx[t].op = "checkout" => tx[t].pc = "cart")
  BY <1>1 DEF Stage, Placed, Labelling, Shipping, Hooked, OnExisting, Cancelling
<1>3. UNCHANGED <<order, moved>>
  BY DEF ConvertCart, LabelRefund, InsertShipment, HookPayment, HookOrder, RecordEvent,
         Statement, db
<1>4. tx[t].todo = {}
  BY <1>1 DEF XInv, ShelfInv, Ready
<1>5. ASSUME NEW r, Go(t, r), r.rows = tx[t].rows, r.wrow = tx[t].wrow,
             r.net = tx[t].net, r.op = tx[t].op, r.c = tx[t].c, r.todo = tx[t].todo,
             r.pc \in {"hookOrder", "record", "diff", "commit"}, r.o = tx[t].o,
             r.pc = "diff" => (LiveRow(r.ent) <=> LiveRow(order[r.o]))
      PROVE  ShelfInv'
  <2>1. (Taking(r) <=> Taking(tx[t])) /\ (Putting(r) <=> Putting(tx[t]))
    BY <1>1, <1>2, <1>5 DEF Taking, Putting, Cancelling
  <2>2. Ready(r)
    BY <1>2, <1>4, <1>5 DEF Ready, Cancelling
  <2> QED
    BY <1>3, <1>5, <2>1, <2>2, StatementShelf
<1>6. CASE ConvertCart(t)
  <2> DEFINE r(w) == [[tx[t] EXCEPT !.pc = "commit"] EXCEPT !.wcart = w]
  <2>1. \/ Go(t, [tx[t] EXCEPT !.pc = "commit"])
        \/ Go(t, [tx[t] EXCEPT !.pc = "commit", !.wcart = TRUE])
    BY <1>6 DEF ConvertCart, Statement
  <2>2. /\ [tx[t] EXCEPT !.pc = "commit"] = r(tx[t].wcart)
        /\ [tx[t] EXCEPT !.pc = "commit", !.wcart = TRUE] = r(TRUE)
    BY <1>1 DEF TxRecord
  <2>3. \A w : /\ r(w).rows = tx[t].rows /\ r(w).wrow = tx[t].wrow /\ r(w).net = tx[t].net
               /\ r(w).op = tx[t].op /\ r(w).c = tx[t].c /\ r(w).todo = tx[t].todo
               /\ r(w).o = tx[t].o /\ r(w).pc = "commit"
    BY <1>1 DEF TxRecord
  <2> HIDE DEF r
  <2>4. \E w : Go(t, r(w))
    BY ZenonT(30), <2>1, <2>2
  <2> QED
    BY <1>5, <2>3, <2>4
<1>7. CASE LabelRefund(t)
  <2> DEFINE e == [tx[t].ent EXCEPT !.pay = IF FullyRefunded(t) THEN "refunded"
                                            ELSE "partially_refunded"]
             r == [[tx[t] EXCEPT !.pc = "diff"] EXCEPT !.ent = e]
  <2>1. tx[t].ent \in Row /\ tx[t].ent = order[tx[t].o]
    BY <1>1, <1>7 DEF LabelRefund, Stage, Labelling, TxRecord
  <2>2. Go(t, [tx[t] EXCEPT !.pc = "diff", !.ent.pay = IF FullyRefunded(t) THEN "refunded"
                                                       ELSE "partially_refunded"])
    BY <1>7 DEF LabelRefund, Statement
  <2>3. e.status = order[tx[t].o].status
    BY <2>1 DEF Row
  <2>4. Go(t, r)
    BY <1>1, <2>2 DEF TxRecord
  <2> HIDE DEF e
  <2>5. /\ r.pc = "diff" /\ r.rows = tx[t].rows /\ r.wrow = tx[t].wrow /\ r.net = tx[t].net
        /\ r.op = tx[t].op /\ r.c = tx[t].c /\ r.todo = tx[t].todo /\ r.o = tx[t].o
        /\ r.ent = e
    BY <1>1 DEF TxRecord
  <2> HIDE DEF r
  <2> QED
    BY <1>5, <2>3, <2>4, <2>5 DEF LiveRow
<1>8. CASE InsertShipment(t)
  <2> DEFINE ful == DeriveFulfillment(Basket[tx[t].c], AllShipped(t))
             e == [[tx[t].ent EXCEPT !.ful = ful] EXCEPT
                     !.status = IF ful = "fulfilled" THEN "completed" ELSE @]
             r == [[tx[t] EXCEPT !.pc = "diff"] EXCEPT !.ent = e]
  <2>1. /\ tx[t].ent \in Row /\ tx[t].ent = order[tx[t].o]
        /\ order[tx[t].o].status \notin {"none", "cancelled"}
    BY <1>1, <1>8 DEF InsertShipment, Stage, Shipping, OnExisting, Exists, TxRecord
  <2>2. Go(t, [tx[t] EXCEPT !.pc = "diff", !.ent.ful = ful,
                         !.ent.status = IF ful = "fulfilled" THEN "completed" ELSE @])
    BY <1>8 DEF InsertShipment, Statement
  <2> HIDE DEF ful
  <2>3. e.status = order[tx[t].o].status \/ e.status = "completed"
    BY <2>1 DEF Row
  <2>4. LiveRow(e) /\ LiveRow(order[tx[t].o])
    BY <2>1, <2>3 DEF LiveRow, Row, LifecycleStatus
  <2>5. Go(t, r)
    BY ZenonT(30), <1>1, <2>1, <2>2 DEF TxRecord, Row
  <2> HIDE DEF e
  <2>6. /\ r.pc = "diff" /\ r.rows = tx[t].rows /\ r.wrow = tx[t].wrow /\ r.net = tx[t].net
        /\ r.op = tx[t].op /\ r.c = tx[t].c /\ r.todo = tx[t].todo /\ r.o = tx[t].o
        /\ r.ent = e
    BY <1>1 DEF TxRecord
  <2> HIDE DEF r
  <2> QED
    BY <1>5, <2>4, <2>5, <2>6
<1>9. CASE HookPayment(t)
  <2> DEFINE r(w) == [[tx[t] EXCEPT !.pc = "hookOrder"] EXCEPT !.wpay = w]
  <2>1. \/ Go(t, [tx[t] EXCEPT !.pc = "hookOrder"])
        \/ Go(t, [[tx[t] EXCEPT !.pc = "hookOrder"] EXCEPT !.wpay = "captured"])
    BY <1>9 DEF HookPayment, Statement
  <2>2. [tx[t] EXCEPT !.pc = "hookOrder"] = r(tx[t].wpay)
    BY <1>1 DEF TxRecord
  <2>3. \A w : /\ r(w).rows = tx[t].rows /\ r(w).wrow = tx[t].wrow /\ r(w).net = tx[t].net
               /\ r(w).op = tx[t].op /\ r(w).c = tx[t].c /\ r(w).todo = tx[t].todo
               /\ r(w).o = tx[t].o /\ r(w).pc = "hookOrder"
    BY <1>1 DEF TxRecord
  <2>4. Go(t, r(tx[t].wpay)) \/ Go(t, r("captured"))
    BY <2>1, <2>2
  <2> HIDE DEF r
  <2> QED
    BY <1>5, <2>3, <2>4
<1>10. CASE HookOrder(t)
  <2> DEFINE row == order[tx[t].o]
             e == [row EXCEPT !.pay = "captured",
                              !.status = IF @ = "pending" THEN "confirmed" ELSE @]
             r(pc, x) == [[tx[t] EXCEPT !.pc = pc] EXCEPT !.ent = x]
  <2>1. row \in Row
    BY <1>1, <1>10, OrderTypes DEF HookOrder, Stage, Hooked, OnExisting, XInv, SInv
  <2>2. Go(t, IF row.status = "cancelled" THEN [tx[t] EXCEPT !.pc = "record", !.ent = row]
              ELSE [tx[t] EXCEPT !.pc = "diff", !.ent = e])
    BY <1>10 DEF HookOrder, Statement
  <2>3. LiveRow(e) <=> LiveRow(row)
    BY <2>1 DEF LiveRow, Row
  <2> HIDE DEF row, e
  <2>4. /\ [tx[t] EXCEPT !.pc = "record", !.ent = row] = r("record", row)
        /\ [tx[t] EXCEPT !.pc = "diff", !.ent = e] = r("diff", e)
    BY <1>1 DEF TxRecord
  <2>5. \A pc, x : /\ r(pc, x).rows = tx[t].rows /\ r(pc, x).wrow = tx[t].wrow
                   /\ r(pc, x).net = tx[t].net /\ r(pc, x).op = tx[t].op
                   /\ r(pc, x).c = tx[t].c /\ r(pc, x).todo = tx[t].todo
                   /\ r(pc, x).o = tx[t].o /\ r(pc, x).pc = pc /\ r(pc, x).ent = x
    BY <1>1 DEF TxRecord
  <2> HIDE DEF r
  <2>6. CASE row.status = "cancelled"
    BY <1>5, <2>2, <2>4, <2>5, <2>6
  <2>7. CASE row.status # "cancelled"
    BY <1>5, <2>2, <2>3, <2>4, <2>5, <2>7 DEF row
  <2> QED
    BY <2>6, <2>7
<1>11. CASE RecordEvent(t)
  <2> DEFINE r == [tx[t] EXCEPT !.pc = "commit", !.rec = TRUE]
  <2>1. Go(t, r)
    BY <1>11 DEF RecordEvent, Statement
  <2>2. /\ r.pc = "commit" /\ r.rows = tx[t].rows /\ r.wrow = tx[t].wrow /\ r.net = tx[t].net
        /\ r.op = tx[t].op /\ r.c = tx[t].c /\ r.todo = tx[t].todo /\ r.o = tx[t].o
    BY <1>1 DEF TxRecord
  <2> HIDE DEF r
  <2> QED
    BY <1>5, <2>1, <2>2
<1> QED
  BY <1>6, <1>7, <1>8, <1>9, <1>10, <1>11

LEMMA SaveShelf ==
  ASSUME IsFiniteSet(Orders), OneConnection, XInv, TInv', NEW t \in Txns,
         ComputeDiff(t) \/ UpdateRow(t)
  PROVE  ShelfInv'
<1> DEFINE o == tx[t].o
<1>1. /\ tx[t] \in TxRecord /\ Saving(tx[t]) /\ Ready(tx[t]) /\ tx[t].pc \in {"diff", "row"}
      /\ tx[t].pc = "row" => tx[t].diff = { col \in Columns : tx[t].ent[col] # order[o][col] }
  BY Staged DEF XInv, ShelfInv, ComputeDiff, UpdateRow, Stage
<1>2. /\ o \in Orders /\ RowIn(tx[t], o) = order[o] /\ tx[t].c = order[o].cart
      /\ tx[t].ent.cart = order[o].cart /\ tx[t].ent \in Row /\ tx[t].todo = {}
      /\ tx[t].op # "checkout" /\ order[o] \in Row
  BY <1>1, OrderTypes DEF Saving, OnExisting, Ready, TxRecord, XInv, SInv
<1>3. UNCHANGED <<order, moved>>
  BY DEF ComputeDiff, UpdateRow, Statement, db
<1>4. AfterSave(t) \in {"record", "commit"}
  BY DEF AfterSave
<1>5. CASE ComputeDiff(t)
  <2> DEFINE d == { col \in Columns : tx[t].ent[col] # RowSeen(t, o)[col] }
             r == [tx[t] EXCEPT !.diff = d, !.pc = IF d = {} THEN AfterSave(t) ELSE "row"]
  <2>1. Go(t, r)
    BY <1>5 DEF ComputeDiff, Statement
  <2>2. d = {} => tx[t].ent.status = order[o].status
    BY <1>2 DEF RowIn, RowSeen, Columns
  <2> HIDE DEF d
  <2>3. /\ r.pc = (IF d = {} THEN AfterSave(t) ELSE "row")
        /\ r.rows = tx[t].rows /\ r.wrow = tx[t].wrow /\ r.net = tx[t].net
        /\ r.op = tx[t].op /\ r.c = tx[t].c /\ r.todo = tx[t].todo /\ r.o = tx[t].o
        /\ r.ent = tx[t].ent
    BY <1>1 DEF TxRecord
  <2> HIDE DEF r
  <2>4. Cancelling(tx[t]) => d # {}
    BY <1>1, <2>2 DEF Ready, LiveRow
  <2>5. Putting(r) <=> Putting(tx[t])
    BY <1>1, <1>4, <2>3, <2>4 DEF Putting, Cancelling
  <2>6. ~Taking(r) /\ ~Taking(tx[t])
    BY <1>2, <2>3 DEF Taking
  <2>7. Ready(r)
    BY <1>1, <1>2, <1>4, <2>3 DEF Ready, Cancelling
  <2> QED
    BY <1>3, <2>1, <2>3, <2>5, <2>6, <2>7, StatementShelf
<1>6. CASE UpdateRow(t)
  <2> DEFINE row == Merge(RowSeen(t, o), tx[t].ent, tx[t].diff)
             r == [tx[t] EXCEPT !.pc = AfterSave(t), !.rows = @ \cup {o}, !.wrow[o] = row]
  <2>1. Go(t, r) /\ tx[t].pc = "row"
    BY <1>6 DEF UpdateRow, Statement
  <2>2. row = tx[t].ent
    BY <1>1, <1>2, <2>1, MergeAll DEF RowIn, RowSeen
  <2> HIDE DEF row
  <2>3. /\ r.pc = AfterSave(t) /\ r.rows = tx[t].rows \cup {o}
        /\ r.wrow = [tx[t].wrow EXCEPT ![o] = row]
        /\ r.net = tx[t].net /\ r.op = tx[t].op /\ r.todo = {}
    BY <1>1, <1>2 DEF TxRecord
  <2> HIDE DEF r
  <2>4. tx[t].wrow \in [Orders -> Row]
    BY <1>1 DEF TxRecord
  <2>5. RowIn(r, o) = tx[t].ent /\ \A p \in Orders : p # o => RowIn(r, p) = RowIn(tx[t], p)
    BY <1>2, <2>2, <2>3, <2>4 DEF RowIn
  <2>6. ASSUME NEW v \in Variants
        PROVE  moved[v] + r.net[v] = UnitsIn(r, v) + Outstanding(r, v)
    <3>1. moved[v] + tx[t].net[v] = UnitsIn(tx[t], v) + Outstanding(tx[t], v)
      BY DEF XInv, ShelfInv, Balanced
    <3>2. UnitsIn(r, v) = UnitsIn(tx[t], v) - UnitsOf(order[o], v) + UnitsOf(tx[t].ent, v)
      BY <1>1, <1>2, <2>5, UnitsChange DEF XInv, SInv
    <3>3. /\ UnitsIn(tx[t], v) \in Int /\ Basket[tx[t].c][v] \in Nat
          /\ UnitsOf(order[o], v) \in Nat /\ UnitsOf(tx[t].ent, v) \in Nat
      BY <1>1, <1>2, UnitsInType, UnitsType, DoneType DEF XInv, SInv
    <3>4. Outstanding(r, v) = 0
      BY <1>2, <1>4, <2>3 DEF Outstanding, Taking, Putting
    <3>5. CASE Cancelling(tx[t])
      <4>1. Outstanding(tx[t], v) = 0 - Basket[tx[t].c][v]
        BY <1>2, <2>1, <3>5 DEF Outstanding, Taking, Putting, Done
      <4>2. UnitsOf(order[o], v) = Basket[tx[t].c][v] /\ UnitsOf(tx[t].ent, v) = 0
        BY <1>1, <1>2, <3>5 DEF UnitsOf, Ready, LiveRow
      <4> QED
        BY <2>3, <3>1, <3>2, <3>3, <3>4, <4>1, <4>2
    <3>6. CASE ~Cancelling(tx[t])
      <4>1. Outstanding(tx[t], v) = 0
        BY <1>2, <3>6 DEF Outstanding, Taking, Putting
      <4>2. UnitsOf(order[o], v) = UnitsOf(tx[t].ent, v)
        BY <1>1, <1>2, <3>6 DEF UnitsOf, Ready
      <4> QED
        BY <2>3, <3>1, <3>2, <3>3, <3>4, <4>1, <4>2
    <3> QED
      BY <3>5, <3>6
  <2>7. Ready(r)
    BY <1>4, <2>3 DEF Ready
  <2> QED
    BY <1>3, <2>1, <2>6, <2>7, LocalShelf DEF Balanced
<1> QED
  BY <1>5, <1>6

LEMMA CommitShelf ==
  ASSUME IsFiniteSet(Orders), OneConnection, XInv, TInv', NEW t \in Txns, Commit(t)
  PROVE  ShelfInv'
<1>1. /\ tx'[t] = Idle /\ tx[t].pc = "commit" /\ tx[t] \in TxRecord
      /\ \A v \in Variants : moved'[v] = moved[v] + tx[t].net[v]
  BY DEF Commit, Go, XInv, SInv, TInv, TypeOK
<1>2. \A p \in Orders : order'[p] = RowIn(tx[t], p)
  BY CommitSees DEF XInv
<1>3. Idle.rows = {} /\ Idle.pc = "idle" /\ Idle.net = NoLines /\ Idle.todo = {}
  BY DEF Idle
<1>4. ASSUME NEW v \in Variants PROVE moved'[v] = LiveUnits(v)'
  <2>1. moved[v] + tx[t].net[v] = UnitsIn(tx[t], v) + Outstanding(tx[t], v)
    BY DEF XInv, ShelfInv, Balanced
  <2>2. Outstanding(tx[t], v) = 0
    BY <1>1 DEF Outstanding, Taking, Putting
  <2>3. UnitsIn(tx[t], v) = LiveUnits(v)'
    <3> DEFINE f == [o \in Orders |-> UnitsOf(RowIn(tx[t], o), v)]
               g == [o \in Orders |-> IF order'[o].status \in {"pending", "confirmed", "completed"}
                                      THEN Basket[order'[o].cart][v] ELSE 0]
    <3>1. \A o \in Orders : f[o] = g[o]
      BY <1>2 DEF UnitsOf, LiveRow
    <3>2. /\ UnitsIn(tx[t], v) = SumFunctionOnSet(f, Orders)
          /\ LiveUnits(v)' = SumFunctionOnSet(g, Orders)
      BY DEF UnitsIn, LiveUnits, Live
    <3> HIDE DEF f, g
    <3> QED
      BY <3>1, <3>2, SumSame
  <2>4. UnitsIn(tx[t], v) \in Int
    BY <1>1, UnitsInType DEF XInv, SInv
  <2> QED
    BY <1>1, <2>1, <2>2, <2>3, <2>4
<1>5. Balanced(tx[t])'
  <2> SUFFICES ASSUME NEW v \in Variants
               PROVE  (moved[v] + tx[t].net[v] = UnitsIn(tx[t], v) + Outstanding(tx[t], v))'
    BY DEF Balanced
  <2>1. tx'[t].net[v] = 0 /\ Outstanding(tx[t], v)' = 0
    BY <1>1, <1>3 DEF NoLines, Outstanding, Taking, Putting
  <2>2. UnitsIn(tx[t], v)' = LiveUnits(v)'
    <3> DEFINE f == [o \in Orders |-> UnitsOf(IF o \in tx'[t].rows THEN tx'[t].wrow[o]
                                              ELSE order'[o], v)]
               g == [o \in Orders |-> IF order'[o].status \in {"pending", "confirmed", "completed"}
                                      THEN Basket[order'[o].cart][v] ELSE 0]
    <3>1. \A o \in Orders : f[o] = g[o]
      BY <1>1, <1>3 DEF UnitsOf, LiveRow
    <3>2. /\ UnitsIn(tx[t], v)' = SumFunctionOnSet(f, Orders)
          /\ LiveUnits(v)' = SumFunctionOnSet(g, Orders)
      BY DEF UnitsIn, RowIn, LiveUnits, Live
    <3> HIDE DEF f, g
    <3> QED
      BY <3>1, <3>2, SumSame
  <2>3. moved'[v] = LiveUnits(v)' /\ moved'[v] \in Int
    BY <1>4 DEF TInv, TypeOK
  <2> QED
    BY <2>1, <2>2, <2>3
<1>6. Ready(tx[t])'
  BY <1>1, <1>3 DEF Ready
<1> QED
  BY <1>4, <1>5, <1>6 DEF ShelfInv, OneConnection

LEMMA RunShelf ==
  ASSUME IsFiniteSet(Orders), OneConnection, XInv, TInv', NEW t \in Txns, Run(t)
  PROVE  ShelfInv'
<1>1. CASE \E v \in Variants : TakeStock(t, v) \/ RestoreStock(t, v)
  BY <1>1, LockShelf
<1>2. CASE \/ \E v \in Variants : InsufficientStock(t, v)
           \/ PaymentDeclined(t) \/ RefundRejected(t) \/ ShipmentRejected(t)
           \/ DuplicateEvent(t) \/ ExpiryRefused(t)
  <2>1. Fail(t)
    BY <1>2 DEF InsufficientStock, PaymentDeclined, RefundRejected, ShipmentRejected,
                DuplicateEvent, ExpiryRefused
  <2> QED
    BY <2>1, FailShelf
<1>3. CASE \E o \in Orders, result \in {"captured", "pending"} : PlaceOrder(t, o, result)
  BY <1>3, PlaceShelf
<1>5. CASE SettleByRefund(t) \/ SettleWithoutRefund(t) \/ CheckRefund(t) \/ SendRefund(t)
  BY <1>5, SettleShelf
<1>6. CASE \/ ConvertCart(t) \/ LabelRefund(t) \/ InsertShipment(t)
           \/ HookPayment(t) \/ HookOrder(t) \/ RecordEvent(t)
  BY <1>6, QuietShelf
<1>7. CASE ComputeDiff(t) \/ UpdateRow(t) \/ Commit(t)
  BY <1>7, SaveShelf, CommitShelf
<1> QED
  BY <1>1, <1>2, <1>3, <1>5, <1>6, <1>7 DEF Run

LEMMA ShelfNext ==
  ASSUME IsFiniteSet(Orders), OneConnection PROVE XInv /\ [Next]_vars => XInv'
<1> SUFFICES ASSUME XInv, [Next]_vars PROVE XInv'
  OBVIOUS
<1>1. SInv' /\ TInv'
  BY SerialNext DEF XInv, SInv
<1>2. ASSUME NEW t \in Txns, \E c \in Carts : BeginCheckout(t, c) PROVE ShelfInv'
  BY <1>1, <1>2, CheckoutShelf
<1>3. ASSUME NEW t \in Txns, \E o \in Orders : OrderRequest(t, o) PROVE ShelfInv'
  BY <1>1, <1>3, OrderRequestShelf
<1>5. ASSUME NEW t \in Txns, Run(t) PROVE ShelfInv'
  BY <1>1, <1>5, RunShelf
<1>6. ASSUME NEW t \in Txns, BeginExpire(t) \/ Abort(t) PROVE ShelfInv'
  BY <1>1, <1>6, FailShelf
<1>7. ASSUME (\E o \in Orders : Elapse(o)) \/ UNCHANGED vars PROVE ShelfInv'
  <2>1. UNCHANGED <<order, moved, tx>>
    BY <1>7 DEF Elapse, vars, db
  <2>2. ASSUME NEW t \in Txns PROVE Balanced(tx[t])' /\ Ready(tx[t])'
    BY <2>1 DEF XInv, ShelfInv, Balanced, UnitsIn, RowIn, Outstanding, Taking, Putting,
                Cancelling, Done, Ready
  <2>3. \A v \in Variants : moved'[v] = LiveUnits(v)'
    BY <2>1 DEF XInv, ShelfInv, LiveUnits, Live
  <2> QED
    BY <2>2, <2>3 DEF ShelfInv
<1> QED
  BY <1>1, <1>2, <1>3, <1>5, <1>6, <1>7 DEF Next, XInv

LEMMA ShelfInit == ASSUME IsFiniteSet(Orders) PROVE Init => XInv
<1> SUFFICES ASSUME Init PROVE XInv
  OBVIOUS
<1>1. SInv
  BY SerialInit
<1>2. /\ \A t \in Txns : tx[t] = Idle
      /\ \A o \in Orders : order[o].status = "none"
      /\ \A v \in Variants : moved[v] = 0
  BY DEF Init, NoRow, NoLines
<1>3. /\ Idle.rows = {} /\ Idle.pc = "idle" /\ Idle.todo = {}
      /\ \A v \in Variants : Idle.net[v] = 0
  BY DEF Idle, NoLines
<1>4. ASSUME NEW v \in Variants PROVE LiveUnits(v) = 0 /\ UnitsIn(Idle, v) = 0
  <2> DEFINE f == [o \in Orders |-> IF Live(o) THEN Basket[order[o].cart][v] ELSE 0]
  <2>1. \A o \in Orders : f[o] = 0
    BY <1>2 DEF Live
  <2>2. LiveUnits(v) = SumFunctionOnSet(f, Orders)
    BY DEF LiveUnits
  <2> HIDE DEF f
  <2>3. LiveUnits(v) = 0
    BY <2>1, <2>2, SumZero
  <2>4. UnitsIn(Idle, v) = LiveUnits(v)
    BY <1>3, UnitsLive DEF RowIn
  <2> QED
    BY <2>3, <2>4
<1>5. \A v : Outstanding(Idle, v) = 0
  BY <1>3 DEF Outstanding, Taking, Putting
<1>6. Balanced(Idle) /\ Ready(Idle)
  BY <1>2, <1>3, <1>4, <1>5 DEF Balanced, Ready
<1> QED
  BY <1>1, <1>2, <1>4, <1>6 DEF XInv, ShelfInv

(* Requests handled one at a time keep every unit on the shelf or in an order  *)
(* that is not cancelled: a checkout takes its basket exactly once, and a      *)
(* cancellation or expiry returns it exactly once (restoreStockForOrder).      *)
THEOREM UnitsAccountedFor ==
  ASSUME OneConnection, IsFiniteSet(Orders) PROVE Spec => []ShelfOrOrder
<1>1. XInv /\ LockInv => ShelfOrOrder
  <2> SUFFICES ASSUME XInv, LockInv, NEW v \in Variants
               PROVE  stock[v] + LiveUnits(v) = Stock0[v]
    BY DEF ShelfOrOrder
  <2>1. stock[v] = Stock0[v] - moved[v]
    BY DEF LockInv, StockLedger
  <2>2. moved[v] = LiveUnits(v)
    BY DEF XInv, ShelfInv
  <2>3. moved[v] \in Int /\ Stock0[v] \in Int
    BY StockAssumption DEF XInv, SInv, TInv, TypeOK
  <2> QED
    BY <2>1, <2>2, <2>3
<1>2. Spec => []XInv
  BY ShelfInit, ShelfNext, PTL DEF Spec
<1> QED
  BY <1>1, <1>2, LockAlways, PTL
================================================================================
