--------------------------------- MODULE Orders ---------------------------------
(***************************************************************************)
(* Orders, stock and payments of one tenant of apps/api: CheckoutService,  *)
(* OrdersService, PaymentsService and OrderExpiryService running against   *)
(* PostgreSQL.                                                             *)
(*                                                                         *)
(* Every service call is one READ COMMITTED transaction (TenantDbService). *)
(* An action is one statement of it, or several that read nothing another  *)
(* transaction can change in between.  What a transaction writes stays in  *)
(* its own record tx[t] until Commit; the rows it has updated or selected  *)
(* FOR UPDATE are locked until it ends; a plain find takes no lock and sees *)
(* what is committed at that moment.  EntityManager.save(order) is two     *)
(* statements: a SELECT that computes which columns differ from the entity *)
(* in memory, and an UPDATE of those columns, which waits for the row lock. *)
(* PostgreSQL refuses the locked read of the expiry job, so the job ends    *)
(* where it begins and cancels nothing.                                     *)
(***************************************************************************)
EXTENDS Integers, FiniteSets, OrderStatus

CONSTANTS
  Txns,        \* database connections: service calls that can be under way
  Orders,      \* ids that checkouts can give to orders
  Carts,       \* carts that are active at the start
  Variants,    \* product variants; ids are numbers, in the order of localeCompare
  Stock0,      \* stock of each variant at the start
  Basket,      \* quantity of each variant in each cart
  Total,       \* price of each cart, in minor units
  Ops,         \* the service calls of the workload
  MaxRequests, \* bound: service calls started (the scheduler's excluded)
  MaxAborts    \* bound: transactions lost to a crash

AllOps == {"checkout", "confirm", "complete", "cancel", "customerCancel",
           "refund", "ship", "webhook", "expire"}

ASSUME IdsAssumption    == Variants \subseteq Nat /\ Carts # {} /\ "none" \notin Orders
ASSUME StockAssumption  == Stock0 \in [Variants -> Nat]
ASSUME BasketAssumption == /\ Basket \in [Carts -> [Variants -> Nat]]
                           /\ \A c \in Carts : \E v \in Variants : Basket[c][v] > 0
ASSUME TotalAssumption  == Total \in [Carts -> Nat]
ASSUME OpsAssumption    == Ops \subseteq AllOps
ASSUME BoundAssumption  == MaxRequests \in Nat /\ MaxAborts \in Nat

VARIABLES
  stock,    \* product_variants.stock
  order,    \* orders rows; status "none" where there is no row
  cart,     \* carts.status
  payment,  \* payments.status of the order's payment row, "none" without one
  settled,  \* orders with a settlements row
  refund,   \* sum of the refunds rows of each order
  sent,     \* sum of the shipment_items rows, per order and variant
  events,   \* number of order_events rows with the provider event of an order
  charged,  \* provider: orders it accepted a payment for
  repaid,   \* provider: money it was asked to refund, per order
  elapsed,  \* clock: orders whose thirty minutes are over
  moved,    \* history: units committed transactions took minus put back
  tx,       \* the transaction of each connection
  served, aborts

db     == <<stock, order, cart, payment, settled, refund, sent, events, moved>>
bounds == <<served, aborts>>
vars   == <<db, charged, repaid, elapsed, tx, bounds>>

\* The payment statuses that service calls store: checkout stores 'captured'
\* or 'pending' and nothing else leads to an authorization, so the branches of
\* createShipment and cancelOrderSideEffects for one are never taken.
StoredPay == {"pending", "captured", "partially_refunded", "refunded"}

Row == [status : LifecycleStatus \cup {"none"}, pay : StoredPay,
        exp : BOOLEAN,          \* expiresAt is not null
        ful : FulfillmentStatus, cart : Carts]
Columns == {"status", "pay", "exp", "ful"}

NoCart == CHOOSE c \in Carts : TRUE
NoRow  == [status |-> "none", pay |-> "pending", exp |-> FALSE,
           ful |-> "unfulfilled", cart |-> NoCart]

Steps == {"idle", "items", "pay", "cart", "settle", "refund", "send", "label",
          "shipments", "hookPayment", "hookOrder", "record", "expired", "diff",
          "row", "commit"}

NoLines == [v \in Variants |-> 0]

TxRecord ==
  [pc : Steps, op : AllOps \cup {"none"},
   o : Orders \cup {"none"}, c : Carts,
   todo  : SUBSET Variants,      \* order or cart lines still to be processed
   held  : SUBSET Variants,      \* variants locked, with
   wrote : [Variants -> Nat],    \* the stock written to them
   net   : [Variants -> Int],    \* units taken (history, see moved)
   ent   : Row,                  \* the order entity in memory
   diff  : SUBSET Columns,       \* columns its save will update
   rows  : SUBSET Orders,        \* orders rows locked, with
   wrow  : [Orders -> Row],      \* their contents
   amt   : Nat,                  \* amount of the refund being made
   ref   : [Orders -> Nat],      \* refunds rows inserted
   line1 : [Variants -> Nat], line2 : [Variants -> Nat], \* shipment lines
   wpay  : {"none", "pending", "captured"},  \* payments row written
   wcart : BOOLEAN,              \* carts row written
   rec   : BOOLEAN]              \* order_events row of the webhook inserted

Idle == [pc |-> "idle", op |-> "none", o |-> "none", c |-> NoCart,
         todo |-> {}, held |-> {}, wrote |-> NoLines, net |-> NoLines,
         ent |-> NoRow, diff |-> {}, rows |-> {},
         wrow |-> [o \in Orders |-> NoRow], amt |-> 0,
         ref |-> [o \in Orders |-> 0], line1 |-> NoLines, line2 |-> NoLines,
         wpay |-> "none", wcart |-> FALSE, rec |-> FALSE]

Init ==
  /\ stock   = Stock0
  /\ order   = [o \in Orders |-> NoRow]
  /\ cart    = [c \in Carts |-> "active"]
  /\ payment = [o \in Orders |-> "none"]
  /\ settled = {}
  /\ refund  = [o \in Orders |-> 0]
  /\ sent    = [o \in Orders |-> NoLines]
  /\ events  = [o \in Orders |-> 0]
  /\ charged = {} /\ repaid = [o \in Orders |-> 0] /\ elapsed = {}
  /\ moved   = NoLines
  /\ tx      = [t \in Txns |-> Idle]
  /\ served = 0 /\ aborts = 0

--------------------------------------------------------------------------------
(* What a transaction sees, and what it has to wait for.                   *)

Exists(o)    == order[o].status # "none"
Items(c)     == { v \in Variants : Basket[c][v] > 0 }
StockSeen(t, v)  == IF v \in tx[t].held THEN tx[t].wrote[v] ELSE stock[v]
RowSeen(t, o)    == IF o \in tx[t].rows THEN tx[t].wrow[o] ELSE order[o]
RefundSeen(t, o) == refund[o] + tx[t].ref[o]

StockFree_Unlocked(t, v) == TRUE
StockFree(t, v) == \A u \in Txns \ {t} : v \notin tx[u].held

RowFree(t, o) == \A u \in Txns \ {t} : o \notin tx[u].rows

\* An insert that refers to an order takes a key-share lock on it, with which no
\* lock conflicts that a statement here takes on an orders row.

Go(t, r) == tx' = [tx EXCEPT ![t] = r]

\* A service call arrives on an idle connection and runs its first statement.
Request(t, r) ==
  /\ tx[t].pc = "idle" /\ r.op \in Ops /\ served < MaxRequests
  /\ served' = served + 1 /\ Go(t, r)
  /\ UNCHANGED <<db, charged, repaid, elapsed, aborts>>

\* Any other statement that changes nothing outside the transaction.
Statement(t, r) ==
  /\ Go(t, r) /\ UNCHANGED <<db, charged, repaid, elapsed, bounds>>

\* A coded exception, which rolls the transaction back.
Fail(t) == Statement(t, Idle)

--------------------------------------------------------------------------------
(* Checkout.                                                               *)

\* activeCartWhere
ActiveCart_AnyStatus(c) == TRUE
ActiveCart(c) == cart[c] = "active"

BeginCheckout(t, c) ==
  /\ ActiveCart(c)
  /\ Request(t, [Idle EXCEPT !.pc = "items", !.op = "checkout", !.c = c,
                             !.todo = Items(c)])

\* The lines are sorted by variant id before the first is locked.
NextLine_RestoreUnsorted(t, v) ==
  v \in tx[t].todo /\ (tx[t].op = "checkout" => \A w \in tx[t].todo : v <= w)
NextLine(t, v) == v \in tx[t].todo /\ \A w \in tx[t].todo : v <= w

\* Lock the next line's variant and write its stock plus change.
LockVariant(t, v, change, after) ==
  /\ StockFree(t, v)
  /\ Statement(t, [tx[t] EXCEPT
       !.todo = @ \ {v}, !.held = @ \cup {v},
       !.wrote[v] = StockSeen(t, v) + change, !.net[v] = @ - change,
       !.pc = IF tx[t].todo = {v} THEN after ELSE "items"])

Enough_OffByOne(t, v) == StockSeen(t, v) + 1 >= Basket[tx[t].c][v]
Enough(t, v)          == StockSeen(t, v) >= Basket[tx[t].c][v]

TakeStock(t, v) ==
  /\ tx[t].pc = "items" /\ tx[t].op = "checkout" /\ NextLine(t, v)
  /\ Enough(t, v)
  /\ LockVariant(t, v, -Basket[tx[t].c][v], "pay")

InsufficientStock(t, v) ==
  /\ tx[t].pc = "items" /\ tx[t].op = "checkout" /\ NextLine(t, v)
  /\ StockFree(t, v) /\ ~Enough(t, v)
  /\ Fail(t)

\* Insert the order, its items and its events, charge the provider, insert the
\* payment and, when it is captured, confirm the order.
PlaceOrder(t, o, result) ==
  /\ tx[t].pc = "pay"
  /\ ~Exists(o) /\ o \notin charged
  /\ charged' = charged \cup {o}
  /\ LET paid == result = "captured"
         row  == [status |-> IF paid THEN "confirmed" ELSE "pending",
                  pay |-> result, exp |-> ~paid, ful |-> "unfulfilled",
                  cart |-> tx[t].c]
     IN  Go(t, [tx[t] EXCEPT !.pc = "cart", !.o = o, !.ent = row,
                             !.rows = @ \cup {o},
                             !.wrow[o] = row, !.wpay = result])
  /\ UNCHANGED <<db, repaid, elapsed, bounds>>

PaymentDeclined(t) == tx[t].pc = "pay" /\ Fail(t)

\* save(cart): nothing to update when another checkout has converted it.
ConvertCart(t) ==
  /\ tx[t].pc = "cart"
  /\ LET c == tx[t].c
     IN  \/ /\ cart[c] = "converted"
            /\ Statement(t, [tx[t] EXCEPT !.pc = "commit"])
         \/ /\ cart[c] = "active"
            /\ \A u \in Txns \ {t} : ~(tx[u].wcart /\ tx[u].c = c)
            /\ Statement(t, [tx[t] EXCEPT !.pc = "commit", !.wcart = TRUE])

--------------------------------------------------------------------------------
(* transitionStatus, cancelOrder, customerCancelOrder.                     *)

OnOrder(op, o, pc) ==
  [Idle EXCEPT !.op = op, !.o = o, !.c = order[o].cart, !.ent = order[o], !.pc = pc]

Confirm(t, o) ==
  /\ "confirmed" \in ValidTransitions(order[o].status)
  /\ Request(t, [OnOrder("confirm", o, "diff") EXCEPT
                   !.ent.status = "confirmed", !.ent.exp = FALSE])

Complete(t, o) ==
  /\ "completed" \in ValidTransitions(order[o].status)
  /\ Request(t, [OnOrder("complete", o, "diff") EXCEPT !.ent.status = "completed"])

\* cancelOrder and transitionStatus('cancelled') admit the same statuses.
BeginCancel(t, o) ==
  /\ "cancelled" \in ValidTransitions(order[o].status)
  /\ Request(t, [OnOrder("cancel", o, "items") EXCEPT !.todo = Items(order[o].cart)])

BeginCustomerCancel(t, o) ==
  /\ order[o].status = "pending"
  /\ Request(t, [OnOrder("customerCancel", o, "items") EXCEPT
                   !.todo = Items(order[o].cart)])

RestoreStock(t, v) ==
  /\ tx[t].pc = "items" /\ tx[t].op # "checkout" /\ NextLine(t, v)
  /\ LockVariant(t, v, Basket[tx[t].c][v], "settle")

\* The entity as the cancelling caller leaves it before save(order).
Cancelled(t) == [tx[t].ent EXCEPT !.status = "cancelled"]

HasCapturedBalance_OnlyFull(t) ==
  /\ tx[t].ent.pay \in {"captured", "paid"}
  /\ RefundSeen(t, tx[t].o) < Total[tx[t].c]

HasCapturedBalance(t) ==
  /\ tx[t].ent.pay \in {"captured", "paid", "partially_refunded"}
  /\ RefundSeen(t, tx[t].o) < Total[tx[t].c]

SettleByRefund(t) ==
  /\ tx[t].pc = "settle" /\ HasCapturedBalance(t)
  /\ Statement(t, [tx[t] EXCEPT !.pc = "refund",
                     !.amt = Total[tx[t].c] - RefundSeen(t, tx[t].o)])

SettleWithoutRefund(t) ==
  /\ tx[t].pc = "settle" /\ ~HasCapturedBalance(t)
  /\ Statement(t, [tx[t] EXCEPT !.pc = "diff", !.ent = Cancelled(t)])

--------------------------------------------------------------------------------
(* refundOrder and PaymentsService.refundPayment.                          *)

BeginRefund(t, o, amount) ==
  /\ Exists(o)
  /\ Request(t, [OnOrder("refund", o, "refund") EXCEPT !.amt = amount])

Refundable_EachAlone(t) == payment[tx[t].o] = "captured" /\ tx[t].amt <= Total[tx[t].c]
Refundable(t) == /\ payment[tx[t].o] = "captured"
                 /\ RefundSeen(t, tx[t].o) + tx[t].amt <= Total[tx[t].c]

CheckRefund(t) ==
  /\ tx[t].pc = "refund" /\ Refundable(t)
  /\ Statement(t, [tx[t] EXCEPT !.pc = "send"])

RefundRejected(t) == tx[t].pc = "refund" /\ ~Refundable(t) /\ Fail(t)

\* provider.processRefund, then insert the refunds row.
SendRefund(t) ==
  /\ tx[t].pc = "send"
  /\ repaid' = [repaid EXCEPT ![tx[t].o] = @ + tx[t].amt]
  /\ LET r == [tx[t] EXCEPT !.ref[tx[t].o] = @ + tx[t].amt]
     IN  Go(t, IF r.op = "refund" THEN [r EXCEPT !.pc = "label"]
               ELSE [r EXCEPT !.pc = "diff",
                              !.ent = [Cancelled(t) EXCEPT !.pay = "refunded"]])
  /\ UNCHANGED <<db, charged, elapsed, bounds>>

FullyRefunded(t) == RefundSeen(t, tx[t].o) >= Total[tx[t].c]

LabelRefund(t) ==
  /\ tx[t].pc = "label"
  /\ Statement(t, [tx[t] EXCEPT !.pc = "diff",
       !.ent.pay = IF FullyRefunded(t) THEN "refunded" ELSE "partially_refunded"])

--------------------------------------------------------------------------------
(* createShipment: the request names each order item in at most two lines. *)

Shippable_Any(o) == Exists(o)
Shippable(o)     == Exists(o) /\ order[o].status # "cancelled"

BeginShipment(t, o, first, second) ==
  /\ Shippable(o)
  /\ Request(t, [OnOrder("ship", o, "shipments") EXCEPT
                   !.line1 = first, !.line2 = second])

\* Each line is compared with what was shipped before this request.
LinesFit_Forgetful(t) ==
  \A v \in Variants : \A q \in {tx[t].line1[v], tx[t].line2[v]} : q <= Basket[tx[t].c][v]

LinesFit(t) ==
  \A v \in Variants : \A q \in {tx[t].line1[v], tx[t].line2[v]} :
    q > 0 => sent[tx[t].o][v] + q <= Basket[tx[t].c][v]

\* allShipments: those found, and the new one.
AllShipped_OnlyNew(t) == [v \in Variants |-> tx[t].line1[v] + tx[t].line2[v]]
AllShipped(t) == [v \in Variants |-> sent[tx[t].o][v] + tx[t].line1[v] + tx[t].line2[v]]

\* A fulfilled order is completed: transitionLifecycle says so of a confirmed
\* one, and where it refuses the code completes the order all the same.
InsertShipment(t) ==
  /\ tx[t].pc = "shipments" /\ LinesFit(t)
  /\ LET ful == DeriveFulfillment(Basket[tx[t].c], AllShipped(t))
     IN  Statement(t, [tx[t] EXCEPT !.pc = "diff", !.ent.ful = ful,
                         !.ent.status = IF ful = "fulfilled" THEN "completed" ELSE @])

ShipmentRejected(t) == tx[t].pc = "shipments" /\ ~LinesFit(t) /\ Fail(t)

--------------------------------------------------------------------------------
(* handleWebhookEvent for 'payment.captured', delivered any number of times. *)

\* findOne(OrderEvent) finds no committed row, findOne(Payment) one or none.
WebhookTarget_OnlyPending(o) ==
  IF payment[o] = "none" \/ order[o].status # "pending" THEN "record" ELSE "hookPayment"
WebhookTarget(o) == IF payment[o] = "none" THEN "record" ELSE "hookPayment"

BeginWebhook(t, o) ==
  /\ o \in charged /\ events[o] = 0
  /\ Request(t, [OnOrder("webhook", o, WebhookTarget(o)) EXCEPT !.ent = NoRow])

HookPayment(t) ==
  /\ tx[t].pc = "hookPayment"
  /\ LET o == tx[t].o  r == [tx[t] EXCEPT !.pc = "hookOrder"]
     IN  \/ payment[o] = "captured" /\ Statement(t, r)
         \/ /\ payment[o] # "captured"
            /\ \A u \in Txns \ {t} : ~(tx[u].o = o /\ tx[u].wpay # "none")
            /\ Statement(t, [r EXCEPT !.wpay = "captured"])

HookOrder(t) ==
  /\ tx[t].pc = "hookOrder"
  /\ LET row == order[tx[t].o]
     IN  Statement(t,
           IF row.status = "cancelled" THEN [tx[t] EXCEPT !.pc = "record", !.ent = row]
           ELSE [tx[t] EXCEPT !.pc = "diff", !.ent =
                   [row EXCEPT !.pay = "captured",
                               !.status = IF @ = "pending" THEN "confirmed" ELSE @]])

\* Insert the event: the unique index waits for a rival and then decides.
EventFree_NoIndex(t) == TRUE
EventFree(t) == \A u \in Txns \ {t} : ~(tx[u].o = tx[t].o /\ tx[u].rec)

RecordEvent(t) ==
  /\ tx[t].pc = "record" /\ EventFree(t) /\ events[tx[t].o] = 0
  /\ Statement(t, [tx[t] EXCEPT !.pc = "commit", !.rec = TRUE])

DuplicateEvent(t) ==
  /\ tx[t].pc = "record" /\ EventFree(t) /\ events[tx[t].o] > 0
  /\ Fail(t)

--------------------------------------------------------------------------------
(* The expiry job of the tenant.                                           *)

\* The scheduler calls it every five minutes, and it begins a transaction.
BeginExpire(t) ==
  /\ tx[t].pc = "idle" /\ "expire" \in Ops
  /\ Statement(t, [Idle EXCEPT !.op = "expire", !.pc = "expired"])

\* The expired orders are asked for with their items, a LEFT JOIN, FOR UPDATE:
\* "FOR UPDATE cannot be applied to the nullable side of an outer join", be there
\* expired orders or not. The job logs the error and goes on to the next tenant.
ExpiryRefused(t) == tx[t].pc = "expired" /\ Fail(t)

--------------------------------------------------------------------------------
(* save(order), commit and rollback.                                       *)

AfterSave(t) == IF tx[t].op = "webhook" THEN "record" ELSE "commit"

\* The SELECT of save(order).
ComputeDiff(t) ==
  /\ tx[t].pc = "diff"
  /\ LET seen == RowSeen(t, tx[t].o)
         d    == { col \in Columns : tx[t].ent[col] # seen[col] }
     IN  Statement(t, [tx[t] EXCEPT !.diff = d,
                         !.pc = IF d = {} THEN AfterSave(t) ELSE "row"])

\* Its UPDATE: only the columns found to differ are written.
Merge(row, ent, cols) ==
  [status |-> IF "status" \in cols THEN ent.status ELSE row.status,
   pay    |-> IF "pay"    \in cols THEN ent.pay    ELSE row.pay,
   exp    |-> IF "exp"    \in cols THEN ent.exp    ELSE row.exp,
   ful    |-> IF "ful"    \in cols THEN ent.ful    ELSE row.ful,
   cart   |-> row.cart]

UpdateRow(t) ==
  /\ tx[t].pc = "row" /\ RowFree(t, tx[t].o)
  /\ LET o == tx[t].o
     IN  Statement(t, [tx[t] EXCEPT !.pc = AfterSave(t), !.rows = @ \cup {o},
                         !.wrow[o] = Merge(RowSeen(t, o), tx[t].ent, tx[t].diff)])

Commit(t) ==
  /\ tx[t].pc = "commit"
  /\ LET x == tx[t]
     IN  /\ stock'   = [v \in Variants |-> StockSeen(t, v)]
         /\ order'   = [o \in Orders |-> RowSeen(t, o)]
         /\ refund'  = [o \in Orders |-> RefundSeen(t, o)]
         /\ payment' = IF x.wpay = "none" THEN payment ELSE [payment EXCEPT ![x.o] = x.wpay]
         /\ settled' = IF x.op = "checkout" /\ x.wpay = "captured"
                       THEN settled \cup {x.o} ELSE settled
         /\ cart'    = IF x.wcart THEN [cart EXCEPT ![x.c] = "converted"] ELSE cart
         /\ events'  = IF x.rec THEN [events EXCEPT ![x.o] = @ + 1] ELSE events
         /\ sent'    = IF x.op = "ship"
                       THEN [sent EXCEPT ![x.o] = [v \in Variants |->
                               @[v] + x.line1[v] + x.line2[v]]]
                       ELSE sent
         /\ moved'   = [v \in Variants |-> moved[v] + x.net[v]]
  /\ Go(t, Idle)
  /\ UNCHANGED <<charged, repaid, elapsed, bounds>>

(* Who waits for whom: for a variant, for the payments row, for an orders row,  *)
(* for the entry of the event in the unique index, for the cart.               *)
WaitsFor(t, u) ==
  /\ t # u
  /\ \/ tx[t].pc = "items" /\ \E v \in tx[u].held : NextLine(t, v)
     \/ /\ tx[t].pc = "hookPayment" /\ payment[tx[t].o] # "captured"
        /\ tx[u].wpay # "none" /\ tx[u].o = tx[t].o
     \/ tx[t].pc = "row" /\ tx[t].o \in tx[u].rows
     \/ tx[t].pc = "record" /\ tx[u].rec /\ tx[u].o = tx[t].o
     \/ tx[t].pc = "cart" /\ tx[u].wcart /\ tx[u].c = tx[t].c

\* Nothing is written of a transaction that loses its connection or its process.
Abort(t) ==
  /\ tx[t].pc # "idle" /\ aborts < MaxAborts
  /\ aborts' = aborts + 1 /\ Go(t, Idle)
  /\ UNCHANGED <<db, charged, repaid, elapsed, served>>

\* Thirty minutes pass for an order that is still pending.
Elapse(o) ==
  /\ order[o].status = "pending" /\ o \notin elapsed
  /\ elapsed' = elapsed \cup {o}
  /\ UNCHANGED <<db, charged, repaid, tx, bounds>>

--------------------------------------------------------------------------------
CONSTANTS
  RefundAmounts, \* bounds: the amounts asked to be refunded,
  ShipLines,     \* the lines of a shipment, one per order item,
  RepeatedLines  \* and the lines that name an order item again
ASSUME InputAssumption == /\ RefundAmounts \subseteq Nat \ {0}
                          /\ ShipLines \subseteq [Variants -> Nat]
                          /\ RepeatedLines \subseteq [Variants -> Nat]

OrderRequest(t, o) ==
  \/ Confirm(t, o) \/ Complete(t, o) \/ BeginCancel(t, o) \/ BeginCustomerCancel(t, o)
  \/ \E a \in RefundAmounts : BeginRefund(t, o, a)
  \/ \E f \in ShipLines, s \in RepeatedLines : BeginShipment(t, o, f, s)
  \/ BeginWebhook(t, o)

\* The statements a transaction executes once it has begun.
Run(t) ==
  \/ \E v \in Variants : TakeStock(t, v) \/ InsufficientStock(t, v) \/ RestoreStock(t, v)
  \/ \E o \in Orders, result \in {"captured", "pending"} : PlaceOrder(t, o, result)
  \/ PaymentDeclined(t) \/ ConvertCart(t)
  \/ SettleByRefund(t) \/ SettleWithoutRefund(t)
  \/ CheckRefund(t) \/ RefundRejected(t) \/ SendRefund(t) \/ LabelRefund(t)
  \/ InsertShipment(t) \/ ShipmentRejected(t)
  \/ HookPayment(t) \/ HookOrder(t) \/ RecordEvent(t) \/ DuplicateEvent(t)
  \/ ExpiryRefused(t) \/ ComputeDiff(t) \/ UpdateRow(t) \/ Commit(t)

Next ==
  \/ \E t \in Txns : \/ \E c \in Carts : BeginCheckout(t, c)
                     \/ \E o \in Orders : OrderRequest(t, o)
                     \/ BeginExpire(t) \/ Run(t) \/ Abort(t)
  \/ \E o \in Orders : Elapse(o)

Spec == Init /\ [][Next]_vars

--------------------------------------------------------------------------------
(* The type invariant: stock is never negative, and a cancelled, confirmed or  *)
(* refunded order never carries a payment status outside StoredPay.            *)
TypeOK ==
  /\ stock \in [Variants -> Nat] /\ moved \in [Variants -> Int]
  /\ order \in [Orders -> Row]
  /\ cart \in [Carts -> {"active", "converted"}]
  /\ payment \in [Orders -> {"none", "pending", "captured"}]
  /\ settled \subseteq Orders /\ charged \subseteq Orders /\ elapsed \subseteq Orders
  /\ refund \in [Orders -> Nat] /\ repaid \in [Orders -> Nat]
  /\ sent \in [Orders -> [Variants -> Nat]]
  /\ events \in [Orders -> Nat]
  /\ tx \in [Txns -> TxRecord]
  /\ served \in Nat /\ aborts \in Nat

(* No stock update is lost: whatever checkouts and cancellations interleave,   *)
(* the stock of a variant is the initial one less what committed transactions  *)
(* took of it (checkout.service.ts, restoreStockForOrder).                     *)
StockLedger == \A v \in Variants : stock[v] = Stock0[v] - moved[v]

(* A provider event is recorded, and so applied, by at most one transaction,   *)
(* however often and however concurrently it is delivered (handleWebhookEvent). *)
EventOnce == \A o \in Orders : events[o] <= 1
================================================================================
