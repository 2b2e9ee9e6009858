--------------------------------- MODULE Carts ---------------------------------
(***************************************************************************)
(* The carts of one tenant: CartsService and CartsController, and the part *)
(* of CheckoutService that turns a cart into an order.                     *)
(*                                                                         *)
(* A request runs one transaction, or two: the controller first finds or   *)
(* creates the caller's cart and then, in another transaction, changes it  *)
(* by id.  What a transaction writes stays in tx[t] until it commits.      *)
(* EntityManager.save(item) inserts an item that has no id, or whose id it *)
(* does not find, and otherwise updates it when the quantity it finds      *)
(* differs.                                                                *)
(***************************************************************************)
EXTENDS Integers, FiniteSets

CONSTANTS
  Txns,       \* database connections
  Customers,  \* who can own a cart: customers
  Sessions,   \* and guest sessions
  CartIds, Variants,
  Quantities, \* quantities asked for
  Ops,        \* the requests of the workload
  MaxRequests, MaxAborts \* bounds: requests, and transactions lost or killed

Owners == Customers \cup Sessions
AllOps == {"get", "add", "set", "merge", "checkout"}

ASSUME OwnersAssumption == Customers \cap Sessions = {} /\ Owners # {}
ASSUME CartsAssumption  == CartIds # {} /\ Variants # {}
ASSUME InputsAssumption == Quantities \subseteq Nat /\ Ops \subseteq AllOps
ASSUME BoundsAssumption == MaxRequests \in Nat /\ MaxAborts \in Nat

VARIABLES
  status,  \* carts.status, "none" where there is no row
  owner,   \* carts.customer_id or carts.session_id
  items,   \* cart_items, per cart and variant
  ordered, \* carts whose checkout has committed
  asked,   \* history: sum of the quantities that committed requests asked for
  tx,      \* the request of each connection
  served, aborts

db     == <<status, owner, items, ordered, asked>>
bounds == <<served, aborts>>
vars   == <<db, tx, bounds>>

\* A cart_items row; the id of a new one is the number of the request.
Item   == [id : Nat, qty : Nat]
Absent == [id |-> 0, qty |-> 0]
NoItems == [v \in Variants |-> Absent]
NoUnits == [v \in Variants |-> 0]
SomeOwner   == CHOOSE w \in Owners : TRUE
SomeCart    == CHOOSE c \in CartIds : TRUE
SomeVariant == CHOOSE v \in Variants : TRUE

Request == [pc : {"idle", "insert", "reread", "made", "read", "item", "guest",
                  "save", "update", "delete", "mark", "marking", "commit"},
            op   : AllOps \cup {"none"},
            who  : Owners,                 \* owner of the cart
            sess : Owners,                 \* guest session of a merge
            c    : CartIds,                \* the cart, once it is found
            g    : CartIds,                \* the cart whose status is to change
            n    : Nat,                    \* number of the request
            v    : Variants, q : Nat,      \* the item asked for, or being saved
            id   : Nat,                    \* id of that item, when it is known
            seen : [Variants -> Item],     \* items of c as read
            lines : [Variants -> Item],    \* items of g as read
            goal : [Variants -> Item],     \* items to be saved
            todo : SUBSET Variants,        \* items still to be saved, and those
            gone : SUBSET Variants,        \* of them that save does not find
            made : BOOLEAN,                \* carts row of c inserted
            locked : SUBSET Variants,      \* items of c written, with
            wrote  : [Variants -> Item],   \* what they become
            mark : {"none", "abandoned", "converted"}] \* status written to g

Idle == [pc |-> "idle", op |-> "none", who |-> SomeOwner, sess |-> SomeOwner,
         c |-> SomeCart, g |-> SomeCart, n |-> 0, v |-> SomeVariant, q |-> 0,
         id |-> 0, seen |-> NoItems, lines |-> NoItems, goal |-> NoItems, todo |-> {},
         gone |-> {}, made |-> FALSE, locked |-> {}, wrote |-> NoItems, mark |-> "none"]

Init ==
  /\ status  = [c \in CartIds |-> "none"]
  /\ owner   = [c \in CartIds |-> SomeOwner]
  /\ items   = [c \in CartIds |-> NoItems]
  /\ ordered = {}
  /\ asked   = NoUnits
  /\ tx      = [t \in Txns |-> Idle]
  /\ served = 0 /\ aborts = 0

--------------------------------------------------------------------------------
Others(t) == Txns \ {t}
Step(t, r) == tx' = [tx EXCEPT ![t] = r] /\ UNCHANGED <<db, bounds>>
Fail(t) == Step(t, Idle)

Arrive(t, r) ==
  /\ tx[t].pc = "idle" /\ r.op \in Ops /\ served < MaxRequests
  /\ served' = served + 1
  /\ tx' = [tx EXCEPT ![t] = [r EXCEPT !.n = served + 1]] /\ UNCHANGED <<db, aborts>>

\* activeCartWhere
ActiveCarts_AnyStatus(w) == { c \in CartIds : status[c] # "none" /\ owner[c] = w }
ActiveCarts(w) == { c \in CartIds : status[c] = "active" /\ owner[c] = w }

\* The request r once its cart is known: addItem reads it again by id, mergeCart
\* goes on with the items it has just read.
Found(r, c) == CASE r.op = "add"   -> [r EXCEPT !.c = c, !.pc = "read"]
                 [] r.op = "merge" -> [r EXCEPT !.c = c, !.seen = items[c], !.pc = "guest"]
                 [] OTHER          -> Idle

--------------------------------------------------------------------------------
(* findOrCreateCart.                                                       *)

FindOrCreate(t, r) ==
  \/ \E c \in ActiveCarts(r.who) : Arrive(t, Found(r, c))
  \/ ActiveCarts(r.who) = {} /\ Arrive(t, [r EXCEPT !.pc = "insert"])

\* A getCart that finds the cart changes nothing and is left out.
BeginGet(t, w) ==
  ActiveCarts(w) = {} /\ FindOrCreate(t, [Idle EXCEPT !.op = "get", !.who = w])
BeginAdd(t, w, v, q) ==
  q > 0 /\ FindOrCreate(t, [Idle EXCEPT !.op = "add", !.who = w, !.v = v, !.q = q])
BeginMerge(t, w, s) ==
  FindOrCreate(t, [Idle EXCEPT !.op = "merge", !.who = w, !.sess = s])

\* The partial unique index: an insert waits for the transactions that have
\* inserted an active cart of the owner, or changed the status of one, and then
\* finds it taken or not.
Rival(t, u) == \/ tx[u].made /\ tx[u].who = tx[t].who
               \/ tx[u].mark # "none" /\ tx[u].g \in ActiveCarts(tx[t].who)
IndexFree(t) == \A u \in Others(t) : ~Rival(t, u)
Taken_NoIndex(w) == FALSE
Taken(w) == ActiveCarts(w) # {}

InsertCart(t, c) ==
  /\ tx[t].pc = "insert" /\ IndexFree(t) /\ ~Taken(tx[t].who)
  /\ status[c] = "none" /\ \A u \in Others(t) : ~(tx[u].made /\ tx[u].c = c)
  /\ LET r == [tx[t] EXCEPT !.c = c, !.made = TRUE]
     IN  Step(t, [r EXCEPT !.pc = IF r.op = "merge" THEN "guest" ELSE "made"])

LoseRace(t) ==
  /\ tx[t].pc = "insert" /\ IndexFree(t) /\ Taken(tx[t].who)
  /\ Step(t, [tx[t] EXCEPT !.pc = "reread"])

\* After ROLLBACK TO SAVEPOINT: the winner's cart may be gone again.
Reread(t) ==
  /\ tx[t].pc = "reread"
  /\ \/ \E c \in ActiveCarts(tx[t].who) : Step(t, Found(tx[t], c))
     \/ ActiveCarts(tx[t].who) = {} /\ Fail(t)

CommitCart(t) ==
  /\ tx[t].pc = "made"
  /\ status' = [status EXCEPT ![tx[t].c] = "active"]
  /\ owner'  = [owner EXCEPT ![tx[t].c] = tx[t].who]
  /\ tx' = [tx EXCEPT ![t] = Found([@ EXCEPT !.made = FALSE], @.c)]
  /\ UNCHANGED <<items, ordered, asked, bounds>>

--------------------------------------------------------------------------------
(* addItem, applyItemQty and the saving of items.                          *)

Plus(item, q) == [item EXCEPT !.qty = @ + q]

ReadCart(t) ==
  /\ tx[t].pc = "read" /\ status[tx[t].c] = "active"
  /\ LET r == tx[t]  seen == items[r.c]
     IN  Step(t, [r EXCEPT !.seen = seen, !.goal[r.v] = Plus(seen[r.v], r.q),
                           !.todo = {r.v}, !.pc = "save"])

CartGone(t) == tx[t].pc = "read" /\ status[tx[t].c] # "active" /\ Fail(t)

\* updateItemQty and removeItem (q = 0): getActiveCart has found the cart.  The
\* caller knows the item's id; an id that is out of date already is not found.
BeginSet(t, w, v, q) ==
  \E c \in ActiveCarts(w) :
    /\ items[c][v] # Absent
    /\ Arrive(t, [Idle EXCEPT !.op = "set", !.who = w, !.c = c, !.v = v, !.q = q,
                              !.id = items[c][v].id, !.pc = "item"])

FindItem(t) ==
  /\ tx[t].pc = "item"
  /\ LET r == tx[t]
     IN  \/ items[r.c][r.v].id # r.id /\ Fail(t)
         \/ /\ items[r.c][r.v].id = r.id
            /\ \/ r.q = 0 /\ Step(t, [r EXCEPT !.pc = "delete"])
               \/ r.q > 0 /\ Step(t, [r EXCEPT !.goal[r.v] = [id |-> r.id, qty |-> r.q],
                                                !.todo = {r.v}, !.pc = "save"])

ItemFree(t, v) == \A u \in Others(t) : ~(tx[u].c = tx[t].c /\ v \in tx[u].locked)

\* The next statement after the item v of r is saved.
Saved(r, v) == [r EXCEPT !.todo = @ \ {v},
                  !.pc = IF r.todo # {v} THEN "save"
                         ELSE IF r.op = "merge" THEN "mark" ELSE "commit"]
Write(r, v, item) == [Saved(r, v) EXCEPT !.locked = @ \cup {v}, !.wrote[v] = item]

SelectItem(t, v) ==
  /\ tx[t].pc = "save" /\ v \in tx[t].todo \ tx[t].gone /\ tx[t].goal[v].id # 0
  /\ LET r == tx[t]  found == items[r.c][v]
     IN  \/ found.id # r.goal[v].id /\ Step(t, [r EXCEPT !.gone = @ \cup {v}])
         \/ found = r.goal[v] /\ Step(t, Saved(r, v))
         \/ /\ found.id = r.goal[v].id /\ found # r.goal[v]
            /\ Step(t, [r EXCEPT !.v = v, !.pc = "update"])

InsertItem(t, v) ==
  /\ tx[t].pc = "save" /\ v \in tx[t].todo /\ ItemFree(t, v)
  /\ LET r == tx[t]  new == r.goal[v].id = 0
     IN  /\ new \/ v \in r.gone
         /\ \/ /\ items[r.c][v] = Absent
               /\ Step(t, Write(r, v, [r.goal[v] EXCEPT !.id = IF new THEN r.n ELSE @]))
            \/ items[r.c][v] # Absent /\ Fail(t)   \* cart_items_tenant_cart_variant_uq

\* UPDATE ... WHERE id waits for the row and may find that it is gone.
UpdateItem(t) ==
  /\ tx[t].pc = "update" /\ ItemFree(t, tx[t].v)
  /\ LET r == tx[t]  item == r.goal[r.v]
     IN  Step(t, IF items[r.c][r.v].id # item.id THEN Saved(r, r.v)
                 ELSE Write(r, r.v, item))

DeleteItem(t) ==
  /\ tx[t].pc = "delete" /\ ItemFree(t, tx[t].v)
  /\ LET r == tx[t]  done == [r EXCEPT !.pc = "commit"]
     IN  Step(t, IF items[r.c][r.v].id # r.id THEN done
                 ELSE [done EXCEPT !.locked = {r.v}, !.wrote[r.v] = Absent])

--------------------------------------------------------------------------------
(* mergeCart after the customer's cart is known, and checkout.             *)

\* A line the customer's cart does not have is absent in seen.
Summed_Replaced(r, g) == [v \in Variants |-> Plus([r.seen[v] EXCEPT !.qty = 0], items[g][v].qty)]
Summed(r, g) == [v \in Variants |-> Plus(r.seen[v], items[g][v].qty)]
Lines(g) == { v \in Variants : items[g][v] # Absent }

Closed(r) == IF r.op = "merge" THEN "abandoned" ELSE "converted"

ReadGuest(t) ==
  /\ tx[t].pc = "guest"
  /\ \/ \E g \in ActiveCarts(tx[t].sess) :
          /\ Lines(g) # {}
          /\ Step(t, [tx[t] EXCEPT !.g = g, !.lines = items[g], !.goal = Summed(tx[t], g),
                                   !.todo = Lines(g), !.pc = "save"])
     \/ /\ \A g \in ActiveCarts(tx[t].sess) : Lines(g) = {}
        /\ Step(t, [tx[t] EXCEPT !.pc = "commit"])

\* The stock, order and payment of a checkout are in Orders.
BeginCheckout(t, w) ==
  \E c \in ActiveCarts(w) :
    /\ Lines(c) # {}
    /\ Arrive(t, [Idle EXCEPT !.op = "checkout", !.who = w, !.c = c, !.g = c,
                              !.lines = items[c], !.pc = "mark"])

\* save(cart), with its items as they were read: an item that has appeared since
\* is taken for one removed from the cart, and to clear its cart_id is refused.
CompareCart(t) ==
  /\ tx[t].pc = "mark"
  /\ LET r == tx[t]
         new == \E v \in Lines(r.g) : items[r.g][v].id # r.lines[v].id
     IN  \/ new /\ Fail(t)
         \/ ~new /\ status[r.g] = Closed(r) /\ Step(t, [r EXCEPT !.pc = "commit"])
         \/ ~new /\ status[r.g] # Closed(r) /\ Step(t, [r EXCEPT !.pc = "marking"])

UpdateCart(t) ==
  /\ tx[t].pc = "marking"
  /\ \A u \in Others(t) : ~(tx[u].mark # "none" /\ tx[u].g = tx[t].g)
  /\ Step(t, [tx[t] EXCEPT !.mark = Closed(tx[t]), !.pc = "commit"])

Commit(t) ==
  /\ tx[t].pc = "commit"
  /\ LET r == tx[t]
         created == IF r.made THEN [status EXCEPT ![r.c] = "active"] ELSE status
     IN  /\ status'  = IF r.mark = "none" THEN created ELSE [created EXCEPT ![r.g] = r.mark]
         /\ owner'   = IF r.made THEN [owner EXCEPT ![r.c] = r.who] ELSE owner
         /\ items'   = [items EXCEPT ![r.c] = [v \in Variants |->
                          IF v \in r.locked THEN r.wrote[v] ELSE @[v]]]
         /\ ordered' = IF r.op = "checkout" THEN ordered \cup {r.g} ELSE ordered
         /\ asked'   = IF r.op \in {"add", "set"} THEN [asked EXCEPT ![r.v] = @ + r.q]
                       ELSE asked
  /\ tx' = [tx EXCEPT ![t] = Idle]
  /\ UNCHANGED bounds

\* A transaction that is killed to break a deadlock, or loses its process.
Abort(t) ==
  /\ tx[t].pc # "idle" /\ aborts < MaxAborts
  /\ aborts' = aborts + 1
  /\ tx' = [tx EXCEPT ![t] = Idle] /\ UNCHANGED <<db, served>>

Begin(t) ==
  \/ \E w \in Owners : BeginGet(t, w) \/ BeginCheckout(t, w)
  \/ \E w \in Owners, v \in Variants, q \in Quantities :
       BeginAdd(t, w, v, q) \/ BeginSet(t, w, v, q)
  \/ \E w \in Customers, s \in Sessions : BeginMerge(t, w, s)

Run(t) ==
  \/ \E c \in CartIds : InsertCart(t, c)
  \/ LoseRace(t) \/ Reread(t) \/ CommitCart(t)
  \/ ReadCart(t) \/ CartGone(t) \/ FindItem(t)
  \/ \E v \in Variants : InsertItem(t, v) \/ SelectItem(t, v)
  \/ UpdateItem(t) \/ DeleteItem(t) \/ ReadGuest(t)
  \/ CompareCart(t) \/ UpdateCart(t) \/ Commit(t)

Next == \E t \in Txns : Begin(t) \/ Run(t) \/ Abort(t)

Spec == Init /\ [][Next]_vars
--------------------------------------------------------------------------------
TypeOK ==
  /\ status  \in [CartIds -> {"none", "active", "abandoned", "converted"}]
  /\ owner   \in [CartIds -> Owners]
  /\ items   \in [CartIds -> [Variants -> Item]]
  /\ ordered \in SUBSET CartIds
  /\ asked   \in [Variants -> Nat]
  /\ tx      \in [Txns -> Request]
  /\ served \in Nat /\ aborts \in Nat

(* Whoever races to create the first cart, a customer or a session has at most *)
(* one active cart, and so every request finds the same one (findOrCreateCart, *)
(* carts_tenant_*_active_uidx).                                                *)
OneActiveCart ==
  \A c, d \in CartIds :
    status[c] = "active" /\ status[d] = "active" /\ owner[c] = owner[d] => c = d
================================================================================
