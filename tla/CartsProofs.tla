------------------------------ MODULE CartsProofs -------------------------------
(***************************************************************************)
(* Carts is well typed, and no race creates a second active cart, for any  *)
(* number of connections, owners and carts.  For one customer and one      *)
(* session no race invents a unit: AskedInv says what the cart of each     *)
(* request may hold at most once it has committed.  With one connection    *)
(* Carts implements CartBags: SerialInv says of each statement of a        *)
(* request what the ones before it have done, Now is the refinement        *)
(* mapping, and NextBag the simulation.                                    *)
(***************************************************************************)
EXTENDS CartsSafety, Sums

\* A transaction that has inserted a cart is the only one to have done so for its
\* owner, who has no active cart in the table.
MadeAlone ==
  \A t \in Txns : tx[t].made =>
    /\ ActiveCarts(tx[t].who) = {}
    /\ \A u \in Others(t) : tx[u].made => tx[u].who # tx[t].who

\* The transaction that ends with its new cart has inserted it.
MadeFirst == \A t \in Txns : tx[t].pc = "made" => tx[t].made

CartInv == TypeOK /\ OneActiveCart /\ MadeAlone /\ MadeFirst

\* The request r inserts no cart that t has not inserted.
Quiet(t, r) == r.pc # "made" /\ (r.made => tx[t].made /\ r.who = tx[t].who)

--------------------------------------------------------------------------------
(* The steps that change nothing but the transaction's own record.         *)

LEMMA DefaultTypes ==
  /\ Absent \in Item /\ NoItems \in [Variants -> Item] /\ NoUnits \in [Variants -> Nat]
  /\ SomeOwner \in Owners /\ SomeCart \in CartIds /\ SomeVariant \in Variants
BY OwnersAssumption, CartsAssumption
   DEF Absent, Item, NoItems, NoUnits, SomeOwner, SomeCart, SomeVariant

LEMMA IdleType == Idle \in Request /\ ~Idle.made /\ Idle.pc = "idle"
BY DefaultTypes DEF Idle, Request, AllOps

LEMMA PlusType == ASSUME NEW i \in Item, NEW q \in Nat PROVE Plus(i, q) \in Item
BY DEF Plus, Item

LEMMA FoundType ==
  ASSUME TypeOK, NEW r \in Request, NEW c \in CartIds
  PROVE  /\ Found(r, c) \in Request
         /\ Found(r, c).pc # "made"
         /\ Found(r, c).made => r.made /\ Found(r, c).who = r.who
BY ZenonT(30), IdleType DEF TypeOK, Found, Request

LEMMA LocalStep ==
  ASSUME CartInv, NEW t \in Txns, NEW r \in Request, Quiet(t, r),
         tx' = [tx EXCEPT ![t] = r], UNCHANGED db, served' \in Nat, aborts' \in Nat
  PROVE  CartInv'
<1>1. TypeOK'
  BY DEF CartInv, TypeOK, db
<1>2. OneActiveCart'
  BY DEF CartInv, OneActiveCart, db
<1>3. \A u \in Txns : tx'[u].made => tx[u].made /\ tx'[u].who = tx[u].who
  BY DEF CartInv, TypeOK, Quiet
<1>4. MadeAlone'
  BY <1>3 DEF CartInv, MadeAlone, ActiveCarts, Others, db
<1>5. MadeFirst'
  BY DEF CartInv, TypeOK, Quiet, MadeFirst
<1> QED
  BY <1>1, <1>2, <1>4, <1>5 DEF CartInv

LEMMA StepKeeps ==
  ASSUME CartInv, NEW t \in Txns, NEW r \in Request, Quiet(t, r), Step(t, r)
  PROVE  CartInv'
BY LocalStep DEF Step, CartInv, TypeOK, bounds

LEMMA FailKeeps == ASSUME CartInv, NEW t \in Txns, Fail(t) PROVE CartInv'
BY StepKeeps, IdleType DEF Fail, Quiet

LEMMA ArriveKeeps ==
  ASSUME CartInv, NEW t \in Txns, NEW r \in Request, ~r.made, r.pc # "made",
         Arrive(t, r)
  PROVE  CartInv'
<1> DEFINE s == [r EXCEPT !.n = served + 1]
<1>1. s \in Request
  <2>1. served + 1 \in Nat
    BY DEF CartInv, TypeOK
  <2> QED
    BY <2>1 DEF Request
<1>2. tx' = [tx EXCEPT ![t] = s] /\ UNCHANGED db /\ served' \in Nat /\ aborts' \in Nat
  BY DEF Arrive, CartInv, TypeOK, db
<1>3. s.made = r.made /\ s.pc = r.pc
  BY DEF Request
<1>4. Quiet(t, s)
  BY <1>3 DEF Quiet
<1> QED
  BY <1>1, <1>2, <1>4, LocalStep

--------------------------------------------------------------------------------
(* Requests arrive.                                                        *)

LEMMA FindOrCreateKeeps ==
  ASSUME CartInv, NEW t \in Txns, NEW r \in Request, ~r.made, FindOrCreate(t, r)
  PROVE  CartInv'
<1>1. CASE \E c \in ActiveCarts(r.who) : Arrive(t, Found(r, c))
  <2>1. PICK c \in ActiveCarts(r.who) : Arrive(t, Found(r, c))
    BY <1>1
  <2>2. Found(r, c) \in Request /\ ~Found(r, c).made /\ Found(r, c).pc # "made"
    BY FoundType DEF ActiveCarts, CartInv
  <2> QED
    BY <2>1, <2>2, ArriveKeeps
<1>2. CASE Arrive(t, [r EXCEPT !.pc = "insert"])
  <2>1. [r EXCEPT !.pc = "insert"] \in Request
        /\ [r EXCEPT !.pc = "insert"].made = r.made
        /\ [r EXCEPT !.pc = "insert"].pc # "made"
    BY DEF Request
  <2> QED
    BY <1>2, <2>1, ArriveKeeps
<1> QED
  BY <1>1, <1>2 DEF FindOrCreate

LEMMA BeginKeeps == ASSUME CartInv, NEW t \in Txns, Begin(t) PROVE CartInv'
<1>1. ASSUME NEW w \in Owners, BeginGet(t, w) PROVE CartInv'
  <2> DEFINE r == [Idle EXCEPT !.op = "get", !.who = w]
  <2>1. r \in Request /\ r.made = Idle.made /\ r.pc # "made"
    BY IdleType DEF Request, AllOps
  <2> QED
    BY <1>1, <2>1, IdleType, FindOrCreateKeeps DEF BeginGet
<1>2. ASSUME NEW w \in Owners, BeginCheckout(t, w) PROVE CartInv'
  <2>1. PICK c \in CartIds :
          Arrive(t, [Idle EXCEPT !.op = "checkout", !.who = w, !.c = c, !.g = c,
                                 !.lines = items[c], !.pc = "mark"])
    BY <1>2 DEF BeginCheckout, ActiveCarts
  <2> DEFINE r == [Idle EXCEPT !.op = "checkout", !.who = w, !.c = c, !.g = c,
                               !.lines = items[c], !.pc = "mark"]
  <2>2. items[c] \in [Variants -> Item]
    BY DEF CartInv, TypeOK
  <2>3. r \in Request /\ r.made = Idle.made /\ r.pc # "made"
    BY <2>2, IdleType DEF Request, AllOps
  <2> QED
    BY <2>1, <2>3, IdleType, ArriveKeeps
<1>3. ASSUME NEW w \in Owners, NEW v \in Variants, NEW q \in Quantities, BeginAdd(t, w, v, q)
      PROVE  CartInv'
  <2> DEFINE r == [Idle EXCEPT !.op = "add", !.who = w, !.v = v, !.q = q]
  <2>1. r \in Request /\ r.made = Idle.made /\ r.pc # "made"
    BY IdleType, InputsAssumption DEF Request, AllOps
  <2> QED
    BY <1>3, <2>1, IdleType, FindOrCreateKeeps DEF BeginAdd
<1>4. ASSUME NEW w \in Owners, NEW v \in Variants, NEW q \in Quantities, BeginSet(t, w, v, q)
      PROVE  CartInv'
  <2>1. PICK c \in CartIds :
          Arrive(t, [Idle EXCEPT !.op = "set", !.who = w, !.c = c, !.v = v, !.q = q,
                                 !.id = items[c][v].id, !.pc = "item"])
    BY <1>4 DEF BeginSet, ActiveCarts
  <2> DEFINE r == [Idle EXCEPT !.op = "set", !.who = w, !.c = c, !.v = v, !.q = q,
                               !.id = items[c][v].id, !.pc = "item"]
  <2>2. items[c][v].id \in Nat
    BY DEF CartInv, TypeOK, Item
  <2>3. r \in Request /\ r.made = Idle.made /\ r.pc # "made"
    BY <2>2, IdleType, InputsAssumption DEF Request, AllOps
  <2> QED
    BY <2>1, <2>3, IdleType, ArriveKeeps
<1>5. ASSUME NEW w \in Customers, NEW s \in Sessions, BeginMerge(t, w, s) PROVE CartInv'
  <2> DEFINE r == [Idle EXCEPT !.op = "merge", !.who = w, !.sess = s]
  <2>1. r \in Request /\ r.made = Idle.made /\ r.pc # "made"
    BY IdleType DEF Request, AllOps, Owners
  <2> QED
    BY <1>5, <2>1, IdleType, FindOrCreateKeeps DEF BeginMerge
<1> QED
  BY <1>1, <1>2, <1>3, <1>4, <1>5 DEF Begin

--------------------------------------------------------------------------------
(* The statements of a transaction.                                        *)

\* r is a record that t may go on with.
Follows(t, r) == r \in Request /\ r.pc # "made" /\ r.made = tx[t].made /\ r.who = tx[t].who

LEMMA FollowsKeeps ==
  ASSUME CartInv, NEW t \in Txns, NEW r, Follows(t, r), Step(t, r)
  PROVE  CartInv'
<1>1. r \in Request /\ Quiet(t, r)
  BY DEF Follows, Quiet
<1> QED
  BY <1>1, StepKeeps

LEMMA SavedFollows ==
  ASSUME CartInv, NEW t \in Txns, NEW v \in Variants
  PROVE  /\ Follows(t, Saved(tx[t], v))
         /\ \A i \in Item : Follows(t, Write(tx[t], v, i))
<1>1. tx[t] \in Request
  BY DEF CartInv, TypeOK
<1>2. Follows(t, Saved(tx[t], v))
  BY ZenonT(30), <1>1 DEF Follows, Saved, Request
<1>3. ASSUME NEW i \in Item PROVE Follows(t, Write(tx[t], v, i))
  BY <1>1, <1>2 DEF Follows, Write, Request
<1> QED
  BY <1>2, <1>3

LEMMA ItemsType ==
  ASSUME CartInv, NEW c \in CartIds
  PROVE  items[c] \in [Variants -> Item] /\ \A v \in Variants : items[c][v] \in Item
BY DEF CartInv, TypeOK

LEMMA LoseRaceKeeps == ASSUME CartInv, NEW t \in Txns, LoseRace(t) PROVE CartInv'
<1> DEFINE r == [tx[t] EXCEPT !.pc = "reread"]
<1>0. tx[t] \in Request
  BY DEF CartInv, TypeOK
<1>1. Follows(t, r)
  BY <1>0 DEF Follows, Request
<1> QED
  BY <1>1, FollowsKeeps DEF LoseRace

LEMMA RereadKeeps == ASSUME CartInv, NEW t \in Txns, Reread(t) PROVE CartInv'
<1>1. ASSUME NEW c \in ActiveCarts(tx[t].who), Step(t, Found(tx[t], c)) PROVE CartInv'
  <2>1. tx[t] \in Request /\ c \in CartIds
    BY DEF CartInv, TypeOK, ActiveCarts
  <2>2. Found(tx[t], c) \in Request /\ Quiet(t, Found(tx[t], c))
    BY <2>1, FoundType DEF CartInv, Quiet
  <2> QED
    BY <1>1, <2>2, StepKeeps
<1> QED
  BY <1>1, FailKeeps DEF Reread

LEMMA ReadCartKeeps == ASSUME CartInv, NEW t \in Txns, ReadCart(t) PROVE CartInv'
<1> DEFINE x == tx[t]
           seen == items[x.c]
           r == [x EXCEPT !.seen = seen, !.goal[x.v] = Plus(seen[x.v], x.q),
                          !.todo = {x.v}, !.pc = "save"]
<1>1. x \in Request
  BY DEF CartInv, TypeOK
<1>2. x.c \in CartIds /\ x.v \in Variants /\ x.q \in Nat
  BY <1>1 DEF Request
<1>3. seen \in [Variants -> Item] /\ Plus(seen[x.v], x.q) \in Item
  BY <1>2, ItemsType, PlusType
<1>4. Follows(t, r)
  BY <1>1, <1>2, <1>3 DEF Follows, Request
<1>5. Step(t, r)
  BY DEF ReadCart
<1> QED
  BY <1>4, <1>5, FollowsKeeps

LEMMA FindItemKeeps == ASSUME CartInv, NEW t \in Txns, FindItem(t) PROVE CartInv'
<1>1. tx[t] \in Request
  BY DEF CartInv, TypeOK
<1>2. CASE Step(t, [tx[t] EXCEPT !.pc = "delete"])
  <2>1. Follows(t, [tx[t] EXCEPT !.pc = "delete"])
    BY <1>1 DEF Follows, Request
  <2> QED
    BY <1>2, <2>1, FollowsKeeps
<1>3. CASE Step(t, [tx[t] EXCEPT !.goal[tx[t].v] = [id |-> tx[t].id, qty |-> tx[t].q],
                                 !.todo = {tx[t].v}, !.pc = "save"])
  <2>1. Follows(t, [tx[t] EXCEPT !.goal[tx[t].v] = [id |-> tx[t].id, qty |-> tx[t].q],
                                 !.todo = {tx[t].v}, !.pc = "save"])
    BY <1>1 DEF Follows, Request, Item
  <2> QED
    BY <1>3, <2>1, FollowsKeeps
<1> QED
  BY <1>2, <1>3, FailKeeps DEF FindItem

LEMMA SelectItemKeeps ==
  ASSUME CartInv, NEW t \in Txns, NEW v \in Variants, SelectItem(t, v) PROVE CartInv'
<1>1. tx[t] \in Request /\ tx[t].pc # "made"
  BY DEF CartInv, TypeOK, SelectItem
<1>2. Follows(t, [tx[t] EXCEPT !.gone = @ \cup {v}])
  BY <1>1 DEF Follows, Request
<1>3. Follows(t, [tx[t] EXCEPT !.v = v, !.pc = "update"])
  BY <1>1 DEF Follows, Request
<1> QED
  BY <1>2, <1>3, SavedFollows, FollowsKeeps DEF SelectItem

LEMMA InsertItemKeeps ==
  ASSUME CartInv, NEW t \in Txns, NEW v \in Variants, InsertItem(t, v) PROVE CartInv'
<1> DEFINE new == tx[t].goal[v].id = 0
           i == [tx[t].goal[v] EXCEPT !.id = IF new THEN tx[t].n ELSE @]
<1>1. i \in Item
  <2>1. tx[t].goal[v] \in Item /\ tx[t].n \in Nat
    BY DEF CartInv, TypeOK, Request
  <2> QED
    BY <2>1 DEF Item
<1>2. CASE Step(t, Write(tx[t], v, i))
  BY <1>1, <1>2, SavedFollows, FollowsKeeps
<1> QED
  BY <1>2, FailKeeps DEF InsertItem

LEMMA UpdateItemKeeps == ASSUME CartInv, NEW t \in Txns, UpdateItem(t) PROVE CartInv'
<1>1. tx[t].v \in Variants /\ tx[t].goal[tx[t].v] \in Item
  BY DEF CartInv, TypeOK, Request
<1> QED
  BY <1>1, SavedFollows, FollowsKeeps DEF UpdateItem

LEMMA DeleteItemKeeps == ASSUME CartInv, NEW t \in Txns, DeleteItem(t) PROVE CartInv'
<1> DEFINE done == [tx[t] EXCEPT !.pc = "commit"]
<1>1. tx[t] \in Request /\ tx[t].v \in Variants
  BY DEF CartInv, TypeOK, Request
<1>2. Follows(t, done) /\ done \in Request /\ done.pc = "commit"
  BY <1>1 DEF Follows, Request
<1>3. Follows(t, [done EXCEPT !.locked = {tx[t].v}, !.wrote[tx[t].v] = Absent])
  BY <1>1, <1>2, DefaultTypes DEF Follows, Request
<1> QED
  BY <1>2, <1>3, FollowsKeeps DEF DeleteItem
LEMMA ReadGuestKeeps == ASSUME CartInv, NEW t \in Txns, ReadGuest(t) PROVE CartInv'
<1>1. tx[t] \in Request
  BY DEF CartInv, TypeOK
<1>2. ASSUME NEW g \in ActiveCarts(tx[t].sess),
             Step(t, [tx[t] EXCEPT !.g = g, !.lines = items[g], !.goal = Summed(tx[t], g),
                                   !.todo = Lines(g), !.pc = "save"])
      PROVE  CartInv'
  <2>1. g \in CartIds /\ items[g] \in [Variants -> Item] /\ Lines(g) \in SUBSET Variants
    BY ItemsType DEF ActiveCarts, Lines
  <2>2. Summed(tx[t], g) \in [Variants -> Item]
    <3>1. ASSUME NEW v \in Variants PROVE Plus(tx[t].seen[v], items[g][v].qty) \in Item
      <4>1. tx[t].seen[v] \in Item /\ items[g][v].qty \in Nat
        BY <1>1, <2>1 DEF Request, Item
      <4> QED
        BY <4>1, PlusType
    <3> QED
      BY <3>1 DEF Summed
  <2>3. Follows(t, [tx[t] EXCEPT !.g = g, !.lines = items[g], !.goal = Summed(tx[t], g),
                                 !.todo = Lines(g), !.pc = "save"])
    BY <1>1, <2>1, <2>2 DEF Follows, Request
  <2> QED
    BY <1>2, <2>3, FollowsKeeps
<1>3. Follows(t, [tx[t] EXCEPT !.pc = "commit"])
  BY <1>1 DEF Follows, Request
<1> QED
  BY <1>2, <1>3, FollowsKeeps DEF ReadGuest

LEMMA MarkKeeps ==
  ASSUME CartInv, NEW t \in Txns, CompareCart(t) \/ UpdateCart(t) PROVE CartInv'
<1>1. tx[t] \in Request
  BY DEF CartInv, TypeOK
<1>2. Follows(t, [tx[t] EXCEPT !.pc = "commit"]) /\ Follows(t, [tx[t] EXCEPT !.pc = "marking"])
  BY <1>1 DEF Follows, Request
<1>3. Follows(t, [tx[t] EXCEPT !.mark = Closed(tx[t]), !.pc = "commit"])
  BY ZenonT(30), <1>1 DEF Follows, Request, Closed
<1>4. CASE CompareCart(t)
  BY <1>2, <1>4, FollowsKeeps, FailKeeps DEF CompareCart
<1>5. CASE UpdateCart(t)
  BY <1>3, <1>5, FollowsKeeps DEF UpdateCart
<1> QED
  BY <1>4, <1>5

--------------------------------------------------------------------------------
(* The steps that other transactions see.                                  *)

\* The unique index: nobody else can have an active cart of this owner.
LEMMA InsertCartKeeps ==
  ASSUME CartInv, NEW t \in Txns, NEW c \in CartIds, InsertCart(t, c) PROVE CartInv'
<1> DEFINE s == [tx[t] EXCEPT !.c = c, !.made = TRUE]
           r == [s EXCEPT !.pc = IF s.op = "merge" THEN "guest" ELSE "made"]
<1>1. tx[t] \in Request
  BY DEF CartInv, TypeOK
<1>2. r \in Request /\ r.who = tx[t].who
  BY <1>1 DEF Request
<1>3. tx' = [tx EXCEPT ![t] = r] /\ UNCHANGED <<db, bounds>>
  BY DEF InsertCart, Step
<1>4. TypeOK'
  BY <1>2, <1>3 DEF CartInv, TypeOK, db, bounds
<1>5. OneActiveCart'
  BY <1>3 DEF CartInv, OneActiveCart, db
<1>6. ActiveCarts(tx[t].who) = {}
  BY DEF InsertCart, Taken
<1>7. \A u \in Others(t) : tx[u].made => tx[u].who # tx[t].who
  BY DEF InsertCart, IndexFree, Rival
<1>8. /\ tx'[t].who = tx[t].who
      /\ \A u \in Others(t) : tx'[u] = tx[u]
  BY <1>2, <1>3 DEF CartInv, TypeOK, Others
<1>9. \A w : ActiveCarts(w)' = ActiveCarts(w)
  BY <1>3 DEF ActiveCarts, db
<1>10. MadeAlone'
  BY <1>6, <1>7, <1>8, <1>9 DEF CartInv, MadeAlone, Others
<1>11. MadeFirst'
  BY <1>1, <1>3 DEF CartInv, TypeOK, MadeFirst, Request
<1> QED
  BY <1>4, <1>5, <1>10, <1>11 DEF CartInv

\* A commit that publishes the cart a transaction has made, or publishes none.
LEMMA PublishKeeps ==
  ASSUME CartInv, NEW t \in Txns, NEW c \in CartIds, TypeOK', ~tx'[t].made, tx'[t].pc # "made",
         \A u \in Others(t) : tx'[u] = tx[u],
         \A d \in CartIds : status'[d] = "active" =>
           \/ status[d] = "active" /\ owner'[d] = owner[d]
           \/ tx[t].made /\ d = c /\ owner'[d] = tx[t].who
  PROVE  CartInv'
<1>1. OneActiveCart'
  BY DEF CartInv, OneActiveCart, MadeAlone, ActiveCarts
<1>2. ASSUME NEW u \in Txns, tx'[u].made
      PROVE  /\ ActiveCarts(tx[u].who)' = {}
             /\ \A x \in Others(u) : tx'[x].made => tx'[x].who # tx'[u].who
  <2>1. u \in Others(t) /\ tx'[u] = tx[u]
    BY <1>2 DEF Others
  <2>2. ActiveCarts(tx[u].who) = {} /\ (tx[t].made => tx[t].who # tx[u].who)
    BY <1>2, <2>1 DEF CartInv, MadeAlone, Others
  <2>3. ASSUME NEW d \in CartIds, status'[d] = "active", owner'[d] = tx[u].who PROVE FALSE
    BY <2>2, <2>3 DEF ActiveCarts
  <2>4. ASSUME NEW x \in Others(u), tx'[x].made PROVE tx'[x].who # tx'[u].who
    <3>1. x \in Others(t) /\ tx'[x] = tx[x]
      BY <2>4 DEF Others
    <3> QED
      BY <1>2, <2>1, <2>4, <3>1 DEF CartInv, MadeAlone, Others
  <2> QED
    BY <2>1, <2>3, <2>4 DEF ActiveCarts
<1>3. MadeAlone'
  BY <1>2 DEF MadeAlone, Others
<1>4. MadeFirst'
  BY DEF CartInv, MadeFirst, Others
<1> QED
  BY <1>1, <1>3, <1>4 DEF CartInv
LEMMA CommitCartKeeps == ASSUME CartInv, NEW t \in Txns, CommitCart(t) PROVE CartInv'
<1> DEFINE s == [tx[t] EXCEPT !.made = FALSE]
           r == Found(s, tx[t].c)
<1>1. tx[t] \in Request /\ tx[t].c \in CartIds /\ tx[t].who \in Owners
  BY DEF CartInv, TypeOK, Request
<1>2. s \in Request /\ ~s.made
  BY <1>1 DEF Request
<1>3. r \in Request /\ ~r.made /\ r.pc # "made"
  BY <1>1, <1>2, FoundType DEF CartInv
<1>4. tx' = [tx EXCEPT ![t] = r]
  BY DEF CommitCart
<1>5. TypeOK'
  BY <1>1, <1>3, <1>4 DEF CommitCart, CartInv, TypeOK, bounds
<1>6. ~tx'[t].made /\ tx'[t].pc # "made" /\ \A u \in Others(t) : tx'[u] = tx[u]
  BY <1>3, <1>4 DEF CartInv, TypeOK, Others
<1>7. ASSUME NEW d \in CartIds, status'[d] = "active"
      PROVE  \/ status[d] = "active" /\ owner'[d] = owner[d]
             \/ tx[t].made /\ d = tx[t].c /\ owner'[d] = tx[t].who
  <2>1. tx[t].made
    BY DEF CommitCart, CartInv, MadeFirst
  <2> QED
    BY <1>7, <2>1 DEF CommitCart, CartInv, TypeOK
<1> QED
  BY <1>1, <1>5, <1>6, <1>7, PublishKeeps

LEMMA CommitKeeps == ASSUME CartInv, NEW t \in Txns, Commit(t) PROVE CartInv'
<1>1. /\ tx[t] \in Request /\ tx[t].c \in CartIds /\ tx[t].g \in CartIds
      /\ tx[t].who \in Owners /\ tx[t].q \in Nat /\ tx[t].v \in Variants
      /\ tx[t].mark \in {"none", "abandoned", "converted"}
      /\ tx[t].wrote \in [Variants -> Item]
  BY DEF CartInv, TypeOK, Request
<1>2. tx' = [tx EXCEPT ![t] = Idle] /\ UNCHANGED bounds
  BY DEF Commit
<1>3. TypeOK'
  <2>1. tx' \in [Txns -> Request] /\ served' \in Nat /\ aborts' \in Nat
    BY <1>2, IdleType DEF CartInv, TypeOK, bounds
  <2>2. status' \in [CartIds -> {"none", "active", "abandoned", "converted"}]
    BY <1>1 DEF Commit, CartInv, TypeOK
  <2>3. owner' \in [CartIds -> Owners] /\ ordered' \in SUBSET CartIds
    BY <1>1 DEF Commit, CartInv, TypeOK
  <2>4. items' \in [CartIds -> [Variants -> Item]]
    BY <1>1 DEF Commit, CartInv, TypeOK
  <2>5. asked' \in [Variants -> Nat]
    BY <1>1 DEF Commit, CartInv, TypeOK
  <2> QED
    BY <2>1, <2>2, <2>3, <2>4, <2>5 DEF TypeOK
<1>4. ~tx'[t].made /\ tx'[t].pc # "made" /\ \A u \in Others(t) : tx'[u] = tx[u]
  BY <1>2, IdleType DEF CartInv, TypeOK, Others
<1>5. ASSUME NEW d \in CartIds, status'[d] = "active"
      PROVE  \/ status[d] = "active" /\ owner'[d] = owner[d]
             \/ tx[t].made /\ d = tx[t].c /\ owner'[d] = tx[t].who
  BY <1>1, <1>5 DEF Commit, CartInv, TypeOK
<1> QED
  BY <1>1, <1>3, <1>4, <1>5, PublishKeeps

LEMMA AbortKeeps == ASSUME CartInv, NEW t \in Txns, Abort(t) PROVE CartInv'
<1>1. UNCHANGED db /\ served' \in Nat /\ aborts' \in Nat /\ tx' = [tx EXCEPT ![t] = Idle]
  BY DEF Abort, CartInv, TypeOK, db
<1> QED
  BY <1>1, IdleType, LocalStep DEF Quiet

--------------------------------------------------------------------------------
LEMMA InitCarts == Init => CartInv
<1> SUFFICES ASSUME Init PROVE CartInv
  OBVIOUS
<1>1. TypeOK
  BY DefaultTypes, IdleType DEF Init, TypeOK
<1>2. OneActiveCart
  BY DEF Init, OneActiveCart
<1>3. MadeAlone
  BY IdleType DEF Init, MadeAlone
<1>4. MadeFirst
  BY IdleType DEF Init, MadeFirst
<1> QED
  BY <1>1, <1>2, <1>3, <1>4 DEF CartInv

LEMMA NextCarts == CartInv /\ [Next]_vars => CartInv'
<1> SUFFICES ASSUME CartInv, [Next]_vars PROVE CartInv'
  OBVIOUS
<1>1. CASE UNCHANGED vars
  BY <1>1 DEF CartInv, TypeOK, OneActiveCart, MadeAlone, MadeFirst, ActiveCarts, Others, vars, db, bounds
<1>2. ASSUME NEW t \in Txns, Begin(t) PROVE CartInv'
  BY <1>2, BeginKeeps
<1>3. ASSUME NEW t \in Txns, Run(t) PROVE CartInv'
  <2>1. ASSUME NEW c \in CartIds, InsertCart(t, c) PROVE CartInv'
    BY <2>1, InsertCartKeeps
  <2>2. CASE LoseRace(t) \/ Reread(t) \/ CommitCart(t)
    BY <2>2, LoseRaceKeeps, RereadKeeps, CommitCartKeeps
  <2>3. CASE ReadCart(t) \/ CartGone(t) \/ FindItem(t)
    BY <2>3, ReadCartKeeps, FailKeeps, FindItemKeeps DEF CartGone
  <2>4. ASSUME NEW v \in Variants, InsertItem(t, v) \/ SelectItem(t, v) PROVE CartInv'
    BY <2>4, InsertItemKeeps, SelectItemKeeps
  <2>5. CASE UpdateItem(t) \/ DeleteItem(t) \/ ReadGuest(t)
    BY <2>5, UpdateItemKeeps, DeleteItemKeeps, ReadGuestKeeps
  <2>6. CASE CompareCart(t) \/ UpdateCart(t) \/ Commit(t)
    BY <2>6, MarkKeeps, CommitKeeps
  <2> QED
    BY <1>3, <2>1, <2>2, <2>3, <2>4, <2>5, <2>6 DEF Run
<1>4. ASSUME NEW t \in Txns, Abort(t) PROVE CartInv'
  BY <1>4, AbortKeeps
<1> QED
  BY <1>1, <1>2, <1>3, <1>4 DEF Next

(* Carts, their items and the requests under way stay well typed: in           *)
(* particular no quantity is negative (CartsService, all operations).          *)
THEOREM CartsTypeCorrect == Spec => []TypeOK
<1>1. CartInv => TypeOK
  BY DEF CartInv
<1> QED
  BY <1>1, InitCarts, NextCarts, PTL DEF Spec

(* However many requests race to create the first cart, and whatever crashes,  *)
(* an owner has at most one active cart (findOrCreateCart and its index).      *)
THEOREM CartUnique == Spec => []OneActiveCart
<1>1. CartInv => OneActiveCart
  BY DEF CartInv
<1> QED
  BY <1>1, InitCarts, NextCarts, PTL DEF Spec

--------------------------------------------------------------------------------
(* One customer and one session: no race invents a unit.                   *)

OneOfEach == /\ \A a, b \in Customers : a = b
             /\ \A a, b \in Sessions : a = b

Ended(c) == status[c] \in {"abandoned", "converted"}

\* What the cart of r holds of v once r has committed, at most; what r adds to
\* asked then; and the guest's cart that r takes this from and will close.
Offer(r, v) == IF r.pc = "guest" THEN r.seen[v].qty ELSE r.goal[v].qty
Cost(r, v)  == IF r.op \in {"add", "set"} /\ r.v = v THEN r.q ELSE 0
Closes(r, d) == r.op = "merge" /\ r.pc \in {"save", "update", "mark", "marking", "commit"} /\ r.g = d

\* A cart that r has found is in the table, or r has inserted it.
Searching(r) == r.pc \in {"idle", "insert", "reread"}
Saves(r)     == r.pc \in {"save", "update", "mark", "marking", "commit"}

Keeping(r) ==
  /\ Searching(r) \/ r.made \/ status[r.c] # "none"
  /\ r.made => status[r.c] = "none"
  /\ Searching(r) => r.seen = NoItems /\ ~r.made
  /\ (r.pc = "read" => r.op = "add") /\ (r.pc \in {"item", "delete"} => r.op = "set")
  /\ ~Saves(r) => r.goal = NoItems /\ r.mark = "none" /\ r.locked = {}
  /\ \A v \in r.locked : r.wrote[v].qty <= r.goal[v].qty
  /\ r.op \in {"add", "set"} => r.todo \subseteq {r.v}
  /\ r.op = "merge" => r.who \in Customers /\ r.sess \in Sessions
  /\ r.pc = "made" => r.op # "merge"
  /\ r.pc = "guest" => r.op = "merge" /\ (r.made \/ owner[r.c] = r.who)
  /\ r.pc \in {"mark", "marking"} \/ r.mark # "none" \/ (r.op = "merge" /\ r.pc \in {"save", "update"})
       => status[r.g] # "none"
  /\ r.op = "merge" /\ r.pc = "commit" => r.locked = {} \/ r.mark = "abandoned" \/ Ended(r.g)

Kept  == \A t \in Txns, r \in Request : tx[t] = r => Keeping(r)
MadeOnce == \A t, u \in Txns : t # u /\ tx[t].made /\ tx[u].made => tx[t].c # tx[u].c
Blank == \A c \in CartIds : status[c] = "none" => items[c] = NoItems

\* Carts in use: those in the table hold no more than was asked for, and neither
\* does any of them together with what a request is about to make of another.
Stocked == \A v \in Variants, c, d \in CartIds :
  status[c] = "active" /\ status[d] = "active" =>
    /\ items[c][v].qty <= asked[v]
    /\ c # d => items[c][v].qty + items[d][v].qty <= asked[v]

Fair(r, v) == ~Ended(r.c) =>
  /\ Offer(r, v) <= asked[v] + Cost(r, v)
  /\ \A d \in CartIds : status[d] = "active" /\ d # r.c /\ ~Closes(r, d) =>
       Offer(r, v) + items[d][v].qty <= asked[v] + Cost(r, v)
FairTwo(r, s, v) ==
  r.c # s.c /\ ~Ended(r.c) /\ ~Ended(s.c) /\ ~Closes(r, s.c) /\ ~Closes(s, r.c) =>
    Offer(r, v) + Offer(s, v) <= asked[v] + Cost(r, v) + Cost(s, v)

Offers == \A t \in Txns, r \in Request, v \in Variants : tx[t] = r => Fair(r, v)
OffersTwo == \A t, u \in Txns, r, s \in Request, v \in Variants :
  t # u /\ tx[t] = r /\ tx[u] = s => FairTwo(r, s, v)

AskedInv == CartInv /\ Kept /\ MadeOnce /\ Blank /\ Stocked /\ Offers /\ OffersTwo

LEMMA OfferType ==
  ASSUME NEW r \in Request, NEW v \in Variants
  PROVE  Offer(r, v) \in Nat /\ Cost(r, v) \in Nat
<1>1. r.seen[v].qty \in Nat /\ r.goal[v].qty \in Nat /\ r.q \in Nat
  BY DEF Request, Item
<1> QED
  BY <1>1 DEF Offer, Cost

LEMMA AskedTypes ==
  ASSUME AskedInv, NEW v \in Variants
  PROVE  /\ asked[v] \in Nat
         /\ \A c \in CartIds : items[c][v].qty \in Nat
         /\ \A t \in Txns : tx[t] \in Request
BY DEF AskedInv, CartInv, TypeOK, Item

LEMMA TwoSymmetric ==
  ASSUME AskedInv, NEW r \in Request, NEW s \in Request, NEW v \in Variants, FairTwo(r, s, v)
  PROVE  FairTwo(s, r, v)
BY OfferType, AskedTypes DEF FairTwo

\* A step that commits nothing.
LEMMA LocalAsked ==
  ASSUME AskedInv, CartInv', NEW t \in Txns, NEW r \in Request, tx' = [tx EXCEPT ![t] = r],
         UNCHANGED db, Keeping(r), MadeOnce',
         \A v \in Variants : Fair(r, v),
         \A u \in Others(t), v \in Variants : FairTwo(r, tx[u], v)
  PROVE  AskedInv'
<1>1. status' = status /\ items' = items /\ owner' = owner /\ asked' = asked
  BY DEF db
<1>2. \A u \in Txns : tx[u] \in Request /\ tx'[u] = IF u = t THEN r ELSE tx[u]
  BY DEF AskedInv, CartInv, TypeOK
<1>3. \A c : Ended(c)' <=> Ended(c)
  BY <1>1 DEF Ended
<1>4. \A x : Keeping(x)' <=> Keeping(x)
  BY <1>1, <1>3 DEF Keeping
<1>5. \A x, v : Fair(x, v)' <=> Fair(x, v)
  BY <1>1, <1>3 DEF Fair
<1>6. \A x, y, v : FairTwo(x, y, v)' <=> FairTwo(x, y, v)
  BY <1>1, <1>3 DEF FairTwo
<1>7. Kept'
  BY <1>2, <1>4 DEF Kept, AskedInv
<1>8. Blank' /\ Stocked'
  BY <1>1 DEF AskedInv, Blank, Stocked
<1>9. Offers'
  BY <1>2, <1>5 DEF AskedInv, Offers
<1>10. ASSUME NEW a \in Txns, NEW b \in Txns, NEW x \in Request, NEW y \in Request, NEW v \in Variants,
              a # b, tx'[a] = x, tx'[b] = y
       PROVE  FairTwo(x, y, v)'
  <2>1. CASE a = t
    <3>1. x = r /\ y = tx[b] /\ b \in Others(t)
      BY <1>2, <1>10, <2>1 DEF Others
    <3> QED
      BY <1>6, <3>1
  <2>2. CASE b = t
    <3>1. y = r /\ x = tx[a] /\ a \in Others(t)
      BY <1>2, <1>10, <2>2 DEF Others
    <3>2. FairTwo(x, y, v)
      BY <3>1, TwoSymmetric
    <3> QED
      BY <1>6, <3>2
  <2>3. CASE a # t /\ b # t
    <3>1. tx[a] = x /\ tx[b] = y
      BY <1>2, <1>10, <2>3
    <3>2. FairTwo(x, y, v)
      BY <1>10, <3>1 DEF AskedInv, OffersTwo
    <3> QED
      BY <1>6, <3>2
  <2> QED
    BY <2>1, <2>2, <2>3
<1>11. OffersTwo'
  BY <1>10 DEF OffersTwo
<1> QED
  BY <1>7, <1>8, <1>9, <1>11 DEF AskedInv

\* What a request asks for itself can always be given.
LEMMA SmallOffer ==
  ASSUME AskedInv, NEW t \in Txns, NEW r \in Request, \A v \in Variants : Offer(r, v) <= Cost(r, v)
  PROVE  /\ \A v \in Variants : Fair(r, v)
         /\ \A u \in Others(t), v \in Variants : FairTwo(r, tx[u], v)
<1>1. ASSUME NEW v \in Variants PROVE Fair(r, v)
  <2>1. \A d \in CartIds : status[d] = "active" => items[d][v].qty <= asked[v]
    BY DEF AskedInv, Stocked
  <2> QED
    BY <2>1, OfferType, AskedTypes DEF Fair
<1>2. ASSUME NEW u \in Others(t), NEW v \in Variants PROVE FairTwo(r, tx[u], v)
  <2>1. tx[u] \in Request /\ Fair(tx[u], v)
    BY AskedTypes DEF AskedInv, Offers, Others
  <2> QED
    BY <2>1, OfferType, AskedTypes DEF Fair, FairTwo
<1> QED
  BY <1>1, <1>2

\* So can the same on top of what the cart holds now.
LEMMA CartOffer ==
  ASSUME AskedInv, NEW t \in Txns, NEW r \in Request, status[r.c] = "active",
         \A v \in Variants : Offer(r, v) <= items[r.c][v].qty + Cost(r, v)
  PROVE  /\ \A v \in Variants : Fair(r, v)
         /\ \A u \in Others(t), v \in Variants : FairTwo(r, tx[u], v)
<1>0. r.c \in CartIds
  BY DEF Request
<1>1. ASSUME NEW v \in Variants PROVE Fair(r, v)
  <2>1. /\ items[r.c][v].qty <= asked[v]
        /\ \A d \in CartIds : status[d] = "active" /\ d # r.c =>
             items[r.c][v].qty + items[d][v].qty <= asked[v]
    BY <1>0 DEF AskedInv, Stocked
  <2> QED
    BY <1>0, <2>1, OfferType, AskedTypes DEF Fair
<1>2. ASSUME NEW u \in Others(t), NEW v \in Variants PROVE FairTwo(r, tx[u], v)
  <2>1. tx[u] \in Request /\ Fair(tx[u], v)
    BY AskedTypes DEF AskedInv, Offers, Others
  <2>2. ~Ended(tx[u].c) /\ r.c # tx[u].c /\ ~Closes(tx[u], r.c)
          => Offer(tx[u], v) + items[r.c][v].qty <= asked[v] + Cost(tx[u], v)
    BY <1>0, <2>1 DEF Fair
  <2> QED
    BY <1>0, <2>1, <2>2, OfferType, AskedTypes DEF FairTwo
<1> QED
  BY <1>1, <1>2

\* And so can what t has offered before.
LEMMA SameOffer ==
  ASSUME AskedInv, NEW t \in Txns, NEW x, x = tx[t], NEW r \in Request, r.c = x.c,
         \A v \in Variants : Offer(r, v) = Offer(x, v) /\ Cost(r, v) = Cost(x, v),
         \A d \in CartIds : Closes(x, d) => Closes(r, d)
  PROVE  /\ \A v \in Variants : Fair(r, v)
         /\ \A u \in Others(t), v \in Variants : FairTwo(r, tx[u], v)
<1>0. x \in Request /\ \A u \in Others(t) : tx[u] \in Request /\ tx[u].c \in CartIds
  BY DEF AskedInv, CartInv, TypeOK, Others, Request
<1>1. ASSUME NEW v \in Variants PROVE Fair(r, v)
  <2>1. Fair(x, v)
    BY <1>0 DEF AskedInv, Offers
  <2> QED
    BY <2>1 DEF Fair
<1>2. ASSUME NEW u \in Others(t), NEW v \in Variants PROVE FairTwo(r, tx[u], v)
  <2>1. FairTwo(x, tx[u], v)
    BY <1>0 DEF AskedInv, OffersTwo, Others
  <2> QED
    BY <1>0, <2>1 DEF FairTwo
<1> QED
  BY <1>1, <1>2

LEMMA GoAsked ==
  ASSUME AskedInv, CartInv', NEW t \in Txns, NEW r \in Request, tx' = [tx EXCEPT ![t] = r],
         UNCHANGED db, Keeping(r), r.made => tx[t].made /\ r.c = tx[t].c,
         \/ \A v \in Variants : Offer(r, v) <= Cost(r, v)
         \/ status[r.c] = "active" /\ \A v \in Variants : Offer(r, v) <= items[r.c][v].qty + Cost(r, v)
  PROVE  AskedInv'
<1>1. MadeOnce'
  BY DEF AskedInv, CartInv, TypeOK, MadeOnce
<1>2. /\ \A v \in Variants : Fair(r, v)
      /\ \A u \in Others(t), v \in Variants : FairTwo(r, tx[u], v)
  BY SmallOffer, CartOffer
<1> QED
  BY <1>1, <1>2, LocalAsked

LEMMA TypeAfter ==
  ASSUME CartInv, CartInv', NEW t \in Txns, NEW r, tx' = [tx EXCEPT ![t] = r]
  PROVE  r \in Request
BY DEF CartInv, TypeOK

LEMMA IdleAsked ==
  ASSUME NEW r \in Request, r.op = "none" \/ r.op = "get", r.pc = "idle", ~r.made, r.goal = NoItems, r.seen = NoItems,
         r.mark = "none", r.locked = {}
  PROVE  Keeping(r) /\ \A v \in Variants : Offer(r, v) <= Cost(r, v)
<1>1. Keeping(r)
  BY DEF Keeping, Searching, Saves
<1>2. \A v \in Variants : NoItems[v].qty = 0
  BY DEF NoItems, Absent
<1> QED
  BY <1>1, <1>2, OfferType DEF Offer

LEMMA FailAsked ==
  ASSUME AskedInv, CartInv', NEW t \in Txns, tx' = [tx EXCEPT ![t] = Idle], UNCHANGED db
  PROVE  AskedInv'
<1>1. /\ Idle \in Request /\ Idle.op = "none" /\ Idle.pc = "idle" /\ ~Idle.made /\ Idle.goal = NoItems
      /\ Idle.seen = NoItems /\ Idle.mark = "none" /\ Idle.locked = {}
  BY IdleType DEF Idle
<1> QED
  BY <1>1, IdleAsked, GoAsked

\* A request that has found no cart yet, or none that it has read.
Fresh(x) == /\ ~x.made /\ x.goal = NoItems /\ x.mark = "none" /\ x.locked = {}
            /\ x.op \in {"add", "set"} => x.todo \subseteq {x.v}
            /\ x.op = "merge" => x.who \in Customers /\ x.sess \in Sessions
            /\ (x.pc = "read" => x.op = "add") /\ (x.pc \in {"item", "delete"} => x.op = "set")

LEMMA FreshKeeps ==
  ASSUME NEW x \in Request, Fresh(x), ~Saves(x), x.pc \notin {"made", "guest"},
         Searching(x) => x.seen = NoItems,
         Searching(x) \/ status[x.c] # "none"
  PROVE  Keeping(x) /\ \A v \in Variants : Offer(x, v) <= Cost(x, v)
<1>1. Keeping(x)
  BY DEF Keeping, Fresh, Saves
<1>2. \A v \in Variants : NoItems[v].qty = 0
  BY DEF NoItems, Absent
<1> QED
  BY <1>1, <1>2, OfferType DEF Offer, Fresh

LEMMA FoundAsked ==
  ASSUME AskedInv, NEW x \in Request, Fresh(x), NEW c \in ActiveCarts(x.who), NEW r, r = Found(x, c)
  PROVE  /\ r \in Request /\ Keeping(r) /\ ~r.made
         /\ \/ \A v \in Variants : Offer(r, v) <= Cost(r, v)
            \/ status[r.c] = "active" /\ \A v \in Variants : Offer(r, v) <= items[r.c][v].qty + Cost(r, v)
<1>1. c \in CartIds /\ status[c] = "active" /\ owner[c] = x.who
  BY DEF ActiveCarts
<1>2. r \in Request
  BY <1>1, FoundType DEF AskedInv, CartInv
<1>3. CASE x.op = "add"
  <2>1. /\ r.op = "add" /\ r.pc = "read" /\ r.made = x.made /\ r.goal = x.goal /\ r.mark = x.mark
        /\ r.locked = x.locked /\ r.todo = x.todo /\ r.v = x.v /\ r.c = c
    BY <1>3 DEF Found, Request
  <2>2. Fresh(r)
    BY <1>3, <2>1 DEF Fresh
  <2> QED
    BY <1>1, <1>2, <2>1, <2>2, FreshKeeps DEF Saves, Searching, Fresh
<1>4. CASE x.op = "merge"
  <2>1. /\ r.op = "merge" /\ r.pc = "guest" /\ r.made = x.made /\ r.goal = x.goal /\ r.mark = x.mark
        /\ r.locked = x.locked /\ r.who = x.who /\ r.sess = x.sess /\ r.c = c /\ r.seen = items[c]
    BY <1>4 DEF Found, Request
  <2>2. Keeping(r)
    BY <1>1, <1>4, <2>1 DEF Keeping, Fresh, Saves, Searching
  <2>3. \A v \in Variants : Offer(r, v) = items[c][v].qty /\ Cost(r, v) = 0 /\ items[c][v].qty \in Nat
    BY <1>1, <2>1, AskedTypes DEF Offer, Cost
  <2> QED
    BY <1>1, <1>2, <2>1, <2>2, <2>3 DEF Fresh
<1>5. CASE x.op \notin {"add", "merge"}
  <2>1. r = Idle
    BY <1>5 DEF Found
  <2>2. /\ Idle \in Request /\ Idle.op = "none" /\ Idle.pc = "idle" /\ ~Idle.made /\ Idle.goal = NoItems
        /\ Idle.seen = NoItems /\ Idle.mark = "none" /\ Idle.locked = {}
    BY IdleType DEF Idle
  <2> QED
    BY <2>1, <2>2, IdleAsked
<1> QED
  BY <1>3, <1>4, <1>5

LEMMA FindOrCreateAsked ==
  ASSUME AskedInv, CartInv', NEW t \in Txns, NEW x \in Request, FindOrCreate(t, x),
         x.op \in {"get", "add", "merge"}, Fresh(x), x.seen = NoItems
  PROVE  AskedInv'
<1> DEFINE n == served + 1
           s == [x EXCEPT !.n = n]
<1>0. n \in Nat
  BY DEF AskedInv, CartInv, TypeOK
<1>1. s \in Request /\ Fresh(s) /\ s.op = x.op /\ s.who = x.who /\ s.seen = NoItems
  BY <1>0 DEF Request, Fresh
<1>2. ASSUME NEW c \in ActiveCarts(x.who), Arrive(t, Found(x, c)), x.op \in {"add", "merge"}
      PROVE  AskedInv'
  <2>1. [Found(x, c) EXCEPT !.n = n] = Found(s, c)
    BY ZenonT(30), <1>2 DEF Found, Request
  <2>2. tx' = [tx EXCEPT ![t] = Found(s, c)] /\ UNCHANGED db
    BY <1>2, <2>1 DEF Arrive, db
  <2>3. PICK r : r = Found(s, c)
    OBVIOUS
  <2> HIDE DEF s
  <2>4. c \in ActiveCarts(s.who)
    BY <1>1
  <2> QED
    BY <1>1, <2>2, <2>3, <2>4, FoundAsked, GoAsked
<1>3. ASSUME NEW c \in ActiveCarts(x.who), Arrive(t, Found(x, c)), x.op = "get"
      PROVE  AskedInv'
  <2> DEFINE r == [Idle EXCEPT !.n = n]
  <2>1. tx' = [tx EXCEPT ![t] = r] /\ UNCHANGED db
    BY <1>3 DEF Arrive, db, Found
  <2>2. /\ r \in Request /\ r.op = "none" /\ r.pc = "idle" /\ ~r.made /\ r.goal = NoItems
        /\ r.seen = NoItems /\ r.mark = "none" /\ r.locked = {}
    <3>1. Idle \in Request /\ Idle.seen = NoItems /\ Idle.mark = "none" /\ Idle.locked = {} /\ ~Idle.made
          /\ Idle.pc = "idle" /\ Idle.op = "none" /\ Idle.goal = NoItems
      BY IdleType DEF Idle
    <3> QED
      BY <1>0, <3>1 DEF Request
  <2> HIDE DEF r
  <2> QED
    BY <2>1, <2>2, IdleAsked, GoAsked
<1>4. CASE Arrive(t, [x EXCEPT !.pc = "insert"])
  <2> DEFINE r == [x EXCEPT !.pc = "insert", !.n = n]
  <2>1. tx' = [tx EXCEPT ![t] = r] /\ UNCHANGED db
    BY <1>4 DEF Arrive, db
  <2>2. /\ r \in Request /\ r.pc = "insert" /\ r.op = x.op /\ r.made = x.made /\ r.goal = x.goal
        /\ r.mark = x.mark /\ r.locked = x.locked /\ r.todo = x.todo /\ r.v = x.v
        /\ r.who = x.who /\ r.sess = x.sess /\ r.seen = NoItems
    BY <1>0 DEF Request
  <2> HIDE DEF r
  <2>3. Fresh(r) /\ ~r.made
    BY <2>2 DEF Fresh
  <2> QED
    BY <2>1, <2>2, <2>3, FreshKeeps, GoAsked DEF Saves, Searching
<1> QED
  BY <1>2, <1>3, <1>4 DEF FindOrCreate

LEMMA BeginAsked == ASSUME AskedInv, CartInv', NEW t \in Txns, Begin(t) PROVE AskedInv'
<1>0. /\ Idle \in Request /\ ~Idle.made /\ Idle.goal = NoItems /\ Idle.mark = "none" /\ Idle.locked = {}
      /\ Idle.todo = {} /\ Idle.seen = NoItems /\ Idle.pc = "idle"
  BY IdleType DEF Idle
<1>1. ASSUME NEW w \in Owners, BeginGet(t, w) PROVE AskedInv'
  <2> DEFINE r == [Idle EXCEPT !.op = "get", !.who = w]
  <2>1. r \in Request /\ r.op = "get" /\ Fresh(r) /\ r.seen = NoItems
    BY <1>0 DEF Request, AllOps, Fresh
  <2>2. FindOrCreate(t, r)
    BY <1>1 DEF BeginGet
  <2> QED
    BY <2>1, <2>2, FindOrCreateAsked
<1>2. ASSUME NEW w \in Owners, NEW v \in Variants, NEW q \in Quantities, BeginAdd(t, w, v, q)
      PROVE  AskedInv'
  <2> DEFINE r == [Idle EXCEPT !.op = "add", !.who = w, !.v = v, !.q = q]
  <2>1. r \in Request /\ r.op = "add" /\ Fresh(r) /\ r.seen = NoItems
    BY ZenonT(30), <1>0, InputsAssumption DEF Request, AllOps, Fresh
  <2>2. FindOrCreate(t, r)
    BY <1>2 DEF BeginAdd
  <2> QED
    BY <2>1, <2>2, FindOrCreateAsked
<1>3. ASSUME NEW w \in Customers, NEW s \in Sessions, BeginMerge(t, w, s) PROVE AskedInv'
  <2> DEFINE r == [Idle EXCEPT !.op = "merge", !.who = w, !.sess = s]
  <2>1. r \in Request /\ r.op = "merge" /\ Fresh(r) /\ r.seen = NoItems
    BY <1>0 DEF Request, AllOps, Owners, Fresh
  <2>2. FindOrCreate(t, r)
    BY <1>3 DEF BeginMerge
  <2> QED
    BY <2>1, <2>2, FindOrCreateAsked
<1>4. ASSUME NEW w \in Owners, NEW v \in Variants, NEW q \in Quantities, BeginSet(t, w, v, q)
      PROVE  AskedInv'
  <2>1. PICK c \in ActiveCarts(w) :
          Arrive(t, [Idle EXCEPT !.op = "set", !.who = w, !.c = c, !.v = v, !.q = q,
                                 !.id = items[c][v].id, !.pc = "item"])
    BY <1>4 DEF BeginSet
  <2> DEFINE r == [Idle EXCEPT !.op = "set", !.who = w, !.c = c, !.v = v, !.q = q,
                               !.id = items[c][v].id, !.pc = "item", !.n = served + 1]
  <2>2. tx' = [tx EXCEPT ![t] = r] /\ UNCHANGED db
    BY <2>1 DEF Arrive, db
  <2>3. r \in Request
    BY <2>2, TypeAfter DEF AskedInv
  <2>4. /\ r.pc = "item" /\ r.op = "set" /\ ~r.made /\ r.c = c /\ r.goal = NoItems
        /\ r.mark = "none" /\ r.locked = {} /\ r.todo = {} /\ r.v = v
    BY <1>0 DEF Request
  <2> HIDE DEF r
  <2>5. Fresh(r) /\ status[c] = "active"
    BY <2>4 DEF Fresh, ActiveCarts
  <2> QED
    BY <2>2, <2>3, <2>4, <2>5, FreshKeeps, GoAsked DEF Saves, Searching
<1>5. ASSUME NEW w \in Owners, BeginCheckout(t, w) PROVE AskedInv'
  <2>1. PICK c \in ActiveCarts(w) :
          Arrive(t, [Idle EXCEPT !.op = "checkout", !.who = w, !.c = c, !.g = c,
                                 !.lines = items[c], !.pc = "mark"])
    BY <1>5 DEF BeginCheckout
  <2> DEFINE r == [Idle EXCEPT !.op = "checkout", !.who = w, !.c = c, !.g = c,
                               !.lines = items[c], !.pc = "mark", !.n = served + 1]
  <2>2. tx' = [tx EXCEPT ![t] = r] /\ UNCHANGED db
    BY <2>1 DEF Arrive, db
  <2>3. r \in Request
    BY <2>2, TypeAfter DEF AskedInv
  <2>4. /\ r.pc = "mark" /\ r.op = "checkout" /\ ~r.made /\ r.c = c /\ r.g = c /\ r.goal = NoItems
        /\ r.mark = "none" /\ r.locked = {}
    BY <1>0 DEF Request
  <2> HIDE DEF r
  <2>5. status[c] = "active"
    BY DEF ActiveCarts
  <2>6. Keeping(r)
    BY <2>4, <2>5 DEF Keeping, Saves, Searching
  <2>7. \A v \in Variants : NoItems[v].qty = 0
    BY DEF NoItems, Absent
  <2>8. \A v \in Variants : Offer(r, v) <= Cost(r, v)
    BY <2>3, <2>4, <2>7, OfferType DEF Offer
  <2> QED
    BY <2>2, <2>3, <2>4, <2>6, <2>8, GoAsked
<1> QED
  BY <1>1, <1>2, <1>3, <1>4, <1>5 DEF Begin

LEMMA Before ==
  ASSUME AskedInv, NEW t \in Txns, NEW x, x = tx[t]
  PROVE  x \in Request /\ Keeping(x) /\ \A v \in Variants : Fair(x, v)
<1>1. x \in Request
  BY DEF AskedInv, CartInv, TypeOK
<1> QED
  BY <1>1 DEF AskedInv, Kept, Offers

LEMMA NoUnitsYet == \A v \in Variants : NoItems[v].qty = 0 /\ NoItems[v] = Absent
BY DEF NoItems, Absent

LEMMA InsertAsked ==
  ASSUME AskedInv, CartInv', NEW t \in Txns, NEW c \in CartIds, InsertCart(t, c)
  PROVE  AskedInv'
<1>1. PICK x : x = tx[t]
  OBVIOUS
<1>2. x \in Request /\ Keeping(x)
  BY <1>1, Before
<1> DEFINE r == [x EXCEPT !.c = c, !.made = TRUE, !.pc = IF x.op = "merge" THEN "guest" ELSE "made"]
<1>3. x.pc = "insert" /\ status[c] = "none" /\ (\A u \in Others(t) : ~(tx[u].made /\ tx[u].c = c))
  BY <1>1 DEF InsertCart
<1>4. tx' = [tx EXCEPT ![t] = r] /\ UNCHANGED db
  BY <1>1, <1>2 DEF InsertCart, Step, Request
<1>5. r \in Request
  BY <1>4, TypeAfter DEF AskedInv
<1>6. /\ r.c = c /\ r.made /\ r.pc = (IF x.op = "merge" THEN "guest" ELSE "made") /\ r.op = x.op
      /\ r.seen = x.seen /\ r.goal = x.goal /\ r.mark = x.mark /\ r.locked = x.locked
      /\ r.todo = x.todo /\ r.v = x.v /\ r.who = x.who /\ r.sess = x.sess
  BY <1>2 DEF Request
<1> HIDE DEF r
<1>7. /\ x.seen = NoItems /\ x.goal = NoItems /\ x.mark = "none" /\ x.locked = {}
      /\ x.op \in {"add", "set"} => x.todo \subseteq {x.v}
      /\ x.op = "merge" => x.who \in Customers /\ x.sess \in Sessions
  BY <1>2, <1>3 DEF Keeping, Searching, Saves
<1>8. Keeping(r)
  BY <1>3, <1>6, <1>7 DEF Keeping, Searching, Saves
<1>9. \A v \in Variants : Offer(r, v) <= Cost(r, v)
  BY <1>5, <1>6, <1>7, NoUnitsYet, OfferType DEF Offer
<1>10. MadeOnce'
  <2>1. \A u \in Txns : tx'[u] = IF u = t THEN r ELSE tx[u]
    BY <1>4 DEF AskedInv, CartInv, TypeOK
  <2>2. \A u \in Others(t) : tx[u].made => tx[u].c # c
    BY <1>3
  <2> QED
    BY <1>6, <2>1, <2>2 DEF AskedInv, MadeOnce, Others
<1>11. /\ \A v \in Variants : Fair(r, v)
       /\ \A u \in Others(t), v \in Variants : FairTwo(r, tx[u], v)
  BY <1>5, <1>9, SmallOffer
<1> QED
  BY <1>4, <1>5, <1>8, <1>10, <1>11, LocalAsked

LEMMA LostAsked ==
  ASSUME AskedInv, CartInv', NEW t \in Txns, LoseRace(t)
  PROVE  AskedInv'
<1>1. PICK x : x = tx[t]
  OBVIOUS
<1>2. x \in Request /\ Keeping(x)
  BY <1>1, Before
<1> DEFINE r == [x EXCEPT !.pc = "reread"]
<1>3. x.pc = "insert" /\ tx' = [tx EXCEPT ![t] = r] /\ UNCHANGED db
  BY <1>1 DEF LoseRace, Step
<1>4. r \in Request
  BY <1>3, TypeAfter DEF AskedInv
<1>5. /\ r.c = x.c /\ r.made = x.made /\ r.pc = "reread" /\ r.op = x.op
      /\ r.seen = x.seen /\ r.goal = x.goal /\ r.mark = x.mark /\ r.locked = x.locked
      /\ r.todo = x.todo /\ r.v = x.v /\ r.who = x.who /\ r.sess = x.sess
  BY <1>2 DEF Request
<1> HIDE DEF r
<1>6. Fresh(r) /\ ~r.made /\ r.seen = NoItems
  BY <1>2, <1>3, <1>5 DEF Fresh, Keeping, Searching, Saves
<1>7. Keeping(r) /\ \A v \in Variants : Offer(r, v) <= Cost(r, v)
  BY <1>4, <1>5, <1>6, FreshKeeps DEF Searching, Saves
<1> QED
  BY <1>3, <1>4, <1>6, <1>7, GoAsked

LEMMA RereadAsked ==
  ASSUME AskedInv, CartInv', NEW t \in Txns, Reread(t)
  PROVE  AskedInv'
<1>1. PICK x : x = tx[t]
  OBVIOUS
<1>2. x \in Request /\ Keeping(x) /\ x.pc = "reread"
  BY <1>1, Before DEF Reread
<1>3. Fresh(x)
  BY <1>2 DEF Fresh, Keeping, Searching, Saves
<1>4. ASSUME NEW c \in ActiveCarts(x.who), Step(t, Found(x, c)) PROVE AskedInv'
  <2>1. PICK r : r = Found(x, c)
    OBVIOUS
  <2>2. tx' = [tx EXCEPT ![t] = r] /\ UNCHANGED db
    BY <1>4, <2>1 DEF Step
  <2>3. /\ r \in Request /\ Keeping(r) /\ ~r.made
        /\ \/ \A v \in Variants : Offer(r, v) <= Cost(r, v)
           \/ status[r.c] = "active" /\ \A v \in Variants : Offer(r, v) <= items[r.c][v].qty + Cost(r, v)
    BY <1>2, <1>3, <2>1, FoundAsked
  <2> QED
    BY <2>2, <2>3, GoAsked
<1>5. CASE Fail(t)
  BY <1>5, FailAsked DEF Fail, Step
<1> QED
  BY <1>1, <1>4, <1>5 DEF Reread

--------------------------------------------------------------------------------
(* The items of a cart.                                                    *)

LEMMA ReadCartAsked ==
  ASSUME AskedInv, CartInv', NEW t \in Txns, ReadCart(t)
  PROVE  AskedInv'
<1>1. PICK x : x = tx[t]
  OBVIOUS
<1>2. x \in Request /\ Keeping(x) /\ x.pc = "read" /\ status[x.c] = "active"
  BY <1>1, Before DEF ReadCart
<1> DEFINE r == [x EXCEPT !.seen = items[x.c], !.goal[x.v] = Plus(items[x.c][x.v], x.q),
                          !.todo = {x.v}, !.pc = "save"]
<1>3. tx' = [tx EXCEPT ![t] = r] /\ UNCHANGED db
  BY <1>1 DEF ReadCart, Step
<1>4. r \in Request
  BY <1>3, TypeAfter DEF AskedInv
<1>5. /\ r.c = x.c /\ r.made = x.made /\ r.pc = "save" /\ r.op = x.op /\ r.q = x.q
      /\ r.goal = [x.goal EXCEPT ![x.v] = Plus(items[x.c][x.v], x.q)]
      /\ r.mark = x.mark /\ r.locked = x.locked
      /\ r.todo = {x.v} /\ r.v = x.v /\ r.who = x.who /\ r.sess = x.sess
  BY <1>2 DEF Request
<1> HIDE DEF r
<1>6. x.goal = NoItems /\ ~x.made /\ x.mark = "none" /\ x.locked = {} /\ x.op = "add"
  BY <1>2 DEF Keeping, Searching, Saves
<1>7. Keeping(r)
  BY <1>2, <1>5, <1>6 DEF Keeping, Searching, Saves
<1>8. ASSUME NEW v \in Variants PROVE Offer(r, v) <= items[r.c][v].qty + Cost(r, v)
  <2>1. x.c \in CartIds /\ x.v \in Variants /\ x.q \in Nat
    BY <1>2 DEF Request
  <2>2. items[x.c][v] \in Item /\ items[x.c][x.v] \in Item
    BY <2>1 DEF AskedInv, CartInv, TypeOK
  <2>3. Plus(items[x.c][x.v], x.q).qty = items[x.c][x.v].qty + x.q
    BY <2>2 DEF Plus, Item
  <2>4. r.goal[v].qty = IF v = x.v THEN items[x.c][x.v].qty + x.q ELSE 0
    BY <1>5, <1>6, <2>1, <2>3, NoUnitsYet, DefaultTypes
  <2>5. items[x.c][v].qty \in Nat
    BY <2>2 DEF Item
  <2> QED
    BY <1>5, <1>6, <2>1, <2>4, <2>5 DEF Offer, Cost
<1> QED
  BY <1>2, <1>3, <1>4, <1>5, <1>6, <1>7, <1>8, GoAsked

LEMMA FindItemAsked ==
  ASSUME AskedInv, CartInv', NEW t \in Txns, FindItem(t)
  PROVE  AskedInv'
<1>1. PICK x : x = tx[t]
  OBVIOUS
<1>2. x \in Request /\ Keeping(x) /\ x.pc = "item"
  BY <1>1, Before DEF FindItem
<1>3. /\ x.goal = NoItems /\ x.mark = "none" /\ x.locked = {} /\ x.op = "set"
      /\ x.made \/ status[x.c] # "none"
      /\ x.made => status[x.c] = "none"
      /\ x.todo \subseteq {x.v}
  BY <1>2 DEF Keeping, Searching, Saves
<1>4. CASE Fail(t)
  BY <1>4, FailAsked DEF Fail, Step
<1>5. CASE Step(t, [x EXCEPT !.pc = "delete"])
  <2> DEFINE r == [x EXCEPT !.pc = "delete"]
  <2>1. tx' = [tx EXCEPT ![t] = r] /\ UNCHANGED db
    BY <1>5 DEF Step
  <2>2. r \in Request
    BY <2>1, TypeAfter DEF AskedInv
  <2>3. /\ r.c = x.c /\ r.made = x.made /\ r.pc = "delete" /\ r.op = x.op
        /\ r.goal = x.goal /\ r.mark = x.mark /\ r.locked = x.locked
        /\ r.todo = x.todo /\ r.v = x.v
    BY <1>2 DEF Request
  <2> HIDE DEF r
  <2>4. Keeping(r)
    BY <1>3, <2>3 DEF Keeping, Searching, Saves
  <2>5. \A v \in Variants : Offer(r, v) <= Cost(r, v)
    BY <1>3, <2>2, <2>3, NoUnitsYet, OfferType DEF Offer
  <2> QED
    BY <1>1, <2>1, <2>2, <2>3, <2>4, <2>5, GoAsked
<1>6. CASE Step(t, [x EXCEPT !.goal[x.v] = [id |-> x.id, qty |-> x.q], !.todo = {x.v}, !.pc = "save"])
  <2> DEFINE r == [x EXCEPT !.goal[x.v] = [id |-> x.id, qty |-> x.q], !.todo = {x.v}, !.pc = "save"]
  <2>1. tx' = [tx EXCEPT ![t] = r] /\ UNCHANGED db
    BY <1>6 DEF Step
  <2>2. r \in Request
    BY <2>1, TypeAfter DEF AskedInv
  <2>3. /\ r.c = x.c /\ r.made = x.made /\ r.pc = "save" /\ r.op = x.op /\ r.q = x.q
        /\ r.goal = [x.goal EXCEPT ![x.v] = [id |-> x.id, qty |-> x.q]]
        /\ r.mark = x.mark /\ r.locked = x.locked
        /\ r.todo = {x.v} /\ r.v = x.v
    BY <1>2 DEF Request
  <2> HIDE DEF r
  <2>4. Keeping(r)
    BY <1>3, <2>3 DEF Keeping, Searching, Saves
  <2>5. ASSUME NEW v \in Variants PROVE Offer(r, v) <= Cost(r, v)
    <3>1. x.v \in Variants /\ x.q \in Nat
      BY <1>2 DEF Request
    <3>2. r.goal[v].qty = IF v = x.v THEN x.q ELSE 0
      BY <1>3, <2>3, <3>1, NoUnitsYet, DefaultTypes
    <3> QED
      BY <1>3, <2>3, <3>1, <3>2 DEF Offer, Cost
  <2> QED
    BY <1>1, <2>1, <2>2, <2>3, <2>4, <2>5, GoAsked
<1> QED
  BY <1>1, <1>4, <1>5, <1>6 DEF FindItem

\* A step of saving: what the request will make of its cart stays the same.
LEMMA SavingAsked ==
  ASSUME AskedInv, CartInv', NEW t \in Txns, NEW x, x = tx[t], NEW r, tx' = [tx EXCEPT ![t] = r],
         UNCHANGED db, Saves(x), Saves(r), Keeping(r), r.c = x.c, r.g = x.g, r.made = x.made,
         r.goal = x.goal, r.op = x.op, r.q = x.q, x.op \in {"add", "set"} => r.v = x.v
  PROVE  AskedInv'
<1>1. r \in Request
  BY TypeAfter DEF AskedInv
<1>2. MadeOnce'
  BY DEF AskedInv, CartInv, TypeOK, MadeOnce
<1>3. \A v \in Variants : Offer(r, v) = Offer(x, v) /\ Cost(r, v) = Cost(x, v)
  BY DEF Offer, Cost, Saves
<1>4. \A d \in CartIds : Closes(x, d) => Closes(r, d)
  BY DEF Closes, Saves
<1>5. /\ \A v \in Variants : Fair(r, v)
      /\ \A u \in Others(t), v \in Variants : FairTwo(r, tx[u], v)
  BY <1>1, <1>3, <1>4, SameOffer
<1> QED
  BY <1>1, <1>2, <1>5, LocalAsked

\* What a save of v leaves as it was.
LEMMA SavedFields ==
  ASSUME NEW x \in Request, NEW v \in Variants, NEW r, r = Saved(x, v)
  PROVE  /\ r.c = x.c /\ r.g = x.g /\ r.made = x.made /\ r.goal = x.goal /\ r.op = x.op /\ r.q = x.q
         /\ r.v = x.v /\ r.seen = x.seen /\ r.mark = x.mark /\ r.locked = x.locked /\ r.wrote = x.wrote
         /\ r.who = x.who /\ r.sess = x.sess /\ r.todo = x.todo \ {v}
         /\ r.pc = IF x.todo # {v} THEN "save" ELSE IF x.op = "merge" THEN "mark" ELSE "commit"
BY DEF Saved, Request

LEMMA SavedKeeping ==
  ASSUME NEW x \in Request, NEW v \in Variants, NEW r, Keeping(x), x.pc \in {"save", "update"},
         r.c = x.c, r.g = x.g, r.made = x.made, r.goal = x.goal, r.op = x.op, r.v = x.v,
         r.mark = x.mark, r.who = x.who, r.sess = x.sess, r.todo = x.todo \ {v},
         r.pc = IF x.todo # {v} THEN "save" ELSE IF x.op = "merge" THEN "mark" ELSE "commit",
         \A w \in r.locked : r.wrote[w].qty <= r.goal[w].qty
  PROVE  Keeping(r) /\ Saves(r)
<1>1. Saves(x) /\ Saves(r) /\ ~Searching(x) /\ ~Searching(r)
  BY DEF Saves, Searching
<1>2. r.pc \notin {"read", "item", "delete", "made", "guest"}
  OBVIOUS
<1>3. r.pc = "commit" => r.op # "merge"
  OBVIOUS
<1>4. r.pc \in {"mark", "marking"} => r.op = "merge"
  OBVIOUS
<1>5. r.pc \in {"mark", "marking"} \/ r.mark # "none" \/ (r.op = "merge" /\ r.pc \in {"save", "update"})
        => status[r.g] # "none"
  BY <1>4 DEF Keeping
<1> QED
  BY <1>1, <1>2, <1>3, <1>5 DEF Keeping

LEMMA SavedAsked ==
  ASSUME AskedInv, CartInv', NEW t \in Txns, NEW x, x = tx[t], NEW v \in Variants,
         x.pc \in {"save", "update"}, Step(t, Saved(x, v))
  PROVE  AskedInv'
<1>1. x \in Request /\ Keeping(x) /\ Saves(x)
  BY Before DEF Saves
<1>2. PICK r : r = Saved(x, v)
  OBVIOUS
<1>3. tx' = [tx EXCEPT ![t] = r] /\ UNCHANGED db
  BY <1>2 DEF Step
<1>4. /\ r.c = x.c /\ r.g = x.g /\ r.made = x.made /\ r.goal = x.goal /\ r.op = x.op /\ r.q = x.q
      /\ r.v = x.v /\ r.mark = x.mark /\ r.locked = x.locked /\ r.wrote = x.wrote
      /\ r.who = x.who /\ r.sess = x.sess /\ r.todo = x.todo \ {v}
      /\ r.pc = IF x.todo # {v} THEN "save" ELSE IF x.op = "merge" THEN "mark" ELSE "commit"
  BY <1>1, <1>2, SavedFields
<1>5. \A w \in r.locked : r.wrote[w].qty <= r.goal[w].qty
  BY <1>1, <1>4 DEF Keeping
<1>6. Keeping(r) /\ Saves(r)
  BY <1>1, <1>4, <1>5, SavedKeeping
<1> QED
  BY <1>1, <1>3, <1>4, <1>6, SavingAsked

LEMMA WriteAsked ==
  ASSUME AskedInv, CartInv', NEW t \in Txns, NEW x, x = tx[t], NEW v \in Variants, NEW i \in Item,
         x.pc \in {"save", "update"}, Step(t, Write(x, v, i)), i.qty <= x.goal[v].qty
  PROVE  AskedInv'
<1>1. x \in Request /\ Keeping(x) /\ Saves(x)
  BY Before DEF Saves
<1>2. PICK s : s = Saved(x, v)
  OBVIOUS
<1>3. /\ s.c = x.c /\ s.g = x.g /\ s.made = x.made /\ s.goal = x.goal /\ s.op = x.op /\ s.q = x.q
      /\ s.v = x.v /\ s.mark = x.mark /\ s.locked = x.locked /\ s.wrote = x.wrote
      /\ s.who = x.who /\ s.sess = x.sess /\ s.todo = x.todo \ {v}
      /\ s.pc = IF x.todo # {v} THEN "save" ELSE IF x.op = "merge" THEN "mark" ELSE "commit"
  BY <1>1, <1>2, SavedFields
<1>4. s \in Request
  <2>1. x.todo \ {v} \in SUBSET Variants
    BY <1>1 DEF Request
  <2>2. PICK p : p = IF x.todo # {v} THEN "save" ELSE IF x.op = "merge" THEN "mark" ELSE "commit"
    OBVIOUS
  <2>3. PICK rest : rest = x.todo \ {v}
    OBVIOUS
  <2>4. s = [x EXCEPT !.todo = rest, !.pc = p]
    BY <1>2, <2>2, <2>3 DEF Saved
  <2>5. p \in {"save", "mark", "commit"} /\ rest \in SUBSET Variants
    BY <2>1, <2>2, <2>3
  <2> QED
    BY ZenonT(30), <1>1, <2>4, <2>5 DEF Request
<1> DEFINE r == [s EXCEPT !.locked = @ \cup {v}, !.wrote[v] = i]
<1>5. tx' = [tx EXCEPT ![t] = r] /\ UNCHANGED db
  BY <1>2 DEF Step, Write
<1>6. /\ r.c = s.c /\ r.g = s.g /\ r.made = s.made /\ r.goal = s.goal /\ r.op = s.op /\ r.q = s.q
      /\ r.v = s.v /\ r.mark = s.mark /\ r.who = s.who /\ r.sess = s.sess /\ r.todo = s.todo /\ r.pc = s.pc
      /\ r.locked = s.locked \cup {v} /\ r.wrote = [s.wrote EXCEPT ![v] = i]
  BY <1>4 DEF Request
<1> HIDE DEF r
<1>7. \A w \in r.locked : r.wrote[w].qty <= r.goal[w].qty
  <2>1. s.wrote \in [Variants -> Item] /\ s.locked \subseteq Variants
    BY <1>4 DEF Request
  <2>2. \A w \in s.locked : s.wrote[w].qty <= s.goal[w].qty
    BY <1>1, <1>3 DEF Keeping
  <2> QED
    BY <1>3, <1>6, <2>1, <2>2
<1>8. /\ r.c = x.c /\ r.g = x.g /\ r.made = x.made /\ r.goal = x.goal /\ r.op = x.op /\ r.v = x.v
      /\ r.mark = x.mark /\ r.who = x.who /\ r.sess = x.sess /\ r.todo = x.todo \ {v}
      /\ r.pc = IF x.todo # {v} THEN "save" ELSE IF x.op = "merge" THEN "mark" ELSE "commit"
  BY <1>3, <1>6
<1>9. Keeping(r) /\ Saves(r)
  BY <1>1, <1>7, <1>8, SavedKeeping
<1> QED
  BY <1>1, <1>3, <1>5, <1>6, <1>9, SavingAsked

LEMMA SelectAsked ==
  ASSUME AskedInv, CartInv', NEW t \in Txns, NEW v \in Variants, SelectItem(t, v)
  PROVE  AskedInv'
<1>1. PICK x : x = tx[t]
  OBVIOUS
<1>2. x \in Request /\ Keeping(x) /\ x.pc = "save" /\ v \in x.todo
  BY <1>1, Before DEF SelectItem
<1>3. CASE Step(t, [x EXCEPT !.gone = @ \cup {v}])
  <2> DEFINE r == [x EXCEPT !.gone = @ \cup {v}]
  <2>1. tx' = [tx EXCEPT ![t] = r] /\ UNCHANGED db
    BY <1>3 DEF Step
  <2>2. /\ r.c = x.c /\ r.g = x.g /\ r.made = x.made /\ r.goal = x.goal /\ r.op = x.op /\ r.q = x.q
        /\ r.v = x.v /\ r.mark = x.mark /\ r.who = x.who /\ r.sess = x.sess /\ r.todo = x.todo
        /\ r.pc = x.pc /\ r.locked = x.locked /\ r.wrote = x.wrote
    BY <1>2 DEF Request
  <2> HIDE DEF r
  <2>3. Keeping(r) /\ Saves(x) /\ Saves(r)
    BY <1>2, <2>2 DEF Keeping, Searching, Saves
  <2> QED
    BY <1>1, <2>1, <2>2, <2>3, SavingAsked
<1>4. CASE Step(t, Saved(x, v))
  BY <1>1, <1>2, <1>4, SavedAsked
<1>5. CASE Step(t, [x EXCEPT !.v = v, !.pc = "update"])
  <2> DEFINE r == [x EXCEPT !.v = v, !.pc = "update"]
  <2>1. tx' = [tx EXCEPT ![t] = r] /\ UNCHANGED db
    BY <1>5 DEF Step
  <2>2. /\ r.c = x.c /\ r.g = x.g /\ r.made = x.made /\ r.goal = x.goal /\ r.op = x.op /\ r.q = x.q
        /\ r.v = v /\ r.mark = x.mark /\ r.who = x.who /\ r.sess = x.sess /\ r.todo = x.todo
        /\ r.pc = "update" /\ r.locked = x.locked /\ r.wrote = x.wrote
    BY <1>2 DEF Request
  <2> HIDE DEF r
  <2>3. x.op \in {"add", "set"} => v = x.v
    BY <1>2 DEF Keeping
  <2>4. Keeping(r) /\ Saves(x) /\ Saves(r)
    BY <1>2, <2>2, <2>3 DEF Keeping, Searching, Saves
  <2> QED
    BY <1>1, <2>1, <2>2, <2>3, <2>4, SavingAsked
<1> QED
  BY <1>1, <1>3, <1>4, <1>5 DEF SelectItem

LEMMA InsertItemAsked ==
  ASSUME AskedInv, CartInv', NEW t \in Txns, NEW v \in Variants, InsertItem(t, v)
  PROVE  AskedInv'
<1>1. PICK x : x = tx[t]
  OBVIOUS
<1>2. x \in Request /\ x.pc = "save" /\ x.goal[v] \in Item /\ x.n \in Nat
  BY <1>1, Before DEF InsertItem, Request
<1>3. CASE Fail(t)
  BY <1>3, FailAsked DEF Fail, Step
<1>4. PICK i : i = [x.goal[v] EXCEPT !.id = IF x.goal[v].id = 0 THEN x.n ELSE @]
  OBVIOUS
<1>5. i \in Item /\ i.qty = x.goal[v].qty /\ i.qty \in Nat
  BY <1>2, <1>4 DEF Item
<1>6. CASE Step(t, Write(x, v, i))
  BY <1>1, <1>2, <1>5, <1>6, WriteAsked
<1> QED
  BY <1>1, <1>3, <1>4, <1>6 DEF InsertItem

LEMMA UpdateItemAsked ==
  ASSUME AskedInv, CartInv', NEW t \in Txns, UpdateItem(t)
  PROVE  AskedInv'
<1>1. PICK x : x = tx[t]
  OBVIOUS
<1>2. x \in Request /\ x.pc = "update" /\ x.v \in Variants /\ x.goal[x.v] \in Item
  BY <1>1, Before DEF UpdateItem, Request
<1>3. x.goal[x.v].qty \in Nat
  BY <1>2 DEF Item
<1>4. CASE Step(t, Saved(x, x.v))
  BY <1>1, <1>2, <1>4, SavedAsked
<1>5. CASE Step(t, Write(x, x.v, x.goal[x.v]))
  BY <1>1, <1>2, <1>3, <1>5, WriteAsked
<1> QED
  BY <1>1, <1>4, <1>5 DEF UpdateItem

LEMMA DeleteItemAsked ==
  ASSUME AskedInv, CartInv', NEW t \in Txns, DeleteItem(t)
  PROVE  AskedInv'
<1>1. PICK x : x = tx[t]
  OBVIOUS
<1>2. x \in Request /\ Keeping(x) /\ x.pc = "delete" /\ x.v \in Variants
  BY <1>1, Before DEF DeleteItem, Request
<1>3. /\ x.goal = NoItems /\ x.mark = "none" /\ x.locked = {} /\ x.op = "set"
      /\ x.made \/ status[x.c] # "none"
      /\ x.made => status[x.c] = "none"
      /\ x.todo \subseteq {x.v}
  BY <1>2 DEF Keeping, Searching, Saves
<1> DEFINE done == [x EXCEPT !.pc = "commit"]
           r == IF items[x.c][x.v].id # x.id THEN done
                ELSE [done EXCEPT !.locked = {x.v}, !.wrote[x.v] = Absent]
<1>4. tx' = [tx EXCEPT ![t] = r] /\ UNCHANGED db
  BY <1>1 DEF DeleteItem, Step
<1>5. r \in Request
  BY <1>4, TypeAfter DEF AskedInv
<1>6. /\ r.c = x.c /\ r.made = x.made /\ r.pc = "commit" /\ r.op = x.op /\ r.goal = x.goal
      /\ r.mark = x.mark /\ r.todo = x.todo /\ r.v = x.v
      /\ r.locked \subseteq {x.v} /\ (r.locked # {} => r.wrote[x.v] = Absent)
  BY <1>2, <1>3 DEF Request
<1> HIDE DEF r, done
<1>7. \A v \in r.locked : r.wrote[v].qty <= r.goal[v].qty
  <2>1. NoItems[x.v].qty = 0 /\ Absent.qty = 0
    BY <1>2, NoUnitsYet DEF Absent
  <2> QED
    BY <1>3, <1>6, <2>1
<1>8. Keeping(r)
  BY <1>3, <1>6, <1>7 DEF Keeping, Searching, Saves
<1>9. \A v \in Variants : Offer(r, v) <= Cost(r, v)
  BY <1>3, <1>5, <1>6, NoUnitsYet, OfferType DEF Offer
<1> QED
  BY <1>1, <1>4, <1>5, <1>6, <1>8, <1>9, GoAsked

--------------------------------------------------------------------------------
(* The status of a cart that a request closes.                             *)

LEMMA CompareAsked ==
  ASSUME AskedInv, CartInv', NEW t \in Txns, CompareCart(t)
  PROVE  AskedInv'
<1>1. PICK x : x = tx[t]
  OBVIOUS
<1>2. x \in Request /\ Keeping(x) /\ x.pc = "mark"
  BY <1>1, Before DEF CompareCart
<1>3. CASE Fail(t)
  BY <1>3, FailAsked DEF Fail, Step
<1>4. ASSUME NEW p \in {"commit", "marking"}, Step(t, [x EXCEPT !.pc = p]),
             p = "commit" => status[x.g] = Closed(x)
      PROVE  AskedInv'
  <2> DEFINE r == [x EXCEPT !.pc = p]
  <2>1. tx' = [tx EXCEPT ![t] = r] /\ UNCHANGED db
    BY <1>4 DEF Step
  <2>2. /\ r.c = x.c /\ r.g = x.g /\ r.made = x.made /\ r.goal = x.goal /\ r.op = x.op /\ r.q = x.q
        /\ r.v = x.v /\ r.mark = x.mark /\ r.who = x.who /\ r.sess = x.sess /\ r.todo = x.todo
        /\ r.pc = p /\ r.locked = x.locked /\ r.wrote = x.wrote
    BY <1>2 DEF Request
  <2> HIDE DEF r
  <2>3. x.op = "merge" /\ p = "commit" => Ended(x.g)
    BY <1>4 DEF Closed, Ended
  <2>4. Keeping(r) /\ Saves(x) /\ Saves(r)
    BY <1>2, <1>4, <2>2, <2>3 DEF Keeping, Searching, Saves
  <2> QED
    BY <1>1, <2>1, <2>2, <2>4, SavingAsked
<1> QED
  BY <1>1, <1>3, <1>4 DEF CompareCart

LEMMA UpdateCartAsked ==
  ASSUME AskedInv, CartInv', NEW t \in Txns, UpdateCart(t)
  PROVE  AskedInv'
<1>1. PICK x : x = tx[t]
  OBVIOUS
<1>2. x \in Request /\ Keeping(x) /\ x.pc = "marking"
  BY <1>1, Before DEF UpdateCart
<1> DEFINE r == [x EXCEPT !.mark = Closed(x), !.pc = "commit"]
<1>3. tx' = [tx EXCEPT ![t] = r] /\ UNCHANGED db
  BY <1>1 DEF UpdateCart, Step
<1>4. /\ r.c = x.c /\ r.g = x.g /\ r.made = x.made /\ r.goal = x.goal /\ r.op = x.op /\ r.q = x.q
      /\ r.v = x.v /\ r.mark = Closed(x) /\ r.who = x.who /\ r.sess = x.sess /\ r.todo = x.todo
      /\ r.pc = "commit" /\ r.locked = x.locked /\ r.wrote = x.wrote
  BY <1>2 DEF Request
<1> HIDE DEF r
<1>5. x.op = "merge" => Closed(x) = "abandoned"
  BY DEF Closed
<1>6. Keeping(r) /\ Saves(x) /\ Saves(r)
  BY <1>2, <1>4, <1>5 DEF Keeping, Searching, Saves
<1> QED
  BY <1>1, <1>3, <1>4, <1>6, SavingAsked

\* One customer and one session: beside the two carts of a merge none is in use,
\* nor about to be.
LEMMA NoThirdCart ==
  ASSUME AskedInv, OneOfEach, NEW t \in Txns, NEW x, x = tx[t], x.pc = "guest", ~Ended(x.c),
         NEW g \in ActiveCarts(x.sess), NEW d \in CartIds, status[d] = "active", d # x.c
  PROVE  d = g
<1>1. x \in Request /\ Keeping(x)
  BY Before
<1>2. /\ x.who \in Customers /\ x.sess \in Sessions
      /\ x.made \/ (owner[x.c] = x.who /\ status[x.c] # "none")
  BY <1>1 DEF Keeping, Searching
<1>3. g \in CartIds /\ status[g] = "active" /\ owner[g] = x.sess
  BY DEF ActiveCarts
<1>4. owner[d] \in Customers \/ owner[d] \in Sessions
  BY DEF AskedInv, CartInv, TypeOK, Owners
<1>5. CASE owner[d] \in Sessions
  <2>1. owner[d] = owner[g]
    BY <1>2, <1>3, <1>5 DEF OneOfEach
  <2> QED
    BY <1>3, <2>1 DEF AskedInv, CartInv, OneActiveCart
<1>6. CASE owner[d] \in Customers
  <2>1. owner[d] = x.who
    BY <1>2, <1>6 DEF OneOfEach
  <2>2. d \in ActiveCarts(x.who)
    BY <2>1 DEF ActiveCarts
  <2>3. ~x.made
    BY <2>2 DEF AskedInv, CartInv, MadeAlone
  <2>4. owner[x.c] = x.who /\ x.c \in CartIds
    BY <1>1, <1>2, <2>3 DEF Request
  <2>5. status[x.c] = "active"
    BY <1>2, <2>3, <2>4 DEF AskedInv, CartInv, TypeOK, Ended
  <2> QED
    BY <2>1, <2>4, <2>5 DEF AskedInv, CartInv, OneActiveCart
<1> QED
  BY <1>4, <1>5, <1>6

LEMMA NoThirdMade ==
  ASSUME AskedInv, OneOfEach, NEW t \in Txns, NEW x, x = tx[t], x.pc = "guest", ~Ended(x.c),
         NEW g \in ActiveCarts(x.sess), NEW u \in Others(t), tx[u].made, tx[u].c # x.c
  PROVE  FALSE
<1>1. x \in Request /\ Keeping(x)
  BY Before
<1>2. /\ x.who \in Customers /\ x.sess \in Sessions
      /\ x.made \/ (owner[x.c] = x.who /\ status[x.c] # "none")
  BY <1>1 DEF Keeping, Searching
<1>3. u \in Txns /\ tx[u] \in Request /\ ActiveCarts(tx[u].who) = {}
  BY DEF AskedInv, CartInv, TypeOK, MadeAlone, Others
<1>4. tx[u].who \in Customers \/ tx[u].who \in Sessions
  BY <1>3 DEF Request, Owners
<1>5. CASE tx[u].who \in Sessions
  BY <1>2, <1>3, <1>5 DEF OneOfEach
<1>6. CASE tx[u].who \in Customers
  <2>1. tx[u].who = x.who
    BY <1>2, <1>6 DEF OneOfEach
  <2>2. ~x.made
    BY <2>1 DEF AskedInv, CartInv, MadeAlone
  <2>3. x.c \in ActiveCarts(x.who)
    BY <1>1, <1>2, <2>2 DEF AskedInv, CartInv, TypeOK, Ended, ActiveCarts, Request
  <2> QED
    BY <1>3, <2>1, <2>3
<1> QED
  BY <1>4, <1>5, <1>6

LEMMA GuestAsked ==
  ASSUME AskedInv, CartInv', OneOfEach, NEW t \in Txns, ReadGuest(t)
  PROVE  AskedInv'
<1>1. PICK x : x = tx[t]
  OBVIOUS
<1>2. x \in Request /\ Keeping(x) /\ x.pc = "guest" /\ (\A v \in Variants : Fair(x, v))
  BY <1>1, Before DEF ReadGuest
<1>3. /\ x.goal = NoItems /\ x.mark = "none" /\ x.locked = {} /\ x.op = "merge"
      /\ x.who \in Customers /\ x.sess \in Sessions
      /\ x.made \/ status[x.c] # "none"
      /\ x.made => status[x.c] = "none"
  BY <1>2 DEF Keeping, Searching, Saves
<1>4. CASE Step(t, [x EXCEPT !.pc = "commit"])
  <2> DEFINE r == [x EXCEPT !.pc = "commit"]
  <2>1. tx' = [tx EXCEPT ![t] = r] /\ UNCHANGED db
    BY <1>4 DEF Step
  <2>2. r \in Request
    BY <2>1, TypeAfter DEF AskedInv
  <2>3. /\ r.c = x.c /\ r.made = x.made /\ r.pc = "commit" /\ r.op = x.op /\ r.goal = x.goal
        /\ r.mark = x.mark /\ r.locked = x.locked /\ r.who = x.who /\ r.sess = x.sess
    BY <1>2 DEF Request
  <2> HIDE DEF r
  <2>4. Keeping(r)
    BY <1>3, <2>3 DEF Keeping, Searching, Saves
  <2>5. \A v \in Variants : Offer(r, v) <= Cost(r, v)
    BY <1>3, <2>2, <2>3, NoUnitsYet, OfferType DEF Offer
  <2> QED
    BY <1>1, <2>1, <2>2, <2>3, <2>4, <2>5, GoAsked
<1>5. ASSUME NEW g \in ActiveCarts(x.sess),
             Step(t, [x EXCEPT !.g = g, !.lines = items[g], !.goal = Summed(x, g),
                               !.todo = Lines(g), !.pc = "save"])
      PROVE  AskedInv'
  <2> DEFINE r == [x EXCEPT !.g = g, !.lines = items[g], !.goal = Summed(x, g),
                            !.todo = Lines(g), !.pc = "save"]
  <2>1. tx' = [tx EXCEPT ![t] = r] /\ UNCHANGED db
    BY <1>5 DEF Step
  <2>2. r \in Request
    BY <2>1, TypeAfter DEF AskedInv
  <2>3. /\ r.c = x.c /\ r.g = g /\ r.made = x.made /\ r.pc = "save" /\ r.op = x.op
        /\ r.goal = Summed(x, g) /\ r.mark = x.mark /\ r.locked = x.locked
        /\ r.who = x.who /\ r.sess = x.sess
    BY <1>2 DEF Request
  <2> HIDE DEF r
  <2>4. g \in CartIds /\ status[g] = "active" /\ owner[g] = x.sess
    BY DEF ActiveCarts
  <2>5. Keeping(r)
    BY <1>3, <2>3, <2>4 DEF Keeping, Searching, Saves
  <2>6. \A v \in Variants : Cost(r, v) = 0 /\ Cost(x, v) = 0
    BY <1>3, <2>3 DEF Cost
  <2>7. ASSUME NEW v \in Variants
        PROVE  /\ x.seen[v].qty \in Nat /\ items[g][v].qty \in Nat
               /\ Offer(x, v) = x.seen[v].qty
               /\ Offer(r, v) = x.seen[v].qty + items[g][v].qty
    <3>1. x.seen[v] \in Item /\ items[g][v] \in Item
      BY <1>2, <2>4 DEF AskedInv, CartInv, TypeOK, Request
    <3>2. Plus(x.seen[v], items[g][v].qty).qty = x.seen[v].qty + items[g][v].qty
      BY <3>1 DEF Plus, Item
    <3>3. r.goal[v].qty = x.seen[v].qty + items[g][v].qty
      BY <2>3, <3>2 DEF Summed
    <3> QED
      BY <1>2, <2>3, <3>1, <3>3 DEF Offer, Item
  <2>8. x.c # g
    <3>1. ~x.made => owner[x.c] = x.who
      BY <1>2 DEF Keeping
    <3>2. x.who # x.sess
      BY <1>3, OwnersAssumption
    <3> QED
      BY <1>3, <2>4, <3>1, <3>2
  <2>9. MadeOnce'
    BY <1>1, <2>1, <2>3 DEF AskedInv, CartInv, TypeOK, MadeOnce
  <2>10. ASSUME NEW v \in Variants, ~Ended(x.c)
         PROVE  Offer(r, v) <= asked[v] /\ asked[v] \in Nat
    <3>1. ~Closes(x, g)
      BY <1>2 DEF Closes
    <3>2. Offer(x, v) + items[g][v].qty <= asked[v] + Cost(x, v)
      BY <1>2, <2>4, <2>8, <2>10, <3>1 DEF Fair
    <3> QED
      BY <2>6, <2>7, <3>2, AskedTypes
  <2>11. ASSUME NEW v \in Variants PROVE Fair(r, v)
    <3> SUFFICES ASSUME ~Ended(x.c) PROVE Fair(r, v)
      BY <2>3 DEF Fair
    <3>1. \A d \in CartIds : status[d] = "active" /\ d # r.c => Closes(r, d)
      <4> SUFFICES ASSUME NEW d \in CartIds, status[d] = "active", d # x.c PROVE Closes(r, d)
        BY <2>3
      <4>1. d = g
        BY <1>1, <1>2, <1>5, NoThirdCart
      <4> QED
        BY <1>3, <2>3, <4>1 DEF Closes
    <3>2. Offer(r, v) <= asked[v] + Cost(r, v)
      BY <2>6, <2>10
    <3> QED
      BY <3>1, <3>2 DEF Fair
  <2>12. ASSUME NEW u \in Others(t), NEW v \in Variants PROVE FairTwo(r, tx[u], v)
    <3>1. PICK s : s = tx[u]
      OBVIOUS
    <3>2. s \in Request /\ Keeping(s) /\ s.c \in CartIds
      BY <3>1, Before DEF Others, Request
    <3> SUFFICES ASSUME x.c # s.c, ~Ended(x.c), ~Ended(s.c), ~Closes(r, s.c)
                 PROVE  Offer(r, v) + Offer(s, v) <= asked[v] + Cost(r, v) + Cost(s, v)
      BY <2>3, <3>1 DEF FairTwo
    <3>3. s.c # g
      BY <1>3, <2>3 DEF Closes
    <3>4. ~s.made
      BY <1>1, <1>2, <1>5, <3>1, NoThirdMade
    <3>5. status[s.c] # "active"
      BY <1>1, <1>2, <1>5, <3>2, <3>3, NoThirdCart
    <3>6. status[s.c] = "none"
      BY <3>2, <3>5 DEF AskedInv, CartInv, TypeOK, Ended
    <3>7. Searching(s)
      BY <3>2, <3>4, <3>6 DEF Keeping
    <3>8. Offer(s, v) = 0
      BY <3>2, <3>7, NoUnitsYet DEF Keeping, Searching, Saves, Offer
    <3> QED
      BY <2>6, <2>7, <2>10, <3>2, <3>8, OfferType
  <2> QED
    BY <2>1, <2>2, <2>5, <2>9, <2>11, <2>12, LocalAsked
<1> QED
  BY <1>1, <1>4, <1>5 DEF ReadGuest

--------------------------------------------------------------------------------
(* A transaction commits.                                                  *)

LEMMA CommitCartAsked ==
  ASSUME AskedInv, CartInv', NEW t \in Txns, CommitCart(t)
  PROVE  AskedInv'
<1>1. PICK x : x = tx[t]
  OBVIOUS
<1>2. x \in Request /\ Keeping(x) /\ x.pc = "made" /\ x.made /\ x.c \in CartIds
  BY <1>1, Before DEF CommitCart, AskedInv, CartInv, MadeFirst, Request
<1>3. /\ status[x.c] = "none" /\ items[x.c] = NoItems /\ x.op # "merge"
      /\ x.goal = NoItems /\ x.mark = "none" /\ x.locked = {}
      /\ x.op \in {"add", "set"} => x.todo \subseteq {x.v}
  BY <1>2 DEF Keeping, Searching, Saves, AskedInv, Blank
<1> DEFINE s == [x EXCEPT !.made = FALSE]
<1>4. PICK r : r = Found(s, x.c)
  OBVIOUS
<1>5. /\ tx' = [tx EXCEPT ![t] = r] /\ items' = items /\ asked' = asked
      /\ status' = [status EXCEPT ![x.c] = "active"] /\ owner' = [owner EXCEPT ![x.c] = x.who]
  BY <1>1, <1>4 DEF CommitCart, AskedInv, CartInv, TypeOK
<1>6. r \in Request
  BY <1>5, TypeAfter DEF AskedInv
<1>7. /\ ~r.made /\ r.goal = NoItems /\ r.mark = "none" /\ r.locked = {} /\ r.op # "merge"
      /\ \/ r.pc = "read" /\ r.op = "add" /\ x.op = "add" /\ r.c = x.c /\ r.todo = x.todo /\ r.v = x.v
         \/ r.pc = "idle" /\ r.op = "none" /\ r.seen = NoItems
  <2>1. CASE x.op = "add"
    BY <1>2, <1>3, <1>4, <2>1 DEF Found, Request
  <2>2. CASE x.op # "add"
    <3>1. r = Idle
      BY <1>2, <1>3, <1>4, <2>2 DEF Found, Request
    <3> QED
      BY <3>1, IdleType DEF Idle
  <2> QED
    BY <2>1, <2>2
<1> HIDE DEF s
<1>8. \A u \in Txns : tx'[u] = IF u = t THEN r ELSE tx[u]
  BY <1>5 DEF AskedInv, CartInv, TypeOK
<1>9. \A c \in CartIds : /\ status'[c] = IF c = x.c THEN "active" ELSE status[c]
                         /\ owner'[c] = IF c = x.c THEN x.who ELSE owner[c]
  BY <1>5 DEF AskedInv, CartInv, TypeOK
<1>10. \A c \in CartIds : Ended(c)' <=> Ended(c)
  BY <1>3, <1>9 DEF Ended
<1>11. \A v \in Variants : Offer(r, v) = 0
  BY <1>7, NoUnitsYet DEF Offer
<1>12. Kept'
  <2> SUFFICES ASSUME NEW u \in Txns, NEW y \in Request, tx'[u] = y PROVE Keeping(y)'
    BY DEF Kept
  <2>1. CASE u = t
    <3>1. y = r
      BY <1>8, <2>1
    <3> QED
      BY <1>2, <1>3, <1>7, <1>9, <3>1 DEF Keeping, Searching, Saves
  <2>2. CASE u # t
    <3>1. y = tx[u]
      BY <1>8, <2>2
    <3>2. Keeping(y) /\ y.c \in CartIds /\ y.g \in CartIds
      BY <3>1, Before DEF Request
    <3>3. y.made => y.c # x.c
      BY <1>1, <1>2, <2>2, <3>1 DEF AskedInv, MadeOnce
    <3>4. Searching(y) \/ y.made \/ status[y.c] # "none"
      BY <3>2 DEF Keeping
    <3>5. /\ status[y.c] # "none" => status'[y.c] # "none"
          /\ status[y.g] # "none" => status'[y.g] # "none"
          /\ y.made => status'[y.c] = "none"
          /\ y.pc = "guest" => y.made \/ owner'[y.c] = y.who
          /\ Ended(y.g)' <=> Ended(y.g)
      BY <1>3, <1>9, <1>10, <3>2, <3>3, <3>4 DEF Keeping, Searching
    <3> QED
      BY <3>2, <3>5 DEF Keeping
  <2> QED
    BY <2>1, <2>2
<1>13. MadeOnce' /\ Blank'
  BY <1>5, <1>7, <1>8, <1>9 DEF AskedInv, MadeOnce, Blank
<1>14. \A v \in Variants : items[x.c][v].qty = 0
  BY <1>3, NoUnitsYet
<1>15. Stocked'
  <2> SUFFICES ASSUME NEW v \in Variants, NEW c \in CartIds, NEW d \in CartIds,
                      status'[c] = "active", status'[d] = "active"
               PROVE  /\ items[c][v].qty <= asked[v]
                      /\ c # d => items[c][v].qty + items[d][v].qty <= asked[v]
    BY <1>5 DEF Stocked
  <2>1. asked[v] \in Nat /\ items[c][v].qty \in Nat /\ items[d][v].qty \in Nat
    BY AskedTypes
  <2> QED
    BY <1>9, <1>14, <2>1 DEF AskedInv, Stocked
<1>16. ASSUME NEW y \in Request, NEW v \in Variants, Fair(y, v) \/ y = r
       PROVE  Fair(y, v)'
  <2>1. /\ asked[v] \in Nat /\ Offer(y, v) \in Nat /\ Cost(y, v) \in Nat /\ y.c \in CartIds
        /\ \A d \in CartIds : items[d][v].qty \in Nat
    BY AskedTypes, OfferType DEF Request
  <2>2. \A d \in CartIds : status'[d] = "active" => items[d][v].qty <= asked[v]
    BY <1>5, <1>15 DEF Stocked
  <2> SUFFICES ASSUME ~Ended(y.c)
               PROVE  /\ Offer(y, v) <= asked[v] + Cost(y, v)
                      /\ \A d \in CartIds : status'[d] = "active" /\ d # y.c /\ ~Closes(y, d) =>
                           Offer(y, v) + items[d][v].qty <= asked[v] + Cost(y, v)
    BY <1>5, <1>10, <2>1 DEF Fair
  <2>3. CASE Fair(y, v)
    BY <1>9, <1>14, <2>1, <2>3 DEF Fair
  <2>4. CASE y = r
    BY <1>11, <2>1, <2>2, <2>4
  <2> QED
    BY <1>16, <2>3, <2>4
<1>17. Offers'
  <2> SUFFICES ASSUME NEW u \in Txns, NEW y \in Request, NEW v \in Variants, tx'[u] = y PROVE Fair(y, v)'
    BY DEF Offers
  <2>1. Fair(y, v) \/ y = r
    BY <1>8 DEF AskedInv, Offers
  <2> QED
    BY <1>16, <2>1
<1>18. OffersTwo'
  <2> SUFFICES ASSUME NEW a \in Txns, NEW b \in Txns, NEW y \in Request, NEW z \in Request, NEW v \in Variants,
                      a # b, tx'[a] = y, tx'[b] = z
               PROVE  FairTwo(y, z, v)'
    BY DEF OffersTwo
  <2>1. /\ asked[v] \in Nat /\ Offer(y, v) \in Nat /\ Cost(y, v) \in Nat /\ y.c \in CartIds
        /\ Offer(z, v) \in Nat /\ Cost(z, v) \in Nat /\ z.c \in CartIds
    BY AskedTypes, OfferType DEF Request
  <2> SUFFICES ASSUME y.c # z.c, ~Ended(y.c), ~Ended(z.c), ~Closes(y, z.c), ~Closes(z, y.c)
               PROVE  Offer(y, v) + Offer(z, v) <= asked[v] + Cost(y, v) + Cost(z, v)
    BY <1>5, <1>10, <2>1 DEF FairTwo
  <2>2. CASE a # t /\ b # t
    <3>1. tx[a] = y /\ tx[b] = z
      BY <1>8, <2>2
    <3>2. FairTwo(y, z, v)
      BY <3>1 DEF AskedInv, OffersTwo
    <3> QED
      BY <3>2 DEF FairTwo
  <2>3. CASE a = t
    <3>1. y = r /\ tx[b] = z
      BY <1>8, <2>3
    <3>2. Fair(z, v)
      BY <3>1 DEF AskedInv, Offers
    <3> QED
      BY <1>11, <2>1, <3>1, <3>2 DEF Fair
  <2>4. CASE b = t
    <3>1. z = r /\ tx[a] = y
      BY <1>8, <2>4
    <3>2. Fair(y, v)
      BY <3>1 DEF AskedInv, Offers
    <3> QED
      BY <1>11, <2>1, <3>1, <3>2 DEF Fair
  <2> QED
    BY <2>2, <2>3, <2>4
<1> QED
  BY <1>12, <1>13, <1>15, <1>17, <1>18 DEF AskedInv

LEMMA CommitAsked ==
  ASSUME AskedInv, CartInv', NEW t \in Txns, Commit(t)
  PROVE  AskedInv'
<1>1. PICK x : x = tx[t]
  OBVIOUS
<1>2. /\ x \in Request /\ Keeping(x) /\ x.pc = "commit" /\ (\A v \in Variants : Fair(x, v))
      /\ x.c \in CartIds /\ x.g \in CartIds /\ x.v \in Variants /\ x.q \in Nat
  <2>1. x \in Request
    BY <1>1, Before
  <2> QED
    BY <1>1, <2>1, Before DEF Commit, Request
<1>3. /\ x.made \/ status[x.c] # "none"
      /\ x.made => status[x.c] = "none" /\ items[x.c] = NoItems
      /\ x.mark # "none" => status[x.g] # "none"
      /\ x.op = "merge" => x.locked = {} \/ x.mark = "abandoned" \/ Ended(x.g)
      /\ x.mark \in {"none", "abandoned", "converted"}
  <2>1. x.made => items[x.c] = NoItems
    BY <1>2 DEF Keeping, AskedInv, Blank
  <2> QED
    BY <1>2, <2>1 DEF Keeping, Searching, Request
<1>4. /\ tx' = [tx EXCEPT ![t] = Idle]
      /\ status' = (IF x.mark = "none" THEN IF x.made THEN [status EXCEPT ![x.c] = "active"] ELSE status
                    ELSE [IF x.made THEN [status EXCEPT ![x.c] = "active"] ELSE status
                          EXCEPT ![x.g] = x.mark])
      /\ owner' = (IF x.made THEN [owner EXCEPT ![x.c] = x.who] ELSE owner)
      /\ items' = [items EXCEPT ![x.c] = [v \in Variants |->
                          IF v \in x.locked THEN x.wrote[v] ELSE @[v]]]
      /\ asked' = (IF x.op \in {"add", "set"} THEN [asked EXCEPT ![x.v] = @ + x.q] ELSE asked)
  BY <1>1 DEF Commit
\* What the rows become.
<1>5. \A u \in Txns : tx'[u] = IF u = t THEN Idle ELSE tx[u]
  BY <1>4 DEF AskedInv, CartInv, TypeOK
<1>6. \A c \in CartIds :
        status'[c] = IF x.mark # "none" /\ c = x.g THEN x.mark
                     ELSE IF x.made /\ c = x.c THEN "active" ELSE status[c]
  <2>1. status \in [CartIds -> {"none", "active", "abandoned", "converted"}]
    BY DEF AskedInv, CartInv, TypeOK
  <2> QED
    BY <1>2, <1>4, <2>1
<1>7. \A c \in CartIds : owner'[c] = IF x.made /\ c = x.c THEN x.who ELSE owner[c]
  BY <1>2, <1>4 DEF AskedInv, CartInv, TypeOK
<1>8. \A c \in CartIds, v \in Variants :
        items'[c][v] = IF c = x.c /\ v \in x.locked THEN x.wrote[v] ELSE items[c][v]
  BY <1>2, <1>4 DEF AskedInv, CartInv, TypeOK
<1>9. \A v \in Variants : asked'[v] = asked[v] + Cost(x, v) /\ Cost(x, v) \in Nat
  <2>1. asked \in [Variants -> Nat]
    BY DEF AskedInv, CartInv, TypeOK
  <2> QED
    BY <1>2, <1>4, <2>1 DEF Cost
<1>10. \A c \in CartIds : /\ Ended(c) => Ended(c)'
                          /\ status'[c] = "none" => status[c] = "none"
                          /\ status[c] # "none" => status'[c] # "none"
                          /\ status'[c] = "active" => status[c] = "active" \/ (x.made /\ c = x.c)
  BY <1>3, <1>6 DEF Ended
<1>11. \A d \in CartIds : status'[d] = "active" /\ Closes(x, d) => x.locked = {}
  BY <1>3, <1>6, <1>10 DEF Closes, Ended
<1>12. ASSUME NEW d \in CartIds, ~Ended(d)', Closes(x, d)
       PROVE  x.locked = {}
  BY <1>3, <1>6, <1>10, <1>12 DEF Closes, Ended
\* Either way the cart of x holds what it held, or what x offered.
<1>13. ASSUME NEW v \in Variants
       PROVE  \/ items'[x.c][v] = items[x.c][v]
              \/ items'[x.c][v].qty <= Offer(x, v) /\ x.locked # {}
  <2>1. Offer(x, v) = x.goal[v].qty
    BY <1>2 DEF Offer
  <2> QED
    BY <1>2, <1>8, <2>1 DEF Keeping
<1>14. \A c \in CartIds, v \in Variants : c # x.c => items'[c][v] = items[c][v]
  BY <1>8
<1>15. \A c \in CartIds, v \in Variants : items'[c][v].qty \in Nat /\ items[c][v].qty \in Nat
  BY DEF AskedInv, CartInv, TypeOK, Item
<1>16. \A v \in Variants : asked[v] \in Nat /\ Offer(x, v) \in Nat
  BY <1>2, AskedTypes, OfferType
<1>17. ASSUME x.made, NEW v \in Variants PROVE items[x.c][v].qty = 0
  BY <1>3, <1>17, NoUnitsYet
<1>18. Keeping(Idle)'
  BY IdleType DEF Idle, Keeping, Searching, Saves
<1>19. Kept'
  <2> SUFFICES ASSUME NEW u \in Txns, NEW y \in Request, tx'[u] = y PROVE Keeping(y)'
    BY DEF Kept
  <2>1. CASE u = t
    BY <1>5, <1>18, <2>1
  <2>2. CASE u # t
    <3>1. y = tx[u]
      BY <1>5, <2>2
    <3>2. Keeping(y) /\ y.c \in CartIds /\ y.g \in CartIds
      BY <3>1, Before DEF Request
    <3>3. x.made /\ y.made => y.c # x.c
      BY <1>1, <2>2, <3>1 DEF AskedInv, MadeOnce
    <3>4. /\ Searching(y) \/ y.made \/ status[y.c] # "none"
          /\ y.made => status[y.c] = "none"
          /\ y.pc = "guest" => y.made \/ owner[y.c] = y.who
      BY <3>2 DEF Keeping
    <3>5. /\ status[y.c] # "none" => status'[y.c] # "none"
          /\ status[y.g] # "none" => status'[y.g] # "none"
          /\ Ended(y.g) => Ended(y.g)'
      BY <1>10, <3>2
    <3>6. y.made => status'[y.c] = "none"
      BY <1>3, <1>6, <3>2, <3>3, <3>4
    <3>7. y.pc = "guest" => y.made \/ owner'[y.c] = y.who
      BY <1>3, <1>7, <3>2, <3>4 DEF Searching
    <3> QED
      BY <3>2, <3>5, <3>6, <3>7 DEF Keeping
  <2> QED
    BY <2>1, <2>2
<1>20. MadeOnce'
  BY <1>5, IdleType DEF AskedInv, MadeOnce
<1>21. Blank'
  <2> SUFFICES ASSUME NEW c \in CartIds, status'[c] = "none" PROVE items'[c] = NoItems
    BY DEF Blank
  <2>1. status[c] = "none" /\ c # x.c
    BY <1>3, <1>6, <1>10
  <2>2. items'[c] = items[c]
    BY <1>2, <1>4, <2>1 DEF AskedInv, CartInv, TypeOK
  <2> QED
    BY <2>1, <2>2 DEF AskedInv, Blank
\* What is in use afterwards beside x.c was in use before.
<1>22. ASSUME NEW v \in Variants, status'[x.c] = "active"
       PROVE  /\ items'[x.c][v].qty <= asked'[v]
              /\ \A d \in CartIds : status'[d] = "active" /\ d # x.c =>
                   items'[x.c][v].qty + items'[d][v].qty <= asked'[v]
  <2>1. status[x.c] = "active" \/ x.made
    BY <1>2, <1>10, <1>22
  <2>2. ~Ended(x.c)
    BY <1>3, <2>1 DEF Ended
  <2>3. \A d \in CartIds : status'[d] = "active" /\ d # x.c =>
          status[d] = "active" /\ items'[d][v] = items[d][v] /\ items[d][v].qty <= asked[v]
    BY <1>10, <1>14 DEF AskedInv, Stocked
  <2>4. CASE items'[x.c][v] = items[x.c][v]
    <3>1. items[x.c][v].qty <= asked[v]
      BY <1>2, <1>16, <1>17, <2>1 DEF AskedInv, Stocked
    <3>2. \A d \in CartIds : status[d] = "active" /\ d # x.c /\ items[d][v].qty <= asked[v] =>
            items[x.c][v].qty + items[d][v].qty <= asked[v]
      BY <1>2, <1>15, <1>16, <1>17, <2>1 DEF AskedInv, Stocked
    <3> QED
      BY <1>2, <1>9, <1>15, <1>16, <2>3, <2>4, <3>1, <3>2
  <2>5. CASE items'[x.c][v].qty <= Offer(x, v) /\ x.locked # {}
    <3>1. Offer(x, v) <= asked'[v]
      BY <1>2, <1>9, <2>2 DEF Fair
    <3>2. \A d \in CartIds : status'[d] = "active" /\ d # x.c => Offer(x, v) + items[d][v].qty <= asked'[v]
      BY <1>2, <1>9, <1>11, <2>2, <2>3, <2>5 DEF Fair
    <3>3. asked'[v] \in Nat
      BY <1>9, <1>16
    <3> QED
      BY <1>2, <1>15, <1>16, <2>3, <2>5, <3>1, <3>2, <3>3
  <2> QED
    BY <1>13, <2>4, <2>5
<1>23. Stocked'
  <2> SUFFICES ASSUME NEW v \in Variants, NEW c \in CartIds, NEW d \in CartIds,
                      status'[c] = "active", status'[d] = "active"
               PROVE  /\ items'[c][v].qty <= asked'[v]
                      /\ c # d => items'[c][v].qty + items'[d][v].qty <= asked'[v]
    BY DEF Stocked
  <2>1. CASE c = x.c
    BY <1>22, <2>1
  <2>2. CASE d = x.c /\ c # x.c
    <3>1. items'[d][v].qty + items'[c][v].qty <= asked'[v]
      BY <1>22, <2>2
    <3>2. asked'[v] \in Nat /\ items'[d][v].qty \in Nat /\ items'[c][v].qty \in Nat
      BY <1>9, <1>15, <1>16
    <3> QED
      BY <3>1, <3>2
  <2>3. CASE c # x.c /\ d # x.c
    <3>1. status[c] = "active" /\ status[d] = "active"
      BY <1>10, <2>3
    <3>2. items'[c][v] = items[c][v] /\ items'[d][v] = items[d][v]
      BY <1>14, <2>3
    <3>3. items[c][v].qty <= asked[v] /\ (c # d => items[c][v].qty + items[d][v].qty <= asked[v])
      BY <3>1 DEF AskedInv, Stocked
    <3> QED
      BY <1>9, <1>15, <1>16, <3>2, <3>3
  <2> QED
    BY <2>1, <2>2, <2>3
<1>24. Offers'
  <2> SUFFICES ASSUME NEW u \in Txns, NEW y \in Request, NEW v \in Variants, tx'[u] = y PROVE Fair(y, v)'
    BY DEF Offers
  <2>1. /\ Offer(y, v) \in Nat /\ Cost(y, v) \in Nat /\ y.c \in CartIds
        /\ asked[v] \in Nat /\ Cost(x, v) \in Nat /\ asked'[v] = asked[v] + Cost(x, v)
    BY <1>9, <1>16, OfferType DEF Request
  <2> SUFFICES ASSUME ~Ended(y.c)'
               PROVE  /\ Offer(y, v) <= asked'[v] + Cost(y, v)
                      /\ \A d \in CartIds : status'[d] = "active" /\ d # y.c /\ ~Closes(y, d) =>
                           Offer(y, v) + items'[d][v].qty <= asked'[v] + Cost(y, v)
    BY DEF Fair
  <2>2. \A d \in CartIds : status'[d] = "active" => items'[d][v].qty <= asked'[v]
    BY <1>23 DEF Stocked
  <2>3. CASE u = t
    <3>1. Offer(y, v) = 0
      BY <1>5, <2>3, NoUnitsYet, IdleType DEF Offer, Idle
    <3> QED
      BY <1>15, <2>1, <2>2, <3>1
  <2>4. CASE u # t
    <3>1. y = tx[u] /\ ~Ended(y.c)
      BY <1>5, <1>10, <2>1, <2>4
    <3>2. Fair(y, v)
      BY <3>1 DEF AskedInv, Offers
    <3>3. Offer(y, v) <= asked[v] + Cost(y, v)
      BY <3>1, <3>2 DEF Fair
    <3>4. ASSUME NEW d \in CartIds, status'[d] = "active", d # y.c, ~Closes(y, d)
          PROVE  Offer(y, v) + items'[d][v].qty <= asked'[v] + Cost(y, v)
      <4>1. CASE items'[d][v] = items[d][v] /\ status[d] = "active"
        <5>1. Offer(y, v) + items[d][v].qty <= asked[v] + Cost(y, v)
          BY <3>1, <3>2, <3>4, <4>1 DEF Fair
        <5> QED
          BY <1>15, <2>1, <4>1, <5>1
      <4>2. CASE items'[d][v] = items[d][v] /\ x.made /\ d = x.c
        BY <1>15, <1>17, <2>1, <3>3, <4>2
      <4>3. CASE d = x.c /\ items'[d][v].qty <= Offer(x, v) /\ x.locked # {}
        <5>1. ~Ended(x.c)
          BY <1>10, <3>4, <4>3 DEF Ended
        <5>2. ~Closes(x, y.c)
          BY <1>12, <2>1, <4>3
        <5>3. FairTwo(x, y, v)
          BY <1>1, <1>2, <2>4, <3>1 DEF AskedInv, OffersTwo
        <5>4. Offer(x, v) + Offer(y, v) <= asked[v] + Cost(x, v) + Cost(y, v)
          BY <3>1, <3>4, <4>3, <5>1, <5>2, <5>3 DEF FairTwo
        <5> QED
          BY <1>15, <1>16, <2>1, <4>3, <5>4
      <4>4. status[d] = "active" \/ (x.made /\ d = x.c)
        BY <1>10, <3>4
      <4> QED
        BY <1>13, <1>14, <4>1, <4>2, <4>3, <4>4
    <3> QED
      BY <2>1, <3>3, <3>4
  <2> QED
    BY <2>3, <2>4
<1>25. OffersTwo'
  <2> SUFFICES ASSUME NEW a \in Txns, NEW b \in Txns, NEW y \in Request, NEW z \in Request, NEW v \in Variants,
                      a # b, tx'[a] = y, tx'[b] = z
               PROVE  FairTwo(y, z, v)'
    BY DEF OffersTwo
  <2>1. /\ asked'[v] \in Nat /\ Offer(y, v) \in Nat /\ Cost(y, v) \in Nat /\ y.c \in CartIds
        /\ Offer(z, v) \in Nat /\ Cost(z, v) \in Nat /\ z.c \in CartIds
        /\ asked[v] \in Nat /\ Cost(x, v) \in Nat /\ asked'[v] = asked[v] + Cost(x, v)
    BY <1>9, <1>16, OfferType DEF Request
  <2> SUFFICES ASSUME y.c # z.c, ~Ended(y.c)', ~Ended(z.c)', ~Closes(y, z.c), ~Closes(z, y.c)
               PROVE  Offer(y, v) + Offer(z, v) <= asked'[v] + Cost(y, v) + Cost(z, v)
    BY DEF FairTwo
  <2>2. \A r \in Request : r = Idle => Offer(r, v) = 0
    BY NoUnitsYet, IdleType DEF Offer, Idle
  <2>3. Offer(y, v) <= asked'[v] + Cost(y, v) /\ Offer(z, v) <= asked'[v] + Cost(z, v)
    BY <1>24 DEF Offers, Fair
  <2>4. CASE a # t /\ b # t
    <3>1. tx[a] = y /\ tx[b] = z /\ ~Ended(y.c) /\ ~Ended(z.c)
      BY <1>5, <1>10, <2>1, <2>4
    <3>2. FairTwo(y, z, v)
      BY <3>1 DEF AskedInv, OffersTwo
    <3>3. Offer(y, v) + Offer(z, v) <= asked[v] + Cost(y, v) + Cost(z, v)
      BY <3>1, <3>2 DEF FairTwo
    <3> QED
      BY <2>1, <3>3
  <2>5. CASE a = t
    <3>1. Offer(y, v) = 0
      BY <1>5, <2>2, <2>5
    <3> QED
      BY <2>1, <2>3, <3>1
  <2>6. CASE b = t
    <3>1. Offer(z, v) = 0
      BY <1>5, <2>2, <2>6
    <3> QED
      BY <2>1, <2>3, <3>1
  <2> QED
    BY <2>4, <2>5, <2>6
<1> QED
  BY <1>19, <1>20, <1>21, <1>23, <1>24, <1>25 DEF AskedInv

LEMMA InitAsked == Init => AskedInv
<1> SUFFICES ASSUME Init PROVE AskedInv
  OBVIOUS
<1>1. CartInv
  BY InitCarts
<1>2. /\ \A t \in Txns : tx[t] = Idle
      /\ \A c \in CartIds : status[c] = "none" /\ items[c] = NoItems
      /\ \A v \in Variants : asked[v] = 0
  BY DEF Init, NoUnits
<1>3. Keeping(Idle)
  BY IdleType DEF Idle, Keeping, Searching, Saves
<1>4. \A v \in Variants : Offer(Idle, v) = 0 /\ Cost(Idle, v) = 0
  BY NoUnitsYet, IdleType DEF Offer, Cost, Idle
<1>5. Kept /\ MadeOnce /\ Blank /\ Stocked
  BY <1>2, <1>3, IdleType DEF Kept, MadeOnce, Blank, Stocked
<1>6. Offers
  BY <1>2, <1>4, IdleType DEF Offers, Fair
<1>7. OffersTwo
  BY <1>2, <1>4 DEF OffersTwo, FairTwo
<1> QED
  BY <1>1, <1>5, <1>6, <1>7 DEF AskedInv

LEMMA NextAsked == ASSUME OneOfEach PROVE AskedInv /\ [Next]_vars => AskedInv'
<1> SUFFICES ASSUME AskedInv, [Next]_vars PROVE AskedInv'
  OBVIOUS
<1>1. CartInv'
  BY NextCarts DEF AskedInv
<1>2. CASE UNCHANGED vars
  <2>1. UNCHANGED <<status, owner, items, asked, tx>>
    BY <1>2 DEF vars, db
  <2>2. \A c : Ended(c)' <=> Ended(c)
    BY <2>1 DEF Ended
  <2>3. \A x : Keeping(x)' <=> Keeping(x)
    BY <2>1, <2>2 DEF Keeping
  <2>4. \A x, v : Fair(x, v)' <=> Fair(x, v)
    BY <2>1, <2>2 DEF Fair
  <2>5. \A x, y, v : FairTwo(x, y, v)' <=> FairTwo(x, y, v)
    BY <2>1, <2>2 DEF FairTwo
  <2>6. Kept' /\ MadeOnce' /\ Blank' /\ Stocked'
    BY <2>1, <2>3 DEF AskedInv, Kept, MadeOnce, Blank, Stocked
  <2>7. Offers' /\ OffersTwo'
    BY <2>1, <2>4, <2>5 DEF AskedInv, Offers, OffersTwo
  <2> QED
    BY <1>1, <2>6, <2>7 DEF AskedInv
<1>3. ASSUME NEW t \in Txns, Begin(t) PROVE AskedInv'
  BY <1>1, <1>3, BeginAsked
<1>4. ASSUME NEW t \in Txns, Run(t) PROVE AskedInv'
  <2>1. ASSUME NEW c \in CartIds, InsertCart(t, c) PROVE AskedInv'
    BY <1>1, <2>1, InsertAsked
  <2>2. CASE LoseRace(t)
    BY <1>1, <2>2, LostAsked
  <2>3. CASE Reread(t)
    BY <1>1, <2>3, RereadAsked
  <2>4. CASE CommitCart(t)
    BY <1>1, <2>4, CommitCartAsked
  <2>5. CASE ReadCart(t)
    BY <1>1, <2>5, ReadCartAsked
  <2>6. CASE CartGone(t)
    BY <1>1, <2>6, FailAsked DEF CartGone, Fail, Step
  <2>7. CASE FindItem(t)
    BY <1>1, <2>7, FindItemAsked
  <2>8. ASSUME NEW v \in Variants, InsertItem(t, v) PROVE AskedInv'
    BY <1>1, <2>8, InsertItemAsked
  <2>9. ASSUME NEW v \in Variants, SelectItem(t, v) PROVE AskedInv'
    BY <1>1, <2>9, SelectAsked
  <2>10. CASE UpdateItem(t)
    BY <1>1, <2>10, UpdateItemAsked
  <2>11. CASE DeleteItem(t)
    BY <1>1, <2>11, DeleteItemAsked
  <2>12. CASE ReadGuest(t)
    BY <1>1, <2>12, GuestAsked
  <2>13. CASE CompareCart(t)
    BY <1>1, <2>13, CompareAsked
  <2>14. CASE UpdateCart(t)
    BY <1>1, <2>14, UpdateCartAsked
  <2>15. CASE Commit(t)
    BY <1>1, <2>15, CommitAsked
  <2> QED
    BY <1>4, <2>1, <2>2, <2>3, <2>4, <2>5, <2>6, <2>7, <2>8, <2>9, <2>10, <2>11, <2>12,
       <2>13, <2>14, <2>15 DEF Run
<1>5. ASSUME NEW t \in Txns, Abort(t) PROVE AskedInv'
  BY <1>1, <1>5, FailAsked DEF Abort, db
<1> QED
  BY <1>2, <1>3, <1>4, <1>5 DEF Next

\* One customer and one session have two active carts at most.
LEMMA TwoCarts ==
  ASSUME CartInv, OneOfEach, NEW b \in CartIds, NEW c \in CartIds, NEW d \in CartIds,
         status[b] = "active", status[c] = "active", status[d] = "active", b # c
  PROVE  d = b \/ d = c
<1>1. owner[b] \in Owners /\ owner[c] \in Owners /\ owner[d] \in Owners
  BY DEF CartInv, TypeOK
<1>2. owner[b] # owner[c]
  BY DEF CartInv, OneActiveCart
<1>3. owner[d] = owner[b] \/ owner[d] = owner[c]
  BY <1>1, <1>2 DEF OneOfEach, Owners
<1> QED
  BY <1>3 DEF CartInv, OneActiveCart

LEMMA StockedCounts == ASSUME AskedInv, OneOfEach PROVE NothingInvented
<1> SUFFICES ASSUME NEW v \in Variants
             PROVE  Units(v, { c \in CartIds : status[c] = "active" }) <= asked[v]
  BY DEF NothingInvented
<1> DEFINE f == [c \in CartIds |-> items[c][v].qty]
           S == { c \in CartIds : status[c] = "active" }
<1>1. Units(v, S) = SumFunctionOnSet(f, S)
  BY DEF Units
<1>2. /\ \A c \in CartIds : f[c] \in Int
      /\ asked[v] \in Nat
      /\ \A c \in S : c \in CartIds /\ f[c] <= asked[v]
      /\ \A c, d \in S : c # d => f[c] + f[d] <= asked[v]
  BY AskedTypes DEF AskedInv, Stocked
<1>3. \A b, c, d \in S : b # c => d = b \/ d = c
  BY TwoCarts DEF AskedInv
<1> HIDE DEF f, S
<1>4. SumFunctionOnSet(f, {}) = 0
  BY SumEmpty
<1>5. ASSUME NEW c \in S PROVE SumFunctionOnSet(f, {c}) = f[c]
  <2>1. IsFiniteSet({c}) /\ {c} \ {c} = {}
    BY FS_Singleton
  <2>2. (\A x \in {c} : f[x] \in Int) /\ c \in {c}
    BY <1>2
  <2>3. SumFunctionOnSet(f, {c}) = f[c] + SumFunctionOnSet(f, {c} \ {c})
    BY <2>1, <2>2, SumRemove
  <2>4. SumFunctionOnSet(f, {c}) = f[c] + 0
    BY <1>4, <2>1, <2>3, Zenon
  <2> QED
    BY <1>2, <2>4
<1>6. ASSUME NEW c \in S, NEW d \in S, c # d PROVE SumFunctionOnSet(f, {c, d}) = f[c] + f[d]
  <2>1. IsFiniteSet({c, d}) /\ {c, d} \ {c} = {d}
    <3>1. IsFiniteSet({c} \cup {d})
      BY FS_Singleton, FS_Union
    <3>2. {c} \cup {d} = {c, d} /\ {c, d} \ {c} = {d}
      BY <1>6
    <3> QED
      BY <3>1, <3>2, Zenon
  <2>2. (\A x \in {c, d} : f[x] \in Int) /\ c \in {c, d}
    BY <1>2
  <2>3. SumFunctionOnSet(f, {c, d}) = f[c] + SumFunctionOnSet(f, {c, d} \ {c})
    BY <2>1, <2>2, SumRemove
  <2>4. SumFunctionOnSet(f, {d}) = f[d]
    BY <1>5
  <2> QED
    BY <2>1, <2>3, <2>4, Zenon
<1>7. SumFunctionOnSet(f, S) <= asked[v]
  <2>1. CASE S = {}
    <3>1. SumFunctionOnSet(f, S) = 0
      BY <1>4, <2>1, Zenon
    <3> QED
      BY <1>2, <3>1
  <2>2. ASSUME NEW c \in S, S = {c} PROVE SumFunctionOnSet(f, S) <= asked[v]
    <3>1. SumFunctionOnSet(f, S) = f[c]
      BY <1>5, <2>2, Zenon
    <3> QED
      BY <1>2, <3>1
  <2>3. ASSUME NEW c \in S, NEW d \in S, c # d PROVE SumFunctionOnSet(f, S) <= asked[v]
    <3>1. S = {c, d}
      BY <1>3, <2>3
    <3>2. SumFunctionOnSet(f, S) = f[c] + f[d]
      BY <1>6, <2>3, <3>1, Zenon
    <3> QED
      BY <1>2, <2>3, <3>2
  <2> QED
    BY <2>1, <2>2, <2>3
<1> QED
  BY <1>1, <1>7 DEF S

(* With one customer and one session, whatever their requests on any number  *)
(* of connections race for, and however often they are repeated, lost or     *)
(* merged, the active carts hold no more of an item than committed requests  *)
(* asked for (addItem, applyItemQty, mergeCart, findOrCreateCart).           *)
THEOREM NoUnitInvented == OneOfEach => (Spec => []NothingInvented)
<1> SUFFICES ASSUME OneOfEach PROVE Spec => []NothingInvented
  OBVIOUS
<1>1. Init => AskedInv
  BY InitAsked
<1>2. AskedInv /\ [Next]_vars => AskedInv'
  BY NextAsked
<1>3. AskedInv => NothingInvented
  BY StockedCounts
<1> QED
  BY <1>1, <1>2, <1>3, PTL DEF Spec

--------------------------------------------------------------------------------
(* One connection: what a request does to the carts is one step of CartBags. *)

OneConnection == \A t, u \in Txns : t = u

\* A row of cart_items, if there is one, has an id and at least one unit.
Proper(i) == i = Absent \/ (i.id > 0 /\ i.qty > 0)

Clean == \A c \in CartIds : /\ status[c] = "none" => items[c] = NoItems
                            /\ \A v \in Variants : Proper(items[c][v])

\* What a request asks for, and what one has not done yet.
Asks(r) == /\ r.n > 0
           /\ r.op = "merge" => r.who \in Customers /\ r.sess \in Sessions
           /\ r.op \in {"add", "set"} => r.q \in Quantities
           /\ r.op = "add" => r.q > 0
Untouched(r) == r.locked = {} /\ r.mark = "none" /\ r.gone = {}

\* The cart of a request: the owner's, or one that a merge has inserted.
Own(r)      == ~r.made /\ r.c \in ActiveCarts(r.who)
OwnOrNew(r) == IF r.made THEN status[r.c] = "none" ELSE r.c \in ActiveCarts(r.who)

Adding(r)  == r.op = "add" /\ Own(r)
Setting(r) == r.op = "set" /\ Own(r) /\ items[r.c][r.v] # Absent
Ordering(r) == r.op = "checkout" /\ Own(r) /\ r.g = r.c /\ Lines(r.c) # {} /\ r.locked = {}

Total(r, v) == items[r.c][v].qty + items[r.g][v].qty

\* A merge that has saved the guest's lines except those of the variants in S.
Merging(r, S) ==
  /\ r.op = "merge" /\ OwnOrNew(r) /\ r.g \in ActiveCarts(r.sess) /\ Lines(r.g) # {}
  /\ S \subseteq Lines(r.g) /\ r.locked = Lines(r.g) \ S
  /\ \A v \in S : r.goal[v].id = items[r.c][v].id /\ r.goal[v].qty = Total(r, v)
  /\ \A v \in r.locked : r.wrote[v].id > 0 /\ r.wrote[v].qty = Total(r, v)

One(r, q) == /\ r.locked = {} /\ r.todo = {r.v}
             /\ r.goal[r.v].id = items[r.c][r.v].id /\ r.goal[r.v].qty = q

Saving(r) ==
  /\ r.gone = {} /\ r.mark = "none" /\ r.todo # {}
  /\ \/ Adding(r) /\ One(r, items[r.c][r.v].qty + r.q)
     \/ Setting(r) /\ One(r, r.q) /\ r.q > 0
     \/ Merging(r, r.todo)

Added(r) == /\ Adding(r) /\ r.locked = {r.v} /\ r.wrote[r.v].id > 0
            /\ r.wrote[r.v].qty = items[r.c][r.v].qty + r.q
SetTo(r) == /\ Setting(r)
            /\ \/ r.locked = {} /\ items[r.c][r.v].qty = r.q
               \/ r.locked = {r.v} /\ r.wrote[r.v].qty = r.q /\ Proper(r.wrote[r.v])
NoGuest(r) == /\ r.op = "merge" /\ OwnOrNew(r) /\ r.locked = {}
              /\ \A g \in ActiveCarts(r.sess) : Lines(g) = {}

Done(r) == \/ (Added(r) \/ SetTo(r) \/ NoGuest(r)) /\ r.mark = "none"
           \/ Merging(r, {}) /\ r.mark = "abandoned"
           \/ Ordering(r) /\ r.mark = "converted"

\* The statement that comes next and what the ones before it have done.
Stage(r) ==
  \/ r.pc = "idle"
  \/ /\ Asks(r)
     /\ \/ /\ r.pc \in {"insert", "reread"} /\ r.op \in {"get", "add", "merge"}
           /\ Untouched(r) /\ ~r.made /\ r.seen = NoItems
        \/ r.pc = "made" /\ r.op \in {"get", "add"} /\ Untouched(r) /\ status[r.c] = "none"
        \/ r.pc = "read" /\ Adding(r) /\ Untouched(r)
        \/ /\ r.pc \in {"item", "delete"} /\ Setting(r) /\ Untouched(r)
           /\ r.id = items[r.c][r.v].id /\ (r.pc = "delete" => r.q = 0)
        \/ r.pc = "guest" /\ r.op = "merge" /\ OwnOrNew(r) /\ Untouched(r) /\ r.seen = items[r.c]
        \/ r.pc = "save" /\ Saving(r)
        \/ r.pc = "update" /\ Saving(r) /\ r.v \in r.todo /\ r.goal[r.v].id > 0
        \/ r.pc \in {"mark", "marking"} /\ (Merging(r, {}) \/ Ordering(r)) /\ r.mark = "none"
        \/ r.pc = "commit" /\ Done(r)

Stages == \A t \in Txns, r \in Request : tx[t] = r => Stage(r)

SerialInv == CartInv /\ Clean /\ Stages

--------------------------------------------------------------------------------
LEMMA StageSame == ASSUME NEW r, UNCHANGED db PROVE Stage(r)' <=> Stage(r)
<1>1. status' = status /\ items' = items /\ \A w : ActiveCarts(w)' = ActiveCarts(w)
  BY DEF db, ActiveCarts
<1>2. \A c : Lines(c)' = Lines(c)
  BY <1>1 DEF Lines
<1>3. (Own(r)' <=> Own(r)) /\ (OwnOrNew(r)' <=> OwnOrNew(r))
  BY <1>1 DEF Own, OwnOrNew
<1>4. /\ Adding(r)' <=> Adding(r)
      /\ Setting(r)' <=> Setting(r)
      /\ Ordering(r)' <=> Ordering(r)
  BY <1>1, <1>2, <1>3 DEF Adding, Setting, Ordering
<1>5. \A S : Merging(r, S)' <=> Merging(r, S)
  BY <1>1, <1>2, <1>3 DEF Merging, Total
<1>6. \A q : One(r, q)' <=> One(r, q)
  BY <1>1 DEF One
<1>7. Saving(r)' <=> Saving(r)
  BY <1>1, <1>4, <1>5, <1>6 DEF Saving
<1>8. Done(r)' <=> Done(r)
  <2>1. Added(r)' <=> Added(r)
    BY <1>1, <1>4 DEF Added
  <2>2. SetTo(r)' <=> SetTo(r)
    BY <1>1, <1>4 DEF SetTo, Proper
  <2>3. NoGuest(r)' <=> NoGuest(r)
    BY <1>1, <1>2, <1>3 DEF NoGuest
  <2> QED
    BY <1>4, <1>5, <2>1, <2>2, <2>3 DEF Done
<1> QED
  BY <1>1, <1>3, <1>4, <1>5, <1>7, <1>8 DEF Stage, Asks, Untouched

LEMMA Goes ==
  ASSUME OneConnection, SerialInv, CartInv', NEW t \in Txns, NEW r, Stage(r),
         tx' = [tx EXCEPT ![t] = r], UNCHANGED db
  PROVE  SerialInv'
<1>1. Clean'
  BY DEF SerialInv, Clean, db
<1>2. ASSUME NEW u \in Txns, NEW x, tx'[u] = x PROVE Stage(x)'
  <2>1. x = r
    BY <1>2 DEF OneConnection, SerialInv, CartInv, TypeOK
  <2> QED
    BY <2>1, StageSame
<1> QED
  BY <1>1, <1>2 DEF SerialInv, Stages

--------------------------------------------------------------------------------
(* The steps that commit nothing.                                          *)

LEMMA HereStage == ASSUME SerialInv, NEW t \in Txns PROVE tx[t] \in Request /\ Stage(tx[t])
BY DEF SerialInv, Stages, CartInv, TypeOK

LEMMA FailStays ==
  ASSUME OneConnection, SerialInv, CartInv', NEW t \in Txns, tx' = [tx EXCEPT ![t] = Idle], UNCHANGED db
  PROVE  SerialInv'
<1>1. Stage(Idle)
  BY IdleType DEF Stage
<1> QED
  BY <1>1, Goes

LEMMA ArriveStays ==
  ASSUME OneConnection, SerialInv, CartInv', NEW t \in Txns, NEW r \in Request, Arrive(t, r),
         \A n \in Nat : n > 0 => Stage([r EXCEPT !.n = n])
  PROVE  SerialInv'
<1>1. served + 1 \in Nat /\ served + 1 > 0
  BY DEF SerialInv, CartInv, TypeOK
<1>2. Stage([r EXCEPT !.n = served + 1])
  BY <1>1
<1>3. tx' = [tx EXCEPT ![t] = [r EXCEPT !.n = served + 1]] /\ UNCHANGED db
  BY DEF Arrive, db
<1> QED
  BY <1>2, <1>3, Goes

\* A request that has found the cart c.
LEMMA FoundStage ==
  ASSUME SerialInv, NEW r \in Request, NEW c \in ActiveCarts(r.who), Asks(r), Untouched(r), ~r.made
  PROVE  Stage(Found(r, c))
<1>1. c \in CartIds
  BY DEF ActiveCarts
<1>2. CASE r.op = "add"
  <2> DEFINE s == [r EXCEPT !.c = c, !.pc = "read"]
  <2>1. Found(r, c) = s
    BY <1>2 DEF Found
  <2>2. /\ s.pc = "read" /\ s.op = r.op /\ s.c = c /\ s.who = r.who /\ s.made = r.made
        /\ s.n = r.n /\ s.q = r.q /\ s.sess = r.sess
        /\ s.locked = r.locked /\ s.mark = r.mark /\ s.gone = r.gone
    BY DEF Request
  <2> HIDE DEF s
  <2>3. Adding(s) /\ Untouched(s) /\ Asks(s)
    BY <1>2, <2>2 DEF Adding, Own, Untouched, Asks
  <2> QED
    BY <2>1, <2>2, <2>3 DEF Stage
<1>3. CASE r.op = "merge"
  <2> DEFINE s == [r EXCEPT !.c = c, !.seen = items[c], !.pc = "guest"]
  <2>1. Found(r, c) = s
    BY <1>3 DEF Found
  <2>2. /\ s.pc = "guest" /\ s.op = r.op /\ s.c = c /\ s.who = r.who /\ s.made = r.made
        /\ s.n = r.n /\ s.q = r.q /\ s.sess = r.sess /\ s.seen = items[c]
        /\ s.locked = r.locked /\ s.mark = r.mark /\ s.gone = r.gone
    BY DEF Request
  <2> HIDE DEF s
  <2>3. OwnOrNew(s) /\ Untouched(s) /\ Asks(s)
    BY <1>3, <2>2 DEF OwnOrNew, Untouched, Asks
  <2> QED
    BY <1>3, <2>1, <2>2, <2>3 DEF Stage
<1>4. CASE r.op \notin {"add", "merge"}
  BY <1>4, IdleType DEF Found, Stage
<1> QED
  BY <1>2, <1>3, <1>4

LEMMA FindOrCreateStays ==
  ASSUME OneConnection, SerialInv, CartInv', NEW t \in Txns, NEW r \in Request, FindOrCreate(t, r),
         r.op \in {"get", "add", "merge"}, ~r.made, Untouched(r), r.seen = NoItems,
         r.op = "merge" => r.who \in Customers /\ r.sess \in Sessions,
         r.op = "add" => r.q > 0 /\ r.q \in Quantities
  PROVE  SerialInv'
<1>1. ASSUME NEW n \in Nat, n > 0
      PROVE  LET s == [r EXCEPT !.n = n]
             IN  /\ s \in Request /\ Asks(s) /\ Untouched(s) /\ ~s.made /\ s.who = r.who /\ s.op = r.op
                 /\ s.seen = NoItems
  BY <1>1 DEF Request, Asks, Untouched
<1>2. ASSUME NEW c \in ActiveCarts(r.who), Arrive(t, Found(r, c)) PROVE SerialInv'
  <2>1. c \in CartIds /\ Found(r, c) \in Request
    BY FoundType DEF ActiveCarts, SerialInv, CartInv
  <2>2. ASSUME NEW n \in Nat, n > 0 PROVE Stage([Found(r, c) EXCEPT !.n = n])
    <3> DEFINE s == [r EXCEPT !.n = n]
    <3>1. s \in Request /\ Asks(s) /\ Untouched(s) /\ ~s.made /\ s.who = r.who /\ s.op = r.op
      BY <1>1, <2>2
    <3>2. Stage(Found(s, c))
      BY <3>1, FoundStage
    <3>3. CASE r.op \in {"add", "merge"}
      <4>1. [Found(r, c) EXCEPT !.n = n] = Found(s, c)
        BY <3>1, <3>3 DEF Found, Request
      <4> QED
        BY <3>2, <4>1
    <3>4. CASE r.op \notin {"add", "merge"}
      BY <3>4, IdleType DEF Found, Stage, Request
    <3> QED
      BY <3>3, <3>4
  <2> QED
    BY <1>2, <2>1, <2>2, ArriveStays
<1>3. CASE Arrive(t, [r EXCEPT !.pc = "insert"])
  <2> DEFINE x == [r EXCEPT !.pc = "insert"]
  <2>1. x \in Request
    BY DEF Request
  <2>2. ASSUME NEW n \in Nat, n > 0 PROVE Stage([x EXCEPT !.n = n])
    <3> DEFINE s == [x EXCEPT !.n = n]
    <3>1. /\ s.pc = "insert" /\ s.op = r.op /\ ~s.made /\ s.seen = NoItems
          /\ s.n = n /\ s.who = r.who /\ s.sess = r.sess /\ s.q = r.q
          /\ s.locked = r.locked /\ s.mark = r.mark /\ s.gone = r.gone
      BY DEF Request
    <3>2. Asks(s) /\ Untouched(s)
      BY <2>2, <3>1 DEF Asks, Untouched
    <3> QED
      BY <3>1, <3>2 DEF Stage
  <2> QED
    BY <1>3, <2>1, <2>2, ArriveStays
<1> QED
  BY <1>2, <1>3 DEF FindOrCreate

LEMMA BeginStays ==
  ASSUME OneConnection, SerialInv, CartInv', NEW t \in Txns, Begin(t)
  PROVE  SerialInv'
<1>0. Idle \in Request /\ ~Idle.made /\ Idle.pc = "idle" /\ Untouched(Idle) /\ Idle.seen = NoItems
  BY IdleType DEF Idle, Untouched
<1>1. ASSUME NEW w \in Owners, BeginGet(t, w) PROVE SerialInv'
  <2> DEFINE r == [Idle EXCEPT !.op = "get", !.who = w]
  <2>1. r \in Request /\ r.op = "get" /\ ~r.made /\ Untouched(r) /\ r.seen = NoItems
    BY <1>0 DEF Request, AllOps, Untouched
  <2>2. FindOrCreate(t, r)
    BY <1>1 DEF BeginGet
  <2> QED
    BY <2>1, <2>2, FindOrCreateStays
<1>2. ASSUME NEW w \in Owners, NEW v \in Variants, NEW q \in Quantities, BeginAdd(t, w, v, q)
      PROVE  SerialInv'
  <2> DEFINE r == [Idle EXCEPT !.op = "add", !.who = w, !.v = v, !.q = q]
  <2>1. r \in Request /\ r.op = "add" /\ ~r.made /\ Untouched(r) /\ r.seen = NoItems /\ r.q = q
    BY <1>0, InputsAssumption DEF Request, AllOps, Untouched
  <2>2. FindOrCreate(t, r) /\ q > 0
    BY <1>2 DEF BeginAdd
  <2> QED
    BY <2>1, <2>2, FindOrCreateStays
<1>3. ASSUME NEW w \in Customers, NEW s \in Sessions, BeginMerge(t, w, s) PROVE SerialInv'
  <2> DEFINE r == [Idle EXCEPT !.op = "merge", !.who = w, !.sess = s]
  <2>1. /\ r \in Request /\ r.op = "merge" /\ ~r.made /\ Untouched(r) /\ r.seen = NoItems
        /\ r.who = w /\ r.sess = s
    BY <1>0 DEF Request, AllOps, Untouched, Owners
  <2>2. FindOrCreate(t, r)
    BY <1>3 DEF BeginMerge
  <2> QED
    BY <2>1, <2>2, FindOrCreateStays
<1>4. ASSUME NEW w \in Owners, NEW v \in Variants, NEW q \in Quantities, BeginSet(t, w, v, q)
      PROVE  SerialInv'
  <2>1. PICK c \in ActiveCarts(w) :
          /\ items[c][v] # Absent
          /\ Arrive(t, [Idle EXCEPT !.op = "set", !.who = w, !.c = c, !.v = v, !.q = q,
                                    !.id = items[c][v].id, !.pc = "item"])
    BY <1>4 DEF BeginSet
  <2> DEFINE r == [Idle EXCEPT !.op = "set", !.who = w, !.c = c, !.v = v, !.q = q,
                               !.id = items[c][v].id, !.pc = "item"]
  <2>2. c \in CartIds /\ items[c][v].id \in Nat
    BY DEF SerialInv, CartInv, TypeOK, Item, ActiveCarts
  <2>3. r \in Request
    BY <1>0, <2>2, InputsAssumption DEF Request, AllOps
  <2>4. ASSUME NEW n \in Nat, n > 0 PROVE Stage([r EXCEPT !.n = n])
    <3> DEFINE s == [r EXCEPT !.n = n]
    <3>1. /\ s.pc = "item" /\ s.op = "set" /\ ~s.made /\ s.n = n /\ s.who = w /\ s.c = c
          /\ s.v = v /\ s.q = q /\ s.id = items[c][v].id
          /\ s.locked = Idle.locked /\ s.mark = Idle.mark /\ s.gone = Idle.gone
      BY <1>0 DEF Request
    <3>2. Asks(s) /\ Untouched(s) /\ Setting(s)
      BY <1>0, <2>1, <2>4, <3>1 DEF Asks, Untouched, Setting, Own
    <3> QED
      BY <3>1, <3>2 DEF Stage
  <2> QED
    BY <2>1, <2>3, <2>4, ArriveStays
<1>5. ASSUME NEW w \in Owners, BeginCheckout(t, w) PROVE SerialInv'
  <2>1. PICK c \in ActiveCarts(w) :
          /\ Lines(c) # {}
          /\ Arrive(t, [Idle EXCEPT !.op = "checkout", !.who = w, !.c = c, !.g = c,
                                    !.lines = items[c], !.pc = "mark"])
    BY <1>5 DEF BeginCheckout
  <2> DEFINE r == [Idle EXCEPT !.op = "checkout", !.who = w, !.c = c, !.g = c,
                               !.lines = items[c], !.pc = "mark"]
  <2>2. c \in CartIds /\ items[c] \in [Variants -> Item]
    BY DEF SerialInv, CartInv, TypeOK, ActiveCarts
  <2>3. r \in Request
    BY <1>0, <2>2 DEF Request, AllOps
  <2>4. ASSUME NEW n \in Nat, n > 0 PROVE Stage([r EXCEPT !.n = n])
    <3> DEFINE s == [r EXCEPT !.n = n]
    <3>1. /\ s.pc = "mark" /\ s.op = "checkout" /\ ~s.made /\ s.n = n /\ s.who = w /\ s.c = c
          /\ s.g = c /\ s.locked = Idle.locked /\ s.mark = Idle.mark
      BY <1>0 DEF Request
    <3>2. Asks(s) /\ Ordering(s) /\ s.mark = "none"
      BY <1>0, <2>1, <2>4, <3>1 DEF Asks, Ordering, Own, Untouched
    <3> QED
      BY <3>1, <3>2 DEF Stage
  <2> QED
    BY <2>1, <2>3, <2>4, ArriveStays
<1> QED
  BY <1>1, <1>2, <1>3, <1>4, <1>5 DEF Begin

\* The record x, about to do something else next.
LEMMA Carried ==
  ASSUME NEW x \in Request, NEW y, y.n = x.n, y.op = x.op, y.who = x.who, y.sess = x.sess, y.q = x.q,
         Asks(x)
  PROVE  Asks(y)
BY DEF Asks

LEMMA OpenStays ==
  ASSUME OneConnection, SerialInv, CartInv', NEW t \in Txns,
         (\E c \in CartIds : InsertCart(t, c)) \/ LoseRace(t) \/ Reread(t)
  PROVE  SerialInv'
<1> DEFINE x == tx[t]
<1>1. x \in Request /\ Stage(x) /\ x.pc \in {"insert", "reread"}
  BY HereStage DEF InsertCart, LoseRace, Reread
<1>2. /\ Asks(x) /\ x.op \in {"get", "add", "merge"} /\ Untouched(x) /\ ~x.made /\ x.seen = NoItems
  BY <1>1 DEF Stage
<1> HIDE DEF x
<1>3. ASSUME NEW c \in CartIds, InsertCart(t, c) PROVE SerialInv'
  <2> DEFINE s == [x EXCEPT !.c = c, !.made = TRUE]
             r == [s EXCEPT !.pc = IF s.op = "merge" THEN "guest" ELSE "made"]
  <2>1. /\ r.pc = (IF x.op = "merge" THEN "guest" ELSE "made") /\ r.op = x.op /\ r.c = c /\ r.made
        /\ r.n = x.n /\ r.who = x.who /\ r.sess = x.sess /\ r.q = x.q /\ r.seen = NoItems
        /\ r.locked = x.locked /\ r.mark = x.mark /\ r.gone = x.gone
    BY <1>1, <1>2 DEF Request
  <2>2. status[c] = "none" /\ items[c] = NoItems
    BY <1>3 DEF InsertCart, SerialInv, Clean
  <2>3. tx' = [tx EXCEPT ![t] = r] /\ UNCHANGED db
    BY <1>3 DEF InsertCart, Step, x
  <2> HIDE DEF r
  <2>4. Asks(r) /\ Untouched(r) /\ OwnOrNew(r)
    BY <1>1, <1>2, <2>1, <2>2, Carried DEF Untouched, OwnOrNew
  <2>5. Stage(r)
    BY <1>2, <2>1, <2>2, <2>4 DEF Stage
  <2> QED
    BY <2>3, <2>5, Goes
<1>4. CASE LoseRace(t)
  <2> DEFINE r == [x EXCEPT !.pc = "reread"]
  <2>1. /\ r.pc = "reread" /\ r.op = x.op /\ r.made = x.made
        /\ r.n = x.n /\ r.who = x.who /\ r.sess = x.sess /\ r.q = x.q /\ r.seen = NoItems
        /\ r.locked = x.locked /\ r.mark = x.mark /\ r.gone = x.gone
    BY <1>1, <1>2 DEF Request
  <2>2. tx' = [tx EXCEPT ![t] = r] /\ UNCHANGED db
    BY <1>4 DEF LoseRace, Step, x
  <2> HIDE DEF r
  <2>3. Asks(r) /\ Untouched(r)
    BY <1>1, <1>2, <2>1, Carried DEF Untouched
  <2>4. Stage(r)
    BY <1>2, <2>1, <2>3 DEF Stage
  <2> QED
    BY <2>2, <2>4, Goes
<1>5. CASE Reread(t)
  <2>1. CASE Fail(t)
    BY <2>1, FailStays DEF Fail, Step
  <2>2. ASSUME NEW c \in ActiveCarts(x.who), Step(t, Found(x, c)) PROVE SerialInv'
    <3>1. Stage(Found(x, c))
      BY <1>1, <1>2, FoundStage
    <3> QED
      BY <2>2, <3>1, Goes DEF Step
  <2> QED
    BY <1>5, <2>1, <2>2 DEF Reread, x
<1> QED
  BY <1>3, <1>4, <1>5

LEMMA ReadCartStays ==
  ASSUME OneConnection, SerialInv, CartInv', NEW t \in Txns, ReadCart(t)
  PROVE  SerialInv'
<1> DEFINE x == tx[t]
           seen == items[x.c]
           r == [x EXCEPT !.seen = seen, !.goal[x.v] = Plus(seen[x.v], x.q), !.todo = {x.v}, !.pc = "save"]
<1>1. x \in Request /\ Stage(x) /\ x.pc = "read"
  BY HereStage DEF ReadCart
<1>2. Asks(x) /\ Adding(x) /\ Untouched(x)
  BY <1>1 DEF Stage
<1>3. tx' = [tx EXCEPT ![t] = r] /\ UNCHANGED db
  BY DEF ReadCart, Step
<1>4. x.c \in CartIds /\ x.v \in Variants /\ x.q \in Nat /\ items[x.c][x.v] \in Item
  BY <1>1, ItemsType DEF Request, SerialInv
<1> HIDE DEF x
<1>5. /\ r.pc = "save" /\ r.op = x.op /\ r.made = x.made /\ r.c = x.c /\ r.v = x.v
      /\ r.n = x.n /\ r.who = x.who /\ r.sess = x.sess /\ r.q = x.q
      /\ r.locked = x.locked /\ r.mark = x.mark /\ r.gone = x.gone
      /\ r.todo = {x.v} /\ r.goal[x.v] = Plus(items[x.c][x.v], x.q)
  BY <1>1, <1>4 DEF Request
<1> HIDE DEF r
<1>6. Asks(r)
  BY <1>1, <1>2, <1>5, Carried
<1>7. Adding(r)
  BY <1>2, <1>5 DEF Adding, Own
<1>8. One(r, items[r.c][r.v].qty + r.q)
  BY <1>2, <1>4, <1>5 DEF One, Plus, Item, Untouched
<1>9. Saving(r)
  BY <1>2, <1>5, <1>7, <1>8 DEF Saving, Untouched
<1> QED
  BY <1>3, <1>5, <1>6, <1>9, Goes DEF Stage

LEMMA FindItemStays ==
  ASSUME OneConnection, SerialInv, CartInv', NEW t \in Txns, FindItem(t)
  PROVE  SerialInv'
<1> DEFINE x == tx[t]
<1>1. x \in Request /\ Stage(x) /\ x.pc = "item"
  BY HereStage DEF FindItem
<1>2. Asks(x) /\ Setting(x) /\ Untouched(x) /\ x.id = items[x.c][x.v].id
  BY <1>1 DEF Stage
<1>3. \/ Fail(t)
      \/ x.q = 0 /\ Step(t, [x EXCEPT !.pc = "delete"])
      \/ x.q > 0 /\ Step(t, [x EXCEPT !.goal[x.v] = [id |-> x.id, qty |-> x.q],
                                      !.todo = {x.v}, !.pc = "save"])
  BY DEF FindItem
<1> HIDE DEF x
<1>4. CASE Fail(t)
  BY <1>4, FailStays DEF Fail, Step
<1>5. CASE x.q = 0 /\ Step(t, [x EXCEPT !.pc = "delete"])
  <2> DEFINE r == [x EXCEPT !.pc = "delete"]
  <2>1. /\ r.pc = "delete" /\ r.op = x.op /\ r.made = x.made /\ r.c = x.c /\ r.v = x.v /\ r.id = x.id
        /\ r.n = x.n /\ r.who = x.who /\ r.sess = x.sess /\ r.q = x.q
        /\ r.locked = x.locked /\ r.mark = x.mark /\ r.gone = x.gone
    BY <1>1 DEF Request
  <2>2. tx' = [tx EXCEPT ![t] = r] /\ UNCHANGED db
    BY <1>5 DEF Step
  <2> HIDE DEF r
  <2>3. Asks(r) /\ Setting(r) /\ Untouched(r)
    BY <1>1, <1>2, <2>1, Carried DEF Setting, Own, Untouched
  <2>4. Stage(r)
    BY <1>2, <1>5, <2>1, <2>3 DEF Stage
  <2> QED
    BY <2>2, <2>4, Goes
<1>6. CASE x.q > 0 /\ Step(t, [x EXCEPT !.goal[x.v] = [id |-> x.id, qty |-> x.q],
                                        !.todo = {x.v}, !.pc = "save"])
  <2> DEFINE r == [x EXCEPT !.goal[x.v] = [id |-> x.id, qty |-> x.q], !.todo = {x.v}, !.pc = "save"]
  <2>1. /\ r.pc = "save" /\ r.op = x.op /\ r.made = x.made /\ r.c = x.c /\ r.v = x.v /\ r.id = x.id
        /\ r.n = x.n /\ r.who = x.who /\ r.sess = x.sess /\ r.q = x.q
        /\ r.locked = x.locked /\ r.mark = x.mark /\ r.gone = x.gone
        /\ r.todo = {x.v} /\ r.goal[x.v] = [id |-> x.id, qty |-> x.q]
    BY <1>1 DEF Request
  <2>2. tx' = [tx EXCEPT ![t] = r] /\ UNCHANGED db
    BY <1>6 DEF Step
  <2> HIDE DEF r
  <2>3. Asks(r) /\ Setting(r)
    BY <1>1, <1>2, <2>1, Carried DEF Setting, Own
  <2>4. One(r, r.q)
    BY <1>2, <2>1 DEF One, Untouched
  <2>5. Saving(r)
    BY <1>2, <1>6, <2>1, <2>3, <2>4 DEF Saving, Untouched
  <2> QED
    BY <2>1, <2>2, <2>3, <2>5, Goes DEF Stage
<1> QED
  BY <1>3, <1>4, <1>5, <1>6

\* One more item is saved: as i, or as it is already.
LEMMA WriteStage ==
  ASSUME SerialInv, NEW x \in Request, Asks(x), Saving(x), NEW v \in x.todo,
         NEW i \in Item, i.id > 0, i.qty = x.goal[v].qty
  PROVE  Stage(Write(x, v, i))
<1> DEFINE r == Write(x, v, i)
<1>0. v \in Variants
  BY DEF Request
<1>1. /\ r.op = x.op /\ r.made = x.made /\ r.c = x.c /\ r.v = x.v /\ r.g = x.g
      /\ r.n = x.n /\ r.who = x.who /\ r.sess = x.sess /\ r.q = x.q
      /\ r.mark = x.mark /\ r.gone = x.gone /\ r.goal = x.goal
      /\ r.todo = x.todo \ {v} /\ r.locked = x.locked \cup {v}
      /\ x.todo # {v} => r.pc = "save"
      /\ x.todo = {v} => r.pc = (IF x.op = "merge" THEN "mark" ELSE "commit")
      /\ r.wrote = [x.wrote EXCEPT ![v] = i]
  <2> DEFINE p == IF x.todo # {v} THEN "save" ELSE IF x.op = "merge" THEN "mark" ELSE "commit"
  <2>1. /\ x.todo # {v} => p = "save"
        /\ x.todo = {v} => p = (IF x.op = "merge" THEN "mark" ELSE "commit")
    OBVIOUS
  <2>2. r = [[x EXCEPT !.todo = @ \ {v}, !.pc = p] EXCEPT !.locked = @ \cup {v}, !.wrote[v] = i]
    BY DEF Write, Saved
  <2> HIDE DEF p
  <2> QED
    BY <2>1, <2>2 DEF Request
<1>2. r.wrote[v] = i /\ \A u \in Variants : u # v => r.wrote[u] = x.wrote[u]
  BY <1>0, <1>1 DEF Request
<1> SUFFICES Stage(r)
  OBVIOUS
<1> HIDE DEF r
<1>3. Asks(r) /\ x.mark = "none" /\ r.mark = "none" /\ r.gone = {}
  BY <1>1, Carried DEF Saving
<1>4. CASE Adding(x) /\ One(x, items[x.c][x.v].qty + x.q)
  <2>1. x.todo = {v} /\ x.v = v /\ x.op = "add"
    BY <1>4 DEF One, Adding
  <2>2. r.pc = "commit" /\ Adding(r)
    BY <1>1, <1>4, <2>1 DEF Adding, Own
  <2>3. Added(r)
    BY <1>1, <1>2, <1>4, <2>1, <2>2 DEF Added, One
  <2> QED
    BY <1>3, <2>2, <2>3 DEF Stage, Done
<1>5. CASE Setting(x) /\ One(x, x.q) /\ x.q > 0
  <2>1. x.todo = {v} /\ x.v = v /\ x.op = "set"
    BY <1>5 DEF One, Setting
  <2>2. r.pc = "commit" /\ Setting(r)
    BY <1>1, <1>5, <2>1 DEF Setting, Own
  <2>3. SetTo(r)
    BY <1>1, <1>2, <1>5, <2>1, <2>2 DEF SetTo, One, Proper
  <2> QED
    BY <1>3, <2>2, <2>3 DEF Stage, Done
<1>6. CASE Merging(x, x.todo)
  <2>1. Merging(r, r.todo)
    <3>1. r.op = "merge" /\ OwnOrNew(r) /\ r.g \in ActiveCarts(r.sess) /\ Lines(r.g) # {}
      BY <1>1, <1>6 DEF Merging, OwnOrNew
    <3>2. r.todo \subseteq Lines(r.g) /\ r.locked = Lines(r.g) \ r.todo
      BY <1>1, <1>6 DEF Merging
    <3>3. \A u \in r.todo : r.goal[u].id = items[r.c][u].id /\ r.goal[u].qty = Total(r, u)
      BY <1>1, <1>6 DEF Merging, Total
    <3>4. \A u \in r.locked : r.wrote[u].id > 0 /\ r.wrote[u].qty = Total(r, u)
      <4>1. ASSUME NEW u \in r.locked, u # v PROVE r.wrote[u].id > 0 /\ r.wrote[u].qty = Total(r, u)
        <5>1. u \in x.locked /\ u \in Variants
          BY <1>1, <4>1 DEF Request
        <5> QED
          BY <1>1, <1>2, <1>6, <4>1, <5>1 DEF Merging, Total
      <4>2. r.wrote[v].id > 0 /\ r.wrote[v].qty = Total(r, v)
        BY <1>1, <1>2, <1>6 DEF Merging, Total
      <4> QED
        BY <4>1, <4>2
    <3> QED
      BY <3>1, <3>2, <3>3, <3>4 DEF Merging
  <2>2. CASE x.todo # {v}
    <3>0. PICK u \in x.todo : u # v
      BY <2>2
    <3>1. r.pc = "save" /\ r.todo # {}
      BY <1>1, <2>2, <3>0
    <3>2. Saving(r)
      BY <1>3, <2>1, <3>1 DEF Saving
    <3> QED
      BY <1>3, <3>1, <3>2 DEF Stage
  <2>3. CASE x.todo = {v}
    <3>1. r.pc = "mark" /\ r.todo = {}
      BY <1>1, <1>6, <2>3 DEF Merging
    <3> QED
      BY <1>3, <2>1, <3>1 DEF Stage
  <2> QED
    BY <2>2, <2>3
<1> QED
  BY <1>4, <1>5, <1>6 DEF Saving

LEMMA ProperItem ==
  ASSUME SerialInv, NEW c \in CartIds, NEW v \in Variants
  PROVE  /\ items[c][v] \in Item
         /\ items[c][v] = Absent \/ (items[c][v].id > 0 /\ items[c][v].qty > 0)
BY ItemsType DEF SerialInv, Clean, Proper

\* What has yet to be saved is a known item with another quantity, or a new one.
LEMMA GoalDiffers ==
  ASSUME SerialInv, NEW x \in Request, Asks(x), Saving(x), NEW v \in x.todo
  PROVE  /\ v \in Variants /\ x.c \in CartIds /\ x.goal[v] \in Item
         /\ x.goal[v].id = items[x.c][v].id
         /\ x.goal[v].qty > 0
         /\ items[x.c][v] = x.goal[v] => x.op = "set" /\ x.todo = {v} /\ x.v = v /\ Setting(x)
                                         /\ x.locked = {} /\ x.q = items[x.c][v].qty
<1>1. v \in Variants /\ x.c \in CartIds /\ x.g \in CartIds /\ x.goal[v] \in Item /\ x.q \in Nat
  BY DEF Request
<1>2. items[x.c][v] \in Item /\ items[x.g][v] \in Item
  BY <1>1, ProperItem
<1>3. CASE Adding(x) /\ One(x, items[x.c][x.v].qty + x.q)
  <2>1. x.q > 0 /\ x.v = v
    BY <1>3 DEF Adding, Asks, One
  <2>2. x.goal[v].id = items[x.c][v].id /\ x.goal[v].qty = items[x.c][v].qty + x.q
    BY <1>3, <2>1 DEF One
  <2> QED
    BY <1>1, <1>2, <2>1, <2>2 DEF Item
<1>4. CASE Setting(x) /\ One(x, x.q) /\ x.q > 0
  BY <1>1, <1>4 DEF One, Setting
<1>5. CASE Merging(x, x.todo)
  <2>1. v \in Lines(x.g)
    BY <1>5 DEF Merging
  <2>2. items[x.g][v].qty > 0
    BY <1>1, <2>1, ProperItem DEF Lines
  <2>3. x.goal[v].id = items[x.c][v].id /\ x.goal[v].qty = items[x.c][v].qty + items[x.g][v].qty
    BY <1>5 DEF Merging, Total
  <2>4. items[x.c][v].qty \in Nat /\ items[x.g][v].qty \in Nat
    BY <1>2 DEF Item
  <2>5. x.goal[v].qty > 0 /\ x.goal[v].qty # items[x.c][v].qty
    BY <2>2, <2>3, <2>4
  <2> QED
    BY <1>1, <2>3, <2>5
<1> QED
  BY <1>3, <1>4, <1>5 DEF Saving

LEMMA SelectItemStays ==
  ASSUME OneConnection, SerialInv, CartInv', NEW t \in Txns, NEW v \in Variants, SelectItem(t, v)
  PROVE  SerialInv'
<1> DEFINE x == tx[t]
<1>1. x \in Request /\ Stage(x) /\ x.pc = "save" /\ v \in x.todo /\ x.goal[v].id # 0
  BY HereStage DEF SelectItem
<1>2. Asks(x) /\ Saving(x)
  BY <1>1 DEF Stage
<1>3. items[x.c][v].id = x.goal[v].id
  BY <1>1, <1>2, GoalDiffers
<1>4. \/ items[x.c][v] = x.goal[v] /\ Step(t, Saved(x, v))
      \/ Step(t, [x EXCEPT !.v = v, !.pc = "update"])
  BY <1>3 DEF SelectItem
<1> HIDE DEF x
<1>5. CASE items[x.c][v] = x.goal[v] /\ Step(t, Saved(x, v))
  <2> DEFINE r == Saved(x, v)
  <2>1. /\ x.op = "set" /\ x.todo = {v} /\ x.v = v /\ Setting(x)
        /\ x.locked = {} /\ x.q = items[x.c][v].qty
    BY <1>1, <1>2, <1>5, GoalDiffers
  <2>2. /\ r.pc = "commit" /\ r.op = x.op /\ r.made = x.made /\ r.c = x.c /\ r.v = x.v
        /\ r.n = x.n /\ r.who = x.who /\ r.sess = x.sess /\ r.q = x.q
        /\ r.locked = x.locked /\ r.mark = x.mark
    BY <1>1, <2>1 DEF Saved, Request
  <2>3. tx' = [tx EXCEPT ![t] = r] /\ UNCHANGED db
    BY <1>5 DEF Step
  <2> HIDE DEF r
  <2>4. Asks(r) /\ Setting(r)
    BY <1>1, <1>2, <2>1, <2>2, Carried DEF Setting, Own
  <2>5. SetTo(r)
    BY <2>1, <2>2, <2>4 DEF SetTo
  <2>6. r.mark = "none"
    BY <1>2, <2>2 DEF Saving
  <2>7. Stage(r)
    BY <2>2, <2>4, <2>5, <2>6 DEF Stage, Done
  <2> QED
    BY <2>3, <2>7, Goes
<1>6. CASE Step(t, [x EXCEPT !.v = v, !.pc = "update"])
  <2> DEFINE r == [x EXCEPT !.v = v, !.pc = "update"]
  <2>1. /\ r.pc = "update" /\ r.op = x.op /\ r.made = x.made /\ r.c = x.c /\ r.v = v /\ r.g = x.g
        /\ r.n = x.n /\ r.who = x.who /\ r.sess = x.sess /\ r.q = x.q
        /\ r.locked = x.locked /\ r.mark = x.mark /\ r.gone = x.gone /\ r.todo = x.todo
        /\ r.goal = x.goal /\ r.wrote = x.wrote
    BY <1>1 DEF Request
  <2>2. tx' = [tx EXCEPT ![t] = r] /\ UNCHANGED db
    BY <1>6 DEF Step
  <2> HIDE DEF r
  <2>3. Asks(r)
    BY <1>1, <1>2, <2>1, Carried
  <2>4. Saving(r)
    <3>1. CASE Adding(x) /\ One(x, items[x.c][x.v].qty + x.q)
      <4>1. x.v = v
        BY <1>1, <3>1 DEF One
      <4>2. Adding(r) /\ One(r, items[r.c][r.v].qty + r.q)
        BY <2>1, <3>1, <4>1 DEF Adding, Own, One
      <4> QED
        BY <1>2, <2>1, <4>2 DEF Saving
    <3>2. CASE Setting(x) /\ One(x, x.q) /\ x.q > 0
      <4>1. x.v = v
        BY <1>1, <3>2 DEF One
      <4>2. Setting(r) /\ One(r, r.q) /\ r.q > 0
        BY <2>1, <3>2, <4>1 DEF Setting, Own, One
      <4> QED
        BY <1>2, <2>1, <4>2 DEF Saving
    <3>3. CASE Merging(x, x.todo)
      <4>1. Merging(r, r.todo)
        BY <2>1, <3>3 DEF Merging, Total, OwnOrNew
      <4> QED
        BY <1>2, <2>1, <4>1 DEF Saving
    <3> QED
      BY <1>2, <3>1, <3>2, <3>3 DEF Saving
  <2>5. r.v \in r.todo /\ r.goal[r.v].id > 0
    BY <1>1, <1>2, <2>1, GoalDiffers DEF Item
  <2>6. Stage(r)
    BY <2>1, <2>3, <2>4, <2>5 DEF Stage
  <2> QED
    BY <2>2, <2>6, Goes
<1> QED
  BY <1>4, <1>5, <1>6

LEMMA InsertItemStays ==
  ASSUME OneConnection, SerialInv, CartInv', NEW t \in Txns, NEW v \in Variants, InsertItem(t, v)
  PROVE  SerialInv'
<1> DEFINE x == tx[t]
           i == [x.goal[v] EXCEPT !.id = IF x.goal[v].id = 0 THEN x.n ELSE @]
<1>1. x \in Request /\ Stage(x) /\ x.pc = "save" /\ v \in x.todo
  BY HereStage DEF InsertItem
<1>2. Asks(x) /\ Saving(x)
  BY <1>1 DEF Stage
<1>3. CASE Fail(t)
  BY <1>3, FailStays DEF Fail, Step
<1>4. CASE Step(t, Write(x, v, i))
  <2>1. x.goal[v] \in Item /\ x.n \in Nat /\ x.n > 0
    BY <1>1, <1>2 DEF Request, Asks
  <2>2. i \in Item /\ i.id > 0 /\ i.qty = x.goal[v].qty
    BY <2>1 DEF Item
  <2>3. Stage(Write(x, v, i))
    BY <1>1, <1>2, <2>2, WriteStage
  <2> QED
    BY <1>4, <2>3, Goes DEF Step
<1> QED
  BY <1>3, <1>4 DEF InsertItem

LEMMA UpdateItemStays ==
  ASSUME OneConnection, SerialInv, CartInv', NEW t \in Txns, UpdateItem(t)
  PROVE  SerialInv'
<1> DEFINE x == tx[t]
<1>1. x \in Request /\ Stage(x) /\ x.pc = "update"
  BY HereStage DEF UpdateItem
<1>2. Asks(x) /\ Saving(x) /\ x.v \in x.todo /\ x.goal[x.v].id > 0
  BY <1>1 DEF Stage
<1>3. x.goal[x.v] \in Item /\ items[x.c][x.v].id = x.goal[x.v].id
  BY <1>1, <1>2, GoalDiffers
<1>4. Step(t, Write(x, x.v, x.goal[x.v]))
  BY <1>3 DEF UpdateItem
<1>5. Stage(Write(x, x.v, x.goal[x.v]))
  BY <1>1, <1>2, <1>3, WriteStage
<1> QED
  BY <1>4, <1>5, Goes DEF Step

LEMMA DeleteItemStays ==
  ASSUME OneConnection, SerialInv, CartInv', NEW t \in Txns, DeleteItem(t)
  PROVE  SerialInv'
<1> DEFINE x == tx[t]
           r == [[x EXCEPT !.pc = "commit"] EXCEPT !.locked = {x.v}, !.wrote[x.v] = Absent]
<1>1. x \in Request /\ Stage(x) /\ x.pc = "delete"
  BY HereStage DEF DeleteItem
<1>2. Asks(x) /\ Setting(x) /\ Untouched(x) /\ x.id = items[x.c][x.v].id /\ x.q = 0
  BY <1>1 DEF Stage
<1>3. tx' = [tx EXCEPT ![t] = r] /\ UNCHANGED db
  BY <1>2 DEF DeleteItem, Step
<1> HIDE DEF x
<1>4. /\ r.pc = "commit" /\ r.op = x.op /\ r.made = x.made /\ r.c = x.c /\ r.v = x.v
      /\ r.n = x.n /\ r.who = x.who /\ r.sess = x.sess /\ r.q = x.q
      /\ r.locked = {x.v} /\ r.mark = x.mark /\ r.wrote[x.v] = Absent
  BY <1>1 DEF Request
<1> HIDE DEF r
<1>5. Asks(r) /\ Setting(r)
  BY <1>1, <1>2, <1>4, Carried DEF Setting, Own
<1>6. SetTo(r)
  BY <1>2, <1>4, <1>5 DEF SetTo, Proper, Absent
<1>7. Stage(r)
  BY <1>2, <1>4, <1>5, <1>6 DEF Stage, Done, Untouched
<1> QED
  BY <1>3, <1>7, Goes

LEMMA ReadGuestStays ==
  ASSUME OneConnection, SerialInv, CartInv', NEW t \in Txns, ReadGuest(t)
  PROVE  SerialInv'
<1> DEFINE x == tx[t]
<1>1. x \in Request /\ Stage(x) /\ x.pc = "guest"
  BY HereStage DEF ReadGuest
<1>2. Asks(x) /\ x.op = "merge" /\ OwnOrNew(x) /\ Untouched(x) /\ x.seen = items[x.c]
  BY <1>1 DEF Stage
<1>3. \/ \E g \in ActiveCarts(x.sess) :
           /\ Lines(g) # {}
           /\ Step(t, [x EXCEPT !.g = g, !.lines = items[g], !.goal = Summed(x, g),
                                !.todo = Lines(g), !.pc = "save"])
      \/ /\ \A g \in ActiveCarts(x.sess) : Lines(g) = {}
         /\ Step(t, [x EXCEPT !.pc = "commit"])
  BY DEF ReadGuest
<1> HIDE DEF x
<1>4. ASSUME NEW g \in ActiveCarts(x.sess), Lines(g) # {},
             Step(t, [x EXCEPT !.g = g, !.lines = items[g], !.goal = Summed(x, g),
                               !.todo = Lines(g), !.pc = "save"])
      PROVE  SerialInv'
  <2> DEFINE r == [x EXCEPT !.g = g, !.lines = items[g], !.goal = Summed(x, g),
                            !.todo = Lines(g), !.pc = "save"]
  <2>1. /\ r.pc = "save" /\ r.op = x.op /\ r.made = x.made /\ r.c = x.c /\ r.g = g
        /\ r.n = x.n /\ r.who = x.who /\ r.sess = x.sess /\ r.q = x.q
        /\ r.locked = x.locked /\ r.mark = x.mark /\ r.gone = x.gone
        /\ r.todo = Lines(g) /\ r.goal = Summed(x, g)
    BY <1>1 DEF Request
  <2>2. tx' = [tx EXCEPT ![t] = r] /\ UNCHANGED db
    BY <1>4 DEF Step
  <2> HIDE DEF r
  <2>3. g \in CartIds /\ x.c \in CartIds
    BY <1>1 DEF ActiveCarts, Request
  <2>4. ASSUME NEW v \in Lines(g)
        PROVE  r.goal[v].id = items[r.c][v].id /\ r.goal[v].qty = Total(r, v)
    <3>1. v \in Variants
      BY DEF Lines
    <3>2. items[x.c][v] \in Item /\ r.goal[v] = Plus(items[x.c][v], items[g][v].qty)
      BY <1>2, <2>1, <2>3, <3>1, ProperItem DEF Summed
    <3> QED
      BY <2>1, <3>2 DEF Plus, Item, Total
  <2>5. Merging(r, r.todo)
    BY <1>2, <1>4, <2>1, <2>4 DEF Merging, OwnOrNew, Untouched
  <2>6. Asks(r) /\ Saving(r)
    BY <1>1, <1>2, <1>4, <2>1, <2>5, Carried DEF Saving, Untouched
  <2> QED
    BY <2>1, <2>2, <2>6, Goes DEF Stage
<1>5. ASSUME \A g \in ActiveCarts(x.sess) : Lines(g) = {}, Step(t, [x EXCEPT !.pc = "commit"])
      PROVE  SerialInv'
  <2> DEFINE r == [x EXCEPT !.pc = "commit"]
  <2>1. /\ r.pc = "commit" /\ r.op = x.op /\ r.made = x.made /\ r.c = x.c
        /\ r.n = x.n /\ r.who = x.who /\ r.sess = x.sess /\ r.q = x.q
        /\ r.locked = x.locked /\ r.mark = x.mark
    BY <1>1 DEF Request
  <2>2. tx' = [tx EXCEPT ![t] = r] /\ UNCHANGED db
    BY <1>5 DEF Step
  <2> HIDE DEF r
  <2>3. Asks(r) /\ NoGuest(r) /\ r.mark = "none"
    BY <1>1, <1>2, <1>5, <2>1, Carried DEF NoGuest, OwnOrNew, Untouched
  <2> QED
    BY <2>1, <2>2, <2>3, Goes DEF Stage, Done
<1> QED
  BY <1>3, <1>4, <1>5

LEMMA MarkStays ==
  ASSUME OneConnection, SerialInv, CartInv', NEW t \in Txns, CompareCart(t) \/ UpdateCart(t)
  PROVE  SerialInv'
<1> DEFINE x == tx[t]
<1>1. x \in Request /\ Stage(x) /\ x.pc \in {"mark", "marking"}
  BY HereStage DEF CompareCart, UpdateCart
<1>2. Asks(x) /\ x.mark = "none" /\ (Merging(x, {}) \/ Ordering(x))
  BY <1>1 DEF Stage
<1>3. status[x.g] = "active"
  BY <1>2 DEF Merging, Ordering, Own, ActiveCarts
<1>4. \/ Fail(t)
      \/ Step(t, [x EXCEPT !.pc = "marking"])
      \/ Step(t, [x EXCEPT !.mark = Closed(x), !.pc = "commit"])
  BY <1>3 DEF CompareCart, UpdateCart, Closed
<1> HIDE DEF x
<1>5. CASE Fail(t)
  BY <1>5, FailStays DEF Fail, Step
<1>6. CASE Step(t, [x EXCEPT !.pc = "marking"])
  <2> DEFINE r == [x EXCEPT !.pc = "marking"]
  <2>1. /\ r.pc = "marking" /\ r.op = x.op /\ r.made = x.made /\ r.c = x.c /\ r.g = x.g
        /\ r.n = x.n /\ r.who = x.who /\ r.sess = x.sess /\ r.q = x.q
        /\ r.locked = x.locked /\ r.mark = x.mark /\ r.wrote = x.wrote
    BY <1>1 DEF Request
  <2>2. tx' = [tx EXCEPT ![t] = r] /\ UNCHANGED db
    BY <1>6 DEF Step
  <2> HIDE DEF r
  <2>3. Asks(r) /\ r.mark = "none"
    BY <1>1, <1>2, <2>1, Carried
  <2>4. Merging(r, {}) \/ Ordering(r)
    BY <1>2, <2>1 DEF Merging, Ordering, Own, OwnOrNew, Total
  <2> QED
    BY <2>1, <2>2, <2>3, <2>4, Goes DEF Stage
<1>7. CASE Step(t, [x EXCEPT !.mark = Closed(x), !.pc = "commit"])
  <2> DEFINE r == [x EXCEPT !.mark = Closed(x), !.pc = "commit"]
  <2>1. /\ r.pc = "commit" /\ r.op = x.op /\ r.made = x.made /\ r.c = x.c /\ r.g = x.g
        /\ r.n = x.n /\ r.who = x.who /\ r.sess = x.sess /\ r.q = x.q
        /\ r.locked = x.locked /\ r.mark = Closed(x) /\ r.wrote = x.wrote
    BY <1>1 DEF Request
  <2>2. tx' = [tx EXCEPT ![t] = r] /\ UNCHANGED db
    BY <1>7 DEF Step
  <2> HIDE DEF r
  <2>3. Asks(r)
    BY <1>1, <1>2, <2>1, Carried
  <2>4. CASE Merging(x, {})
    <3>1. Merging(r, {}) /\ r.mark = "abandoned"
      BY <2>1, <2>4 DEF Merging, OwnOrNew, Total, Closed
    <3> QED
      BY <2>1, <2>2, <2>3, <3>1, Goes DEF Stage, Done
  <2>5. CASE Ordering(x)
    <3>1. Ordering(r) /\ r.mark = "converted"
      BY <2>1, <2>5 DEF Ordering, Own, Closed
    <3> QED
      BY <2>1, <2>2, <2>3, <3>1, Goes DEF Stage, Done
  <2> QED
    BY <1>2, <2>4, <2>5
<1> QED
  BY <1>4, <1>5, <1>6, <1>7

--------------------------------------------------------------------------------
(* The steps that commit, as CartBags sees them.                           *)

\* The bags of the carts in st, ow and it, as the refinement mapping has them.
BagOf(st, ow, it) ==
  [w \in Owners |-> [v \in Variants |->
     SumFunctionOnSet([c \in CartIds |-> it[c][v].qty], { c \in CartIds : st[c] = "active" /\ ow[c] = w })]]

Now   == BagOf(status, owner, items)

\* A bag is the one active cart of its owner, or empty.
LEMMA BagIs ==
  ASSUME NEW st, NEW ow, NEW it \in [CartIds -> [Variants -> Item]],
         NEW w \in Owners, NEW v \in Variants,
         \A c, d \in CartIds : st[c] = "active" /\ st[d] = "active" /\ ow[c] = ow[d] => c = d
  PROVE  /\ \A c \in CartIds : st[c] = "active" /\ ow[c] = w => BagOf(st, ow, it)[w][v] = it[c][v].qty
         /\ (\A c \in CartIds : ~(st[c] = "active" /\ ow[c] = w)) => BagOf(st, ow, it)[w][v] = 0
<1> DEFINE f == [c \in CartIds |-> it[c][v].qty]
           S == { c \in CartIds : st[c] = "active" /\ ow[c] = w }
<1>1. BagOf(st, ow, it)[w][v] = SumFunctionOnSet(f, S)
  BY DEF BagOf
<1>2. ASSUME NEW c \in CartIds, st[c] = "active", ow[c] = w PROVE SumFunctionOnSet(f, S) = it[c][v].qty
  <2>1. S = {c}
    BY <1>2
  <2>2. f[c] = it[c][v].qty /\ f[c] \in Int
    BY DEF Item
  <2> HIDE DEF f, S
  <2>3. IsFiniteSet({c}) /\ {c} \ {c} = {}
    BY FS_Singleton
  <2>4. \A x \in {c} : f[x] \in Int
    BY <2>2
  <2>5. SumFunctionOnSet(f, {c}) = f[c] + SumFunctionOnSet(f, {c} \ {c})
    BY <2>3, <2>4, SumRemove
  <2>6. SumFunctionOnSet(f, {}) = 0
    BY SumEmpty
  <2>7. SumFunctionOnSet(f, {c}) = f[c] + 0
    BY <2>3, <2>5, <2>6, Zenon
  <2>8. SumFunctionOnSet(f, {c}) = f[c]
    BY <2>2, <2>7
  <2> QED
    BY <2>1, <2>2, <2>8, Zenon
<1>3. ASSUME \A c \in CartIds : ~(st[c] = "active" /\ ow[c] = w) PROVE SumFunctionOnSet(f, S) = 0
  <2>1. S = {}
    BY <1>3
  <2> HIDE DEF f, S
  <2> QED
    BY <2>1, SumEmpty
<1> QED
  BY <1>1, <1>2, <1>3

LEMMA BagBefore ==
  ASSUME SerialInv, NEW w \in Owners, NEW v \in Variants
  PROVE  /\ \A c \in ActiveCarts(w) : Now[w][v] = items[c][v].qty
         /\ ActiveCarts(w) = {} => Now[w][v] = 0
<1>1. \A c, d \in CartIds : status[c] = "active" /\ status[d] = "active" /\ owner[c] = owner[d] => c = d
  BY DEF SerialInv, CartInv, OneActiveCart
<1>2. items \in [CartIds -> [Variants -> Item]]
  BY DEF SerialInv, CartInv, TypeOK
<1> QED
  BY <1>1, <1>2, BagIs DEF Now, ActiveCarts

LEMMA BagAfter ==
  ASSUME CartInv', NEW w \in Owners, NEW v \in Variants
  PROVE  /\ \A c \in CartIds : status'[c] = "active" /\ owner'[c] = w => Now'[w][v] = items'[c][v].qty
         /\ (\A c \in CartIds : ~(status'[c] = "active" /\ owner'[c] = w)) => Now'[w][v] = 0
<1>1. \A c, d \in CartIds : status'[c] = "active" /\ status'[d] = "active" /\ owner'[c] = owner'[d] => c = d
  BY DEF CartInv, OneActiveCart
<1>2. items' \in [CartIds -> [Variants -> Item]]
  BY DEF CartInv, TypeOK
<1>3. Now' = BagOf(status', owner', items')
  BY DEF Now
<1> QED
  BY <1>1, <1>2, <1>3, BagIs


\* An owner whose active carts stay as they are keeps the bag.
LEMMA BagKept ==
  ASSUME SerialInv, CartInv', NEW w \in Owners, NEW v \in Variants,
         \A c \in CartIds : (status'[c] = "active" /\ owner'[c] = w) <=> c \in ActiveCarts(w),
         \A c \in ActiveCarts(w) : items'[c][v].qty = items[c][v].qty
  PROVE  Now'[w][v] = Now[w][v]
<1>1. CASE ActiveCarts(w) = {}
  BY <1>1, BagBefore, BagAfter
<1>2. ASSUME NEW c \in ActiveCarts(w) PROVE Now'[w][v] = Now[w][v]
  <2>1. c \in CartIds /\ status'[c] = "active" /\ owner'[c] = w
    BY DEF ActiveCarts
  <2> QED
    BY <2>1, BagBefore, BagAfter
<1> QED
  BY <1>1, <1>2

\* Two bags that agree everywhere are one.
LEMMA BagsEqual ==
  ASSUME NEW b \in [Owners -> [Variants -> Int]], NEW d \in [Owners -> [Variants -> Int]],
         \A w \in Owners, v \in Variants : b[w][v] = d[w][v]
  PROVE  b = d
<1>1. \A w \in Owners : b[w] = d[w]
  OBVIOUS
<1> QED
  BY <1>1

LEMMA BagTypes ==
  ASSUME SerialInv, CartInv'
  PROVE  Now \in [Owners -> [Variants -> Nat]] /\ Now' \in [Owners -> [Variants -> Nat]]
<1>1. ASSUME NEW w \in Owners, NEW v \in Variants PROVE Now[w][v] \in Nat
  <2>1. \A c \in ActiveCarts(w) : items[c][v].qty \in Nat
    BY ProperItem DEF ActiveCarts, Item
  <2> QED
    BY <2>1, BagBefore
<1>2. ASSUME NEW w \in Owners, NEW v \in Variants PROVE Now'[w][v] \in Nat
  <2>1. \A c \in CartIds : items'[c][v].qty \in Nat
    BY DEF CartInv, TypeOK, Item
  <2> QED
    BY <2>1, BagAfter
<1>3. Now = [w \in Owners |-> [v \in Variants |-> Now[w][v]]]
  BY DEF Now, BagOf
<1>4. Now' = [w \in Owners |-> [v \in Variants |-> Now'[w][v]]]
  BY DEF Now, BagOf
<1>5. [w \in Owners |-> [v \in Variants |-> Now[w][v]]] \in [Owners -> [Variants -> Nat]]
  BY <1>1
<1>6. [w \in Owners |-> [v \in Variants |-> Now'[w][v]]] \in [Owners -> [Variants -> Nat]]
  BY <1>2
<1> QED
  BY <1>3, <1>4, <1>5, <1>6

--------------------------------------------------------------------------------
\* The cart c of the request x of t, and what the others are like.
LEMMA CommitFacts ==
  ASSUME SerialInv, CartInv', NEW t \in Txns, Commit(t), NEW x, x = tx[t]
  PROVE  /\ x \in Request /\ x.c \in CartIds /\ x.g \in CartIds /\ x.who \in Owners /\ x.sess \in Owners
         /\ x.v \in Variants /\ x.q \in Nat /\ x.wrote \in [Variants -> Item] /\ x.locked \subseteq Variants
         /\ Asks(x) /\ Done(x)
         /\ \A d \in CartIds :
              /\ status'[d] = IF x.mark # "none" /\ d = x.g THEN x.mark
                              ELSE IF x.made /\ d = x.c THEN "active" ELSE status[d]
              /\ owner'[d] = IF x.made /\ d = x.c THEN x.who ELSE owner[d]
              /\ \A v \in Variants : items'[d][v] = IF d = x.c /\ v \in x.locked THEN x.wrote[v] ELSE items[d][v]
<1>1. x \in Request /\ Stage(x) /\ x.pc = "commit"
  BY HereStage DEF Commit
<1>2. Asks(x) /\ Done(x)
  BY <1>1 DEF Stage
<1>3. x.c \in CartIds /\ x.g \in CartIds /\ x.who \in Owners /\ x.sess \in Owners
         /\ x.v \in Variants /\ x.q \in Nat /\ x.wrote \in [Variants -> Item] /\ x.locked \subseteq Variants
  BY <1>1 DEF Request
<1>4. /\ status \in [CartIds -> {"none", "active", "abandoned", "converted"}]
      /\ owner \in [CartIds -> Owners] /\ items \in [CartIds -> [Variants -> Item]]
  BY DEF SerialInv, CartInv, TypeOK
<1>5. /\ status' = (LET created == IF x.made THEN [status EXCEPT ![x.c] = "active"] ELSE status
                    IN  IF x.mark = "none" THEN created ELSE [created EXCEPT ![x.g] = x.mark])
      /\ owner'  = IF x.made THEN [owner EXCEPT ![x.c] = x.who] ELSE owner
      /\ items'  = [items EXCEPT ![x.c] = [v \in Variants |->
                      IF v \in x.locked THEN x.wrote[v] ELSE @[v]]]
  BY DEF Commit
<1>6. \A d \in CartIds :
        /\ status'[d] = IF x.mark # "none" /\ d = x.g THEN x.mark
                        ELSE IF x.made /\ d = x.c THEN "active" ELSE status[d]
        /\ owner'[d] = IF x.made /\ d = x.c THEN x.who ELSE owner[d]
  BY <1>3, <1>4, <1>5
<1>7. \A d \in CartIds, v \in Variants :
        items'[d][v] = IF d = x.c /\ v \in x.locked THEN x.wrote[v] ELSE items[d][v]
  BY <1>3, <1>4, <1>5
<1> QED
  BY <1>1, <1>2, <1>3, <1>6, <1>7

\* Now is the mapping of CartsSafety.
LEMMA BagIsNow ==
  Now = [w \in Owners |-> [v \in Variants |-> Units(v, ActiveCarts(w))]]
BY DEF Now, BagOf, Units, ActiveCarts

LEMMA BagSteps ==
  ASSUME NEW w \in Owners, NEW v \in Variants, NEW q \in Quantities
  PROVE  /\ Now' = [Now EXCEPT ![w][v] = @ + q] => Bag!Add(w, v, q)
         /\ Now[w][v] > 0 /\ Now' = [Now EXCEPT ![w][v] = q] => Bag!SetQuantity(w, v, q)
BY BagIsNow DEF Bag!Add, Bag!SetQuantity, Now, BagOf, Units, ActiveCarts

LEMMA OrderStep ==
  ASSUME NEW w \in Owners, Now[w] # Bag!Empty, Now' = [Now EXCEPT ![w] = Bag!Empty]
  PROVE  Bag!Order(w)
BY BagIsNow DEF Bag!Order, Now, BagOf, Units, ActiveCarts

LEMMA MergeStep ==
  ASSUME NEW w \in Owners, NEW s \in Owners,
         Now' = [Now EXCEPT ![w] = [u \in Variants |-> Now[w][u] + Now[s][u]], ![s] = Bag!Empty]
  PROVE  Bag!MergeBags(w, s)
BY BagIsNow DEF Bag!MergeBags, Now, BagOf, Units, ActiveCarts

LEMMA CommitAdded ==
  ASSUME SerialInv, CartInv', NEW t \in Txns, Commit(t), NEW x, x = tx[t], Added(x), x.mark = "none"
  PROVE  x.q \in Quantities /\ Now' = [Now EXCEPT ![x.who][x.v] = @ + x.q]
<1> USE CommitFacts
<1>1. x.q \in Quantities
  BY DEF Added, Adding, Asks
<1>2. x.op = "add" /\ ~x.made /\ x.c \in ActiveCarts(x.who) /\ x.locked = {x.v}
      /\ x.wrote[x.v].qty = items[x.c][x.v].qty + x.q
  BY DEF Added, Adding, Own
<1>3. /\ \A d \in CartIds : status'[d] = status[d] /\ owner'[d] = owner[d]
      /\ \A d \in CartIds, v \in Variants :
           items'[d][v] = IF d = x.c /\ v = x.v THEN x.wrote[x.v] ELSE items[d][v]
  BY <1>2
<1>4. x.c \in CartIds /\ x.who \in Owners /\ x.v \in Variants /\ x.q \in Nat
  OBVIOUS
<1> DEFINE b == [Now EXCEPT ![x.who][x.v] = @ + x.q]
<1>5. Now \in [Owners -> [Variants -> Nat]] /\ Now' \in [Owners -> [Variants -> Nat]]
  BY BagTypes
<1>6. /\ b \in [Owners -> [Variants -> Nat]]
      /\ \A w \in Owners, v \in Variants :
           b[w][v] = IF w = x.who /\ v = x.v THEN Now[w][v] + x.q ELSE Now[w][v]
  BY <1>4, <1>5
<1>7. ASSUME NEW w \in Owners, NEW v \in Variants PROVE Now'[w][v] = b[w][v]
  <2>1. CASE w = x.who /\ v = x.v
    <3>1. Now[w][v] = items[x.c][v].qty
      BY <1>2, <2>1, BagBefore
    <3>2. status'[x.c] = "active" /\ owner'[x.c] = w
      BY <1>2, <1>3, <1>4, <2>1 DEF ActiveCarts
    <3>3. Now'[w][v] = items'[x.c][v].qty
      BY <1>4, <3>2, BagAfter
    <3>4. items'[x.c][v].qty = items[x.c][v].qty + x.q
      BY <1>2, <1>3, <1>4, <2>1
    <3> QED
      BY <1>6, <2>1, <3>1, <3>3, <3>4
  <2>2. CASE ~(w = x.who /\ v = x.v)
    <3>1. \A c \in CartIds : (status'[c] = "active" /\ owner'[c] = w) <=> c \in ActiveCarts(w)
      BY <1>3 DEF ActiveCarts
    <3>2. \A c \in ActiveCarts(w) : items'[c][v].qty = items[c][v].qty
      BY <1>2, <1>3, <2>2 DEF ActiveCarts
    <3> QED
      BY <1>6, <2>2, <3>1, <3>2, BagKept
  <2> QED
    BY <2>1, <2>2
<1> HIDE DEF b
<1>8. Now' = b
  BY <1>5, <1>6, <1>7, BagsEqual
<1> QED
  BY <1>1, <1>8 DEF b

LEMMA CommitSetTo ==
  ASSUME SerialInv, CartInv', NEW t \in Txns, Commit(t), NEW x, x = tx[t], SetTo(x), x.mark = "none"
  PROVE  x.q \in Quantities /\ Now[x.who][x.v] > 0 /\ Now' = [Now EXCEPT ![x.who][x.v] = x.q]
<1> USE CommitFacts
<1>1. x.q \in Quantities
  BY DEF SetTo, Setting, Asks
<1>2. x.op = "set" /\ ~x.made /\ x.c \in ActiveCarts(x.who) /\ items[x.c][x.v] # Absent
  BY DEF SetTo, Setting, Own
<1>3. /\ \A d \in CartIds : status'[d] = status[d] /\ owner'[d] = owner[d]
      /\ items'[x.c][x.v].qty = x.q
      /\ \A d \in CartIds, v \in Variants :
           ~(d = x.c /\ v = x.v) => items'[d][v] = items[d][v]
  BY <1>2 DEF SetTo
<1>4. x.c \in CartIds /\ x.who \in Owners /\ x.v \in Variants /\ x.q \in Nat
  OBVIOUS
<1> DEFINE b == [Now EXCEPT ![x.who][x.v] = x.q]
<1>5. Now \in [Owners -> [Variants -> Nat]] /\ Now' \in [Owners -> [Variants -> Nat]]
  BY BagTypes
<1>6. /\ b \in [Owners -> [Variants -> Nat]]
      /\ \A w \in Owners, v \in Variants :
           b[w][v] = IF w = x.who /\ v = x.v THEN x.q ELSE Now[w][v]
  BY <1>4, <1>5
<1>7. ASSUME NEW w \in Owners, NEW v \in Variants PROVE Now'[w][v] = b[w][v]
  <2>1. CASE w = x.who /\ v = x.v
    <3>1. status'[x.c] = "active" /\ owner'[x.c] = w
      BY <1>2, <1>3, <1>4, <2>1 DEF ActiveCarts
    <3>2. Now'[w][v] = items'[x.c][v].qty
      BY <1>4, <3>1, BagAfter
    <3> QED
      BY <1>3, <1>6, <2>1, <3>2
  <2>2. CASE ~(w = x.who /\ v = x.v)
    <3>1. \A c \in CartIds : (status'[c] = "active" /\ owner'[c] = w) <=> c \in ActiveCarts(w)
      BY <1>3 DEF ActiveCarts
    <3>2. \A c \in ActiveCarts(w) : items'[c][v].qty = items[c][v].qty
      BY <1>2, <1>3, <2>2 DEF ActiveCarts
    <3> QED
      BY <1>6, <2>2, <3>1, <3>2, BagKept
  <2> QED
    BY <2>1, <2>2
<1> HIDE DEF b
<1>8. Now' = b
  BY <1>5, <1>6, <1>7, BagsEqual
<1>9. Now[x.who][x.v] > 0
  BY <1>2, <1>4, BagBefore, ProperItem
<1> QED
  BY <1>1, <1>8, <1>9 DEF b

\* The cart that a merge has inserted was nobody's and is empty.
LEMMA MadeEmpty ==
  ASSUME SerialInv, NEW t \in Txns, NEW x, x = tx[t], x \in Request, OwnOrNew(x), NEW v \in Variants
  PROVE  /\ x.made => status[x.c] = "none" /\ items[x.c] = NoItems /\ ActiveCarts(x.who) = {}
         /\ Now[x.who][v] = items[x.c][v].qty
<1>1. x.c \in CartIds /\ x.who \in Owners
  BY DEF Request
<1>2. CASE x.made
  <2>1. status[x.c] = "none" /\ items[x.c] = NoItems /\ ActiveCarts(x.who) = {}
    BY <1>1, <1>2 DEF OwnOrNew, SerialInv, Clean, CartInv, MadeAlone
  <2>2. items[x.c][v].qty = 0
    BY <2>1 DEF NoItems, Absent
  <2> QED
    BY <1>1, <2>1, <2>2, BagBefore
<1>3. CASE ~x.made
  BY <1>1, <1>3, BagBefore DEF OwnOrNew
<1> QED
  BY <1>2, <1>3

LEMMA CommitNoGuest ==
  ASSUME SerialInv, CartInv', NEW t \in Txns, Commit(t), NEW x, x = tx[t], NoGuest(x), x.mark = "none"
  PROVE  Now' = Now
<1> USE CommitFacts
<1>1. x \in Request /\ OwnOrNew(x) /\ x.locked = {} /\ x.c \in CartIds /\ x.who \in Owners
  BY DEF NoGuest
<1>2. \A d \in CartIds :
        /\ status'[d] = IF x.made /\ d = x.c THEN "active" ELSE status[d]
        /\ owner'[d] = IF x.made /\ d = x.c THEN x.who ELSE owner[d]
        /\ \A v \in Variants : items'[d][v] = items[d][v]
  BY <1>1
<1>3. ASSUME NEW w \in Owners, NEW v \in Variants PROVE Now'[w][v] = Now[w][v]
  <2>1. CASE x.made /\ w = x.who
    <3>1. status'[x.c] = "active" /\ owner'[x.c] = w
      BY <1>1, <1>2, <2>1
    <3>2. Now'[w][v] = items'[x.c][v].qty
      BY <1>1, <3>1, BagAfter
    <3>3. Now[w][v] = items[x.c][v].qty
      BY <1>1, <2>1, MadeEmpty
    <3> QED
      BY <1>1, <1>2, <3>2, <3>3
  <2>2. CASE ~(x.made /\ w = x.who)
    <3>1. x.made => status[x.c] = "none"
      BY <1>1 DEF OwnOrNew
    <3>2. \A c \in CartIds : (status'[c] = "active" /\ owner'[c] = w) <=> c \in ActiveCarts(w)
      BY <1>1, <1>2, <2>2, <3>1 DEF ActiveCarts
    <3>3. \A c \in ActiveCarts(w) : items'[c][v].qty = items[c][v].qty
      BY <1>2 DEF ActiveCarts
    <3> QED
      BY <3>2, <3>3, BagKept
  <2> QED
    BY <2>1, <2>2
<1>4. Now \in [Owners -> [Variants -> Nat]] /\ Now' \in [Owners -> [Variants -> Nat]]
  BY BagTypes
<1> QED
  BY <1>3, <1>4, BagsEqual

LEMMA CommitMerged ==
  ASSUME SerialInv, CartInv', NEW t \in Txns, Commit(t), NEW x, x = tx[t],
         Merging(x, {}), x.mark = "abandoned"
  PROVE  /\ x.who \in Customers /\ x.sess \in Sessions
         /\ Now' = [Now EXCEPT ![x.who] = [u \in Variants |-> Now[x.who][u] + Now[x.sess][u]],
                               ![x.sess] = Bag!Empty]
<1> USE CommitFacts
<1>1. x.who \in Customers /\ x.sess \in Sessions
  BY DEF Merging, Asks
<1>2. x.who # x.sess
  BY <1>1, OwnersAssumption
<1>3. /\ OwnOrNew(x) /\ x.g \in ActiveCarts(x.sess) /\ x.locked = Lines(x.g)
      /\ \A v \in x.locked : x.wrote[v].qty = items[x.c][v].qty + items[x.g][v].qty
  BY DEF Merging, Total
<1>4. /\ x \in Request /\ x.c \in CartIds /\ x.g \in CartIds /\ x.who \in Owners /\ x.sess \in Owners
      /\ x.locked \subseteq Variants
  OBVIOUS
<1>5. x.c # x.g
  BY <1>2, <1>3 DEF OwnOrNew, ActiveCarts
<1>6. \A d \in CartIds :
        /\ status'[d] = IF d = x.g THEN "abandoned" ELSE IF d = x.c THEN "active" ELSE status[d]
        /\ owner'[d] = IF d = x.c THEN x.who ELSE owner[d]
        /\ d # x.c => \A v \in Variants : items'[d][v] = items[d][v]
  BY <1>3 DEF OwnOrNew, ActiveCarts
<1>7. ASSUME NEW v \in Variants PROVE items'[x.c][v].qty = items[x.c][v].qty + items[x.g][v].qty
  <2>1. CASE v \in x.locked
    BY <1>3, <1>4, <2>1
  <2>2. CASE v \notin x.locked
    <3>1. items[x.g][v] = Absent
      BY <1>3, <2>2 DEF Lines
    <3>2. items'[x.c][v] = items[x.c][v] /\ items[x.c][v].qty \in Nat
      BY <1>4, <2>2, ProperItem DEF Item
    <3> QED
      BY <3>1, <3>2 DEF Absent
  <2> QED
    BY <2>1, <2>2
<1> DEFINE b == [Now EXCEPT ![x.who] = [u \in Variants |-> Now[x.who][u] + Now[x.sess][u]],
                            ![x.sess] = Bag!Empty]
<1>8. Now \in [Owners -> [Variants -> Nat]] /\ Now' \in [Owners -> [Variants -> Nat]]
  BY BagTypes
<1>9. /\ b \in [Owners -> [Variants -> Nat]]
      /\ \A w \in Owners, v \in Variants :
           b[w][v] = IF w = x.sess THEN 0
                     ELSE IF w = x.who THEN Now[x.who][v] + Now[x.sess][v] ELSE Now[w][v]
  BY <1>2, <1>4, <1>8 DEF Bag!Empty
<1> HIDE DEF b
<1>10. ASSUME NEW w \in Owners, NEW v \in Variants PROVE Now'[w][v] = b[w][v]
  <2>1. CASE w = x.sess
    <3>1. \A d \in CartIds : ~(status'[d] = "active" /\ owner'[d] = w)
      <4>1. SUFFICES ASSUME NEW d \in CartIds, status'[d] = "active", owner'[d] = w PROVE FALSE
        OBVIOUS
      <4>2. d # x.g /\ d # x.c
        BY <1>2, <1>4, <1>6, <2>1, <4>1
      <4>3. status[d] = "active" /\ owner[d] = w
        BY <1>6, <4>1, <4>2
      <4>4. status[x.g] = "active" /\ owner[x.g] = w
        BY <1>3, <2>1 DEF ActiveCarts
      <4> QED
        BY <1>4, <4>2, <4>3, <4>4 DEF SerialInv, CartInv, OneActiveCart
    <3>2. Now'[w][v] = 0
      BY <3>1, BagAfter
    <3> QED
      BY <1>9, <2>1, <3>2
  <2>2. CASE w = x.who
    <3>1. status'[x.c] = "active" /\ owner'[x.c] = w
      BY <1>4, <1>5, <1>6, <2>2
    <3>2. Now'[w][v] = items'[x.c][v].qty
      BY <1>4, <3>1, BagAfter
    <3>3. Now[x.who][v] = items[x.c][v].qty
      BY <1>3, <1>4, MadeEmpty
    <3>4. Now[x.sess][v] = items[x.g][v].qty
      BY <1>3, <1>4, BagBefore
    <3> QED
      BY <1>2, <1>7, <1>9, <2>2, <3>2, <3>3, <3>4
  <2>3. CASE w \notin {x.who, x.sess}
    <3>1. x.made => status[x.c] = "none"
      BY <1>3 DEF OwnOrNew
    <3>2. ~x.made => owner[x.c] = x.who
      BY <1>3 DEF OwnOrNew, ActiveCarts
    <3>3. owner[x.g] = x.sess
      BY <1>3 DEF ActiveCarts
    <3>4. \A c \in CartIds : (status'[c] = "active" /\ owner'[c] = w) <=> c \in ActiveCarts(w)
      BY <1>4, <1>6, <2>3, <3>1, <3>2, <3>3 DEF ActiveCarts
    <3>5. x.c \notin ActiveCarts(w)
      BY <2>3, <3>1, <3>2 DEF ActiveCarts
    <3>6. \A c \in ActiveCarts(w) : items'[c][v].qty = items[c][v].qty
      BY <1>6, <3>5 DEF ActiveCarts
    <3> QED
      BY <1>9, <2>3, <3>4, <3>6, BagKept
  <2> QED
    BY <2>1, <2>2, <2>3
<1>11. Now' = b
  BY <1>8, <1>9, <1>10, BagsEqual
<1> QED
  BY <1>1, <1>11 DEF b

LEMMA CommitOrdered ==
  ASSUME SerialInv, CartInv', NEW t \in Txns, Commit(t), NEW x, x = tx[t],
         Ordering(x), x.mark = "converted"
  PROVE  Now[x.who] # Bag!Empty /\ Now' = [Now EXCEPT ![x.who] = Bag!Empty]
<1> USE CommitFacts
<1>1. ~x.made /\ x.c \in ActiveCarts(x.who) /\ x.g = x.c /\ Lines(x.c) # {} /\ x.locked = {}
  BY DEF Ordering, Own
<1>2. x.c \in CartIds /\ x.who \in Owners
  OBVIOUS
<1>3. \A d \in CartIds :
        /\ status'[d] = IF d = x.c THEN "converted" ELSE status[d]
        /\ owner'[d] = owner[d]
        /\ \A v \in Variants : items'[d][v] = items[d][v]
  BY <1>1
<1> DEFINE b == [Now EXCEPT ![x.who] = Bag!Empty]
<1>4. Now \in [Owners -> [Variants -> Nat]] /\ Now' \in [Owners -> [Variants -> Nat]]
  BY BagTypes
<1>5. /\ b \in [Owners -> [Variants -> Nat]]
      /\ \A w \in Owners, v \in Variants : b[w][v] = IF w = x.who THEN 0 ELSE Now[w][v]
  BY <1>2, <1>4 DEF Bag!Empty
<1> HIDE DEF b
<1>6. ASSUME NEW w \in Owners, NEW v \in Variants PROVE Now'[w][v] = b[w][v]
  <2>1. CASE w = x.who
    <3>1. \A d \in CartIds : ~(status'[d] = "active" /\ owner'[d] = w)
      BY <1>1, <1>2, <1>3, <2>1 DEF ActiveCarts, SerialInv, CartInv, OneActiveCart
    <3> QED
      BY <1>5, <2>1, <3>1, BagAfter
  <2>2. CASE w # x.who
    <3>1. \A c \in CartIds : (status'[c] = "active" /\ owner'[c] = w) <=> c \in ActiveCarts(w)
      BY <1>1, <1>3, <2>2 DEF ActiveCarts
    <3>2. \A c \in ActiveCarts(w) : items'[c][v].qty = items[c][v].qty
      BY <1>3 DEF ActiveCarts
    <3> QED
      BY <1>5, <2>2, <3>1, <3>2, BagKept
  <2> QED
    BY <2>1, <2>2
<1>7. Now' = b
  BY <1>4, <1>5, <1>6, BagsEqual
<1>8. Now[x.who] # Bag!Empty
  <2>1. PICK v \in Variants : items[x.c][v] # Absent
    BY <1>1 DEF Lines
  <2>2. Now[x.who][v] > 0
    BY <1>1, <1>2, <2>1, BagBefore, ProperItem
  <2> QED
    BY <2>2 DEF Bag!Empty
<1> QED
  BY <1>7, <1>8 DEF b

LEMMA WroteProper ==
  ASSUME SerialInv, NEW x \in Request, Asks(x), Done(x), NEW v \in x.locked
  PROVE  Proper(x.wrote[v])
<1>1. x.c \in CartIds /\ x.g \in CartIds /\ v \in Variants /\ x.v \in Variants /\ x.q \in Nat
  BY DEF Request
<1>2. items[x.c][v].qty \in Nat /\ items[x.g][v].qty \in Nat
  BY <1>1, ProperItem DEF Item
<1>3. CASE Added(x)
  <2>1. v = x.v /\ x.wrote[v].id > 0 /\ x.wrote[v].qty = items[x.c][v].qty + x.q /\ x.q > 0
    BY <1>3 DEF Added, Adding, Asks
  <2>2. x.wrote[v].qty > 0
    BY <1>1, <1>2, <2>1
  <2> QED
    BY <2>1, <2>2 DEF Proper
<1>4. CASE SetTo(x)
  BY <1>4 DEF SetTo
<1>5. CASE Merging(x, {})
  <2>1. v \in Lines(x.g) /\ x.wrote[v].id > 0 /\ x.wrote[v].qty = items[x.c][v].qty + items[x.g][v].qty
    BY <1>5 DEF Merging, Total
  <2>2. items[x.g][v].qty > 0
    BY <1>1, <2>1, ProperItem DEF Lines
  <2>3. x.wrote[v].qty > 0
    BY <1>2, <2>1, <2>2
  <2> QED
    BY <2>1, <2>3 DEF Proper
<1> QED
  BY <1>3, <1>4, <1>5 DEF Done, NoGuest, Ordering

LEMMA OnlyStage ==
  ASSUME OneConnection, SerialInv, CartInv', NEW t \in Txns, NEW r, tx' = [tx EXCEPT ![t] = r], Stage(r)'
  PROVE  Stages'
<1>1. ASSUME NEW u \in Txns, NEW x, tx'[u] = x PROVE Stage(x)'
  <2>1. x = r
    BY <1>1 DEF OneConnection, SerialInv, CartInv, TypeOK
  <2> QED
    BY <2>1
<1> QED
  BY <1>1 DEF Stages

LEMMA CommitStays ==
  ASSUME OneConnection, SerialInv, CartInv', NEW t \in Txns, Commit(t)
  PROVE  SerialInv'
<1>0. PICK x : x = tx[t]
  OBVIOUS
<1> USE CommitFacts
<1>1. x \in Request /\ x.c \in CartIds /\ Asks(x) /\ Done(x)
  BY <1>0
<1>2. ~x.made => x.c \in ActiveCarts(x.who)
  BY <1>1 DEF Done, Added, Adding, SetTo, Setting, NoGuest, Merging, Ordering, Own, OwnOrNew
<1>3. /\ \A d \in CartIds : items'[d] \in [Variants -> Item] /\ items[d] \in [Variants -> Item]
      /\ NoItems \in [Variants -> Item]
  BY DefaultTypes DEF SerialInv, CartInv, TypeOK
<1>4. x.mark \in {"none", "abandoned", "converted"}
  BY <1>1 DEF Done
<1>5. Clean'
  <2>1. ASSUME NEW d \in CartIds, status'[d] = "none" PROVE items'[d] = NoItems
    <3>1. status[d] = "none" /\ ~(x.made /\ d = x.c)
      BY <1>0, <1>4, <2>1
    <3>2. d # x.c
      BY <1>2, <3>1 DEF ActiveCarts
    <3>3. items[d] = NoItems
      BY <3>1 DEF SerialInv, Clean
    <3>4. \A v \in Variants : items'[d][v] = items[d][v]
      BY <1>0, <3>2
    <3> QED
      BY <1>3, <3>3, <3>4
  <2>2. ASSUME NEW d \in CartIds, NEW v \in Variants PROVE Proper(items'[d][v])
    <3>1. CASE d = x.c /\ v \in x.locked
      <4>1. items'[d][v] = x.wrote[v]
        BY <1>0, <3>1
      <4> QED
        BY <1>1, <3>1, <4>1, WroteProper
    <3>2. CASE ~(d = x.c /\ v \in x.locked)
      <4>1. items'[d][v] = items[d][v]
        BY <1>0, <3>2
      <4> QED
        BY <4>1 DEF SerialInv, Clean
    <3> QED
      BY <3>1, <3>2
  <2> QED
    BY <2>1, <2>2 DEF Clean, Proper
<1>6. tx' = [tx EXCEPT ![t] = Idle]
  BY DEF Commit
<1>7. PICK r : r = Idle
  OBVIOUS
<1>8. Stage(r)'
  BY <1>7, IdleType DEF Stage
<1>9. Stages'
  BY <1>6, <1>7, <1>8, OnlyStage
<1> QED
  BY <1>5, <1>9 DEF SerialInv

LEMMA CommitCartFacts ==
  ASSUME SerialInv, NEW t \in Txns, CommitCart(t), NEW x, x = tx[t]
  PROVE  /\ x \in Request /\ x.c \in CartIds /\ x.who \in Owners /\ x.made
         /\ Asks(x) /\ x.op \in {"get", "add"} /\ Untouched(x) /\ status[x.c] = "none"
         /\ items' = items
         /\ \A d \in CartIds : /\ status'[d] = IF d = x.c THEN "active" ELSE status[d]
                               /\ owner'[d] = IF d = x.c THEN x.who ELSE owner[d]
<1>1. x \in Request /\ Stage(x) /\ x.pc = "made"
  BY HereStage DEF CommitCart
<1>2. Asks(x) /\ x.op \in {"get", "add"} /\ Untouched(x) /\ status[x.c] = "none"
  BY <1>1 DEF Stage
<1>3. x.c \in CartIds /\ x.who \in Owners
  BY <1>1 DEF Request
<1>4. x.made
  BY <1>1 DEF SerialInv, CartInv, MadeFirst
<1>5. status \in [CartIds -> {"none", "active", "abandoned", "converted"}] /\ owner \in [CartIds -> Owners]
  BY DEF SerialInv, CartInv, TypeOK
<1>6. \A d \in CartIds : /\ status'[d] = IF d = x.c THEN "active" ELSE status[d]
                         /\ owner'[d] = IF d = x.c THEN x.who ELSE owner[d]
  BY <1>3, <1>5 DEF CommitCart
<1>7. items' = items
  BY DEF CommitCart
<1> QED
  BY <1>1, <1>2, <1>3, <1>4, <1>6, <1>7

LEMMA CommitCartStays ==
  ASSUME OneConnection, SerialInv, CartInv', NEW t \in Txns, CommitCart(t)
  PROVE  SerialInv'
<1>0. PICK x : x = tx[t]
  OBVIOUS
<1>1. /\ x \in Request /\ x.c \in CartIds /\ x.who \in Owners
      /\ Asks(x) /\ x.op \in {"get", "add"} /\ Untouched(x) /\ items' = items
      /\ \A d \in CartIds : /\ status'[d] = IF d = x.c THEN "active" ELSE status[d]
                            /\ owner'[d] = IF d = x.c THEN x.who ELSE owner[d]
  BY <1>0, CommitCartFacts
<1>2. Clean'
  BY <1>1 DEF SerialInv, Clean, Proper
<1> DEFINE y == [x EXCEPT !.made = FALSE]
<1>3. PICK r : r = Found(y, x.c)
  OBVIOUS
<1>4. tx' = [tx EXCEPT ![t] = r]
  <2>1. tx \in [Txns -> Request]
    BY DEF SerialInv, CartInv, TypeOK
  <2> QED
    BY <1>0, <1>3, <2>1 DEF CommitCart
<1>5. y.op = x.op
  BY <1>1 DEF Request
<1>6. CASE x.op = "get"
  <2>1. r = Idle
    BY <1>3, <1>5, <1>6 DEF Found
  <2>2. Stage(r)'
    BY <2>1, IdleType DEF Stage
  <2> QED
    BY <1>2, <1>4, <2>2, OnlyStage DEF SerialInv
<1>7. CASE x.op = "add"
  <2>1. r = [y EXCEPT !.c = x.c, !.pc = "read"]
    BY <1>3, <1>5, <1>7 DEF Found
  <2>2. /\ r.pc = "read" /\ r.op = "add" /\ r.c = x.c /\ r.who = x.who /\ ~r.made
        /\ r.n = x.n /\ r.q = x.q /\ r.sess = x.sess
        /\ r.locked = x.locked /\ r.mark = x.mark /\ r.gone = x.gone
    BY <1>1, <1>7, <2>1 DEF Request
  <2>3. Asks(r)
    BY <1>1, <1>7, <2>2, Carried
  <2>4. Asks(r)' /\ Untouched(r)'
    BY <1>1, <2>2, <2>3 DEF Asks, Untouched
  <2>5. Adding(r)'
    BY <1>1, <2>2 DEF Adding, Own, ActiveCarts
  <2>6. Stage(r)'
    BY <2>2, <2>4, <2>5 DEF Stage
  <2> QED
    BY <1>2, <1>4, <2>6, OnlyStage DEF SerialInv
<1> QED
  BY <1>1, <1>6, <1>7

\* The cart that a request finds or creates is empty at first.
LEMMA CommitCartBag ==
  ASSUME SerialInv, CartInv', NEW t \in Txns, CommitCart(t)
  PROVE  Now' = Now
<1>0. PICK x : x = tx[t]
  OBVIOUS
<1>1. /\ x \in Request /\ x.c \in CartIds /\ x.who \in Owners /\ x.made /\ items' = items
      /\ status[x.c] = "none"
      /\ \A d \in CartIds : /\ status'[d] = IF d = x.c THEN "active" ELSE status[d]
                            /\ owner'[d] = IF d = x.c THEN x.who ELSE owner[d]
  BY <1>0, CommitCartFacts
<1>2. ASSUME NEW w \in Owners, NEW v \in Variants PROVE Now'[w][v] = Now[w][v]
  <2>1. CASE w = x.who
    <3>1. Now'[w][v] = items[x.c][v].qty
      BY <1>1, <2>1, BagAfter
    <3>2. OwnOrNew(x)
      BY <1>1 DEF OwnOrNew
    <3> QED
      BY <1>0, <1>1, <2>1, <3>1, <3>2, MadeEmpty
  <2>2. CASE w # x.who
    <3>1. \A c \in CartIds : (status'[c] = "active" /\ owner'[c] = w) <=> c \in ActiveCarts(w)
      BY <1>1, <2>2 DEF ActiveCarts
    <3> QED
      BY <1>1, <3>1, BagKept
  <2> QED
    BY <2>1, <2>2
<1>3. Now \in [Owners -> [Variants -> Nat]] /\ Now' \in [Owners -> [Variants -> Nat]]
  BY BagTypes
<1> QED
  BY <1>2, <1>3, BagsEqual

--------------------------------------------------------------------------------
LEMMA InitSerial == Init => SerialInv
<1> SUFFICES ASSUME Init PROVE SerialInv
  OBVIOUS
<1>1. Clean
  BY DEF Init, Clean, NoItems, Proper
<1>2. Stages
  BY IdleType DEF Init, Stages, Stage
<1> QED
  BY <1>1, <1>2, InitCarts DEF SerialInv

LEMMA NextSerial == ASSUME OneConnection PROVE SerialInv /\ [Next]_vars => SerialInv'
<1> SUFFICES ASSUME SerialInv, [Next]_vars PROVE SerialInv'
  OBVIOUS
<1>1. CartInv'
  BY NextCarts DEF SerialInv
<1>2. CASE UNCHANGED vars
  <2>1. Clean'
    BY <1>2 DEF SerialInv, Clean, Proper, vars, db
  <2>2. ASSUME NEW t \in Txns, NEW r \in Request, tx'[t] = r PROVE Stage(r)'
    <3>1. Stage(r) /\ UNCHANGED db
      BY <1>2, <2>2 DEF SerialInv, Stages, vars
    <3> QED
      BY <3>1, StageSame
  <2> QED
    BY <1>1, <2>1, <2>2 DEF SerialInv, Stages
<1>3. ASSUME NEW t \in Txns, Begin(t) PROVE SerialInv'
  BY <1>1, <1>3, BeginStays
<1>4. ASSUME NEW t \in Txns, Run(t) PROVE SerialInv'
  <2>1. CASE (\E c \in CartIds : InsertCart(t, c)) \/ LoseRace(t) \/ Reread(t)
    BY <1>1, <2>1, OpenStays
  <2>2. CASE CommitCart(t) \/ Commit(t)
    BY <1>1, <2>2, CommitCartStays, CommitStays
  <2>3. CASE CartGone(t)
    BY <1>1, <2>3, FailStays DEF CartGone, Fail, Step
  <2>4. CASE ReadCart(t) \/ FindItem(t)
    BY <1>1, <2>4, ReadCartStays, FindItemStays
  <2>5. ASSUME NEW v \in Variants, InsertItem(t, v) \/ SelectItem(t, v) PROVE SerialInv'
    BY <1>1, <2>5, InsertItemStays, SelectItemStays
  <2>6. CASE UpdateItem(t) \/ DeleteItem(t) \/ ReadGuest(t)
    BY <1>1, <2>6, UpdateItemStays, DeleteItemStays, ReadGuestStays
  <2>7. CASE CompareCart(t) \/ UpdateCart(t)
    BY <1>1, <2>7, MarkStays
  <2> QED
    BY <1>4, <2>1, <2>2, <2>3, <2>4, <2>5, <2>6, <2>7 DEF Run
<1>5. ASSUME NEW t \in Txns, Abort(t) PROVE SerialInv'
  BY <1>1, <1>5, FailStays DEF Abort
<1> QED
  BY <1>2, <1>3, <1>4, <1>5 DEF Next

\* What commits nothing changes no bag.
LEMMA NoCommit == UNCHANGED db => Now' = Now
BY DEF Now, db

LEMMA NextBag ==
  ASSUME SerialInv, CartInv', [Next]_vars
  PROVE  Bag!Next \/ Now' = Now
<1>1. ASSUME NEW t \in Txns, Commit(t) PROVE Bag!Next \/ Now' = Now
  <2>1. PICK x : x = tx[t]
    OBVIOUS
  <2>2. x \in Request /\ x.who \in Owners /\ x.sess \in Owners /\ x.v \in Variants /\ Done(x)
    BY <1>1, <2>1, CommitFacts
  <2>3. CASE Added(x) /\ x.mark = "none"
    <3>1. x.q \in Quantities /\ Now' = [Now EXCEPT ![x.who][x.v] = @ + x.q]
      BY <1>1, <2>1, <2>3, CommitAdded
    <3>2. Bag!Add(x.who, x.v, x.q)
      BY <2>2, <3>1, BagSteps
    <3> QED
      BY <2>2, <3>1, <3>2 DEF Bag!Next, Owners
  <2>4. CASE SetTo(x) /\ x.mark = "none"
    <3>1. x.q \in Quantities /\ Now[x.who][x.v] > 0 /\ Now' = [Now EXCEPT ![x.who][x.v] = x.q]
      BY <1>1, <2>1, <2>4, CommitSetTo
    <3>2. Bag!SetQuantity(x.who, x.v, x.q)
      BY <2>2, <3>1, BagSteps
    <3> QED
      BY <2>2, <3>1, <3>2 DEF Bag!Next, Owners
  <2>5. CASE NoGuest(x) /\ x.mark = "none"
    BY <1>1, <2>1, <2>5, CommitNoGuest
  <2>6. CASE Merging(x, {}) /\ x.mark = "abandoned"
    <3>1. /\ x.who \in Customers /\ x.sess \in Sessions
          /\ Now' = [Now EXCEPT ![x.who] = [u \in Variants |-> Now[x.who][u] + Now[x.sess][u]],
                                ![x.sess] = Bag!Empty]
      BY <1>1, <2>1, <2>6, CommitMerged
    <3>2. Bag!MergeBags(x.who, x.sess)
      BY <3>1, MergeStep DEF Owners
    <3> QED
      BY <3>1, <3>2 DEF Bag!Next
  <2>7. CASE Ordering(x) /\ x.mark = "converted"
    <3>1. Now[x.who] # Bag!Empty /\ Now' = [Now EXCEPT ![x.who] = Bag!Empty]
      BY <1>1, <2>1, <2>7, CommitOrdered
    <3>2. Bag!Order(x.who)
      BY <2>2, <3>1, OrderStep
    <3> QED
      BY <2>2, <3>2 DEF Bag!Next, Owners
  <2> QED
    BY <2>2, <2>3, <2>4, <2>5, <2>6, <2>7 DEF Done
<1>2. ASSUME NEW t \in Txns, CommitCart(t) PROVE Bag!Next \/ Now' = Now
  BY <1>2, CommitCartBag
<1>3. CASE UNCHANGED vars
  BY <1>3, NoCommit DEF vars
<1>4. ASSUME NEW t \in Txns, NEW r, Arrive(t, r) PROVE Now' = Now
  BY <1>4, NoCommit DEF Arrive
<1>5. ASSUME NEW t \in Txns, NEW r, Step(t, r) PROVE Now' = Now
  BY <1>5, NoCommit DEF Step
<1>6. ASSUME NEW t \in Txns, Begin(t) PROVE Now' = Now
  BY <1>4, <1>6 DEF Begin, BeginGet, BeginAdd, BeginMerge, BeginSet, BeginCheckout, FindOrCreate
<1>7. ASSUME NEW t \in Txns, Run(t) PROVE Bag!Next \/ Now' = Now
  <2>1. CASE Commit(t) \/ CommitCart(t)
    BY <1>1, <1>2, <2>1
  <2>2. CASE (\E c \in CartIds : InsertCart(t, c)) \/ LoseRace(t) \/ Reread(t) \/ ReadCart(t) \/ CartGone(t)
    BY <1>5, <2>2 DEF InsertCart, LoseRace, Reread, ReadCart, CartGone, Fail
  <2>3. CASE FindItem(t) \/ \E v \in Variants : InsertItem(t, v) \/ SelectItem(t, v)
    BY <1>5, <2>3 DEF FindItem, InsertItem, SelectItem, Fail
  <2>4. CASE UpdateItem(t) \/ DeleteItem(t) \/ ReadGuest(t) \/ CompareCart(t) \/ UpdateCart(t)
    BY <1>5, <2>4 DEF UpdateItem, DeleteItem, ReadGuest, CompareCart, UpdateCart, Fail
  <2> QED
    BY <1>7, <2>1, <2>2, <2>3, <2>4 DEF Run
<1>8. ASSUME NEW t \in Txns, Abort(t) PROVE Now' = Now
  BY <1>8, NoCommit DEF Abort
<1> QED
  BY <1>3, <1>6, <1>7, <1>8 DEF Next

LEMMA InitBag == Init => Bag!Init
<1> SUFFICES ASSUME Init PROVE Bag!Init
  OBVIOUS
<1>1. ASSUME NEW w \in Owners, NEW v \in Variants PROVE Now[w][v] = 0
  <2>1. ActiveCarts(w) = {}
    BY DEF Init, ActiveCarts
  <2> QED
    BY <2>1, InitSerial, BagBefore
<1>2. Now = [w \in Owners |-> [v \in Variants |-> Now[w][v]]]
  BY DEF Now, BagOf
<1>3. Now = [w \in Owners |-> [v \in Variants |-> 0]]
  BY <1>1, <1>2
<1> QED
  BY <1>3, BagIsNow DEF Bag!Init, Bag!Empty, Owners

(* One at a time, requests do to the carts what CartBags says: adding, setting *)
(* and merging happen at once or not at all, and a checkout takes the whole    *)
(* bag, whichever of their transactions is the last to commit and whatever     *)
(* crashes (CartsService, CartsController, CheckoutService).                   *)
THEOREM BagsImplemented == OneConnection => (Spec => BagsHold)
<1> SUFFICES ASSUME OneConnection PROVE Spec => BagsHold
  OBVIOUS
<1>1. SerialInv /\ [Next]_vars => SerialInv'
  BY NextSerial
<1>2. SerialInv => CartInv
  BY DEF SerialInv
<1>3. SerialInv /\ SerialInv' /\ [Next]_vars
        => [Bag!Next]_([w \in Owners |-> [v \in Variants |-> Units(v, ActiveCarts(w))]])
  <2> SUFFICES ASSUME SerialInv, SerialInv', [Next]_vars
               PROVE  Bag!Next \/ Now' = Now
    BY DEF Now, BagOf, Units, ActiveCarts
  <2>1. CartInv'
    BY DEF SerialInv
  <2> QED
    BY <2>1, NextBag
<1> QED
  BY <1>1, <1>3, InitSerial, InitBag, PTL DEF Spec, BagsHold, Bag!Spec
================================================================================
