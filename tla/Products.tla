-------------------------------- MODULE Products --------------------------------
(***************************************************************************)
(* One product and its variants, changed by ProductsService while          *)
(* customers buy: which variants there are, which one is the default and   *)
(* how many units are in stock.                                            *)
(*                                                                         *)
(* A call is a transaction; what it writes stays in tx[t] until it commits *)
(* and is undone when it throws.                                           *)
(***************************************************************************)
EXTENDS Integers, Sequences, FiniteSets

CONSTANTS
  Txns,                \* database connections
  MaxVariants,         \* bound: variant ids, numbered in the order of created_at
  Skus, AutoSku,       \* SKUs, and the one made up for a product without variants
  Lists,               \* lists of variants that a request may carry
  MaxCalls, MaxAborts  \* bounds: calls, and transactions that fail

Variants == 1..MaxVariants
None     == -1           \* a field that the request leaves out

VARIABLES
  status,   \* of the product
  row,      \* product_variants
  drawn,    \* number of variant ids used
  tx,       \* the transaction of each connection
  ledger,   \* history: stock as merchants set it, less what was sold since,
  crossed,  \* variants whose row changed while a call had them loaded,
  raced,    \* two calls have been under way together,
  doubled,  \* an update has taken one variant for two of its list,
  asked,    \* and the SKUs of the list that the last call has set (LoadNone: none)
  calls, aborts

history == <<ledger, crossed, raced, doubled, asked>>
bounds  == <<calls, aborts>>
db      == <<status, row>>
vars    == <<db, drawn, tx, history, bounds>>

Columns == {"sku", "stock", "def"}
Row   == [there : BOOLEAN, sku : Skus, stock : Int, def : BOOLEAN]
NoRow == [there |-> FALSE, sku |-> AutoSku, stock |-> 0, def |-> FALSE]
Blank == [v \in Variants |-> NoRow]

\* A variant of a request has an id (or none), a SKU, a stock (or none) and
\* isDefault. A request without variants is told from one with an empty list.
Absent == <<[id |-> None, sku |-> AutoSku, stock |-> None, def |-> FALSE]>>

Entity(d, s, f) == [there |-> TRUE, sku |-> d.sku, stock |-> s, def |-> f]

Call == [pc : {"idle", "product", "variants", "demote", "demoting", "delete", "promote",
               "compare", "write", "commit"},
         op     : {"none", "update", "createVariant", "updateVariant", "deleteVariant", "archive"},
         status : {"keep", "active", "archived"}, \* to be written to the product
         loaded : {"none", "active", "archived"}, \* as it was read
         seen   : SUBSET Variants,       \* variants loaded with the product
         list   : {Absent} \cup Lists,          \* dto.variants
         ent    : [Variants -> Row],     \* entities with what the call has set on them
         saves  : SUBSET Variants,       \* those it will save,
         given  : SUBSET Variants,       \* with a stock of the request
         gone   : SUBSET Variants,       \* rows it will delete
         next   : SUBSET Variants,       \* the variant it will make the default
         ins    : SUBSET Variants,       \* rows that save has to insert
         cols   : [Variants -> SUBSET Columns], \* columns that it found different
         todo   : SUBSET Variants,       \* rows that a statement has still to lock
         mine   : BOOLEAN,               \* product row written
         wrote  : SUBSET Variants, w : [Variants -> Row],
         asked  : {{}} \cup SUBSET Skus]

Idle == [pc |-> "idle", op |-> "none", status |-> "keep", loaded |-> "none", seen |-> {}, list |-> Absent,
         ent |-> Blank, saves |-> {}, given |-> {}, gone |-> {}, next |-> {}, ins |-> {},
         cols |-> [v \in Variants |-> {}], todo |-> {}, mine |-> FALSE,
         wrote |-> {}, w |-> Blank, asked |-> {}]

Init ==
  /\ status = "none" /\ row = Blank /\ drawn = 0
  /\ tx = [t \in Txns |-> Idle]
  /\ ledger = [v \in Variants |-> 0] /\ crossed = {} /\ raced = FALSE
  /\ doubled = FALSE /\ asked = {}
  /\ calls = 0 /\ aborts = 0

--------------------------------------------------------------------------------
Others(t)  == { u \in Txns \ {t} : tx[u].pc # "idle" }
Rows       == { v \in Variants : row[v].there }
View(t, v) == IF v \in tx[t].wrote THEN tx[t].w[v] ELSE row[v]
Free(t, v) == \A u \in Others(t) : v \notin tx[u].wrote
Holders(v) == { t \in Txns : tx[t].pc # "idle" /\ v \in tx[t].saves }
SkuTaken(s) == \E v \in Rows : row[v].sku = s

\* The first of the list that asks for it is the default; without any, the first.
IsDefault_EachAsIs(s, n) == s[n].def
IsDefault(s, n) == s[n].def /\ \A k \in 1..(n - 1) : ~s[k].def
NoDefault(s)    == \A n \in 1..Len(s) : ~s[n].def

Arrive(t, r) ==
  /\ tx[t].pc = "idle" /\ calls < MaxCalls
  /\ calls' = calls + 1
  /\ tx' = [tx EXCEPT ![t] = r]
  /\ raced' = (raced \/ Others(t) # {})
  /\ UNCHANGED <<db, ledger, crossed, doubled, asked, aborts>>

Step(t, r) == tx' = [tx EXCEPT ![t] = r] /\ UNCHANGED <<db, drawn, history, bounds>>

--------------------------------------------------------------------------------
(* create: nothing of it is seen by others before it commits.              *)

\* createVariantsForProduct
CreatedRows(s) ==
  [v \in Variants |->
     IF s = <<>> /\ v = 1 THEN [there |-> TRUE, sku |-> AutoSku, stock |-> 0, def |-> TRUE]
     ELSE IF v <= Len(s) THEN Entity(s[v], s[v].stock, IsDefault(s, v) \/ (NoDefault(s) /\ v = 1))
     ELSE NoRow]

Create(s) ==
  /\ status = "none" /\ calls < MaxCalls
  /\ \A n \in 1..Len(s) : s[n].stock # None
  /\ calls' = calls + 1
  /\ status' = "active"
  /\ row' = CreatedRows(s)
  /\ drawn' = IF s = <<>> THEN 1 ELSE Len(s)
  /\ ledger' = [v \in Variants |-> row'[v].stock]
  /\ asked' = IF s = <<>> THEN {AutoSku} ELSE { s[n].sku : n \in 1..Len(s) }
  /\ UNCHANGED <<tx, crossed, raced, doubled, aborts>>

--------------------------------------------------------------------------------
(* update, and delete, which archives.                                     *)

\* s: dto.variants, or Absent when the request leaves them out.
BeginUpdate(t, st, s) ==
  /\ status # "none"
  /\ Arrive(t, [Idle EXCEPT !.op = "update", !.status = st, !.loaded = status, !.seen = Rows,
                            !.list = s, !.pc = "product"])
  /\ UNCHANGED drawn

BeginArchive(t) ==
  /\ status # "none"
  /\ Arrive(t, [Idle EXCEPT !.op = "archive", !.status = "archived", !.loaded = status,
                            !.seen = Variants, !.pc = "product"])
  /\ UNCHANGED drawn

\* save(product) writes a status that differs from the row, be it only stale. It
\* takes a variant which the product was loaded without for a removed one, and
\* fails, as that cannot lose its product.
SaveProduct(t) ==
  /\ tx[t].pc = "product" /\ \A u \in Others(t) : ~tx[u].mine
  /\ Rows \subseteq tx[t].seen
  /\ LET st == IF tx[t].status = "keep" THEN tx[t].loaded ELSE tx[t].status
     IN  Step(t, [tx[t] EXCEPT !.status = st, !.mine = (st # status),
                               !.pc = IF tx[t].list = Absent THEN "commit" ELSE "variants"])

SaveProductFails(t) ==
  /\ tx[t].pc = "product" /\ ~(Rows \subseteq tx[t].seen)
  /\ Step(t, Idle)

\* The variant of the product that element n of the list stands for, if any.
Matched(s, n) == IF s[n].id \in Rows THEN {s[n].id} ELSE { v \in Rows : row[v].sku = s[n].sku }
New(s)        == { n \in 1..Len(s) : Matched(s, n) = {} }
Target(s, n)  == IF n \in New(s) THEN drawn + Cardinality({ k \in New(s) : k <= n })
                 ELSE CHOOSE v \in Matched(s, n) : TRUE
For(s, v)     == { n \in 1..Len(s) : Target(s, n) = v }
LastOf(N)     == CHOOSE n \in N : \A k \in N : k <= n

StockOf_OrZero(s, v) == IF s[LastOf(For(s, v))].stock = None THEN 0 ELSE s[LastOf(For(s, v))].stock
StockOf(s, v) == LET G == { n \in For(s, v) : s[n].stock # None }
                 IN  IF G = {} THEN row[v].stock ELSE s[LastOf(G)].stock

\* Variants of the product that no element of the list matches.
Unmatched_Kept(s) == {}
Unmatched(s) == Rows \ { Target(s, n) : n \in 1..Len(s) }

Synced(s, v) == LET n == LastOf(For(s, v))
                IN  Entity(s[n], StockOf(s, v), IsDefault(s, n) \/ (NoDefault(s) /\ 1 \in For(s, v)))

\* The variants own are set to E, those of given with a stock of the request; the
\* rows old are to be deleted first.
Load(t, own, old, given, E, A) ==
  /\ own \subseteq Variants
  /\ tx' = [tx EXCEPT ![t] = [@ EXCEPT !.saves = own, !.gone = old, !.given = given, !.ent = E, !.asked = A,
                                       !.pc = IF old = {} THEN "compare" ELSE "delete"]]

\* Variants of the product are read, matched by id or SKU, and set; a new one has
\* to have a stock.
LoadList(t, s) ==
  IF \E n \in New(s) : s[n].stock = None
  THEN tx' = [tx EXCEPT ![t] = Idle] /\ UNCHANGED <<drawn, doubled>>
  ELSE LET all == { Target(s, n) : n \in 1..Len(s) }
       IN  /\ Load(t, all, Unmatched(s), { v \in all : \E n \in For(s, v) : s[n].stock # None },
                   [v \in Variants |-> IF v \in all THEN Synced(s, v) ELSE NoRow],
                   { s[n].sku : n \in 1..Len(s) })
           /\ drawn' = drawn + Cardinality({ Target(s, n) : n \in New(s) })
           /\ doubled' = (doubled \/ Cardinality(all) < Len(s))

\* An empty list: one variant takes the place of all, where the docs have an error.
LoadNone(t) ==
  LET v == drawn + 1
  IN  /\ Load(t, {v}, Rows, {v},
              [Blank EXCEPT ![v] = [there |-> TRUE, sku |-> AutoSku, stock |-> 0, def |-> TRUE]], {AutoSku})
      /\ drawn' = v /\ UNCHANGED doubled

LoadVariants(t) ==
  /\ tx[t].pc = "variants"
  /\ IF tx[t].list = <<>> THEN LoadNone(t) ELSE LoadList(t, tx[t].list)
  /\ UNCHANGED <<db, ledger, crossed, raced, asked, bounds>>

--------------------------------------------------------------------------------
(* createVariant, updateVariant and deleteVariant.                         *)

BeginCreateVariant(t, d) ==
  /\ status # "none" /\ ~SkuTaken(d.sku) /\ d.stock # None /\ drawn < MaxVariants
  /\ LET v == drawn + 1
     IN  Arrive(t, [Idle EXCEPT !.op = "createVariant", !.saves = {v}, !.given = {v},
                      !.ent[v] = Entity(d, d.stock, d.def),
                      !.pc = IF d.def THEN "demote" ELSE "compare"])
  /\ drawn' = drawn + 1

\* A request that takes the mark from the default variant is refused.
BeginUpdateVariant(t, v, d) ==
  /\ v \in Rows /\ (d.sku = row[v].sku \/ ~SkuTaken(d.sku))
  /\ Arrive(t, [Idle EXCEPT !.op = "updateVariant", !.saves = {v},
       !.given = IF d.stock = None THEN {} ELSE {v},
       !.ent[v] = Entity(d, IF d.stock = None THEN row[v].stock ELSE d.stock, row[v].def \/ d.def),
       !.pc = IF d.def /\ ~row[v].def THEN "demote" ELSE "compare"])
  /\ UNCHANGED drawn

Oldest(S) == CHOOSE v \in S : \A u \in S : v <= u

\* The oldest of the variants that are left becomes the default.
Heir_Nobody(v) == {}
Heir(v) == IF row[v].def THEN {Oldest(Rows \ {v})} ELSE {}

BeginDeleteVariant(t, v) ==
  /\ v \in Rows /\ Cardinality(Rows) > 1
  /\ Arrive(t, [Idle EXCEPT !.op = "deleteVariant", !.gone = {v}, !.next = Heir(v), !.pc = "delete"])
  /\ UNCHANGED drawn

--------------------------------------------------------------------------------
(* The statements.                                                         *)

\* UPDATE ... SET is_default = false WHERE product_id: the rows it sees, one by one.
StartDemotion(t) ==
  /\ tx[t].pc = "demote"
  /\ Step(t, [tx[t] EXCEPT !.todo = Rows, !.pc = IF Rows = {} THEN "compare" ELSE "demoting"])

Demote(t, v) ==
  /\ tx[t].pc = "demoting" /\ v \in tx[t].todo /\ Free(t, v)
  /\ LET rest == tx[t].todo \ {v}
         r == [tx[t] EXCEPT !.todo = rest, !.pc = IF rest = {} THEN "compare" ELSE @]
     IN  Step(t, IF row[v].there
                 THEN [r EXCEPT !.wrote = @ \cup {v}, !.w[v] = [row[v] EXCEPT !.def = FALSE]]
                 ELSE r)

DeleteRow(t, v) ==
  /\ tx[t].pc = "delete" /\ v \in tx[t].gone /\ Free(t, v)
  /\ LET rest == tx[t].gone \ {v}
     IN  Step(t, [tx[t] EXCEPT !.gone = rest, !.wrote = @ \cup {v}, !.w[v] = NoRow,
                    !.pc = IF rest # {} THEN @
                           ELSE IF tx[t].op = "update" THEN "compare"
                           ELSE IF tx[t].next = {} THEN "commit" ELSE "promote"])

Promote(t) ==
  /\ tx[t].pc = "promote"
  /\ \E v \in tx[t].next :
       /\ Free(t, v)
       /\ Step(t, IF row[v].there
                  THEN [tx[t] EXCEPT !.wrote = @ \cup {v}, !.w[v] = [row[v] EXCEPT !.def = TRUE],
                                     !.pc = "commit"]
                  ELSE [tx[t] EXCEPT !.pc = "commit"])

\* save: a SELECT of the entities; those without a row are inserted.
Compare(t) ==
  /\ tx[t].pc = "compare"
  /\ LET r == tx[t]
         I == { v \in r.saves : ~View(t, v).there }
         C == [v \in Variants |-> IF v \in r.saves \ I
                                  THEN { c \in Columns : r.ent[v][c] # View(t, v)[c] } ELSE {}]
         T == I \cup { v \in r.saves : C[v] # {} }
     IN  Step(t, [r EXCEPT !.ins = I, !.cols = C, !.todo = T,
                           !.pc = IF T = {} THEN "commit" ELSE "write"])

\* Another row has the SKU, or may have it once its transaction ends.
Clash(t, v)   == \E u \in Variants \ {v} : View(t, u).there /\ View(t, u).sku = tx[t].ent[v].sku
Pending(t, v) == \E u \in Variants \ {v}, o \in Others(t) : u \in tx[o].wrote
                   /\ tx[t].ent[v].sku \in {row[u].sku, tx[o].w[u].sku}

\* Inserts go before updates.
Turn(t, v) == v \in tx[t].todo /\ (v \in tx[t].ins \/ tx[t].todo \cap tx[t].ins = {})

Unique(t, v) == v \in tx[t].ins \/ "sku" \in tx[t].cols[v]

Write(t, v) ==
  /\ tx[t].pc = "write" /\ Turn(t, v) /\ Free(t, v)
  /\ Unique(t, v) => ~Pending(t, v) /\ ~Clash(t, v)
  /\ v \in tx[t].ins => ~row[v].there
  /\ LET rest == tx[t].todo \ {v}
         r == [tx[t] EXCEPT !.todo = rest, !.pc = IF rest = {} THEN "commit" ELSE @]
         C == tx[t].cols[v]
     IN  Step(t, IF v \in tx[t].ins THEN [r EXCEPT !.wrote = @ \cup {v}, !.w[v] = tx[t].ent[v]]
                 ELSE IF View(t, v).there
                 THEN [r EXCEPT !.wrote = @ \cup {v},
                        !.w[v] = [c \in DOMAIN NoRow |-> IF c \in C THEN tx[t].ent[v][c] ELSE View(t, v)[c]]]
                 ELSE r)

\* DUPLICATE_RESOURCE: the unique index refuses the SKU and the call rolls back.
Refused(t) ==
  /\ tx[t].pc = "write"
  /\ \E v \in Variants : Turn(t, v) /\ Unique(t, v) /\ ~Pending(t, v) /\ Clash(t, v)
  /\ Step(t, Idle)

Commit(t) ==
  /\ tx[t].pc = "commit"
  /\ LET r == tx[t]
     IN  /\ row' = [v \in Variants |-> View(t, v)]
         /\ status' = IF r.mine THEN r.status ELSE status
         /\ ledger' = [v \in Variants |-> IF v \in r.given THEN r.ent[v].stock ELSE ledger[v]]
         /\ crossed' = crossed \cup { v \in r.wrote : \E u \in Others(t) : v \in tx[u].saves }
         /\ asked' = IF r.op \in {"archive"} \/ (r.op = "update" /\ r.list = Absent) THEN asked
                     ELSE IF r.op = "update" /\ r.list = <<>> THEN {} ELSE r.asked
  /\ tx' = [tx EXCEPT ![t] = Idle]
  /\ UNCHANGED <<drawn, raced, doubled, bounds>>

\* Any statement can fail: a variant in a cart cannot be deleted, a deadlock
\* is broken, the connection is lost.
Abort(t) ==
  /\ tx[t].pc # "idle" /\ aborts < MaxAborts
  /\ aborts' = aborts + 1
  /\ tx' = [tx EXCEPT ![t] = Idle] /\ UNCHANGED <<db, drawn, history, calls>>

\* A checkout takes one unit, if there is one.
Sell(v) ==
  /\ v \in Rows /\ row[v].stock > 0 /\ \A t \in Txns : v \notin tx[t].wrote
  /\ row' = [row EXCEPT ![v].stock = @ - 1]
  /\ ledger' = [ledger EXCEPT ![v] = @ - 1]
  /\ crossed' = IF Holders(v) # {} THEN crossed \cup {v} ELSE crossed
  /\ UNCHANGED <<status, drawn, tx, raced, doubled, asked, bounds>>

Items == UNION { { s[n] : n \in 1..Len(s) } : s \in Lists }

Begin(t) ==
  \/ \E st \in {"keep", "active", "archived"}, s \in Lists \cup {Absent} : BeginUpdate(t, st, s)
  \/ BeginArchive(t)
  \/ \E d \in Items : BeginCreateVariant(t, d) \/ \E v \in Variants : BeginUpdateVariant(t, v, d)
  \/ \E v \in Variants : BeginDeleteVariant(t, v)

Run(t) ==
  \/ SaveProduct(t) \/ SaveProductFails(t) \/ LoadVariants(t) \/ StartDemotion(t) \/ Promote(t)
  \/ Compare(t) \/ Refused(t) \/ Commit(t)
  \/ \E v \in Variants : Demote(t, v) \/ DeleteRow(t, v) \/ Write(t, v)

Next ==
  \/ \E s \in Lists : Create(s)
  \/ \E t \in Txns : Begin(t) \/ Run(t) \/ Abort(t)
  \/ \E v \in Variants : Sell(v)

Spec == Init /\ [][Next]_vars

--------------------------------------------------------------------------------
TypeOK ==
  /\ status \in {"none", "active", "archived"} /\ row \in [Variants -> Row] /\ drawn \in Nat
  /\ tx \in [Txns -> Call]
  /\ ledger \in [Variants -> Int] /\ crossed \in SUBSET Variants
  /\ raced \in BOOLEAN /\ doubled \in BOOLEAN /\ asked \in SUBSET Skus
  /\ calls \in Nat /\ aborts \in Nat

(* A product always has a variant, and exactly one of them is the default, as   *)
(* long as its calls do not overlap and no update has matched one variant twice *)
(* (ProductsService, and the comment of the entity ProductVariant).             *)
OneDefault ==
  status # "none" /\ ~raced /\ ~doubled =>
    \E v \in Rows : \A u \in Rows : row[u].def <=> u = v

(* No sale is lost: the stock of a variant is what a merchant has set, less     *)
(* what was sold since, unless the row changed while a call of a merchant held  *)
(* it in memory. Demotions, promotions and changes of other variants keep it.   *)
StockKept == \A v \in Rows : v \in crossed \/ row[v].stock = ledger[v]

(* After an update that carries variants the product has exactly the SKUs of    *)
(* its list, however elements and variants match, unless calls overlap or one   *)
(* variant was matched twice (update). Nothing is said of an empty list, for    *)
(* which docs/architecture/products-and-categories.md:70-73 has an error and the *)
(* code one variant of its own in place of all (LoadNone).                      *)
ListApplied == asked # {} /\ ~raced /\ ~doubled => { row[v].sku : v \in Rows } = asked
================================================================================
