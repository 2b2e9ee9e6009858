----------------------------- MODULE ProductsProofs -----------------------------
(***************************************************************************)
(* Proofs about Products, for every number of calls, variants and lists:   *)
(* that no stock is lost, that one variant is the default and that a list  *)
(* of variants is taken over.                                              *)
(*                                                                         *)
(* Formed is what a call is like by itself, Tracks what it knows of the    *)
(* stock: what it has loaded is still so, or a sale crossed it. The        *)
(* default and the SKUs rest on being alone: AloneOn says, for each        *)
(* operation, what its statements have made of the rows so far.            *)
(***************************************************************************)
EXTENDS MCCatalogue, Sums, TLAPS

--------------------------------------------------------------------------------
\* A finite set of integers has a greatest element.
LEMMA Greatest ==
  ASSUME NEW S, IsFiniteSet(S), S \subseteq Int, S # {}
  PROVE  \E n \in S : \A m \in S : m <= n
<1> DEFINE Above(k) == { m \in S : k <= m }
           C == { Above(k) : k \in S }
<1>1. C \subseteq SUBSET S /\ C # {}
  OBVIOUS
<1>2. PICK T \in C : \A U \in C : U \subseteq T => U = T
  <2> DEFINE X == S
  <2>1. IsFiniteSet(X) /\ C \subseteq SUBSET X /\ C # {}
    BY <1>1
  <2> HIDE DEF C, X
  <2> QED
    BY ONLY <2>1, Smallest
<1>3. PICK k \in S : T = Above(k)
  OBVIOUS
<1>4. ASSUME NEW m \in S PROVE m <= k
  <2> SUFFICES ASSUME k < m PROVE FALSE
    OBVIOUS
  <2>1. \A j \in S : j \in Int
    OBVIOUS
  <2>2. Above(m) \subseteq Above(k)
    <3>1. ASSUME NEW j \in S, m <= j PROVE k <= j
      <4>1. j \in Int /\ m \in Int /\ k \in Int
        BY <2>1
      <4> QED
        BY <3>1, <4>1
    <3> QED
      BY <3>1
  <2>3. k \in Above(k) /\ k \notin Above(m)
    BY <2>1
  <2>4. Above(m) \in C
    OBVIOUS
  <2> QED
    BY <1>2, <1>3, <2>2, <2>3, <2>4
<1> QED
  BY <1>4

--------------------------------------------------------------------------------
(* Products: stock.                                                        *)

Seen(r, R, v) == IF v \in r.wrote THEN r.w[v] ELSE R[v]
Ends(r) == r.pc \in {"write", "commit"}

\* What a call is like by itself, n variant ids being drawn.
Formed(r, n) ==
  /\ r.pc = "idle" => r = PV!Idle
  /\ r.pc = "product" => r.loaded # "none"
  /\ r.pc = "product" => r.op = "update" \/ (r.op = "archive" /\ r.list = PV!Absent)
  /\ r.pc = "variants" => r.op = "update"
  /\ r.mine => r.status # "keep"
  /\ r.pc \in {"product", "variants"} => r.saves = {} /\ r.wrote = {}
  /\ r.pc = "promote" \/ (r.pc = "delete" /\ r.op # "update") => r.saves = {}
  /\ r.pc \notin {"demoting", "write"} => r.todo = {}
  /\ r.pc = "write" => r.todo \subseteq r.saves
  /\ r.given \subseteq r.saves
  /\ r.gone \cap r.saves = {}
  /\ \A v \in r.saves : v <= n /\ r.ent[v].there
  /\ \A v \in r.wrote : IF r.w[v].there THEN v <= n ELSE v \notin r.saves

\* What it knows of the stock of the rows R: unless the row has changed since it
\* was loaded (c), it leaves the stock as it is or makes it what the request says.
Tracks(r, R, c) ==
  /\ \A v \in r.saves \ r.given : v \in c \/ (R[v].there /\ R[v].stock = r.ent[v].stock)
  /\ \A v \in r.wrote : r.w[v].there /\ ~(Ends(r) /\ v \in r.given \ r.todo) =>
       v \in c \/ (R[v].there /\ R[v].stock = r.w[v].stock)
  /\ Ends(r) => \A v \in r.given \ r.todo : Seen(r, R, v).there =>
       v \in c \/ Seen(r, R, v).stock = r.ent[v].stock
  /\ r.pc = "write" =>
       /\ \A v \in (r.todo \cap r.given) \ r.ins :
            v \in c \/ "stock" \in r.cols[v] \/ Seen(r, R, v).stock = r.ent[v].stock
       /\ \A v \in (r.todo \cap r.ins) \ r.given : v \in c

Begun == status = "none" => /\ \A v \in PV!Variants : ~product[v].there
                            /\ \A t \in Calls : productTx[t].pc = "idle"

ProductInv ==
  /\ PV!TypeOK /\ StockKept /\ Begun
  /\ \A v \in PV!Variants : product[v].there => v <= given
  /\ \A t \in Calls : Formed(productTx[t], given) /\ Tracks(productTx[t], product, crossed)
  /\ \A t, u \in Calls : t # u => productTx[t].wrote \cap productTx[u].wrote = {}

--------------------------------------------------------------------------------
(* Products: a call that is alone.                                         *)

ThereIn(R) == { v \in PV!Variants : R[v].there }
HasDefault(R) == \E v \in ThereIn(R) : \A u \in ThereIn(R) : R[u].def <=> u = v
SkusIn(R) == { R[v].sku : v \in ThereIn(R) }
WithList(r) == r.op = "update" /\ r.list # PV!Absent

\* What the statements have made of the entities so far.
Saving(r, R) ==
  /\ Ends(r) => \A v \in r.saves \ r.todo : /\ Seen(r, R, v).there
                                            /\ Seen(r, R, v).sku = r.ent[v].sku
                                            /\ Seen(r, R, v).def = r.ent[v].def
  /\ r.pc = "write" => \A v \in r.todo \ r.ins :
       /\ Seen(r, R, v).there
       /\ "sku" \in r.cols[v] \/ Seen(r, R, v).sku = r.ent[v].sku
       /\ "def" \in r.cols[v] \/ Seen(r, R, v).def = r.ent[v].def

\* One of the entities E of S is the default, and A are their SKUs.
Chosen(S, E, A) == /\ \E d \in S : \A v \in S : E[v].def <=> v = d
                   /\ { E[v].sku : v \in S } = A

\* update with a list: the variants of the list remain, with its SKUs and one default.
Listing(r, R) ==
  r.pc \in {"delete", "compare", "write", "commit"} =>
    /\ ThereIn(R) \subseteq r.saves \cup r.gone \cup r.wrote
    /\ \A v \in r.wrote \ r.saves : ~r.w[v].there
    /\ r.pc # "delete" => r.gone = {}
    /\ Chosen(r.saves, r.ent, r.asked)

\* createVariant and updateVariant: v is the default and the others no longer, or
\* everything stays as it was.
Marking(r, R, v) ==
  /\ r.saves = {v} /\ r.gone = {} /\ r.asked = {}
  /\ r.pc \in {"demote", "demoting", "compare", "write", "commit"}
  /\ r.pc \in {"demote", "demoting"} => r.ent[v].def
  /\ r.pc = "demote" => r.wrote = {}
  /\ r.pc = "demoting" => /\ ThereIn(R) = r.wrote \cup r.todo
                          /\ \A u \in r.wrote : r.w[u].there /\ ~r.w[u].def
  /\ r.pc \in {"compare", "write", "commit"} =>
       /\ \A u \in PV!Variants \ {v} : Seen(r, R, u).there = R[u].there
       /\ \/ r.ent[v].def /\ \A u \in ThereIn(R) \ {v} : ~Seen(r, R, u).def
          \/ /\ \A u \in PV!Variants \ {v} : Seen(r, R, u).def = R[u].def
             /\ r.ent[v].def = (R[v].there /\ R[v].def)

\* deleteVariant: the mark of v, if it has it, goes to another.
Removing(r, R, v) ==
  /\ v \in ThereIn(R) /\ r.saves = {} /\ r.asked = {}
  /\ r.pc \in {"delete", "promote", "commit"}
  /\ r.pc = "delete" => r.gone = {v} /\ r.wrote = {}
  /\ r.pc = "promote" => r.wrote = {v} /\ ~r.w[v].there
  /\ r.pc \in {"delete", "promote"} => IF R[v].def THEN \E u \in ThereIn(R) \ {v} : r.next = {u} ELSE r.next = {}
  /\ r.pc = "commit" =>
       /\ ~Seen(r, R, v).there
       /\ \A u \in PV!Variants \ {v} : Seen(r, R, u).there = R[u].there
       /\ IF R[v].def THEN \E d \in ThereIn(R) \ {v} : \A u \in ThereIn(R) \ {v} :
                             Seen(r, R, u).def = (u = d \/ R[u].def)
          ELSE \A u \in ThereIn(R) \ {v} : Seen(r, R, u).def = R[u].def

AloneOn(r, R) ==
  /\ Saving(r, R)
  /\ r.op # "none" /\ (r.op = "update" => r.pc \notin {"demote", "demoting", "promote"})
  /\ WithList(r) => Listing(r, R)
  /\ r.op = "archive" => r.list = PV!Absent
  /\ r.op = "archive" \/ (r.op = "update" /\ r.list = PV!Absent) => r.wrote = {} /\ r.pc \in {"product", "commit"}
  /\ r.op \in {"createVariant", "updateVariant"} => \E v \in PV!Variants : Marking(r, R, v)
  /\ r.op = "deleteVariant" => \E v \in PV!Variants : Removing(r, R, v)

ListInv ==
  ~raced => /\ \A t, u \in Calls : productTx[t].pc # "idle" /\ productTx[u].pc # "idle" => t = u
            /\ ~doubled => /\ status # "none" => HasDefault(product)
                           /\ asked # {} => SkusIn(product) = asked
                           /\ \A t \in Calls : productTx[t].pc # "idle" => AloneOn(productTx[t], product)

DtoType == [id : Int, sku : Skus, stock : Int, def : BOOLEAN]

LEMMA ProductTypes ==
  /\ PV!NoRow \in PV!Row /\ PV!Blank \in [PV!Variants -> PV!Row] /\ PV!Idle \in PV!Call
  /\ \A d \in DtoType, n \in Int, f \in BOOLEAN : PV!Entity(d, n, f) \in PV!Row
  /\ \A d \in DtoType, n \in Int, f \in BOOLEAN :
       /\ PV!Entity(d, n, f).there /\ PV!Entity(d, n, f).sku = d.sku
       /\ PV!Entity(d, n, f).stock = n /\ PV!Entity(d, n, f).def = f
  /\ ~PV!NoRow.there
<1>1. PV!NoRow \in PV!Row
  BY ProductsAssumption DEF PV!NoRow, PV!Row
<1>2. PV!Blank \in [PV!Variants -> PV!Row]
  BY <1>1 DEF PV!Blank
<1>3. [v \in PV!Variants |-> {}] \in [PV!Variants -> SUBSET PV!Columns]
  OBVIOUS
<1>4. PV!Idle \in PV!Call
  BY <1>2, <1>3 DEF PV!Idle, PV!Call
<1>5. \A d \in DtoType, n \in Int, f \in BOOLEAN :
        /\ PV!Entity(d, n, f) \in PV!Row
        /\ PV!Entity(d, n, f).there /\ PV!Entity(d, n, f).sku = d.sku
        /\ PV!Entity(d, n, f).stock = n /\ PV!Entity(d, n, f).def = f
  BY DEF PV!Entity, PV!Row, DtoType
<1>6. ~PV!NoRow.there
  BY DEF PV!NoRow
<1> QED
  BY <1>1, <1>2, <1>4, <1>5, <1>6

LEMMA IdleIs ==
  /\ PV!Idle.pc = "idle" /\ PV!Idle.op = "none" /\ ~PV!Idle.mine /\ PV!Idle.saves = {} /\ PV!Idle.wrote = {}
  /\ PV!Idle.todo = {} /\ PV!Idle.given = {} /\ PV!Idle.gone = {} /\ PV!Idle.list = PV!Absent
  /\ PV!Idle.asked = {} /\ PV!Idle.ins = {} /\ PV!Idle.next = {}
  /\ \A n : Formed(PV!Idle, n)
  /\ \A R, c : Tracks(PV!Idle, R, c)
<1>1. /\ PV!Idle.pc = "idle" /\ PV!Idle.op = "none" /\ ~PV!Idle.mine /\ PV!Idle.saves = {} /\ PV!Idle.wrote = {}
      /\ PV!Idle.todo = {} /\ PV!Idle.given = {} /\ PV!Idle.gone = {} /\ PV!Idle.list = PV!Absent
      /\ PV!Idle.asked = {} /\ PV!Idle.ins = {} /\ PV!Idle.next = {}
  BY DEF PV!Idle
<1>2. /\ \A n : Formed(PV!Idle, n)
      /\ \A R, c : Tracks(PV!Idle, R, c)
  BY <1>1 DEF Formed, Tracks, Ends
<1> QED
  BY <1>1, <1>2

LEMMA RowOf ==
  ASSUME ProductInv
  PROVE  /\ product \in [PV!Variants -> PV!Row]
         /\ \A v \in PV!Variants : /\ product[v].there \in BOOLEAN /\ product[v].sku \in Skus
                                   /\ product[v].stock \in Int /\ product[v].def \in BOOLEAN
         /\ PV!Variants \subseteq Nat /\ PV!Rows = ThereIn(product) /\ given \in Nat
BY SMTT(20), ProductsAssumption DEF ProductInv, PV!TypeOK, PV!Row, PV!Rows, ThereIn, PV!Variants

LEMMA HeldCall ==
  ASSUME ProductInv, NEW t \in Calls, NEW x, x = productTx[t]
  PROVE  x \in PV!Call /\ Formed(x, given) /\ Tracks(x, product, crossed)
BY DEF ProductInv, PV!TypeOK

\* A step of the call t that leaves the product as it is.
LEMMA ProductLocal ==
  ASSUME ProductInv, NEW t \in Calls, NEW r \in PV!Call, productTx' = [productTx EXCEPT ![t] = r],
         UNCHANGED <<status, product, ledger, crossed, asked>>, given' \in Nat, given <= given',
         raced' \in BOOLEAN, doubled' \in BOOLEAN, productCalls' \in Nat, productAborts' \in Nat,
         Formed(r, given'), Tracks(r, product, crossed), status = "none" => r.pc = "idle",
         \A u \in Calls \ {t} : r.wrote \cap productTx[u].wrote = {}
  PROVE  ProductInv'
<1>1. \A u \in Calls : productTx'[u] = IF u = t THEN r ELSE productTx[u]
  BY DEF ProductInv, PV!TypeOK
<1>2. PV!TypeOK'
  BY DEF ProductInv, PV!TypeOK
<1>3. StockKept' /\ \A v \in PV!Variants : product'[v].there => v <= given'
  <2>1. PV!Variants \subseteq Int /\ given \in Int
    BY RowOf
  <2> QED
    BY <2>1 DEF ProductInv, StockKept, PV!StockKept, PV!Rows
<1>4. Begun'
  BY <1>1 DEF ProductInv, Begun
<1>5. ASSUME NEW u \in Calls PROVE Formed(productTx'[u], given') /\ Tracks(productTx'[u], product', crossed')
  <2>1. CASE u = t
    BY <1>1, <2>1
  <2>2. CASE u # t
    <3>1. /\ productTx'[u] = productTx[u] /\ Tracks(productTx[u], product, crossed) /\ Formed(productTx[u], given)
          /\ productTx[u].saves \subseteq PV!Variants /\ productTx[u].wrote \subseteq PV!Variants
      BY <1>1, <2>2, HeldCall DEF PV!Call
    <3>2. PV!Variants \subseteq Int /\ given \in Int /\ given' \in Int
      BY RowOf
    <3>3. Formed(productTx[u], given')
      <4>1. \A v \in PV!Variants : v <= given => v <= given'
        BY <3>2
      <4>2. /\ \A v \in productTx[u].saves : v <= given' /\ productTx[u].ent[v].there
            /\ \A v \in productTx[u].wrote : IF productTx[u].w[v].there THEN v <= given' ELSE v \notin productTx[u].saves
        BY <3>1, <4>1 DEF Formed
      <4> QED
        BY <3>1, <4>2 DEF Formed
    <3> QED
      BY <3>1, <3>3
  <2> QED
    BY <2>1, <2>2
<1>6. \A a, b \in Calls : a # b => productTx'[a].wrote \cap productTx'[b].wrote = {}
  BY <1>1 DEF ProductInv
<1> QED
  BY <1>2, <1>3, <1>4, <1>5, <1>6 DEF ProductInv

LEMMA ListLocal ==
  ASSUME ProductInv, ListInv, NEW t \in Calls, NEW r \in PV!Call, productTx' = [productTx EXCEPT ![t] = r],
         UNCHANGED <<status, product, asked>>, raced => raced', doubled => doubled',
         ~raced' /\ r.pc # "idle" => \A u \in Calls \ {t} : productTx[u].pc = "idle",
         ~raced' /\ ~doubled' /\ r.pc # "idle" => AloneOn(r, product)
  PROVE  ListInv'
<1>1. \A u \in Calls : productTx'[u] = IF u = t THEN r ELSE productTx[u]
  BY DEF ProductInv, PV!TypeOK
<1> SUFFICES ASSUME ~raced'
             PROVE  /\ \A a, b \in Calls : productTx'[a].pc # "idle" /\ productTx'[b].pc # "idle" => a = b
                    /\ ~doubled' => \A a \in Calls : productTx'[a].pc # "idle" => AloneOn(productTx'[a], product)
  BY DEF ListInv
<1>2. \A a, b \in Calls : productTx'[a].pc # "idle" /\ productTx'[b].pc # "idle" => a = b
  BY <1>1 DEF ListInv
<1>3. ASSUME ~doubled', NEW a \in Calls, productTx'[a].pc # "idle" PROVE AloneOn(productTx'[a], product)
  BY <1>1, <1>3 DEF ListInv
<1> QED
  BY <1>2, <1>3

\* A statement of a transaction: it may write rows that are free.
LEMMA StatementKeeps ==
  ASSUME ProductInv, NEW t \in Calls, NEW x, x = productTx[t], x.pc # "idle",
         NEW r \in PV!Call, PV!Step(t, r), Formed(r, given), Tracks(r, product, crossed),
         \A v \in r.wrote \ x.wrote : PV!Free(t, v),
         AloneOn(x, product) /\ HasDefault(product) /\ r.pc # "idle" => AloneOn(r, product)
  PROVE  ProductInv' /\ (ListInv => ListInv')
<1>1. /\ productTx' = [productTx EXCEPT ![t] = r]
      /\ UNCHANGED <<status, product, given, ledger, crossed, raced, doubled, asked, productCalls, productAborts>>
  BY DEF PV!Step, PV!db, PV!history, PV!bounds
<1>2. status # "none"
  BY DEF ProductInv, Begun
<1>3. ASSUME NEW u \in Calls \ {t}, NEW v \in r.wrote, v \in productTx[u].wrote PROVE FALSE
  <2>1. productTx[u].pc # "idle"
    BY <1>3, IdleIs, HeldCall DEF Formed
  <2>2. v \in x.wrote
    BY <1>3, <2>1 DEF PV!Free, PV!Others
  <2> QED
    BY <1>3, <2>2 DEF ProductInv
<1>4. given' \in Nat /\ given <= given' /\ raced' \in BOOLEAN /\ doubled' \in BOOLEAN
      /\ productCalls' \in Nat /\ productAborts' \in Nat
  BY <1>1 DEF ProductInv, PV!TypeOK
<1>5. ProductInv'
  BY <1>1, <1>2, <1>3, <1>4, ProductLocal
<1>6. ASSUME ListInv PROVE ListInv'
  <2>1. ASSUME ~raced, ~doubled, r.pc # "idle" PROVE AloneOn(r, product)
    BY <1>2, <1>6, <2>1 DEF ListInv
  <2>2. ~raced => \A u \in Calls \ {t} : productTx[u].pc = "idle"
    BY <1>6 DEF ListInv
  <2> QED
    BY <1>1, <1>6, <2>1, <2>2, ListLocal
<1> QED
  BY <1>5, <1>6

\* A call that ends without a trace.
LEMMA DropProduct ==
  ASSUME ProductInv, NEW t \in Calls, productTx' = [productTx EXCEPT ![t] = PV!Idle],
         UNCHANGED <<status, product, given, ledger, crossed, raced, doubled, asked>>,
         productCalls' \in Nat, productAborts' \in Nat
  PROVE  ProductInv' /\ (ListInv => ListInv')
<1>1. PV!Idle \in PV!Call
  BY ProductTypes
<1>2. given' \in Nat /\ given <= given' /\ raced' \in BOOLEAN /\ doubled' \in BOOLEAN
  BY DEF ProductInv, PV!TypeOK
<1>3. ProductInv'
  BY <1>1, <1>2, IdleIs, ProductLocal
<1>4. ListInv => ListInv'
  BY <1>1, IdleIs, ListLocal
<1> QED
  BY <1>3, <1>4

\* A request begins.
LEMMA ArrivalKeeps ==
  ASSUME ProductInv, NEW t \in Calls, NEW r \in PV!Call, PV!Arrive(t, r), given' \in Nat, given <= given',
         status # "none", Formed(r, given'), Tracks(r, product, crossed), r.wrote = {},
         HasDefault(product) => AloneOn(r, product)
  PROVE  ProductInv' /\ (ListInv => ListInv')
<1>1. /\ productTx' = [productTx EXCEPT ![t] = r] /\ raced' = (raced \/ PV!Others(t) # {})
      /\ UNCHANGED <<status, product, ledger, crossed, doubled, asked, productAborts>>
      /\ productCalls' = productCalls + 1
  BY DEF PV!Arrive, PV!db
<1>2. raced' \in BOOLEAN /\ doubled' \in BOOLEAN /\ productCalls' \in Nat /\ productAborts' \in Nat
  BY <1>1 DEF ProductInv, PV!TypeOK
<1>3. ProductInv'
  BY <1>1, <1>2, ProductLocal
<1>4. ASSUME ListInv PROVE ListInv'
  <2>1. ~raced' => \A u \in Calls \ {t} : productTx[u].pc = "idle"
    BY <1>1 DEF PV!Others
  <2>2. ~raced' /\ ~doubled' => HasDefault(product)
    BY <1>1, <1>4 DEF ListInv
  <2> QED
    BY <1>1, <1>4, <2>1, <2>2, ListLocal
<1> QED
  BY <1>3, <1>4

LEMMA SaveProductKeeps ==
  ASSUME ProductInv, NEW t \in Calls, PV!SaveProduct(t)
  PROVE  ProductInv' /\ (ListInv => ListInv')
<1>1. PICK x : x = productTx[t]
  OBVIOUS
<1>2. x \in PV!Call /\ Formed(x, given) /\ x.pc = "product"
  BY <1>1, HeldCall DEF PV!SaveProduct
<1>3. PICK st : st = IF x.status = "keep" THEN x.loaded ELSE x.status
  OBVIOUS
<1>4. st \in {"active", "archived"}
  BY <1>2, <1>3 DEF Formed, PV!Call
<1>5. PICK p : p = IF x.list = PV!Absent THEN "commit" ELSE "variants"
  OBVIOUS
<1>6. PICK m : m = (st # status)
  OBVIOUS
<1> DEFINE r == [x EXCEPT !.status = st, !.mine = m, !.pc = p]
<1>7. PV!Step(t, r)
  BY <1>1, <1>3, <1>5, <1>6 DEF PV!SaveProduct
<1>8. r \in PV!Call
  <2>1. p \in {"commit", "variants"} /\ m \in BOOLEAN
    BY <1>5, <1>6
  <2> QED
    BY <1>2, <1>4, <2>1 DEF PV!Call
<1>9. /\ r.pc = p /\ r.op = x.op /\ r.list = x.list /\ r.saves = x.saves /\ r.wrote = x.wrote /\ r.todo = x.todo
      /\ r.given = x.given /\ r.gone = x.gone /\ r.status = st
  BY <1>2 DEF PV!Call
<1> HIDE DEF r
<1>10. x.saves = {} /\ x.wrote = {} /\ x.todo = {} /\ x.given = {}
  BY <1>2 DEF Formed
<1>11. Formed(r, given) /\ Tracks(r, product, crossed)
  <2>1. (p = "commit" \/ p = "variants") /\ (p = "variants" => x.op = "update")
    BY <1>2, <1>5 DEF Formed
  <2>2. Formed(r, given)
    BY <1>2, <1>4, <1>9, <1>10, <2>1 DEF Formed
  <2>3. Tracks(r, product, crossed)
    BY <1>9, <1>10, <2>1 DEF Tracks
  <2> QED
    BY <2>2, <2>3
<1>12. ASSUME AloneOn(x, product) PROVE AloneOn(r, product)
  <2>1. Saving(r, product)
    BY <1>9, <1>10 DEF Saving
  <2>2. WithList(r) => Listing(r, product)
    BY <1>5, <1>9 DEF WithList, Listing
  <2>3. x.op \notin {"createVariant", "updateVariant", "deleteVariant"}
    BY <1>2, <1>12 DEF AloneOn, Marking, Removing
  <2> QED
    BY <1>5, <1>9, <1>10, <1>12, <2>1, <2>2, <2>3 DEF AloneOn
<1> QED
  BY <1>1, <1>2, <1>7, <1>8, <1>9, <1>10, <1>11, <1>12, StatementKeeps

LEMMA StartDemotionProduct ==
  ASSUME ProductInv, NEW t \in Calls, PV!StartDemotion(t)
  PROVE  ProductInv' /\ (ListInv => ListInv')
<1>1. PICK x : x = productTx[t]
  OBVIOUS
<1>2. x \in PV!Call /\ Formed(x, given) /\ Tracks(x, product, crossed) /\ x.pc = "demote"
  BY <1>1, HeldCall DEF PV!StartDemotion
<1>3. PV!Rows = ThereIn(product) /\ PV!Rows \subseteq PV!Variants
  BY RowOf DEF ThereIn
<1>4. PICK p : p = IF PV!Rows = {} THEN "compare" ELSE "demoting"
  OBVIOUS
<1> DEFINE r == [x EXCEPT !.todo = PV!Rows, !.pc = p]
<1>5. PV!Step(t, r)
  BY <1>1, <1>4 DEF PV!StartDemotion
<1>6. r \in PV!Call
  BY ZenonT(30), <1>2, <1>3, <1>4 DEF PV!Call
<1>7. /\ r.pc = p /\ r.op = x.op /\ r.list = x.list /\ r.saves = x.saves /\ r.wrote = x.wrote /\ r.todo = PV!Rows
      /\ r.given = x.given /\ r.gone = x.gone /\ r.status = x.status /\ r.mine = x.mine /\ r.w = x.w
      /\ r.ent = x.ent /\ r.asked = x.asked
  BY <1>2 DEF PV!Call
<1> HIDE DEF r
<1>8. Formed(r, given) /\ Tracks(r, product, crossed)
  BY <1>2, <1>4, <1>7 DEF Formed, Tracks, Ends
<1>9. ASSUME AloneOn(x, product), HasDefault(product) PROVE AloneOn(r, product)
  <2>1. r.pc = "demoting"
    BY <1>3, <1>4, <1>7, <1>9 DEF HasDefault
  <2>2. Saving(r, product)
    BY <1>7, <1>9, <2>1 DEF AloneOn, Saving, Ends
  <2>3. x.op \notin {"archive", "deleteVariant", "update"}
    BY <1>2, <1>9 DEF AloneOn, Removing
  <2>4. ASSUME NEW v \in PV!Variants, Marking(x, product, v) PROVE Marking(r, product, v)
    BY <1>2, <1>3, <1>7, <2>1, <2>4 DEF Marking
  <2> QED
    BY <1>7, <1>9, <2>2, <2>3, <2>4 DEF AloneOn, WithList
<1> QED
  BY <1>1, <1>2, <1>5, <1>6, <1>7, <1>8, <1>9, StatementKeeps

LEMMA DemoteProduct ==
  ASSUME ProductInv, NEW t \in Calls, NEW v \in PV!Variants, PV!Demote(t, v)
  PROVE  ProductInv' /\ (ListInv => ListInv')
<1>1. PICK x : x = productTx[t]
  OBVIOUS
<1>2. /\ x \in PV!Call /\ Formed(x, given) /\ Tracks(x, product, crossed)
      /\ x.pc = "demoting" /\ v \in x.todo /\ PV!Free(t, v)
  BY <1>1, HeldCall DEF PV!Demote
<1>3. PICK rest : rest = x.todo \ {v}
  OBVIOUS
<1>4. PICK p : p = IF rest = {} THEN "compare" ELSE "demoting"
  OBVIOUS
<1>5. PICK d : d = [product[v] EXCEPT !.def = FALSE]
  OBVIOUS
<1>6. d \in PV!Row /\ d.there = product[v].there /\ d.stock = product[v].stock /\ ~d.def
  BY <1>5, RowOf DEF PV!Row
<1> DEFINE s == [x EXCEPT !.todo = rest, !.pc = p]
           r == IF product[v].there THEN [s EXCEPT !.wrote = @ \cup {v}, !.w[v] = d] ELSE s
<1>7. PV!Step(t, r)
  BY <1>1, <1>2, <1>3, <1>4, <1>5 DEF PV!Demote
<1>8. s \in PV!Call
  <2>1. p \in {"compare", "demoting"}
    BY <1>4
  <2>2. rest \in SUBSET PV!Variants
    BY <1>2, <1>3 DEF PV!Call
  <2> QED
    BY <1>2, <2>1, <2>2 DEF PV!Call
<1>9. r \in PV!Call
  <2>1. CASE product[v].there
    <3>1. s.wrote \cup {v} \in SUBSET PV!Variants /\ [s.w EXCEPT ![v] = d] \in [PV!Variants -> PV!Row]
      BY <1>6, <1>8 DEF PV!Call
    <3>2. r = [s EXCEPT !.wrote = s.wrote \cup {v}, !.w = [s.w EXCEPT ![v] = d]]
      BY <2>1
    <3> HIDE DEF s, r
    <3> QED
      BY <1>8, <3>1, <3>2 DEF PV!Call
  <2>2. CASE ~product[v].there
    BY <1>8, <2>2
  <2> QED
    BY <2>1, <2>2
<1>10. /\ r.pc = p /\ r.op = x.op /\ r.list = x.list /\ r.saves = x.saves /\ r.todo = rest
       /\ r.given = x.given /\ r.gone = x.gone /\ r.status = x.status /\ r.mine = x.mine
       /\ r.ent = x.ent /\ r.asked = x.asked
       /\ product[v].there => r.wrote = x.wrote \cup {v} /\ r.w = [x.w EXCEPT ![v] = d]
       /\ ~product[v].there => r.wrote = x.wrote /\ r.w = x.w
  BY <1>2, <1>8 DEF PV!Call
<1>11. x.w \in [PV!Variants -> PV!Row] /\ x.wrote \subseteq PV!Variants
  BY <1>2 DEF PV!Call
<1> HIDE DEF r, s
<1>12. \A u \in r.wrote : r.w[u] = IF u = v /\ product[v].there THEN d ELSE x.w[u]
  BY <1>10, <1>11
<1>13. \A u \in r.wrote : u \in x.wrote \/ (u = v /\ product[v].there)
  BY <1>10
<1>14. Formed(r, given)
  BY <1>2, <1>4, <1>6, <1>10, <1>12, <1>13 DEF Formed, ProductInv
<1>15. Tracks(r, product, crossed)
  <2>1. ~Ends(r) /\ ~Ends(x) /\ r.pc # "write"
    BY <1>2, <1>4, <1>10 DEF Ends
  <2> QED
    BY <1>2, <1>6, <1>10, <1>12, <1>13, <2>1 DEF Tracks
<1>16. ASSUME AloneOn(x, product) PROVE AloneOn(r, product)
  <2>1. Saving(r, product)
    BY <1>4, <1>10, <1>16 DEF AloneOn, Saving, Ends
  <2>2. x.op \notin {"archive", "deleteVariant", "update"}
    BY <1>2, <1>16 DEF AloneOn, Removing
  <2>3. ASSUME NEW k \in PV!Variants, Marking(x, product, k) PROVE Marking(r, product, k)
    <3>1. /\ ThereIn(product) = x.wrote \cup x.todo /\ (\A u \in x.wrote : x.w[u].there /\ ~x.w[u].def)
          /\ x.ent[k].def /\ x.saves = {k} /\ x.gone = {} /\ x.asked = {}
      BY <1>2, <2>3 DEF Marking
    <3>2. product[v].there
      BY <1>2, <3>1 DEF ThereIn
    <3>3. ThereIn(product) = r.wrote \cup r.todo /\ \A u \in r.wrote : r.w[u].there /\ ~r.w[u].def
      BY ZenonT(30), <1>2, <1>3, <1>6, <1>10, <1>12, <1>13, <3>1, <3>2
    <3>4. ASSUME p = "compare"
          PROVE  /\ \A u \in PV!Variants \ {k} : Seen(r, product, u).there = product[u].there
                 /\ \A u \in ThereIn(product) \ {k} : ~Seen(r, product, u).def
      <4>1. ThereIn(product) = r.wrote
        BY <1>4, <1>10, <3>3, <3>4
      <4>2. \A u \in PV!Variants : product[u].there \in BOOLEAN /\ (u \in r.wrote <=> product[u].there)
        BY <4>1, RowOf DEF ThereIn
      <4>3. \A u \in r.wrote : r.w[u].there = product[u].there
        <5>1. r.w \in [PV!Variants -> PV!Row] /\ r.wrote \subseteq PV!Variants
          BY <1>9 DEF PV!Call
        <5> QED
          BY <3>3, <4>2, <5>1 DEF PV!Row
      <4> QED
        BY <3>3, <4>1, <4>2, <4>3 DEF Seen
    <3> QED
      BY <1>4, <1>10, <3>1, <3>3, <3>4 DEF Marking
  <2> QED
    BY <1>10, <1>16, <2>1, <2>2, <2>3 DEF AloneOn, WithList
<1>17. \A u \in r.wrote \ x.wrote : PV!Free(t, u)
  BY <1>2, <1>13
<1> QED
  BY <1>1, <1>2, <1>7, <1>9, <1>14, <1>15, <1>16, <1>17, StatementKeeps

LEMMA DeleteRowKeeps ==
  ASSUME ProductInv, NEW t \in Calls, NEW v \in PV!Variants, PV!DeleteRow(t, v)
  PROVE  ProductInv' /\ (ListInv => ListInv')
<1>1. PICK x : x = productTx[t]
  OBVIOUS
<1>2. /\ x \in PV!Call /\ Formed(x, given) /\ Tracks(x, product, crossed)
      /\ x.pc = "delete" /\ v \in x.gone /\ PV!Free(t, v)
  BY <1>1, HeldCall DEF PV!DeleteRow
<1>3. PICK rest : rest = x.gone \ {v}
  OBVIOUS
<1>4. PICK p : p = IF rest # {} THEN "delete" ELSE IF x.op = "update" THEN "compare"
                   ELSE IF x.next = {} THEN "commit" ELSE "promote"
  OBVIOUS
<1> DEFINE r == [x EXCEPT !.gone = rest, !.wrote = @ \cup {v}, !.w[v] = PV!NoRow, !.pc = p]
<1>5. PV!Step(t, r)
  BY <1>1, <1>2, <1>3, <1>4 DEF PV!DeleteRow
<1>6. rest \in SUBSET PV!Variants /\ PV!NoRow \in PV!Row
  BY <1>2, <1>3, ProductTypes DEF PV!Call
<1>7. r \in PV!Call
  BY <1>2, <1>4, <1>6 DEF PV!Call
<1>8. /\ r.pc = p /\ r.op = x.op /\ r.list = x.list /\ r.saves = x.saves /\ r.todo = x.todo
      /\ r.given = x.given /\ r.gone = rest /\ r.status = x.status /\ r.mine = x.mine /\ r.next = x.next
      /\ r.ent = x.ent /\ r.asked = x.asked /\ r.wrote = x.wrote \cup {v}
      /\ r.w = [x.w EXCEPT ![v] = PV!NoRow]
  BY <1>2 DEF PV!Call
<1>9. x.w \in [PV!Variants -> PV!Row] /\ x.wrote \subseteq PV!Variants
  BY <1>2 DEF PV!Call
<1> HIDE DEF r
<1>10. r.wrote = x.wrote \cup {v} /\ (\A u \in r.wrote : r.w[u] = IF u = v THEN PV!NoRow ELSE x.w[u]) /\ ~PV!NoRow.there
  BY <1>8, <1>9, ProductTypes
<1>11. x.todo = {} /\ x.gone \cap x.saves = {} /\ (x.op # "update" => x.saves = {} /\ x.given = {})
  BY <1>2 DEF Formed
<1>12. Formed(r, given)
  BY <1>2, <1>3, <1>4, <1>8, <1>10, <1>11 DEF Formed
<1>13. Tracks(r, product, crossed)
  <2>1. ~Ends(x) /\ r.pc # "write" /\ (Ends(r) => r.saves = {} /\ r.given = {})
    BY <1>2, <1>4, <1>8, <1>11 DEF Ends
  <2> QED
    BY <1>2, <1>8, <1>10, <2>1 DEF Tracks
<1>14. ASSUME AloneOn(x, product) PROVE AloneOn(r, product)
  <2>1. Saving(r, product)
    BY <1>4, <1>8, <1>11, <1>14 DEF AloneOn, Saving, Ends
  <2>2. WithList(r) => Listing(r, product)
    <3> SUFFICES ASSUME WithList(x), Listing(x, product) PROVE Listing(r, product)
      BY <1>8, <1>14 DEF AloneOn, WithList
    <3>1. ThereIn(product) \subseteq r.saves \cup r.gone \cup r.wrote
      BY <1>2, <1>3, <1>8 DEF Listing
    <3>2. \A u \in r.wrote \ r.saves : ~r.w[u].there
      BY <1>2, <1>8, <1>10 DEF Listing
    <3>3. r.pc # "delete" => r.gone = {}
      BY <1>4, <1>8
    <3> QED
      BY <1>2, <1>8, <3>1, <3>2, <3>3 DEF Listing
  <2>3. x.op \notin {"archive", "createVariant", "updateVariant"} /\ (x.op = "update" => x.list # PV!Absent)
    BY <1>2, <1>14 DEF AloneOn, Marking
  <2>4. x.op = "update" => r.pc \notin {"demote", "demoting", "promote"}
    BY <1>4, <1>8
  <2>5. ASSUME NEW k \in PV!Variants, Removing(x, product, k), x.op = "deleteVariant" PROVE Removing(r, product, k)
    <3>1. /\ x.gone = {k} /\ x.wrote = {} /\ x.saves = {} /\ x.asked = {} /\ k \in ThereIn(product)
          /\ IF product[k].def THEN \E u \in ThereIn(product) \ {k} : x.next = {u} ELSE x.next = {}
      BY <1>2, <2>5 DEF Removing
    <3>2. v = k /\ rest = {} /\ r.wrote = {k} /\ ~r.w[k].there
      BY <1>2, <1>3, <1>8, <1>10, <3>1
    <3>3. CASE x.next = {}
      <4>1. r.pc = "commit" /\ ~product[k].def
        BY <1>4, <1>8, <2>5, <3>1, <3>2, <3>3
      <4> QED
        BY <1>8, <3>1, <3>2, <4>1 DEF Removing, Seen
    <3>4. CASE x.next # {}
      <4>1. r.pc = "promote" /\ product[k].def
        BY <1>4, <1>8, <2>5, <3>1, <3>2, <3>4
      <4> QED
        BY <1>8, <3>1, <3>2, <4>1 DEF Removing
    <3> QED
      BY <3>3, <3>4
  <2> QED
    BY <1>8, <1>14, <2>1, <2>2, <2>3, <2>4, <2>5 DEF AloneOn
<1>15. \A u \in r.wrote \ x.wrote : PV!Free(t, u)
  BY <1>2, <1>8
<1> QED
  BY <1>1, <1>2, <1>5, <1>7, <1>12, <1>13, <1>14, <1>15, StatementKeeps

LEMMA PromoteProduct ==
  ASSUME ProductInv, NEW t \in Calls, PV!Promote(t)
  PROVE  ProductInv' /\ (ListInv => ListInv')
<1>1. PICK x : x = productTx[t]
  OBVIOUS
<1>2. /\ x \in PV!Call /\ Formed(x, given) /\ Tracks(x, product, crossed) /\ x.pc = "promote"
  BY <1>1, HeldCall DEF PV!Promote
<1>3. PICK v \in x.next : PV!Free(t, v) /\
        PV!Step(t, IF product[v].there
                   THEN [x EXCEPT !.wrote = @ \cup {v}, !.w[v] = [product[v] EXCEPT !.def = TRUE], !.pc = "commit"]
                   ELSE [x EXCEPT !.pc = "commit"])
  BY <1>1 DEF PV!Promote
<1>4. v \in PV!Variants
  BY <1>2 DEF PV!Call
<1>5. PICK d : d = [product[v] EXCEPT !.def = TRUE]
  OBVIOUS
<1>6. d \in PV!Row /\ d.there = product[v].there /\ d.stock = product[v].stock /\ d.def
  BY <1>4, <1>5, RowOf DEF PV!Row
<1> DEFINE r == IF product[v].there THEN [x EXCEPT !.wrote = @ \cup {v}, !.w[v] = d, !.pc = "commit"]
                ELSE [x EXCEPT !.pc = "commit"]
<1>7. PV!Step(t, r)
  BY <1>3, <1>5
<1>8. r \in PV!Call
  <2>1. CASE product[v].there
    <3>1. x.wrote \cup {v} \in SUBSET PV!Variants /\ [x.w EXCEPT ![v] = d] \in [PV!Variants -> PV!Row]
      BY <1>2, <1>4, <1>6 DEF PV!Call
    <3>2. r = [x EXCEPT !.wrote = x.wrote \cup {v}, !.w = [x.w EXCEPT ![v] = d], !.pc = "commit"]
      BY <2>1
    <3> HIDE DEF r
    <3> QED
      BY <1>2, <3>1, <3>2 DEF PV!Call
  <2>2. CASE ~product[v].there
    BY <1>2, <2>2 DEF PV!Call
  <2> QED
    BY <2>1, <2>2
<1>9. /\ r.pc = "commit" /\ r.op = x.op /\ r.list = x.list /\ r.saves = x.saves /\ r.todo = x.todo
      /\ r.given = x.given /\ r.gone = x.gone /\ r.status = x.status /\ r.mine = x.mine /\ r.next = x.next
      /\ r.ent = x.ent /\ r.asked = x.asked
      /\ product[v].there => r.wrote = x.wrote \cup {v} /\ r.w = [x.w EXCEPT ![v] = d]
      /\ ~product[v].there => r.wrote = x.wrote /\ r.w = x.w
  BY <1>2 DEF PV!Call
<1>10. x.w \in [PV!Variants -> PV!Row] /\ x.wrote \subseteq PV!Variants
  BY <1>2 DEF PV!Call
<1> HIDE DEF r
<1>11. \A u \in r.wrote : r.w[u] = IF u = v /\ product[v].there THEN d ELSE x.w[u]
  BY <1>4, <1>9, <1>10
<1>12. \A u \in r.wrote : u \in x.wrote \/ (u = v /\ product[v].there)
  BY <1>9
<1>13. x.saves = {} /\ x.given = {} /\ x.todo = {}
  BY <1>2 DEF Formed
<1>14. Formed(r, given)
  BY <1>2, <1>4, <1>6, <1>9, <1>11, <1>12, <1>13 DEF Formed, ProductInv
<1>15. Tracks(r, product, crossed)
  BY <1>2, <1>6, <1>9, <1>11, <1>12, <1>13 DEF Tracks, Ends
<1>16. ASSUME AloneOn(x, product) PROVE AloneOn(r, product)
  <2>1. Saving(r, product)
    BY <1>9, <1>13 DEF Saving
  <2>2. x.op \notin {"archive", "createVariant", "updateVariant", "update"}
    BY <1>2, <1>16 DEF AloneOn, Marking
  <2>3. ASSUME NEW k \in PV!Variants, Removing(x, product, k) PROVE Removing(r, product, k)
    <3>1. /\ x.wrote = {k} /\ ~x.w[k].there /\ x.asked = {} /\ k \in ThereIn(product)
          /\ product[k].def /\ v \in ThereIn(product) \ {k}
      BY <1>2, <1>3, <2>3 DEF Removing
    <3>2. product[v].there /\ r.wrote = {k, v} /\ r.w[v] = d /\ r.w[k] = x.w[k]
      BY <1>9, <1>11, <3>1 DEF ThereIn
    <3>3. ~Seen(r, product, k).there /\ \A u \in PV!Variants \ {k} : Seen(r, product, u).there = product[u].there
      BY <1>6, <3>1, <3>2 DEF Seen
    <3>4. \A u \in ThereIn(product) \ {k} : Seen(r, product, u).def = (u = v \/ product[u].def)
      BY <1>6, <3>1, <3>2, RowOf DEF Seen, ThereIn
    <3> QED
      BY <1>9, <1>13, <3>1, <3>3, <3>4 DEF Removing
  <2> QED
    BY <1>9, <1>16, <2>1, <2>2, <2>3 DEF AloneOn, WithList
<1>17. \A u \in r.wrote \ x.wrote : PV!Free(t, u)
  BY <1>3, <1>12
<1> QED
  BY <1>1, <1>2, <1>7, <1>8, <1>14, <1>15, <1>16, <1>17, StatementKeeps

\* What a transaction sees.
LEMMA SeenIs ==
  ASSUME ProductInv, NEW t \in Calls, NEW x, x = productTx[t]
  PROVE  \A v \in PV!Variants :
           /\ PV!View(t, v) = Seen(x, product, v) /\ Seen(x, product, v) \in PV!Row
           /\ Seen(x, product, v).there \in BOOLEAN /\ Seen(x, product, v).sku \in Skus
           /\ Seen(x, product, v).stock \in Int /\ Seen(x, product, v).def \in BOOLEAN
<1>1. x \in PV!Call
  BY HeldCall
<1>2. ASSUME NEW v \in PV!Variants PROVE PV!View(t, v) = Seen(x, product, v) /\ Seen(x, product, v) \in PV!Row
  BY <1>1, RowOf DEF PV!View, Seen, PV!Call
<1> QED
  BY <1>2 DEF PV!Row

LEMMA CompareProduct ==
  ASSUME ProductInv, NEW t \in Calls, PV!Compare(t)
  PROVE  ProductInv' /\ (ListInv => ListInv')
<1>1. PICK x : x = productTx[t]
  OBVIOUS
<1>2. x \in PV!Call /\ Formed(x, given) /\ Tracks(x, product, crossed) /\ x.pc = "compare"
  BY <1>1, HeldCall DEF PV!Compare
<1>3. x.saves \subseteq PV!Variants /\ x.ent \in [PV!Variants -> PV!Row] /\ x.given \subseteq x.saves
  BY <1>2 DEF PV!Call, Formed
<1>4. \A v \in PV!Variants : PV!View(t, v) = Seen(x, product, v)
  BY <1>1, SeenIs
<1>5. PICK I : I = { v \in x.saves : ~Seen(x, product, v).there }
  OBVIOUS
<1>6. PICK C : C = [v \in PV!Variants |->
                      IF v \in x.saves \ I THEN { c \in PV!Columns : x.ent[v][c] # Seen(x, product, v)[c] } ELSE {}]
  OBVIOUS
<1>7. PICK T : T = I \cup { v \in x.saves : C[v] # {} }
  OBVIOUS
<1>8. PICK p : p = IF T = {} THEN "commit" ELSE "write"
  OBVIOUS
<1> DEFINE r == [x EXCEPT !.ins = I, !.cols = C, !.todo = T, !.pc = p]
<1>9. PV!Step(t, r)
  <2>1. I = { v \in x.saves : ~PV!View(t, v).there }
    BY <1>3, <1>4, <1>5
  <2>2. C = [v \in PV!Variants |->
               IF v \in x.saves \ I THEN { c \in PV!Columns : x.ent[v][c] # PV!View(t, v)[c] } ELSE {}]
    BY <1>4, <1>6
  <2> QED
    BY SMTT(20), <1>1, <1>7, <1>8, <2>1, <2>2 DEF PV!Compare
<1>10. I \subseteq x.saves /\ T \subseteq x.saves /\ C \in [PV!Variants -> SUBSET PV!Columns]
  BY <1>5, <1>6, <1>7
<1>11. r \in PV!Call
  <2>1. I \in SUBSET PV!Variants /\ T \in SUBSET PV!Variants /\ p \in {"commit", "write"}
    BY <1>3, <1>8, <1>10
  <2> QED
    BY <1>2, <1>10, <2>1 DEF PV!Call
<1>12. /\ r.pc = p /\ r.op = x.op /\ r.list = x.list /\ r.saves = x.saves /\ r.todo = T /\ r.ins = I /\ r.cols = C
       /\ r.given = x.given /\ r.gone = x.gone /\ r.status = x.status /\ r.mine = x.mine
       /\ r.ent = x.ent /\ r.asked = x.asked /\ r.wrote = x.wrote /\ r.w = x.w
  BY <1>2 DEF PV!Call
<1> HIDE DEF r
<1>13. \A v : Seen(r, product, v) = Seen(x, product, v)
  BY <1>12 DEF Seen
<1>14. ASSUME NEW v \in x.saves \ I
       PROVE  /\ Seen(x, product, v).there
              /\ "sku" \in C[v] \/ Seen(x, product, v).sku = x.ent[v].sku
              /\ "stock" \in C[v] \/ Seen(x, product, v).stock = x.ent[v].stock
              /\ "def" \in C[v] \/ Seen(x, product, v).def = x.ent[v].def
  <2>1. v \in PV!Variants /\ C[v] = { c \in PV!Columns : x.ent[v][c] # Seen(x, product, v)[c] }
    BY <1>3, <1>6, <1>14
  <2>2. {"sku", "stock", "def"} \subseteq PV!Columns
    BY DEF PV!Columns
  <2>3. /\ x.ent[v]["sku"] = x.ent[v].sku /\ x.ent[v]["stock"] = x.ent[v].stock /\ x.ent[v]["def"] = x.ent[v].def
        /\ Seen(x, product, v)["sku"] = Seen(x, product, v).sku
        /\ Seen(x, product, v)["stock"] = Seen(x, product, v).stock
        /\ Seen(x, product, v)["def"] = Seen(x, product, v).def
    OBVIOUS
  <2> QED
    BY <1>5, <1>14, <2>1, <2>2, <2>3
<1>15. ASSUME NEW v \in x.saves \ T PROVE v \notin I /\ C[v] = {}
  BY <1>7, <1>15
<1>16. Formed(r, given)
  BY <1>2, <1>8, <1>10, <1>12 DEF Formed
<1>17. Tracks(r, product, crossed)
  <2>1. \A v \in r.saves \ r.given : v \in crossed \/ (product[v].there /\ product[v].stock = r.ent[v].stock)
    BY <1>2, <1>12 DEF Tracks
  <2>2. \A v \in r.wrote : r.w[v].there => v \in crossed \/ (product[v].there /\ product[v].stock = r.w[v].stock)
    BY <1>2, <1>12 DEF Tracks, Ends
  <2>3. \A v \in r.given \ r.todo : Seen(r, product, v).stock = r.ent[v].stock
    BY <1>3, <1>12, <1>13, <1>14, <1>15
  <2>4. \A v \in (r.todo \cap r.given) \ r.ins : "stock" \in r.cols[v] \/ Seen(r, product, v).stock = r.ent[v].stock
    BY <1>3, <1>12, <1>13, <1>14
  <2>5. \A v \in (r.todo \cap r.ins) \ r.given : v \in crossed
    <3> SUFFICES ASSUME NEW v \in (r.todo \cap r.ins) \ r.given, v \notin crossed PROVE FALSE
      OBVIOUS
    <3>1. v \in x.saves /\ ~Seen(x, product, v).there /\ product[v].there
      BY <1>5, <1>12, <2>1
    <3>2. v \in x.wrote /\ ~x.w[v].there
      BY <3>1 DEF Seen
    <3> QED
      BY <1>2, <3>1, <3>2 DEF Formed
  <2> QED
    BY <2>1, <2>2, <2>3, <2>4, <2>5 DEF Tracks
<1>18. ASSUME AloneOn(x, product) PROVE AloneOn(r, product)
  <2>1. Saving(r, product)
    BY <1>10, <1>12, <1>13, <1>14, <1>15 DEF Saving
  <2>2. WithList(r) => Listing(r, product)
    <3> SUFFICES ASSUME WithList(x), Listing(x, product) PROVE Listing(r, product)
      BY <1>12, <1>18 DEF AloneOn, WithList
    <3> QED
      BY <1>2, <1>12 DEF Listing
  <2>3. x.op \notin {"archive", "deleteVariant"} /\ (x.op = "update" => x.list # PV!Absent)
    BY <1>2, <1>18 DEF AloneOn, Removing
  <2>4. ASSUME NEW k \in PV!Variants, Marking(x, product, k) PROVE Marking(r, product, k)
    BY <1>2, <1>8, <1>12, <1>13, <2>4 DEF Marking
  <2> QED
    BY <1>8, <1>12, <1>18, <2>1, <2>2, <2>3, <2>4 DEF AloneOn
<1> QED
  BY <1>1, <1>2, <1>9, <1>11, <1>12, <1>16, <1>17, <1>18, StatementKeeps

LEMMA WriteProduct ==
  ASSUME ProductInv, NEW t \in Calls, NEW v \in PV!Variants, PV!Write(t, v)
  PROVE  ProductInv' /\ (ListInv => ListInv')
<1>1. PICK x : x = productTx[t]
  OBVIOUS
<1>2. /\ x \in PV!Call /\ Formed(x, given) /\ Tracks(x, product, crossed)
      /\ x.pc = "write" /\ v \in x.todo /\ PV!Free(t, v)
  BY <1>1, HeldCall DEF PV!Write, PV!Turn
<1>3. PICK rest : rest = x.todo \ {v}
  OBVIOUS
<1>4. PICK p : p = IF rest = {} THEN "commit" ELSE "write"
  OBVIOUS
<1>5. PICK e : e = Seen(x, product, v)
  OBVIOUS
<1>6. PICK d : d = IF v \in x.ins THEN x.ent[v]
                   ELSE [c \in DOMAIN PV!NoRow |-> IF c \in x.cols[v] THEN x.ent[v][c] ELSE e[c]]
  OBVIOUS
<1> DEFINE new == v \in x.ins \/ e.there
           s == [x EXCEPT !.todo = rest, !.pc = p]
           r == IF new THEN [s EXCEPT !.wrote = @ \cup {v}, !.w[v] = d] ELSE s
<1>7. /\ v \in x.saves /\ x.ent[v] \in PV!Row /\ x.ent[v].there /\ e \in PV!Row /\ PV!View(t, v) = e
      /\ x.cols[v] \subseteq PV!Columns /\ v <= given
  BY <1>1, <1>2, <1>5, SeenIs DEF PV!Call, Formed
<1>8. ASSUME v \notin x.ins
      PROVE  /\ d \in PV!Row /\ d.there = e.there
             /\ d.stock = IF "stock" \in x.cols[v] THEN x.ent[v].stock ELSE e.stock
             /\ d.sku = IF "sku" \in x.cols[v] THEN x.ent[v].sku ELSE e.sku
             /\ d.def = IF "def" \in x.cols[v] THEN x.ent[v].def ELSE e.def
  <2>1. DOMAIN PV!NoRow = {"there", "sku", "stock", "def"}
    BY DEF PV!NoRow
  <2>2. d = [c \in {"there", "sku", "stock", "def"} |-> IF c \in x.cols[v] THEN x.ent[v][c] ELSE e[c]]
    BY <1>6, <1>8, <2>1
  <2>3. "there" \notin x.cols[v]
    BY <1>7 DEF PV!Columns
  <2>4. /\ d.there = e.there
        /\ d.stock = IF "stock" \in x.cols[v] THEN x.ent[v].stock ELSE e.stock
        /\ d.sku = IF "sku" \in x.cols[v] THEN x.ent[v].sku ELSE e.sku
        /\ d.def = IF "def" \in x.cols[v] THEN x.ent[v].def ELSE e.def
    BY <2>2, <2>3
  <2>5. d = [there |-> d.there, sku |-> d.sku, stock |-> d.stock, def |-> d.def]
    BY <2>2
  <2>6. d.there \in BOOLEAN /\ d.sku \in Skus /\ d.stock \in Int /\ d.def \in BOOLEAN
    BY <1>7, <2>4 DEF PV!Row
  <2> QED
    BY <2>4, <2>5, <2>6 DEF PV!Row
<1>9. d \in PV!Row /\ (new => d.there)
  BY <1>6, <1>7, <1>8
<1>10. PV!Step(t, r)
  BY <1>1, <1>2, <1>3, <1>4, <1>6, <1>7 DEF PV!Write
<1>11. s \in PV!Call
  <2>1. p \in {"commit", "write"}
    BY <1>4
  <2>2. rest \in SUBSET PV!Variants
    BY <1>2, <1>3 DEF PV!Call
  <2> QED
    BY <1>2, <2>1, <2>2 DEF PV!Call
<1>12. r \in PV!Call
  <2>1. CASE new
    <3>1. s.wrote \cup {v} \in SUBSET PV!Variants /\ [s.w EXCEPT ![v] = d] \in [PV!Variants -> PV!Row]
      BY <1>9, <1>11 DEF PV!Call
    <3>2. r = [s EXCEPT !.wrote = s.wrote \cup {v}, !.w = [s.w EXCEPT ![v] = d]]
      BY <2>1
    <3> HIDE DEF s, r
    <3> QED
      BY <1>11, <3>1, <3>2 DEF PV!Call
  <2>2. CASE ~new
    BY <1>11, <2>2
  <2> QED
    BY <2>1, <2>2
<1>13. /\ r.pc = p /\ r.op = x.op /\ r.list = x.list /\ r.saves = x.saves /\ r.todo = rest
       /\ r.ins = x.ins /\ r.cols = x.cols
       /\ r.given = x.given /\ r.gone = x.gone /\ r.status = x.status /\ r.mine = x.mine
       /\ r.ent = x.ent /\ r.asked = x.asked
       /\ new => r.wrote = x.wrote \cup {v} /\ r.w = [x.w EXCEPT ![v] = d]
       /\ ~new => r.wrote = x.wrote /\ r.w = x.w
  BY <1>2, <1>11 DEF PV!Call
<1>14. x.w \in [PV!Variants -> PV!Row] /\ x.wrote \subseteq PV!Variants /\ x.todo \subseteq x.saves
       /\ x.given \subseteq x.saves
  BY <1>2 DEF PV!Call, Formed
<1> HIDE DEF r, s
<1>15. \A u \in r.wrote : r.w[u] = IF u = v /\ new THEN d ELSE x.w[u]
  BY <1>13, <1>14
<1>16. \A u \in r.wrote : u \in x.wrote \/ (u = v /\ new)
  BY <1>13
<1>17. \A u : Seen(r, product, u) = IF u = v /\ new THEN d ELSE Seen(x, product, u)
  BY <1>13, <1>14, <1>15, <1>16 DEF Seen
<1>18. p = "write" => rest # {}
  BY <1>4
<1>19. Formed(r, given)
  <2>1. \A u \in r.wrote : IF r.w[u].there THEN u <= given ELSE u \notin r.saves
    BY <1>2, <1>7, <1>9, <1>13, <1>15, <1>16 DEF Formed
  <2>2. r.todo \subseteq r.saves /\ (r.pc # "write" => r.todo = {}) /\ r.pc \in {"commit", "write"}
    BY <1>3, <1>4, <1>13, <1>14
  <2> QED
    BY <1>2, <1>13, <2>1, <2>2 DEF Formed
<1>20. Tracks(r, product, crossed)
  <2>1. \A u \in r.saves \ r.given : u \in crossed \/ (product[u].there /\ product[u].stock = r.ent[u].stock)
    BY <1>2, <1>13 DEF Tracks
  <2>2. ASSUME NEW u \in r.wrote, r.w[u].there, ~(u \in r.given \ r.todo), u \notin crossed
        PROVE  product[u].there /\ product[u].stock = r.w[u].stock
    <3>1. CASE u = v /\ new
      <4>1. v \notin x.given /\ r.w[u] = d
        BY <1>3, <1>13, <1>15, <2>2, <3>1
      <4>2. v \notin x.ins
        BY <1>2, <2>2, <3>1, <4>1 DEF Tracks
      <4>3. product[v].there /\ product[v].stock = x.ent[v].stock
        BY <1>7, <1>13, <2>1, <2>2, <3>1, <4>1
      <4>4. product[v].stock = e.stock
        <5>1. CASE v \in x.wrote
          BY <1>2, <1>5, <2>2, <3>1, <4>1, <4>2, <5>1 DEF Tracks, Seen
        <5>2. CASE v \notin x.wrote
          BY <1>5, <5>2 DEF Seen
        <5> QED
          BY <5>1, <5>2
      <4> QED
        BY <1>8, <3>1, <4>1, <4>2, <4>3, <4>4
    <3>2. CASE ~(u = v /\ new)
      <4>1. u \in x.wrote /\ r.w[u] = x.w[u]
        BY <1>15, <1>16, <3>2
      <4>2. ~(u \in x.given \ x.todo)
        BY <1>3, <1>13, <2>2
      <4> QED
        BY <1>2, <2>2, <4>1, <4>2 DEF Tracks
    <3> QED
      BY <3>1, <3>2
  <2>3. ASSUME NEW u \in r.given \ r.todo, Seen(r, product, u).there, u \notin crossed
        PROVE  Seen(r, product, u).stock = r.ent[u].stock
    <3>1. CASE u = v /\ new
      <4>1. CASE v \in x.ins
        BY <1>6, <1>13, <1>17, <3>1, <4>1
      <4>2. CASE v \notin x.ins
        <5>1. "stock" \in x.cols[v] \/ e.stock = x.ent[v].stock
          BY <1>2, <1>5, <1>13, <2>3, <3>1, <4>2 DEF Tracks
        <5> QED
          BY <1>8, <1>13, <1>17, <3>1, <4>2, <5>1
      <4> QED
        BY <4>1, <4>2
    <3>2. CASE u = v /\ ~new
      BY <1>5, <1>17, <2>3, <3>2
    <3>3. CASE u # v
      BY <1>2, <1>3, <1>13, <1>17, <2>3, <3>3 DEF Tracks, Ends
    <3> QED
      BY <3>1, <3>2, <3>3
  <2>4. \A u \in (r.todo \cap r.given) \ r.ins :
          u \in crossed \/ "stock" \in r.cols[u] \/ Seen(r, product, u).stock = r.ent[u].stock
    BY <1>2, <1>3, <1>13, <1>17 DEF Tracks
  <2>5. \A u \in (r.todo \cap r.ins) \ r.given : u \in crossed
    BY <1>2, <1>3, <1>13 DEF Tracks
  <2>6. Ends(r)
    BY <1>4, <1>13 DEF Ends
  <2> QED
    BY <2>1, <2>2, <2>3, <2>4, <2>5, <2>6 DEF Tracks
<1>21. ASSUME AloneOn(x, product) PROVE AloneOn(r, product)
  <2>1. Saving(x, product)
    BY <1>21 DEF AloneOn
  <2>2. /\ Seen(r, product, v).there /\ Seen(r, product, v).sku = x.ent[v].sku
        /\ Seen(r, product, v).def = x.ent[v].def
    <3>1. CASE v \in x.ins
      BY <1>6, <1>7, <1>17, <3>1
    <3>2. CASE v \notin x.ins
      <4>1. /\ e.there /\ ("sku" \in x.cols[v] \/ e.sku = x.ent[v].sku)
            /\ ("def" \in x.cols[v] \/ e.def = x.ent[v].def)
        BY <1>2, <1>5, <2>1, <3>2 DEF Saving
      <4> QED
        BY <1>8, <1>17, <3>2, <4>1
    <3> QED
      BY <3>1, <3>2
  <2>3. \A u \in r.saves \ r.todo : /\ Seen(r, product, u).there /\ Seen(r, product, u).sku = r.ent[u].sku
                                    /\ Seen(r, product, u).def = r.ent[u].def
    <3> SUFFICES ASSUME NEW u \in r.saves \ r.todo, u # v
                 PROVE  /\ Seen(r, product, u).there /\ Seen(r, product, u).sku = r.ent[u].sku
                        /\ Seen(r, product, u).def = r.ent[u].def
      BY <1>13, <2>2
    <3>1. u \in x.saves \ x.todo /\ Seen(r, product, u) = Seen(x, product, u)
      BY <1>3, <1>13, <1>17
    <3> QED
      BY <1>2, <1>13, <2>1, <3>1 DEF Saving, Ends
  <2>4. \A u \in r.todo \ r.ins :
          /\ Seen(r, product, u).there
          /\ "sku" \in r.cols[u] \/ Seen(r, product, u).sku = r.ent[u].sku
          /\ "def" \in r.cols[u] \/ Seen(r, product, u).def = r.ent[u].def
    BY <1>2, <1>3, <1>13, <1>17, <2>1 DEF Saving
  <2>5. Saving(r, product)
    BY <2>3, <2>4 DEF Saving
  <2>6. WithList(r) => Listing(r, product)
    <3> SUFFICES ASSUME WithList(x), Listing(x, product) PROVE Listing(r, product)
      BY <1>13, <1>21 DEF AloneOn, WithList
    <3>1. ThereIn(product) \subseteq r.saves \cup r.gone \cup r.wrote
      BY <1>2, <1>13 DEF Listing
    <3>2. \A u \in r.wrote \ r.saves : ~r.w[u].there
      BY <1>2, <1>7, <1>13, <1>15, <1>16 DEF Listing
    <3> QED
      BY <1>2, <1>13, <3>1, <3>2 DEF Listing
  <2>7. x.op \notin {"archive", "deleteVariant"} /\ (x.op = "update" => x.list # PV!Absent)
    BY <1>2, <1>21 DEF AloneOn, Removing
  <2>8. ASSUME NEW k \in PV!Variants, Marking(x, product, k) PROVE Marking(r, product, k)
    <3>1. k = v
      BY <1>7, <2>8 DEF Marking
    <3>2. \A u : u # k => Seen(r, product, u) = Seen(x, product, u)
      BY <1>17, <3>1
    <3>3. \A u \in PV!Variants \ {k} : Seen(r, product, u).there = product[u].there
      BY <1>2, <2>8, <3>2 DEF Marking
    <3>4. \/ r.ent[k].def /\ \A u \in ThereIn(product) \ {k} : ~Seen(r, product, u).def
          \/ /\ \A u \in PV!Variants \ {k} : Seen(r, product, u).def = product[u].def
             /\ r.ent[k].def = (product[k].there /\ product[k].def)
      BY <1>2, <1>13, <2>8, <3>2 DEF Marking
    <3>5. r.pc \in {"commit", "write"}
      BY <1>4, <1>13
    <3> QED
      BY <1>13, <2>8, <3>3, <3>4, <3>5 DEF Marking
  <2>9. r.pc \in {"commit", "write"}
    BY <1>4, <1>13
  <2> QED
    BY <1>13, <1>21, <2>5, <2>6, <2>7, <2>8, <2>9 DEF AloneOn
<1>22. \A u \in r.wrote \ x.wrote : PV!Free(t, u)
  BY <1>2, <1>16
<1> QED
  BY <1>1, <1>2, <1>10, <1>12, <1>19, <1>20, <1>21, <1>22, StatementKeeps

\* Rows change under a call, which has had them loaded or does not know them.
LEMMA TracksMore ==
  ASSUME NEW r \in PV!Call, NEW n, Formed(r, n), NEW R, NEW Q, NEW c, NEW b, c \subseteq b, Tracks(r, R, c),
         \A v \in r.saves : v \in b \/ Q[v] = R[v], \A v \in r.wrote : Q[v] = R[v]
  PROVE  Tracks(r, Q, b)
<1>1. /\ r.given \subseteq r.saves /\ (r.pc = "write" => r.todo \subseteq r.saves)
  BY DEF Formed
<1>2. \A v \in r.saves : v \in b \/ Seen(r, Q, v) = Seen(r, R, v)
  BY DEF Seen
<1>3. \A v \in r.saves \ r.given : v \in b \/ (Q[v].there /\ Q[v].stock = r.ent[v].stock)
  BY DEF Tracks
<1>4. \A v \in r.wrote : r.w[v].there /\ ~(Ends(r) /\ v \in r.given \ r.todo) =>
        v \in b \/ (Q[v].there /\ Q[v].stock = r.w[v].stock)
  BY DEF Tracks
<1>5. Ends(r) => \A v \in r.given \ r.todo : Seen(r, Q, v).there =>
        v \in b \/ Seen(r, Q, v).stock = r.ent[v].stock
  BY <1>1, <1>2 DEF Tracks
<1>6. r.pc = "write" => \A v \in (r.todo \cap r.given) \ r.ins :
        v \in b \/ "stock" \in r.cols[v] \/ Seen(r, Q, v).stock = r.ent[v].stock
  BY <1>1, <1>2 DEF Tracks
<1>7. r.pc = "write" => \A v \in (r.todo \cap r.ins) \ r.given : v \in b
  BY DEF Tracks
<1> QED
  BY <1>3, <1>4, <1>5, <1>6, <1>7 DEF Tracks

\* Stocks are no concern of a call that is alone.
LEMMA AloneSame ==
  ASSUME NEW r, NEW R, NEW Q, AloneOn(r, R),
         \A v \in PV!Variants : Q[v].there = R[v].there /\ Q[v].sku = R[v].sku /\ Q[v].def = R[v].def,
         r.saves \subseteq PV!Variants, r.todo \subseteq PV!Variants
  PROVE  AloneOn(r, Q)
<1>1. ThereIn(Q) = ThereIn(R) /\ ThereIn(R) \subseteq PV!Variants
  BY DEF ThereIn
<1>2. \A v \in PV!Variants : /\ Seen(r, Q, v).there = Seen(r, R, v).there /\ Seen(r, Q, v).sku = Seen(r, R, v).sku
                             /\ Seen(r, Q, v).def = Seen(r, R, v).def
  BY DEF Seen
<1>3. Saving(r, Q)
  BY <1>2 DEF AloneOn, Saving
<1>4. Listing(r, R) => Listing(r, Q)
  BY <1>1 DEF Listing
<1>5. ASSUME NEW v \in PV!Variants, Marking(r, R, v) PROVE Marking(r, Q, v)
  <2>1. /\ \A u \in PV!Variants \ {v} : Seen(r, R, u).there = R[u].there => Seen(r, Q, u).there = Q[u].there
        /\ \A u \in PV!Variants \ {v} : Seen(r, R, u).def = R[u].def => Seen(r, Q, u).def = Q[u].def
        /\ (R[v].there /\ R[v].def) = (Q[v].there /\ Q[v].def)
        /\ \A u \in ThereIn(R) : ~Seen(r, R, u).def => ~Seen(r, Q, u).def
    BY <1>1, <1>2
  <2> QED
    BY <1>1, <1>5, <2>1 DEF Marking
<1>6. ASSUME NEW v \in PV!Variants, Removing(r, R, v) PROVE Removing(r, Q, v)
  <2>1. /\ R[v].def = Q[v].def /\ (~Seen(r, R, v).there => ~Seen(r, Q, v).there)
        /\ \A u \in PV!Variants \ {v} : Seen(r, R, u).there = R[u].there => Seen(r, Q, u).there = Q[u].there
        /\ \A u \in ThereIn(R) \ {v} : Seen(r, R, u).def = R[u].def => Seen(r, Q, u).def = Q[u].def
        /\ \A d : \A u \in ThereIn(R) \ {v} :
             Seen(r, R, u).def = (u = d \/ R[u].def) => Seen(r, Q, u).def = (u = d \/ Q[u].def)
    BY <1>1, <1>2
  <2>2. r.pc \in {"delete", "promote"} =>
          IF Q[v].def THEN \E u \in ThereIn(Q) \ {v} : r.next = {u} ELSE r.next = {}
    BY <1>1, <1>6, <2>1 DEF Removing
  <2>3. ASSUME r.pc = "commit"
        PROVE  /\ ~Seen(r, Q, v).there
               /\ \A u \in PV!Variants \ {v} : Seen(r, Q, u).there = Q[u].there
               /\ IF Q[v].def THEN \E d \in ThereIn(Q) \ {v} : \A u \in ThereIn(Q) \ {v} :
                                      Seen(r, Q, u).def = (u = d \/ Q[u].def)
                  ELSE \A u \in ThereIn(Q) \ {v} : Seen(r, Q, u).def = Q[u].def
    <3>1. /\ ~Seen(r, R, v).there
          /\ \A u \in PV!Variants \ {v} : Seen(r, R, u).there = R[u].there
      BY <1>6, <2>3 DEF Removing
    <3>2. IF R[v].def THEN \E d \in ThereIn(R) \ {v} : \A u \in ThereIn(R) \ {v} :
                             Seen(r, R, u).def = (u = d \/ R[u].def)
          ELSE \A u \in ThereIn(R) \ {v} : Seen(r, R, u).def = R[u].def
      BY <1>6, <2>3 DEF Removing
    <3>3. ASSUME R[v].def PROVE \E d \in ThereIn(Q) \ {v} : \A u \in ThereIn(Q) \ {v} :
                                   Seen(r, Q, u).def = (u = d \/ Q[u].def)
      <4>1. PICK d \in ThereIn(R) \ {v} : \A u \in ThereIn(R) \ {v} : Seen(r, R, u).def = (u = d \/ R[u].def)
        BY <3>2, <3>3
      <4>2. \A u \in ThereIn(R) \ {v} : Seen(r, Q, u).def = (u = d \/ Q[u].def)
        BY <2>1, <4>1
      <4> QED
        BY <1>1, <4>1, <4>2
    <3> QED
      BY <1>1, <2>1, <3>1, <3>2, <3>3
  <2> QED
    BY <1>1, <1>6, <2>2, <2>3 DEF Removing
<1> QED
  BY <1>3, <1>4, <1>5, <1>6 DEF AloneOn

LEMMA SellKeeps ==
  ASSUME ProductInv, NEW v \in PV!Variants, PV!Sell(v)
  PROVE  ProductInv' /\ (ListInv => ListInv')
<1>1. /\ product[v].there /\ \A t \in Calls : v \notin productTx[t].wrote
      /\ product' = [product EXCEPT ![v].stock = @ - 1] /\ ledger' = [ledger EXCEPT ![v] = @ - 1]
      /\ crossed' = IF PV!Holders(v) # {} THEN crossed \cup {v} ELSE crossed
      /\ UNCHANGED <<status, given, productTx, raced, doubled, asked, productCalls, productAborts>>
  BY DEF PV!Sell, PV!bounds, PV!Rows
<1>2. product'[v] = [product[v] EXCEPT !.stock = product[v].stock - 1] /\ \A u \in PV!Variants \ {v} : product'[u] = product[u]
  BY <1>1, RowOf
<1>3. /\ product'[v].there /\ product'[v].sku = product[v].sku /\ product'[v].def = product[v].def
      /\ product'[v].stock = product[v].stock - 1 /\ product'[v] \in PV!Row
  BY <1>1, <1>2, RowOf DEF PV!Row
<1>4. \A u \in PV!Variants : /\ product'[u].there = product[u].there /\ product'[u].sku = product[u].sku
                             /\ product'[u].def = product[u].def
  <2>1. product[v].there = TRUE /\ product'[v].there = TRUE
    BY <1>1, <1>3, RowOf DEF PV!Row
  <2> QED
    BY <1>2, <1>3, <2>1
<1>5. PV!TypeOK'
  <2>1. product' \in [PV!Variants -> PV!Row]
    BY <1>1, <1>2, <1>3, RowOf
  <2>2. ledger' \in [PV!Variants -> Int] /\ crossed' \in SUBSET PV!Variants
    BY <1>1 DEF ProductInv, PV!TypeOK
  <2> QED
    BY <1>1, <2>1, <2>2 DEF ProductInv, PV!TypeOK
<1>6. StockKept'
  <2> SUFFICES ASSUME NEW u \in PV!Variants, product'[u].there, u \notin crossed' PROVE product'[u].stock = ledger'[u]
    BY DEF StockKept, PV!StockKept, PV!Rows
  <2>1. product[u].stock = ledger[u]
    BY <1>1, <1>4 DEF ProductInv, StockKept, PV!StockKept, PV!Rows
  <2> QED
    BY <1>1, <1>2, <1>3, <2>1 DEF ProductInv, PV!TypeOK
<1>7. Begun' /\ \A u \in PV!Variants : product'[u].there => u <= given'
  BY <1>1, <1>4 DEF ProductInv, Begun
<1>8. ASSUME NEW t \in Calls PROVE Formed(productTx'[t], given') /\ Tracks(productTx'[t], product', crossed')
  <2>1. PICK x : x = productTx[t]
    OBVIOUS
  <2>2. x \in PV!Call /\ Formed(x, given) /\ Tracks(x, product, crossed) /\ v \notin x.wrote
    BY <1>1, <2>1, HeldCall
  <2>3. x.saves \subseteq PV!Variants /\ x.wrote \subseteq PV!Variants
    BY <2>2 DEF PV!Call
  <2>4. v \in x.saves => v \in crossed'
    BY <1>1, <2>1, <2>2, IdleIs DEF Formed, PV!Holders
  <2>5. \A u \in x.saves : u \in crossed' \/ product'[u] = product[u]
    BY <1>2, <2>3, <2>4
  <2>6. \A u \in x.wrote : product'[u] = product[u]
    BY <1>2, <2>2, <2>3
  <2>7. crossed \subseteq crossed'
    BY <1>1
  <2>8. Tracks(x, product', crossed')
    BY <2>2, <2>5, <2>6, <2>7, TracksMore
  <2> QED
    BY <1>1, <2>1, <2>2, <2>8
<1>9. ProductInv'
  BY <1>1, <1>5, <1>6, <1>7, <1>8 DEF ProductInv
<1>10. ASSUME ListInv PROVE ListInv'
  <2>1. ThereIn(product') = ThereIn(product) /\ SkusIn(product') = SkusIn(product)
        /\ (HasDefault(product) => HasDefault(product'))
    BY <1>4 DEF ThereIn, SkusIn, HasDefault
  <2>2. \A t \in Calls : AloneOn(productTx[t], product) => AloneOn(productTx[t], product')
    <3> SUFFICES ASSUME NEW t \in Calls, AloneOn(productTx[t], product) PROVE AloneOn(productTx[t], product')
      OBVIOUS
    <3>1. productTx[t].saves \subseteq PV!Variants /\ productTx[t].todo \subseteq PV!Variants
      BY HeldCall DEF PV!Call
    <3> QED
      BY <1>4, <3>1, AloneSame
  <2> QED
    BY <1>1, <1>10, <2>1, <2>2 DEF ListInv
<1> QED
  BY <1>9, <1>10

\* What a call that was alone leaves.
LEMMA CommitAlone ==
  ASSUME ProductInv, NEW t \in Calls, NEW x, x = productTx[t], x.pc = "commit", AloneOn(x, product), HasDefault(product),
         NEW S, S = [v \in PV!Variants |-> Seen(x, product, v)]
  PROVE  /\ HasDefault(S)
         /\ IF x.op = "archive" \/ (x.op = "update" /\ x.list = PV!Absent) THEN S = product
            ELSE x.asked = {} \/ SkusIn(S) = x.asked
<1>1. x \in PV!Call /\ Formed(x, given)
  BY HeldCall
<1>2. \A v \in PV!Variants : S[v] = Seen(x, product, v) /\ S[v].there \in BOOLEAN /\ S[v].def \in BOOLEAN
  BY SeenIs
<1>3. /\ \A v \in x.saves : /\ v \in PV!Variants /\ S[v].there /\ S[v].sku = x.ent[v].sku /\ S[v].def = x.ent[v].def
      /\ x.todo = {}
  BY <1>1, <1>2 DEF AloneOn, Saving, Ends, Formed, PV!Call
<1>4. CASE x.op = "archive" \/ (x.op = "update" /\ x.list = PV!Absent)
  <2>1. x.wrote = {}
    BY <1>4 DEF AloneOn
  <2>2. \A v \in PV!Variants : S[v] = product[v]
    BY <1>2, <2>1 DEF Seen
  <2>3. S = product
    BY <2>2, RowOf
  <2> QED
    BY <1>4, <2>3
<1>5. CASE x.op = "update" /\ x.list # PV!Absent
  <2>1. /\ ThereIn(product) \subseteq x.saves \cup x.wrote
        /\ (\A v \in x.wrote \ x.saves : ~x.w[v].there)
        /\ (\E d \in x.saves : \A v \in x.saves : x.ent[v].def <=> v = d)
        /\ { x.ent[v].sku : v \in x.saves } = x.asked
    BY <1>5 DEF AloneOn, WithList, Listing, Chosen
  <2>2. ThereIn(S) = x.saves
    <3>1. ASSUME NEW v \in PV!Variants, v \notin x.saves PROVE ~S[v].there
      BY <1>2, <2>1, <3>1 DEF Seen, ThereIn
    <3> QED
      BY <1>3, <3>1 DEF ThereIn
  <2>3. SkusIn(S) = x.asked
    <3>1. SkusIn(S) = { S[v].sku : v \in x.saves }
      BY <2>2 DEF SkusIn
    <3>2. \A v \in x.saves : S[v].sku = x.ent[v].sku
      BY <1>3
    <3>3. { S[v].sku : v \in x.saves } = { x.ent[v].sku : v \in x.saves }
      BY ONLY <3>2, Zenon
    <3> QED
      BY ONLY <2>1, <3>1, <3>3
  <2>4. HasDefault(S)
    BY SMTT(20), <1>3, <2>1, <2>2 DEF HasDefault
  <2> QED
    BY <1>5, <2>3, <2>4
<1>6. CASE x.op \in {"createVariant", "updateVariant"}
  <2>1. PICK k \in PV!Variants : Marking(x, product, k)
    BY <1>6 DEF AloneOn
  <2>2. /\ x.saves = {k} /\ x.asked = {}
        /\ \A u \in PV!Variants \ {k} : S[u].there = product[u].there
        /\ \/ x.ent[k].def /\ \A u \in ThereIn(product) \ {k} : ~S[u].def
           \/ /\ \A u \in PV!Variants \ {k} : S[u].def = product[u].def
              /\ x.ent[k].def = (product[k].there /\ product[k].def)
    BY <1>2, <2>1 DEF Marking, ThereIn
  <2>3. S[k].there /\ S[k].def = x.ent[k].def /\ x.ent[k].def \in BOOLEAN
    BY <1>2, <1>3, <2>2
  <2>4. ThereIn(S) = ThereIn(product) \cup {k}
    BY <2>2, <2>3 DEF ThereIn
  <2>5. HasDefault(S)
    <3>1. CASE x.ent[k].def /\ \A u \in ThereIn(product) \ {k} : ~S[u].def
      BY <2>3, <2>4, <3>1 DEF HasDefault
    <3>2. CASE /\ \A u \in PV!Variants \ {k} : S[u].def = product[u].def
               /\ x.ent[k].def = (product[k].there /\ product[k].def)
      <4>1. PICK d \in ThereIn(product) : \A u \in ThereIn(product) : product[u].def <=> u = d
        BY DEF HasDefault
      <4>2. \A u \in ThereIn(S) : u # k => u \in ThereIn(product) /\ u \in PV!Variants \ {k}
        BY <2>4 DEF ThereIn
      <4>3. S[k].def <=> k = d
        BY <2>3, <3>2, <4>1 DEF ThereIn
      <4>4. \A u \in ThereIn(S) : S[u].def <=> u = d
        BY <3>2, <4>1, <4>2, <4>3
      <4> QED
        BY <2>4, <4>1, <4>4 DEF HasDefault
    <3> QED
      BY <2>2, <3>1, <3>2
  <2> QED
    BY <1>6, <2>2, <2>5
<1>7. CASE x.op = "deleteVariant"
  <2>1. PICK k \in PV!Variants : Removing(x, product, k)
    BY <1>7 DEF AloneOn
  <2>2. /\ k \in ThereIn(product) /\ x.asked = {} /\ ~S[k].there
        /\ \A u \in PV!Variants \ {k} : S[u].there = product[u].there
        /\ IF product[k].def THEN \E d \in ThereIn(product) \ {k} : \A u \in ThereIn(product) \ {k} :
                                    S[u].def = (u = d \/ product[u].def)
           ELSE \A u \in ThereIn(product) \ {k} : S[u].def = product[u].def
    BY <1>2, <2>1 DEF Removing, ThereIn
  <2>3. ThereIn(S) = ThereIn(product) \ {k}
    BY <2>2 DEF ThereIn
  <2>4. PICK d \in ThereIn(product) : \A u \in ThereIn(product) : product[u].def <=> u = d
    BY DEF HasDefault
  <2>5. HasDefault(S)
    <3>1. CASE product[k].def
      <4>1. PICK e \in ThereIn(product) \ {k} : \A u \in ThereIn(product) \ {k} : S[u].def = (u = e \/ product[u].def)
        BY <2>2, <3>1
      <4>2. ASSUME NEW u \in ThereIn(product) \ {k} PROVE S[u].def <=> u = e
        <5>1. ~product[u].def
          BY <2>2, <2>4, <3>1
        <5>2. S[u].def = (u = e \/ product[u].def)
          BY <4>1
        <5> QED
          BY <5>1, <5>2
      <4> QED
        BY <2>3, <4>1, <4>2 DEF HasDefault
    <3>2. CASE ~product[k].def
      <4>1. d # k
        BY <2>4, <3>2
      <4>2. d \in ThereIn(S) /\ d \in ThereIn(product) \ {k}
        BY <2>3, <4>1
      <4>3. ASSUME NEW u \in ThereIn(S) PROVE S[u].def <=> u = d
        <5>1. u \in ThereIn(product) \ {k}
          BY <2>3
        <5>2. S[u].def = product[u].def
          BY <2>2, <3>2, <5>1
        <5> QED
          BY <2>4, <5>1, <5>2
      <4> QED
        BY <4>2, <4>3 DEF HasDefault
    <3> QED
      BY <3>1, <3>2
  <2> QED
    BY <1>7, <2>2, <2>5
<1>8. x.op \in {"archive", "update", "createVariant", "updateVariant", "deleteVariant"}
  BY <1>1 DEF AloneOn, PV!Call
<1> QED
  BY <1>4, <1>5, <1>6, <1>7, <1>8

LEMMA CommitProduct ==
  ASSUME ProductInv, NEW t \in Calls, PV!Commit(t)
  PROVE  ProductInv' /\ (ListInv => ListInv')
<1>1. PICK x : x = productTx[t]
  OBVIOUS
<1>2. PICK S : S = [v \in PV!Variants |-> Seen(x, product, v)]
  OBVIOUS
<1>3. x \in PV!Call /\ Formed(x, given) /\ Tracks(x, product, crossed) /\ x.pc = "commit"
  BY <1>1, HeldCall DEF PV!Commit
<1>4. \A v \in PV!Variants : S[v] = PV!View(t, v) /\ S[v] = Seen(x, product, v) /\ S[v] \in PV!Row
  BY <1>1, <1>2, SeenIs
<1>5. /\ product' = S /\ status' = (IF x.mine THEN x.status ELSE status)
      /\ ledger' = [v \in PV!Variants |-> IF v \in x.given THEN x.ent[v].stock ELSE ledger[v]]
      /\ crossed' = crossed \cup { v \in x.wrote : \E u \in PV!Others(t) : v \in productTx[u].saves }
      /\ asked' = IF x.op = "archive" \/ (x.op = "update" /\ x.list = PV!Absent) THEN asked
                  ELSE IF x.op = "update" /\ x.list = <<>> THEN {} ELSE x.asked
      /\ productTx' = [productTx EXCEPT ![t] = PV!Idle]
      /\ UNCHANGED <<given, raced, doubled, productCalls, productAborts>>
  <2>1. S = [v \in PV!Variants |-> PV!View(t, v)]
    BY <1>2, <1>4
  <2>2. product' = [v \in PV!Variants |-> PV!View(t, v)]
    BY DEF PV!Commit
  <2>3. x.op \in {"archive"} <=> x.op = "archive"
    OBVIOUS
  <2> QED
    BY <1>1, <2>1, <2>2, <2>3 DEF PV!Commit, PV!bounds
<1>6. /\ x.wrote \subseteq PV!Variants /\ x.ent \in [PV!Variants -> PV!Row] /\ x.given \subseteq PV!Variants
      /\ x.todo = {} /\ x.asked \in SUBSET Skus
  BY <1>3 DEF PV!Call, Formed
<1>7. status # "none" /\ status' \in {"active", "archived"}
  <2>1. status # "none"
    BY <1>1, <1>3 DEF ProductInv, Begun
  <2>2. x.mine => x.status \in {"active", "archived"}
    BY <1>3 DEF Formed, PV!Call
  <2> QED
    BY <1>5, <2>1, <2>2 DEF ProductInv, PV!TypeOK
<1>8. \A u \in Calls : productTx'[u] = IF u = t THEN PV!Idle ELSE productTx[u]
  BY <1>5 DEF ProductInv, PV!TypeOK
<1>9. PV!TypeOK'
  <2>1. product' \in [PV!Variants -> PV!Row]
    BY <1>2, <1>4, <1>5
  <2>2. productTx' \in [Calls -> PV!Call]
    BY <1>5, ProductTypes DEF ProductInv, PV!TypeOK
  <2>3. ledger' \in [PV!Variants -> Int]
    BY <1>5, <1>6 DEF ProductInv, PV!TypeOK, PV!Row
  <2>4. crossed' \in SUBSET PV!Variants /\ asked' \in SUBSET Skus
    BY <1>5, <1>6 DEF ProductInv, PV!TypeOK
  <2> QED
    BY <1>5, <1>7, <2>1, <2>2, <2>3, <2>4 DEF ProductInv, PV!TypeOK
<1>10. StockKept'
  <2> SUFFICES ASSUME NEW v \in PV!Variants, product'[v].there, v \notin crossed' PROVE product'[v].stock = ledger'[v]
    BY DEF StockKept, PV!StockKept, PV!Rows
  <2>1. Seen(x, product, v).there /\ v \notin crossed /\ Ends(x)
    BY <1>3, <1>4, <1>5 DEF Ends
  <2>2. CASE v \in x.given
    BY <1>3, <1>4, <1>5, <1>6, <2>1, <2>2 DEF Tracks
  <2>3. CASE v \notin x.given
    <3>1. product[v].there /\ product[v].stock = Seen(x, product, v).stock
      BY <1>3, <2>1, <2>3 DEF Tracks, Seen
    <3>2. product[v].stock = ledger[v]
      BY <2>1, <3>1 DEF ProductInv, StockKept, PV!StockKept, PV!Rows
    <3> QED
      BY <1>4, <1>5, <2>3, <3>1, <3>2
  <2> QED
    BY <2>2, <2>3
<1>11. Begun' /\ \A v \in PV!Variants : product'[v].there => v <= given'
  <2>1. Begun'
    BY <1>7 DEF Begun
  <2>2. ASSUME NEW v \in PV!Variants, product'[v].there PROVE v <= given'
    BY <1>3, <1>4, <1>5, <2>2 DEF Seen, Formed, ProductInv
  <2> QED
    BY <2>1, <2>2
<1>12. ASSUME NEW u \in Calls PROVE Formed(productTx'[u], given') /\ Tracks(productTx'[u], product', crossed')
  <2>1. CASE u = t
    BY <1>8, <2>1, IdleIs
  <2>2. CASE u # t
    <3>1. PICK y : y = productTx[u]
      OBVIOUS
    <3>2. y \in PV!Call /\ Formed(y, given) /\ Tracks(y, product, crossed) /\ y.wrote \cap x.wrote = {}
      BY <1>1, <2>2, <3>1, HeldCall DEF ProductInv
    <3>3. y.saves \subseteq PV!Variants /\ y.wrote \subseteq PV!Variants
      BY <3>2 DEF PV!Call
    <3>4. \A v \in PV!Variants : v \notin x.wrote => product'[v] = product[v]
      BY <1>4, <1>5 DEF Seen
    <3>5. \A v \in y.saves \cap x.wrote : v \in crossed'
      BY <1>5, <2>2, <3>1, <3>2, IdleIs DEF Formed, PV!Others
    <3>6. \A v \in y.saves : v \in crossed' \/ product'[v] = product[v]
      BY <3>3, <3>4, <3>5
    <3>7. \A v \in y.wrote : product'[v] = product[v]
      BY <3>2, <3>3, <3>4
    <3>8. crossed \subseteq crossed'
      BY <1>5
    <3>9. Tracks(y, product', crossed')
      BY <3>2, <3>6, <3>7, <3>8, TracksMore
    <3> QED
      BY <1>5, <1>8, <2>2, <3>1, <3>2, <3>9
  <2> QED
    BY <2>1, <2>2
<1>13. \A a, b \in Calls : a # b => productTx'[a].wrote \cap productTx'[b].wrote = {}
  BY <1>8, IdleIs DEF ProductInv
<1>14. ProductInv'
  BY <1>9, <1>10, <1>11, <1>12, <1>13 DEF ProductInv
<1>15. ASSUME ListInv, ~raced PROVE /\ \A u \in Calls : productTx'[u].pc = "idle"
                                    /\ ~doubled => HasDefault(product') /\ (asked' # {} => SkusIn(product') = asked')
  <2>1. \A u \in Calls : productTx'[u].pc = "idle"
    BY <1>1, <1>3, <1>8, <1>15, IdleIs DEF ListInv
  <2>2. ASSUME ~doubled PROVE HasDefault(product') /\ (asked' # {} => SkusIn(product') = asked')
    <3>1. HasDefault(product) /\ (asked # {} => SkusIn(product) = asked) /\ AloneOn(x, product)
      BY <1>1, <1>3, <1>7, <1>15, <2>2 DEF ListInv
    <3>2. /\ HasDefault(S)
          /\ IF x.op = "archive" \/ (x.op = "update" /\ x.list = PV!Absent) THEN S = product
             ELSE x.asked = {} \/ SkusIn(S) = x.asked
      BY <1>1, <1>2, <1>3, <3>1, CommitAlone
    <3> QED
      BY <1>5, <3>1, <3>2
  <2> QED
    BY <2>1, <2>2
<1>16. ListInv => ListInv'
  BY <1>5, <1>15 DEF ListInv
<1> QED
  BY <1>14, <1>16

--------------------------------------------------------------------------------
\* A set of natural numbers has a least element.
LEMMA Least ==
  ASSUME NEW S, S \subseteq Nat, S # {}
  PROVE  \E n \in S : \A m \in S : n <= m
<1>1. PICK z \in S : TRUE
  OBVIOUS
<1> DEFINE L == { k \in 0..z : \A m \in S : k <= m }
<1>2. IsFiniteSet(L) /\ L \subseteq Int /\ L # {}
  <2>1. IsFiniteSet(0..z)
    BY FS_Interval
  <2>2. 0 \in L
    OBVIOUS
  <2> QED
    BY <2>1, <2>2, FS_Subset
<1>3. PICK k \in L : \A m \in L : m <= k
  <2> HIDE DEF L
  <2> QED
    BY <1>2, Greatest
<1>4. k \in S
  <2> SUFFICES ASSUME k \notin S PROVE k + 1 \in L
    BY <1>2, <1>3
  <2>1. \A m \in S : k + 1 <= m
    <3>1. ASSUME NEW m \in S PROVE k + 1 <= m
      <4>1. k <= m /\ k # m /\ k \in Int /\ m \in Int
        OBVIOUS
      <4> QED
        BY <4>1
    <3> QED
      BY <3>1
  <2> QED
    BY <2>1
<1> QED
  BY <1>4

\* One element of a list is made the default.
LEMMA FirstDefault ==
  ASSUME NEW s \in Seq(DtoType), s # <<>>
  PROVE  \E d \in 1..Len(s) : \A n \in 1..Len(s) : (PV!IsDefault(s, n) \/ (PV!NoDefault(s) /\ n = 1)) <=> n = d
<1>1. Len(s) \in Nat /\ Len(s) # 0
  OBVIOUS
<1>2. CASE PV!NoDefault(s)
  <2>1. \A n \in 1..Len(s) : ~PV!IsDefault(s, n)
    BY <1>2 DEF PV!NoDefault, PV!IsDefault
  <2>2. 1 \in 1..Len(s)
    BY <1>1
  <2> QED
    BY <1>2, <2>1, <2>2
<1>3. CASE ~PV!NoDefault(s)
  <2> DEFINE S == { n \in 1..Len(s) : s[n].def }
  <2>1. S \subseteq Nat /\ S # {}
    BY <1>3 DEF PV!NoDefault
  <2>2. PICK d \in S : \A m \in S : d <= m
    <3> HIDE DEF S
    <3> QED
      BY <2>1, Least
  <2>3. ASSUME NEW n \in 1..Len(s) PROVE PV!IsDefault(s, n) <=> n = d
    <3>1. CASE n = d
      <4>1. ASSUME NEW k \in 1..(n - 1) PROVE ~s[k].def
        BY <1>1, <2>2, <3>1
      <4> QED
        BY <3>1, <4>1 DEF PV!IsDefault
    <3>2. CASE n # d
      <4>1. s[n].def => d \in 1..(n - 1) /\ s[d].def
        BY <1>1, <2>2, <3>2
      <4> QED
        BY <3>2, <4>1 DEF PV!IsDefault
    <3> QED
      BY <3>1, <3>2
  <2> QED
    BY <1>3, <2>3
<1> QED
  BY <1>2, <1>3

LEMMA ItemsTyped == PV!Items \subseteq DtoType /\ Lists \subseteq Seq(DtoType)
<1>1. Lists \subseteq Seq(DtoType)
  BY ProductsAssumption DEF DtoType
<1>2. ASSUME NEW s \in Lists, NEW n \in 1..Len(s) PROVE s[n] \in DtoType
  BY <1>1
<1>3. ASSUME NEW d \in PV!Items PROVE d \in DtoType
  <2>1. PICK s \in Lists : d \in { s[n] : n \in 1..Len(s) }
    BY DEF PV!Items
  <2> QED
    BY <1>2, <2>1
<1> QED
  BY <1>1, <1>3

LEMMA CreateKeeps ==
  ASSUME ProductInv, NEW s \in Lists, PV!Create(s)
  PROVE  ProductInv' /\ ListInv'
<1>1. /\ status = "none" /\ status' = "active" /\ productCalls' = productCalls + 1
      /\ product' = PV!CreatedRows(s) /\ given' = (IF s = <<>> THEN 1 ELSE Len(s))
      /\ ledger' = [v \in PV!Variants |-> product'[v].stock]
      /\ asked' = IF s = <<>> THEN {AutoSku} ELSE { s[n].sku : n \in 1..Len(s) }
      /\ UNCHANGED <<productTx, crossed, raced, doubled, productAborts>>
  BY DEF PV!Create
<1>2. /\ \A v \in PV!Variants : ~product[v].there
      /\ \A t \in Calls : productTx[t] = PV!Idle
  BY <1>1, HeldCall DEF ProductInv, Begun, Formed
<1>3. s \in Seq(DtoType) /\ Len(s) \in 0..MaxVariants /\ MaxVariants \in Nat /\ MaxVariants # 0
  BY ItemsTyped, ProductsAssumption
<1>4. PICK R : R = PV!CreatedRows(s)
  OBVIOUS
<1>12. \A n \in 1..Len(s) : s[n] \in DtoType /\ s[n].stock \in Int /\ s[n].sku \in Skus
  <2>1. \A n \in 1..Len(s) : s[n] \in DtoType
    BY <1>3
  <2> QED
    BY <2>1 DEF DtoType
<1>5. ASSUME s = <<>>
      PROVE  /\ \A v \in PV!Variants : R[v] \in PV!Row /\ (R[v].there => v <= given')
             /\ HasDefault(R) /\ SkusIn(R) = asked'
  <2>1. \A v \in PV!Variants : R[v] = IF v = 1 THEN [there |-> TRUE, sku |-> AutoSku, stock |-> 0, def |-> TRUE] ELSE PV!NoRow
    BY <1>4, <1>5 DEF PV!CreatedRows, PV!Variants
  <2>2. ~PV!NoRow.there /\ 1 \in PV!Variants
    BY <1>3, ProductTypes DEF PV!Variants
  <2>3. ThereIn(R) = {1} /\ R[1].def /\ R[1].sku = AutoSku
    BY <2>1, <2>2 DEF ThereIn
  <2>4. \A v \in PV!Variants : R[v] \in PV!Row
    <3>1. [there |-> TRUE, sku |-> AutoSku, stock |-> 0, def |-> TRUE] \in PV!Row
      BY ProductsAssumption DEF PV!Row
    <3> QED
      BY <2>1, <3>1, ProductTypes
  <2>5. SkusIn(R) = {AutoSku} /\ HasDefault(R)
    BY <2>3 DEF SkusIn, HasDefault
  <2>6. \A v \in PV!Variants : R[v].there => v <= 1
    BY <2>1, <2>2
  <2> QED
    BY <1>1, <1>5, <2>4, <2>5, <2>6
<1>6. ASSUME s # <<>>
      PROVE  /\ \A v \in PV!Variants : R[v] \in PV!Row /\ (R[v].there => v <= given')
             /\ HasDefault(R) /\ SkusIn(R) = asked'
  <2>1. \A v \in PV!Variants : R[v] =
          IF v <= Len(s) THEN PV!Entity(s[v], s[v].stock, PV!IsDefault(s, v) \/ (PV!NoDefault(s) /\ v = 1)) ELSE PV!NoRow
    BY <1>4, <1>6 DEF PV!CreatedRows
  <2>2. \A v \in PV!Variants : v <= Len(s) => v \in 1..Len(s) /\ s[v] \in DtoType /\ s[v].stock \in Int /\ s[v].sku \in Skus
    BY <1>3, <1>12 DEF PV!Variants
  <2>3. ASSUME NEW v \in PV!Variants, v <= Len(s)
        PROVE  /\ R[v] \in PV!Row /\ R[v].there /\ R[v].sku = s[v].sku
               /\ R[v].def = (PV!IsDefault(s, v) \/ (PV!NoDefault(s) /\ v = 1))
    <3>1. PICK f : f = (PV!IsDefault(s, v) \/ (PV!NoDefault(s) /\ v = 1))
      OBVIOUS
    <3>2. R[v] = PV!Entity(s[v], s[v].stock, f) /\ f \in BOOLEAN
      BY <2>1, <2>3, <3>1
    <3>3. PICK d : d = s[v]
      OBVIOUS
    <3>4. d \in DtoType /\ d.stock \in Int /\ R[v] = PV!Entity(d, d.stock, f)
      BY <2>2, <2>3, <3>2, <3>3
    <3>5. R[v] \in PV!Row /\ R[v].there /\ R[v].sku = d.sku /\ R[v].def = f
      BY <3>2, <3>4, ProductTypes
    <3> QED
      BY <3>1, <3>3, <3>5
  <2>4. \A v \in PV!Variants : ~(v <= Len(s)) => R[v] = PV!NoRow
    BY <2>1
  <2>5. \A v \in PV!Variants : R[v] \in PV!Row /\ (R[v].there <=> v <= Len(s))
    BY <2>3, <2>4, ProductTypes
  <2>6. ThereIn(R) = 1..Len(s) /\ 1..Len(s) \subseteq PV!Variants
    <3>2. 1..Len(s) \subseteq PV!Variants /\ \A v \in PV!Variants : v <= Len(s) <=> v \in 1..Len(s)
      BY <1>3 DEF PV!Variants
    <3> QED
      BY <2>5, <3>2 DEF ThereIn
  <2>7. HasDefault(R)
    <3>1. PICK d \in 1..Len(s) : \A n \in 1..Len(s) : (PV!IsDefault(s, n) \/ (PV!NoDefault(s) /\ n = 1)) <=> n = d
      BY <1>3, <1>6, FirstDefault
    <3>2. ASSUME NEW n \in 1..Len(s) PROVE R[n].def <=> n = d
      <4>1. R[n].def = (PV!IsDefault(s, n) \/ (PV!NoDefault(s) /\ n = 1))
        BY <1>3, <2>3, <2>6
      <4> QED
        BY <3>1, <4>1
    <3> QED
      BY SMTT(20), <2>6, <3>2 DEF HasDefault
  <2>8. SkusIn(R) = { s[n].sku : n \in 1..Len(s) }
    <3>1. \A n \in 1..Len(s) : R[n].sku = s[n].sku
      BY <1>3, <2>3, <2>6
    <3>2. { R[n].sku : n \in 1..Len(s) } = { s[n].sku : n \in 1..Len(s) }
      BY ONLY <3>1, Zenon
    <3> QED
      BY <2>6, <3>2 DEF SkusIn
  <2> QED
    BY <1>1, <1>6, <2>5, <2>7, <2>8
<1>7. /\ \A v \in PV!Variants : product'[v] \in PV!Row /\ (product'[v].there => v <= given')
      /\ HasDefault(product') /\ SkusIn(product') = asked'
  <2>1. R = product'
    BY <1>1, <1>4
  <2> QED
    BY <1>5, <1>6, <2>1
<1>8. PV!TypeOK'
  <2>1. product' \in [PV!Variants -> PV!Row]
    <3>1. product' = [v \in PV!Variants |-> product'[v]]
      BY <1>1 DEF PV!CreatedRows
    <3> QED
      BY <1>7, <3>1
  <2>2. ledger' \in [PV!Variants -> Int]
    BY <1>1, <1>7 DEF PV!Row
  <2>3. asked' \in SUBSET Skus
    BY <1>1, <1>12, ProductsAssumption
  <2>4. given' \in Nat
    BY <1>1, <1>3
  <2> QED
    BY <1>1, <2>1, <2>2, <2>3, <2>4 DEF ProductInv, PV!TypeOK
<1>9. StockKept' /\ Begun'
  BY <1>1 DEF StockKept, PV!StockKept, PV!Rows, Begun
<1>10. ProductInv'
  BY <1>1, <1>2, <1>7, <1>8, <1>9, IdleIs DEF ProductInv
<1>11. ListInv'
  BY <1>1, <1>2, <1>7, IdleIs DEF ListInv
<1> QED
  BY <1>10, <1>11

--------------------------------------------------------------------------------
LEMMA BeginUpdateProduct ==
  ASSUME ProductInv, NEW t \in Calls, NEW st \in {"keep", "active", "archived"}, NEW s \in Lists \cup {PV!Absent},
         PV!BeginUpdate(t, st, s)
  PROVE  ProductInv' /\ (ListInv => ListInv')
<1> DEFINE r == [PV!Idle EXCEPT !.op = "update", !.status = st, !.loaded = status, !.seen = PV!Rows,
                                !.list = s, !.pc = "product"]
<1>1. PV!Arrive(t, r) /\ status # "none" /\ given' = given
  BY DEF PV!BeginUpdate
<1>2. status \in {"active", "archived"} /\ PV!Rows \in SUBSET PV!Variants
  BY <1>1 DEF ProductInv, PV!TypeOK, PV!Rows
<1>3. r \in PV!Call
  BY <1>2, ProductTypes DEF PV!Call
<1>4. /\ r.pc = "product" /\ r.op = "update" /\ r.loaded = status /\ r.list = s /\ r.saves = PV!Idle.saves
      /\ r.wrote = PV!Idle.wrote /\ r.todo = PV!Idle.todo /\ r.given = PV!Idle.given /\ r.gone = PV!Idle.gone
      /\ r.mine = PV!Idle.mine
  BY ProductTypes DEF PV!Call
<1> HIDE DEF r
<1>5. r.saves = {} /\ r.wrote = {} /\ r.todo = {} /\ r.given = {} /\ r.gone = {} /\ ~r.mine
  BY <1>4, IdleIs
<1>6. Formed(r, given) /\ Tracks(r, product, crossed)
  BY <1>2, <1>4, <1>5 DEF Formed, Tracks, Ends
<1>7. AloneOn(r, product)
  BY <1>4, <1>5 DEF AloneOn, Saving, Listing, Ends
<1>8. given' \in Nat /\ given <= given'
  BY <1>1, RowOf
<1> QED
  BY <1>1, <1>3, <1>5, <1>6, <1>7, <1>8, ArrivalKeeps

LEMMA BeginArchiveProduct ==
  ASSUME ProductInv, NEW t \in Calls, PV!BeginArchive(t)
  PROVE  ProductInv' /\ (ListInv => ListInv')
<1> DEFINE r == [PV!Idle EXCEPT !.op = "archive", !.status = "archived", !.loaded = status,
                                !.seen = PV!Variants, !.pc = "product"]
<1>1. PV!Arrive(t, r) /\ status # "none" /\ given' = given
  BY DEF PV!BeginArchive
<1>2. status \in {"active", "archived"}
  BY <1>1 DEF ProductInv, PV!TypeOK, PV!Rows
<1>3. r \in PV!Call
  BY <1>2, ProductTypes DEF PV!Call
<1>4. /\ r.pc = "product" /\ r.op = "archive" /\ r.loaded = status /\ r.list = PV!Idle.list /\ r.saves = PV!Idle.saves
      /\ r.wrote = PV!Idle.wrote /\ r.todo = PV!Idle.todo /\ r.given = PV!Idle.given /\ r.gone = PV!Idle.gone
      /\ r.mine = PV!Idle.mine
  BY ProductTypes DEF PV!Call
<1> HIDE DEF r
<1>5. r.saves = {} /\ r.wrote = {} /\ r.todo = {} /\ r.given = {} /\ r.gone = {} /\ ~r.mine /\ r.list = PV!Absent
  BY <1>4, IdleIs
<1>6. Formed(r, given) /\ Tracks(r, product, crossed)
  BY <1>2, <1>4, <1>5 DEF Formed, Tracks, Ends
<1>7. AloneOn(r, product)
  BY <1>4, <1>5 DEF AloneOn, Saving, Listing, Ends, WithList
<1>8. given' \in Nat /\ given <= given'
  BY <1>1, RowOf
<1> QED
  BY <1>1, <1>3, <1>5, <1>6, <1>7, <1>8, ArrivalKeeps

\* The variant that createVariant or updateVariant saves.
LEMMA BeginMarking ==
  ASSUME ProductInv, NEW t \in Calls, NEW v \in PV!Variants, NEW e \in PV!Row, NEW G, G \subseteq {v},
         NEW o \in {"createVariant", "updateVariant"}, NEW p \in {"demote", "compare"}, NEW r,
         r = [PV!Idle EXCEPT !.op = o, !.saves = {v}, !.given = G, !.ent[v] = e, !.pc = p],
         PV!Arrive(t, r), given' \in Nat, given <= given', v <= given', status # "none", e.there,
         v \notin G => v \in crossed \/ (product[v].there /\ product[v].stock = e.stock),
         p = "demote" => e.def, p = "compare" => e.def = (product[v].there /\ product[v].def)
  PROVE  ProductInv' /\ (ListInv => ListInv')
<1>1. r \in PV!Call
  <2>1. {v} \in SUBSET PV!Variants /\ G \in SUBSET PV!Variants
    OBVIOUS
  <2>2. [PV!Idle.ent EXCEPT ![v] = e] \in [PV!Variants -> PV!Row]
    BY ProductTypes DEF PV!Call
  <2>3. PICK E : E = [PV!Idle.ent EXCEPT ![v] = e]
    OBVIOUS
  <2>4. r = [PV!Idle EXCEPT !.op = o, !.saves = {v}, !.given = G, !.ent = E, !.pc = p]
    BY <2>3
  <2>5. E \in [PV!Variants -> PV!Row] /\ o \in {"createVariant", "updateVariant"} /\ p \in {"demote", "compare"}
    BY <2>2, <2>3
  <2> QED
    BY ONLY <2>1, <2>4, <2>5, ProductTypes DEF PV!Call
<1>2. /\ r.pc = p /\ r.op = o /\ r.list = PV!Idle.list /\ r.saves = {v}
      /\ r.wrote = PV!Idle.wrote /\ r.todo = PV!Idle.todo /\ r.given = G /\ r.gone = PV!Idle.gone
      /\ r.mine = PV!Idle.mine /\ r.ins = PV!Idle.ins /\ r.asked = PV!Idle.asked
      /\ r.ent = [PV!Idle.ent EXCEPT ![v] = e]
  BY ProductTypes DEF PV!Call
<1>3. r.ent[v] = e
  BY <1>2, ProductTypes DEF PV!Call
<1>4. r.wrote = {} /\ r.todo = {} /\ r.gone = {} /\ ~r.mine /\ r.list = PV!Absent /\ r.asked = {}
  BY <1>2, IdleIs
<1>5. Formed(r, given')
  BY <1>2, <1>3, <1>4 DEF Formed
<1>6. Tracks(r, product, crossed)
  BY <1>2, <1>3, <1>4 DEF Tracks, Ends
<1>7. AloneOn(r, product)
  <2>1. Saving(r, product)
    BY <1>2 DEF Saving, Ends
  <2>2. \A u : Seen(r, product, u) = product[u]
    BY <1>4 DEF Seen
  <2>3. Marking(r, product, v)
    BY <1>2, <1>3, <1>4, <2>2 DEF Marking
  <2> QED
    BY <1>2, <1>4, <2>1, <2>3 DEF AloneOn, WithList
<1> QED
  BY <1>1, <1>4, <1>5, <1>6, <1>7, ArrivalKeeps

LEMMA BeginCreateVariantProduct ==
  ASSUME ProductInv, NEW t \in Calls, NEW d \in PV!Items, PV!BeginCreateVariant(t, d)
  PROVE  ProductInv' /\ (ListInv => ListInv')
<1>1. PICK v : v = given + 1
  OBVIOUS
<1>2. PICK e : e = PV!Entity(d, d.stock, d.def)
  OBVIOUS
<1>3. PICK p : p = IF d.def THEN "demote" ELSE "compare"
  OBVIOUS
<1>4. PICK r : r = [PV!Idle EXCEPT !.op = "createVariant", !.saves = {v}, !.given = {v}, !.ent[v] = e, !.pc = p]
  OBVIOUS
<1>5. PV!Arrive(t, r) /\ status # "none" /\ given' = v /\ given < MaxVariants
  BY <1>1, <1>2, <1>3, <1>4 DEF PV!BeginCreateVariant
<1>6. v \in PV!Variants /\ given \in Nat /\ given' \in Nat /\ given <= given' /\ v <= given'
  BY <1>1, <1>5, RowOf, ProductsAssumption DEF PV!Variants
<1>7. d \in DtoType /\ d.stock \in Int /\ d.def \in BOOLEAN
  BY ItemsTyped DEF DtoType
<1>8. e \in PV!Row /\ e.there /\ e.def = d.def
  BY <1>2, <1>7, ProductTypes
<1>9. ~product[v].there
  BY <1>1, <1>6 DEF ProductInv
<1>10. /\ {v} \subseteq {v} /\ p \in {"demote", "compare"}
       /\ (v \notin {v} => v \in crossed \/ (product[v].there /\ product[v].stock = e.stock))
       /\ (p = "demote" => e.def) /\ (p = "compare" => e.def = (product[v].there /\ product[v].def))
  BY <1>3, <1>7, <1>8, <1>9
<1> QED
  BY <1>4, <1>5, <1>6, <1>8, <1>10, BeginMarking

LEMMA BeginUpdateVariantProduct ==
  ASSUME ProductInv, NEW t \in Calls, NEW v \in PV!Variants, NEW d \in PV!Items, PV!BeginUpdateVariant(t, v, d)
  PROVE  ProductInv' /\ (ListInv => ListInv')
<1>1. PICK G : G = IF d.stock = PV!None THEN {} ELSE {v}
  OBVIOUS
<1>2. PICK n : n = IF d.stock = PV!None THEN product[v].stock ELSE d.stock
  OBVIOUS
<1>3. PICK f : f = (product[v].def \/ d.def)
  OBVIOUS
<1>4. PICK e : e = PV!Entity(d, n, f)
  OBVIOUS
<1>5. PICK p : p = IF d.def /\ ~product[v].def THEN "demote" ELSE "compare"
  OBVIOUS
<1>6. PICK r : r = [PV!Idle EXCEPT !.op = "updateVariant", !.saves = {v}, !.given = G, !.ent[v] = e, !.pc = p]
  OBVIOUS
<1>7. PV!Arrive(t, r) /\ product[v].there /\ given' = given
  BY <1>1, <1>2, <1>3, <1>4, <1>5, <1>6 DEF PV!BeginUpdateVariant, PV!Rows
<1>8. given \in Nat /\ given <= given' /\ v <= given' /\ status # "none"
  BY <1>7, RowOf DEF ProductInv, Begun
<1>9. d \in DtoType /\ d.stock \in Int /\ d.def \in BOOLEAN
  BY ItemsTyped DEF DtoType
<1>10. n \in Int /\ f \in BOOLEAN
  BY <1>2, <1>3, <1>9, RowOf
<1>11. e \in PV!Row /\ e.there /\ e.def = f /\ e.stock = n
  BY <1>4, <1>9, <1>10, ProductTypes
<1>12. /\ G \subseteq {v} /\ p \in {"demote", "compare"}
       /\ (v \notin G => v \in crossed \/ (product[v].there /\ product[v].stock = e.stock))
       /\ (p = "demote" => e.def)
  BY <1>1, <1>2, <1>3, <1>5, <1>7, <1>11
<1>13. p = "compare" => e.def = (product[v].there /\ product[v].def)
  <2>1. product[v].there = TRUE /\ product[v].def \in BOOLEAN
    BY <1>7, RowOf
  <2> QED
    BY <1>3, <1>5, <1>9, <1>11, <2>1
<1> QED
  BY <1>6, <1>7, <1>8, <1>11, <1>12, <1>13, BeginMarking

LEMMA BeginDeleteVariantProduct ==
  ASSUME ProductInv, NEW t \in Calls, NEW v \in PV!Variants, PV!BeginDeleteVariant(t, v)
  PROVE  ProductInv' /\ (ListInv => ListInv')
<1>1. PICK H : H = PV!Heir(v)
  OBVIOUS
<1> DEFINE r == [PV!Idle EXCEPT !.op = "deleteVariant", !.gone = {v}, !.next = H, !.pc = "delete"]
<1>2. /\ PV!Arrive(t, r) /\ product[v].there /\ given' = given
      /\ PV!Cardinality(PV!Rows) > 1
  BY <1>1 DEF PV!BeginDeleteVariant, PV!Rows
<1>3. PV!Rows \ {v} # {} /\ PV!Rows \ {v} \subseteq Nat /\ PV!Rows = ThereIn(product) /\ ThereIn(product) \subseteq PV!Variants
  <2>1. PV!Cardinality(PV!Rows) = Cardinality(PV!Rows)
    BY DEF PV!Cardinality, Cardinality
  <2>2. PV!Rows # {v}
    <3> SUFFICES ASSUME PV!Rows = {v} PROVE FALSE
      OBVIOUS
    <3>1. Cardinality({v}) = 1
      BY FS_Singleton
    <3>2. Cardinality(PV!Rows) > 1
      BY <1>2, <2>1
    <3> QED
      BY <3>1, <3>2
  <2>3. v \in PV!Rows
    BY <1>2 DEF PV!Rows
  <2> QED
    BY <2>2, <2>3, RowOf DEF ThereIn
<1>4. IF product[v].def THEN \E u \in ThereIn(product) \ {v} : H = {u} ELSE H = {}
  <2>1. PICK u \in PV!Rows \ {v} : \A m \in PV!Rows \ {v} : u <= m
    BY <1>3, Least
  <2>2. PV!Oldest(PV!Rows \ {v}) \in PV!Rows \ {v}
    BY <2>1 DEF PV!Oldest
  <2> QED
    BY <1>1, <1>3, <2>2 DEF PV!Heir
<1>5. H \in SUBSET PV!Variants
  BY <1>3, <1>4
<1>6. r \in PV!Call
  BY ZenonT(30), <1>5, ProductTypes DEF PV!Call
<1>7. /\ r.pc = "delete" /\ r.op = "deleteVariant" /\ r.list = PV!Idle.list /\ r.saves = PV!Idle.saves
      /\ r.wrote = PV!Idle.wrote /\ r.todo = PV!Idle.todo /\ r.given = PV!Idle.given /\ r.gone = {v}
      /\ r.mine = PV!Idle.mine /\ r.next = H /\ r.asked = PV!Idle.asked
  BY ProductTypes DEF PV!Call
<1> HIDE DEF r
<1>8. r.saves = {} /\ r.wrote = {} /\ r.todo = {} /\ r.given = {} /\ ~r.mine /\ r.asked = {}
  BY <1>7, IdleIs
<1>9. Formed(r, given) /\ Tracks(r, product, crossed)
  BY <1>7, <1>8 DEF Formed, Tracks, Ends
<1>10. AloneOn(r, product)
  <2>1. Removing(r, product, v)
    BY <1>2, <1>4, <1>7, <1>8 DEF Removing, ThereIn
  <2> QED
    BY <1>7, <1>8, <2>1 DEF AloneOn, Saving, Ends, WithList
<1>11. given' \in Nat /\ given <= given' /\ status # "none"
  BY <1>2, RowOf DEF ProductInv, Begun
<1> QED
  BY <1>2, <1>6, <1>8, <1>9, <1>10, <1>11, ArrivalKeeps

LEMMA LastIs == ASSUME NEW k \in Nat, NEW N, N \subseteq 1..k, N # {} PROVE PV!LastOf(N) \in N
<1>1. IsFiniteSet(N) /\ N \subseteq Int
  <2>1. IsFiniteSet(1..k)
    BY FS_Interval
  <2>2. N \in SUBSET (1..k) /\ 1..k \subseteq Int
    OBVIOUS
  <2> QED
    BY <2>1, <2>2, FS_Subset
<1>2. PICK n \in N : \A m \in N : m <= n
  BY <1>1, Greatest
<1> QED
  BY <1>2 DEF PV!LastOf

\* What an element of the list stands for: a variant of the product or a new one.
LEMMA TargetIs ==
  ASSUME ProductInv, NEW s \in Seq(DtoType), NEW fresh, fresh = { PV!Target(s, n) : n \in PV!New(s) }
  PROVE  /\ PV!New(s) \subseteq 1..Len(s) /\ Cardinality(fresh) \in Nat
         /\ \A n \in 1..Len(s) : n \notin PV!New(s) => PV!Target(s, n) \in PV!Rows
         /\ \A n \in PV!New(s) : PV!Target(s, n) \in Nat /\ PV!Target(s, n) <= given + Cardinality(fresh)
<1>1. PICK N : N = PV!New(s)
  OBVIOUS
<1>2. N \subseteq 1..Len(s) /\ Len(s) \in Nat
  BY <1>1 DEF PV!New
<1>3. IsFiniteSet(N)
  <2>1. IsFiniteSet(1..Len(s))
    BY <1>2, FS_Interval
  <2> QED
    BY <1>2, <2>1, FS_Subset
<1> DEFINE B(n) == { k \in N : k <= n }
           f == [n \in N |-> PV!Target(s, n)]
<1>4. \A n \in N : IsFiniteSet(B(n)) /\ Cardinality(B(n)) \in Nat /\ Cardinality(B(n)) <= Cardinality(N)
  BY <1>3, FS_Subset, FS_CardinalityType
<1>5. ASSUME NEW m \in N, NEW n \in N, m < n PROVE Cardinality(B(m)) < Cardinality(B(n))
  <2>1. B(m) \subseteq B(n) /\ n \in B(n) /\ n \notin B(m)
    <3>1. \A k \in N : k \in Nat
      BY <1>2
    <3> QED
      BY <1>5, <3>1
  <2>2. B(m) # B(n)
    BY <2>1
  <2>3. Cardinality(B(m)) <= Cardinality(B(n)) /\ Cardinality(B(m)) # Cardinality(B(n))
    <3> HIDE DEF B
    <3> QED
      BY <1>4, <2>1, <2>2, FS_Subset
  <2> HIDE DEF B
  <2> QED
    BY <1>4, <2>3
<1>6. \A n \in N : PV!Target(s, n) = given + Cardinality(B(n))
  <2>1. \A S : PV!Cardinality(S) = Cardinality(S)
    BY DEF PV!Cardinality, Cardinality
  <2> QED
    BY <1>1, <2>1 DEF PV!Target
<1> HIDE DEF B
<1>7. given \in Nat
  BY RowOf
<1>8. \A m, n \in N : f[m] = f[n] => m = n
  <2> SUFFICES ASSUME NEW m \in N, NEW n \in N, f[m] = f[n], m # n PROVE FALSE
    OBVIOUS
  <2>1. Cardinality(B(m)) = Cardinality(B(n))
    BY <1>4, <1>6, <1>7
  <2>2. m < n \/ n < m
    BY <1>2
  <2> QED
    BY <1>4, <1>5, <2>1, <2>2
<1>9. fresh = { f[n] : n \in N }
  BY <1>1
<1>10. f \in Bijection(N, fresh)
  BY <1>8, <1>9 DEF Bijection, Injection, Surjection, IsInjective
<1>11. Cardinality(fresh) = Cardinality(N) /\ Cardinality(N) \in Nat
  BY <1>3, <1>10, FS_Bijection, FS_CardinalityType DEF ExistsBijection
<1>12. \A n \in N : PV!Target(s, n) \in Nat /\ PV!Target(s, n) <= given + Cardinality(fresh)
  BY <1>4, <1>6, <1>7, <1>11
<1>13. ASSUME NEW n \in 1..Len(s), n \notin N PROVE PV!Target(s, n) \in PV!Rows
  <2>1. PV!Matched(s, n) # {}
    BY <1>1, <1>13 DEF PV!New
  <2>2. PV!Target(s, n) \in PV!Matched(s, n)
    BY <1>1, <1>13, <2>1 DEF PV!Target
  <2> QED
    BY <2>2 DEF PV!Matched
<1> QED
  BY <1>1, <1>2, <1>11, <1>12, <1>13

\* The entity for a variant of the list.
LEMMA SyncedIs ==
  ASSUME ProductInv, NEW s \in Seq(DtoType), NEW v \in PV!Variants, PV!For(s, v) # {}
  PROVE  /\ PV!LastOf(PV!For(s, v)) \in PV!For(s, v)
         /\ PV!Synced(s, v) \in PV!Row /\ PV!Synced(s, v).there
         /\ PV!Synced(s, v).sku = s[PV!LastOf(PV!For(s, v))].sku
         /\ PV!Synced(s, v).def = (PV!IsDefault(s, PV!LastOf(PV!For(s, v))) \/ (PV!NoDefault(s) /\ 1 \in PV!For(s, v)))
         /\ (\A n \in PV!For(s, v) : s[n].stock = PV!None) => PV!Synced(s, v).stock = product[v].stock
<1>1. PICK F : F = PV!For(s, v)
  OBVIOUS
<1>2. PICK n : n = PV!LastOf(F)
  OBVIOUS
<1>3. PICK d : d = s[n]
  OBVIOUS
<1>4. PICK k : k = PV!StockOf(s, v)
  OBVIOUS
<1>5. PICK f : f = (PV!IsDefault(s, n) \/ (PV!NoDefault(s) /\ 1 \in F))
  OBVIOUS
<1>6. F \subseteq 1..Len(s) /\ Len(s) \in Nat /\ F # {}
  BY <1>1 DEF PV!For
<1>7. n \in F
  BY <1>2, <1>6, LastIs
<1>8. \A i \in F : s[i] \in DtoType
  BY <1>6
<1>9. k \in Int /\ ((\A i \in F : s[i].stock = PV!None) => k = product[v].stock)
  <2>1. PICK G : G = { i \in F : s[i].stock # PV!None }
    OBVIOUS
  <2>2. k = IF G = {} THEN product[v].stock ELSE s[PV!LastOf(G)].stock
    BY <1>1, <1>4, <2>1 DEF PV!StockOf
  <2>3. CASE G = {}
    BY <2>2, <2>3, RowOf
  <2>4. CASE G # {}
    <3>1. PV!LastOf(G) \in G
      BY <1>6, <2>1, <2>4, LastIs
    <3>2. s[PV!LastOf(G)].stock \in Int
      BY <1>8, <2>1, <3>1 DEF DtoType
    <3> QED
      BY <2>1, <2>2, <2>4, <3>1, <3>2
  <2> QED
    BY <2>3, <2>4
<1>10. PV!Synced(s, v) = PV!Entity(d, k, f) /\ d \in DtoType /\ f \in BOOLEAN
  BY <1>1, <1>2, <1>3, <1>4, <1>5, <1>7, <1>8 DEF PV!Synced
<1>11. LET e == PV!Synced(s, v) IN e \in PV!Row /\ e.there /\ e.sku = d.sku /\ e.stock = k /\ e.def = f
  BY <1>9, <1>10, ProductTypes
<1> QED
  BY <1>1, <1>2, <1>3, <1>5, <1>7, <1>9, <1>11

\* A list is made ready: own are its variants, the others will be deleted.
LEMMA LoadLocal ==
  ASSUME ProductInv, NEW t \in Calls, productTx[t].pc = "variants",
         NEW own, NEW old, NEW G, NEW E, NEW A, PV!Load(t, own, old, G, E, A),
         old = PV!Rows \ own, G \subseteq own, E \in [PV!Variants -> PV!Row], A \in SUBSET Skus,
         UNCHANGED <<status, product, ledger, crossed, raced, asked, productCalls, productAborts>>,
         given' \in Nat, given <= given', doubled' \in BOOLEAN, doubled => doubled',
         \A v \in own : v <= given' /\ E[v].there,
         \A v \in own \ G : product[v].there /\ product[v].stock = E[v].stock,
         ~doubled' => Chosen(own, E, A)
  PROVE  ProductInv' /\ (ListInv => ListInv')
<1>15. PICK x : x = productTx[t]
  OBVIOUS
<1>16. PICK p : p = IF old = {} THEN "compare" ELSE "delete"
  OBVIOUS
<1>17. PICK r : r = [x EXCEPT !.saves = own, !.gone = old, !.given = G, !.ent = E, !.asked = A, !.pc = p]
  OBVIOUS
<1>18. own \subseteq PV!Variants /\ productTx' = [productTx EXCEPT ![t] = r]
  BY <1>15, <1>16, <1>17 DEF PV!Load
<1>1. x \in PV!Call /\ Formed(x, given) /\ x.pc = "variants"
  BY <1>15, HeldCall
<1>2. PV!Rows = ThereIn(product) /\ PV!Rows \subseteq PV!Variants
  BY RowOf DEF ThereIn
<1>3. r \in PV!Call
  <2>1. own \in SUBSET PV!Variants /\ old \in SUBSET PV!Variants /\ G \in SUBSET PV!Variants
        /\ p \in {"compare", "delete"} /\ A \in {{}} \cup SUBSET Skus /\ E \in [PV!Variants -> PV!Row]
    BY <1>2, <1>16, <1>18
  <2> QED
    BY ONLY <1>1, <1>17, <2>1 DEF PV!Call
<1>4. /\ r.pc = p /\ r.op = x.op /\ r.list = x.list /\ r.saves = own /\ r.wrote = x.wrote /\ r.todo = x.todo
      /\ r.given = G /\ r.gone = old /\ r.status = x.status /\ r.mine = x.mine /\ r.ent = E /\ r.asked = A
  BY ONLY <1>1, <1>17 DEF PV!Call
<1>5. x.wrote = {} /\ x.todo = {} /\ (x.mine => x.status # "keep") /\ p \in {"compare", "delete"}
  BY <1>1, <1>16 DEF Formed
<1>6. status # "none"
  BY <1>1, <1>15 DEF ProductInv, Begun
<1>7. ASSUME AloneOn(x, product) PROVE x.op = "update" /\ x.list # PV!Absent
  <2>1. x.op \notin {"archive", "createVariant", "updateVariant", "deleteVariant", "none"}
    BY <1>1, <1>7 DEF AloneOn, Marking, Removing
  <2> QED
    BY <1>1, <1>7, <2>1 DEF AloneOn, PV!Call
<1>8. Formed(r, given')
  <2>1. x.op = "update"
    BY <1>1 DEF Formed
  <2> QED
    BY <1>4, <1>5, <2>1 DEF Formed
<1>9. Tracks(r, product, crossed)
  BY <1>4, <1>5 DEF Tracks, Ends
<1>10. ASSUME ~doubled', AloneOn(x, product) PROVE AloneOn(r, product)
  <2>1. Saving(r, product)
    BY <1>4, <1>5 DEF Saving, Ends
  <2>2. Listing(r, product)
    <3>1. ThereIn(product) \subseteq r.saves \cup r.gone \cup r.wrote
      BY <1>2, <1>4
    <3>2. r.pc # "delete" => r.gone = {}
      BY <1>4, <1>16
    <3> QED
      BY <1>4, <1>5, <1>10, <3>1, <3>2 DEF Listing
  <2> QED
    BY <1>4, <1>5, <1>7, <1>10, <2>1, <2>2 DEF AloneOn
<1>11. \A u \in Calls \ {t} : r.wrote \cap productTx[u].wrote = {}
  BY <1>4, <1>5
<1>12. raced' \in BOOLEAN /\ productCalls' \in Nat /\ productAborts' \in Nat
  BY DEF ProductInv, PV!TypeOK
<1>13. ProductInv'
  BY <1>3, <1>6, <1>8, <1>9, <1>11, <1>12, <1>18, ProductLocal
<1>14. ASSUME ListInv PROVE ListInv'
  <2>1. ~raced' => \A u \in Calls \ {t} : productTx[u].pc = "idle"
    BY <1>14 DEF ListInv
  <2>2. ~raced' /\ ~doubled' => AloneOn(x, product)
    BY <1>1, <1>14, <1>15 DEF ListInv
  <2> QED
    BY <1>3, <1>10, <1>14, <1>18, <2>1, <2>2, ListLocal
<1> QED
  BY <1>13, <1>14


LEMMA LoadListProduct ==
  ASSUME ProductInv, NEW t \in Calls, NEW s \in Seq(DtoType), s # <<>>, productTx[t].pc = "variants",
         PV!LoadList(t, s),
         UNCHANGED <<status, product, ledger, crossed, raced, asked, productCalls, productAborts>>
  PROVE  ProductInv' /\ (ListInv => ListInv')
<1>1. CASE \E n \in PV!New(s) : s[n].stock = PV!None
  <2>1. productTx' = [productTx EXCEPT ![t] = PV!Idle] /\ UNCHANGED <<given, doubled>>
    BY <1>1 DEF PV!LoadList
  <2>2. productCalls' \in Nat /\ productAborts' \in Nat
    BY DEF ProductInv, PV!TypeOK
  <2> QED
    BY <2>1, <2>2, DropProduct
<1>2. CASE ~ \E n \in PV!New(s) : s[n].stock = PV!None
  <2>2. PICK own : own = { PV!Target(s, n) : n \in 1..Len(s) }
    OBVIOUS
  <2>3. PICK fresh : fresh = { PV!Target(s, n) : n \in PV!New(s) }
    OBVIOUS
  <2>4. PICK old : old = PV!Unmatched(s)
    OBVIOUS
  <2>5. PICK G : G = { v \in own : \E n \in PV!For(s, v) : s[n].stock # PV!None }
    OBVIOUS
  <2>6. PICK E : E = [v \in PV!Variants |-> IF v \in own THEN PV!Synced(s, v) ELSE PV!NoRow]
    OBVIOUS
  <2>7. PICK A : A = { s[n].sku : n \in 1..Len(s) }
    OBVIOUS
  <2>10. /\ PV!Load(t, own, old, G, E, A)
         /\ given' = given + PV!Cardinality(fresh)
         /\ doubled' = (doubled \/ PV!Cardinality(own) < Len(s))
    BY <1>2, <2>2, <2>3, <2>4, <2>5, <2>6, <2>7 DEF PV!LoadList
  <2>11. own \subseteq PV!Variants
    BY <2>10 DEF PV!Load
  <2>12. PV!Cardinality(fresh) = Cardinality(fresh) /\ PV!Cardinality(own) = Cardinality(own)
    BY DEF PV!Cardinality, Cardinality
  <2>13. /\ PV!New(s) \subseteq 1..Len(s) /\ Cardinality(fresh) \in Nat /\ given \in Nat
         /\ \A n \in 1..Len(s) : n \notin PV!New(s) => PV!Target(s, n) \in PV!Rows
         /\ \A n \in PV!New(s) : PV!Target(s, n) \in Nat /\ PV!Target(s, n) <= given + Cardinality(fresh)
    BY <2>3, TargetIs, RowOf
  <2>14. given' = given + Cardinality(fresh) /\ given' \in Nat /\ given <= given'
    BY <2>10, <2>12, <2>13
  <2>15. \A v \in own : PV!For(s, v) # {} /\ PV!For(s, v) \subseteq 1..Len(s)
                        /\ \A n \in PV!For(s, v) : PV!Target(s, n) = v
    BY <2>2 DEF PV!For
  <2>16. \A v \in own : E[v] = PV!Synced(s, v)
    BY <2>6, <2>11
  <2>17. \A v \in own : v <= given'
    <3> SUFFICES ASSUME NEW n \in 1..Len(s) PROVE PV!Target(s, n) <= given'
      BY <2>2
    <3>1. CASE n \in PV!New(s)
      BY <2>13, <2>14, <3>1
    <3>2. CASE n \notin PV!New(s)
      <4>1. PV!Target(s, n) \in PV!Variants /\ product[PV!Target(s, n)].there
        BY <2>13, <3>2 DEF PV!Rows
      <4>2. PV!Target(s, n) <= given /\ PV!Target(s, n) \in Nat
        BY <4>1, RowOf DEF ProductInv
      <4> QED
        BY <2>13, <2>14, <4>2
    <3> QED
      BY <3>1, <3>2
  <2>18. \A v \in own : E[v] \in PV!Row /\ E[v].there
    BY <2>11, <2>15, <2>16, SyncedIs
  <2>19. E \in [PV!Variants -> PV!Row]
    BY <2>6, <2>16, <2>18, ProductTypes
  <2>20. A \in SUBSET Skus
    <3>1. \A n \in 1..Len(s) : s[n] \in DtoType
      OBVIOUS
    <3> QED
      BY <2>7, <3>1 DEF DtoType
  <2>21. ASSUME NEW v \in own \ G PROVE product[v].there /\ product[v].stock = E[v].stock
    <3>1. PICK n \in 1..Len(s) : v = PV!Target(s, n)
      BY <2>2
    <3>2. \A i \in PV!For(s, v) : s[i].stock = PV!None
      BY <2>5
    <3>3. n \in PV!For(s, v)
      BY <3>1 DEF PV!For
    <3>4. n \notin PV!New(s)
      BY <1>2, <3>2, <3>3
    <3>5. v \in PV!Rows
      BY <2>13, <3>1, <3>4
    <3>6. PV!Synced(s, v).stock = product[v].stock
      BY <2>11, <2>15, <3>2, SyncedIs
    <3> QED
      BY <2>16, <3>5, <3>6 DEF PV!Rows
  <2>22. ASSUME ~doubled' PROVE Chosen(own, E, A)
    <3> DEFINE f == [n \in 1..Len(s) |-> PV!Target(s, n)]
    <3>1. IsFiniteSet(1..Len(s)) /\ Cardinality(1..Len(s)) = Len(s) /\ Len(s) \in Nat /\ Len(s) # 0
      <4>1. Len(s) \in Nat /\ Len(s) # 0
        OBVIOUS
      <4> QED
        BY <4>1, FS_Interval
    <3>2. f \in Surjection(1..Len(s), own)
      BY <2>2 DEF Surjection
    <3>3. Cardinality(own) <= Len(s) /\ Cardinality(own) \in Nat
      BY <3>1, <3>2, FS_Surjection, FS_CardinalityType
    <3>4. Cardinality(own) = Cardinality(1..Len(s))
      <4>1. ~(Cardinality(own) < Len(s))
        BY <2>10, <2>12, <2>22
      <4> HIDE DEF f
      <4> QED
        BY ONLY <3>1, <3>3, <4>1
    <3>5. f \in Injection(1..Len(s), own)
      BY <3>1, <3>2, <3>4, FS_SurjSameCardinalityImpliesInj
    <3>6. \A m, n \in 1..Len(s) : PV!Target(s, m) = PV!Target(s, n) => m = n
      BY <3>5 DEF Injection, IsInjective
    <3>7. ASSUME NEW n \in 1..Len(s)
          PROVE  /\ PV!Target(s, n) \in own /\ E[PV!Target(s, n)].sku = s[n].sku
                 /\ E[PV!Target(s, n)].def = (PV!IsDefault(s, n) \/ (PV!NoDefault(s) /\ n = 1))
      <4>1. PICK v : v = PV!Target(s, n)
        OBVIOUS
      <4>2. v \in own /\ PV!For(s, v) = {n}
        BY <2>2, <3>6, <4>1 DEF PV!For
      <4>3. PV!LastOf(PV!For(s, v)) \in PV!For(s, v)
        BY <2>11, <4>2, SyncedIs
      <4>4. PV!LastOf(PV!For(s, v)) = n /\ (1 \in PV!For(s, v) <=> n = 1)
        BY <4>2, <4>3
      <4>5. /\ PV!Synced(s, v).sku = s[PV!LastOf(PV!For(s, v))].sku
            /\ PV!Synced(s, v).def = (PV!IsDefault(s, PV!LastOf(PV!For(s, v))) \/ (PV!NoDefault(s) /\ 1 \in PV!For(s, v)))
        BY <2>11, <4>2, SyncedIs
      <4>6. E[v].sku = s[n].sku /\ E[v].def = (PV!IsDefault(s, n) \/ (PV!NoDefault(s) /\ n = 1))
        BY <2>16, <4>2, <4>4, <4>5
      <4> QED
        BY <4>1, <4>2, <4>6
    <3>8. \E d \in own : \A v \in own : E[v].def <=> v = d
      <4>1. PICK d \in 1..Len(s) : \A n \in 1..Len(s) : (PV!IsDefault(s, n) \/ (PV!NoDefault(s) /\ n = 1)) <=> n = d
        BY FirstDefault
      <4>2. ASSUME NEW n \in 1..Len(s) PROVE E[PV!Target(s, n)].def <=> PV!Target(s, n) = PV!Target(s, d)
        BY <3>6, <3>7, <4>1
      <4>3. \A v \in own : E[v].def <=> v = PV!Target(s, d)
        BY <2>2, <4>2
      <4> QED
        BY <3>7, <4>3
    <3>9. { E[v].sku : v \in own } = A
      <4>1. \A v \in own : E[v].sku \in A
        BY <2>2, <2>7, <3>7
      <4>2. \A k \in A : \E v \in own : k = E[v].sku
        BY <2>7, <3>7
      <4> QED
        BY <4>1, <4>2
    <3> QED
      BY <3>8, <3>9 DEF Chosen
  <2>23. doubled' \in BOOLEAN /\ (doubled => doubled')
    BY <2>10
  <2>24. old = PV!Rows \ own /\ G \subseteq own
    BY <2>2, <2>4, <2>5 DEF PV!Unmatched
  <2> QED
    BY <2>10, <2>14, <2>17, <2>18, <2>19, <2>20, <2>21, <2>22, <2>23, <2>24, LoadLocal
<1> QED
  BY <1>1, <1>2

LEMMA LoadNoneProduct ==
  ASSUME ProductInv, NEW t \in Calls, productTx[t].pc = "variants", PV!LoadNone(t),
         UNCHANGED <<status, product, ledger, crossed, raced, asked, productCalls, productAborts>>
  PROVE  ProductInv' /\ (ListInv => ListInv')
<1>2. PICK v : v = given + 1
  OBVIOUS
<1>3. PICK e : e = [there |-> TRUE, sku |-> AutoSku, stock |-> 0, def |-> TRUE]
  OBVIOUS
<1>4. PICK E : E = [PV!Blank EXCEPT ![v] = e]
  OBVIOUS
<1>7. PV!Load(t, {v}, PV!Rows, {v}, E, {AutoSku}) /\ given' = v /\ doubled' = doubled
  BY <1>2, <1>3, <1>4 DEF PV!LoadNone
<1>8. {v} \subseteq PV!Variants
  BY <1>7 DEF PV!Load
<1>9. given \in Nat /\ given' \in Nat /\ given <= given' /\ v <= given'
  BY <1>2, <1>7, RowOf
<1>10. e \in PV!Row /\ E \in [PV!Variants -> PV!Row] /\ E[v] = e /\ e.there /\ e.def /\ e.sku = AutoSku
  <2>1. e \in PV!Row
    BY <1>3, ProductsAssumption DEF PV!Row
  <2> QED
    BY <1>3, <1>4, <1>8, <2>1, ProductTypes
<1>11. PV!Rows = PV!Rows \ {v}
  <2>1. ~product[v].there
    BY <1>2, <1>8, <1>9 DEF ProductInv
  <2> QED
    BY <2>1 DEF PV!Rows
<1>12. doubled' \in BOOLEAN /\ (doubled => doubled') /\ {AutoSku} \in SUBSET Skus
  BY <1>7, ProductsAssumption DEF ProductInv, PV!TypeOK
<1>13. Chosen({v}, E, {AutoSku})
  BY <1>10 DEF Chosen
<1>14. \A u \in {v} : u <= given' /\ E[u].there
  BY <1>9, <1>10
<1> QED
  BY <1>7, <1>9, <1>10, <1>11, <1>12, <1>13, <1>14, LoadLocal

LEMMA LoadVariantsProduct ==
  ASSUME ProductInv, NEW t \in Calls, PV!LoadVariants(t)
  PROVE  ProductInv' /\ (ListInv => ListInv')
<1>1. /\ productTx[t].pc = "variants"
      /\ UNCHANGED <<status, product, ledger, crossed, raced, asked, productCalls, productAborts>>
      /\ IF productTx[t].list = <<>> THEN PV!LoadNone(t) ELSE PV!LoadList(t, productTx[t].list)
  BY DEF PV!LoadVariants, PV!db, PV!bounds
<1>2. productTx[t].list \in Seq(DtoType)
  <2>1. productTx[t].list \in {PV!Absent} \cup Lists
    BY HeldCall DEF PV!Call
  <2>2. PV!Absent \in Seq(DtoType)
    BY ProductsAssumption DEF PV!Absent, DtoType, PV!None
  <2> QED
    BY <2>1, <2>2, ItemsTyped
<1> QED
  BY <1>1, <1>2, LoadNoneProduct, LoadListProduct

LEMMA ProductInit == ASSUME PV!Init PROVE ProductInv /\ ListInv
<1>1. /\ status = "none" /\ product = PV!Blank /\ given = 0 /\ productTx = [t \in Calls |-> PV!Idle]
      /\ ledger = [v \in PV!Variants |-> 0] /\ crossed = {} /\ raced = FALSE /\ doubled = FALSE /\ asked = {}
      /\ productCalls = 0 /\ productAborts = 0
  BY DEF PV!Init
<1>2. \A v \in PV!Variants : ~product[v].there
  BY <1>1, ProductTypes DEF PV!Blank
<1>3. \A t \in Calls : productTx[t] = PV!Idle
  BY <1>1
<1>4. PV!TypeOK
  <2>1. productTx \in [Calls -> PV!Call] /\ product \in [PV!Variants -> PV!Row]
    BY <1>1, ProductTypes
  <2>2. ledger \in [PV!Variants -> Int]
    BY <1>1
  <2> QED
    BY <1>1, <2>1, <2>2 DEF PV!TypeOK
<1>5. StockKept /\ Begun
  BY <1>2, <1>3, IdleIs DEF StockKept, PV!StockKept, PV!Rows, Begun
<1>6. ProductInv
  BY <1>2, <1>3, <1>4, <1>5, IdleIs DEF ProductInv
<1>7. ListInv
  BY <1>1, <1>3, IdleIs DEF ListInv
<1> QED
  BY <1>6, <1>7

LEMMA ProductNext == ASSUME ProductInv, [PV!Next]_PV!vars PROVE ProductInv' /\ (ListInv => ListInv')
<1>1. CASE UNCHANGED PV!vars
  <2>1. UNCHANGED <<status, product, given, productTx, ledger, crossed, raced, doubled, asked, productCalls, productAborts>>
    BY <1>1 DEF PV!vars, PV!db, PV!history, PV!bounds
  <2>2. PV!TypeOK' /\ StockKept' /\ Begun'
    BY <2>1 DEF ProductInv, PV!TypeOK, StockKept, PV!StockKept, PV!Rows, Begun
  <2> QED
    BY <2>1, <2>2 DEF ProductInv, ListInv
<1>2. ASSUME NEW s \in Lists, PV!Create(s) PROVE ProductInv' /\ (ListInv => ListInv')
  BY <1>2, CreateKeeps
<1>3. ASSUME NEW t \in Calls, PV!Begin(t) PROVE ProductInv' /\ (ListInv => ListInv')
  BY <1>3, BeginUpdateProduct, BeginArchiveProduct, BeginCreateVariantProduct, BeginUpdateVariantProduct,
     BeginDeleteVariantProduct DEF PV!Begin
<1>4. ASSUME NEW t \in Calls, PV!Run(t) PROVE ProductInv' /\ (ListInv => ListInv')
  <2>1. ASSUME PV!SaveProductFails(t) \/ PV!Refused(t) PROVE ProductInv' /\ (ListInv => ListInv')
    <3>1. /\ productTx' = [productTx EXCEPT ![t] = PV!Idle]
          /\ UNCHANGED <<status, product, given, ledger, crossed, raced, doubled, asked, productCalls, productAborts>>
      BY <2>1 DEF PV!SaveProductFails, PV!Refused, PV!Step, PV!db, PV!history, PV!bounds
    <3>2. productCalls' \in Nat /\ productAborts' \in Nat
      BY <3>1 DEF ProductInv, PV!TypeOK
    <3> QED
      BY <3>1, <3>2, DropProduct
  <2> QED
    BY <1>4, <2>1, SaveProductKeeps, LoadVariantsProduct, StartDemotionProduct, PromoteProduct, CompareProduct,
       CommitProduct, DemoteProduct, DeleteRowKeeps, WriteProduct DEF PV!Run
<1>5. ASSUME NEW t \in Calls, PV!Abort(t) PROVE ProductInv' /\ (ListInv => ListInv')
  <2>1. /\ productTx' = [productTx EXCEPT ![t] = PV!Idle] /\ productAborts' = productAborts + 1
        /\ UNCHANGED <<status, product, given, ledger, crossed, raced, doubled, asked, productCalls>>
    BY <1>5 DEF PV!Abort, PV!db, PV!history
  <2>2. productCalls' \in Nat /\ productAborts' \in Nat
    BY <2>1 DEF ProductInv, PV!TypeOK
  <2> QED
    BY <2>1, <2>2, DropProduct
<1> QED
  BY <1>1, <1>2, <1>3, <1>4, <1>5, SellKeeps DEF PV!Next

\* No sale is lost: a variant's stock is what a merchant has set, less what was
\* sold since, whatever calls and sales overlap, unless the row changed while a
\* call of a merchant had it loaded (createVariant, updateVariant, deleteVariant,
\* update).
THEOREM StockNotLost == PV!Spec => []StockKept
<1>1. ProductInv => StockKept
  BY DEF ProductInv
<1> QED
  BY <1>1, ProductInit, ProductNext, PTL DEF PV!Spec

\* A product has variants, and exactly one of them is the default, for as long as
\* its calls do not overlap and no update takes one variant for two of its list
\* (createVariantsForProduct, update, createVariant, updateVariant, deleteVariant).
THEOREM DefaultOnOne == PV!Spec => []OneDefault
<1>1. ASSUME ProductInv, ListInv PROVE OneDefault
  BY <1>1, RowOf DEF ListInv, HasDefault, OneDefault, PV!OneDefault
<1> QED
  BY <1>1, ProductInit, ProductNext, PTL DEF PV!Spec

\* After an update that carries variants the product has exactly the SKUs of the
\* list, whichever element matched which variant, for as long as calls do not
\* overlap and no variant is taken for two (update).
THEOREM ListTakenOver == PV!Spec => []ListApplied
<1>1. ASSUME ProductInv, ListInv PROVE ListApplied
  BY <1>1, RowOf DEF ListInv, SkusIn, ListApplied, PV!ListApplied
<1> QED
  BY <1>1, ProductInit, ProductNext, PTL DEF PV!Spec
================================================================================
