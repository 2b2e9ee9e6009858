-------------------------------- MODULE Addresses --------------------------------
(***************************************************************************)
(* The address book of one customer: the addresses and which of them is    *)
(* the default for shipping and for billing. A call that makes a default   *)
(* takes the mark from every address of the customer first.                *)
(***************************************************************************)
EXTENDS Integers, FiniteSets

CONSTANTS
  Txns,                \* database connections
  Addresses,           \* ids
  MaxCalls, MaxAborts  \* bounds: calls, and transactions that fail

VARIABLES
  book,      \* customer_addresses: there, and the kinds it is the default of
  drawn,     \* ids in use
  tx,        \* the transaction of each connection
  chosen,    \* history: the address last made the default of a kind, if any,
  contested, \* and the kinds where such a call met another one that holds
             \* an address with that mark
  calls, aborts

vars == <<book, drawn, tx, chosen, contested, calls, aborts>>

Kinds == {"shipping", "billing"}
Row   == [there : BOOLEAN, def : SUBSET Kinds]
NoRow == [there |-> FALSE, def |-> {}]

Call == [pc    : {"idle", "demote", "locking", "save", "remove", "insert", "write", "commit"},
         id    : Addresses \cup {"none"},
         asks  : SUBSET Kinds,        \* defaults that the request asks for
         drops : SUBSET Kinds,        \* and those it gives up
         kinds : SUBSET Kinds,        \* still to be taken from all addresses
         todo  : SUBSET Addresses,    \* rows that a statement has still to lock
         ent   : Row,                 \* the entity that it saves,
         cols  : SUBSET Kinds,        \* its marks that differ from the row
         wrote : SUBSET Addresses, w : [Addresses -> Row]]

Idle == [pc |-> "idle", id |-> "none", asks |-> {}, drops |-> {}, kinds |-> {}, todo |-> {},
         ent |-> NoRow, cols |-> {}, wrote |-> {}, w |-> [a \in Addresses |-> NoRow]]

Init ==
  /\ book = [a \in Addresses |-> NoRow] /\ drawn = {} /\ tx = [t \in Txns |-> Idle]
  /\ chosen = [k \in Kinds |-> {}] /\ contested = {}
  /\ calls = 0 /\ aborts = 0

--------------------------------------------------------------------------------
Busy == { t \in Txns : tx[t].pc # "idle" }
Rows == { a \in Addresses : book[a].there }
View(t, a) == IF a \in tx[t].wrote THEN tx[t].w[a] ELSE book[a]
Free(t, a) == \A u \in Busy \ {t} : a \notin tx[u].wrote

Arrive(t, r) ==
  /\ tx[t].pc = "idle" /\ calls < MaxCalls
  /\ calls' = calls + 1
  /\ tx' = [tx EXCEPT ![t] = r] /\ UNCHANGED <<book, chosen, contested, aborts>>

Step(t, r) == tx' = [tx EXCEPT ![t] = r] /\ UNCHANGED <<book, drawn, chosen, contested, calls, aborts>>

\* The kinds that a request asks for are taken from all addresses.
Demoted_Shipping(F) == F \cap {"shipping"}
Demoted(F) == F

Marking(a, F, G, r) ==
  [Idle EXCEPT !.id = a, !.asks = F, !.drops = G, !.kinds = Demoted(F), !.ent = r,
               !.pc = IF Demoted(F) = {} THEN "save" ELSE "demote"]

BeginCreate(t, a, F) ==
  /\ a \notin drawn
  /\ Arrive(t, Marking(a, F, {}, [there |-> TRUE, def |-> F]))
  /\ drawn' = drawn \cup {a}

\* updateAddress, with the kinds F set and G unset.
BeginUpdate(t, a, F, G) ==
  /\ a \in Rows /\ F \cap G = {}
  /\ Arrive(t, Marking(a, F, G, [book[a] EXCEPT !.def = (@ \cup F) \ G]))
  /\ UNCHANGED drawn

\* setDefaultFlags sets marks, and never unsets one.
BeginSetDefault(t, a, F) == BeginUpdate(t, a, F, {})

BeginDelete(t, a) ==
  /\ a \in Rows
  /\ Arrive(t, [Idle EXCEPT !.id = a, !.pc = "remove"])
  /\ UNCHANGED drawn

--------------------------------------------------------------------------------
\* UPDATE ... SET is_default_... = false WHERE customer_id, shipping first.
StartDemotion(t) ==
  /\ tx[t].pc = "demote"
  /\ Step(t, IF Rows # {} THEN [tx[t] EXCEPT !.todo = Rows, !.pc = "locking"]
             ELSE [tx[t] EXCEPT !.kinds = {}, !.pc = "save"])

Current(t) == IF "shipping" \in tx[t].kinds THEN "shipping" ELSE "billing"

Demote(t, a) ==
  /\ tx[t].pc = "locking" /\ a \in tx[t].todo /\ Free(t, a)
  /\ LET rest  == tx[t].todo \ {a}
         kinds == IF rest = {} THEN tx[t].kinds \ {Current(t)} ELSE tx[t].kinds
         r == [tx[t] EXCEPT !.todo = rest, !.kinds = kinds,
                            !.pc = IF rest # {} THEN @ ELSE IF kinds = {} THEN "save" ELSE "demote"]
     IN  Step(t, IF ~View(t, a).there THEN r
                 ELSE [r EXCEPT !.wrote = @ \cup {a},
                         !.w[a] = [View(t, a) EXCEPT !.def = @ \ {Current(t)}]])

\* save: a SELECT of the entity; the marks that differ are updated, and a row
\* that is gone since is inserted again.
Save(t) ==
  /\ tx[t].pc = "save"
  /\ LET r == tx[t]
         now == View(t, r.id)
     IN  Step(t, [r EXCEPT !.cols = (r.ent.def \ now.def) \cup (now.def \ r.ent.def),
                           !.pc = IF now = r.ent THEN "commit"
                                  ELSE IF now.there THEN "write" ELSE "insert"])

Insert(t) ==
  /\ tx[t].pc = "insert" /\ Free(t, tx[t].id) /\ ~View(t, tx[t].id).there
  /\ Step(t, [tx[t] EXCEPT !.wrote = @ \cup {tx[t].id}, !.w[tx[t].id] = tx[t].ent, !.pc = "commit"])

Write(t) ==
  /\ tx[t].pc = "write" /\ Free(t, tx[t].id)
  /\ LET r == tx[t]
         a == tx[t].id
     IN  Step(t, IF ~View(t, a).there THEN [r EXCEPT !.pc = "commit"]
                 ELSE [r EXCEPT !.wrote = @ \cup {a}, !.pc = "commit",
                         !.w[a] = [there |-> TRUE,
                                   def   |-> (View(t, a).def \ r.cols) \cup (r.cols \cap r.ent.def)]])

Remove(t) ==
  /\ tx[t].pc = "remove" /\ Free(t, tx[t].id)
  /\ Step(t, [tx[t] EXCEPT !.wrote = @ \cup {tx[t].id}, !.w[tx[t].id] = NoRow, !.pc = "commit"])

\* The kinds where the calls of t and u meet: one asks for the mark, and the
\* other one asks for it too or saves it as it was loaded.
Meet(t, u) == (tx[t].asks \cap tx[u].ent.def) \cup (tx[u].asks \cap tx[t].ent.def)

Commit(t) ==
  /\ tx[t].pc = "commit"
  /\ LET r == tx[t]
         gone == IF r.ent.there THEN r.drops ELSE Kinds
     IN  /\ book' = [a \in Addresses |-> View(t, a)]
         /\ chosen' = [k \in Kinds |-> IF k \in r.asks THEN {r.id}
                                       ELSE IF k \in gone THEN chosen[k] \ {r.id} ELSE chosen[k]]
         /\ contested' = contested \cup (UNION { Meet(t, u) : u \in Busy \ {t} })
                                   \cup (IF \E u \in Busy \ {t} : tx[u].id = r.id THEN Kinds ELSE {})
  /\ tx' = [tx EXCEPT ![t] = Idle] /\ UNCHANGED <<drawn, calls, aborts>>

\* A deadlock, or a lost connection.
Abort(t) ==
  /\ tx[t].pc # "idle" /\ aborts < MaxAborts
  /\ aborts' = aborts + 1
  /\ tx' = [tx EXCEPT ![t] = Idle] /\ UNCHANGED <<book, drawn, chosen, contested, calls>>

Begin(t) ==
  \E a \in Addresses :
    \/ BeginDelete(t, a)
    \/ \E F \in SUBSET Kinds : BeginCreate(t, a, F) \/ BeginSetDefault(t, a, F)
    \/ \E F, G \in SUBSET Kinds : BeginUpdate(t, a, F, G)

Run(t) ==
  \/ StartDemotion(t) \/ Save(t) \/ Insert(t) \/ Write(t) \/ Remove(t) \/ Commit(t)
  \/ \E a \in Addresses : Demote(t, a)

Next == \E t \in Txns : Begin(t) \/ Run(t) \/ Abort(t)

Spec == Init /\ [][Next]_vars

--------------------------------------------------------------------------------
TypeOK ==
  /\ book \in [Addresses -> Row] /\ drawn \in SUBSET Addresses /\ tx \in [Txns -> Call]
  /\ chosen \in [Kinds -> SUBSET Addresses] /\ contested \in SUBSET Kinds
  /\ calls \in Nat /\ aborts \in Nat

(* The default address of a kind is the one last made so, and there is no other: *)
(* choosing one kind leaves the other alone, and only calls that meet over the    *)
(* same mark or the same address can leave two (CustomerAddressesService).        *)
DefaultAsChosen ==
  \A k \in Kinds \ contested : { a \in Rows : k \in book[a].def } = chosen[k]
================================================================================
