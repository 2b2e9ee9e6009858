------------------------------- MODULE Categories -------------------------------
(***************************************************************************)
(* The categories of a tenant, an adjacency list whose rows are deleted by *)
(* marking them. update looks for the category among the ancestors of its  *)
(* new parent one query at a time, and no lock keeps other calls out.      *)
(***************************************************************************)
EXTENDS Integers

CONSTANTS
  Txns,                \* database connections
  Categories,
  NoCategory,          \* parentId of a root
  MaxCalls, MaxAborts  \* bounds: calls, and transactions that fail

VARIABLES
  cat,      \* categories: there, its parent, deleted
  tx,       \* the transaction of each connection
  meddled,  \* history: a call has changed the tree while another one moved a
            \* category
  calls, aborts

vars == <<cat, tx, meddled, calls, aborts>>

Row   == [there : BOOLEAN, parent : Categories \cup {NoCategory}, deleted : BOOLEAN]
NoRow == [there |-> FALSE, parent |-> NoCategory, deleted |-> FALSE]

Call == [pc   : {"idle", "walk", "move", "save", "write", "remove", "commit"},
         op   : {"none", "create", "update", "delete"},
         id   : Categories \cup {NoCategory},
         to   : Categories \cup {NoCategory},   \* dto.parentId
         moves : BOOLEAN,                       \* the request has a parentId
         at   : Categories \cup {NoCategory},   \* currentParentId
         visited : SUBSET Categories,
         ent  : Row,                            \* the entity that it saves,
         cols : SUBSET DOMAIN NoRow,            \* and its columns that differ
         wrote : SUBSET Categories, w : [Categories -> Row]]

Idle == [pc |-> "idle", op |-> "none", id |-> NoCategory, to |-> NoCategory, moves |-> FALSE,
         at |-> NoCategory, visited |-> {}, ent |-> NoRow,
         cols |-> {}, wrote |-> {}, w |-> [c \in Categories |-> NoRow]]

Init ==
  /\ cat = [c \in Categories |-> NoRow] /\ tx = [t \in Txns |-> Idle]
  /\ meddled = FALSE /\ calls = 0 /\ aborts = 0

--------------------------------------------------------------------------------
Busy    == { t \in Txns : tx[t].pc # "idle" }
Live    == { c \in Categories : cat[c].there /\ ~cat[c].deleted }
View(t, c) == IF c \in tx[t].wrote THEN tx[t].w[c] ELSE cat[c]
Free(t, c) == \A u \in Busy \ {t} : c \notin tx[u].wrote
Children(c) == { d \in Live : cat[d].parent = c }
Unused  == { c \in Categories : ~cat[c].there /\ \A u \in Busy : tx[u].id # c }

\* getCategoryTree: a category is under its parent, or a root when it has none
\* or a deleted one. Shown holds those that the roots lead to: whatever a set of
\* categories that has the roots and, with a category, its children cannot miss.
Roots == { c \in Live : cat[c].parent \notin Live }
Under(S) == { c \in Live : cat[c].parent \in S }
Shown == { c \in Live : \A S \in SUBSET Live : Roots \cup Under(S) \subseteq S => c \in S }

Arrive(t, r) ==
  /\ tx[t].pc = "idle" /\ calls < MaxCalls
  /\ calls' = calls + 1
  /\ tx' = [tx EXCEPT ![t] = r] /\ UNCHANGED <<cat, meddled, aborts>>

Step(t, r) == tx' = [tx EXCEPT ![t] = r] /\ UNCHANGED <<cat, meddled, calls, aborts>>

Put(t, c, r) == [tx[t] EXCEPT !.wrote = @ \cup {c}, !.w[c] = r, !.pc = "commit"]

--------------------------------------------------------------------------------
BeginCreate(t, c, p) ==
  /\ c \in Unused /\ p \in Live \cup {NoCategory}
  /\ Arrive(t, [Idle EXCEPT !.op = "create", !.id = c, !.to = p, !.pc = "save",
                  !.ent = [there |-> TRUE, parent |-> p, deleted |-> FALSE]])

BeginRename(t, c) ==
  /\ c \in Live
  /\ Arrive(t, [Idle EXCEPT !.op = "update", !.id = c, !.ent = cat[c], !.pc = "save"])

\* A move below the category itself is refused at once.
BeginMove(t, c, p) ==
  /\ c \in Live /\ p # c
  /\ Arrive(t, [Idle EXCEPT !.op = "update", !.id = c, !.to = p, !.moves = TRUE, !.ent = cat[c],
                  !.at = p, !.pc = IF p = NoCategory THEN "move" ELSE "walk"])

\* One round of the loop: the next ancestor is read, as it is now.
Ancestor_Skip(t, c) == NoCategory
Ancestor(t, c) == cat[c].parent

Walk(t) ==
  /\ tx[t].pc = "walk"
  /\ LET c == tx[t].at
     IN  /\ c # NoCategory /\ c # tx[t].id /\ c \notin tx[t].visited
         /\ c \in Live \/ c # tx[t].to
         /\ Step(t, [tx[t] EXCEPT !.visited = @ \cup {c},
                       !.at = IF c \in Live THEN Ancestor(t, c) ELSE NoCategory])

\* The end of the loop: no more ancestors, or one that was met before.
Move(t) ==
  /\ \/ tx[t].pc = "move"
     \/ tx[t].pc = "walk" /\ tx[t].at \in tx[t].visited \cup {NoCategory}
  /\ Step(t, [tx[t] EXCEPT !.ent.parent = tx[t].to, !.pc = "save"])

\* The new parent is a descendant, or does not exist.
Refuse(t) ==
  /\ tx[t].pc = "walk"
  /\ \/ tx[t].at = tx[t].id
     \/ tx[t].at = tx[t].to /\ tx[t].visited = {} /\ tx[t].to \notin Live
  /\ Step(t, Idle)

BeginDelete(t, c) ==
  /\ c \in Live /\ Children(c) = {}
  /\ Arrive(t, [Idle EXCEPT !.op = "delete", !.id = c, !.pc = "remove"])

\* save writes the columns that differ from the row, deletedAt among them: the
\* ones that the request changed and the ones that others have changed.
Save(t) ==
  /\ tx[t].pc = "save"
  /\ LET r == tx[t]
     IN  Step(t, [r EXCEPT !.cols = { k \in DOMAIN NoRow : r.ent[k] # View(t, r.id)[k] },
                           !.pc = "write"])

Write(t) ==
  /\ tx[t].pc = "write" /\ Free(t, tx[t].id)
  /\ LET c == tx[t].id
     IN  Step(t, Put(t, c, [k \in DOMAIN NoRow |-> IF k \in tx[t].cols THEN tx[t].ent[k] ELSE cat[c][k]]))

\* softRemove(category): a child that has come since is taken for a removed one,
\* and either loses its parent or makes the call fail.
Remove(t) ==
  /\ tx[t].pc = "remove" /\ Free(t, tx[t].id)
  /\ LET c == tx[t].id
         r == Put(t, c, [cat[c] EXCEPT !.deleted = TRUE])
     IN  \/ Children(c) = {} /\ Step(t, r)
         \/ \E d \in Children(c) : /\ Free(t, d)
                                   /\ Step(t, [r EXCEPT !.wrote = @ \cup {d},
                                                        !.w[d] = [cat[d] EXCEPT !.parent = NoCategory]])
         \/ Children(c) # {} /\ Step(t, Idle)

\* One of the two calls moves a category, and the other one is no creation.
Meddle(t, u) == tx[t].op # "create" /\ tx[u].op # "create" /\ (tx[t].moves \/ tx[u].moves)

Commit(t) ==
  /\ tx[t].pc = "commit"
  /\ cat' = [c \in Categories |-> View(t, c)]
  /\ meddled' = (meddled \/ \E u \in Busy \ {t} : Meddle(t, u))
  /\ tx' = [tx EXCEPT ![t] = Idle] /\ UNCHANGED <<calls, aborts>>

Abort(t) ==
  /\ tx[t].pc # "idle" /\ aborts < MaxAborts
  /\ aborts' = aborts + 1
  /\ tx' = [tx EXCEPT ![t] = Idle] /\ UNCHANGED <<cat, meddled, calls>>

Begin(t) ==
  \E c \in Categories :
    \/ BeginRename(t, c) \/ BeginDelete(t, c)
    \/ \E p \in Categories \cup {NoCategory} : BeginCreate(t, c, p) \/ BeginMove(t, c, p)

Run(t) == Walk(t) \/ Move(t) \/ Refuse(t) \/ Save(t) \/ Write(t) \/ Remove(t) \/ Commit(t)

Next == \E t \in Txns : Begin(t) \/ Run(t) \/ Abort(t)

Spec == Init /\ [][Next]_vars

--------------------------------------------------------------------------------
TypeOK ==
  /\ cat \in [Categories -> Row] /\ tx \in [Txns -> Call]
  /\ meddled \in BOOLEAN /\ calls \in Nat /\ aborts \in Nat

(* Every category that is not deleted is in the tree that getCategoryTree         *)
(* returns, that is, no category is its own ancestor: creations, renames and      *)
(* deletions may overlap as they like, only a move must not overlap another one,  *)
(* a rename or a deletion (CategoriesService.update).                             *)
AllShown == ~meddled => Live = Shown
================================================================================
