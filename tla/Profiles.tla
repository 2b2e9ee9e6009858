-------------------------------- MODULE Profiles --------------------------------
(***************************************************************************)
(* The row of one user and the object of its avatar: the avatar services   *)
(* of customers and merchant admins, and MerchantAdminLocaleService.       *)
(*                                                                         *)
(* Every avatar of a user has the same key in the storage.                 *)
(***************************************************************************)
EXTENDS Integers

CONSTANTS
  Txns,                \* calls that may be under way together
  Locales,             \* languages of the back office
  MaxCalls, MaxAborts  \* bounds: calls, and calls that fail

VARIABLES
  user,    \* the row: avatar_url set or not, and locale
  stored,  \* the storage has an object under the user's key
  tx,      \* the calls under way
  wished,  \* history: what the calls that succeeded have asked for,
  raced,   \* two calls have been under way together,
  crossed, \* one of them a deletion of the avatar and one of the others
  calls, aborts

vars == <<user, stored, tx, wished, raced, crossed, calls, aborts>>

NoLocale == "none"
User == [url : BOOLEAN, locale : Locales \cup {NoLocale}]
New  == [url |-> FALSE, locale |-> NoLocale]

Call == [pc   : {"idle", "put", "load", "compare", "write", "commit", "unlink"},
         op   : {"none", "upload", "delete", "locale"},
         ent  : User,                      \* the entity, with what the call sets on it
         cols : SUBSET {"url", "locale"},  \* columns that save found different
         wrote : BOOLEAN]                  \* row locked

Idle == [pc |-> "idle", op |-> "none", ent |-> New, cols |-> {}, wrote |-> FALSE]

Init ==
  /\ user = New /\ stored = FALSE
  /\ tx = [t \in Txns |-> Idle]
  /\ wished = New /\ raced = FALSE /\ crossed = FALSE
  /\ calls = 0 /\ aborts = 0

--------------------------------------------------------------------------------
Busy(t) == { u \in Txns \ {t} : tx[u].pc # "idle" }

Arrive(t, r) ==
  /\ tx[t].pc = "idle" /\ calls < MaxCalls
  /\ calls' = calls + 1
  /\ tx' = [tx EXCEPT ![t] = r]
  /\ raced' = (raced \/ Busy(t) # {})
  /\ crossed' = (crossed \/ \E u \in Busy(t) : tx[u].op # r.op /\ "delete" \in {tx[u].op, r.op})
  /\ UNCHANGED <<user, stored, wished, aborts>>

Step(t, r) ==
  /\ tx' = [tx EXCEPT ![t] = r]
  /\ UNCHANGED <<user, stored, wished, raced, crossed, calls, aborts>>

BeginUpload(t) == Arrive(t, [Idle EXCEPT !.op = "upload", !.pc = "put"])
BeginDelete(t) == Arrive(t, [Idle EXCEPT !.op = "delete", !.pc = "load"])
BeginLocale(t, l) ==
  Arrive(t, [Idle EXCEPT !.op = "locale", !.ent.locale = l, !.pc = "load"])

\* The object is stored before the row is touched.
Put(t) ==
  /\ tx[t].pc = "put"
  /\ stored' = TRUE
  /\ tx' = [tx EXCEPT ![t].pc = "load"]
  /\ UNCHANGED <<user, wished, raced, crossed, calls, aborts>>

\* What the call o sets on the entity u.
Changed_Whole(o, u, l) == [url |-> o = "upload", locale |-> l]
Changed(o, u, l) == CASE o = "upload" -> [u EXCEPT !.url = TRUE]
                      [] o = "delete" -> [u EXCEPT !.url = FALSE]
                      [] o = "locale" -> [u EXCEPT !.locale = l]

\* findOne. Without an avatar there is nothing to delete.
Load(t) ==
  /\ tx[t].pc = "load"
  /\ LET r == tx[t]
     IN  Step(t, IF r.op = "delete" /\ ~user.url THEN Idle
                 ELSE [r EXCEPT !.ent = Changed(r.op, user, r.ent.locale), !.pc = "compare"])

\* save: a SELECT, and an UPDATE of the columns that differ from the entity.
Compare(t) ==
  /\ tx[t].pc = "compare"
  /\ LET C == { c \in {"url", "locale"} : tx[t].ent[c] # user[c] }
     IN  Step(t, [tx[t] EXCEPT !.cols = C, !.pc = IF C = {} THEN "commit" ELSE "write"])

Write(t) ==
  /\ tx[t].pc = "write" /\ \A u \in Busy(t) : ~tx[u].wrote
  /\ Step(t, [tx[t] EXCEPT !.wrote = TRUE, !.pc = "commit"])

\* deleteAvatar removes the object after its transaction.
Unlinks(r) == r.op = "delete"

Commit(t) ==
  /\ tx[t].pc = "commit"
  /\ LET r == tx[t]
     IN  /\ user' = [c \in {"url", "locale"} |-> IF c \in r.cols THEN r.ent[c] ELSE user[c]]
         /\ wished' = [wished EXCEPT !.url = IF r.op = "locale" THEN @ ELSE r.op = "upload",
                                     !.locale = IF r.op = "locale" THEN r.ent.locale ELSE @]
         /\ tx' = [tx EXCEPT ![t] = IF Unlinks(r) THEN [Idle EXCEPT !.op = r.op, !.pc = "unlink"]
                                    ELSE Idle]
  /\ UNCHANGED <<stored, raced, crossed, calls, aborts>>

Unlink(t) ==
  /\ tx[t].pc = "unlink"
  /\ stored' = FALSE
  /\ tx' = [tx EXCEPT ![t] = Idle]
  /\ UNCHANGED <<user, wished, raced, crossed, calls, aborts>>

\* The process, the connection or the storage fails.
Abort(t) ==
  /\ tx[t].pc # "idle" /\ aborts < MaxAborts
  /\ aborts' = aborts + 1
  /\ tx' = [tx EXCEPT ![t] = Idle]
  /\ UNCHANGED <<user, stored, wished, raced, crossed, calls>>

Next == \E t \in Txns :
  \/ BeginUpload(t) \/ BeginDelete(t)
  \/ \E l \in Locales \cup {NoLocale} : BeginLocale(t, l)
  \/ Put(t) \/ Load(t) \/ Compare(t) \/ Write(t) \/ Commit(t) \/ Unlink(t) \/ Abort(t)

Spec == Init /\ [][Next]_vars

--------------------------------------------------------------------------------
TypeOK ==
  /\ user \in User /\ wished \in User /\ stored \in BOOLEAN
  /\ tx \in [Txns -> Call]
  /\ raced \in BOOLEAN /\ crossed \in BOOLEAN /\ calls \in Nat /\ aborts \in Nat

(* The row keeps what the last successful call for each column has set, and    *)
(* an avatar url leads to an object: the row changes only between the storing  *)
(* and the deletion of the object. Calls that overlap may write back a column  *)
(* they read before; the object is missing only when a deletion overlaps another *)
(* call, whose url outlives it: that of an upload, or the one a change of the   *)
(* language has read (uploadAvatar, deleteAvatar, updateLocale).                *)
ProfileKept ==
  /\ ~raced => user = wished
  /\ user.url /\ ~crossed => stored
================================================================================
