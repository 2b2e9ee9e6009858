-------------------------------- MODULE Sessions --------------------------------
(***************************************************************************)
(* The refresh tokens of one account: login, rotation, logout and password *)
(* reset of CustomersAuthService, whose code MerchantAdminsAuthService     *)
(* repeats.                                                                *)
(*                                                                         *)
(* A call is a transaction; what it writes stays in tx[t] until it commits *)
(* and is undone when the call throws.                                     *)
(***************************************************************************)
EXTENDS Integers

CONSTANTS
  Txns,                  \* database connections
  Tokens, Families,      \* refresh tokens and family ids, never used twice
  MaxRequests, MaxAborts \* bounds: calls, and transactions lost or killed

ASSUME TokensAssumption == Tokens # {} /\ Families # {}
ASSUME BoundsAssumption == MaxRequests \in Nat /\ MaxAborts \in Nat

VARIABLES
  token,     \* the *_refresh_tokens table
  expired,   \* tokens whose expires_at has passed
  password,  \* number of the request that set the password hash
  resetHash, \* number of the request whose reset token is stored, or 0
  lapsed,    \* the stored reset token has expired
  ended,     \* history: families that a logout or a reset has revoked,
  reused,    \* those of which a caller was told that a token was reused,
  late,      \* and the tokens issued while a logout or reset was under way
  tx,        \* the transaction of each connection
  served, aborts

account == <<password, resetHash, lapsed>>
history == <<ended, reused, late>>
bounds  == <<served, aborts>>
db      == <<token, expired, account, history>>
vars    == <<db, tx, bounds>>

SomeToken  == CHOOSE k \in Tokens : TRUE
SomeFamily == CHOOSE f \in Families : TRUE

\* pw: history, the password of the login that the token goes back to.
Row   == [state : {"none", "live", "revoked"}, fam : Families, pw : Nat]
NoRow == [state |-> "none", fam |-> SomeFamily, pw |-> 0]

Call == [pc : {"idle", "consume", "issue", "bulk", "rows", "identity", "update", "commit"},
         op   : {"none", "login", "refresh", "logout", "request", "reset"},
         n    : Nat,            \* number of the request
         k    : Tokens,         \* the token presented
         fam  : Families,
         pw   : Nat,            \* history: see Row
         new  : SUBSET Tokens,  \* the token issued
         todo : SUBSET Tokens,  \* rows that a bulk update has still to lock
         rows : SUBSET Tokens,  \* rows updated, that is, revoked
         mine : BOOLEAN,        \* identity row updated
         clear : BOOLEAN,       \* it will have its reset hash removed
         over : BOOLEAN]        \* history: overlaps a logout or a reset

Idle == [pc |-> "idle", op |-> "none", n |-> 0, k |-> SomeToken, fam |-> SomeFamily,
         pw |-> 0, new |-> {}, todo |-> {}, rows |-> {}, mine |-> FALSE,
         clear |-> FALSE, over |-> FALSE]

Init ==
  /\ token = [k \in Tokens |-> NoRow] /\ expired = {}
  /\ password = 0 /\ resetHash = 0 /\ lapsed = FALSE
  /\ ended = {} /\ reused = {} /\ late = {}
  /\ tx = [t \in Txns |-> Idle]
  /\ served = 0 /\ aborts = 0

--------------------------------------------------------------------------------
Others(t) == Txns \ {t}
Issued    == { k \in Tokens : token[k].state # "none" }
Live(k)   == token[k].state = "live"
Family(f) == { k \in Issued : token[k].fam = f }

\* The call r is ending the session of the call s.
Ending(r, s) == r.pc # "idle" /\ (r.op = "reset" \/ (r.op = "logout" /\ r.fam = s.fam))

\* A call arrives; it and the calls under way overlap.
Arrive(t, r) ==
  /\ tx[t].pc = "idle" /\ served < MaxRequests
  /\ served' = served + 1
  /\ tx' = [u \in Txns |->
       IF u = t THEN [r EXCEPT !.n = served + 1, !.over = \E x \in Others(t) : Ending(tx[x], r)]
       ELSE IF Ending(r, tx[u]) /\ tx[u].pc # "idle" THEN [tx[u] EXCEPT !.over = TRUE]
       ELSE tx[u]]
  /\ UNCHANGED <<db, aborts>>

Step(t, r) == tx' = [tx EXCEPT ![t] = r] /\ UNCHANGED <<db, bounds>>

--------------------------------------------------------------------------------
(* login, with the right password: it starts a family.                     *)

BeginLogin(t, f) ==
  /\ Family(f) = {} /\ \A u \in Txns : ~(tx[u].op = "login" /\ tx[u].fam = f)
  /\ Arrive(t, [Idle EXCEPT !.op = "login", !.fam = f, !.pw = password, !.pc = "issue"])

\* issueTokenPair
Issue(t, k) ==
  /\ tx[t].pc = "issue"
  /\ k \notin Issued /\ \A u \in Txns : k \notin tx[u].new
  /\ Step(t, [tx[t] EXCEPT !.new = {k}, !.pc = "commit"])

--------------------------------------------------------------------------------
(* refresh.                                                                *)

BeginRefresh(t, k) ==
  /\ k \in Issued /\ (Live(k) => k \notin expired)
  /\ Arrive(t, [Idle EXCEPT !.op = "refresh", !.k = k, !.fam = token[k].fam,
                            !.pw = token[k].pw, !.pc = IF Live(k) THEN "consume" ELSE "bulk"])

\* Nobody else has updated the row.
Unlocked(t, k) == \A u \in Others(t) : k \notin tx[u].rows

\* UPDATE ... WHERE revoked_at IS NULL waits for the row and matches it or not.
Matches_Always(k) == TRUE
Matches(k) == Live(k)

Consume(t) ==
  /\ tx[t].pc = "consume" /\ Unlocked(t, tx[t].k)
  /\ Step(t, IF Matches(tx[t].k) THEN [tx[t] EXCEPT !.rows = {tx[t].k}, !.pc = "issue"]
             ELSE [tx[t] EXCEPT !.pc = "bulk"])

--------------------------------------------------------------------------------
(* Updates of many tokens, by logout, resetPassword and a refresh that has *)
(* found its token reused.                                                 *)

BeginLogout(t, k) ==
  /\ Live(k)
  /\ Arrive(t, [Idle EXCEPT !.op = "logout", !.k = k, !.fam = token[k].fam, !.pc = "bulk"])

Scope_KeptOnReset(t) == IF tx[t].op = "reset" THEN {} ELSE Family(tx[t].fam)
Scope_Everything(t)  == Issued
Scope(t) == IF tx[t].op = "reset" THEN Issued ELSE Family(tx[t].fam)

\* The statement sees the rows committed when it starts, and locks one by one.
StartBulk(t) == tx[t].pc = "bulk" /\ Step(t, [tx[t] EXCEPT !.todo = Scope(t), !.pc = "rows"])

RevokeRow(t, k) ==
  /\ tx[t].pc = "rows" /\ k \in tx[t].todo /\ Unlocked(t, k)
  /\ Step(t, [tx[t] EXCEPT !.todo = @ \ {k}, !.rows = @ \cup {k}])

EndBulk(t) ==
  /\ tx[t].pc = "rows" /\ tx[t].todo = {} /\ tx[t].op # "refresh"
  /\ Step(t, [tx[t] EXCEPT !.pc = "commit"])

\* AUTH_REFRESH_TOKEN_REUSE_DETECTED is thrown inside the transaction.
ReuseDetected(t) ==
  /\ tx[t].pc = "rows" /\ tx[t].todo = {} /\ tx[t].op = "refresh"
  /\ reused' = reused \cup {tx[t].fam}
  /\ tx' = [tx EXCEPT ![t] = Idle]
  /\ UNCHANGED <<token, expired, account, ended, late, bounds>>

--------------------------------------------------------------------------------
(* requestPasswordReset and resetPassword.                                 *)

BeginRequest(t) == Arrive(t, [Idle EXCEPT !.op = "request", !.pc = "update"])

BeginReset(t) ==
  /\ resetHash # 0 /\ ~lapsed
  /\ Arrive(t, [Idle EXCEPT !.op = "reset", !.pc = "identity"])

\* The SELECT of save(identity), whose entity has no reset hash.
CompareIdentity(t) ==
  /\ tx[t].pc = "identity"
  /\ Step(t, [tx[t] EXCEPT !.clear = (resetHash # 0), !.pc = "update"])

UpdateIdentity(t) ==
  /\ tx[t].pc = "update" /\ \A u \in Others(t) : ~tx[u].mine
  /\ Step(t, [tx[t] EXCEPT !.mine = TRUE, !.pc = IF tx[t].op = "reset" THEN "bulk" ELSE "commit"])

--------------------------------------------------------------------------------
Revoked(t) == [k \in Tokens |->
  IF k \in tx[t].new THEN [state |-> "live", fam |-> tx[t].fam, pw |-> tx[t].pw]
  ELSE IF k \in tx[t].rows THEN [token[k] EXCEPT !.state = "revoked"] ELSE token[k]]

\* A token issued in exchange for a late one is late as well.
Late(t) == tx[t].over \/ (tx[t].op = "refresh" /\ tx[t].k \in late)

Commit(t) ==
  /\ tx[t].pc = "commit"
  /\ LET r == tx[t]
     IN  /\ token' = Revoked(t)
         /\ password' = IF r.op = "reset" THEN r.n ELSE password
         /\ resetHash' = CASE r.op = "request"             -> r.n
                           [] r.op = "reset" /\ r.clear    -> 0
                           [] OTHER                        -> resetHash
         /\ lapsed' = (lapsed /\ r.op # "request")
         /\ ended' = CASE r.op = "logout" -> ended \cup {r.fam}
                       [] r.op = "reset"  -> ended \cup { token[k].fam : k \in Issued }
                       [] OTHER           -> ended
         /\ late' = IF Late(t) THEN late \cup r.new ELSE late
  /\ tx' = [tx EXCEPT ![t] = Idle]
  /\ UNCHANGED <<expired, reused, bounds>>

\* A transaction that is killed to break a deadlock, or loses its process.
Abort(t) ==
  /\ tx[t].pc # "idle" /\ aborts < MaxAborts
  /\ aborts' = aborts + 1
  /\ tx' = [tx EXCEPT ![t] = Idle] /\ UNCHANGED <<db, served>>

Expire(k) ==
  /\ k \in Issued \ expired /\ expired' = expired \cup {k}
  /\ UNCHANGED <<token, account, history, tx, bounds>>

Lapse ==
  /\ resetHash # 0 /\ ~lapsed /\ lapsed' = TRUE
  /\ UNCHANGED <<token, expired, password, resetHash, history, tx, bounds>>

Begin(t) ==
  \/ \E f \in Families : BeginLogin(t, f)
  \/ \E k \in Tokens : BeginRefresh(t, k) \/ BeginLogout(t, k)
  \/ BeginRequest(t) \/ BeginReset(t)

Run(t) ==
  \/ \E k \in Tokens : Issue(t, k) \/ RevokeRow(t, k)
  \/ Consume(t) \/ StartBulk(t) \/ EndBulk(t) \/ ReuseDetected(t)
  \/ CompareIdentity(t) \/ UpdateIdentity(t) \/ Commit(t)

Next ==
  \/ \E t \in Txns : Begin(t) \/ Run(t) \/ Abort(t)
  \/ \E k \in Tokens : Expire(k)
  \/ Lapse

Spec == Init /\ [][Next]_vars

--------------------------------------------------------------------------------
TypeOK ==
  /\ token \in [Tokens -> Row] /\ expired \in SUBSET Tokens
  /\ password \in Nat /\ resetHash \in Nat /\ lapsed \in BOOLEAN
  /\ ended \in SUBSET Families /\ reused \in SUBSET Families /\ late \in SUBSET Tokens
  /\ tx \in [Txns -> Call]
  /\ served \in Nat /\ aborts \in Nat

(* A family has one live token at most: however many refreshes present the     *)
(* same token at once, one succeeds (the conditional update of refresh).       *)
OneLiveToken ==
  \A k, j \in Tokens : Live(k) /\ Live(j) /\ token[k].fam = token[j].fam => k = j

(* A session that nobody has ended is not lost: its family has a live token,   *)
(* although every refresh revokes the one it is given (refresh, logout).       *)
SessionSurvives ==
  \A k \in Issued : token[k].fam \notin ended => \E j \in Family(token[k].fam) : Live(j)

(* A logout ends its session for good, and a password reset every session: a    *)
(* live token goes back to a login with the current password and belongs to a   *)
(* family that was not ended, unless the call that issued it was under way      *)
(* together with that logout or with a reset (logout, resetPassword).           *)
EndedStaysEnded ==
  \A k \in Tokens :
    Live(k) => k \in late \/ (token[k].fam \notin ended /\ token[k].pw = password)

(* Reuse of a revoked token revokes its whole family, as the comment in        *)
(* refresh says.                                                               *)
ReuseEndsFamily == \A k \in Tokens : Live(k) => token[k].fam \notin reused
================================================================================
