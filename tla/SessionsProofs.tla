----------------------------- MODULE SessionsProofs -----------------------------
(***************************************************************************)
(* Rotation is exclusive and loses no session, and no rotation brings back *)
(* a session that has ended, for any number of connections, tokens and     *)
(* families.                                                               *)
(***************************************************************************)
EXTENDS Sessions, TLAPS

\* Which calls come by which step, and which of them hold a new token.
Flow(r) ==
  /\ r.pc = "consume" => r.op = "refresh"
  /\ r.pc = "issue" => r.op \in {"login", "refresh"} /\ r.new = {}
  /\ r.pc \in {"bulk", "rows"} => r.op \in {"refresh", "logout", "reset"}
  /\ r.pc = "identity" => r.op = "reset"
  /\ r.pc = "update" => r.op \in {"request", "reset"}
  /\ r.pc = "commit" => r.op # "none"
  /\ r.new # {} => r.pc = "commit" /\ r.op \in {"login", "refresh"}
  /\ r.pc = "commit" /\ r.op \in {"login", "refresh"} => r.new # {}

\* What a call knows of the table: a refresh that goes on to issue a token has
\* locked the live one it was given, and the family of a login is unused.
Grounded(r) ==
  /\ r.todo \cup r.rows \subseteq Issued
  /\ r.op = "refresh" => r.k \in Family(r.fam)
  /\ r.op = "refresh" /\ r.pc \in {"issue", "commit"} => r.rows = {r.k} /\ Live(r.k)
  /\ r.op = "logout" => r.todo \cup r.rows \subseteq Family(r.fam)
  /\ r.op \in {"login", "request"} => r.todo = {} /\ r.rows = {}
  /\ r.op = "login" => Family(r.fam) = {}
  /\ r.new \cap Issued = {}
  /\ \A k, j \in r.new : k = j

\* Two calls lock no row in common, issue different tokens, start different families.
Apart(r, s) ==
  /\ r.rows \cap s.rows = {} /\ r.new \cap s.new = {}
  /\ r.op = "login" /\ s.op = "login" => r.fam # s.fam

CallsOK ==
  /\ \A t \in Txns : Flow(tx[t]) /\ Grounded(tx[t])
  /\ \A t \in Txns : \A u \in Others(t) : Apart(tx[t], tx[u])

SessionInv == TypeOK /\ OneLiveToken /\ SessionSurvives /\ CallsOK
--------------------------------------------------------------------------------
(* Steps that change no token.                                             *)

LEMMA IdleOK == Idle \in Call /\ Flow(Idle) /\ Grounded(Idle) /\ \A s \in Call : Apart(Idle, s)
BY TokensAssumption
   DEF Idle, Call, Flow, Grounded, Apart, SomeToken, SomeFamily

LEMMA ApartSymmetric == ASSUME NEW r \in Call, NEW s \in Call, Apart(r, s) PROVE Apart(s, r)
BY DEF Apart, Call

\* The other variables are well typed after the step.
RestOK ==
  /\ expired \in SUBSET Tokens
  /\ password \in Nat /\ resetHash \in Nat /\ lapsed \in BOOLEAN
  /\ ended \in SUBSET Families /\ reused \in SUBSET Families /\ late \in SUBSET Tokens
  /\ served \in Nat /\ aborts \in Nat

\* The table and the families that have been ended stay as they are.
LEMMA TableKept ==
  ASSUME SessionInv, UNCHANGED <<token, ended>>
  PROVE  /\ OneLiveToken' /\ SessionSurvives' /\ Issued' = Issued
         /\ \A f : Family(f)' = Family(f)
         /\ \A k : Live(k)' = Live(k)
BY DEF SessionInv, OneLiveToken, SessionSurvives, Issued, Family, Live

\* A step of the call of t, which becomes r.
LEMMA CallStep ==
  ASSUME SessionInv, NEW t \in Txns, NEW r \in Call,
         Flow(r), Grounded(r), \A u \in Others(t) : Apart(r, tx[u]),
         tx' = [tx EXCEPT ![t] = r], UNCHANGED <<token, ended>>, RestOK'
  PROVE  SessionInv'
<1>1. TypeOK'
  BY DEF SessionInv, TypeOK, RestOK
<1>2. \A s \in Call : Grounded(s) => Grounded(s)'
  BY TableKept DEF Grounded
<1>3. ASSUME NEW u \in Txns PROVE tx[u] \in Call /\ tx'[u] = IF u = t THEN r ELSE tx[u]
  BY DEF SessionInv, TypeOK
<1>4. ASSUME NEW u \in Txns PROVE Flow(tx[u])' /\ Grounded(tx[u])'
  BY <1>2, <1>3 DEF SessionInv, CallsOK
<1>5. ASSUME NEW u \in Txns, NEW x \in Others(u) PROVE Apart(tx[u], tx[x])'
  BY <1>3, ApartSymmetric DEF SessionInv, CallsOK, Others
<1> QED
  BY <1>1, <1>2, <1>3, <1>4, <1>5, TableKept DEF SessionInv, CallsOK

LEMMA StepKeeps ==
  ASSUME SessionInv, NEW t \in Txns, NEW r \in Call, Step(t, r),
         Flow(r), Grounded(r), \A u \in Others(t) : Apart(r, tx[u])
  PROVE  SessionInv'
<1>1. UNCHANGED <<token, ended>> /\ RestOK'
  BY DEF SessionInv, TypeOK, Step, RestOK, db, account, history, bounds
<1> QED
  BY <1>1, CallStep DEF Step

\* A step that locks no new row and issues no token.
LEMMA LocalStep ==
  ASSUME SessionInv, NEW t \in Txns, NEW r \in Call, Step(t, r), Flow(r), Grounded(r),
         r.rows = tx[t].rows, r.new = tx[t].new, r.op = tx[t].op, r.fam = tx[t].fam
  PROVE  SessionInv'
<1>1. \A u \in Others(t) : Apart(r, tx[u])
  BY DEF SessionInv, CallsOK, Apart
<1> QED
  BY <1>1, StepKeeps

LEMMA IdleStep ==
  ASSUME SessionInv, NEW t \in Txns, tx' = [tx EXCEPT ![t] = Idle],
         UNCHANGED <<token, ended>>, RestOK'
  PROVE  SessionInv'
<1>1. \A u \in Others(t) : tx[u] \in Call
  BY DEF SessionInv, TypeOK, Others
<1> QED
  BY <1>1, CallStep, IdleOK

\* Two records of calls that differ at most in the number and the overlap.
Alike(r, s) ==
  /\ r.pc = s.pc /\ r.op = s.op /\ r.k = s.k /\ r.fam = s.fam
  /\ r.new = s.new /\ r.todo = s.todo /\ r.rows = s.rows

LEMMA MarkAlike ==
  ASSUME NEW r \in Call, NEW n \in Nat, NEW b \in BOOLEAN
  PROVE  /\ [r EXCEPT !.n = n, !.over = b] \in Call
         /\ Alike([r EXCEPT !.n = n, !.over = b], r)
         /\ [r EXCEPT !.over = TRUE] \in Call
         /\ Alike([r EXCEPT !.over = TRUE], r)
         /\ Alike(r, r)
BY DEF Call, Alike

LEMMA AlikeKeeps ==
  ASSUME NEW r, NEW s, Alike(r, s)
  PROVE  /\ Flow(s) => Flow(r)
         /\ Grounded(s) => Grounded(r)
BY DEF Alike, Flow, Grounded

\* The arrival of a call marks those it overlaps.
LEMMA ArriveKeeps ==
  ASSUME SessionInv, NEW t \in Txns, NEW r \in Call, Arrive(t, r),
         Flow(r), Grounded(r), \A u \in Others(t) : Apart(r, tx[u])
  PROVE  SessionInv'
<1> DEFINE Old(u) == IF u = t THEN r ELSE tx[u]
           b == \E x \in Others(t) : Ending(tx[x], r)
<1>1. UNCHANGED <<token, ended>> /\ RestOK' /\ served + 1 \in Nat
  <2>1. UNCHANGED <<db, aborts>> /\ served' = served + 1
    BY Zenon DEF Arrive
  <2> QED
    BY <2>1 DEF SessionInv, TypeOK, RestOK, db, account, history
<1>2. b \in BOOLEAN
  OBVIOUS
<1>3. tx' = [u \in Txns |->
        IF u = t THEN [r EXCEPT !.n = served + 1, !.over = b]
        ELSE IF Ending(r, tx[u]) /\ tx[u].pc # "idle" THEN [tx[u] EXCEPT !.over = TRUE] ELSE tx[u]]
  BY DEF Arrive
<1> HIDE DEF b
<1>4. ASSUME NEW u \in Txns PROVE Old(u) \in Call /\ Flow(Old(u)) /\ Grounded(Old(u))
  BY DEF SessionInv, TypeOK, CallsOK
<1>5. ASSUME NEW u \in Txns PROVE tx'[u] \in Call /\ Alike(tx'[u], Old(u))
  BY <1>1, <1>2, <1>3, <1>4, MarkAlike
<1>6. \A s \in Call : Grounded(s) => Grounded(s)'
  BY <1>1, TableKept DEF Grounded
<1>7. ASSUME NEW u \in Txns PROVE Flow(tx[u])' /\ Grounded(tx[u])'
  <2>1. Flow(tx'[u]) /\ Grounded(tx'[u])
    BY <1>4, <1>5, AlikeKeeps
  <2> QED
    BY <1>1, <1>5, <2>1, TableKept DEF Flow, Grounded
<1>8. ASSUME NEW u \in Txns, NEW x \in Others(u) PROVE Apart(tx[u], tx[x])'
  <2>1. Apart(Old(u), Old(x))
    BY <1>4, ApartSymmetric DEF SessionInv, CallsOK, Others
  <2> QED
    BY <1>5, <2>1 DEF Others, Apart, Alike
<1>9. TypeOK'
  <2>1. tx' \in [Txns -> Call]
    BY <1>3, <1>5
  <2> QED
    BY <1>1, <2>1 DEF SessionInv, TypeOK, RestOK
<1> QED
  BY <1>1, <1>7, <1>8, <1>9, TableKept DEF SessionInv, CallsOK

--------------------------------------------------------------------------------
(* Each step.                                                              *)

LEMMA CallType ==
  ASSUME SessionInv, NEW t \in Txns
  PROVE  tx[t] \in Call /\ Flow(tx[t]) /\ Grounded(tx[t])
BY DEF SessionInv, TypeOK, CallsOK

LEMMA InitSessions == Init => SessionInv
<1> SUFFICES ASSUME Init PROVE SessionInv
  OBVIOUS
<1>1. NoRow \in Row
  BY TokensAssumption DEF NoRow, Row, SomeFamily
<1>2. TypeOK
  BY <1>1, IdleOK DEF Init, TypeOK
<1>3. OneLiveToken /\ SessionSurvives
  BY DEF Init, OneLiveToken, SessionSurvives, Live, Issued, NoRow
<1>4. CallsOK
  BY IdleOK DEF Init, CallsOK, Others
<1> QED
  BY <1>2, <1>3, <1>4 DEF SessionInv

LEMMA BeginLoginKeeps ==
  ASSUME SessionInv, NEW t \in Txns, NEW f \in Families, BeginLogin(t, f)
  PROVE  SessionInv'
<1> DEFINE r == [Idle EXCEPT !.op = "login", !.fam = f, !.pw = password, !.pc = "issue"]
<1>1. r \in Call /\ r.pc = "issue" /\ r.op = "login" /\ r.fam = f
      /\ r.todo = {} /\ r.rows = {} /\ r.new = {}
  BY IdleOK DEF SessionInv, TypeOK, Call, Idle
<1>2. Arrive(t, r) /\ Family(f) = {} /\ \A u \in Txns : ~(tx[u].op = "login" /\ tx[u].fam = f)
  BY Zenon DEF BeginLogin
<1> HIDE DEF r
<1>3. Flow(r) /\ Grounded(r)
  BY <1>1, <1>2 DEF Flow, Grounded
<1>4. \A u \in Others(t) : Apart(r, tx[u])
  BY <1>1, <1>2 DEF Apart, Others
<1> QED
  BY <1>1, <1>2, <1>3, <1>4, ArriveKeeps

\* A call that starts without a lock and starts no family.
LEMMA PlainArrival ==
  ASSUME SessionInv, NEW t \in Txns, NEW r \in Call, Arrive(t, r), Flow(r),
         r.todo = {}, r.rows = {}, r.new = {}, r.op # "login",
         r.op = "refresh" => r.pc \notin {"issue", "commit"} /\ r.k \in Family(r.fam)
  PROVE  SessionInv'
<1>1. Grounded(r)
  BY DEF Grounded
<1>2. \A u \in Others(t) : Apart(r, tx[u])
  BY DEF Apart
<1> QED
  BY <1>1, <1>2, ArriveKeeps

LEMMA BeginRefreshKeeps ==
  ASSUME SessionInv, NEW t \in Txns, NEW k \in Tokens, BeginRefresh(t, k)
  PROVE  SessionInv'
<1> DEFINE p == IF Live(k) THEN "consume" ELSE "bulk"
           r == [Idle EXCEPT !.op = "refresh", !.k = k, !.fam = token[k].fam,
                             !.pw = token[k].pw, !.pc = p]
<1>1. Arrive(t, r) /\ k \in Issued
  BY DEF BeginRefresh
<1>2. token[k] \in Row /\ p \in {"consume", "bulk"}
  BY DEF SessionInv, TypeOK
<1> HIDE DEF p
<1>3. r \in Call /\ r.todo = {} /\ r.rows = {} /\ r.new = {} /\ r.op = "refresh"
      /\ r.pc \in {"consume", "bulk"} /\ r.k = k /\ r.fam = token[k].fam
  BY <1>2, IdleOK DEF Call, Idle, Row
<1> HIDE DEF r
<1>4. Flow(r) /\ r.k \in Family(r.fam)
  BY <1>1, <1>3 DEF Flow, Family
<1> QED
  BY <1>1, <1>3, <1>4, PlainArrival

LEMMA BeginLogoutKeeps ==
  ASSUME SessionInv, NEW t \in Txns, NEW k \in Tokens, BeginLogout(t, k)
  PROVE  SessionInv'
<1> DEFINE r == [Idle EXCEPT !.op = "logout", !.k = k, !.fam = token[k].fam, !.pc = "bulk"]
<1>1. Arrive(t, r)
  BY DEF BeginLogout
<1>2. token[k] \in Row
  BY DEF SessionInv, TypeOK
<1>3. r \in Call /\ r.todo = {} /\ r.rows = {} /\ r.new = {} /\ r.op = "logout" /\ r.pc = "bulk"
  BY <1>2, IdleOK DEF Call, Idle, Row
<1> HIDE DEF r
<1> QED
  BY <1>1, <1>3, PlainArrival DEF Flow

LEMMA BeginRequestKeeps == ASSUME SessionInv, NEW t \in Txns, BeginRequest(t) PROVE SessionInv'
<1> DEFINE r == [Idle EXCEPT !.op = "request", !.pc = "update"]
<1>1. Arrive(t, r)
  BY DEF BeginRequest
<1>2. r \in Call /\ r.todo = {} /\ r.rows = {} /\ r.new = {} /\ r.op = "request" /\ r.pc = "update"
  BY IdleOK DEF Call, Idle
<1> HIDE DEF r
<1> QED
  BY <1>1, <1>2, PlainArrival DEF Flow

LEMMA BeginResetKeeps == ASSUME SessionInv, NEW t \in Txns, BeginReset(t) PROVE SessionInv'
<1> DEFINE r == [Idle EXCEPT !.op = "reset", !.pc = "identity"]
<1>1. Arrive(t, r)
  BY DEF BeginReset
<1>2. r \in Call /\ r.todo = {} /\ r.rows = {} /\ r.new = {} /\ r.op = "reset" /\ r.pc = "identity"
  BY IdleOK DEF Call, Idle
<1> HIDE DEF r
<1> QED
  BY <1>1, <1>2, PlainArrival DEF Flow

LEMMA IssueKeeps ==
  ASSUME SessionInv, NEW t \in Txns, NEW k \in Tokens, Issue(t, k)
  PROVE  SessionInv'
<1> DEFINE r == [tx[t] EXCEPT !.new = {k}, !.pc = "commit"]
<1>1. Step(t, r) /\ tx[t].pc = "issue" /\ k \notin Issued /\ \A u \in Txns : k \notin tx[u].new
  BY DEF Issue
<1>2. r \in Call /\ r.pc = "commit" /\ r.new = {k} /\ r.op = tx[t].op /\ r.fam = tx[t].fam
      /\ r.k = tx[t].k /\ r.todo = tx[t].todo /\ r.rows = tx[t].rows
  BY CallType DEF Call
<1> HIDE DEF r
<1>3. Flow(r) /\ Grounded(r)
  BY <1>1, <1>2, CallType DEF Flow, Grounded
<1>4. \A u \in Others(t) : Apart(r, tx[u])
  BY <1>1, <1>2 DEF SessionInv, CallsOK, Apart, Others
<1> QED
  BY <1>1, <1>2, <1>3, <1>4, StepKeeps

LEMMA ConsumeKeeps == ASSUME SessionInv, NEW t \in Txns, Consume(t) PROVE SessionInv'
<1>1. /\ tx[t].pc = "consume" /\ Unlocked(t, tx[t].k) /\ tx[t].op = "refresh"
      /\ tx[t].k \in Issued /\ tx[t].new = {}
  BY CallType DEF Consume, Flow, Grounded, Family
<1>2. CASE Matches(tx[t].k)
  <2> DEFINE r == [tx[t] EXCEPT !.rows = {tx[t].k}, !.pc = "issue"]
  <2>1. Step(t, r)
    BY <1>2 DEF Consume
  <2>2. r \in Call /\ r.pc = "issue" /\ r.rows = {r.k} /\ r.new = {} /\ r.op = "refresh"
        /\ r.fam = tx[t].fam /\ r.k = tx[t].k /\ r.todo = tx[t].todo
    BY ZenonT(30), <1>1, CallType DEF Call
  <2> HIDE DEF r
  <2>3. Flow(r) /\ Grounded(r)
    BY <1>1, <1>2, <2>2, CallType DEF Flow, Grounded, Matches
  <2>4. \A u \in Others(t) : Apart(r, tx[u])
    BY <1>1, <2>2 DEF Unlocked, Apart
  <2> QED
    BY <2>1, <2>2, <2>3, <2>4, StepKeeps
<1>3. CASE ~Matches(tx[t].k)
  <2> DEFINE r == [tx[t] EXCEPT !.pc = "bulk"]
  <2>1. Step(t, r)
    BY <1>3 DEF Consume
  <2>2. r \in Call /\ r.pc = "bulk" /\ r.rows = tx[t].rows /\ r.new = tx[t].new
        /\ r.op = tx[t].op /\ r.fam = tx[t].fam /\ r.k = tx[t].k /\ r.todo = tx[t].todo
    BY CallType DEF Call
  <2> HIDE DEF r
  <2>3. Flow(r) /\ Grounded(r)
    BY <1>1, <2>2, CallType DEF Flow, Grounded
  <2> QED
    BY <2>1, <2>2, <2>3, LocalStep
<1> QED
  BY <1>2, <1>3

LEMMA StartBulkKeeps == ASSUME SessionInv, NEW t \in Txns, StartBulk(t) PROVE SessionInv'
<1> DEFINE s == Scope(t)
           r == [tx[t] EXCEPT !.todo = s, !.pc = "rows"]
<1>1. Step(t, r) /\ tx[t].pc = "bulk"
  BY DEF StartBulk
<1>2. s \subseteq Issued /\ (tx[t].op # "reset" => s \subseteq Family(tx[t].fam))
  BY DEF Scope, Family
<1> HIDE DEF s
<1>3. r \in Call /\ r.pc = "rows" /\ r.todo = s /\ r.rows = tx[t].rows /\ r.new = tx[t].new
      /\ r.op = tx[t].op /\ r.fam = tx[t].fam /\ r.k = tx[t].k
  BY <1>2, CallType DEF Call, Issued
<1> HIDE DEF r
<1>4. Flow(r) /\ Grounded(r)
  BY <1>1, <1>2, <1>3, CallType DEF Flow, Grounded
<1> QED
  BY <1>1, <1>3, <1>4, LocalStep

LEMMA RevokeRowKeeps ==
  ASSUME SessionInv, NEW t \in Txns, NEW k \in Tokens, RevokeRow(t, k)
  PROVE  SessionInv'
<1> DEFINE r == [tx[t] EXCEPT !.todo = @ \ {k}, !.rows = @ \cup {k}]
<1>1. Step(t, r) /\ tx[t].pc = "rows" /\ k \in tx[t].todo /\ Unlocked(t, k)
  BY DEF RevokeRow
<1>2. r \in Call /\ r.pc = "rows" /\ r.todo = tx[t].todo \ {k} /\ r.rows = tx[t].rows \cup {k}
      /\ r.new = tx[t].new /\ r.op = tx[t].op /\ r.fam = tx[t].fam /\ r.k = tx[t].k
  BY <1>1, CallType DEF Call
<1> HIDE DEF r
<1>3. Flow(r) /\ Grounded(r)
  BY <1>1, <1>2, CallType DEF Flow, Grounded
<1>4. \A u \in Others(t) : Apart(r, tx[u])
  BY <1>1, <1>2 DEF SessionInv, CallsOK, Apart, Unlocked
<1> QED
  BY <1>1, <1>2, <1>3, <1>4, StepKeeps

LEMMA EndBulkKeeps == ASSUME SessionInv, NEW t \in Txns, EndBulk(t) PROVE SessionInv'
<1> DEFINE r == [tx[t] EXCEPT !.pc = "commit"]
<1>1. Step(t, r) /\ tx[t].pc = "rows" /\ tx[t].op # "refresh"
  BY DEF EndBulk
<1>2. r \in Call /\ r.pc = "commit" /\ r.todo = tx[t].todo /\ r.rows = tx[t].rows
      /\ r.new = tx[t].new /\ r.op = tx[t].op /\ r.fam = tx[t].fam /\ r.k = tx[t].k
  BY CallType DEF Call
<1> HIDE DEF r
<1>3. Flow(r) /\ Grounded(r)
  BY <1>1, <1>2, CallType DEF Flow, Grounded
<1> QED
  BY <1>1, <1>2, <1>3, LocalStep

LEMMA CompareIdentityKeeps ==
  ASSUME SessionInv, NEW t \in Txns, CompareIdentity(t) PROVE SessionInv'
<1> DEFINE c == resetHash # 0
           r == [tx[t] EXCEPT !.clear = c, !.pc = "update"]
<1>1. Step(t, r) /\ tx[t].pc = "identity"
  BY DEF CompareIdentity
<1>2. c \in BOOLEAN
  OBVIOUS
<1> HIDE DEF c
<1>3. r \in Call /\ r.pc = "update" /\ r.todo = tx[t].todo /\ r.rows = tx[t].rows
      /\ r.new = tx[t].new /\ r.op = tx[t].op /\ r.fam = tx[t].fam /\ r.k = tx[t].k
  BY <1>2, CallType DEF Call
<1> HIDE DEF r
<1>4. Flow(r) /\ Grounded(r)
  BY <1>1, <1>3, CallType DEF Flow, Grounded
<1> QED
  BY <1>1, <1>3, <1>4, LocalStep

LEMMA UpdateIdentityKeeps ==
  ASSUME SessionInv, NEW t \in Txns, UpdateIdentity(t) PROVE SessionInv'
<1> DEFINE p == IF tx[t].op = "reset" THEN "bulk" ELSE "commit"
           r == [tx[t] EXCEPT !.mine = TRUE, !.pc = p]
<1>1. Step(t, r) /\ tx[t].pc = "update"
  BY DEF UpdateIdentity
<1>2. p \in {"bulk", "commit"} /\ (p = "bulk" <=> tx[t].op = "reset")
  OBVIOUS
<1> HIDE DEF p
<1>3. r \in Call /\ r.pc = p /\ r.todo = tx[t].todo /\ r.rows = tx[t].rows
      /\ r.new = tx[t].new /\ r.op = tx[t].op /\ r.fam = tx[t].fam /\ r.k = tx[t].k
  BY <1>2, CallType DEF Call
<1> HIDE DEF r
<1>4. Flow(r) /\ Grounded(r)
  BY <1>1, <1>2, <1>3, CallType DEF Flow, Grounded
<1> QED
  BY <1>1, <1>3, <1>4, LocalStep

\* What a commit does to each token.
LEMMA Committed ==
  ASSUME SessionInv, NEW t \in Txns, Commit(t), NEW k \in Tokens
  PROVE  /\ token'[k] \in Row
         /\ k \in tx[t].new => k \notin Issued /\ token'[k].fam = tx[t].fam
         /\ k \in Issued => token'[k].fam = token[k].fam
         /\ k \in Issued' <=> k \in Issued \/ k \in tx[t].new
         /\ Live(k)' <=> k \in tx[t].new \/ (Live(k) /\ k \notin tx[t].rows)
<1>1. token' = Revoked(t)
  BY Zenon DEF Commit
<1>2. token'[k] = IF k \in tx[t].new THEN [state |-> "live", fam |-> tx[t].fam, pw |-> tx[t].pw]
                  ELSE IF k \in tx[t].rows THEN [token[k] EXCEPT !.state = "revoked"] ELSE token[k]
  BY <1>1 DEF Revoked
<1>3. token[k] \in Row /\ tx[t].new \cap Issued = {} /\ tx[t].rows \subseteq Issued
  BY CallType DEF SessionInv, TypeOK, Grounded
<1> QED
  BY <1>2, <1>3, CallType DEF Row, Call, Issued, Live

LEMMA CommitTypes == ASSUME SessionInv, NEW t \in Txns, Commit(t) PROVE TypeOK' /\ ended \subseteq ended'
<1> DEFINE r == tx[t]
<1>1. r \in Call /\ token \in [Tokens -> Row]
  BY CallType DEF SessionInv, TypeOK
<1>2. token' \in [Tokens -> Row]
  <2>1. token' = [k \in Tokens |-> token'[k]]
    BY Zenon DEF Commit, Revoked
  <2> QED
    BY <2>1, Committed
<1>3. tx' \in [Txns -> Call] /\ UNCHANGED <<expired, reused, served, aborts>>
  BY IdleOK DEF SessionInv, TypeOK, Commit, bounds
<1>4. /\ password' = IF r.op = "reset" THEN r.n ELSE password
      /\ resetHash' = CASE r.op = "request"             -> r.n
                         [] r.op = "reset" /\ r.clear    -> 0
                         [] OTHER                        -> resetHash
      /\ lapsed' = (lapsed /\ r.op # "request")
      /\ ended' = CASE r.op = "logout" -> ended \cup {r.fam}
                     [] r.op = "reset"  -> ended \cup { token[k].fam : k \in Issued }
                     [] OTHER           -> ended
      /\ late' = IF Late(t) THEN late \cup r.new ELSE late
  BY DEF Commit
<1>5. password' \in Nat /\ resetHash' \in Nat /\ late' \in SUBSET Tokens
  BY <1>1, <1>4 DEF SessionInv, TypeOK, Call
<1>6. lapsed' \in BOOLEAN
  BY <1>4 DEF SessionInv, TypeOK
<1>7. ended' \in SUBSET Families /\ ended \subseteq ended'
  <2>1. { token[k].fam : k \in Issued } \subseteq Families
    BY <1>1 DEF Row, Issued
  <2> QED
    BY <1>1, <1>4, <2>1 DEF SessionInv, TypeOK, Call
<1> QED
  BY <1>2, <1>3, <1>5, <1>6, <1>7 DEF SessionInv, TypeOK

\* A refresh revokes the token it replaces, and a login starts a family.
LEMMA CommitOneLive == ASSUME SessionInv, NEW t \in Txns, Commit(t) PROVE OneLiveToken'
<1>1. ASSUME NEW k \in tx[t].new, NEW j \in Tokens, Live(j), j \notin tx[t].rows
      PROVE  token[j].fam # tx[t].fam
  <2>1. tx[t].pc = "commit" /\ tx[t].op \in {"login", "refresh"} /\ Grounded(tx[t])
    BY CallType DEF Flow
  <2>2. j \in Issued
    BY <1>1 DEF Issued, Live
  <2>3. CASE tx[t].op = "login"
    BY <2>1, <2>2, <2>3 DEF Grounded, Family
  <2>4. CASE tx[t].op = "refresh"
    <3>1. tx[t].rows = {tx[t].k} /\ Live(tx[t].k) /\ tx[t].k \in Family(tx[t].fam)
      BY <2>1, <2>4 DEF Grounded
    <3>2. tx[t].k \in Tokens /\ token[tx[t].k].fam = tx[t].fam
      BY <3>1 DEF Family, Issued
    <3> QED
      BY <1>1, <3>1, <3>2 DEF SessionInv, OneLiveToken
  <2> QED
    BY <2>1, <2>3, <2>4
<1>2. ASSUME NEW k \in Tokens, NEW j \in Tokens, Live(k)', Live(j)', token'[k].fam = token'[j].fam
      PROVE  k = j
  <2>1. tx[t].new \subseteq Tokens /\ \A i, n \in tx[t].new : i = n
    BY CallType DEF Call, Grounded
  <2>2. \A i \in Tokens : Live(i) => i \in Issued
    BY DEF Live, Issued
  <2>3. CASE k \in tx[t].new
    BY <1>1, <1>2, <2>1, <2>2, <2>3, Committed
  <2>4. CASE j \in tx[t].new
    BY <1>1, <1>2, <2>1, <2>2, <2>4, Committed
  <2>5. CASE k \notin tx[t].new /\ j \notin tx[t].new
    BY <1>2, <2>2, <2>5, Committed DEF SessionInv, OneLiveToken
  <2> QED
    BY <2>3, <2>4, <2>5
<1> QED
  BY <1>2 DEF OneLiveToken

\* A commit that revokes the live token of a family issues another or ends the family.
LEMMA CommitSurvives == ASSUME SessionInv, NEW t \in Txns, Commit(t) PROVE SessionSurvives'
<1> SUFFICES ASSUME NEW k \in Issued', token'[k].fam \notin ended'
             PROVE  \E j \in Tokens : Live(j)' /\ token'[j].fam = token'[k].fam
  BY DEF SessionSurvives, Family, Issued, Live
<1>1. k \in Tokens
  BY DEF Issued
<1>2. tx[t].new \subseteq Tokens
  BY CallType DEF Call
<1>3. CASE k \in tx[t].new
  BY <1>1, <1>3, Committed
<1>4. CASE k \notin tx[t].new
  <2>1. k \in Issued /\ token'[k].fam = token[k].fam /\ token[k].fam \notin ended
    BY <1>1, <1>4, Committed, CommitTypes
  <2>2. PICK j \in Family(token[k].fam) : Live(j)
    BY <2>1 DEF SessionInv, SessionSurvives
  <2>3. j \in Tokens /\ j \in Issued /\ token[j].fam = token[k].fam
    BY DEF Family, Issued
  <2>4. CASE j \notin tx[t].rows
    BY <2>1, <2>2, <2>3, <2>4, Committed
  <2>5. CASE j \in tx[t].rows
    <3>1. tx[t].pc = "commit" /\ ended' = CASE tx[t].op = "logout" -> ended \cup {tx[t].fam}
                     [] tx[t].op = "reset"  -> ended \cup { token[i].fam : i \in Issued }
                     [] OTHER               -> ended
      BY DEF Commit
    <3>2. tx[t].op # "reset"
      BY <2>1, <2>3, <3>1
    <3>3. tx[t].op # "logout"
      BY <2>1, <2>3, <2>5, <3>1, CallType DEF Grounded, Family
    <3>4. tx[t].op = "refresh"
      BY <2>5, <3>1, <3>2, <3>3, CallType DEF Call, Flow, Grounded
    <3>5. j = tx[t].k /\ tx[t].fam = token[k].fam /\ tx[t].new # {}
      BY <2>3, <2>5, <3>1, <3>4, CallType DEF Flow, Grounded, Family
    <3>6. PICK n \in tx[t].new : TRUE
      BY <3>5
    <3> QED
      BY <1>2, <2>1, <3>5, <3>6, Committed
  <2> QED
    BY <2>4, <2>5
<1> QED
  BY <1>3, <1>4

LEMMA CommitKeeps == ASSUME SessionInv, NEW t \in Txns, Commit(t) PROVE SessionInv'
<1>1. ASSUME NEW u \in Txns
      PROVE  tx[u] \in Call /\ tx'[u] = IF u = t THEN Idle ELSE tx[u]
  BY DEF SessionInv, TypeOK, Commit
<1>2. ASSUME NEW u \in Others(t) PROVE Grounded(tx[u])'
  <2> DEFINE s == tx[u]
  <2>1. s \in Call /\ Grounded(s) /\ Apart(tx[t], s) /\ tx'[u] = s
    BY <1>1 DEF SessionInv, CallsOK, Others
  <2>2. \A k \in Tokens : k \in Issued => k \in Issued' /\ token'[k].fam = token[k].fam
    BY Committed
  <2>3. \A f : Family(f) \subseteq Family(f)'
    BY <2>2 DEF Family, Issued
  <2>4. s.op = "refresh" /\ s.pc \in {"issue", "commit"} => Live(s.k)'
    BY <2>1, Committed DEF Grounded, Apart, Call
  <2>5. s.op = "login" => Family(s.fam)' = {}
    <3> SUFFICES ASSUME s.op = "login", NEW k \in Family(s.fam)' PROVE FALSE
      OBVIOUS
    <3>1. k \in Tokens /\ k \in Issued' /\ token'[k].fam = s.fam
      BY <2>1 DEF Family, Issued
    <3>2. Family(s.fam) = {}
      BY <2>1 DEF Grounded
    <3>3. k \in tx[t].new /\ tx[t].fam = s.fam
      BY <3>1, <3>2, Committed DEF Family
    <3>4. tx[t].op = "refresh"
      BY <2>1, <3>3, CallType DEF Flow, Apart
    <3> QED
      BY <3>2, <3>3, <3>4, CallType DEF Grounded
  <2>6. s.new \cap Issued' = {}
    BY <2>1, Committed DEF Grounded, Apart, Call
  <2>7. Issued \subseteq Issued'
    BY <2>2 DEF Issued
  <2> QED
    BY <2>1, <2>3, <2>4, <2>5, <2>6, <2>7 DEF Grounded
<1>3. CallsOK'
  <2>1. ASSUME NEW u \in Txns PROVE Flow(tx[u])' /\ Grounded(tx[u])'
    <3>1. CASE u = t
      BY <1>1, <3>1 DEF Idle, Flow, Grounded
    <3>2. CASE u # t
      BY <1>1, <1>2, <3>2, CallType DEF Others, Flow
    <3> QED
      BY <3>1, <3>2
  <2>2. ASSUME NEW u \in Txns, NEW x \in Others(u) PROVE Apart(tx[u], tx[x])'
    <3>1. Apart(tx'[u], tx'[x])
      BY <1>1, IdleOK, ApartSymmetric DEF SessionInv, CallsOK, Others
    <3> QED
      BY <3>1 DEF Apart
  <2> QED
    BY <2>1, <2>2 DEF CallsOK, Others
<1> QED
  BY <1>3, CommitTypes, CommitOneLive, CommitSurvives DEF SessionInv

LEMMA ReuseDetectedKeeps == ASSUME SessionInv, NEW t \in Txns, ReuseDetected(t) PROVE SessionInv'
<1>1. tx' = [tx EXCEPT ![t] = Idle] /\ reused' = reused \cup {tx[t].fam}
      /\ UNCHANGED <<token, expired, account, ended, late, bounds>>
  BY DEF ReuseDetected
<1>2. RestOK'
  BY <1>1, CallType DEF SessionInv, TypeOK, RestOK, Call, account, bounds
<1> QED
  BY <1>1, <1>2, IdleStep

LEMMA AbortKeeps == ASSUME SessionInv, NEW t \in Txns, Abort(t) PROVE SessionInv'
<1>1. tx' = [tx EXCEPT ![t] = Idle] /\ aborts' = aborts + 1 /\ UNCHANGED <<db, served>>
  BY DEF Abort
<1>2. RestOK' /\ UNCHANGED <<token, ended>>
  BY <1>1 DEF SessionInv, TypeOK, RestOK, db, account, history
<1> QED
  BY <1>1, <1>2, IdleStep

\* A step that changes no token and no call.
LEMMA OutsideStep == ASSUME SessionInv, UNCHANGED <<token, ended, tx>>, RestOK' PROVE SessionInv'
<1>1. TypeOK'
  BY DEF SessionInv, TypeOK, RestOK
<1>2. \A s \in Call : Grounded(s) => Grounded(s)'
  BY TableKept DEF Grounded
<1>3. CallsOK'
  <2>1. ASSUME NEW t \in Txns PROVE Flow(tx[t])' /\ Grounded(tx[t])'
    BY <1>2, CallType DEF Flow
  <2>2. ASSUME NEW t \in Txns, NEW u \in Others(t) PROVE Apart(tx[t], tx[u])'
    BY DEF SessionInv, CallsOK, Apart
  <2> QED
    BY <2>1, <2>2 DEF CallsOK, Others
<1> QED
  BY <1>1, <1>3, TableKept DEF SessionInv

LEMMA ExpireKeeps == ASSUME SessionInv, NEW k \in Tokens, Expire(k) PROVE SessionInv'
BY OutsideStep DEF Expire, SessionInv, TypeOK, RestOK, account, history, bounds

LEMMA LapseKeeps == ASSUME SessionInv, Lapse PROVE SessionInv'
BY OutsideStep DEF Lapse, SessionInv, TypeOK, RestOK, history, bounds

LEMMA NextSessions == ASSUME SessionInv, [Next]_vars PROVE SessionInv'
<1>1. CASE UNCHANGED vars
  BY <1>1, OutsideStep DEF SessionInv, TypeOK, RestOK, vars, db, account, history, bounds
<1>2. ASSUME NEW t \in Txns, Begin(t) PROVE SessionInv'
  BY <1>2, BeginLoginKeeps, BeginRefreshKeeps, BeginLogoutKeeps, BeginRequestKeeps,
     BeginResetKeeps DEF Begin
<1>3. ASSUME NEW t \in Txns, Run(t) PROVE SessionInv'
  <2>1. ASSUME NEW k \in Tokens, Issue(t, k) \/ RevokeRow(t, k) PROVE SessionInv'
    BY <2>1, IssueKeeps, RevokeRowKeeps
  <2>2. CASE Consume(t) \/ StartBulk(t) \/ EndBulk(t) \/ ReuseDetected(t)
    BY <2>2, ConsumeKeeps, StartBulkKeeps, EndBulkKeeps, ReuseDetectedKeeps
  <2>3. CASE CompareIdentity(t) \/ UpdateIdentity(t) \/ Commit(t)
    BY <2>3, CompareIdentityKeeps, UpdateIdentityKeeps, CommitKeeps
  <2> QED
    BY <1>3, <2>1, <2>2, <2>3 DEF Run
<1>4. ASSUME NEW t \in Txns, Abort(t) PROVE SessionInv'
  BY <1>4, AbortKeeps
<1>5. ASSUME NEW k \in Tokens, Expire(k) PROVE SessionInv'
  BY <1>5, ExpireKeeps
<1> QED
  BY <1>1, <1>2, <1>3, <1>4, <1>5, LapseKeeps DEF Next

(* However many refreshes present the same token, and whatever logouts, resets *)
(* and crashes come between them, a family has one live token at most (the     *)
(* conditional update of refresh).                                             *)
THEOREM RotationExclusive == Spec => []OneLiveToken
<1>1. SessionInv => OneLiveToken
  BY DEF SessionInv
<1> QED
  BY <1>1, InitSessions, NextSessions, PTL DEF Spec

(* No interleaving and no crash loses a session that nobody has ended: its     *)
(* family keeps a live token (refresh, logout and resetPassword).              *)
THEOREM SessionsSurvive == Spec => []SessionSurvives
<1>1. SessionInv => SessionSurvives
  BY DEF SessionInv
<1> QED
  BY <1>1, InitSessions, NextSessions, PTL DEF Spec

--------------------------------------------------------------------------------
(* Logout and reset: no token goes round them.                             *)

\* The call will issue a token, which will not count as late.
Issuing(r) == r.op \in {"login", "refresh"} /\ r.pc \in {"consume", "issue", "commit"}
Timely(r)  == ~r.over /\ (r.op = "refresh" => r.k \notin late)

\* A call that issues a token in time has seen no session end.
Sound(r) == Issuing(r) /\ Timely(r) => r.fam \notin ended /\ r.pw = password

\* An update of many tokens has met or will meet each live token of its sessions
\* but the late ones, and it commits when it has met them all.
Sweeping(r) == r.op \in {"logout", "reset"} /\ r.pc \in {"rows", "commit"}
Swept(r) ==
  /\ Sweeping(r) => \A k \in Issued :
       Live(k) /\ (r.op = "reset" \/ token[k].fam = r.fam) => k \in late \cup r.todo \cup r.rows
  /\ Sweeping(r) /\ r.pc = "commit" => r.todo = {}

EndingCall(r) == Sound(r) /\ Swept(r) /\ (r.op = "logout" => Family(r.fam) # {})

\* s, under way together with the end r of its session, is marked.
Marks(r, s) == s.pc # "idle" /\ Ending(r, s) => s.over

EndedInv ==
  /\ \A f \in ended : Family(f) # {}
  /\ \A t \in Txns : EndingCall(tx[t])
  /\ \A t \in Txns : \A u \in Others(t) : Marks(tx[t], tx[u])
  /\ EndedStaysEnded
--------------------------------------------------------------------------------
LEMMA IdleEnding == EndingCall(Idle) /\ \A s : Marks(Idle, s) /\ Marks(s, Idle)
BY DEF Idle, EndingCall, Sound, Issuing, Swept, Sweeping, Marks, Ending

LEMMA EndingKept ==
  ASSUME UNCHANGED <<token, ended, late, password>>
  PROVE  /\ \A s : EndingCall(s) => EndingCall(s)'
         /\ EndedStaysEnded => EndedStaysEnded'
         /\ \A f : Family(f)' = Family(f)
<1>1. Issued' = Issued /\ (\A f : Family(f)' = Family(f)) /\ (\A k : Live(k)' = Live(k))
  BY DEF Issued, Family, Live
<1> QED
  BY <1>1 DEF EndingCall, Sound, Issuing, Timely, Swept, Sweeping, EndedStaysEnded

\* The calls after the step are those of S, and nothing else has changed.
LEMMA EndedStep ==
  ASSUME SessionInv, EndedInv, UNCHANGED <<token, ended, late, password>>,
         \A t \in Txns : EndingCall(tx'[t]),
         \A t \in Txns : \A u \in Others(t) : Marks(tx'[t], tx'[u])
  PROVE  EndedInv'
<1>1. \A f \in ended' : (Family(f) # {})'
  BY EndingKept DEF EndedInv
<1>2. ASSUME NEW t \in Txns PROVE EndingCall(tx[t])'
  <2>1. EndingCall(tx'[t])
    OBVIOUS
  <2> QED
    BY <2>1, EndingKept DEF EndingCall, Sound, Issuing, Timely, Swept, Sweeping, Family, Issued, Live
<1>3. ASSUME NEW t \in Txns, NEW u \in Others(t) PROVE Marks(tx[t], tx[u])'
  BY DEF Marks, Ending
<1> QED
  BY <1>1, <1>2, <1>3, EndingKept DEF EndedInv, Others

\* A step of the call of t, which becomes r and ends the same session as before.
LEMMA EndedLocal ==
  ASSUME SessionInv, EndedInv, NEW t \in Txns, NEW r, Step(t, r), EndingCall(r),
         tx[t].pc # "idle", r.op = tx[t].op, r.fam = tx[t].fam, r.over = tx[t].over
  PROVE  EndedInv'
<1>1. UNCHANGED <<token, ended, late, password>>
  BY DEF Step, db, account, history
<1>2. ASSUME NEW u \in Txns PROVE tx'[u] = IF u = t THEN r ELSE tx[u]
  BY DEF Step, SessionInv, TypeOK
<1>3. \A u \in Txns : EndingCall(tx'[u])
  BY <1>2 DEF EndedInv
<1>4. ASSUME NEW u \in Txns, NEW x \in Others(u) PROVE Marks(tx'[u], tx'[x])
  <2>1. Marks(tx[u], tx[x]) /\ x \in Txns
    BY DEF EndedInv, Others
  <2> QED
    BY <1>2, <2>1 DEF Marks, Ending
<1> QED
  BY <1>1, <1>3, <1>4, EndedStep

LEMMA EndedIdle ==
  ASSUME SessionInv, EndedInv, NEW t \in Txns, tx' = [tx EXCEPT ![t] = Idle],
         UNCHANGED <<token, ended, late, password>>
  PROVE  EndedInv'
<1>1. ASSUME NEW u \in Txns PROVE tx'[u] = IF u = t THEN Idle ELSE tx[u]
  BY DEF SessionInv, TypeOK
<1>2. \A u \in Txns : EndingCall(tx'[u])
  BY <1>1, IdleEnding DEF EndedInv
<1>3. ASSUME NEW u \in Txns, NEW x \in Others(u) PROVE Marks(tx'[u], tx'[x])
  BY <1>1, IdleEnding DEF EndedInv, Others
<1> QED
  BY <1>2, <1>3, EndedStep

\* The arrival of a call marks the calls whose session it ends, and itself.
LEMMA EndedArrive ==
  ASSUME SessionInv, EndedInv, NEW t \in Txns, NEW r \in Call, Arrive(t, r), r.pc # "idle",
         ~Sweeping(r), r.op = "logout" => Family(r.fam) # {},
         \A o \in BOOLEAN : Sound([r EXCEPT !.over = o])
  PROVE  EndedInv'
<1> DEFINE b == \E x \in Others(t) : Ending(tx[x], r)
           n == served + 1
           a == [r EXCEPT !.n = n, !.over = b]
           M(u) == [tx[u] EXCEPT !.over = TRUE]
           hit(u) == Ending(r, tx[u]) /\ tx[u].pc # "idle"
<1>1. UNCHANGED <<token, ended, late, password>> /\ n \in Nat
  <2>1. UNCHANGED <<db, aborts>>
    BY Zenon DEF Arrive
  <2> QED
    BY <2>1 DEF SessionInv, TypeOK, db, account, history
<1>2. b \in BOOLEAN /\ (\A x \in Others(t) : Ending(tx[x], r) => b)
  OBVIOUS
<1>3. tx' = [u \in Txns |-> IF u = t THEN a ELSE IF hit(u) THEN M(u) ELSE tx[u]]
  BY DEF Arrive
<1> HIDE DEF b, n
<1>4. /\ a.pc = r.pc /\ a.op = r.op /\ a.fam = r.fam /\ a.over = b /\ a.k = r.k /\ a.pw = r.pw
  BY <1>1, <1>2 DEF Call
<1>5. EndingCall(a)
  <2>1. Sound(a)
    <3>1. Sound([r EXCEPT !.over = b])
      BY <1>2
    <3> QED
      BY <1>4, <3>1 DEF Sound, Issuing, Timely, Call
  <2> QED
    BY <1>4, <2>1 DEF EndingCall, Swept, Sweeping
<1>6. ASSUME NEW u \in Txns
      PROVE  /\ M(u).pc = tx[u].pc /\ M(u).op = tx[u].op /\ M(u).fam = tx[u].fam /\ M(u).over
             /\ EndingCall(tx[u]) /\ EndingCall(M(u))
  <2>1. M(u).pc = tx[u].pc /\ M(u).op = tx[u].op /\ M(u).fam = tx[u].fam /\ M(u).over
        /\ M(u).todo = tx[u].todo /\ M(u).rows = tx[u].rows
    BY CallType DEF Call
  <2>2. EndingCall(tx[u])
    BY DEF EndedInv
  <2> HIDE DEF M
  <2> QED
    BY <2>1, <2>2 DEF EndingCall, Sound, Issuing, Timely, Swept, Sweeping
<1> HIDE DEF a, M
<1>7. \A u \in Txns : EndingCall(tx'[u])
  BY <1>3, <1>5, <1>6
<1>8. ASSUME NEW u \in Txns, NEW x \in Others(u) PROVE Marks(tx'[u], tx'[x])
  <2>1. x \in Txns /\ x # u /\ Marks(tx[u], tx[x])
    BY DEF EndedInv, Others
  <2>2. tx'[u] = IF u = t THEN a ELSE IF hit(u) THEN M(u) ELSE tx[u]
    BY <1>3
  <2>3. tx'[x] = IF x = t THEN a ELSE IF hit(x) THEN M(x) ELSE tx[x]
    BY <1>3, <2>1
  <2>4. CASE u = t
    BY <1>4, <1>6, <2>1, <2>2, <2>3, <2>4 DEF Marks, Ending
  <2>5. CASE x = t
    <3>1. Ending(tx[u], r) => b
      BY <1>2, <2>1, <2>5 DEF Others
    <3> QED
      BY <1>4, <1>6, <2>1, <2>2, <2>3, <2>5, <3>1 DEF Marks, Ending
  <2>6. CASE u # t /\ x # t
    <3>1. tx'[u].pc = tx[u].pc /\ tx'[u].op = tx[u].op /\ tx'[u].fam = tx[u].fam
      BY <1>6, <2>2, <2>6
    <3>2. tx'[x].pc = tx[x].pc /\ tx'[x].op = tx[x].op /\ tx'[x].fam = tx[x].fam
          /\ (tx[x].over => tx'[x].over)
      BY <1>6, <2>1, <2>3, <2>6
    <3> QED
      BY <2>1, <3>1, <3>2 DEF Marks, Ending
  <2> QED
    BY <2>4, <2>5, <2>6
<1> QED
  BY <1>1, <1>7, <1>8, EndedStep

--------------------------------------------------------------------------------
LEMMA EndedInit == Init => EndedInv
<1> SUFFICES ASSUME Init PROVE EndedInv
  OBVIOUS
<1>1. \A t \in Txns : tx[t] = Idle
  BY DEF Init
<1>2. ended = {} /\ EndedStaysEnded
  BY DEF Init, EndedStaysEnded, Live, NoRow
<1> QED
  BY <1>1, <1>2, IdleEnding DEF EndedInv, Others

\* The family of a login that is starting has no token, so it was never ended.
LEMMA EndedLogin ==
  ASSUME SessionInv, EndedInv, NEW t \in Txns, NEW f \in Families, BeginLogin(t, f)
  PROVE  EndedInv'
<1> DEFINE r == [Idle EXCEPT !.op = "login", !.fam = f, !.pw = password, !.pc = "issue"]
<1>1. r \in Call /\ r.pc = "issue" /\ r.op = "login" /\ r.fam = f /\ r.pw = password
  BY IdleOK DEF SessionInv, TypeOK, Call, Idle
<1>2. Arrive(t, r) /\ f \notin ended
  BY Zenon DEF BeginLogin, EndedInv
<1> HIDE DEF r
<1>3. ASSUME NEW o \in BOOLEAN PROVE Sound([r EXCEPT !.over = o])
  BY <1>1, <1>2 DEF Sound, Call
<1> QED
  BY <1>1, <1>2, <1>3, EndedArrive DEF Sweeping

\* A refresh that presents a live token inherits its password.
LEMMA EndedRefresh ==
  ASSUME SessionInv, EndedInv, NEW t \in Txns, NEW k \in Tokens, BeginRefresh(t, k)
  PROVE  EndedInv'
<1> DEFINE p == IF Live(k) THEN "consume" ELSE "bulk"
           r == [Idle EXCEPT !.op = "refresh", !.k = k, !.fam = token[k].fam,
                             !.pw = token[k].pw, !.pc = p]
<1>1. Arrive(t, r) /\ k \in Issued
  BY DEF BeginRefresh
<1>2. token[k] \in Row /\ p \in {"consume", "bulk"} /\ (p = "consume" => Live(k))
  BY DEF SessionInv, TypeOK
<1> HIDE DEF p
<1>3. r \in Call /\ r.op = "refresh" /\ r.pc = p /\ r.k = k
      /\ r.fam = token[k].fam /\ r.pw = token[k].pw
  BY <1>2, IdleOK DEF Call, Idle, Row
<1> HIDE DEF r
<1>4. ASSUME NEW o \in BOOLEAN PROVE Sound([r EXCEPT !.over = o])
  <2>1. p = "consume" /\ k \notin late => token[k].fam \notin ended /\ token[k].pw = password
    BY <1>2 DEF EndedInv, EndedStaysEnded
  <2>2. [r EXCEPT !.over = o].pc = p /\ [r EXCEPT !.over = o].k = k /\ [r EXCEPT !.over = o].op = "refresh"
        /\ [r EXCEPT !.over = o].fam = token[k].fam /\ [r EXCEPT !.over = o].pw = token[k].pw
    BY <1>3 DEF Call
  <2> QED
    BY <1>2, <2>1, <2>2 DEF Sound, Issuing, Timely
<1> QED
  BY <1>1, <1>2, <1>3, <1>4, EndedArrive DEF Sweeping

LEMMA EndedLogout ==
  ASSUME SessionInv, EndedInv, NEW t \in Txns, NEW k \in Tokens, BeginLogout(t, k)
  PROVE  EndedInv'
<1> DEFINE r == [Idle EXCEPT !.op = "logout", !.k = k, !.fam = token[k].fam, !.pc = "bulk"]
<1>1. Arrive(t, r) /\ Live(k)
  BY DEF BeginLogout
<1>2. token[k] \in Row
  BY DEF SessionInv, TypeOK
<1>3. r \in Call /\ r.op = "logout" /\ r.pc = "bulk" /\ r.fam = token[k].fam
  BY <1>2, IdleOK DEF Call, Idle, Row
<1> HIDE DEF r
<1>4. k \in Family(r.fam)
  BY <1>1, <1>3 DEF Family, Issued, Live
<1>5. ASSUME NEW o \in BOOLEAN PROVE Sound([r EXCEPT !.over = o])
  BY <1>3 DEF Sound, Issuing, Call
<1> QED
  BY <1>1, <1>3, <1>4, <1>5, EndedArrive DEF Sweeping

LEMMA EndedRequest == ASSUME SessionInv, EndedInv, NEW t \in Txns, BeginRequest(t) PROVE EndedInv'
<1> DEFINE r == [Idle EXCEPT !.op = "request", !.pc = "update"]
<1>1. Arrive(t, r)
  BY DEF BeginRequest
<1>2. r \in Call /\ r.op = "request" /\ r.pc = "update"
  BY IdleOK DEF Call, Idle
<1> HIDE DEF r
<1>3. ASSUME NEW o \in BOOLEAN PROVE Sound([r EXCEPT !.over = o])
  BY <1>2 DEF Sound, Issuing, Call
<1> QED
  BY <1>1, <1>2, <1>3, EndedArrive DEF Sweeping

LEMMA EndedReset == ASSUME SessionInv, EndedInv, NEW t \in Txns, BeginReset(t) PROVE EndedInv'
<1> DEFINE r == [Idle EXCEPT !.op = "reset", !.pc = "identity"]
<1>1. Arrive(t, r)
  BY DEF BeginReset
<1>2. r \in Call /\ r.op = "reset" /\ r.pc = "identity"
  BY IdleOK DEF Call, Idle
<1> HIDE DEF r
<1>3. ASSUME NEW o \in BOOLEAN PROVE Sound([r EXCEPT !.over = o])
  BY <1>2 DEF Sound, Issuing, Call
<1> QED
  BY <1>1, <1>2, <1>3, EndedArrive DEF Sweeping

LEMMA EndedIssue ==
  ASSUME SessionInv, EndedInv, NEW t \in Txns, NEW k \in Tokens, Issue(t, k)
  PROVE  EndedInv'
<1> DEFINE r == [tx[t] EXCEPT !.new = {k}, !.pc = "commit"]
<1>1. Step(t, r) /\ tx[t].pc = "issue" /\ tx[t].op \in {"login", "refresh"}
  BY CallType DEF Issue, Flow
<1>2. r.pc = "commit" /\ r.op = tx[t].op /\ r.fam = tx[t].fam /\ r.k = tx[t].k
      /\ r.over = tx[t].over /\ r.pw = tx[t].pw
  BY CallType DEF Call
<1> HIDE DEF r
<1>3. EndingCall(r)
  BY <1>1, <1>2 DEF EndedInv, EndingCall, Sound, Issuing, Timely, Swept, Sweeping
<1> QED
  BY <1>1, <1>2, <1>3, EndedLocal

LEMMA EndedConsume == ASSUME SessionInv, EndedInv, NEW t \in Txns, Consume(t) PROVE EndedInv'
<1>1. tx[t].pc = "consume" /\ tx[t].op = "refresh" /\ EndingCall(tx[t])
  BY CallType DEF Consume, Flow, EndedInv
<1>2. CASE Matches(tx[t].k)
  <2> DEFINE r == [tx[t] EXCEPT !.rows = {tx[t].k}, !.pc = "issue"]
  <2>1. Step(t, r)
    BY <1>2 DEF Consume
  <2>2. r.pc = "issue" /\ r.op = tx[t].op /\ r.fam = tx[t].fam /\ r.k = tx[t].k
        /\ r.over = tx[t].over /\ r.pw = tx[t].pw
    BY CallType DEF Call
  <2> HIDE DEF r
  <2>3. EndingCall(r)
    BY <1>1, <2>2 DEF EndingCall, Sound, Issuing, Timely, Swept, Sweeping
  <2> QED
    BY <1>1, <2>1, <2>2, <2>3, EndedLocal
<1>3. CASE ~Matches(tx[t].k)
  <2> DEFINE r == [tx[t] EXCEPT !.pc = "bulk"]
  <2>1. Step(t, r)
    BY <1>3 DEF Consume
  <2>2. r.pc = "bulk" /\ r.op = tx[t].op /\ r.fam = tx[t].fam /\ r.over = tx[t].over
    BY CallType DEF Call
  <2> HIDE DEF r
  <2>3. EndingCall(r)
    BY <1>1, <2>2 DEF EndingCall, Sound, Issuing, Swept, Sweeping
  <2> QED
    BY <1>1, <2>1, <2>2, <2>3, EndedLocal
<1> QED
  BY <1>2, <1>3

\* The bulk update starts with every row in its scope.
LEMMA EndedStartBulk == ASSUME SessionInv, EndedInv, NEW t \in Txns, StartBulk(t) PROVE EndedInv'
<1> DEFINE s == Scope(t)
           r == [tx[t] EXCEPT !.todo = s, !.pc = "rows"]
<1>1. Step(t, r) /\ tx[t].pc = "bulk" /\ EndingCall(tx[t])
  BY DEF StartBulk, EndedInv
<1>2. \A k \in Issued : tx[t].op = "reset" \/ token[k].fam = tx[t].fam => k \in s
  BY DEF Scope, Family
<1> HIDE DEF s
<1>3. r.pc = "rows" /\ r.op = tx[t].op /\ r.fam = tx[t].fam /\ r.over = tx[t].over /\ r.todo = s
  BY CallType DEF Call
<1> HIDE DEF r
<1>4. EndingCall(r)
  BY <1>1, <1>2, <1>3 DEF EndingCall, Sound, Issuing, Swept, Sweeping
<1> QED
  BY <1>1, <1>3, <1>4, EndedLocal

LEMMA EndedRevokeRow ==
  ASSUME SessionInv, EndedInv, NEW t \in Txns, NEW k \in Tokens, RevokeRow(t, k)
  PROVE  EndedInv'
<1> DEFINE r == [tx[t] EXCEPT !.todo = @ \ {k}, !.rows = @ \cup {k}]
<1>1. Step(t, r) /\ tx[t].pc = "rows" /\ EndingCall(tx[t])
  BY DEF RevokeRow, EndedInv
<1>2. r.pc = "rows" /\ r.op = tx[t].op /\ r.fam = tx[t].fam /\ r.over = tx[t].over
      /\ r.todo = tx[t].todo \ {k} /\ r.rows = tx[t].rows \cup {k}
  BY <1>1, CallType DEF Call
<1> HIDE DEF r
<1>3. EndingCall(r)
  BY <1>1, <1>2 DEF EndingCall, Sound, Issuing, Swept, Sweeping
<1> QED
  BY <1>1, <1>2, <1>3, EndedLocal

LEMMA EndedEndBulk == ASSUME SessionInv, EndedInv, NEW t \in Txns, EndBulk(t) PROVE EndedInv'
<1> DEFINE r == [tx[t] EXCEPT !.pc = "commit"]
<1>1. Step(t, r) /\ tx[t].pc = "rows" /\ tx[t].todo = {} /\ tx[t].op \in {"logout", "reset"}
      /\ EndingCall(tx[t])
  BY CallType DEF EndBulk, Flow, EndedInv
<1>2. r.pc = "commit" /\ r.op = tx[t].op /\ r.fam = tx[t].fam /\ r.over = tx[t].over
      /\ r.todo = tx[t].todo /\ r.rows = tx[t].rows
  BY CallType DEF Call
<1> HIDE DEF r
<1>3. EndingCall(r)
  BY <1>1, <1>2 DEF EndingCall, Sound, Issuing, Swept, Sweeping
<1> QED
  BY <1>1, <1>2, <1>3, EndedLocal

LEMMA EndedCompare == ASSUME SessionInv, EndedInv, NEW t \in Txns, CompareIdentity(t) PROVE EndedInv'
<1> DEFINE c == resetHash # 0
           r == [tx[t] EXCEPT !.clear = c, !.pc = "update"]
<1>1. Step(t, r) /\ tx[t].pc = "identity" /\ EndingCall(tx[t])
  BY DEF CompareIdentity, EndedInv
<1> HIDE DEF c
<1>2. r.pc = "update" /\ r.op = tx[t].op /\ r.fam = tx[t].fam /\ r.over = tx[t].over
  BY CallType DEF Call
<1> HIDE DEF r
<1>3. EndingCall(r)
  BY <1>1, <1>2 DEF EndingCall, Sound, Issuing, Swept, Sweeping
<1> QED
  BY <1>1, <1>2, <1>3, EndedLocal

LEMMA EndedUpdate == ASSUME SessionInv, EndedInv, NEW t \in Txns, UpdateIdentity(t) PROVE EndedInv'
<1> DEFINE p == IF tx[t].op = "reset" THEN "bulk" ELSE "commit"
           r == [tx[t] EXCEPT !.mine = TRUE, !.pc = p]
<1>1. Step(t, r) /\ tx[t].pc = "update" /\ EndingCall(tx[t]) /\ tx[t].op \in {"request", "reset"}
  BY CallType DEF UpdateIdentity, Flow, EndedInv
<1>2. p \in {"bulk", "commit"} /\ (p = "bulk" <=> tx[t].op = "reset")
  OBVIOUS
<1> HIDE DEF p
<1>3. r.pc = p /\ r.op = tx[t].op /\ r.fam = tx[t].fam /\ r.over = tx[t].over
  BY CallType DEF Call
<1> HIDE DEF r
<1>4. EndingCall(r)
  BY <1>1, <1>2, <1>3 DEF EndingCall, Sound, Issuing, Swept, Sweeping
<1> QED
  BY <1>1, <1>2, <1>3, <1>4, EndedLocal

\* A token that a commit leaves live was live before, or goes back to the login
\* that the call goes back to; it is late if the call is.
LEMMA CommittedLive ==
  ASSUME SessionInv, NEW t \in Txns, Commit(t), NEW k \in Tokens, Live(k)'
  PROVE  /\ late \subseteq late' /\ ended \subseteq ended'
         /\ \/ /\ Live(k) /\ k \in Issued /\ k \notin tx[t].new \cup tx[t].rows
               /\ token'[k] = token[k]
            \/ /\ k \in tx[t].new /\ token'[k].fam = tx[t].fam /\ token'[k].pw = tx[t].pw
               /\ Issuing(tx[t]) /\ (~Timely(tx[t]) => k \in late')
<1>1. token' = Revoked(t) /\ tx[t].pc = "commit" /\ late' = IF Late(t) THEN late \cup tx[t].new ELSE late
  BY Zenon DEF Commit
<1>2. token'[k] = IF k \in tx[t].new THEN [state |-> "live", fam |-> tx[t].fam, pw |-> tx[t].pw]
                  ELSE IF k \in tx[t].rows THEN [token[k] EXCEPT !.state = "revoked"] ELSE token[k]
  BY <1>1 DEF Revoked
<1>3. CASE k \in tx[t].new
  BY <1>1, <1>2, <1>3, CallType, CommitTypes DEF Flow, Issuing, Timely, Late
<1>4. CASE k \notin tx[t].new
  <2>1. Live(k) /\ k \notin tx[t].rows
    BY <1>4, Committed
  <2> QED
    BY <1>1, <1>2, <1>4, <2>1, CommitTypes DEF Live, Issued
<1> QED
  BY <1>3, <1>4

\* What a commit ends.
LEMMA CommitEnds ==
  ASSUME SessionInv, NEW t \in Txns, Commit(t)
  PROVE  /\ tx[t].pc = "commit"
         /\ password' = password \/ tx[t].op = "reset"
         /\ \A f \in ended' : \/ f \in ended
                              \/ tx[t].op = "logout" /\ f = tx[t].fam
                              \/ tx[t].op = "reset" /\ Family(f) # {}
<1>1. /\ tx[t].pc = "commit" /\ password' = IF tx[t].op = "reset" THEN tx[t].n ELSE password
      /\ ended' = CASE tx[t].op = "logout" -> ended \cup {tx[t].fam}
                    [] tx[t].op = "reset"  -> ended \cup { token[k].fam : k \in Issued }
                    [] OTHER               -> ended
  BY DEF Commit
<1>2. \A f \in { token[k].fam : k \in Issued } : Family(f) # {}
  BY DEF Family
<1> QED
  BY <1>1, <1>2

LEMMA EndedCommits ==
  ASSUME SessionInv, EndedInv, NEW t \in Txns, Commit(t) PROVE EndedStaysEnded'
<1> SUFFICES ASSUME NEW k \in Tokens, Live(k)', k \notin late'
             PROVE  token'[k].fam \notin ended' /\ token'[k].pw = password'
  BY DEF EndedStaysEnded
<1>1. EndingCall(tx[t]) /\ tx[t].pc = "commit" /\ k \notin late
  BY CommitEnds, CommittedLive DEF EndedInv
<1>2. CASE k \in tx[t].new
  <2>1. /\ token'[k].fam = tx[t].fam /\ token'[k].pw = tx[t].pw /\ Issuing(tx[t]) /\ Timely(tx[t])
    BY <1>2, CommittedLive
  <2> QED
    BY <1>1, <2>1, CommitEnds DEF EndingCall, Sound, Issuing
<1>3. CASE k \notin tx[t].new
  <2>1. Live(k) /\ k \in Issued /\ k \notin tx[t].rows /\ token'[k] = token[k]
    BY <1>3, CommittedLive
  <2>2. token[k].fam \notin ended /\ token[k].pw = password
    BY <1>1, <2>1 DEF EndedInv, EndedStaysEnded
  <2>3. ~(tx[t].op = "reset") /\ ~(tx[t].op = "logout" /\ tx[t].fam = token[k].fam)
    BY <1>1, <2>1 DEF EndingCall, Swept, Sweeping
  <2> QED
    BY <2>1, <2>2, <2>3, CommitEnds
<1> QED
  BY <1>2, <1>3

\* The calls that go on while another commits: those that it ends are marked, and
\* what it issues while they sweep is late.
LEMMA EndedOthers ==
  ASSUME SessionInv, EndedInv, NEW t \in Txns, Commit(t), NEW u \in Others(t)
  PROVE  EndingCall(tx[u])'
<1> DEFINE s == tx[u]
<1>1. u \in Txns /\ u # t /\ tx'[u] = s /\ EndingCall(s) /\ Marks(tx[t], s) /\ Marks(s, tx[t])
  BY DEF SessionInv, TypeOK, Commit, EndedInv, Others
<1>2. s \in Call /\ Flow(s) /\ Grounded(s)
  BY <1>1, CallType
<1>3. late \subseteq late'
  BY DEF Commit
<1>4. ASSUME Issuing(s), ~s.over, s.op = "refresh" => s.k \notin late'
      PROVE  s.fam \notin ended' /\ s.pw = password'
  <2>1. s.fam \notin ended /\ s.pw = password /\ s.pc # "idle"
    BY <1>1, <1>3, <1>4 DEF EndingCall, Sound, Issuing, Timely
  <2>2. ~(tx[t].op = "reset") /\ ~(tx[t].op = "logout" /\ tx[t].fam = s.fam)
    BY <1>1, <1>4, <2>1, CommitEnds DEF Marks, Ending
  <2> QED
    BY <2>1, <2>2, CommitEnds
<1>5. ASSUME Sweeping(s), NEW k \in Issued', Live(k)', s.op = "reset" \/ token'[k].fam = s.fam
      PROVE  k \in late' \cup s.todo \cup s.rows
  <2>1. k \in Tokens
    BY DEF Issued
  <2>2. CASE k \in tx[t].new
    <3>1. token'[k].fam = tx[t].fam /\ (~Timely(tx[t]) => k \in late')
      BY <1>5, <2>1, <2>2, CommittedLive
    <3>2. Ending(s, tx[t]) /\ tx[t].pc # "idle"
      BY <1>5, <3>1, CommitEnds DEF Ending, Sweeping
    <3> QED
      BY <1>1, <3>1, <3>2 DEF Marks, Timely
  <2>3. CASE k \notin tx[t].new
    <3>1. Live(k) /\ k \in Issued /\ token'[k] = token[k]
      BY <1>5, <2>1, <2>3, CommittedLive
    <3> QED
      BY <1>1, <1>3, <1>5, <3>1 DEF EndingCall, Swept
  <2> QED
    BY <2>2, <2>3
<1>6. s.op = "logout" => Family(s.fam)' # {}
  <2> SUFFICES ASSUME s.op = "logout" PROVE Family(s.fam)' # {}
    OBVIOUS
  <2>1. PICK k \in Family(s.fam) : TRUE
    BY <1>1 DEF EndingCall
  <2>2. k \in Tokens /\ k \in Issued /\ token[k].fam = s.fam
    BY <2>1 DEF Family, Issued
  <2>3. k \in Issued' /\ token'[k].fam = s.fam
    BY <2>2, Committed
  <2> QED
    BY <1>1, <2>3 DEF Family
<1>7. Sound(tx[u])'
  BY <1>1, <1>4 DEF Sound, Issuing, Timely
<1>8. Swept(tx[u])'
  BY <1>1, <1>5 DEF EndingCall, Swept, Sweeping
<1> QED
  BY <1>1, <1>6, <1>7, <1>8 DEF EndingCall

LEMMA EndedCommit == ASSUME SessionInv, EndedInv, NEW t \in Txns, Commit(t) PROVE EndedInv'
<1>1. ASSUME NEW u \in Txns PROVE tx'[u] = IF u = t THEN Idle ELSE tx[u]
  BY DEF SessionInv, TypeOK, Commit
<1>2. ASSUME NEW f \in ended' PROVE Family(f)' # {}
  <2>1. Family(f) # {}
    BY CommitEnds DEF EndedInv, EndingCall
  <2>2. PICK k \in Family(f) : TRUE
    BY <2>1
  <2>3. k \in Tokens /\ k \in Issued' /\ token'[k].fam = f
    BY <2>2, Committed DEF Family, Issued
  <2> QED
    BY <2>3 DEF Family
<1>3. ASSUME NEW u \in Txns PROVE EndingCall(tx[u])'
  <2>1. CASE u = t
    BY <1>1, <2>1 DEF EndingCall, Sound, Issuing, Swept, Sweeping, Idle
  <2>2. CASE u # t
    BY <2>2, EndedOthers DEF Others
  <2> QED
    BY <2>1, <2>2
<1>4. ASSUME NEW u \in Txns, NEW x \in Others(u) PROVE Marks(tx[u], tx[x])'
  <2>1. Marks(tx'[u], tx'[x])
    BY <1>1, IdleEnding DEF EndedInv, Others
  <2> QED
    BY <2>1 DEF Marks, Ending
<1> QED
  BY <1>2, <1>3, <1>4, EndedCommits DEF EndedInv, Others

LEMMA NextEnded == ASSUME SessionInv, EndedInv, [Next]_vars PROVE EndedInv'
<1>1. CASE UNCHANGED <<token, ended, late, password, tx>>
  <2>1. \A t \in Txns : EndingCall(tx'[t]) /\ \A u \in Others(t) : Marks(tx'[t], tx'[u])
    BY <1>1 DEF EndedInv
  <2> QED
    BY <1>1, <2>1, EndedStep
<1>2. CASE UNCHANGED vars
  BY <1>1, <1>2 DEF vars, db, account, history
<1>3. ASSUME NEW t \in Txns, Begin(t) PROVE EndedInv'
  BY <1>3, EndedLogin, EndedRefresh, EndedLogout, EndedRequest, EndedReset DEF Begin
<1>4. ASSUME NEW t \in Txns, Run(t) PROVE EndedInv'
  <2>1. ASSUME NEW k \in Tokens, Issue(t, k) \/ RevokeRow(t, k) PROVE EndedInv'
    BY <2>1, EndedIssue, EndedRevokeRow
  <2>2. CASE ReuseDetected(t)
    <3>1. tx' = [tx EXCEPT ![t] = Idle] /\ UNCHANGED <<token, ended, late, password>>
      BY <2>2 DEF ReuseDetected, account
    <3> QED
      BY <3>1, EndedIdle
  <2>3. CASE Consume(t) \/ StartBulk(t) \/ EndBulk(t)
    BY <2>3, EndedConsume, EndedStartBulk, EndedEndBulk
  <2>4. CASE CompareIdentity(t) \/ UpdateIdentity(t) \/ Commit(t)
    BY <2>4, EndedCompare, EndedUpdate, EndedCommit
  <2> QED
    BY <1>4, <2>1, <2>2, <2>3, <2>4 DEF Run
<1>5. ASSUME NEW t \in Txns, Abort(t) PROVE EndedInv'
  <2>1. tx' = [tx EXCEPT ![t] = Idle] /\ UNCHANGED <<token, ended, late, password>>
    BY <1>5 DEF Abort, db, account, history
  <2> QED
    BY <2>1, EndedIdle
<1>6. ASSUME NEW k \in Tokens, Expire(k) PROVE EndedInv'
  BY <1>1, <1>6 DEF Expire, account, history
<1>7. CASE Lapse
  BY <1>1, <1>7 DEF Lapse, history
<1> QED
  BY <1>2, <1>3, <1>4, <1>5, <1>6, <1>7 DEF Next

(* A logout ends its session for good and a password reset every session: no   *)
(* rotation that was not under way together with it leaves a live token in     *)
(* the family, or one that goes back to the old password, whatever is lost or  *)
(* killed in between (logout, resetPassword, refresh).                         *)
THEOREM EndedForGood == Spec => []EndedStaysEnded
<1>1. EndedInv => EndedStaysEnded
  BY DEF EndedInv
<1> QED
  BY <1>1, InitSessions, NextSessions, EndedInit, NextEnded, PTL DEF Spec
================================================================================
