--------------------------- MODULE MerchantAccounts ---------------------------
(***************************************************************************)
(* The staff of a tenant: invites, the registration that redeems one, the  *)
(* verification of the email and sign-in with Google                       *)
(* (MerchantAdminsAuthService), and the script that creates an owner.      *)
(*                                                                         *)
(* Every SELECT and every write of a call is a step of its own, under READ *)
(* COMMITTED; what a call writes stays in tx[t] until it commits.          *)
(***************************************************************************)
EXTENDS Integers, SequencesExt

CONSTANTS
  Txns,                \* database connections
  Emails, Subs,        \* emails, and the subjects of Google accounts
  Nobody,              \* no email, role or Google account
  Invites,             \* numbers of the invites, in the order they are issued
  MaxCalls, MaxAborts  \* bounds: calls other than invites, and transactions that fail

\* ROLE_HIERARCHY
Hierarchy == <<"owner", "admin", "staff", "viewer">>
Roles     == ToSet(Hierarchy)
Rank      == [r \in Roles |-> CHOOSE n \in DOMAIN Hierarchy : Hierarchy[n] = r]

VARIABLES
  invite,   \* merchant_user_invites
  stale,    \* invites that have expired
  role,     \* merchant_users: an email stands for its user
  password, \* the password identity of each
  google,   \* the subject of the Google identity of each
  founders, \* history: owners that the script created,
  redeemed, \* and the invite with which each of the others registered
  tx, calls, aborts

users   == <<role, password, google>>
history == <<founders, redeemed>>
vars    == <<invite, stale, users, history, tx, calls, aborts>>

Invite   == [state : {"none", "open", "used"}, email : Emails \cup {Nobody},
             role : Roles \cup {Nobody}, by : Emails \cup {Nobody}]
NoInvite == [state |-> "none", email |-> Nobody, role |-> Nobody, by |-> Nobody]

Call == [pc : {"idle", "claim", "lookup", "prove", "user", "password", "google", "verify", "commit"},
         op : {"none", "owner", "register", "verify", "google"},
         email : Emails \cup {Nobody}, role : Roles \cup {Nobody}, sub : Subs \cup {Nobody},
         vouched : BOOLEAN,             \* Google, or the script, vouches for the email
         used : SUBSET Invites,         \* the invite to redeem
         new : SUBSET {"invite", "user", "password", "google", "verify"}]  \* what it wrote
Idle == [pc |-> "idle", op |-> "none", email |-> Nobody, role |-> Nobody, sub |-> Nobody,
         vouched |-> FALSE, used |-> {}, new |-> {}]

Init ==
  /\ invite = [i \in Invites |-> NoInvite] /\ stale = {} /\ founders = {}
  /\ role = [e \in Emails |-> Nobody] /\ google = [e \in Emails |-> Nobody]
  /\ password = [e \in Emails |-> "none"] /\ redeemed = [e \in Emails |-> {}]
  /\ tx = [t \in Txns |-> Idle] /\ calls = 0 /\ aborts = 0

--------------------------------------------------------------------------------
User(e) == role[e] # Nobody
Step(t, r) == tx' = [tx EXCEPT ![t] = r] /\ UNCHANGED <<invite, stale, users, history, calls, aborts>>
Goto(t, pc) == Step(t, [tx[t] EXCEPT !.pc = pc])
Return(t) == Step(t, Idle)

Arrive(t, r) ==
  /\ tx[t].pc = "idle" /\ calls < MaxCalls /\ calls' = calls + 1
  /\ tx' = [tx EXCEPT ![t] = r]
  /\ UNCHANGED <<invite, stale, users, history, aborts>>

Owner(s) == { e \in Emails : google[e] = s }

Outranks(r, by) == Rank[r] < Rank[by]

\* One INSERT: an owner or admin invites an email under a role.
InviteMember(by, e, r) ==
  /\ User(by) /\ role[by] \in {"owner", "admin"} /\ ~Outranks(r, role[by])
  /\ \E i \in Invites :
       /\ invite[i].state = "none" /\ \A j \in Invites : j < i => invite[j].state # "none"
       /\ invite' = [invite EXCEPT ![i] = [state |-> "open", email |-> e, role |-> r, by |-> by]]
  /\ UNCHANGED <<stale, users, history, tx, calls, aborts>>

CreateOwner(t, e, v) ==
  /\ ~User(e)
  /\ Arrive(t, [Idle EXCEPT !.op = "owner", !.email = e, !.role = "owner", !.vouched = v, !.pc = "user"])

\* Email and role come from the invite.
Granted_Asked(i) == "owner"
Granted(i) == invite[i].role

BeginRegister(t, i) ==
  /\ invite[i].state = "open" /\ i \notin stale
  /\ Arrive(t, [Idle EXCEPT !.op = "register", !.email = invite[i].email, !.role = Granted(i),
                            !.used = {i}, !.pc = "claim"])

BeginVerify(t, e) ==
  /\ password[e] = "unverified"
  /\ Arrive(t, [Idle EXCEPT !.op = "verify", !.email = e, !.pc = "verify"])

BeginGoogle(t, e, s, v) ==
  /\ Owner(s) = {}
  /\ Arrive(t, [Idle EXCEPT !.op = "google", !.email = e, !.sub = s, !.vouched = v, !.pc = "lookup"])

--------------------------------------------------------------------------------
Others(t, what) == { tx[u] : u \in { v \in Txns \ {t} : what \in tx[v].new } }
Wrote(t, what, pc) == Step(t, [tx[t] EXCEPT !.new = @ \cup {what}, !.pc = pc])

\* UPDATE ... WHERE used_at IS NULL waits for the row and matches it or not.
Claim(t) ==
  /\ tx[t].pc = "claim" /\ \A r \in Others(t, "invite") : r.used # tx[t].used
  /\ IF \A i \in tx[t].used : invite[i].state = "open" THEN Wrote(t, "invite", "lookup") ELSE Return(t)

\* A registration for a taken email fails, with all that it wrote; a sign-in
\* needs a user.
Lookup(t) ==
  /\ tx[t].pc = "lookup"
  /\ \/ tx[t].op = "register" /\ ~User(tx[t].email) /\ Goto(t, "user")
     \/ tx[t].op = "google" /\ User(tx[t].email) /\ Goto(t, "prove")
     \/ User(tx[t].email) # (tx[t].op = "google") /\ Return(t)

\* Both Google and a verified password have to vouch for the email.
Prove(t) ==
  /\ tx[t].pc = "prove"
  /\ IF tx[t].vouched /\ password[tx[t].email] = "verified" THEN Goto(t, "google") ELSE Return(t)

InsertUser(t) ==
  /\ tx[t].pc = "user" /\ \A r \in Others(t, "user") : r.email # tx[t].email
  /\ IF User(tx[t].email) THEN Return(t) ELSE Wrote(t, "user", "password")

InsertPassword(t) == tx[t].pc = "password" /\ Wrote(t, "password", "commit")

InsertGoogle(t) ==
  /\ tx[t].pc = "google"
  /\ \A r \in Others(t, "google") : r.sub # tx[t].sub /\ r.email # tx[t].email
  /\ IF Owner(tx[t].sub) # {} \/ google[tx[t].email] # Nobody THEN Return(t)
     ELSE Wrote(t, "google", "commit")

Verify(t) ==
  /\ tx[t].pc = "verify" /\ \A r \in Others(t, "verify") : r.email # tx[t].email
  /\ Wrote(t, "verify", "commit")

Commit(t) ==
  /\ tx[t].pc = "commit"
  /\ LET r == tx[t]
     IN  /\ invite' = [i \in Invites |-> IF i \in r.used THEN [invite[i] EXCEPT !.state = "used"] ELSE invite[i]]
         /\ role' = IF "user" \in r.new THEN [role EXCEPT ![r.email] = r.role] ELSE role
         /\ password' = CASE "password" \in r.new -> [password EXCEPT ![r.email] =
                                                        IF r.vouched THEN "verified" ELSE "unverified"]
                          [] "verify" \in r.new   -> [password EXCEPT ![r.email] = "verified"]
                          [] OTHER                -> password
         /\ google' = IF "google" \in r.new THEN [google EXCEPT ![r.email] = r.sub] ELSE google
         /\ founders' = IF r.op = "owner" THEN founders \cup {r.email} ELSE founders
         /\ redeemed' = IF r.op = "register" THEN [redeemed EXCEPT ![r.email] = @ \cup r.used] ELSE redeemed
  /\ tx' = [tx EXCEPT ![t] = Idle] /\ UNCHANGED <<stale, calls, aborts>>

Abort(t) ==
  /\ tx[t].pc # "idle" /\ aborts < MaxAborts /\ aborts' = aborts + 1
  /\ tx' = [tx EXCEPT ![t] = Idle] /\ UNCHANGED <<invite, stale, users, history, calls>>

Expire(i) ==
  /\ invite[i].state = "open" /\ i \notin stale /\ stale' = stale \cup {i}
  /\ UNCHANGED <<invite, users, history, tx, calls, aborts>>

Begin(t) ==
  \/ \E e \in Emails : \/ BeginVerify(t, e) \/ \E v \in BOOLEAN : CreateOwner(t, e, v)
                       \/ \E s \in Subs, v \in BOOLEAN : BeginGoogle(t, e, s, v)
  \/ \E i \in Invites : BeginRegister(t, i)

Run(t) == \/ Claim(t) \/ Lookup(t) \/ Prove(t) \/ InsertUser(t) \/ InsertPassword(t)
          \/ InsertGoogle(t) \/ Verify(t) \/ Commit(t)

Next ==
  \/ \E t \in Txns : Begin(t) \/ Run(t) \/ Abort(t)
  \/ \E by, e \in Emails, r \in Roles : InviteMember(by, e, r)
  \/ \E i \in Invites : Expire(i)

Spec == Init /\ [][Next]_vars

--------------------------------------------------------------------------------
TypeOK ==
  /\ invite \in [Invites -> Invite] /\ stale \in SUBSET Invites
  /\ role \in [Emails -> Roles \cup {Nobody}] /\ google \in [Emails -> Subs \cup {Nobody}]
  /\ password \in [Emails -> {"none", "unverified", "verified"}]
  /\ founders \in SUBSET Emails /\ redeemed \in [Emails -> SUBSET Invites]
  /\ tx \in [Txns -> Call] /\ calls \in Nat /\ aborts \in Nat

(* Nobody on the staff was let in otherwise than by one invite: every user but  *)
(* those of the script has redeemed exactly one, for that email and role, which *)
(* somebody of no lower role issued; and an invite is used up only by the       *)
(* registration that succeeded with it (inviteMember, register). A Google       *)
(* account gets in only where the email was verified (findOrCreateFromGoogle).  *)
LetIn ==
  /\ \A e \in Emails : User(e) /\ e \notin founders =>
       \E i \in Invites : /\ redeemed[e] = {i} /\ invite[i].email = e /\ invite[i].role = role[e]
                          /\ Rank[role[e]] >= Rank[role[invite[i].by]]
  /\ \A i \in Invites : invite[i].state = "used" => \E e \in Emails : redeemed[e] = {i}
  /\ \A e \in Emails : google[e] # Nobody => password[e] = "verified"
================================================================================
