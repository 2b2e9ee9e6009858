--------------------------- MODULE CustomerAccounts ---------------------------
(***************************************************************************)
(* The customers of a tenant and their identities, a password and a Google *)
(* account: registration, verification of the email, sign-in with Google   *)
(* and the deliberate link of a Google account (CustomersAuthService).     *)
(*                                                                         *)
(* Every SELECT and every write of a call is a step of its own, under READ *)
(* COMMITTED; what a call writes stays in tx[t] until it commits.          *)
(***************************************************************************)
EXTENDS Integers

CONSTANTS
  Txns,                \* database connections
  Emails, Subs,        \* emails, and the subjects of Google accounts
  MaxCalls, MaxAborts  \* bounds: calls, and transactions that fail

VARIABLES
  customer, \* emails of the customers; an email stands for its customer
  password, \* the password identity of each
  google,   \* the subject of the Google identity of each, if any
  lapsed,   \* whose verification token has expired
  linked,   \* history: links that a customer asked for,
  signed,   \* and sign-ins: the Google account, and the customer it got
  tx, calls, aborts

identities == <<customer, password, google, lapsed>>
history    == <<linked, signed>>
vars       == <<identities, history, tx, calls, aborts>>

Call == [pc : {"idle", "lookup", "prove", "customer", "password", "google", "verify", "commit"},
         op : {"none", "register", "verify", "google", "link"},
         email   : Emails,              \* the customer
         sub     : SUBSET Subs,         \* the Google account, if any, with the email
         vouched : BOOLEAN,             \* above, that Google has verified
         new     : SUBSET {"customer", "password", "google", "verify"}] \* what it wrote

Idle == [pc |-> "idle", op |-> "none", email |-> CHOOSE e \in Emails : TRUE, sub |-> {},
         vouched |-> FALSE, new |-> {}]

Init ==
  /\ customer = {} /\ lapsed = {} /\ linked = {} /\ signed = {}
  /\ password = [e \in Emails |-> "none"] /\ google = [e \in Emails |-> {}]
  /\ tx = [t \in Txns |-> Idle] /\ calls = 0 /\ aborts = 0

--------------------------------------------------------------------------------
Step(t, r) == tx' = [tx EXCEPT ![t] = r] /\ UNCHANGED <<identities, history, calls, aborts>>
Goto(t, pc) == Step(t, [tx[t] EXCEPT !.pc = pc])
Return(t) == Step(t, Idle)

Arrive(t, op, e, s, v, pc) ==
  /\ tx[t].pc = "idle" /\ calls < MaxCalls /\ calls' = calls + 1
  /\ tx' = [tx EXCEPT ![t] = [pc |-> pc, op |-> op, email |-> e, sub |-> s, vouched |-> v, new |-> {}]]
  /\ UNCHANGED <<identities, history, aborts>>

\* The customer who has the Google account, if any.
Owner(s) == { e \in customer : s \in google[e] }

\* Refused: 409 while the email is taken.
BeginRegister(t, e) == e \notin customer /\ Arrive(t, "register", e, {}, FALSE, "customer")

\* Refused: 404 without a token, or with one that expired.
BeginVerify(t, e) ==
  /\ password[e] = "unverified" /\ e \notin lapsed
  /\ Arrive(t, "verify", e, {}, FALSE, "verify")

\* findOrCreateFromGoogle: whoever has the Google account already is signed in,
\* whatever the email is now.
BeginGoogle(t, e, s, v) ==
  IF Owner(s) = {} THEN Arrive(t, "google", e, {s}, v, "lookup")
  ELSE \E o \in Owner(s) : Arrive(t, "google", o, {s}, v, "commit")

\* { linkRequired: true } ends the call as it is.
Lookup(t) ==
  /\ tx[t].pc = "lookup"
  /\ \/ tx[t].email \notin customer /\ Goto(t, "customer")
     \/ tx[t].email \in customer /\ tx[t].vouched /\ Goto(t, "prove")
     \/ tx[t].email \in customer /\ ~tx[t].vouched /\ Return(t)

\* The password identity of the customer, if there is one, has to be verified.
Proven_Always(e) == TRUE
Proven(e) == password[e] # "unverified"

Prove(t) ==
  /\ tx[t].pc = "prove"
  /\ IF Proven(tx[t].email) THEN Goto(t, "google") ELSE Return(t)

\* linkGoogleIdentity, refused if another customer has the account.
BeginLink(t, e, s) ==
  /\ e \in customer /\ Owner(s) \subseteq {e}
  /\ Arrive(t, "link", e, {s}, FALSE, "google")

--------------------------------------------------------------------------------
(* Writes. A row that another transaction may insert as well is waited for; *)
(* once it is there the unique constraint refuses the second.               *)

Others(t, what) == { tx[u] : u \in { v \in Txns \ {t} : what \in tx[v].new } }

EmailFree(t) == \A r \in Others(t, "customer") : r.email # tx[t].email

Wrote(t, what, pc) == Step(t, [tx[t] EXCEPT !.new = @ \cup {what}, !.pc = pc])

InsertCustomer(t) ==
  /\ tx[t].pc = "customer" /\ EmailFree(t)
  /\ IF tx[t].email \in customer THEN Return(t)
     ELSE Wrote(t, "customer", IF tx[t].op = "register" THEN "password" ELSE "google")

InsertPassword(t) == tx[t].pc = "password" /\ Wrote(t, "password", "commit")

SubjectFree(t)  == \A r \in Others(t, "google") : r.sub # tx[t].sub /\ r.email # tx[t].email
SubjectTaken_PerCustomer(e, sub) == google[e] # {}
SubjectTaken(e, sub) == google[e] # {} \/ \E s \in sub : Owner(s) # {}

InsertGoogle(t) ==
  /\ tx[t].pc = "google" /\ SubjectFree(t)
  /\ IF SubjectTaken(tx[t].email, tx[t].sub) THEN Return(t) ELSE Wrote(t, "google", "commit")

Verify(t) ==
  /\ tx[t].pc = "verify" /\ \A r \in Others(t, "verify") : r.email # tx[t].email
  /\ Wrote(t, "verify", "commit")

Commit(t) ==
  /\ tx[t].pc = "commit"
  /\ LET r == tx[t]
     IN  /\ customer' = IF "customer" \in r.new THEN customer \cup {r.email} ELSE customer
         /\ password' = CASE "password" \in r.new -> [password EXCEPT ![r.email] = "unverified"]
                          [] "verify" \in r.new   -> [password EXCEPT ![r.email] = "verified"]
                          [] OTHER                -> password
         /\ google' = IF "google" \in r.new THEN [google EXCEPT ![r.email] = r.sub] ELSE google
         /\ linked' = IF r.op = "link" THEN linked \cup (r.sub \X {r.email}) ELSE linked
         /\ signed' = IF r.op = "google" THEN signed \cup (r.sub \X {r.email}) ELSE signed
  /\ tx' = [tx EXCEPT ![t] = Idle]
  /\ UNCHANGED <<lapsed, calls, aborts>>

Abort(t) ==
  /\ tx[t].pc # "idle" /\ aborts < MaxAborts /\ aborts' = aborts + 1
  /\ tx' = [tx EXCEPT ![t] = Idle] /\ UNCHANGED <<identities, history, calls>>

Lapse(e) ==
  /\ password[e] = "unverified" /\ e \notin lapsed /\ lapsed' = lapsed \cup {e}
  /\ UNCHANGED <<customer, password, google, history, tx, calls, aborts>>

Begin(t) ==
  \E e \in Emails : \/ BeginRegister(t, e) \/ BeginVerify(t, e)
                    \/ \E s \in Subs : BeginLink(t, e, s) \/ \E v \in BOOLEAN : BeginGoogle(t, e, s, v)

Run(t) == \/ Lookup(t) \/ Prove(t) \/ InsertCustomer(t) \/ InsertPassword(t)
          \/ InsertGoogle(t) \/ Verify(t) \/ Commit(t)

Next ==
  \/ \E t \in Txns : Begin(t) \/ Run(t) \/ Abort(t)
  \/ \E e \in Emails : Lapse(e)

Spec == Init /\ [][Next]_vars

--------------------------------------------------------------------------------
TypeOK ==
  /\ customer \in SUBSET Emails /\ lapsed \in SUBSET Emails
  /\ password \in [Emails -> {"none", "unverified", "verified"}]
  /\ google \in [Emails -> SUBSET Subs]
  /\ linked \in SUBSET (Subs \X Emails) /\ signed \in SUBSET (Subs \X Emails)
  /\ tx \in [Txns -> Call] /\ calls \in Nat /\ aborts \in Nat

(* A Google account always signs in the same customer, although the email that  *)
(* Google tells may change and several callbacks may run at once, each before   *)
(* the identity that another creates is there (findOrCreateFromGoogle).         *)
SameCustomer == \A p, q \in signed : p[1] = q[1] => p[2] = q[2]

(* A customer with a password that nobody has verified shares the account with  *)
(* a Google account only if somebody who was logged in asked for that link: no  *)
(* order of registrations, verifications and callbacks links them by themselves *)
(* (the comment in findOrCreateFromGoogle).                                     *)
LinkedByOwner ==
  \A e \in Emails : password[e] = "unverified" => google[e] \X {e} \subseteq linked
================================================================================
