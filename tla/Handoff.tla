-------------------------------- MODULE Handoff --------------------------------
(***************************************************************************)
(* Sign-in with Google from a site's own host, through the one callback of *)
(* the platform: the signed state, the callback, the one-time code that it *)
(* sends back, and the exchange of that code for a token pair, which names *)
(* the session (GoogleOAuthController, OneTimeCodeService).                *)
(*                                                                         *)
(* A request awaits the tenant's row, or Google, or the accounts, between  *)
(* its steps; another request runs meanwhile in the same process.          *)
(***************************************************************************)
EXTENDS Integers, Sequences

CONSTANTS
  Tenants, Reqs,           \* tenants, one host each; requests that may be under way together
  NoTenant,                \* the context of a request before its tenant is known
  MaxRequests, MaxRestarts \* bounds: requests, and crashes of the process

Populations == {"customer", "merchant_admin"}
Sites       == [tenant : Tenants, population : Populations]

VARIABLES
  begun,    \* states that are signed: the sites where a sign-in has begun
  req,      \* requests under way
  cls,      \* the tenant in the context of each
  codes,    \* OneTimeCodeService.codes
  minted,   \* sessions: where each is valid,
  origin,   \* the site its sign-in has begun at (history),
  handed,   \* and the sites that got it, in order (history)
  requests, restarts

vars == <<begun, req, cls, codes, minted, origin, handed, requests, restarts>>

\* asked: the host and endpoint of an initiate or exchange; the state of a callback.
Request == [pc : {"idle", "resolve", "handle", "google", "account", "issue"},
            op : {"none", "initiate", "callback", "exchange"},
            asked : Sites, session : Nat]    \* the session, or the code that stands for it
Idle    == [pc |-> "idle", op |-> "none",
            asked |-> CHOOSE s \in Sites : TRUE, session |-> 0]

Init ==
  /\ begun = {} /\ codes = {} /\ minted = <<>> /\ origin = <<>> /\ handed = <<>>
  /\ req = [r \in Reqs |-> Idle] /\ cls = [r \in Reqs |-> NoTenant]
  /\ requests = 0 /\ restarts = 0

--------------------------------------------------------------------------------
\* The requests whose context a set of the tenant reaches: one each.
Context_Shared(r) == Reqs
Context(r) == {r}

Set(r, tenant) == cls' = [q \in Reqs |-> IF q \in Context(r) THEN tenant ELSE cls[q]]

Goto(r, pc) == req' = [req EXCEPT ![r].pc = pc]
End(r)      == req' = [req EXCEPT ![r] = Idle]

Arrive(r, pc, op, s, n) ==
  /\ req[r].pc = "idle" /\ requests < MaxRequests /\ requests' = requests + 1
  /\ req' = [req EXCEPT ![r] = [pc |-> pc, op |-> op, asked |-> s, session |-> n]]
  /\ UNCHANGED <<begun, codes, minted, origin, handed, restarts>>

ArriveAtHost(r) ==
  /\ \E s \in Sites : \/ Arrive(r, "resolve", "initiate", s, 0)
                      \/ \E n \in DOMAIN minted : Arrive(r, "resolve", "exchange", s, n)
  /\ UNCHANGED cls

\* The host names the tenant.
Resolve(r) ==
  /\ req[r].pc = "resolve" /\ Set(r, req[r].asked.tenant) /\ Goto(r, "handle")
  /\ UNCHANGED <<begun, codes, minted, origin, handed, requests, restarts>>

\* returnUrl is on the host that asks.
Initiate(r) ==
  /\ req[r].pc = "handle" /\ req[r].op = "initiate"
  /\ begun' = begun \cup {[req[r].asked EXCEPT !.tenant = cls[r]]} /\ End(r)
  /\ UNCHANGED <<cls, codes, minted, origin, handed, requests, restarts>>

\* No middleware before the callback: its tenant is that of the state.
BeginCallback(r) ==
  \E s \in begun : Arrive(r, "google", "callback", s, 0) /\ Set(r, s.tenant)

Identified(r) ==
  /\ req[r].pc = "google" /\ Goto(r, "account")
  /\ UNCHANGED <<begun, cls, codes, minted, origin, handed, requests, restarts>>

\* findOrCreateFromGoogle, in the tenant of the context.
SignIn(r) ==
  /\ req[r].pc = "account"
  /\ minted' = Append(minted, [req[r].asked EXCEPT !.tenant = cls[r]])
  /\ origin' = Append(origin, req[r].asked) /\ handed' = Append(handed, <<>>)
  /\ req' = [req EXCEPT ![r].pc = "issue", ![r].session = Len(minted) + 1]
  /\ UNCHANGED <<begun, cls, codes, requests, restarts>>

\* Google fails, or the account asks for a deliberate link, which mints nothing.
Refuse(r) ==
  /\ req[r].pc \in {"google", "account"} /\ End(r)
  /\ UNCHANGED <<begun, cls, codes, minted, origin, handed, requests, restarts>>

Code(n, s) == [session |-> n, site |-> s, expired |-> FALSE]

Issue(r) ==
  /\ req[r].pc = "issue"
  /\ codes' = codes \cup {Code(req[r].session, req[r].asked)} /\ End(r)
  /\ UNCHANGED <<begun, cls, minted, origin, handed, requests, restarts>>

Expire(c) ==
  /\ ~c.expired /\ codes' = (codes \ {c}) \cup {[c EXCEPT !.expired = TRUE]}
  /\ UNCHANGED <<begun, req, cls, minted, origin, handed, requests, restarts>>

\* A code is gone once it is read, whatever becomes of the exchange.
Redeemed(n) == { c \in codes : c.session # n }

Exchange(r) ==
  /\ req[r].pc = "handle" /\ req[r].op = "exchange"
  /\ LET n    == req[r].session
         site == [req[r].asked EXCEPT !.tenant = cls[r]]
     IN  /\ codes' = Redeemed(n)
         /\ handed' = IF \E c \in codes : c.session = n /\ ~c.expired /\ c.site = site
                      THEN [handed EXCEPT ![n] = Append(@, req[r].asked)] ELSE handed
  /\ End(r) /\ UNCHANGED <<begun, cls, minted, origin, requests, restarts>>

\* The codes are in memory: whoever has one signs in again.
Restart ==
  /\ restarts < MaxRestarts /\ restarts' = restarts + 1
  /\ codes' = {} /\ req' = [r \in Reqs |-> Idle] /\ cls' = [r \in Reqs |-> NoTenant]
  /\ UNCHANGED <<begun, minted, origin, handed, requests>>

Next ==
  \/ \E r \in Reqs : \/ ArriveAtHost(r) \/ Resolve(r) \/ Initiate(r) \/ BeginCallback(r)
                     \/ Identified(r) \/ SignIn(r) \/ Refuse(r) \/ Issue(r) \/ Exchange(r)
  \/ \E c \in codes : Expire(c)
  \/ Restart

Spec == Init /\ [][Next]_vars

--------------------------------------------------------------------------------
TypeOK ==
  /\ begun \in SUBSET Sites /\ req \in [Reqs -> Request] /\ cls \in [Reqs -> Tenants \cup {NoTenant}]
  /\ minted \in Seq(Sites) /\ origin \in Seq(Sites) /\ handed \in Seq(Seq(Sites))
  /\ codes \in SUBSET [session : DOMAIN minted, site : Sites, expired : BOOLEAN]
  /\ requests \in Nat /\ restarts \in Nat

(* A token pair leaves the platform at most once, whatever exchanges of its code *)
(* cross each other, and to the host and the frontend where that sign-in began;  *)
(* and it is a session of that tenant: the context of the callback is its own    *)
(* whatever request runs while it waits (callback, redeem, exchangeGoogleCode).  *)
HandedOver ==
  \A n \in DOMAIN minted : minted[n] = origin[n] /\ handed[n] \in {<<>>, <<origin[n]>>}
================================================================================
