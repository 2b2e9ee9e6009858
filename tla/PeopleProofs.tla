------------------------------ MODULE PeopleProofs ------------------------------
(***************************************************************************)
(* Proofs about the components that MCPeople brings together: sign-in      *)
(* through Google (Handoff), the identities of customers and of the staff  *)
(* (CustomerAccounts, MerchantAccounts), the row of a user (Profiles) and  *)
(* an address book (Addresses). What the run PeopleRace checks for two     *)
(* calls at a time is proved here for any number of them.                  *)
(*                                                                         *)
(* For each component: what a call under way knows of the tables, as a     *)
(* predicate on its record; the invariant, which joins that to the         *)
(* property; a lemma for each action; and the theorem. A call rests on     *)
(* what it has read only where nothing can change it, so most of a proof   *)
(* is about the step Commit, the only one that changes the tables.         *)
(***************************************************************************)
EXTENDS MCPeople, SequenceTheorems, TLAPS

--------------------------------------------------------------------------------
(* Sign-in through Google.                                                 *)

\* The session n is new, was minted for the site s, and nobody has it yet.
Held(n, s) == n \in 1..Len(minted) /\ s = origin[n] /\ handed[n] = <<>>

Ledgers == Len(origin) = Len(minted) /\ Len(handed) = Len(minted)

\* What requests and codes know of the sessions: a request works in the context
\* of the site it was made for, and a session that is not yet handed over is in
\* one place at most, a request that issues its code or that code.
Known ==
  /\ \A r \in Txns :
       /\ req[r].pc \notin {"idle", "resolve"} => cls[r] = req[r].asked.tenant
       /\ req[r].op = "exchange" => req[r].session \in 1..Len(minted)
  /\ \A c \in codes : Held(c.session, c.site)
  /\ \A r \in Txns : req[r].pc = "issue" =>
       /\ Held(req[r].session, req[r].asked)
       /\ \A c \in codes : c.session # req[r].session
       /\ \A q \in Txns : req[q].pc = "issue" /\ q # r => req[q].session # req[r].session

HandoffInv == HO!TypeOK /\ Ledgers /\ HandedOver /\ Known

LEMMA Singleton ==
  ASSUME NEW S, NEW x \in S
  PROVE  <<x>> \in Seq(S) /\ Append(<<>>, x) = <<x>>
OBVIOUS

LEMMA SiteOfContext ==
  ASSUME NEW s \in HO!Sites
  PROVE  [s EXCEPT !.tenant = s.tenant] = s
BY DEF HO!Sites

LEMMA IdleRequest == HO!Idle \in HO!Request /\ HO!Idle.pc = "idle" /\ HO!Idle.op = "none"
<1>1. PICK e \in Tenants : TRUE
  BY SignInAssumption
<1>2. [tenant |-> e, population |-> "customer"] \in HO!Sites
  BY DEF HO!Sites, HO!Populations
<1> QED
  BY <1>2 DEF HO!Idle, HO!Request

LEMMA HandoffTypes ==
  ASSUME HandoffInv
  PROVE  /\ \A r \in Txns : req[r] \in HO!Request /\ req[r].asked \in HO!Sites
         /\ minted \in Seq(HO!Sites) /\ origin \in Seq(HO!Sites) /\ handed \in Seq(Seq(HO!Sites))
         /\ Len(minted) \in Nat /\ Len(origin) = Len(minted) /\ Len(handed) = Len(minted)
BY DEF HandoffInv, HO!TypeOK, HO!Request, Ledgers

\* A step of one request that mints, hands over and issues nothing.
LEMMA RequestStep ==
  ASSUME HandoffInv, NEW r \in Txns, NEW q \in HO!Request, q.pc # "issue",
         req' = [req EXCEPT ![r] = q], UNCHANGED <<codes, minted, origin, handed>>,
         q.op = "exchange" => q.session \in 1..Len(minted),
         cls' \in [Txns -> Tenants \cup {NoTenant}], \A u \in Txns \ {r} : cls'[u] = cls[u],
         q.pc \notin {"idle", "resolve"} => cls'[r] = q.asked.tenant,
         begun' \in SUBSET HO!Sites, requests' \in Nat, restarts' \in Nat
  PROVE  HandoffInv'
<1>1. \A u \in Txns : req'[u] = IF u = r THEN q ELSE req[u]
  BY DEF HandoffInv, HO!TypeOK
<1>2. HO!TypeOK'
  BY DEF HandoffInv, HO!TypeOK
<1>3. Ledgers' /\ HandedOver'
  BY DEF HandoffInv, Ledgers, HandedOver, HO!HandedOver
<1>4. Known'
  BY <1>1 DEF HandoffInv, Known, Held
<1> QED
  BY <1>2, <1>3, <1>4 DEF HandoffInv

LEMMA ArriveAtHostKeeps == ASSUME HandoffInv, NEW r \in Txns, HO!ArriveAtHost(r) PROVE HandoffInv'
<1>1. PICK s \in HO!Sites, op \in {"initiate", "exchange"}, n \in Nat :
        HO!Arrive(r, "resolve", op, s, n) /\ (op = "exchange" => n \in 1..Len(minted))
  BY HandoffTypes DEF HO!ArriveAtHost
<1> DEFINE q == [pc |-> "resolve", op |-> op, asked |-> s, session |-> n]
<1>2. q \in HO!Request /\ q.pc = "resolve" /\ q.op = op /\ q.session = n
  BY DEF HO!Request
<1>3. req' = [req EXCEPT ![r] = q] /\ requests' = requests + 1
      /\ UNCHANGED <<begun, cls, codes, minted, origin, handed, restarts>>
  BY <1>1 DEF HO!Arrive, HO!ArriveAtHost
<1> HIDE DEF q
<1>4. begun' \in SUBSET HO!Sites /\ requests' \in Nat /\ restarts' \in Nat
      /\ cls' \in [Txns -> Tenants \cup {NoTenant}]
  BY <1>3 DEF HandoffInv, HO!TypeOK
<1> QED
  BY <1>1, <1>2, <1>3, <1>4, RequestStep

LEMMA BeginCallbackKeeps == ASSUME HandoffInv, NEW r \in Txns, HO!BeginCallback(r) PROVE HandoffInv'
<1>1. PICK s \in begun : HO!Arrive(r, "google", "callback", s, 0) /\ HO!Set(r, s.tenant)
  BY DEF HO!BeginCallback
<1> DEFINE q == [pc |-> "google", op |-> "callback", asked |-> s, session |-> 0]
<1>2. s \in HO!Sites /\ s.tenant \in Tenants
  BY DEF HandoffInv, HO!TypeOK, HO!Sites
<1>3. q \in HO!Request /\ q.pc = "google" /\ q.op = "callback" /\ q.asked = s
  BY <1>2 DEF HO!Request
<1>4. req' = [req EXCEPT ![r] = q] /\ requests' = requests + 1
      /\ UNCHANGED <<begun, codes, minted, origin, handed, restarts>>
      /\ cls' = [u \in Txns |-> IF u = r THEN s.tenant ELSE cls[u]]
  BY <1>1 DEF HO!Arrive, HO!Set, HO!Context
<1> HIDE DEF q
<1>5. begun' \in SUBSET HO!Sites /\ requests' \in Nat /\ restarts' \in Nat
      /\ cls' \in [Txns -> Tenants \cup {NoTenant}]
  BY <1>2, <1>4 DEF HandoffInv, HO!TypeOK
<1> QED
  BY <1>2, <1>3, <1>4, <1>5, RequestStep

LEMMA ResolveKeeps == ASSUME HandoffInv, NEW r \in Txns, HO!Resolve(r) PROVE HandoffInv'
<1> DEFINE q == [req[r] EXCEPT !.pc = "handle"]
<1>1. req[r] \in HO!Request /\ req[r].asked.tenant \in Tenants
  BY HandoffTypes DEF HO!Sites
<1>2. q \in HO!Request /\ q.pc = "handle" /\ q.op = req[r].op /\ q.asked = req[r].asked
      /\ q.session = req[r].session
  BY <1>1 DEF HO!Request
<1>3. /\ req' = [req EXCEPT ![r] = q] /\ UNCHANGED <<begun, codes, minted, origin, handed, requests, restarts>>
      /\ cls' = [u \in Txns |-> IF u = r THEN req[r].asked.tenant ELSE cls[u]]
  BY DEF HO!Resolve, HO!Goto, HO!Set, HO!Context
<1> HIDE DEF q
<1> QED
  BY <1>1, <1>2, <1>3, RequestStep DEF HandoffInv, HO!TypeOK, Known

LEMMA IdentifiedKeeps == ASSUME HandoffInv, NEW r \in Txns, HO!Identified(r) PROVE HandoffInv'
<1> DEFINE q == [req[r] EXCEPT !.pc = "account"]
<1>1. req[r] \in HO!Request /\ req[r].pc = "google"
  BY HandoffTypes DEF HO!Identified
<1>2. q \in HO!Request /\ q.pc = "account" /\ q.op = req[r].op /\ q.asked = req[r].asked
      /\ q.session = req[r].session
  BY <1>1 DEF HO!Request
<1>3. req' = [req EXCEPT ![r] = q] /\ UNCHANGED <<begun, cls, codes, minted, origin, handed, requests, restarts>>
  BY DEF HO!Identified, HO!Goto
<1> HIDE DEF q
<1> QED
  BY <1>1, <1>2, <1>3, RequestStep DEF HandoffInv, HO!TypeOK, Known

LEMMA InitiateKeeps == ASSUME HandoffInv, NEW r \in Txns, HO!Initiate(r) PROVE HandoffInv'
<1>1. [req[r].asked EXCEPT !.tenant = cls[r]] \in HO!Sites
  BY ZenonT(30), HandoffTypes, SiteOfContext DEF HO!Initiate, HandoffInv, Known
<1>2. begun' \in SUBSET HO!Sites /\ req' = [req EXCEPT ![r] = HO!Idle]
      /\ UNCHANGED <<cls, codes, minted, origin, handed, requests, restarts>>
  BY <1>1 DEF HO!Initiate, HO!End, HandoffInv, HO!TypeOK
<1> QED
  BY <1>2, IdleRequest, RequestStep DEF HandoffInv, HO!TypeOK

LEMMA RefuseKeeps == ASSUME HandoffInv, NEW r \in Txns, HO!Refuse(r) PROVE HandoffInv'
<1>1. req' = [req EXCEPT ![r] = HO!Idle]
      /\ UNCHANGED <<begun, cls, codes, minted, origin, handed, requests, restarts>>
  BY DEF HO!Refuse, HO!End
<1> QED
  BY <1>1, IdleRequest, RequestStep DEF HandoffInv, HO!TypeOK

\* The session is new: nobody else holds it, and nobody was given it.
LEMMA SignInKeeps == ASSUME HandoffInv, NEW r \in Txns, HO!SignIn(r) PROVE HandoffInv'
<1> PICK s \in HO!Sites, n \in Nat : s = req[r].asked /\ n = Len(minted) + 1
  BY HandoffTypes
<1> DEFINE q == [req[r] EXCEPT !.pc = "issue", !.session = n]
<1>1. req[r] \in HO!Request /\ [s EXCEPT !.tenant = cls[r]] = s /\ cls[r] = s.tenant
  BY HandoffTypes, SiteOfContext DEF HO!SignIn, HandoffInv, Known
<1>2. /\ minted' = Append(minted, s) /\ origin' = Append(origin, s) /\ handed' = Append(handed, <<>>)
      /\ req' = [req EXCEPT ![r] = q] /\ UNCHANGED <<begun, cls, codes, requests, restarts>>
      /\ req[r].pc = "account"
  BY <1>1 DEF HO!SignIn
<1>3. q \in HO!Request /\ q.pc = "issue" /\ q.session = n /\ q.asked = s /\ q.op = req[r].op
  BY <1>1, HandoffTypes DEF HO!Request
<1> HIDE DEF q
<1>4. /\ Len(minted') = n /\ Len(origin') = n /\ Len(handed') = n
      /\ minted' \in Seq(HO!Sites) /\ origin' \in Seq(HO!Sites) /\ handed' \in Seq(Seq(HO!Sites))
      /\ minted'[n] = s /\ origin'[n] = s /\ handed'[n] = <<>>
      /\ \A k \in 1..Len(minted) :
           minted'[k] = minted[k] /\ origin'[k] = origin[k] /\ handed'[k] = handed[k]
  BY <1>1, <1>2, HandoffTypes, EmptySeq
<1>5. \A u \in Txns : req'[u] = IF u = r THEN q ELSE req[u]
  BY <1>2 DEF HandoffInv, HO!TypeOK
<1>6. \A k \in 1..n : k = n \/ k \in 1..Len(minted)
  BY HandoffTypes
<1>7. HO!TypeOK'
  <2>1. DOMAIN minted = 1..Len(minted) /\ DOMAIN minted' = 1..n /\ 1..Len(minted) \subseteq 1..n
    BY <1>4, HandoffTypes
  <2> QED
    BY <1>2, <1>3, <1>4, <2>1 DEF HandoffInv, HO!TypeOK
<1>8. Ledgers' /\ HandedOver'
  <2>1. DOMAIN minted = 1..Len(minted) /\ DOMAIN minted' = 1..n
    BY <1>4, HandoffTypes
  <2>2. \A k \in 1..n : minted'[k] = origin'[k] /\ handed'[k] \in {<<>>, <<origin'[k]>>}
    BY <1>4, <1>6, <2>1 DEF HandoffInv, HandedOver, HO!HandedOver
  <2> QED
    BY <1>4, <2>1, <2>2 DEF Ledgers, HandedOver, HO!HandedOver
<1>9. Known'
  <2>1. ASSUME NEW k, NEW o, Held(k, o) PROVE Held(k, o)' /\ k # n
    <3>1. k \in 1..Len(minted) /\ k # n /\ k \in 1..n
      BY HandoffTypes, <2>1 DEF Held
    <3> QED
      BY <1>4, <2>1, <3>1 DEF Held
  <2>2. Held(n, s)'
    BY <1>4, HandoffTypes DEF Held
  <2>3. \A k \in 1..Len(minted) : k \in 1..Len(minted')
    BY <1>4, HandoffTypes
  <2>4. cls'[r] = s.tenant /\ (q.op = "exchange" => q.session \in 1..Len(minted'))
    BY <1>1, <1>2, <1>3, <1>4, HandoffTypes DEF HandoffInv, Known
  <2> QED
    BY <1>2, <1>3, <1>5, <2>1, <2>2, <2>3, <2>4 DEF HandoffInv, Known
<1> QED
  BY <1>7, <1>8, <1>9 DEF HandoffInv

LEMMA IssueKeeps == ASSUME HandoffInv, NEW r \in Txns, HO!Issue(r) PROVE HandoffInv'
<1> DEFINE c == HO!Code(req[r].session, req[r].asked)
<1>1. /\ codes' = codes \cup {c} /\ req' = [req EXCEPT ![r] = HO!Idle] /\ req[r].pc = "issue"
      /\ UNCHANGED <<begun, cls, minted, origin, handed, requests, restarts>>
  BY DEF HO!Issue, HO!End
<1>2. /\ Held(req[r].session, req[r].asked) /\ req[r].asked \in HO!Sites
      /\ c.session = req[r].session /\ c.site = req[r].asked
  BY <1>1, HandoffTypes DEF HO!Code, HandoffInv, Known
<1>3. c \in [session : DOMAIN minted, site : HO!Sites, expired : BOOLEAN]
  BY <1>2, HandoffTypes DEF HO!Code, Held
<1> HIDE DEF c
<1>4. \A u \in Txns : req'[u] = IF u = r THEN HO!Idle ELSE req[u]
  BY <1>1 DEF HandoffInv, HO!TypeOK
<1>5. HO!TypeOK'
  BY <1>1, <1>3, IdleRequest DEF HandoffInv, HO!TypeOK
<1>6. Ledgers' /\ HandedOver'
  BY <1>1 DEF HandoffInv, Ledgers, HandedOver, HO!HandedOver
<1>7. Known'
  BY <1>1, <1>2, <1>4, IdleRequest DEF HandoffInv, Known, Held
<1> QED
  BY <1>5, <1>6, <1>7 DEF HandoffInv

LEMMA ExpireKeeps == ASSUME HandoffInv, NEW c \in codes, HO!Expire(c) PROVE HandoffInv'
<1> DEFINE d == [c EXCEPT !.expired = TRUE]
<1>1. c \in [session : DOMAIN minted, site : HO!Sites, expired : BOOLEAN]
  BY DEF HandoffInv, HO!TypeOK
<1>2. d.session = c.session /\ d.site = c.site
      /\ d \in [session : DOMAIN minted, site : HO!Sites, expired : BOOLEAN]
  BY <1>1
<1>3. /\ codes' = (codes \ {c}) \cup {d}
      /\ UNCHANGED <<begun, req, cls, minted, origin, handed, requests, restarts>>
  BY DEF HO!Expire
<1> HIDE DEF d
<1>4. HO!TypeOK'
  BY <1>2, <1>3 DEF HandoffInv, HO!TypeOK
<1>5. Ledgers' /\ HandedOver'
  BY <1>3 DEF HandoffInv, Ledgers, HandedOver, HO!HandedOver
<1>6. Known'
  BY <1>2, <1>3 DEF HandoffInv, Known, Held
<1> QED
  BY <1>4, <1>5, <1>6 DEF HandoffInv

LEMMA ExchangeKeeps == ASSUME HandoffInv, NEW r \in Txns, HO!Exchange(r) PROVE HandoffInv'
<1> DEFINE n == req[r].session
           site == [req[r].asked EXCEPT !.tenant = cls[r]]
           Met == \E c \in codes : c.session = n /\ ~c.expired /\ c.site = site
<1>1. n \in 1..Len(minted) /\ site = req[r].asked /\ site \in HO!Sites
  BY ZenonT(30), HandoffTypes, SiteOfContext DEF HandoffInv, Known, HO!Exchange
<1>2. /\ codes' = { c \in codes : c.session # n }
      /\ handed' = IF Met THEN [handed EXCEPT ![n] = Append(@, req[r].asked)] ELSE handed
      /\ req' = [req EXCEPT ![r] = HO!Idle]
      /\ UNCHANGED <<begun, cls, minted, origin, requests, restarts>>
  BY DEF HO!Exchange, HO!Redeemed, HO!End
<1>3. Met => Held(n, site)
  BY DEF HandoffInv, Known
<1>4. /\ handed' \in Seq(Seq(HO!Sites)) /\ Len(handed') = Len(minted)
      /\ \A k \in 1..Len(minted) : handed'[k] = IF Met /\ k = n THEN <<site>> ELSE handed[k]
  <2>1. CASE Met
    <3>1. handed' = [handed EXCEPT ![n] = Append(handed[n], req[r].asked)]
      BY <1>2, <2>1
    <3>2. Append(handed[n], req[r].asked) = <<site>> /\ <<site>> \in Seq(HO!Sites)
      BY <1>1, <1>3, <2>1, Singleton DEF Held
    <3> HIDE DEF Met, n, site
    <3>3. handed' = [handed EXCEPT ![n] = <<site>>]
      BY <3>1, <3>2
    <3> QED
      BY <1>1, <2>1, <3>2, <3>3, HandoffTypes
  <2>2. CASE ~Met
    BY <1>2, <2>2, HandoffTypes
  <2> QED
    BY <2>1, <2>2
<1> HIDE DEF Met, n, site
<1>5. \A u \in Txns : req'[u] = IF u = r THEN HO!Idle ELSE req[u]
  BY <1>2 DEF HandoffInv, HO!TypeOK
<1>6. HO!TypeOK'
  BY <1>2, <1>4, IdleRequest DEF HandoffInv, HO!TypeOK
<1>7. Ledgers' /\ HandedOver'
  BY SMTT(20), <1>2, <1>3, <1>4, HandoffTypes DEF HandoffInv, Ledgers, HandedOver, HO!HandedOver, Held
<1>8. Known'
  <2>1. ASSUME NEW k, NEW s, Held(k, s), k # n \/ ~Met PROVE Held(k, s)'
    BY <1>2, <1>4, <2>1 DEF Held
  <2>2. \A u \in Txns : req[u].pc = "issue" => req[u].session # n \/ ~Met
    BY DEF HandoffInv, Known, Met
  <2>3. \A c \in codes' : c \in codes /\ c.session # n
    BY <1>2
  <2> QED
    BY <1>2, <1>5, <2>1, <2>2, <2>3, IdleRequest DEF HandoffInv, Known
<1> QED
  BY <1>6, <1>7, <1>8 DEF HandoffInv

LEMMA RestartKeeps == ASSUME HandoffInv, HO!Restart PROVE HandoffInv'
<1>1. /\ codes' = {} /\ req' = [r \in Txns |-> HO!Idle] /\ cls' = [r \in Txns |-> NoTenant]
      /\ restarts' = restarts + 1 /\ UNCHANGED <<begun, minted, origin, handed, requests>>
  BY DEF HO!Restart
<1>2. HO!TypeOK'
  BY <1>1, IdleRequest DEF HandoffInv, HO!TypeOK
<1>3. Ledgers' /\ HandedOver' /\ Known'
  BY <1>1, IdleRequest DEF HandoffInv, Ledgers, HandedOver, HO!HandedOver, Known
<1> QED
  BY <1>2, <1>3 DEF HandoffInv

LEMMA HandoffInit == HO!Init => HandoffInv
<1> SUFFICES ASSUME HO!Init PROVE HandoffInv
  OBVIOUS
<1>1. HO!TypeOK
  BY IdleRequest DEF HO!Init, HO!TypeOK
<1>2. Ledgers /\ HandedOver /\ Known
  BY IdleRequest DEF HO!Init, Ledgers, HandedOver, HO!HandedOver, Known
<1> QED
  BY <1>1, <1>2 DEF HandoffInv

LEMMA HandoffNext == ASSUME HandoffInv, [HO!Next]_HO!vars PROVE HandoffInv'
<1>1. CASE UNCHANGED HO!vars
  BY <1>1 DEF HandoffInv, HO!vars, HO!TypeOK, Ledgers, HandedOver, HO!HandedOver, Known, Held
<1>2. CASE HO!Next
  BY <1>2, ArriveAtHostKeeps, ResolveKeeps, InitiateKeeps, BeginCallbackKeeps, IdentifiedKeeps,
     SignInKeeps, RefuseKeeps, IssueKeeps, ExchangeKeeps, ExpireKeeps, RestartKeeps DEF HO!Next
<1> QED
  BY <1>1, <1>2

(* Whatever sign-ins, exchanges and restarts interleave, and whatever requests *)
(* share the context holder, a session minted by the callback is one of the    *)
(* site where the sign-in began, and leaves the platform once at most, to that *)
(* site (GoogleOAuthService.callback, HandoffService.redeem).                  *)
THEOREM SignInHandedOver == HO!Spec => []HandedOver
<1>1. HandoffInv => HandedOver
  BY DEF HandoffInv
<1> QED
  BY <1>1, HandoffInit, HandoffNext, PTL DEF HO!Spec
--------------------------------------------------------------------------------
(* Customers.                                                              *)

\* What a call knows of the tables, by its place and the rows it has inserted.
CustomerCall(r) ==
  /\ r.op \in {"google", "link"} => \E s \in Subs : r.sub = {s}
  /\ r.pc \notin {"password", "google", "commit"} => r.new = {}
  /\ r.pc = "customer" => r.op \in {"register", "google"}
  /\ r.pc = "password" => r.op = "register" /\ "customer" \in r.new
  /\ r.pc \in {"lookup", "prove"} => r.op = "google"
  /\ r.pc = "google" => r.op \in {"google", "link"} /\ "google" \notin r.new
  /\ r.pc = "verify" => r.op = "verify"
  /\ "customer" \in r.new => r.op \in {"register", "google"} /\ r.email \notin customer
  /\ "password" \in r.new => r.op = "register" /\ "customer" \in r.new
  /\ "verify" \in r.new => r.op = "verify"
  /\ "google" \in r.new => r.op \in {"google", "link"} /\ r.pc = "commit"
  /\ r.pc = "prove" \/ r.op \in {"verify", "link"} => r.email \in customer
  /\ r.pc = "google" \/ "google" \in r.new =>
       /\ r.email \in customer \/ "customer" \in r.new
       /\ r.op = "google" => secretOf[r.email] # "unverified"
  /\ "google" \in r.new => google[r.email] = {} /\ \A e \in Emails : r.sub \cap google[e] = {}
  /\ r.op = "google" /\ r.pc = "commit" => "google" \in r.new \/ r.sub \subseteq google[r.email]

\* Two calls insert different customers and different Google identities.
CustomersApart(r, s) ==
  /\ "customer" \in r.new /\ "customer" \in s.new => r.email # s.email
  /\ "google" \in r.new /\ "google" \in s.new => r.email # s.email /\ r.sub # s.sub

\* An identity is that of a customer, a Google account that of one customer,
\* which is the one that it has signed in so far.
IdentitiesKept ==
  /\ \A e \in Emails : google[e] # {} \/ secretOf[e] # "none" => e \in customer
  /\ \A e, f \in Emails : google[e] \cap google[f] # {} => e = f
  /\ \A p \in signed : p[1] \in google[p[2]]

CustomerInv ==
  /\ CA!TypeOK /\ IdentitiesKept /\ LinkedByOwner
  /\ \A t \in Txns : CustomerCall(callTx[t])
  /\ \A t \in Txns : \A u \in Txns \ {t} : CustomersApart(callTx[t], callTx[u])

LEMMA IdleCustomer ==
  /\ CA!Idle \in CA!Call /\ CustomerCall(CA!Idle) /\ CA!Idle.pc = "idle"
  /\ \A r \in CA!Call : CustomersApart(CA!Idle, r) /\ CustomersApart(r, CA!Idle)
<1>1. PICK e \in Emails : TRUE
  BY AccountsAssumption
<1>2. CA!Idle \in CA!Call
  BY <1>1 DEF CA!Idle, CA!Call
<1> QED
  BY <1>2 DEF CA!Idle, CustomerCall, CustomersApart

LEMMA CustomerTypes ==
  ASSUME CustomerInv, NEW t \in Txns
  PROVE  callTx[t] \in CA!Call /\ CustomerCall(callTx[t]) /\ callTx[t].email \in Emails
BY DEF CustomerInv, CA!TypeOK, CA!Call

\* A step of the call of t, which becomes r and leaves the tables alone.
LEMMA CustomerStep ==
  ASSUME CustomerInv, NEW t \in Txns, NEW r \in CA!Call, CustomerCall(r),
         callTx' = [callTx EXCEPT ![t] = r], UNCHANGED <<customer, secretOf, google, linked, signed>>,
         \A u \in Txns \ {t} : CustomersApart(r, callTx[u]),
         unproven' \in SUBSET Emails, calls' \in Nat, callAborts' \in Nat
  PROVE  CustomerInv'
<1>1. \A u \in Txns : callTx'[u] = IF u = t THEN r ELSE callTx[u]
  BY DEF CustomerInv, CA!TypeOK
<1>2. CA!TypeOK'
  BY DEF CustomerInv, CA!TypeOK
<1>3. IdentitiesKept' /\ LinkedByOwner'
  BY DEF CustomerInv, IdentitiesKept, LinkedByOwner, CA!LinkedByOwner
<1>4. ASSUME NEW u \in Txns PROVE CustomerCall(callTx[u])'
  <2>1. CustomerCall(callTx'[u])
    BY <1>1 DEF CustomerInv
  <2> QED
    BY <2>1 DEF CustomerCall
<1>5. ASSUME NEW u \in Txns, NEW v \in Txns \ {u} PROVE CustomersApart(callTx[u], callTx[v])'
  <2>1. CustomersApart(callTx'[u], callTx'[v])
    BY <1>1 DEF CustomerInv, CustomersApart
  <2> QED
    BY <2>1 DEF CustomersApart
<1> QED
  BY <1>2, <1>3, <1>4, <1>5 DEF CustomerInv

LEMMA CustomerGoes ==
  ASSUME CustomerInv, NEW t \in Txns, NEW r \in CA!Call, CA!Step(t, r), CustomerCall(r),
         \A u \in Txns \ {t} : CustomersApart(r, callTx[u])
  PROVE  CustomerInv'
<1>1. /\ callTx' = [callTx EXCEPT ![t] = r]
      /\ UNCHANGED <<customer, secretOf, google, unproven, linked, signed, calls, callAborts>>
  BY DEF CA!Step, CA!identities, CA!history
<1> QED
  BY <1>1, CustomerStep DEF CustomerInv, CA!TypeOK

LEMMA CustomerReturns ==
  ASSUME CustomerInv, NEW t \in Txns, CA!Return(t)
  PROVE  CustomerInv'
BY CustomerGoes, IdleCustomer, CustomerTypes DEF CA!Return

LEMMA CustomerGoto ==
  ASSUME CustomerInv, NEW t \in Txns, NEW pc \in {"customer", "prove", "google"}, CA!Goto(t, pc),
         callTx[t].op = "google", callTx[t].new = {},
         pc \in {"prove", "google"} => callTx[t].email \in customer,
         pc = "google" => secretOf[callTx[t].email] # "unverified"
  PROVE  CustomerInv'
<1> DEFINE r == [callTx[t] EXCEPT !.pc = pc]
<1>1. callTx[t] \in CA!Call /\ CustomerCall(callTx[t])
  BY CustomerTypes
<1>2. r \in CA!Call /\ r.pc = pc /\ r.op = "google" /\ r.new = {} /\ r.sub = callTx[t].sub
      /\ r.email = callTx[t].email
  BY <1>1 DEF CA!Call
<1>3. CA!Step(t, r)
  BY DEF CA!Goto
<1> HIDE DEF r
<1>4. CustomerCall(r)
  BY <1>1, <1>2 DEF CustomerCall
<1>5. \A u \in Txns \ {t} : CustomersApart(r, callTx[u])
  BY <1>2 DEF CustomersApart
<1> QED
  BY <1>2, <1>3, <1>4, <1>5, CustomerGoes

LEMMA CustomerArrives ==
  ASSUME CustomerInv, NEW t \in Txns, NEW op, NEW e \in Emails, NEW s \in SUBSET Subs, NEW v \in BOOLEAN,
         NEW pc, CA!Arrive(t, op, e, s, v, pc),
         \/ op = "register" /\ pc = "customer"
         \/ op = "verify" /\ pc = "verify" /\ e \in customer
         \/ op = "link" /\ pc = "google" /\ e \in customer /\ \E x \in Subs : s = {x}
         \/ op = "google" /\ pc = "lookup" /\ \E x \in Subs : s = {x}
         \/ op = "google" /\ pc = "commit" /\ s \subseteq google[e] /\ \E x \in Subs : s = {x}
  PROVE  CustomerInv'
<1> DEFINE r == [pc |-> pc, op |-> op, email |-> e, sub |-> s, vouched |-> v, new |-> {}]
<1>1. /\ callTx' = [callTx EXCEPT ![t] = r] /\ calls' = calls + 1
      /\ UNCHANGED <<customer, secretOf, google, unproven, linked, signed, callAborts>>
  BY DEF CA!Arrive, CA!identities, CA!history
<1>2. r \in CA!Call
  BY DEF CA!Call
<1>3. CustomerCall(r)
  BY DEF CustomerCall
<1>4. \A u \in Txns \ {t} : CustomersApart(r, callTx[u])
  BY DEF CustomersApart
<1> HIDE DEF r
<1>5. calls' \in Nat /\ callAborts' \in Nat /\ unproven' \in SUBSET Emails
  BY <1>1 DEF CustomerInv, CA!TypeOK
<1> QED
  BY <1>1, <1>2, <1>3, <1>4, <1>5, CustomerStep

LEMMA CustomerBegins == ASSUME CustomerInv, NEW t \in Txns, CA!Begin(t) PROVE CustomerInv'
<1>1. PICK e \in Emails : \/ CA!BeginRegister(t, e) \/ CA!BeginVerify(t, e)
                          \/ \E s \in Subs : CA!BeginLink(t, e, s)
                          \/ \E s \in Subs, v \in BOOLEAN : CA!BeginGoogle(t, e, s, v)
  BY DEF CA!Begin
<1>2. CASE CA!BeginRegister(t, e)
  BY <1>2, CustomerArrives DEF CA!BeginRegister
<1>3. CASE CA!BeginVerify(t, e)
  <2>1. e \in customer
    BY <1>3 DEF CA!BeginVerify, CustomerInv, IdentitiesKept
  <2> QED
    BY <1>3, <2>1, CustomerArrives DEF CA!BeginVerify
<1>4. ASSUME NEW s \in Subs, CA!BeginLink(t, e, s) PROVE CustomerInv'
  BY <1>4, CustomerArrives DEF CA!BeginLink
<1>5. ASSUME NEW s \in Subs, NEW v \in BOOLEAN, CA!BeginGoogle(t, e, s, v) PROVE CustomerInv'
  <2>1. CASE CA!Owner(s) = {}
    BY <1>5, <2>1, CustomerArrives DEF CA!BeginGoogle
  <2>2. ASSUME NEW o \in CA!Owner(s), CA!Arrive(t, "google", o, {s}, v, "commit") PROVE CustomerInv'
    <3>1. o \in Emails /\ {s} \subseteq google[o] /\ {s} \in SUBSET Subs
      BY DEF CA!Owner, CustomerInv, CA!TypeOK
    <3> QED
      BY <2>2, <3>1, CustomerArrives
  <2> QED
    BY <1>5, <2>1, <2>2 DEF CA!BeginGoogle
<1> QED
  BY <1>1, <1>2, <1>3, <1>4, <1>5

LEMMA CustomerLookup == ASSUME CustomerInv, NEW t \in Txns, CA!Lookup(t) PROVE CustomerInv'
<1>1. callTx[t].pc = "lookup" /\ callTx[t].op = "google" /\ callTx[t].new = {}
  BY CustomerTypes DEF CA!Lookup, CustomerCall
<1> QED
  BY <1>1, CustomerGoto, CustomerReturns DEF CA!Lookup

LEMMA CustomerProve == ASSUME CustomerInv, NEW t \in Txns, CA!Prove(t) PROVE CustomerInv'
<1>1. callTx[t].pc = "prove" /\ callTx[t].op = "google" /\ callTx[t].new = {}
      /\ callTx[t].email \in customer
  BY CustomerTypes DEF CA!Prove, CustomerCall
<1> QED
  BY <1>1, CustomerGoto, CustomerReturns DEF CA!Prove, CA!Proven

\* A row is inserted: r is the call with it.
LEMMA CustomerWrites ==
  ASSUME CustomerInv, NEW t \in Txns, NEW what \in {"customer", "password", "google", "verify"},
         NEW pc \in {"password", "google", "commit"}, CA!Wrote(t, what, pc)
  PROVE  \E r \in CA!Call :
           /\ CA!Step(t, r) /\ r.pc = pc /\ r.new = callTx[t].new \cup {what}
           /\ r.op = callTx[t].op /\ r.email = callTx[t].email /\ r.sub = callTx[t].sub
<1> DEFINE r == [callTx[t] EXCEPT !.new = @ \cup {what}, !.pc = pc]
<1>1. callTx[t] \in CA!Call
  BY CustomerTypes
<1>2. r \in CA!Call /\ r.pc = pc /\ r.new = callTx[t].new \cup {what}
      /\ r.op = callTx[t].op /\ r.email = callTx[t].email /\ r.sub = callTx[t].sub
  BY <1>1 DEF CA!Call
<1>3. CA!Step(t, r)
  BY DEF CA!Wrote
<1> HIDE DEF r
<1> QED
  BY <1>2, <1>3

LEMMA CustomerInserted == ASSUME CustomerInv, NEW t \in Txns, CA!InsertCustomer(t) PROVE CustomerInv'
<1> DEFINE pc == IF callTx[t].op = "register" THEN "password" ELSE "google"
<1>1. CASE callTx[t].email \in customer
  BY <1>1, CustomerReturns DEF CA!InsertCustomer
<1>2. CASE callTx[t].email \notin customer
  <2>1. callTx[t].pc = "customer" /\ CA!Wrote(t, "customer", pc) /\ pc \in {"password", "google"}
    BY <1>2 DEF CA!InsertCustomer
  <2>2. PICK r \in CA!Call :
           /\ CA!Step(t, r) /\ r.pc = pc /\ r.new = callTx[t].new \cup {"customer"}
           /\ r.op = callTx[t].op /\ r.email = callTx[t].email /\ r.sub = callTx[t].sub
    BY <2>1, CustomerWrites
  <2>3. secretOf[r.email] = "none"
    BY <1>2, <2>2, CustomerTypes DEF CustomerInv, IdentitiesKept
  <2>4. CustomerCall(r)
    BY <1>2, <2>1, <2>2, <2>3, CustomerTypes DEF CustomerCall
  <2>5. \A u \in Txns \ {t} : CustomersApart(r, callTx[u])
    BY <2>1, <2>2, CustomerTypes DEF CA!InsertCustomer, CA!EmailFree, CA!Others, CustomersApart, CustomerCall
  <2> QED
    BY <2>2, <2>4, <2>5, CustomerGoes
<1> QED
  BY <1>1, <1>2

LEMMA CustomerPassword == ASSUME CustomerInv, NEW t \in Txns, CA!InsertPassword(t) PROVE CustomerInv'
<1>1. callTx[t].pc = "password" /\ CA!Wrote(t, "password", "commit")
  BY DEF CA!InsertPassword
<1>2. PICK r \in CA!Call :
        /\ CA!Step(t, r) /\ r.pc = "commit" /\ r.new = callTx[t].new \cup {"password"}
        /\ r.op = callTx[t].op /\ r.email = callTx[t].email /\ r.sub = callTx[t].sub
  BY <1>1, CustomerWrites
<1>3. CustomerCall(r)
  BY <1>1, <1>2, CustomerTypes DEF CustomerCall
<1>4. \A u \in Txns \ {t} : CustomersApart(r, callTx[u])
  BY <1>2 DEF CustomerInv, CustomersApart
<1> QED
  BY <1>2, <1>3, <1>4, CustomerGoes

LEMMA CustomerVerifies == ASSUME CustomerInv, NEW t \in Txns, CA!Verify(t) PROVE CustomerInv'
<1>1. callTx[t].pc = "verify" /\ CA!Wrote(t, "verify", "commit")
  BY DEF CA!Verify
<1>2. PICK r \in CA!Call :
        /\ CA!Step(t, r) /\ r.pc = "commit" /\ r.new = callTx[t].new \cup {"verify"}
        /\ r.op = callTx[t].op /\ r.email = callTx[t].email /\ r.sub = callTx[t].sub
  BY <1>1, CustomerWrites
<1>3. CustomerCall(r)
  BY <1>1, <1>2, CustomerTypes DEF CustomerCall
<1>4. \A u \in Txns \ {t} : CustomersApart(r, callTx[u])
  BY <1>2 DEF CustomerInv, CustomersApart
<1> QED
  BY <1>2, <1>3, <1>4, CustomerGoes

\* The unique constraints: neither the customer nor the Google account is taken.
LEMMA CustomerLinked == ASSUME CustomerInv, NEW t \in Txns, CA!InsertGoogle(t) PROVE CustomerInv'
<1> DEFINE taken == CA!SubjectTaken(callTx[t].email, callTx[t].sub)
<1>1. CASE taken
  BY <1>1, CustomerReturns DEF CA!InsertGoogle
<1>2. CASE ~taken
  <2>1. callTx[t].pc = "google" /\ CA!Wrote(t, "google", "commit")
    BY <1>2 DEF CA!InsertGoogle
  <2>2. PICK r \in CA!Call :
           /\ CA!Step(t, r) /\ r.pc = "commit" /\ r.new = callTx[t].new \cup {"google"}
           /\ r.op = callTx[t].op /\ r.email = callTx[t].email /\ r.sub = callTx[t].sub
    BY <2>1, CustomerWrites
  <2>3. google[r.email] = {} /\ \A e \in Emails : r.sub \cap google[e] = {}
    BY <1>2, <2>2, CustomerTypes DEF CA!SubjectTaken, CA!Owner, CustomerInv, IdentitiesKept
  <2>4. CustomerCall(r)
    BY <2>1, <2>2, <2>3, CustomerTypes DEF CustomerCall
  <2>5. \A u \in Txns \ {t} : CustomersApart(r, callTx[u])
    BY <2>2 DEF CA!InsertGoogle, CA!SubjectFree, CA!Others, CustomersApart, CustomerInv
  <2> QED
    BY <2>2, <2>4, <2>5, CustomerGoes
<1> QED
  BY <1>1, <1>2

\* What a commit does to the tables.
LEMMA CustomerTables ==
  ASSUME CustomerInv, NEW t \in Txns, CA!Commit(t), NEW e \in Emails
  PROVE  LET r == callTx[t]
         IN  /\ e \in customer' <=> e \in customer \/ ("customer" \in r.new /\ e = r.email)
             /\ secretOf'[e] = IF e # r.email THEN secretOf[e]
                               ELSE IF "password" \in r.new THEN "unverified"
                               ELSE IF "verify" \in r.new THEN "verified" ELSE secretOf[e]
             /\ google'[e] = IF "google" \in r.new /\ e = r.email THEN r.sub ELSE google[e]
<1>1. callTx[t].email \in Emails /\ google \in [Emails -> SUBSET Subs]
      /\ secretOf \in [Emails -> {"none", "unverified", "verified"}]
  BY CustomerTypes DEF CustomerInv, CA!TypeOK
<1>2. e \in customer' <=> e \in customer \/ ("customer" \in callTx[t].new /\ e = callTx[t].email)
  BY DEF CA!Commit
<1>3. google'[e] = IF "google" \in callTx[t].new /\ e = callTx[t].email THEN callTx[t].sub ELSE google[e]
  BY <1>1 DEF CA!Commit
<1>4. secretOf' = CASE "password" \in callTx[t].new -> [secretOf EXCEPT ![callTx[t].email] = "unverified"]
                    [] "verify" \in callTx[t].new   -> [secretOf EXCEPT ![callTx[t].email] = "verified"]
                    [] OTHER                        -> secretOf
  BY DEF CA!Commit
<1>5. ~("password" \in callTx[t].new /\ "verify" \in callTx[t].new)
  BY CustomerTypes DEF CustomerCall
<1> QED
  BY <1>1, <1>2, <1>3, <1>4, <1>5

LEMMA CustomerCommits == ASSUME CustomerInv, NEW t \in Txns, CA!Commit(t) PROVE CustomerInv'
<1> DEFINE r == callTx[t]
<1>1. r \in CA!Call /\ CustomerCall(r) /\ r.email \in Emails /\ r.pc = "commit"
  BY CustomerTypes DEF CA!Commit
<1>2. /\ linked' = IF r.op = "link" THEN linked \cup (r.sub \X {r.email}) ELSE linked
      /\ signed' = IF r.op = "google" THEN signed \cup (r.sub \X {r.email}) ELSE signed
      /\ callTx' = [callTx EXCEPT ![t] = CA!Idle] /\ UNCHANGED <<unproven, calls, callAborts>>
  BY DEF CA!Commit
<1>3. CA!TypeOK'
  <2>1. customer' \in SUBSET Emails /\ google' \in [Emails -> SUBSET Subs]
    BY <1>1 DEF CA!Commit, CustomerInv, CA!TypeOK, CA!Call
  <2>2. secretOf' \in [Emails -> {"none", "unverified", "verified"}]
    BY <1>1 DEF CA!Commit, CustomerInv, CA!TypeOK, CA!Call
  <2>3. r.sub \X {r.email} \subseteq Subs \X Emails
    BY <1>1 DEF CA!Call
  <2> HIDE DEF r
  <2> QED
    BY <1>2, <2>1, <2>2, <2>3, IdleCustomer DEF CustomerInv, CA!TypeOK
<1>4. IdentitiesKept'
  <2>1. ASSUME NEW e \in Emails, google'[e] # {} \/ secretOf'[e] # "none" PROVE e \in customer'
    BY <1>1, <2>1, CustomerTables DEF CustomerInv, IdentitiesKept, CustomerCall
  <2>2. ASSUME NEW e \in Emails, NEW f \in Emails, google'[e] \cap google'[f] # {} PROVE e = f
    BY <1>1, <2>2, CustomerTables DEF CustomerInv, IdentitiesKept, CustomerCall
  <2>3. ASSUME NEW p \in signed' PROVE p[1] \in google'[p[2]]
    <3>1. CASE p \in signed
      <4>1. p[2] \in Emails /\ p[1] \in google[p[2]]
        BY <3>1 DEF CustomerInv, IdentitiesKept, CA!TypeOK
      <4> QED
        BY <1>1, <4>1, CustomerTables DEF CustomerCall
    <3>2. CASE p \notin signed
      <4>1. r.op = "google" /\ p[1] \in r.sub /\ p[2] = r.email
        BY <1>2, <3>2
      <4> QED
        BY <1>1, <4>1, CustomerTables DEF CustomerCall
    <3> QED
      BY <3>1, <3>2
  <2> QED
    BY <2>1, <2>2, <2>3 DEF IdentitiesKept
<1>5. LinkedByOwner'
  <2> SUFFICES ASSUME NEW e \in Emails, secretOf'[e] = "unverified", NEW s \in google'[e]
               PROVE  <<s, e>> \in linked'
    BY DEF LinkedByOwner, CA!LinkedByOwner
  <2>1. CASE e = r.email /\ "google" \in r.new
    BY <1>1, <1>2, <2>1, CustomerTables DEF CustomerCall
  <2>2. CASE e = r.email /\ "password" \in r.new
    BY <1>1, <2>2, CustomerTables DEF CustomerCall, CustomerInv, IdentitiesKept
  <2>3. CASE e # r.email \/ ("google" \notin r.new /\ "password" \notin r.new)
    <3>1. secretOf[e] = "unverified" /\ s \in google[e]
      BY <2>3, CustomerTables
    <3> QED
      BY <1>2, <3>1 DEF CustomerInv, LinkedByOwner, CA!LinkedByOwner
  <2> QED
    BY <2>1, <2>2, <2>3
<1>6. \A u \in Txns : callTx'[u] = IF u = t THEN CA!Idle ELSE callTx[u]
  BY <1>2 DEF CustomerInv, CA!TypeOK
<1>7. ASSUME NEW u \in Txns PROVE CustomerCall(callTx[u])'
  <2>1. CASE u = t
    <3>1. callTx'[u] = CA!Idle
      BY <1>6, <2>1
    <3>2. callTx'[u].pc = "idle" /\ callTx'[u].op = "none" /\ callTx'[u].new = {}
      BY <3>1 DEF CA!Idle
    <3> QED
      BY <3>2 DEF CustomerCall
  <2>2. CASE u # t
    <3>1. /\ callTx[u] \in CA!Call /\ CustomerCall(callTx[u]) /\ CustomersApart(callTx[u], r)
          /\ callTx[u].email \in Emails /\ callTx'[u] = callTx[u]
      BY <1>6, <2>2, CustomerTypes DEF CustomerInv
    <3> DEFINE s == callTx[u]
    <3>2. s.email \in customer => s.email \in customer'
      BY <3>1, CustomerTables
    <3>3. "customer" \in s.new => s.email \notin customer'
      BY <3>1, CustomerTables DEF CustomerCall, CustomersApart
    <3>4. s.pc = "google" \/ "google" \in s.new => (s.op = "google" => secretOf'[s.email] # "unverified")
      BY <1>1, <3>1, CustomerTables DEF CustomerCall, CustomersApart
    <3>5. ASSUME "google" \in s.new
          PROVE  google'[s.email] = {} /\ \A e \in Emails : s.sub \cap google'[e] = {}
      <4>1. google[s.email] = {} /\ \A e \in Emails : s.sub \cap google[e] = {}
        BY <3>1, <3>5 DEF CustomerCall
      <4>2. "google" \in r.new => r.email # s.email /\ s.sub \cap r.sub = {}
        BY <1>1, <3>1, <3>5 DEF CustomerCall, CustomersApart
      <4>3. \A e \in Emails : google'[e] = IF "google" \in r.new /\ e = r.email THEN r.sub ELSE google[e]
        BY CustomerTables
      <4>4. s.email \in Emails
        BY <3>1
      <4> HIDE DEF r, s
      <4> QED
        BY <4>1, <4>2, <4>3, <4>4
    <3>6. s.sub \subseteq google[s.email] => s.sub \subseteq google'[s.email]
      BY <1>1, <3>1, CustomerTables DEF CustomerCall
    <3>7. s.pc = "google" \/ "google" \in s.new => s.email \in customer' \/ "customer" \in s.new
      BY <3>1, <3>2 DEF CustomerCall
    <3> HIDE DEF s
    <3>8. CustomerCall(s)'
      BY <3>1, <3>2, <3>3, <3>4, <3>5, <3>6, <3>7 DEF CustomerCall, s
    <3> QED
      BY <3>8 DEF s
  <2> QED
    BY <2>1, <2>2
<1>8. ASSUME NEW u \in Txns, NEW v \in Txns \ {u} PROVE CustomersApart(callTx[u], callTx[v])'
  <2>1. CustomersApart(callTx'[u], callTx'[v])
    BY <1>6, IdleCustomer, CustomerTypes DEF CustomerInv
  <2> QED
    BY <2>1 DEF CustomersApart
<1> QED
  BY <1>3, <1>4, <1>5, <1>7, <1>8 DEF CustomerInv

LEMMA CustomerAborts == ASSUME CustomerInv, NEW t \in Txns, CA!Abort(t) PROVE CustomerInv'
<1>1. callTx' = [callTx EXCEPT ![t] = CA!Idle] /\ callAborts' = callAborts + 1
      /\ UNCHANGED <<customer, secretOf, google, unproven, linked, signed, calls>>
  BY DEF CA!Abort, CA!identities, CA!history
<1>2. calls' \in Nat /\ callAborts' \in Nat /\ unproven' \in SUBSET Emails
  BY <1>1 DEF CustomerInv, CA!TypeOK
<1>3. CA!Idle \in CA!Call /\ CustomerCall(CA!Idle) /\ \A u \in Txns \ {t} : CustomersApart(CA!Idle, callTx[u])
  BY IdleCustomer, CustomerTypes
<1> QED
  BY <1>1, <1>2, <1>3, CustomerStep

LEMMA CustomerInit == CA!Init => CustomerInv
<1> SUFFICES ASSUME CA!Init PROVE CustomerInv
  OBVIOUS
<1>1. CA!TypeOK
  BY IdleCustomer DEF CA!Init, CA!TypeOK
<1>2. IdentitiesKept /\ LinkedByOwner
  BY DEF CA!Init, IdentitiesKept, LinkedByOwner, CA!LinkedByOwner
<1> QED
  BY <1>1, <1>2, IdleCustomer DEF CA!Init, CustomerInv

LEMMA CustomerNext == ASSUME CustomerInv, [CA!Next]_CA!vars PROVE CustomerInv'
<1>1. CASE UNCHANGED CA!vars
  BY <1>1 DEF CustomerInv, CA!vars, CA!identities, CA!history, CA!TypeOK, IdentitiesKept,
     LinkedByOwner, CA!LinkedByOwner, CustomerCall, CustomersApart
<1>2. ASSUME NEW e \in Emails, CA!Lapse(e) PROVE CustomerInv'
  BY <1>2 DEF CustomerInv, CA!Lapse, CA!history, CA!TypeOK, IdentitiesKept,
     LinkedByOwner, CA!LinkedByOwner, CustomerCall, CustomersApart
<1>3. ASSUME NEW t \in Txns, CA!Run(t) PROVE CustomerInv'
  BY <1>3, CustomerLookup, CustomerProve, CustomerInserted, CustomerPassword, CustomerLinked,
     CustomerVerifies, CustomerCommits DEF CA!Run
<1> QED
  BY <1>1, <1>2, <1>3, CustomerBegins, CustomerAborts DEF CA!Next

(* However many callbacks, links and registrations run at once, a Google       *)
(* account that has signed in a customer signs in that customer for ever:      *)
(* the unique index of the identities decides the races that the lookups of    *)
(* findOrCreateFromGoogle leave open.                                          *)
THEOREM GoogleSameCustomer == CA!Spec => []SameCustomer
<1>1. CustomerInv => SameCustomer
  <2> SUFFICES ASSUME CustomerInv, NEW p \in signed, NEW q \in signed, p[1] = q[1] PROVE p[2] = q[2]
    BY DEF SameCustomer, CA!SameCustomer
  <2>1. p[2] \in Emails /\ q[2] \in Emails
    BY DEF CustomerInv, CA!TypeOK
  <2> QED
    BY <2>1 DEF CustomerInv, IdentitiesKept
<1> QED
  BY <1>1, CustomerInit, CustomerNext, PTL DEF CA!Spec

(* No order of registrations, verifications and callbacks links a Google       *)
(* account to a customer whose password is unverified, other than the link     *)
(* that its owner asks for (findOrCreateFromGoogle, linkGoogle).               *)
THEOREM GoogleLinkedByOwner == CA!Spec => []LinkedByOwner
<1>1. CustomerInv => LinkedByOwner
  BY DEF CustomerInv
<1> QED
  BY <1>1, CustomerInit, CustomerNext, PTL DEF CA!Spec

--------------------------------------------------------------------------------
(* The staff of a tenant.                                                  *)

\* What a call on the staff knows of the tables, by its place and by the rows
\* it has written.
StaffCall(r) ==
  /\ r.pc = "idle" => r.op = "none" /\ r.new = {}
  /\ r.pc # "idle" => r.op # "none" /\ r.email \in StaffEmails
  /\ r.op = "owner" => r.pc \in {"user", "password", "commit"} /\ r.role \in MA!Roles /\ r.used = {}
  /\ r.op = "register" =>
       /\ r.pc \in {"claim", "lookup", "user", "password", "commit"}
       /\ \E i \in Invites : /\ r.used = {i} /\ invite[i].state # "none"
                             /\ r.email = invite[i].email /\ r.role = invite[i].role
       /\ r.pc # "claim" => "invite" \in r.new
  /\ r.op = "verify" => r.pc \in {"verify", "commit"} /\ r.used = {} /\ secret[r.email] # "none"
  /\ r.op = "google" => /\ r.pc \in {"lookup", "prove", "google", "commit"} /\ r.used = {}
                        /\ r.pc \in {"google", "commit"} => secret[r.email] = "verified"
  /\ "invite" \in r.new => r.op = "register" /\ \A i \in r.used : invite[i].state = "open"
  /\ "user" \in r.new => r.op \in {"owner", "register"} /\ role[r.email] = Nobody
  /\ r.op \in {"owner", "register"} /\ r.pc \in {"password", "commit"} => "user" \in r.new
  /\ "password" \in r.new => "user" \in r.new
  /\ "verify" \in r.new => r.op = "verify"
  /\ "google" \in r.new => r.op = "google"

\* Two calls redeem different invites and insert different users.
StaffApart(r, s) ==
  /\ "invite" \in r.new /\ "invite" \in s.new => r.used # s.used
  /\ "user" \in r.new /\ "user" \in s.new => r.email # s.email

\* Who issued an invite is on the staff, under a role no lower than the one
\* he grants.
InviteIssued(i) ==
  LET by == invite[i].by
  IN  /\ invite[i].email \in StaffEmails /\ invite[i].role \in MA!Roles /\ by \in StaffEmails
      /\ role[by] \in MA!Roles /\ MA!Rank[invite[i].role] >= MA!Rank[role[by]]

StaffKept ==
  /\ \A i \in Invites : invite[i].state # "none" => InviteIssued(i)
  /\ \A e \in StaffEmails : secret[e] # "none" \/ redeemed[e] # {} => role[e] # Nobody
  /\ \A e \in StaffEmails : \A i \in redeemed[e] : invite[i].state = "used"

StaffInv ==
  /\ MA!TypeOK /\ StaffKept /\ LetIn
  /\ \A t \in Txns : StaffCall(staffTx[t])
  /\ \A t \in Txns : \A u \in Txns \ {t} : StaffApart(staffTx[t], staffTx[u])

LEMMA RoleRanks == \A r \in MA!Roles : MA!Rank[r] \in Int
<1>1. \A r \in MA!Roles : \E n \in DOMAIN MA!Hierarchy : MA!Hierarchy[n] = r
  BY DEF MA!Roles, MA!ToSet
<1>2. DOMAIN MA!Hierarchy = 1 .. 4
  BY DEF MA!Hierarchy
<1> QED
  BY <1>1, <1>2 DEF MA!Rank

LEMMA IdleStaff ==
  /\ MA!Idle \in MA!Call /\ StaffCall(MA!Idle) /\ MA!Idle.pc = "idle" /\ MA!Idle.op = "none" /\ MA!Idle.new = {}
  /\ \A r \in MA!Call : StaffApart(MA!Idle, r) /\ StaffApart(r, MA!Idle)
BY DEF MA!Idle, MA!Call, StaffCall, StaffApart

LEMMA StaffTypes ==
  ASSUME StaffInv, NEW t \in Txns
  PROVE  staffTx[t] \in MA!Call /\ StaffCall(staffTx[t])
BY DEF StaffInv, MA!TypeOK

\* A step of the call of t, which becomes r and leaves the tables alone.
LEMMA StaffStep ==
  ASSUME StaffInv, NEW t \in Txns, NEW r \in MA!Call, StaffCall(r),
         staffTx' = [staffTx EXCEPT ![t] = r], UNCHANGED <<invite, stale, role, secret, subject, founders, redeemed>>,
         \A u \in Txns \ {t} : StaffApart(r, staffTx[u]), staffCalls' \in Nat, staffAborts' \in Nat
  PROVE  StaffInv'
<1>1. \A u \in Txns : staffTx'[u] = IF u = t THEN r ELSE staffTx[u]
  BY DEF StaffInv, MA!TypeOK
<1>2. MA!TypeOK'
  BY DEF StaffInv, MA!TypeOK
<1>3. StaffKept' /\ LetIn'
  BY DEF StaffInv, StaffKept, InviteIssued, LetIn, MA!LetIn, MA!User
<1>4. ASSUME NEW u \in Txns PROVE StaffCall(staffTx[u])'
  <2>1. StaffCall(staffTx'[u])
    BY <1>1 DEF StaffInv
  <2> QED
    BY <2>1 DEF StaffCall
<1>5. ASSUME NEW u \in Txns, NEW v \in Txns \ {u} PROVE StaffApart(staffTx[u], staffTx[v])'
  <2>1. StaffApart(staffTx'[u], staffTx'[v])
    BY <1>1 DEF StaffInv, StaffApart
  <2> QED
    BY <2>1 DEF StaffApart
<1> QED
  BY <1>2, <1>3, <1>4, <1>5 DEF StaffInv

LEMMA StaffGoes ==
  ASSUME StaffInv, NEW t \in Txns, NEW r \in MA!Call, MA!Step(t, r), StaffCall(r),
         \A u \in Txns \ {t} : StaffApart(r, staffTx[u])
  PROVE  StaffInv'
<1>1. /\ staffTx' = [staffTx EXCEPT ![t] = r]
      /\ UNCHANGED <<invite, stale, role, secret, subject, founders, redeemed, staffCalls, staffAborts>>
  BY DEF MA!Step, MA!users, MA!history
<1>2. staffCalls' \in Nat /\ staffAborts' \in Nat
  BY <1>1 DEF StaffInv, MA!TypeOK
<1> QED
  BY <1>1, <1>2, StaffStep

LEMMA StaffReturns == ASSUME StaffInv, NEW t \in Txns, MA!Return(t) PROVE StaffInv'
<1>1. \A u \in Txns \ {t} : StaffApart(MA!Idle, staffTx[u])
  BY StaffTypes, IdleStaff
<1> QED
  BY <1>1, StaffGoes, IdleStaff DEF MA!Return

LEMMA StaffArrives ==
  ASSUME StaffInv, NEW t \in Txns, NEW r \in MA!Call, MA!Arrive(t, r), StaffCall(r), r.new = {}
  PROVE  StaffInv'
<1>1. /\ staffTx' = [staffTx EXCEPT ![t] = r] /\ staffCalls' = staffCalls + 1
      /\ UNCHANGED <<invite, stale, role, secret, subject, founders, redeemed, staffAborts>>
  BY DEF MA!Arrive, MA!users, MA!history
<1>2. staffCalls' \in Nat /\ staffAborts' \in Nat
  BY <1>1 DEF StaffInv, MA!TypeOK
<1>3. \A u \in Txns \ {t} : StaffApart(r, staffTx[u])
  BY DEF StaffApart
<1> QED
  BY <1>1, <1>2, <1>3, StaffStep

LEMMA StaffBegins == ASSUME StaffInv, NEW t \in Txns, MA!Begin(t) PROVE StaffInv'
<1>1. ASSUME NEW e \in StaffEmails, MA!BeginVerify(t, e) PROVE StaffInv'
  <2> DEFINE r == [MA!Idle EXCEPT !.op = "verify", !.email = e, !.pc = "verify"]
  <2>1. MA!Arrive(t, r) /\ secret[e] # "none"
    BY <1>1 DEF MA!BeginVerify
  <2>2. r \in MA!Call /\ r.new = {} /\ StaffCall(r)
    BY <2>1 DEF MA!Idle, MA!Call, StaffCall
  <2> HIDE DEF r
  <2> QED
    BY <2>1, <2>2, StaffArrives
<1>2. ASSUME NEW e \in StaffEmails, NEW v \in BOOLEAN, MA!CreateOwner(t, e, v) PROVE StaffInv'
  <2> DEFINE r == [MA!Idle EXCEPT !.op = "owner", !.email = e, !.role = "owner", !.vouched = v, !.pc = "user"]
  <2>1. MA!Arrive(t, r)
    BY <1>2 DEF MA!CreateOwner
  <2>2. "owner" \in MA!Roles
    BY DEF MA!Roles, MA!ToSet, MA!Hierarchy
  <2>3. r \in MA!Call /\ r.new = {} /\ StaffCall(r)
    BY <2>2 DEF MA!Idle, MA!Call, StaffCall
  <2> HIDE DEF r
  <2> QED
    BY <2>1, <2>3, StaffArrives
<1>3. ASSUME NEW e \in StaffEmails, NEW s \in StaffSubs, NEW v \in BOOLEAN, MA!BeginGoogle(t, e, s, v) PROVE StaffInv'
  <2> DEFINE r == [MA!Idle EXCEPT !.op = "google", !.email = e, !.sub = s, !.vouched = v, !.pc = "lookup"]
  <2>1. MA!Arrive(t, r)
    BY <1>3 DEF MA!BeginGoogle
  <2>2. r \in MA!Call /\ r.new = {} /\ StaffCall(r)
    BY DEF MA!Idle, MA!Call, StaffCall
  <2> HIDE DEF r
  <2> QED
    BY <2>1, <2>2, StaffArrives
<1>4. ASSUME NEW i \in Invites, MA!BeginRegister(t, i) PROVE StaffInv'
  <2> DEFINE r == [MA!Idle EXCEPT !.op = "register", !.email = invite[i].email, !.role = invite[i].role,
                                  !.used = {i}, !.pc = "claim"]
  <2>1. MA!Arrive(t, r) /\ invite[i].state = "open"
    BY <1>4 DEF MA!BeginRegister, MA!Granted
  <2>2. invite[i].email \in StaffEmails /\ invite[i].role \in MA!Roles
    BY <2>1 DEF StaffInv, StaffKept, InviteIssued
  <2>3. r \in MA!Call /\ r.new = {} /\ StaffCall(r)
    BY <2>1, <2>2 DEF MA!Idle, MA!Call, StaffCall
  <2> HIDE DEF r
  <2> QED
    BY <2>1, <2>3, StaffArrives
<1> QED
  BY <1>1, <1>2, <1>3, <1>4 DEF MA!Begin

\* A call that goes on to pc having written nothing, or what.
LEMMA StaffGoto ==
  ASSUME StaffInv, NEW t \in Txns, NEW pc, MA!Goto(t, pc),
         \/ pc = "user" /\ staffTx[t].op = "register" /\ staffTx[t].pc = "lookup"
         \/ pc = "prove" /\ staffTx[t].op = "google" /\ staffTx[t].pc = "lookup"
         \/ pc = "google" /\ staffTx[t].pc = "prove" /\ secret[staffTx[t].email] = "verified"
  PROVE  StaffInv'
<1> DEFINE r == [staffTx[t] EXCEPT !.pc = pc]
<1>1. staffTx[t] \in MA!Call /\ StaffCall(staffTx[t])
  BY StaffTypes
<1>2. r \in MA!Call /\ MA!Step(t, r)
  BY <1>1 DEF MA!Call, MA!Goto
<1>3. /\ r.pc = pc /\ r.op = staffTx[t].op /\ r.email = staffTx[t].email /\ r.role = staffTx[t].role
      /\ r.used = staffTx[t].used /\ r.new = staffTx[t].new
  BY <1>1 DEF MA!Call
<1> HIDE DEF r
<1>4. StaffCall(r)
  BY <1>1, <1>3 DEF StaffCall
<1>5. \A u \in Txns \ {t} : StaffApart(r, staffTx[u])
  BY <1>3 DEF StaffInv, StaffApart
<1> QED
  BY <1>2, <1>4, <1>5, StaffGoes

LEMMA StaffWrote ==
  ASSUME StaffInv, NEW t \in Txns, NEW what, NEW pc, MA!Wrote(t, what, pc),
         \/ /\ what = "invite" /\ pc = "lookup" /\ staffTx[t].pc = "claim"
            /\ \A i \in staffTx[t].used : invite[i].state = "open"
            /\ \A r \in MA!Others(t, "invite") : r.used # staffTx[t].used
         \/ /\ what = "user" /\ pc = "password" /\ staffTx[t].pc = "user" /\ role[staffTx[t].email] = Nobody
            /\ \A r \in MA!Others(t, "user") : r.email # staffTx[t].email
         \/ what = "password" /\ pc = "commit" /\ staffTx[t].pc = "password"
         \/ what = "google" /\ pc = "commit" /\ staffTx[t].pc = "google"
         \/ what = "verify" /\ pc = "commit" /\ staffTx[t].pc = "verify"
  PROVE  StaffInv'
<1> DEFINE r == [staffTx[t] EXCEPT !.new = @ \cup {what}, !.pc = pc]
<1>1. staffTx[t] \in MA!Call /\ StaffCall(staffTx[t])
  BY StaffTypes
<1>2. r \in MA!Call /\ MA!Step(t, r)
  BY <1>1 DEF MA!Call, MA!Wrote
<1>3. /\ r.pc = pc /\ r.op = staffTx[t].op /\ r.email = staffTx[t].email /\ r.role = staffTx[t].role
      /\ r.used = staffTx[t].used /\ r.new = staffTx[t].new \cup {what}
      /\ r.op \in {"none", "owner", "register", "verify", "google"}
  BY <1>1 DEF MA!Call
<1> HIDE DEF r
<1>4. StaffCall(r)
  <2>1. CASE what = "invite"
    BY <1>1, <1>3, <2>1 DEF StaffCall
  <2>2. CASE what = "user"
    BY <1>1, <1>3, <2>2 DEF StaffCall
  <2>3. CASE what = "password"
    BY <1>1, <1>3, <2>3 DEF StaffCall
  <2>4. CASE what = "google"
    BY <1>1, <1>3, <2>4 DEF StaffCall
  <2>5. CASE what = "verify"
    BY <1>1, <1>3, <2>5 DEF StaffCall
  <2> QED
    BY <2>1, <2>2, <2>3, <2>4, <2>5
<1>5. ASSUME NEW u \in Txns \ {t} PROVE StaffApart(r, staffTx[u])
  <2>1. StaffApart(staffTx[t], staffTx[u])
    BY DEF StaffInv
  <2>2. ASSUME NEW x, x \in staffTx[u].new PROVE staffTx[u] \in MA!Others(t, x)
    BY <2>2 DEF MA!Others
  <2> QED
    BY <1>3, <2>1, <2>2 DEF StaffApart
<1> QED
  BY <1>2, <1>4, <1>5, StaffGoes

LEMMA StaffRuns == ASSUME StaffInv, NEW t \in Txns, MA!Run(t), ~MA!Commit(t) PROVE StaffInv'
<1>1. CASE MA!Claim(t)
  BY <1>1, StaffWrote, StaffReturns DEF MA!Claim
<1>2. CASE MA!Lookup(t)
  BY <1>2, StaffGoto, StaffReturns DEF MA!Lookup
<1>3. CASE MA!Prove(t)
  BY <1>3, StaffGoto, StaffReturns DEF MA!Prove
<1>4. CASE MA!InsertUser(t)
  BY <1>4, StaffWrote, StaffReturns DEF MA!InsertUser, MA!User
<1>5. CASE MA!InsertPassword(t)
  BY <1>5, StaffWrote DEF MA!InsertPassword
<1>6. CASE MA!InsertGoogle(t)
  BY <1>6, StaffWrote, StaffReturns DEF MA!InsertGoogle
<1>7. CASE MA!Verify(t)
  BY <1>7, StaffWrote DEF MA!Verify
<1> QED
  BY <1>1, <1>2, <1>3, <1>4, <1>5, <1>6, <1>7 DEF MA!Run

LEMMA InviteInState ==
  ASSUME NEW v \in MA!Invite, NEW s \in {"none", "open", "used"}
  PROVE  [state |-> s, email |-> v.email, role |-> v.role, by |-> v.by] \in MA!Invite
BY DEF MA!Invite

\* What a commit does to the tables and to the history.
LEMMA StaffTables ==
  ASSUME StaffInv, NEW t \in Txns, MA!Commit(t)
  PROVE  LET r == staffTx[t]
         IN  /\ \A e \in StaffEmails :
                  /\ role'[e] = IF "user" \in r.new /\ e = r.email THEN r.role ELSE role[e]
                  /\ secret'[e] = IF "password" \in r.new /\ e = r.email
                                  THEN IF r.vouched THEN "verified" ELSE "unverified"
                                  ELSE IF "verify" \in r.new /\ e = r.email THEN "verified" ELSE secret[e]
                  /\ subject'[e] = IF "google" \in r.new /\ e = r.email THEN r.sub ELSE subject[e]
                  /\ redeemed'[e] = IF r.op = "register" /\ e = r.email THEN redeemed[e] \cup r.used ELSE redeemed[e]
             /\ \A i \in Invites :
                  /\ invite'[i].state = IF i \in r.used THEN "used" ELSE invite[i].state
                  /\ invite'[i].email = invite[i].email /\ invite'[i].role = invite[i].role
                  /\ invite'[i].by = invite[i].by
             /\ founders' = IF r.op = "owner" THEN founders \cup {r.email} ELSE founders
             /\ staffTx' = [staffTx EXCEPT ![t] = MA!Idle] /\ UNCHANGED <<stale, staffCalls, staffAborts>>
             /\ MA!TypeOK'
<1> DEFINE r == staffTx[t]
<1>1. /\ r \in MA!Call /\ StaffCall(r) /\ r.pc = "commit" /\ r.email \in StaffEmails
      /\ r.op \in {"owner", "register", "verify", "google"}
  BY StaffTypes DEF MA!Commit, StaffCall, MA!Call
<1>2. MA!TypeOK
  BY DEF StaffInv
<1>3. /\ invite' = [i \in Invites |-> IF i \in r.used THEN [invite[i] EXCEPT !.state = "used"] ELSE invite[i]]
      /\ role' = IF "user" \in r.new THEN [role EXCEPT ![r.email] = r.role] ELSE role
      /\ secret' = CASE "password" \in r.new -> [secret EXCEPT ![r.email] =
                                                     IF r.vouched THEN "verified" ELSE "unverified"]
                     [] "verify" \in r.new   -> [secret EXCEPT ![r.email] = "verified"]
                     [] OTHER                -> secret
      /\ subject' = IF "google" \in r.new THEN [subject EXCEPT ![r.email] = r.sub] ELSE subject
      /\ founders' = IF r.op = "owner" THEN founders \cup {r.email} ELSE founders
      /\ redeemed' = IF r.op = "register" THEN [redeemed EXCEPT ![r.email] = @ \cup r.used] ELSE redeemed
      /\ staffTx' = [staffTx EXCEPT ![t] = MA!Idle] /\ UNCHANGED <<stale, staffCalls, staffAborts>>
  BY DEF MA!Commit
<1>4. ~("password" \in r.new /\ "verify" \in r.new)
  BY <1>1 DEF StaffCall
<1>5. ASSUME NEW i \in Invites
      PROVE  /\ invite'[i] = [state |-> IF i \in r.used THEN "used" ELSE invite[i].state,
                              email |-> invite[i].email, role |-> invite[i].role, by |-> invite[i].by]
             /\ invite[i] \in MA!Invite
  BY <1>2, <1>3 DEF MA!TypeOK, MA!Invite
<1>6. invite' \in [Invites -> MA!Invite]
  <2>1. ASSUME NEW i \in Invites PROVE invite'[i] \in MA!Invite
    <3>1. invite[i] \in MA!Invite
      BY <1>5
    <3>2. (IF i \in r.used THEN "used" ELSE invite[i].state) \in {"none", "open", "used"}
      BY <3>1 DEF MA!Invite
    <3> QED
      BY <1>5, <3>1, <3>2, InviteInState
  <2> QED
    BY <1>3, <2>1
<1>7. r.role \in MA!Roles \cup {Nobody} /\ r.sub \in StaffSubs \cup {Nobody} /\ r.used \in SUBSET Invites
  BY <1>1 DEF MA!Call
<1> HIDE DEF r
<1>8. /\ role' \in [StaffEmails -> MA!Roles \cup {Nobody}] /\ subject' \in [StaffEmails -> StaffSubs \cup {Nobody}]
      /\ secret' \in [StaffEmails -> {"none", "unverified", "verified"}]
      /\ redeemed' \in [StaffEmails -> SUBSET Invites] /\ founders' \in SUBSET StaffEmails
  BY <1>1, <1>2, <1>3, <1>7 DEF MA!TypeOK
<1>9. MA!TypeOK'
  BY <1>2, <1>3, <1>6, <1>8, IdleStaff DEF MA!TypeOK
<1>10. \A e \in StaffEmails :
         /\ role'[e] = IF "user" \in r.new /\ e = r.email THEN r.role ELSE role[e]
         /\ secret'[e] = IF "password" \in r.new /\ e = r.email
                         THEN IF r.vouched THEN "verified" ELSE "unverified"
                         ELSE IF "verify" \in r.new /\ e = r.email THEN "verified" ELSE secret[e]
         /\ subject'[e] = IF "google" \in r.new /\ e = r.email THEN r.sub ELSE subject[e]
         /\ redeemed'[e] = IF r.op = "register" /\ e = r.email THEN redeemed[e] \cup r.used ELSE redeemed[e]
  BY <1>1, <1>2, <1>3, <1>4 DEF MA!TypeOK
<1> QED
  BY ZenonT(30), <1>3, <1>5, <1>9, <1>10 DEF r

LEMMA StaffCommits == ASSUME StaffInv, NEW t \in Txns, MA!Commit(t) PROVE StaffInv'
<1> DEFINE r == staffTx[t]
<1>1. /\ r \in MA!Call /\ StaffCall(r) /\ r.pc = "commit" /\ r.email \in StaffEmails
      /\ r.op \in {"owner", "register", "verify", "google"}
  BY StaffTypes DEF MA!Commit, StaffCall, MA!Call
<1>2. \A e \in StaffEmails :
        /\ role'[e] = IF "user" \in r.new /\ e = r.email THEN r.role ELSE role[e]
        /\ secret'[e] = IF "password" \in r.new /\ e = r.email
                        THEN IF r.vouched THEN "verified" ELSE "unverified"
                        ELSE IF "verify" \in r.new /\ e = r.email THEN "verified" ELSE secret[e]
        /\ subject'[e] = IF "google" \in r.new /\ e = r.email THEN r.sub ELSE subject[e]
        /\ redeemed'[e] = IF r.op = "register" /\ e = r.email THEN redeemed[e] \cup r.used ELSE redeemed[e]
  BY StaffTables
<1>3. \A i \in Invites :
        /\ invite'[i].state = IF i \in r.used THEN "used" ELSE invite[i].state
        /\ invite'[i].email = invite[i].email /\ invite'[i].role = invite[i].role
        /\ invite'[i].by = invite[i].by
  BY StaffTables
<1>4. /\ founders' = IF r.op = "owner" THEN founders \cup {r.email} ELSE founders
      /\ staffTx' = [staffTx EXCEPT ![t] = MA!Idle] /\ MA!TypeOK'
  BY StaffTables
<1>5. /\ \A i \in Invites : invite[i].state # "none" => InviteIssued(i)
      /\ \A e \in StaffEmails : secret[e] # "none" \/ redeemed[e] # {} => role[e] # Nobody
      /\ \A e \in StaffEmails : redeemed[e] \in SUBSET Invites /\ \A i \in redeemed[e] : invite[i].state = "used"
      /\ LetIn /\ MA!TypeOK
  BY DEF StaffInv, StaffKept, MA!TypeOK
<1>6. /\ r.op = "register" => /\ \E i \in Invites : /\ r.used = {i} /\ invite[i].state = "open"
                                                    /\ r.email = invite[i].email /\ r.role = invite[i].role
                              /\ "user" \in r.new
      /\ r.op # "register" => r.used = {}
      /\ r.op = "owner" => "user" \in r.new
      /\ "user" \in r.new => r.op \in {"owner", "register"} /\ r.role \in MA!Roles /\ role[r.email] = Nobody
      /\ "password" \in r.new => "user" \in r.new
      /\ "verify" \in r.new => secret[r.email] # "none"
      /\ "google" \in r.new => secret[r.email] = "verified"
  <2>1. r.op = "register" => \E i \in Invites : r.used = {i} /\ invite[i].role \in MA!Roles /\ r.role = invite[i].role
    BY <1>1, <1>5 DEF StaffCall, InviteIssued
  <2> QED
    BY <1>1, <2>1 DEF StaffCall
<1>7. r.sub \in StaffSubs \cup {Nobody} /\ Nobody \notin MA!Roles /\ r.used \in SUBSET Invites
  BY <1>1, StaffAssumption DEF MA!Call
<1> HIDE DEF r
\* Who has a role keeps it, and the history of how he got it.
<1>8. \A e \in StaffEmails : role[e] # Nobody => role'[e] = role[e] /\ redeemed'[e] = redeemed[e]
  BY <1>1, <1>2, <1>6
<1>9. StaffKept'
  <2>1. ASSUME NEW i \in Invites, invite'[i].state # "none" PROVE InviteIssued(i)'
    <3>1. InviteIssued(i)
      BY <1>3, <1>5, <1>6, <2>1
    <3>2. role[invite[i].by] # Nobody
      BY <1>7, <3>1 DEF InviteIssued
    <3> QED
      BY <1>3, <1>8, <3>1, <3>2 DEF InviteIssued
  <2>2. ASSUME NEW e \in StaffEmails, secret'[e] # "none" \/ redeemed'[e] # {} PROVE role'[e] # Nobody
    <3>1. CASE "user" \in r.new /\ e = r.email
      BY <1>2, <1>6, <1>7, <3>1
    <3>2. CASE ~("user" \in r.new /\ e = r.email)
      <4>1. secret[e] # "none" \/ redeemed[e] # {}
        BY <1>2, <1>6, <2>2, <3>2
      <4> QED
        BY <1>5, <1>8, <4>1
    <3> QED
      BY <3>1, <3>2
  <2>3. ASSUME NEW e \in StaffEmails, NEW i \in redeemed'[e] PROVE invite'[i].state = "used"
    <3>1. i \in Invites
      BY <1>2, <1>5, <1>7
    <3> QED
      BY ZenonT(30), <1>2, <1>3, <1>5, <3>1
  <2> QED
    BY <2>1, <2>2, <2>3 DEF StaffKept
<1>10. LetIn'
  <2>1. ASSUME NEW e \in StaffEmails, role'[e] # Nobody, e \notin founders'
        PROVE  \E i \in Invites : /\ redeemed'[e] = {i} /\ invite'[i].email = e /\ invite'[i].role = role'[e]
                                  /\ MA!Rank[role'[e]] >= MA!Rank[role'[invite'[i].by]]
    <3>1. CASE role[e] # Nobody
      <4>1. e \notin founders
        BY <1>4, <2>1
      <4>2. PICK i \in Invites : /\ redeemed[e] = {i} /\ invite[i].email = e /\ invite[i].role = role[e]
                                 /\ MA!Rank[role[e]] >= MA!Rank[role[invite[i].by]]
        BY <1>5, <3>1, <4>1 DEF LetIn, MA!LetIn, MA!User
      <4>3. invite[i].by \in StaffEmails /\ role[invite[i].by] # Nobody
        BY <1>5, <1>7, <4>2 DEF InviteIssued
      <4> QED
        BY <1>3, <1>8, <3>1, <4>2, <4>3
    <3>2. CASE role[e] = Nobody
      <4>1. e = r.email /\ "user" \in r.new /\ r.op = "register" /\ role'[e] = r.role
        BY <1>2, <1>4, <1>6, <2>1, <3>2
      <4>2. redeemed[e] = {} /\ redeemed'[e] = r.used
        BY <1>2, <1>5, <3>2, <4>1
      <4>3. PICK i \in Invites : r.used = {i} /\ invite[i].state = "open" /\ e = invite[i].email /\ r.role = invite[i].role
        BY <1>6, <4>1
      <4>4. InviteIssued(i)
        BY <1>5, <4>3
      <4>5. role'[invite[i].by] = role[invite[i].by]
        BY <1>7, <1>8, <4>4 DEF InviteIssued
      <4> QED
        BY <1>3, <4>1, <4>2, <4>3, <4>4, <4>5 DEF InviteIssued
    <3> QED
      BY <3>1, <3>2
  <2>2. ASSUME NEW i \in Invites, invite'[i].state = "used" PROVE \E e \in StaffEmails : redeemed'[e] = {i}
    <3>1. CASE i \in r.used
      <4>1. r.op = "register" /\ r.used = {i} /\ role[r.email] = Nobody
        BY <1>6, <3>1
      <4>2. redeemed[r.email] = {}
        BY <1>1, <1>5, <4>1
      <4> QED
        BY <1>1, <1>2, <4>1, <4>2
    <3>2. CASE i \notin r.used
      <4>1. PICK e \in StaffEmails : redeemed[e] = {i}
        BY <1>3, <1>5, <2>2, <3>2 DEF LetIn, MA!LetIn
      <4>2. role[e] # Nobody
        BY <1>5, <4>1
      <4> QED
        BY <1>8, <4>1, <4>2
    <3> QED
      BY <3>1, <3>2
  <2>3. ASSUME NEW e \in StaffEmails, subject'[e] # Nobody PROVE secret'[e] = "verified"
    <3>1. subject[e] # Nobody => secret[e] = "verified"
      BY <1>5 DEF LetIn, MA!LetIn
    <3>2. secret[e] = "verified"
      BY <1>2, <1>6, <2>3, <3>1
    <3> QED
      BY <1>2, <1>5, <1>6, <3>2
  <2> QED
    BY <2>1, <2>2, <2>3 DEF LetIn, MA!LetIn, MA!User
<1>11. \A u \in Txns : staffTx'[u] = IF u = t THEN MA!Idle ELSE staffTx[u]
  BY <1>4, <1>5 DEF MA!TypeOK
<1>12. ASSUME NEW u \in Txns PROVE StaffCall(staffTx[u])'
  <2>1. CASE u = t
    <3>1. staffTx'[u] = MA!Idle
      BY <1>11, <2>1
    <3>2. staffTx'[u].pc = "idle" /\ staffTx'[u].op = "none" /\ staffTx'[u].new = {}
      BY <3>1, IdleStaff
    <3> QED
      BY <3>2 DEF StaffCall
  <2>2. CASE u # t
    <3> DEFINE s == staffTx[u]
    <3>1. s \in MA!Call /\ StaffCall(s) /\ StaffApart(s, r) /\ staffTx'[u] = s
      BY <1>11, <2>2, StaffTypes DEF StaffInv, r
    <3>2. s.used \in SUBSET Invites
      BY <3>1 DEF MA!Call
    <3> HIDE DEF s
    <3>3. s.pc # "idle" => (secret[s.email] # "none" => secret'[s.email] # "none")
      BY <1>2, <3>1 DEF StaffCall
    <3>4. s.pc # "idle" => (secret[s.email] = "verified" => secret'[s.email] = "verified")
      BY <1>2, <1>5, <1>6, <3>1 DEF StaffCall
    <3>5. "user" \in s.new => (role[s.email] = Nobody => role'[s.email] = Nobody)
      <4>1. "user" \in s.new => s.email \in StaffEmails
        BY <3>1 DEF StaffCall
      <4> QED
        BY <1>2, <3>1, <4>1 DEF StaffApart
    <3>6. ASSUME "invite" \in s.new, NEW i \in s.used, invite[i].state = "open" PROVE invite'[i].state = "open"
      <4>1. i \notin r.used
        <5>1. s.used = {i}
          BY <3>1, <3>6 DEF StaffCall
        <5>2. r.used = {} \/ ("invite" \in r.new /\ \E j \in Invites : r.used = {j})
          BY <1>1, <1>6 DEF StaffCall
        <5> QED
          BY <3>1, <3>6, <5>1, <5>2 DEF StaffApart
      <4> QED
        BY <1>3, <3>2, <3>6, <4>1
    <3>7. ASSUME NEW i \in Invites, invite[i].state # "none"
          PROVE  invite'[i].state # "none" /\ invite'[i].email = invite[i].email /\ invite'[i].role = invite[i].role
      BY <1>3, <3>7
    <3>8. s.op = "none" \/ s.op = "owner" \/ s.op = "register" \/ s.op = "verify" \/ s.op = "google"
      BY <3>1 DEF MA!Call
    <3>9. StaffCall(s)'
      BY <3>1, <3>3, <3>4, <3>5, <3>6, <3>7, <3>8 DEF StaffCall, s
    <3> QED
      BY <3>9 DEF s
  <2> QED
    BY <2>1, <2>2
<1>13. ASSUME NEW u \in Txns, NEW v \in Txns \ {u} PROVE StaffApart(staffTx[u], staffTx[v])'
  <2>1. StaffApart(staffTx'[u], staffTx'[v])
    BY <1>11, IdleStaff, StaffTypes DEF StaffInv
  <2> QED
    BY <2>1 DEF StaffApart
<1> QED
  BY <1>4, <1>9, <1>10, <1>12, <1>13 DEF StaffInv

LEMMA StaffAborts == ASSUME StaffInv, NEW t \in Txns, MA!Abort(t) PROVE StaffInv'
<1>1. staffTx' = [staffTx EXCEPT ![t] = MA!Idle] /\ staffAborts' = staffAborts + 1
      /\ UNCHANGED <<invite, stale, role, secret, subject, founders, redeemed, staffCalls>>
  BY DEF MA!Abort, MA!users, MA!history
<1>2. staffCalls' \in Nat /\ staffAborts' \in Nat
  BY <1>1 DEF StaffInv, MA!TypeOK
<1>3. \A u \in Txns \ {t} : StaffApart(MA!Idle, staffTx[u])
  BY StaffTypes, IdleStaff
<1> QED
  BY <1>1, <1>2, <1>3, IdleStaff, StaffStep

LEMMA StaffInvites ==
  ASSUME StaffInv, NEW by \in StaffEmails, NEW e \in StaffEmails, NEW r \in MA!Roles, MA!InviteMember(by, e, r)
  PROVE  StaffInv'
<1>1. PICK i \in Invites : /\ invite[i].state = "none"
                           /\ invite' = [invite EXCEPT ![i] = [state |-> "open", email |-> e, role |-> r, by |-> by]]
  BY DEF MA!InviteMember
<1>2. /\ UNCHANGED <<stale, role, secret, subject, founders, redeemed, staffTx, staffCalls, staffAborts>>
      /\ role[by] # Nobody /\ ~(MA!Rank[r] < MA!Rank[role[by]])
  BY DEF MA!InviteMember, MA!users, MA!history, MA!User, MA!Outranks
<1>3. MA!TypeOK /\ role[by] \in MA!Roles
  BY <1>2 DEF StaffInv, MA!TypeOK
<1>4. \A j \in Invites : invite'[j] = IF j = i THEN [state |-> "open", email |-> e, role |-> r, by |-> by] ELSE invite[j]
  BY <1>1, <1>3 DEF MA!TypeOK
<1>5. MA!TypeOK'
  <2>1. [state |-> "open", email |-> e, role |-> r, by |-> by] \in MA!Invite
    BY DEF MA!Invite
  <2> QED
    BY <1>1, <1>2, <1>3, <2>1 DEF MA!TypeOK
<1>6. ASSUME NEW j \in Invites, invite'[j].state # "none" PROVE InviteIssued(j)'
  <2>1. CASE j = i
    BY <1>2, <1>3, <1>4, <2>1, RoleRanks DEF InviteIssued
  <2>2. CASE j # i
    <3>1. InviteIssued(j)
      BY <1>4, <1>6, <2>2 DEF StaffInv, StaffKept
    <3> QED
      BY <1>2, <1>4, <2>2, <3>1 DEF InviteIssued
  <2> QED
    BY <2>1, <2>2
\* The new invite was nobody's.
<1>7. ASSUME NEW f \in StaffEmails PROVE redeemed[f] \in SUBSET Invites /\ i \notin redeemed[f]
  BY <1>1, <1>3 DEF StaffInv, StaffKept, MA!TypeOK
<1>8. StaffKept'
  BY <1>2, <1>4, <1>6, <1>7 DEF StaffInv, StaffKept
<1>9. LetIn'
  <2>1. ASSUME NEW f \in StaffEmails, role[f] # Nobody, f \notin founders
        PROVE  \E j \in Invites : /\ redeemed'[f] = {j} /\ invite'[j].email = f /\ invite'[j].role = role'[f]
                                  /\ MA!Rank[role'[f]] >= MA!Rank[role'[invite'[j].by]]
    <3>1. PICK j \in Invites : /\ redeemed[f] = {j} /\ invite[j].email = f /\ invite[j].role = role[f]
                               /\ MA!Rank[role[f]] >= MA!Rank[role[invite[j].by]]
      BY <2>1 DEF StaffInv, LetIn, MA!LetIn, MA!User
    <3>2. j # i
      BY <1>7, <3>1
    <3> QED
      BY <1>2, <1>4, <3>1, <3>2
  <2>2. ASSUME NEW j \in Invites, invite'[j].state = "used" PROVE \E f \in StaffEmails : redeemed[f] = {j}
    BY <1>4, <2>2 DEF StaffInv, LetIn, MA!LetIn
  <2> QED
    BY <1>2, <2>1, <2>2 DEF StaffInv, LetIn, MA!LetIn, MA!User
<1>10. ASSUME NEW u \in Txns PROVE StaffCall(staffTx[u])'
  <2>1. StaffCall(staffTx[u]) /\ staffTx[u] \in MA!Call /\ staffTx[u].used \in SUBSET Invites
    BY StaffTypes DEF MA!Call
  <2>2. \A j \in staffTx[u].used : invite[j].state # "none" => invite'[j] = invite[j]
    BY <1>1, <1>4, <2>1
  <2> QED
    BY <1>2, <2>1, <2>2 DEF StaffCall
<1>11. ASSUME NEW u \in Txns, NEW v \in Txns \ {u} PROVE StaffApart(staffTx[u], staffTx[v])'
  BY <1>2 DEF StaffInv, StaffApart
<1> QED
  BY <1>5, <1>8, <1>9, <1>10, <1>11 DEF StaffInv

LEMMA StaffInit == MA!Init => StaffInv
<1> SUFFICES ASSUME MA!Init PROVE StaffInv
  OBVIOUS
<1>1. MA!NoInvite \in MA!Invite /\ MA!NoInvite.state = "none"
  BY DEF MA!NoInvite, MA!Invite
<1>2. MA!TypeOK
  BY <1>1, IdleStaff DEF MA!Init, MA!TypeOK
<1>3. StaffKept /\ LetIn
  BY <1>1 DEF MA!Init, StaffKept, LetIn, MA!LetIn, MA!User
<1> QED
  BY <1>2, <1>3, IdleStaff DEF MA!Init, StaffInv

LEMMA StaffStays ==
  ASSUME StaffInv, stale' \in SUBSET Invites,
         UNCHANGED <<invite, role, secret, subject, founders, redeemed, staffTx, staffCalls, staffAborts>>
  PROVE  StaffInv'
<1>1. MA!TypeOK'
  BY DEF StaffInv, MA!TypeOK
<1>2. StaffKept' /\ LetIn'
  BY DEF StaffInv, StaffKept, InviteIssued, LetIn, MA!LetIn, MA!User
<1>3. \A t \in Txns : StaffCall(staffTx[t])'
  BY DEF StaffInv, StaffCall
<1>4. \A t \in Txns : \A u \in Txns \ {t} : StaffApart(staffTx[t], staffTx[u])'
  BY DEF StaffInv, StaffApart
<1> QED
  BY <1>1, <1>2, <1>3, <1>4 DEF StaffInv

LEMMA StaffNext == ASSUME StaffInv, [MA!Next]_MA!vars PROVE StaffInv'
<1>1. CASE UNCHANGED MA!vars
  BY <1>1, StaffStays DEF MA!vars, MA!users, MA!history, StaffInv, MA!TypeOK
<1>2. ASSUME NEW i \in Invites, MA!Expire(i) PROVE StaffInv'
  <2>1. /\ UNCHANGED <<invite, role, secret, subject, founders, redeemed, staffTx, staffCalls, staffAborts>>
        /\ stale' \in SUBSET Invites
    BY <1>2 DEF MA!Expire, MA!users, MA!history, StaffInv, MA!TypeOK
  <2> QED
    BY <2>1, StaffStays
<1> QED
  BY <1>1, <1>2, StaffBegins, StaffRuns, StaffCommits, StaffAborts, StaffInvites DEF MA!Next

(* Invitations, registrations, Google sign-ins and crashes in any number and   *)
(* order let nobody onto the staff but with an invite of their own, issued by  *)
(* somebody of no lower role; an invite lets in one user and is not lost to a  *)
(* registration that failed (inviteMember, register, findOrCreateFromGoogle).  *)
THEOREM StaffLetIn == MA!Spec => []LetIn
<1>1. StaffInv => LetIn
  BY DEF StaffInv
<1> QED
  BY <1>1, StaffInit, StaffNext, PTL DEF MA!Spec

--------------------------------------------------------------------------------
(* The row of a user and the object of its avatar.                         *)

\* The call has read the row, and sets its own column on what it read.
Loaded(r) == r.pc \in {"compare", "write", "commit"}

\* What a call is at each place.
ProfileCall(r) ==
  /\ r.pc # "idle" => r.op \in {"upload", "delete", "locale"}
  /\ r.pc = "put" => r.op = "upload"
  /\ r.pc = "unlink" => r.op = "delete"
  /\ Loaded(r) => /\ r.op = "upload" => r.ent.url
                  /\ r.op = "delete" => ~r.ent.url

\* A call on its own holds the row as it is, and every column that it changes.
HoldsRow(r) ==
  /\ Loaded(r) => /\ r.op # "locale" => r.ent.locale = user.locale
                  /\ r.op = "locale" => r.ent.url = user.url
  /\ r.pc \in {"write", "commit"} => \A c \in {"url", "locale"} : c \in r.cols <=> r.ent[c] # user[c]

\* Whoever sets an avatar, or has read one, has its object in the storage; a
\* deletion takes the url before the object.
HasObject(r) ==
  /\ r.op = "upload" /\ r.pc \notin {"idle", "put"} => stored
  /\ r.op = "locale" /\ Loaded(r) /\ r.ent.url => stored
  /\ r.op = "delete" /\ r.pc \in {"write", "commit"} /\ user.url => "url" \in r.cols
  /\ r.pc = "unlink" => ~user.url

Together(t, u) == userTx[t].pc # "idle" /\ userTx[u].pc # "idle"

ProfileAlone ==
  /\ user = wished
  /\ \A t \in Txns : HoldsRow(userTx[t])
  /\ \A t \in Txns : \A u \in Txns \ {t} : ~Together(t, u)

ProfileStored ==
  /\ user.url => stored
  /\ \A t \in Txns : HasObject(userTx[t])
  /\ \A t \in Txns : \A u \in Txns \ {t} :
       Together(t, u) => (userTx[t].op = "delete" <=> userTx[u].op = "delete")

ProfileInv ==
  /\ PR!TypeOK
  /\ \A t \in Txns : ProfileCall(userTx[t])
  /\ ~raced => ProfileAlone
  /\ ~crossed => ProfileStored

LEMMA IdleUser ==
  /\ PR!Idle \in PR!Call /\ PR!Idle.pc = "idle" /\ ProfileCall(PR!Idle) /\ HoldsRow(PR!Idle) /\ HasObject(PR!Idle)
  /\ PR!New \in PR!User /\ ~PR!New.url
BY DEF PR!Idle, PR!New, PR!Call, PR!User, ProfileCall, HoldsRow, HasObject, Loaded

LEMMA ProfileTypes ==
  ASSUME ProfileInv
  PROVE  /\ \A t \in Txns : userTx[t] \in PR!Call /\ ProfileCall(userTx[t]) /\ userTx[t].ent \in PR!User
         /\ userTx \in [Txns -> PR!Call] /\ user \in PR!User /\ wished \in PR!User /\ stored \in BOOLEAN
         /\ raced \in BOOLEAN /\ crossed \in BOOLEAN /\ userCalls \in Nat /\ userAborts \in Nat
         /\ PR!Idle \in PR!Call
BY IdleUser DEF ProfileInv, PR!TypeOK, PR!Call

\* A step of the call of t, which becomes r and leaves the row and its object.
LEMMA ProfileStep ==
  ASSUME ProfileInv, NEW t \in Txns, NEW r \in PR!Call, userTx' = [userTx EXCEPT ![t] = r],
         UNCHANGED <<user, stored, wished, raced, crossed>>, userCalls' \in Nat, userAborts' \in Nat,
         ProfileCall(r), r.pc # "idle" => userTx[t].pc # "idle" /\ r.op = userTx[t].op,
         ~raced => HoldsRow(r), ~crossed => HasObject(r)
  PROVE  ProfileInv'
<1>1. \A u \in Txns : userTx'[u] = IF u = t THEN r ELSE userTx[u]
  BY ProfileTypes
<1>2. PR!TypeOK'
  BY ProfileTypes DEF PR!TypeOK
<1>3. \A u \in Txns : ProfileCall(userTx[u])'
  BY <1>1, ProfileTypes DEF ProfileCall, Loaded
<1>4. ASSUME ~raced PROVE ProfileAlone'
  <2>1. \A u \in Txns : HoldsRow(userTx'[u])
    BY <1>1, <1>4 DEF ProfileInv, ProfileAlone
  <2>2. \A u \in Txns : HoldsRow(userTx[u])'
    BY <2>1 DEF HoldsRow, Loaded
  <2> QED
    BY <1>1, <1>4, <2>2 DEF ProfileInv, ProfileAlone, Together
<1>5. ASSUME ~crossed PROVE ProfileStored'
  <2>1. \A u \in Txns : HasObject(userTx'[u])
    BY <1>1, <1>5 DEF ProfileInv, ProfileStored
  <2>2. \A u \in Txns : HasObject(userTx[u])'
    BY <2>1 DEF HasObject, Loaded
  <2> QED
    BY <1>1, <1>5, <2>2 DEF ProfileInv, ProfileStored, Together
<1> QED
  BY <1>2, <1>3, <1>4, <1>5 DEF ProfileInv

LEMMA ProfileGoes ==
  ASSUME ProfileInv, NEW t \in Txns, NEW r \in PR!Call, PR!Step(t, r), ProfileCall(r),
         r.pc # "idle" => userTx[t].pc # "idle" /\ r.op = userTx[t].op,
         ~raced => HoldsRow(r), ~crossed => HasObject(r)
  PROVE  ProfileInv'
<1>1. userTx' = [userTx EXCEPT ![t] = r] /\ UNCHANGED <<user, stored, wished, raced, crossed, userCalls, userAborts>>
  BY DEF PR!Step
<1>2. userCalls' \in Nat /\ userAborts' \in Nat
  BY <1>1, ProfileTypes
<1> QED
  BY <1>1, <1>2, ProfileStep

LEMMA ProfileArrives ==
  ASSUME ProfileInv, NEW t \in Txns, NEW r \in PR!Call, PR!Arrive(t, r), ProfileCall(r), r.pc \in {"put", "load"},
         r.op = "upload" => r.pc = "put"
  PROVE  ProfileInv'
<1>1. /\ userTx' = [userTx EXCEPT ![t] = r] /\ userCalls' = userCalls + 1
      /\ raced' = (raced \/ PR!Busy(t) # {})
      /\ crossed' = (crossed \/ \E u \in PR!Busy(t) : userTx[u].op # r.op /\ "delete" \in {userTx[u].op, r.op})
      /\ UNCHANGED <<user, stored, wished, userAborts>>
  BY DEF PR!Arrive
<1>2. \A u \in Txns : userTx'[u] = IF u = t THEN r ELSE userTx[u]
  BY <1>1, ProfileTypes
<1>3. PR!TypeOK'
  BY <1>1, ProfileTypes DEF PR!TypeOK
<1>4. \A u \in Txns : ProfileCall(userTx[u])'
  BY <1>2, ProfileTypes DEF ProfileCall, Loaded
<1>5. HoldsRow(r) /\ HasObject(r)
  BY DEF HoldsRow, HasObject, Loaded, ProfileCall
<1>6. \A u \in Txns \ {t} : userTx[u].pc # "idle" <=> u \in PR!Busy(t)
  BY DEF PR!Busy
<1>7. ASSUME ~raced' PROVE ProfileAlone'
  <2>1. ~raced /\ PR!Busy(t) = {}
    BY <1>1, <1>7
  <2>2. \A u \in Txns : HoldsRow(userTx'[u])
    BY <1>2, <1>5, <2>1 DEF ProfileInv, ProfileAlone
  <2>3. \A u \in Txns : HoldsRow(userTx[u])'
    BY <1>1, <2>2 DEF HoldsRow, Loaded
  <2> QED
    BY <1>1, <1>2, <1>6, <2>1, <2>3 DEF ProfileInv, ProfileAlone, Together
<1>8. ASSUME ~crossed' PROVE ProfileStored'
  <2>1. ~crossed /\ \A u \in PR!Busy(t) : userTx[u].op = "delete" <=> r.op = "delete"
    BY <1>1, <1>8
  <2>2. \A u \in Txns : HasObject(userTx'[u])
    BY <1>2, <1>5, <2>1 DEF ProfileInv, ProfileStored
  <2>3. \A u \in Txns : HasObject(userTx[u])'
    BY <1>1, <2>2 DEF HasObject, Loaded
  <2> QED
    BY <1>1, <1>2, <1>6, <2>1, <2>3 DEF ProfileInv, ProfileStored, Together
<1> QED
  BY <1>3, <1>4, <1>7, <1>8 DEF ProfileInv

LEMMA ProfileBegins ==
  ASSUME ProfileInv, NEW t \in Txns,
         PR!BeginUpload(t) \/ PR!BeginDelete(t) \/ \E l \in Locales \cup {PR!NoLocale} : PR!BeginLocale(t, l)
  PROVE  ProfileInv'
<1>1. ASSUME NEW op \in {"upload", "delete"}, NEW pc \in {"put", "load"}, op = "upload" <=> pc = "put",
             PR!Arrive(t, [PR!Idle EXCEPT !.op = op, !.pc = pc])
      PROVE  ProfileInv'
  <2> DEFINE r == [PR!Idle EXCEPT !.op = op, !.pc = pc]
  <2>1. r \in PR!Call /\ r.op = op /\ r.pc = pc
    BY IdleUser DEF PR!Call
  <2> HIDE DEF r
  <2> QED
    BY <1>1, <2>1, ProfileArrives DEF ProfileCall, Loaded, r
<1>2. ASSUME NEW l \in Locales \cup {PR!NoLocale}, PR!BeginLocale(t, l) PROVE ProfileInv'
  <2> DEFINE r == [PR!Idle EXCEPT !.op = "locale", !.ent.locale = l, !.pc = "load"]
  <2>1. r \in PR!Call /\ r.op = "locale" /\ r.pc = "load" /\ PR!Arrive(t, r)
    BY <1>2, IdleUser DEF PR!Call, PR!User, PR!BeginLocale
  <2> HIDE DEF r
  <2> QED
    BY <2>1, ProfileArrives DEF ProfileCall, Loaded
<1> QED
  BY <1>1, <1>2 DEF PR!BeginUpload, PR!BeginDelete

LEMMA ProfilePuts == ASSUME ProfileInv, NEW t \in Txns, PR!Put(t) PROVE ProfileInv'
<1> DEFINE r == [userTx[t] EXCEPT !.pc = "load"]
<1>1. /\ userTx[t].pc = "put" /\ stored' = TRUE /\ userTx' = [userTx EXCEPT ![t] = r]
      /\ UNCHANGED <<user, wished, raced, crossed, userCalls, userAborts>>
  BY ProfileTypes DEF PR!Put
<1>2. r \in PR!Call /\ r.pc = "load" /\ r.op = userTx[t].op /\ r.op = "upload"
  BY <1>1, ProfileTypes DEF PR!Call, ProfileCall
<1> HIDE DEF r
<1>3. \A u \in Txns : userTx'[u] = IF u = t THEN r ELSE userTx[u]
  BY <1>1, ProfileTypes
<1>4. PR!TypeOK'
  BY <1>1, <1>2, ProfileTypes DEF PR!TypeOK
<1>5. \A u \in Txns : ProfileCall(userTx[u])'
  BY <1>2, <1>3, ProfileTypes DEF ProfileCall, Loaded
<1>6. ASSUME ~raced PROVE ProfileAlone'
  <2>1. \A u \in Txns : HoldsRow(userTx'[u])
    BY <1>2, <1>3, <1>6 DEF ProfileInv, ProfileAlone, HoldsRow, Loaded
  <2>2. \A u \in Txns : HoldsRow(userTx[u])'
    BY <1>1, <2>1 DEF HoldsRow, Loaded
  <2> QED
    BY <1>1, <1>2, <1>3, <1>6, <2>2 DEF ProfileInv, ProfileAlone, Together
<1>7. ASSUME ~crossed PROVE ProfileStored'
  <2>1. \A u \in Txns : HasObject(userTx[u])
    BY <1>7 DEF ProfileInv, ProfileStored
  <2>2. \A u \in Txns : HasObject(userTx[u])'
    BY <1>1, <1>2, <1>3, <2>1 DEF HasObject, Loaded
  <2>3. ASSUME NEW u \in Txns, NEW v \in Txns \ {u}, Together(u, v)'
        PROVE  userTx'[u].op = "delete" <=> userTx'[v].op = "delete"
    <3>1. \A x \in Txns : userTx'[x].op = userTx[x].op /\ (userTx'[x].pc # "idle" => userTx[x].pc # "idle")
      BY <1>1, <1>2, <1>3
    <3>2. Together(u, v)
      BY <2>3, <3>1 DEF Together
    <3> QED
      BY <1>7, <3>1, <3>2 DEF ProfileInv, ProfileStored
  <2> QED
    BY <1>1, <2>2, <2>3 DEF ProfileStored
<1> QED
  BY <1>1, <1>4, <1>5, <1>6, <1>7 DEF ProfileInv

LEMMA ProfileReturns == ASSUME ProfileInv, NEW t \in Txns, PR!Step(t, PR!Idle) PROVE ProfileInv'
BY IdleUser, ProfileGoes

LEMMA ProfileLoads == ASSUME ProfileInv, NEW t \in Txns, PR!Load(t) PROVE ProfileInv'
<1> DEFINE old == userTx[t]
           e == PR!Changed(old.op, user, old.ent.locale)
           r == [old EXCEPT !.ent = e, !.pc = "compare"]
<1>1. old.pc = "load" /\ PR!Step(t, IF old.op = "delete" /\ ~user.url THEN PR!Idle ELSE r)
  BY DEF PR!Load
<1>2. old \in PR!Call /\ ProfileCall(old) /\ user \in PR!User /\ old.ent \in PR!User
      /\ old.op \in {"upload", "delete", "locale"}
  BY <1>1, ProfileTypes DEF ProfileCall
<1>3. /\ e \in PR!User
      /\ e.url = IF old.op = "upload" THEN TRUE ELSE IF old.op = "delete" THEN FALSE ELSE user.url
      /\ old.op # "locale" => e.locale = user.locale
  <2>1. CASE old.op = "upload"
    BY <1>2, <2>1 DEF PR!Changed, PR!User
  <2>2. CASE old.op = "delete"
    BY <1>2, <2>2 DEF PR!Changed, PR!User
  <2>3. CASE old.op = "locale"
    BY <1>2, <2>3 DEF PR!Changed, PR!User
  <2> QED
    BY <1>2, <2>1, <2>2, <2>3
<1> HIDE DEF e
<1>4. r \in PR!Call /\ r.pc = "compare" /\ r.op = old.op /\ r.ent = e
  BY <1>2, <1>3 DEF PR!Call
<1>5. ProfileCall(r) /\ HoldsRow(r)
  BY <1>2, <1>3, <1>4 DEF ProfileCall, HoldsRow, Loaded
<1>6. ~crossed => HasObject(r)
  <2>1. ~crossed => (user.url => stored) /\ HasObject(old)
    BY DEF ProfileInv, ProfileStored
  <2> QED
    BY <1>1, <1>2, <1>3, <1>4, <2>1 DEF HasObject, Loaded
<1> HIDE DEF r
<1> QED
  BY <1>1, <1>4, <1>5, <1>6, ProfileGoes, ProfileReturns

LEMMA ProfileCompares == ASSUME ProfileInv, NEW t \in Txns, PR!Compare(t) PROVE ProfileInv'
<1> DEFINE old == userTx[t]
           C == { c \in {"url", "locale"} : old.ent[c] # user[c] }
           r == [old EXCEPT !.cols = C, !.pc = IF C = {} THEN "commit" ELSE "write"]
<1>1. old.pc = "compare" /\ PR!Step(t, r)
  BY DEF PR!Compare
<1>2. old \in PR!Call /\ ProfileCall(old) /\ C \in SUBSET {"url", "locale"}
  BY ProfileTypes
<1>3. \A c \in {"url", "locale"} : c \in C <=> old.ent[c] # user[c]
  OBVIOUS
<1> HIDE DEF C
<1>4. r \in PR!Call /\ r.pc \in {"commit", "write"} /\ r.op = old.op /\ r.ent = old.ent /\ r.cols = C
  BY <1>2 DEF PR!Call
<1> HIDE DEF r
<1>5. ProfileCall(r)
  BY <1>1, <1>2, <1>4 DEF ProfileCall, Loaded
<1>6. ~raced => HoldsRow(r)
  BY <1>1, <1>3, <1>4 DEF ProfileInv, ProfileAlone, HoldsRow, Loaded
<1>7. ~crossed => HasObject(r)
  <2>1. ~crossed => HasObject(old)
    BY DEF ProfileInv, ProfileStored
  <2>2. old.op = "delete" => ~old.ent.url
    BY <1>1, <1>2 DEF ProfileCall, Loaded
  <2> QED
    BY <1>1, <1>3, <1>4, <2>1, <2>2 DEF HasObject, Loaded
<1> QED
  BY <1>1, <1>4, <1>5, <1>6, <1>7, ProfileGoes

LEMMA ProfileWrites == ASSUME ProfileInv, NEW t \in Txns, PR!Write(t) PROVE ProfileInv'
<1> DEFINE old == userTx[t]
           r == [old EXCEPT !.wrote = TRUE, !.pc = "commit"]
<1>1. old.pc = "write" /\ PR!Step(t, r) /\ old \in PR!Call /\ ProfileCall(old)
  BY ProfileTypes DEF PR!Write
<1>2. r \in PR!Call /\ r.pc = "commit" /\ r.op = old.op /\ r.ent = old.ent /\ r.cols = old.cols
  BY <1>1 DEF PR!Call
<1> HIDE DEF r
<1>3. ProfileCall(r) /\ (HoldsRow(old) => HoldsRow(r)) /\ (HasObject(old) => HasObject(r))
  BY <1>1, <1>2 DEF ProfileCall, HoldsRow, HasObject, Loaded
<1> QED
  BY <1>1, <1>2, <1>3, ProfileGoes DEF ProfileInv, ProfileAlone, ProfileStored

LEMMA ProfileCommits == ASSUME ProfileInv, NEW t \in Txns, PR!Commit(t) PROVE ProfileInv'
<1> DEFINE r == userTx[t]
           q == IF r.op = "delete" THEN [PR!Idle EXCEPT !.op = r.op, !.pc = "unlink"] ELSE PR!Idle
<1>1. /\ r.pc = "commit" /\ user' = [c \in {"url", "locale"} |-> IF c \in r.cols THEN r.ent[c] ELSE user[c]]
      /\ wished' = [wished EXCEPT !.url = IF r.op = "locale" THEN @ ELSE r.op = "upload",
                                  !.locale = IF r.op = "locale" THEN r.ent.locale ELSE @]
      /\ userTx' = [userTx EXCEPT ![t] = q] /\ UNCHANGED <<stored, raced, crossed, userCalls, userAborts>>
  BY DEF PR!Commit, PR!Unlinks
<1>2. r \in PR!Call /\ ProfileCall(r) /\ r.ent \in PR!User /\ r.op \in {"upload", "delete", "locale"}
  BY <1>1, ProfileTypes DEF ProfileCall
<1>3. q \in PR!Call /\ (q.pc = "idle" \/ (q.pc = "unlink" /\ q.op = "delete" /\ r.op = "delete"))
  BY IdleUser DEF PR!Call
<1>4. /\ user' = [url |-> IF "url" \in r.cols THEN r.ent.url ELSE user.url,
                  locale |-> IF "locale" \in r.cols THEN r.ent.locale ELSE user.locale]
      /\ user' \in PR!User
  BY <1>1, <1>2, ProfileTypes DEF PR!User
<1>5. /\ wished' = [url |-> IF r.op = "locale" THEN wished.url ELSE r.op = "upload",
                    locale |-> IF r.op = "locale" THEN r.ent.locale ELSE wished.locale]
      /\ wished' \in PR!User
  BY <1>1, <1>2, ProfileTypes DEF PR!User
<1> HIDE DEF q
<1>6. \A u \in Txns : userTx'[u] = IF u = t THEN q ELSE userTx[u]
  BY <1>1, <1>3, ProfileTypes
<1>7. PR!TypeOK'
  BY <1>1, <1>3, <1>4, <1>5, ProfileTypes DEF PR!TypeOK
<1>8. \A u \in Txns : ProfileCall(userTx[u])'
  BY <1>3, <1>6, ProfileTypes DEF ProfileCall, Loaded
<1>9. ASSUME ~raced PROVE ProfileAlone'
  <2>1. ProfileAlone /\ HoldsRow(r)
    BY <1>9 DEF ProfileInv, ProfileAlone
  <2>2. user' = wished'
    <3>1. /\ "url" \in r.cols <=> r.ent.url # user.url
          /\ "locale" \in r.cols <=> r.ent.locale # user.locale
      BY <1>1, <2>1 DEF HoldsRow
    <3>2. user'.url = r.ent.url /\ user'.locale = r.ent.locale
      BY <1>4, <3>1
    <3>3. r.ent.url = IF r.op = "locale" THEN wished.url ELSE r.op = "upload"
      BY <1>1, <1>2, <2>1 DEF ProfileAlone, HoldsRow, ProfileCall, Loaded, PR!User
    <3>4. r.ent.locale = IF r.op = "locale" THEN r.ent.locale ELSE wished.locale
      BY <1>1, <1>2, <2>1 DEF ProfileAlone, HoldsRow, Loaded
    <3> QED
      BY <1>4, <1>5, <3>2, <3>3, <3>4 DEF PR!User
  <2>3. \A u \in Txns : u # t => userTx[u].pc = "idle"
    BY <1>1, <2>1 DEF ProfileAlone, Together
  <2>4. \A u \in Txns : HoldsRow(userTx[u])'
    BY <1>3, <1>6, <2>3 DEF HoldsRow, Loaded
  <2>5. \A u \in Txns : \A v \in Txns \ {u} : ~Together(u, v)'
    BY <1>6, <2>3 DEF Together
  <2> QED
    BY <2>2, <2>4, <2>5 DEF ProfileAlone
<1>10. ASSUME ~crossed PROVE ProfileStored'
  <2>1. ProfileStored /\ HasObject(r)
    BY <1>10 DEF ProfileInv, ProfileStored
  <2>2. user'.url => stored
    BY <1>1, <1>2, <1>4, <2>1 DEF ProfileStored, HasObject, ProfileCall, Loaded
  <2>3. r.op = "delete" => ~user'.url
    BY <1>1, <1>2, <1>4, <2>1 DEF HasObject, ProfileCall, Loaded
  <2>4. ASSUME NEW u \in Txns PROVE HasObject(userTx[u])'
    <3>1. CASE u = t
      BY <1>1, <1>3, <1>6, <2>3, <3>1 DEF HasObject, Loaded
    <3>2. CASE u # t
      <4>1. HasObject(userTx[u]) /\ ProfileCall(userTx[u]) /\ userTx'[u] = userTx[u]
        BY <1>6, <2>1, <3>2, ProfileTypes DEF ProfileStored
      <4>2. userTx[u].pc # "idle" => (userTx[u].op = "delete" <=> r.op = "delete")
        BY <1>1, <2>1, <3>2 DEF ProfileStored, Together
      <4>3. userTx[u].op = "delete" /\ userTx[u].pc # "idle" => ~user'.url
        BY <2>3, <4>2
      <4> QED
        BY <1>1, <4>1, <4>3 DEF HasObject, ProfileCall, Loaded
    <3> QED
      BY <3>1, <3>2
  <2>5. \A u \in Txns : \A v \in Txns \ {u} :
          Together(u, v)' => (userTx'[u].op = "delete" <=> userTx'[v].op = "delete")
    BY <1>1, <1>3, <1>6, <2>1 DEF ProfileStored, Together
  <2> QED
    BY <1>1, <2>2, <2>4, <2>5 DEF ProfileStored
<1> QED
  BY <1>1, <1>7, <1>8, <1>9, <1>10 DEF ProfileInv

LEMMA ProfileUnlinks == ASSUME ProfileInv, NEW t \in Txns, PR!Unlink(t) PROVE ProfileInv'
<1>1. /\ userTx[t].pc = "unlink" /\ userTx[t].op = "delete" /\ stored' = FALSE /\ userTx' = [userTx EXCEPT ![t] = PR!Idle]
      /\ UNCHANGED <<user, wished, raced, crossed, userCalls, userAborts>>
  BY ProfileTypes DEF PR!Unlink, ProfileCall
<1>2. \A u \in Txns : userTx'[u] = IF u = t THEN PR!Idle ELSE userTx[u]
  BY <1>1, ProfileTypes
<1>3. PR!TypeOK'
  BY <1>1, ProfileTypes DEF PR!TypeOK
<1>4. \A u \in Txns : ProfileCall(userTx[u])'
  BY <1>2, IdleUser, ProfileTypes DEF ProfileCall, Loaded
<1>5. ASSUME ~raced PROVE ProfileAlone'
  <2>1. \A u \in Txns : HoldsRow(userTx'[u])
    BY <1>2, <1>5, IdleUser DEF ProfileInv, ProfileAlone
  <2>2. \A u \in Txns : HoldsRow(userTx[u])'
    BY <1>1, <2>1 DEF HoldsRow, Loaded
  <2> QED
    BY <1>1, <1>2, <1>5, <2>2, IdleUser DEF ProfileInv, ProfileAlone, Together
<1>6. ASSUME ~crossed PROVE ProfileStored'
  <2>1. ProfileStored /\ ~user.url
    BY <1>1, <1>6 DEF ProfileInv, ProfileStored, HasObject
  <2>2. \A u \in Txns \ {t} : userTx[u].pc # "idle" => userTx[u].op = "delete"
    BY <1>1, <2>1 DEF ProfileStored, Together
  <2>3. ASSUME NEW u \in Txns PROVE HasObject(userTx[u])'
    <3>1. HasObject(userTx[u]) /\ ProfileCall(userTx[u])
      BY <2>1, ProfileTypes DEF ProfileStored
    <3> QED
      BY <1>1, <1>2, <2>1, <2>2, <3>1, IdleUser DEF HasObject, ProfileCall, Loaded
  <2> QED
    BY <1>1, <1>2, <2>1, <2>3, IdleUser DEF ProfileStored, Together
<1> QED
  BY <1>1, <1>3, <1>4, <1>5, <1>6 DEF ProfileInv

LEMMA ProfileAborts == ASSUME ProfileInv, NEW t \in Txns, PR!Abort(t) PROVE ProfileInv'
<1>1. /\ userTx' = [userTx EXCEPT ![t] = PR!Idle] /\ UNCHANGED <<user, stored, wished, raced, crossed>>
      /\ userCalls' \in Nat /\ userAborts' \in Nat
  BY ProfileTypes DEF PR!Abort
<1> QED
  BY <1>1, IdleUser, ProfileStep

LEMMA ProfileInit == PR!Init => ProfileInv
<1> SUFFICES ASSUME PR!Init PROVE ProfileInv
  OBVIOUS
<1>1. PR!TypeOK
  BY IdleUser DEF PR!Init, PR!TypeOK
<1>2. ProfileAlone /\ ProfileStored
  BY IdleUser DEF PR!Init, ProfileAlone, ProfileStored, Together
<1> QED
  BY <1>1, <1>2, IdleUser DEF PR!Init, ProfileInv

LEMMA ProfileNext == ASSUME ProfileInv, [PR!Next]_PR!vars PROVE ProfileInv'
<1>1. ASSUME UNCHANGED PR!vars PROVE ProfileInv'
  <2>1. UNCHANGED <<user, stored, userTx, wished, raced, crossed, userCalls, userAborts>>
    BY <1>1 DEF PR!vars
  <2> QED
    BY <2>1 DEF ProfileInv, PR!TypeOK, ProfileCall, ProfileAlone, ProfileStored, HoldsRow, HasObject, Together, Loaded
<1> QED
  BY <1>1, ProfileBegins, ProfilePuts, ProfileLoads, ProfileCompares, ProfileWrites, ProfileCommits,
     ProfileUnlinks, ProfileAborts DEF PR!Next

(* For any number of calls on a user, any of which may fail anywhere: one      *)
(* after the other they leave the row as the last ones that succeeded set it;  *)
(* and the avatar that the row names is stored, unless a deletion has met      *)
(* another call (uploadAvatar, deleteAvatar, updateLocale).                    *)
THEOREM RowAndAvatarKept == PR!Spec => []ProfileKept
<1>1. ProfileInv => ProfileKept
  BY DEF ProfileInv, ProfileAlone, ProfileStored, ProfileKept, PR!ProfileKept
<1> QED
  BY <1>1, ProfileInit, ProfileNext, PTL DEF PR!Spec

--------------------------------------------------------------------------------
(* An address book.                                                        *)

\* What a call asks for: it sets the marks it asks for, unsets those it gives
\* up, and takes the former from the addresses before it saves its own.
BookCall(r) ==
  /\ r.asks \subseteq r.ent.def /\ r.drops \cap r.ent.def = {} /\ r.kinds \subseteq r.asks
  /\ ~r.ent.there => r.ent = AD!NoRow
  /\ r.pc \in {"demote", "locking"} => r.kinds # {}
  /\ r.pc \notin {"demote", "locking"} => r.kinds = {}
  /\ r.pc \in {"demote", "locking", "save", "write", "insert"} => r.ent.there
  /\ r.pc = "remove" => ~r.ent.there /\ r.wrote = {}
  /\ r.pc = "idle" => r.wrote = {} /\ r.asks = {}
  /\ r.pc # "idle" => r.id \in Book
  /\ \A b \in r.wrote : r.w[b].there \/ r.w[b].def = {}

\* The row b that a call has written is that of the table less marks that it
\* asks for, until the call saves its own.
Demotes(r, b) ==
  r.w[b].there /\ book[b].there /\ r.w[b].def \subseteq book[b].def /\ book[b].def \subseteq r.w[b].def \cup r.asks

Sees(r, b) == IF b \in r.wrote THEN r.w[b] ELSE book[b]

\* The own row of a call, in a kind that is not contested.
OwnRow(r, k) ==
  LET now == Sees(r, r.id)
  IN  /\ r.ent.there /\ r.pc # "idle" /\ k \notin r.asks \cup r.drops => (k \in r.ent.def <=> k \in book[r.id].def)
      /\ r.pc = "write" => now.there /\ (k \notin r.cols => (k \in r.ent.def <=> k \in now.def))
      /\ r.pc = "commit" => (now.there <=> r.ent.there) /\ (k \in now.def <=> k \in r.ent.def)

\* The other addresses have lost the mark k that a call asks for, where it has
\* come so far.
Taken(r, k) ==
  \A b \in Book : k \in book[b].def =>
    \/ b \in r.wrote /\ k \notin r.w[b].def
    \/ b = r.id /\ r.pc = "commit"
    \/ k \in r.kinds /\ (r.pc = "locking" /\ k = (IF "shipping" \in r.kinds THEN "shipping" ELSE "billing")
                           => b \in r.todo)

BookRows(r) ==
  /\ \A b \in r.wrote : b # r.id \/ r.pc # "commit" => Demotes(r, b)
  /\ \A k \in AD!Kinds \ contested : OwnRow(r, k) /\ (k \in r.asks => Taken(r, k))

BookKept == \A b \in Book : IF book[b].there THEN b \in used ELSE book[b].def = {}

BookInv ==
  /\ AD!TypeOK /\ DefaultAsChosen /\ BookKept
  /\ \A t \in Txns : BookCall(bookTx[t]) /\ BookRows(bookTx[t])
  /\ \A t \in Txns : bookTx[t].pc # "idle" => bookTx[t].id \in used
  /\ \A t \in Txns : \A u \in Txns \ {t} : bookTx[t].wrote \cap bookTx[u].wrote = {}

LEMMA IdleBook ==
  /\ AD!Idle \in AD!Call /\ AD!NoRow \in AD!Row /\ BookCall(AD!Idle)
  /\ AD!Idle.wrote = {} /\ AD!Idle.pc = "idle" /\ AD!Idle.asks = {} /\ AD!Idle.ent = AD!NoRow
<1>1. AD!NoRow \in AD!Row
  BY DEF AD!NoRow, AD!Row
<1>2. AD!Idle \in AD!Call
  BY <1>1 DEF AD!Idle, AD!Call
<1> QED
  BY <1>1, <1>2 DEF AD!Idle, AD!NoRow, BookCall

LEMMA IdleRows == BookRows(AD!Idle)
BY IdleBook DEF BookRows, OwnRow

LEMMA BookTypes ==
  ASSUME BookInv
  PROVE  /\ \A t \in Txns : bookTx[t] \in AD!Call /\ BookCall(bookTx[t]) /\ BookRows(bookTx[t])
         /\ book \in [Book -> AD!Row] /\ used \in SUBSET Book /\ bookTx \in [Txns -> AD!Call]
         /\ chosen \in [AD!Kinds -> SUBSET Book] /\ contested \in SUBSET AD!Kinds
         /\ bookCalls \in Nat /\ bookAborts \in Nat
BY DEF BookInv, AD!TypeOK

\* The fields of a call.
LEMMA BookFields ==
  ASSUME NEW r \in AD!Call
  PROVE  /\ r.id \in Book \cup {"none"} /\ r.asks \in SUBSET AD!Kinds /\ r.drops \in SUBSET AD!Kinds
         /\ r.kinds \in SUBSET AD!Kinds /\ r.todo \in SUBSET Book /\ r.ent \in AD!Row
         /\ r.cols \in SUBSET AD!Kinds /\ r.wrote \in SUBSET Book /\ r.w \in [Book -> AD!Row]
         /\ r.ent.there \in BOOLEAN /\ r.ent.def \in SUBSET AD!Kinds
         /\ r.pc \in {"idle", "demote", "locking", "save", "remove", "insert", "write", "commit"}
BY DEF AD!Call, AD!Row

\* A step of the call of t, which becomes r and leaves the table alone.
LEMMA BookStep ==
  ASSUME BookInv, NEW t \in Txns, NEW r \in AD!Call, bookTx' = [bookTx EXCEPT ![t] = r],
         UNCHANGED <<book, chosen, contested>>, used \subseteq used', used' \in SUBSET Book,
         bookCalls' \in Nat, bookAborts' \in Nat, BookCall(r), BookRows(r), r.pc # "idle" => r.id \in used',
         \A u \in Txns \ {t} : r.wrote \cap bookTx[u].wrote = {}
  PROVE  BookInv'
<1>1. \A u \in Txns : bookTx'[u] = IF u = t THEN r ELSE bookTx[u]
  BY BookTypes
<1>2. AD!TypeOK'
  BY BookTypes DEF AD!TypeOK
<1>3. DefaultAsChosen' /\ BookKept'
  BY DEF BookInv, BookKept, DefaultAsChosen, AD!DefaultAsChosen, AD!Rows
<1>4. ASSUME NEW u \in Txns PROVE BookCall(bookTx[u])' /\ BookRows(bookTx[u])'
  <2>1. BookCall(bookTx'[u]) /\ BookRows(bookTx'[u])
    BY <1>1, BookTypes
  <2> QED
    BY SMTT(20), <2>1 DEF BookCall, BookRows, OwnRow, Taken, Demotes, Sees
<1>5. \A u \in Txns : \A v \in Txns \ {u} : bookTx'[u].wrote \cap bookTx'[v].wrote = {}
  BY <1>1 DEF BookInv
<1>6. \A u \in Txns : bookTx'[u].pc # "idle" => bookTx'[u].id \in used'
  BY <1>1 DEF BookInv
<1> QED
  BY <1>2, <1>3, <1>4, <1>5, <1>6 DEF BookInv

LEMMA BookGoes ==
  ASSUME BookInv, NEW t \in Txns, NEW r \in AD!Call, AD!Step(t, r), BookCall(r), BookRows(r),
         bookTx[t].pc # "idle", r.id = bookTx[t].id,
         \A u \in Txns \ {t} : r.wrote \cap bookTx[u].wrote = {}
  PROVE  BookInv'
<1>1. bookTx' = [bookTx EXCEPT ![t] = r] /\ UNCHANGED <<book, used, chosen, contested, bookCalls, bookAborts>>
  BY DEF AD!Step
<1>2. bookCalls' \in Nat /\ bookAborts' \in Nat /\ used \subseteq used' /\ used' \in SUBSET Book /\ r.id \in used'
  BY <1>1, BookTypes DEF BookInv
<1> QED
  BY <1>1, <1>2, BookStep

LEMMA BookArrives ==
  ASSUME BookInv, NEW t \in Txns, NEW r \in AD!Call, AD!Arrive(t, r), BookCall(r), BookRows(r), r.wrote = {},
         used \subseteq used', used' \in SUBSET Book, r.id \in used'
  PROVE  BookInv'
<1>1. bookTx' = [bookTx EXCEPT ![t] = r] /\ UNCHANGED <<book, chosen, contested>>
      /\ bookCalls' \in Nat /\ bookAborts' \in Nat
  BY BookTypes DEF AD!Arrive
<1> QED
  BY <1>1, BookStep

LEMMA BookMarks ==
  ASSUME BookInv, NEW t \in Txns, NEW a \in Book, NEW F \in SUBSET AD!Kinds, NEW G \in SUBSET AD!Kinds,
         NEW v \in AD!Row, v.there, F \subseteq v.def, G \cap v.def = {},
         \A k \in AD!Kinds \ (F \cup G) : k \in v.def <=> k \in book[a].def
  PROVE  LET r == AD!Marking(a, F, G, v)
         IN  r \in AD!Call /\ BookCall(r) /\ BookRows(r) /\ r.wrote = {} /\ r.id = a
<1> DEFINE r == AD!Marking(a, F, G, v)
<1>1. r \in AD!Call
  BY IdleBook DEF AD!Marking, AD!Demoted, AD!Call
<1>2. /\ r.id = a /\ r.asks = F /\ r.drops = G /\ r.kinds = F /\ r.ent = v /\ r.wrote = {}
      /\ r.pc = IF F = {} THEN "save" ELSE "demote"
  BY IdleBook DEF AD!Marking, AD!Demoted, AD!Call
<1> HIDE DEF r
<1>3. BookCall(r)
  BY <1>2 DEF BookCall
<1>4. BookRows(r)
  BY <1>2 DEF BookRows, OwnRow, Taken
<1> QED
  BY <1>1, <1>2, <1>3, <1>4 DEF r

LEMMA BookBegins == ASSUME BookInv, NEW t \in Txns, AD!Begin(t) PROVE BookInv'
<1>1. ASSUME NEW a \in Book, AD!BeginDelete(t, a) PROVE BookInv'
  <2> DEFINE r == [AD!Idle EXCEPT !.id = a, !.pc = "remove"]
  <2>1. /\ r \in AD!Call /\ AD!Arrive(t, r) /\ used' = used
        /\ r.id = a /\ r.pc = "remove" /\ r.asks = {} /\ r.drops = {} /\ r.kinds = {} /\ r.wrote = {} /\ r.ent = AD!NoRow
    BY <1>1, IdleBook DEF AD!BeginDelete, AD!Call, AD!Idle
  <2> HIDE DEF r
  <2>2. BookCall(r) /\ BookRows(r)
    BY <2>1 DEF BookCall, BookRows, OwnRow, AD!NoRow
  <2>3. a \in used
    BY <1>1 DEF AD!BeginDelete, AD!Rows, BookInv, BookKept
  <2> QED
    BY <2>1, <2>2, <2>3, BookTypes, BookArrives
<1>2. ASSUME NEW a \in Book, NEW F \in SUBSET AD!Kinds, AD!BeginCreate(t, a, F) PROVE BookInv'
  <2> DEFINE v == [there |-> TRUE, def |-> F]
             G == {}
  <2>1. AD!Arrive(t, AD!Marking(a, F, G, v)) /\ used' = used \cup {a} /\ a \notin used
    BY <1>2 DEF AD!BeginCreate
  <2>2. book[a].def = {}
    BY <2>1 DEF BookInv, BookKept
  <2>3. v \in AD!Row /\ v.there /\ v.def = F /\ G \in SUBSET AD!Kinds /\ G \cap v.def = {}
    BY DEF AD!Row
  <2> HIDE DEF v, G
  <2>4. LET r == AD!Marking(a, F, G, v)
        IN  r \in AD!Call /\ BookCall(r) /\ BookRows(r) /\ r.wrote = {} /\ r.id = a
    <3>1. /\ \A k \in AD!Kinds \ (F \cup G) : k \in v.def <=> k \in book[a].def
          /\ F \subseteq v.def
      BY <2>2, <2>3
    <3> QED
      BY <2>3, <3>1, BookMarks
  <2> QED
    BY <2>1, <2>4, BookTypes, BookArrives
<1>3. ASSUME NEW a \in Book, NEW F \in SUBSET AD!Kinds, NEW G \in SUBSET AD!Kinds, AD!BeginUpdate(t, a, F, G)
      PROVE  BookInv'
  <2> DEFINE v == [book[a] EXCEPT !.def = (@ \cup F) \ G]
  <2>1. AD!Arrive(t, AD!Marking(a, F, G, v)) /\ used' = used /\ F \cap G = {} /\ book[a].there
    BY <1>3 DEF AD!BeginUpdate, AD!Rows
  <2>2. v \in AD!Row /\ v.there /\ v.def = (book[a].def \cup F) \ G
    BY <2>1, BookTypes DEF AD!Row
  <2> HIDE DEF v
  <2>3. LET r == AD!Marking(a, F, G, v)
        IN  r \in AD!Call /\ BookCall(r) /\ BookRows(r) /\ r.wrote = {} /\ r.id = a
    <3>1. /\ \A k \in AD!Kinds \ (F \cup G) : k \in v.def <=> k \in book[a].def
          /\ G \cap v.def = {} /\ F \subseteq v.def
      BY <2>1, <2>2
    <3> QED
      BY <2>2, <3>1, BookMarks
  <2>4. a \in used
    BY <2>1 DEF BookInv, BookKept
  <2> QED
    BY <2>1, <2>3, <2>4, BookTypes, BookArrives
<1> QED
  BY <1>1, <1>2, <1>3 DEF AD!Begin, AD!BeginSetDefault

LEMMA BookStarts == ASSUME BookInv, NEW t \in Txns, AD!StartDemotion(t) PROVE BookInv'
<1> DEFINE old == bookTx[t]
           r == IF AD!Rows # {} THEN [old EXCEPT !.todo = AD!Rows, !.pc = "locking"]
                ELSE [old EXCEPT !.kinds = {}, !.pc = "save"]
<1>1. old.pc = "demote" /\ AD!Step(t, r)
  BY DEF AD!StartDemotion
<1>2. old \in AD!Call /\ BookCall(old) /\ BookRows(old)
  BY BookTypes
<1>3. /\ r \in AD!Call /\ r.id = old.id /\ r.asks = old.asks /\ r.drops = old.drops /\ r.ent = old.ent
      /\ r.wrote = old.wrote /\ r.w = old.w
      /\ \/ r.kinds = old.kinds /\ r.todo = AD!Rows /\ r.pc = "locking"
         \/ AD!Rows = {} /\ r.kinds = {} /\ r.pc = "save"
  BY <1>2 DEF AD!Call, AD!Rows
<1> HIDE DEF r
<1>4. BookCall(r)
  BY <1>1, <1>2, <1>3, BookFields DEF BookCall
<1>5. \A b \in Book : b \notin AD!Rows => book[b].def = {}
  BY DEF BookInv, BookKept, AD!Rows
<1>6. BookRows(r)
  BY <1>1, <1>2, <1>3, <1>5 DEF BookRows, OwnRow, Taken, Demotes
<1> QED
  BY <1>1, <1>3, <1>4, <1>6, BookGoes DEF BookInv

\* A row that another call has written is not free.
LEMMA FreeRow ==
  ASSUME BookInv, NEW t \in Txns, NEW b, AD!Free(t, b), NEW u \in Txns \ {t}
  PROVE  b \notin bookTx[u].wrote
BY BookTypes DEF AD!Free, AD!Busy, BookCall

LEMMA BookDemotes == ASSUME BookInv, NEW t \in Txns, NEW b \in Book, AD!Demote(t, b) PROVE BookInv'
<1> DEFINE old   == bookTx[t]
           kind  == IF "shipping" \in old.kinds THEN "shipping" ELSE "billing"
           rest  == old.todo \ {b}
           kinds == IF rest = {} THEN old.kinds \ {kind} ELSE old.kinds
           pc    == IF rest # {} THEN old.pc ELSE IF kinds = {} THEN "save" ELSE "demote"
           now   == Sees(old, b)
           r     == [old EXCEPT !.todo = rest, !.kinds = kinds, !.pc = pc]
           q     == IF ~now.there THEN r
                    ELSE [r EXCEPT !.wrote = @ \cup {b}, !.w[b] = [now EXCEPT !.def = @ \ {kind}]]
<1>1. old.pc = "locking" /\ b \in old.todo /\ AD!Free(t, b) /\ AD!Step(t, q)
  BY DEF AD!Demote, AD!Current, AD!View, Sees
<1>2. old \in AD!Call /\ BookCall(old) /\ BookRows(old)
  BY BookTypes
<1>3. now \in AD!Row
  BY <1>2, BookFields, BookTypes DEF Sees
<1>4. kind \in old.kinds /\ kind \in AD!Kinds /\ kind \in old.asks
  BY <1>1, <1>2, BookFields DEF BookCall, AD!Kinds
<1> HIDE DEF kind
<1>5. rest \in SUBSET Book /\ kinds \in SUBSET AD!Kinds /\ pc \in {"locking", "save", "demote"}
  BY <1>1, <1>2, BookFields
<1>6. \/ rest # {} /\ kinds = old.kinds /\ pc = "locking"
      \/ rest = {} /\ kinds = old.kinds \ {kind} /\ pc = IF kinds = {} THEN "save" ELSE "demote"
  BY <1>1
<1> HIDE DEF rest, kinds, pc, now
<1>7. /\ r \in AD!Call /\ r.id = old.id /\ r.asks = old.asks /\ r.drops = old.drops /\ r.ent = old.ent
      /\ r.kinds = kinds /\ r.todo = rest /\ r.pc = pc /\ r.wrote = old.wrote /\ r.w = old.w
  BY <1>2, <1>5 DEF AD!Call
<1> HIDE DEF r
<1>8. /\ q \in AD!Call /\ q.id = old.id /\ q.asks = old.asks /\ q.drops = old.drops /\ q.ent = old.ent
      /\ q.kinds = kinds /\ q.todo = rest /\ q.pc = pc
      /\ q.wrote = IF now.there THEN old.wrote \cup {b} ELSE old.wrote
      /\ \A x \in Book : q.w[x] = IF now.there /\ x = b THEN [there |-> TRUE, def |-> now.def \ {kind}] ELSE old.w[x]
  <2>1. [now EXCEPT !.def = @ \ {kind}] = [there |-> now.there, def |-> now.def \ {kind}]
        /\ [now EXCEPT !.def = @ \ {kind}] \in AD!Row
    BY <1>3 DEF AD!Row
  <2>2. CASE ~now.there
    BY <1>7, <2>2
  <2>3. CASE now.there
    <3>1. now.there = TRUE
      BY <1>3, <2>3 DEF AD!Row
    <3> QED
      BY <1>7, <2>1, <3>1 DEF AD!Call
  <2> QED
    BY <2>2, <2>3
<1> HIDE DEF q
<1>9. BookCall(q)
  BY <1>1, <1>2, <1>4, <1>6, <1>8, BookFields DEF BookCall
<1>10. b \in old.wrote => Demotes(old, b)
  BY <1>1, <1>2 DEF BookRows
<1>11. ASSUME NEW x \in q.wrote PROVE Demotes(q, x)
  <2>1. x \in Book
    BY <1>8, BookFields
  <2>2. CASE x = b /\ now.there
    BY <1>4, <1>8, <1>10, <2>1, <2>2 DEF Demotes, Sees, now
  <2>3. CASE ~(x = b /\ now.there)
    BY <1>1, <1>2, <1>8, <1>11, <2>1, <2>3 DEF BookRows, Demotes
  <2> QED
    BY <2>2, <2>3
<1>12. ASSUME NEW k \in AD!Kinds \ contested PROVE OwnRow(q, k)
  BY <1>1, <1>2, <1>6, <1>8 DEF BookRows, OwnRow
<1>13. ASSUME NEW k \in AD!Kinds \ contested, k \in q.asks, NEW x \in Book, k \in book[x].def
       PROVE  \/ x \in q.wrote /\ k \notin q.w[x].def
              \/ k \in q.kinds /\ (q.pc = "locking" => (k = kind => x \in q.todo))
  <2>1. \/ x \in old.wrote /\ k \notin old.w[x].def
        \/ k \in old.kinds /\ (k = kind => x \in old.todo)
    BY <1>1, <1>2, <1>8, <1>13 DEF BookRows, Taken, kind
  <2>2. CASE x # b
    BY <1>6, <1>8, <2>1, <2>2 DEF rest
  <2>3. CASE x = b /\ ~now.there
    <3>1. x \notin old.wrote /\ ~book[x].there
      BY <1>10, <2>3 DEF Demotes, Sees, now
    <3> QED
      BY <1>13, <3>1 DEF BookInv, BookKept
  <2>4. CASE x = b /\ now.there
    <3>1. x \in old.wrote => now = old.w[x]
      BY <2>4 DEF Sees, now
    <3> QED
      BY <1>6, <1>8, <2>1, <2>4, <3>1
  <2> QED
    BY <2>2, <2>3, <2>4
<1>14. BookRows(q)
  <2>1. q.pc = "locking" => q.kinds = old.kinds
    BY <1>6, <1>8
  <2>2. ASSUME NEW k \in AD!Kinds \ contested, k \in q.asks PROVE Taken(q, k)
    BY <1>13, <2>1, <2>2 DEF Taken, kind
  <2> QED
    BY <1>11, <1>12, <2>2 DEF BookRows
<1>15. \A u \in Txns \ {t} : q.wrote \cap bookTx[u].wrote = {}
  BY <1>1, <1>8, FreeRow DEF BookInv
<1> QED
  BY <1>1, <1>8, <1>9, <1>14, <1>15, BookGoes

LEMMA BookSaves == ASSUME BookInv, NEW t \in Txns, AD!Save(t) PROVE BookInv'
<1> DEFINE old == bookTx[t]
           now == Sees(old, old.id)
           C   == (old.ent.def \ now.def) \cup (now.def \ old.ent.def)
           pc  == IF now = old.ent THEN "commit" ELSE IF now.there THEN "write" ELSE "insert"
           r   == [old EXCEPT !.cols = C, !.pc = pc]
<1>1. old.pc = "save" /\ AD!Step(t, r)
  BY DEF AD!Save, AD!View, Sees
<1>2. old \in AD!Call /\ BookCall(old) /\ BookRows(old)
  BY BookTypes
<1>3. now \in AD!Row
  BY SMTT(20), <1>1, <1>2, BookFields, BookTypes DEF Sees, BookCall
<1>4. C \in SUBSET AD!Kinds /\ \A k \in AD!Kinds : k \notin C => (k \in old.ent.def <=> k \in now.def)
  BY <1>2, <1>3, BookFields DEF AD!Row
<1> HIDE DEF C, now
<1>5. /\ r \in AD!Call /\ r.id = old.id /\ r.asks = old.asks /\ r.drops = old.drops /\ r.ent = old.ent
      /\ r.kinds = old.kinds /\ r.pc = pc /\ r.wrote = old.wrote /\ r.w = old.w /\ r.cols = C
  BY <1>2, <1>4 DEF AD!Call
<1> HIDE DEF r
<1>6. BookCall(r)
  BY <1>1, <1>2, <1>5 DEF BookCall
<1>7. Sees(r, r.id) = now
  BY <1>5 DEF Sees, now
<1>8. BookRows(r)
  <2>1. \A b \in r.wrote : Demotes(r, b)
    BY <1>1, <1>2, <1>5 DEF BookRows, Demotes
  <2>2. \A k \in AD!Kinds \ contested : OwnRow(r, k)
    BY <1>1, <1>2, <1>4, <1>5, <1>7 DEF BookRows, OwnRow
  <2>3. \A k \in AD!Kinds \ contested : k \in r.asks => Taken(r, k)
    BY <1>1, <1>2, <1>5 DEF BookRows, BookCall, Taken
  <2> QED
    BY <2>1, <2>2, <2>3 DEF BookRows
<1> QED
  BY <1>1, <1>5, <1>6, <1>8, BookGoes DEF BookInv

\* A call that writes its own row and goes on to commit.
LEMMA BookOwns ==
  ASSUME BookInv, NEW t \in Txns, NEW r \in AD!Call, AD!Step(t, r), AD!Free(t, bookTx[t].id),
         bookTx[t].pc \in {"write", "insert", "remove"},
         r.id = bookTx[t].id, r.asks = bookTx[t].asks, r.drops = bookTx[t].drops, r.ent = bookTx[t].ent,
         r.kinds = bookTx[t].kinds, r.pc = "commit",
         \/ r.wrote = bookTx[t].wrote \cup {bookTx[t].id}
         \/ r.wrote = bookTx[t].wrote /\ AD!Kinds \subseteq contested,
         \A x \in Book : x # r.id => r.w[x] = bookTx[t].w[x],
         r.id \in r.wrote => r.w[r.id].there \/ r.w[r.id].def = {},
         \A k \in AD!Kinds \ contested : /\ r.w[r.id].there <=> r.ent.there
                                         /\ k \in r.w[r.id].def <=> k \in r.ent.def
  PROVE  BookInv'
<1> DEFINE old == bookTx[t]
<1>1. old \in AD!Call /\ BookCall(old) /\ BookRows(old) /\ old.id \in Book
  BY BookTypes DEF BookCall
<1>2. BookCall(r)
  <2>1. \A b \in r.wrote : r.w[b].there \/ r.w[b].def = {}
    BY <1>1, BookFields DEF BookCall
  <2> QED
    BY <1>1, <2>1 DEF BookCall
<1>3. \A b \in r.wrote : b # r.id => Demotes(r, b)
  BY <1>1, BookFields DEF BookRows, Demotes
<1>4. ASSUME NEW k \in AD!Kinds \ contested PROVE OwnRow(r, k)
  <2>1. Sees(r, r.id) = r.w[r.id]
    BY <1>4 DEF Sees
  <2> QED
    BY <1>1, <1>4, <2>1 DEF BookRows, OwnRow
<1>5. ASSUME NEW k \in AD!Kinds \ contested, k \in r.asks PROVE Taken(r, k)
  BY <1>1, <1>5 DEF BookRows, BookCall, Taken
<1>6. BookRows(r)
  BY <1>3, <1>4, <1>5 DEF BookRows
<1>7. \A u \in Txns \ {t} : r.wrote \cap bookTx[u].wrote = {}
  BY FreeRow DEF BookInv
<1> QED
  BY <1>2, <1>6, <1>7, BookGoes

LEMMA BookInserts == ASSUME BookInv, NEW t \in Txns, AD!Insert(t) PROVE BookInv'
<1> DEFINE old == bookTx[t]
           r   == [old EXCEPT !.wrote = @ \cup {old.id}, !.w[old.id] = old.ent, !.pc = "commit"]
<1>1. old.pc = "insert" /\ AD!Free(t, old.id) /\ AD!Step(t, r)
  BY DEF AD!Insert
<1>2. old \in AD!Call /\ BookCall(old) /\ old.id \in Book
  BY <1>1, BookTypes DEF BookCall
<1>3. /\ r \in AD!Call /\ r.id = old.id /\ r.asks = old.asks /\ r.drops = old.drops /\ r.ent = old.ent
      /\ r.kinds = old.kinds /\ r.pc = "commit" /\ r.wrote = old.wrote \cup {old.id}
      /\ \A x \in Book : r.w[x] = IF x = old.id THEN old.ent ELSE old.w[x]
  BY <1>2 DEF AD!Call
<1> HIDE DEF r
<1>4. old.ent.there
  BY <1>1, <1>2 DEF BookCall
<1> QED
  BY <1>1, <1>2, <1>3, <1>4, BookOwns

LEMMA BookRemoves == ASSUME BookInv, NEW t \in Txns, AD!Remove(t) PROVE BookInv'
<1> DEFINE old == bookTx[t]
           r   == [old EXCEPT !.wrote = @ \cup {old.id}, !.w[old.id] = AD!NoRow, !.pc = "commit"]
<1>1. old.pc = "remove" /\ AD!Free(t, old.id) /\ AD!Step(t, r)
  BY DEF AD!Remove
<1>2. old \in AD!Call /\ BookCall(old) /\ old.id \in Book /\ old.ent = AD!NoRow
  BY <1>1, BookTypes DEF BookCall
<1>3. /\ r \in AD!Call /\ r.id = old.id /\ r.asks = old.asks /\ r.drops = old.drops /\ r.ent = old.ent
      /\ r.kinds = old.kinds /\ r.pc = "commit" /\ r.wrote = old.wrote \cup {old.id}
      /\ \A x \in Book : r.w[x] = IF x = old.id THEN AD!NoRow ELSE old.w[x]
  BY <1>2, IdleBook DEF AD!Call
<1> HIDE DEF r
<1> QED
  BY <1>1, <1>2, <1>3, BookOwns DEF AD!NoRow

LEMMA BookWrites == ASSUME BookInv, NEW t \in Txns, AD!Write(t) PROVE BookInv'
<1> DEFINE old == bookTx[t]
           a   == old.id
           now == Sees(old, a)
           D   == (now.def \ old.cols) \cup (old.cols \cap old.ent.def)
           r   == IF ~now.there THEN [old EXCEPT !.pc = "commit"]
                  ELSE [old EXCEPT !.wrote = @ \cup {a}, !.pc = "commit", !.w[a] = [there |-> TRUE, def |-> D]]
<1>1. old.pc = "write" /\ AD!Free(t, a) /\ AD!Step(t, r)
  BY DEF AD!Write, AD!View, Sees
<1>2. old \in AD!Call /\ BookCall(old) /\ BookRows(old) /\ a \in Book /\ old.ent.there
  BY <1>1, BookTypes DEF BookCall
<1>3. \A k \in AD!Kinds \ contested : now.there /\ (k \notin old.cols => (k \in old.ent.def <=> k \in now.def))
  BY <1>1, <1>2 DEF BookRows, OwnRow
<1>4. now \in AD!Row /\ old.w[a] \in AD!Row /\ D \in SUBSET AD!Kinds
  BY <1>2, BookFields, BookTypes DEF Sees, AD!Row
<1>5. \A k \in AD!Kinds \ contested : k \in D <=> k \in old.ent.def
  BY <1>3
<1> HIDE DEF now, D
<1>6. CASE ~now.there
  <2>1. /\ r \in AD!Call /\ r.id = old.id /\ r.asks = old.asks /\ r.drops = old.drops /\ r.ent = old.ent
        /\ r.kinds = old.kinds /\ r.pc = "commit" /\ r.wrote = old.wrote /\ r.w = old.w
    BY <1>2, <1>6 DEF AD!Call
  <2>2. AD!Kinds \subseteq contested
    BY <1>3, <1>6
  <2> HIDE DEF r
  <2>3. r.id \in r.wrote => r.w[r.id].there \/ r.w[r.id].def = {}
    BY <1>2, <2>1 DEF BookCall
  <2>4. /\ \A x \in Book : x # r.id => r.w[x] = bookTx[t].w[x]
        /\ \A k \in AD!Kinds \ contested : /\ r.w[r.id].there <=> r.ent.there
                                         /\ k \in r.w[r.id].def <=> k \in r.ent.def
    BY <2>1, <2>2
  <2> QED
    BY <1>1, <2>1, <2>2, <2>3, <2>4, BookOwns
<1>7. CASE now.there
  <2>1. [there |-> TRUE, def |-> D] \in AD!Row
    BY <1>4 DEF AD!Row
  <2>2. /\ r \in AD!Call /\ r.id = old.id /\ r.asks = old.asks /\ r.drops = old.drops /\ r.ent = old.ent
        /\ r.kinds = old.kinds /\ r.pc = "commit" /\ r.wrote = old.wrote \cup {a}
        /\ \A x \in Book : r.w[x] = IF x = a THEN [there |-> TRUE, def |-> D] ELSE old.w[x]
    BY <1>2, <1>4, <1>7, <2>1 DEF AD!Call, AD!Row
  <2>3. r.w[a].there /\ r.w[a].def = D
    BY <1>2, <2>2
  <2> HIDE DEF r
  <2> QED
    BY <1>1, <1>2, <1>5, <2>2, <2>3, BookOwns
<1> QED
  BY <1>6, <1>7

LEMMA BookAborts == ASSUME BookInv, NEW t \in Txns, AD!Abort(t) PROVE BookInv'
<1>1. bookTx' = [bookTx EXCEPT ![t] = AD!Idle] /\ UNCHANGED <<book, used, chosen, contested>>
      /\ bookCalls' \in Nat /\ bookAborts' \in Nat /\ used \in SUBSET Book
  BY BookTypes DEF AD!Abort
<1> QED
  BY <1>1, IdleBook, IdleRows, BookStep


\* What a commit does to an address, in a kind that is not contested.
LEMMA BookCommitted ==
  ASSUME BookInv, NEW t \in Txns, AD!Commit(t)
  PROVE  LET r == bookTx[t]
         IN  /\ book' = [b \in Book |-> Sees(r, b)] /\ bookTx' = [bookTx EXCEPT ![t] = AD!Idle]
             /\ contested \subseteq contested' /\ contested' \in SUBSET AD!Kinds
             /\ UNCHANGED <<used, bookCalls, bookAborts>>
             /\ \A b \in Book : b # r.id => (book'[b].there <=> book[b].there)
             /\ \A k \in AD!Kinds \ contested' :
                  /\ \A b \in Book : b # r.id => (k \in book'[b].def <=> k \in book[b].def /\ k \notin r.asks)
                  /\ book'[r.id].there <=> r.ent.there
                  /\ k \in book'[r.id].def <=> k \in r.ent.def
                  /\ \A u \in Txns \ {t} : bookTx[u].pc # "idle" =>
                       /\ bookTx[u].id # r.id /\ k \notin r.asks \cap bookTx[u].ent.def
                       /\ k \notin bookTx[u].asks \cap r.ent.def
<1> DEFINE r    == bookTx[t]
           met  == UNION { AD!Meet(t, u) : u \in AD!Busy \ {t} }
           same == IF \E u \in AD!Busy \ {t} : bookTx[u].id = r.id THEN AD!Kinds ELSE {}
<1>1. /\ r.pc = "commit" /\ book' = [b \in Book |-> Sees(r, b)] /\ bookTx' = [bookTx EXCEPT ![t] = AD!Idle]
      /\ contested' = contested \cup met \cup same
      /\ UNCHANGED <<used, bookCalls, bookAborts>>
  BY DEF AD!Commit, AD!View, Sees
<1>2. r \in AD!Call /\ BookCall(r) /\ BookRows(r) /\ r.id \in Book
  BY <1>1, BookTypes DEF BookCall
<1> HIDE DEF met, same
<1>3. contested \subseteq contested'
  BY <1>1
<1>4. contested' \in SUBSET AD!Kinds
  <2>1. \A u \in Txns : AD!Meet(t, u) \subseteq AD!Kinds
    BY BookTypes, BookFields DEF AD!Meet
  <2>2. met \subseteq AD!Kinds
    BY <2>1 DEF AD!Busy, met
  <2>3. same \subseteq AD!Kinds
    BY DEF same
  <2>4. contested \subseteq AD!Kinds
    BY BookTypes
  <2> QED
    BY <1>1, <2>2, <2>3, <2>4
<1>5. ASSUME NEW k \in AD!Kinds \ contested', NEW u \in Txns \ {t}, bookTx[u].pc # "idle"
      PROVE  bookTx[u].id # r.id /\ k \notin r.asks \cap bookTx[u].ent.def /\ k \notin bookTx[u].asks \cap r.ent.def
  <2>1. u \in AD!Busy \ {t}
    BY <1>5 DEF AD!Busy
  <2>2. AD!Meet(t, u) \subseteq contested'
    BY <1>1, <2>1 DEF met
  <2>3. bookTx[u].id # r.id
    <3>1. bookTx[u].id = r.id => same = AD!Kinds
      BY <2>1 DEF same
    <3> QED
      BY <1>1, <1>5, <3>1
  <2> QED
    BY <1>5, <2>2, <2>3 DEF AD!Meet
<1>6. \A b \in Book : book'[b] = IF b \in r.wrote THEN r.w[b] ELSE book[b]
  BY <1>1 DEF Sees
<1>7. \A b \in r.wrote : b # r.id => Demotes(r, b)
  BY <1>2 DEF BookRows
<1>8. \A b \in Book : b # r.id => (book'[b].there <=> book[b].there)
  BY <1>6, <1>7 DEF Demotes
<1>9. ASSUME NEW k \in AD!Kinds \ contested', NEW b \in Book, b # r.id
      PROVE  k \in book'[b].def <=> k \in book[b].def /\ k \notin r.asks
  <2>1. k \in book'[b].def => k \in book[b].def
    BY <1>6, <1>7, <1>9 DEF Demotes
  <2>2. k \in r.asks => k \notin book'[b].def
    BY <1>1, <1>2, <1>3, <1>6, <1>9, <2>1 DEF BookRows, BookCall, Taken
  <2>3. k \notin r.asks => (k \in book[b].def => k \in book'[b].def)
    BY <1>6, <1>7, <1>9 DEF Demotes
  <2> QED
    BY <2>1, <2>2, <2>3
<1>10. ASSUME NEW k \in AD!Kinds \ contested'
       PROVE  (book'[r.id].there <=> r.ent.there) /\ (k \in book'[r.id].def <=> k \in r.ent.def)
  BY <1>1, <1>2, <1>3 DEF BookRows, OwnRow
<1> HIDE DEF r
<1> QED
  BY <1>1, <1>3, <1>4, <1>5, <1>8, <1>9, <1>10 DEF r

LEMMA BookCommits == ASSUME BookInv, NEW t \in Txns, AD!Commit(t) PROVE BookInv'
<1> DEFINE r == bookTx[t]
<1>1. /\ book' = [b \in Book |-> Sees(r, b)] /\ bookTx' = [bookTx EXCEPT ![t] = AD!Idle]
      /\ contested \subseteq contested' /\ contested' \in SUBSET AD!Kinds
      /\ UNCHANGED <<used, bookCalls, bookAborts>>
  BY BookCommitted
<1>2. \A b \in Book : b # r.id => (book'[b].there <=> book[b].there)
  BY BookCommitted
<1>3. \A k \in AD!Kinds \ contested' :
        /\ \A b \in Book : b # r.id => (k \in book'[b].def <=> k \in book[b].def /\ k \notin r.asks)
        /\ book'[r.id].there <=> r.ent.there
        /\ k \in book'[r.id].def <=> k \in r.ent.def
        /\ \A u \in Txns \ {t} : bookTx[u].pc # "idle" =>
             /\ bookTx[u].id # r.id /\ k \notin r.asks \cap bookTx[u].ent.def
             /\ k \notin bookTx[u].asks \cap r.ent.def
  BY BookCommitted
<1>4. r.pc = "commit" /\ chosen' = [k \in AD!Kinds |->
        IF k \in r.asks THEN {r.id}
        ELSE IF k \in (IF r.ent.there THEN r.drops ELSE AD!Kinds) THEN chosen[k] \ {r.id} ELSE chosen[k]]
  BY DEF AD!Commit
<1>5. r \in AD!Call /\ BookCall(r) /\ BookRows(r) /\ r.id \in Book /\ r.id \in used
  BY <1>4, BookTypes DEF BookCall, BookInv
<1> HIDE DEF r
<1>6. \A b \in Book : book'[b] = IF b \in r.wrote THEN r.w[b] ELSE book[b]
  BY <1>1 DEF Sees
<1>7. \A u \in Txns : bookTx'[u] = IF u = t THEN AD!Idle ELSE bookTx[u]
  BY <1>1, BookTypes
<1>8. AD!TypeOK'
  <2>1. book' \in [Book -> AD!Row]
    BY <1>1, <1>5, BookFields, BookTypes DEF Sees
  <2>2. chosen' \in [AD!Kinds -> SUBSET Book]
    BY <1>4, <1>5, BookTypes
  <2>3. bookTx' \in [Txns -> AD!Call]
    BY <1>1, IdleBook, BookTypes
  <2> QED
    BY <1>1, <2>1, <2>2, <2>3, BookTypes DEF AD!TypeOK
<1>9. BookKept'
  <2>1. ASSUME NEW b \in Book PROVE IF book'[b].there THEN b \in used ELSE book'[b].def = {}
    <3>1. CASE b \in r.wrote
      BY <1>2, <1>5, <1>6, <3>1 DEF BookCall, BookInv, BookKept
    <3>2. CASE b \notin r.wrote
      BY <1>6, <3>2 DEF BookInv, BookKept
    <3> QED
      BY <3>1, <3>2
  <2> QED
    BY <1>1, <2>1 DEF BookKept
<1>10. ASSUME NEW k \in AD!Kinds \ contested', NEW b \in Book
       PROVE  book'[b].there /\ k \in book'[b].def <=> b \in chosen'[k]
  <2>1. k \in book'[b].def => book'[b].there
    BY <1>9 DEF BookKept
  <2>2. b \in chosen[k] <=> k \in book[b].def
    <3>1. chosen[k] = { x \in AD!Rows : k \in book[x].def }
      BY <1>1 DEF BookInv, DefaultAsChosen, AD!DefaultAsChosen
    <3>2. k \in book[b].def => book[b].there
      BY DEF BookInv, BookKept
    <3> QED
      BY <3>1, <3>2 DEF AD!Rows
  <2>3. b \in chosen'[k] <=> IF k \in r.asks THEN b = r.id
                           ELSE b \in chosen[k] /\ (k \in (IF r.ent.there THEN r.drops ELSE AD!Kinds) => b # r.id)
    BY <1>4
  <2>4. CASE b # r.id
    BY <1>3, <2>1, <2>2, <2>3, <2>4
  <2>5. CASE b = r.id
    <3>1. k \in book'[b].def <=> k \in r.ent.def
      BY <1>3, <2>5
    <3>2. CASE k \in r.asks
      BY <1>5, <2>1, <2>3, <2>5, <3>1, <3>2 DEF BookCall
    <3>3. CASE k \notin r.asks /\ ~r.ent.there
      BY <1>5, <2>1, <2>3, <2>5, <3>1, <3>3 DEF BookCall, AD!NoRow
    <3>4. CASE k \notin r.asks /\ r.ent.there /\ k \in r.drops
      BY <1>5, <2>1, <2>3, <2>5, <3>1, <3>4 DEF BookCall
    <3>5. CASE k \notin r.asks /\ r.ent.there /\ k \notin r.drops
      <4>1. k \in r.ent.def <=> k \in book[r.id].def
        BY <1>1, <1>4, <1>5, <3>5 DEF BookRows, OwnRow
      <4> QED
        BY <2>1, <2>2, <2>3, <2>5, <3>1, <3>5, <4>1
    <3> QED
      BY <3>2, <3>3, <3>4, <3>5
  <2> QED
    BY <2>4, <2>5
<1>11. DefaultAsChosen'
  <2>1. \A k \in AD!Kinds \ contested' : chosen'[k] \in SUBSET Book
    BY <1>8 DEF AD!TypeOK
  <2> QED
    BY <1>10, <2>1 DEF DefaultAsChosen, AD!DefaultAsChosen, AD!Rows
<1>12. ASSUME NEW u \in Txns PROVE BookRows(bookTx[u])'
  <2>1. CASE u = t
    <3>1. bookTx'[u].wrote = {} /\ bookTx'[u].pc = "idle" /\ bookTx'[u].asks = {}
      BY <1>7, <2>1, IdleBook
    <3> QED
      BY <3>1 DEF BookRows, OwnRow
  <2>2. CASE u # t
    <3> DEFINE s == bookTx[u]
    <3>1. s \in AD!Call /\ BookCall(s) /\ BookRows(s) /\ r.wrote \cap s.wrote = {} /\ bookTx'[u] = s
      BY <1>7, <2>2, BookTypes DEF BookInv, r
    <3>2. s.pc = "idle" => s.asks = {} \/ s.asks # {}
      OBVIOUS
    <3>3. \A b \in s.wrote : b \in Book /\ book'[b] = book[b]
      BY <1>6, <3>1, BookFields
    <3>4. s.pc # "idle" => s.id \in Book
      BY <3>1 DEF BookCall
    <3>5. \A k \in AD!Kinds \ contested' : s.pc # "idle" => s.id # r.id /\ k \notin r.asks \cap s.ent.def
                                                       /\ k \notin s.asks \cap r.ent.def
      BY <1>3, <2>2
    <3> HIDE DEF s
    <3>6. \A b \in s.wrote : b # s.id \/ s.pc # "commit" => Demotes(s, b)'
      <4>1. ASSUME NEW b \in s.wrote, b # s.id \/ s.pc # "commit"
            PROVE  /\ s.w[b].there /\ book'[b].there /\ s.w[b].def \subseteq book'[b].def
                   /\ book'[b].def \subseteq s.w[b].def \cup s.asks
        BY <3>1, <3>3, <4>1 DEF BookRows, Demotes
      <4> QED
        BY <3>1, <4>1 DEF Demotes, s
    <3>7. ASSUME NEW k \in AD!Kinds \ contested' PROVE OwnRow(s, k)'
      <4> DEFINE now  == IF s.id \in s.wrote THEN s.w[s.id] ELSE book[s.id]
                 then == IF s.id \in s.wrote THEN s.w[s.id] ELSE book'[s.id]
      <4>1. OwnRow(s, k)
        BY <1>1, <3>1 DEF BookRows
      <4>2. ASSUME s.pc # "idle"
            PROVE  /\ k \in book'[s.id].def <=> k \in book[s.id].def /\ k \notin r.asks
                   /\ book'[s.id].there <=> book[s.id].there
                   /\ k \in r.asks => k \notin s.ent.def
        BY <1>2, <1>3, <3>4, <3>5, <4>2
      <4>3. /\ s.ent.there /\ s.pc # "idle" /\ k \notin s.asks \cup s.drops =>
                 (k \in s.ent.def <=> k \in book'[s.id].def)
            /\ s.pc = "write" => then.there /\ (k \notin s.cols => (k \in s.ent.def <=> k \in then.def))
            /\ s.pc = "commit" => (then.there <=> s.ent.there) /\ (k \in then.def <=> k \in s.ent.def)
        <5>1. CASE s.id \in s.wrote
          BY <4>1, <4>2, <5>1 DEF OwnRow, Sees
        <5>2. CASE s.id \notin s.wrote
          BY <4>1, <4>2, <5>2 DEF OwnRow, Sees
        <5> QED
          BY <5>1, <5>2
      <4> QED
        BY <3>1, <4>3 DEF OwnRow, Sees, s
    <3>8. ASSUME NEW k \in AD!Kinds \ contested', k \in s.asks PROVE Taken(s, k)'
      <4>1. Taken(s, k)
        BY <1>1, <3>1, <3>8 DEF BookRows
      <4>2. s.pc # "idle"
        BY <3>1, <3>8 DEF BookCall
      <4>3. ASSUME NEW b \in Book, k \in book'[b].def PROVE k \in book[b].def
        BY <1>3, <3>5, <3>8, <4>2, <4>3
      <4> QED
        BY <3>1, <4>1, <4>3 DEF Taken, s
    <3> QED
      BY <3>1, <3>6, <3>7, <3>8 DEF BookRows, s
  <2> QED
    BY <2>1, <2>2
<1>13. \A u \in Txns : /\ BookCall(bookTx[u])'
                       /\ bookTx'[u].pc # "idle" => bookTx'[u].id \in used'
                       /\ \A v \in Txns \ {u} : bookTx'[u].wrote \cap bookTx'[v].wrote = {}
  <2>1. \A u \in Txns : BookCall(bookTx'[u])
    BY <1>7, IdleBook, BookTypes
  <2> QED
    BY <1>1, <1>7, <2>1, IdleBook DEF BookCall, BookInv
<1> QED
  BY <1>8, <1>9, <1>11, <1>12, <1>13 DEF BookInv

LEMMA BookInit == AD!Init => BookInv
<1> SUFFICES ASSUME AD!Init PROVE BookInv
  OBVIOUS
<1>1. AD!TypeOK
  BY IdleBook DEF AD!Init, AD!TypeOK
<1>2. DefaultAsChosen /\ BookKept
  BY DEF AD!Init, AD!NoRow, DefaultAsChosen, AD!DefaultAsChosen, AD!Rows, BookKept
<1> QED
  BY <1>1, <1>2, IdleBook, IdleRows DEF AD!Init, BookInv

LEMMA BookNext == ASSUME BookInv, [AD!Next]_AD!vars PROVE BookInv'
<1>1. ASSUME UNCHANGED AD!vars PROVE BookInv'
  <2>1. UNCHANGED <<book, used, bookTx, chosen, contested, bookCalls, bookAborts>>
    BY <1>1 DEF AD!vars
  <2> QED
    BY <2>1 DEF BookInv, AD!TypeOK, DefaultAsChosen, AD!DefaultAsChosen, AD!Rows, BookKept, BookCall, BookRows,
       Demotes, OwnRow, Taken, Sees
<1> QED
  BY <1>1, BookBegins, BookStarts, BookDemotes, BookSaves, BookInserts, BookWrites, BookRemoves, BookCommits,
     BookAborts DEF AD!Next, AD!Run

(* For any number of addresses and of calls that demote, delete or save them,  *)
(* one row at a time and in any order: the default address of a kind is the    *)
(* one last made so, and the only one, unless calls met over the same mark or  *)
(* address (CustomerAddressesService, setDefaultFlags).                        *)
THEOREM DefaultsAsChosen == AD!Spec => []DefaultAsChosen
<1>1. BookInv => DefaultAsChosen
  BY DEF BookInv
<1> QED
  BY <1>1, BookInit, BookNext, PTL DEF AD!Spec

--------------------------------------------------------------------------------
(* The components together.                                                *)

\* MCPeople runs one component and leaves the others alone, so its behaviours
\* are behaviours of each, and every one of the properties holds of them: the
\* specification that the run checks is the one the theorems are about.
THEOREM PeopleSafe ==
  PeopleSpec => [](SameCustomer /\ LinkedByOwner /\ LetIn /\ HandedOver /\ ProfileKept /\ DefaultAsChosen)
<1>1. PeopleInit => CA!Init /\ MA!Init /\ HO!Init /\ PR!Init /\ AD!Init
  BY DEF PeopleInit
<1>2. [PeopleNext]_peopleVars =>
        [CA!Next]_CA!vars /\ [MA!Next]_MA!vars /\ [HO!Next]_HO!vars /\ [PR!Next]_PR!vars /\ [AD!Next]_AD!vars
  BY DEF PeopleNext, peopleVars, accountVars, staffVars, signInVars, userVars, bookVars,
     CA!vars, CA!identities, CA!history, MA!vars, MA!users, MA!history, HO!vars, PR!vars, AD!vars
<1> QED
  BY <1>1, <1>2, GoogleSameCustomer, GoogleLinkedByOwner, StaffLetIn, SignInHandedOver, RowAndAvatarKept,
     DefaultsAsChosen, PTL DEF PeopleSpec, CA!Spec, MA!Spec, HO!Spec, PR!Spec, AD!Spec
================================================================================
