---------------------------- MODULE CatalogueProofs ----------------------------
(***************************************************************************)
(* Proofs about components that MCCatalogue brings together, for every     *)
(* number of calls: that tenants are kept apart and that the pool never    *)
(* waits for itself (Tenancy), that images and objects match and that one  *)
(* image is the primary one (VariantImages), that every category is shown  *)
(* (Categories).                                                           *)
(*                                                                         *)
(* Tenancy: the invariant says what a call may rely on while it works. A   *)
(* step of one call touches its own connection and its own tenant's rows,  *)
(* so the other calls keep what they rely on (OneCall).                    *)
(*                                                                         *)
(* VariantImages: Shape is what a call is like by itself, Linked what it   *)
(* rests on in the table and the storage, Apart what two calls may not     *)
(* share; rows that a call has written are locked, and nobody else knows   *)
(* an image that is being uploaded. From these the objects follow. The     *)
(* mark rests on being alone: Alone says what a transaction has made of    *)
(* the mark so far, given a table that is well, and a commit turns it into *)
(* a table that is well again.                                             *)
(*                                                                         *)
(* Categories: no set of categories is a trap, one whose members all have  *)
(* their parent in it, counting the parents that a stale rename may bring  *)
(* back (NoTrap). A call that moves a category rests on the ancestors that *)
(* it has met being as they were (Climbed).                                *)
(***************************************************************************)
EXTENDS ProductsProofs, SequenceTheorems

--------------------------------------------------------------------------------
(* Whom a call works for.                                                  *)

InTx(c) == call[c].pc \in {"bypass", "find", "opened", "work"}

\* A call that was admitted works for the tenant it is meant for, and that tenant
\* exists; its connection carries that tenant while it works; what it has written
\* and what it was given are that tenant's. A webhook works for a tenant that its
\* account points at.
Faithful(c) ==
  /\ call[c].pc \in {"handle", "queued", "opened", "work"}
       => cls[c] = call[c].meant /\ call[c].meant \in tenants
  /\ call[c].pc = "work" => current[Conn(c)] = call[c].meant
  /\ call[c].pc = "work" \/ call[c].wrote = {}
  /\ \A r \in call[c].wrote : r.tenant = call[c].meant /\ r.by = call[c].meant
  /\ call[c].read \subseteq {call[c].meant}
  /\ call[c].pc \in {"account", "bypass", "find", "named"}
       => call[c].op = "webhook" /\ cls[c] = NoTenant /\ call[c].read = {}
  /\ call[c].pc \in {"idle", "resolve", "list", "jobs"} => call[c].op # "webhook"
  /\ call[c].pc \in {"idle", "resolve", "list", "jobs"} => cls[c] = NoTenant
  /\ call[c].op = "webhook" => cls[c] \in call[c].points \cup {NoTenant}
  /\ call[c].left \subseteq tenants

\* A transaction has a connection of the pool to itself, and nobody else has one.
Borrowed(c) ==
  /\ InTx(c) => Conn(c) \in Pool
  /\ ~InTx(c) => Conn(c) = NoConn
  /\ \A d \in Calls : InTx(c) /\ InTx(d) /\ Conn(c) = Conn(d) => c = d

\* A tenant exists with its settings, also when the script has just added it.
Furnished ==
  /\ \A t \in tenants : Settings(t) \in rows
  /\ \A r \in rows : r.tenant = r.by
  /\ script.pc # "idle" => script.tenant \in Tenants

IInv == TypeOK /\ Furnished /\ \A c \in Calls : Faithful(c) /\ Borrowed(c)
--------------------------------------------------------------------------------
(* The records of calls.                                                   *)

LEMMA IdleOK == Idle \in CallState
BY DEF Idle, CallState, Stage

(* What a step of c may do besides: insert rows of its tenant, and change  *)
(* the settings of its own connection.                                     *)
Aside(c) ==
  /\ UNCHANGED <<tenants, script, faults>> /\ count' \in 0..MaxCalls
  /\ rows \subseteq rows' /\ rows' \subseteq Row /\ \A r \in rows' : r.tenant = r.by
  /\ current' \in [Pool -> Tenants \cup {Unset, Empty}] /\ bypass' \in [Pool -> BOOLEAN]
  /\ \A d \in Calls : d # c /\ InTx(d) => current'[Conn(d)] = current[Conn(d)]

(* A step of one call leaves the others as they are: what matters is its   *)
(* own part of the invariant.                                              *)
LEMMA OneCall ==
  ASSUME IInv, NEW c \in Calls,
         NEW s \in CallState, call' = [call EXCEPT ![c] = s],
         NEW x \in Tenants \cup {NoTenant}, cls' = [cls EXCEPT ![c] = x],
         Aside(c), Faithful(c)', Borrowed(c)'
  PROVE  IInv'
<1>1. TypeOK'
  BY DEF IInv, TypeOK, Pool, Aside
<1>2. Furnished'
  BY DEF IInv, Furnished, Aside
<1>3. ASSUME NEW d \in Calls, d # c PROVE Faithful(d)' /\ Borrowed(d)'
  <2>1. call'[d] = call[d] /\ cls'[d] = cls[d]
    BY <1>3 DEF IInv, TypeOK
  <2>2. Pool' = Pool
    BY DEF Pool, Aside
  <2>3. Faithful(d)'
    BY <1>3, <2>1 DEF IInv, Faithful, InTx, Conn, Aside
  <2>4. Borrowed(d)'
    <3>1. ASSUME NEW e \in Calls, e # c PROVE (InTx(d) /\ InTx(e) /\ Conn(d) = Conn(e) => d = e)'
      BY <2>1, <3>1 DEF IInv, TypeOK, Borrowed, InTx, Conn
    <3> QED BY <1>3, <2>1, <2>2, <3>1 DEF IInv, Borrowed, InTx, Conn
  <2> QED BY <2>3, <2>4
<1> QED BY <1>1, <1>2, <1>3 DEF IInv
--------------------------------------------------------------------------------
(* Steps that move one call.                                               *)

LEMMA CallStep == ASSUME IInv, NEW c \in Calls, Call(c) PROVE IInv'
<1> USE ConstantsAssumption DEF Pool
<1>0. call[c] \in CallState
  BY DEF IInv, TypeOK
<1>1. ASSUME NEW t \in Tenants, Arrive(c, "request", t, "resolve") PROVE IInv'
  <2> DEFINE s == [Idle EXCEPT !.pc = "resolve", !.op = "request", !.meant = t]
  <2>1. s \in CallState
    BY <1>1, <1>0, IdleOK DEF CallState, Stage
  <2>2. call' = [call EXCEPT ![c] = s] /\ cls' = [cls EXCEPT ![c] = cls[c]]
    BY <1>1 DEF IInv, TypeOK, Arrive
  <2>3. call'[c] = s /\ cls'[c] = cls[c] /\ cls[c] \in Tenants \cup {NoTenant}
    BY <1>1, <2>2 DEF IInv, TypeOK, CallState
  <2>4. Faithful(c)' /\ Borrowed(c)'
    BY <1>1, <2>2, <2>3 DEF IInv, TypeOK, CallState, Faithful, Furnished, Borrowed, InTx, Conn,
       Free, Idle, Arrive
  <2>5. Aside(c)
    BY <1>1 DEF IInv, TypeOK, Faithful, Furnished, Borrowed, InTx, CallState, Conn, Aside, Arrive
  <2> QED BY <2>1, <2>2, <2>3, <2>4, <2>5, OneCall
<1>2. ASSUME Arrive(c, "webhook", NoTenant, "account") PROVE IInv'
  <2> DEFINE s == [Idle EXCEPT !.pc = "account", !.op = "webhook", !.meant = NoTenant]
  <2>1. s \in CallState
    BY <1>2, <1>0, IdleOK DEF CallState, Stage
  <2>2. call' = [call EXCEPT ![c] = s] /\ cls' = [cls EXCEPT ![c] = cls[c]]
    BY <1>2 DEF IInv, TypeOK, Arrive
  <2>3. call'[c] = s /\ cls'[c] = cls[c] /\ cls[c] \in Tenants \cup {NoTenant}
    BY <1>2, <2>2 DEF IInv, TypeOK, CallState
  <2>4. Faithful(c)' /\ Borrowed(c)'
    BY <1>2, <2>2, <2>3 DEF IInv, TypeOK, CallState, Faithful, Furnished, Borrowed, InTx, Conn,
       Free, Idle, Arrive
  <2>5. Aside(c)
    BY <1>2 DEF IInv, TypeOK, Faithful, Furnished, Borrowed, InTx, CallState, Conn, Aside, Arrive
  <2> QED BY <2>1, <2>2, <2>3, <2>4, <2>5, OneCall
<1>3. ASSUME Arrive(c, "job", NoTenant, "list") PROVE IInv'
  <2> DEFINE s == [Idle EXCEPT !.pc = "list", !.op = "job", !.meant = NoTenant]
  <2>1. s \in CallState
    BY <1>3, <1>0, IdleOK DEF CallState, Stage
  <2>2. call' = [call EXCEPT ![c] = s] /\ cls' = [cls EXCEPT ![c] = cls[c]]
    BY <1>3 DEF IInv, TypeOK, Arrive
  <2>3. call'[c] = s /\ cls'[c] = cls[c] /\ cls[c] \in Tenants \cup {NoTenant}
    BY <1>3, <2>2 DEF IInv, TypeOK, CallState
  <2>4. Faithful(c)' /\ Borrowed(c)'
    BY <1>3, <2>2, <2>3 DEF IInv, TypeOK, CallState, Faithful, Furnished, Borrowed, InTx, Conn,
       Free, Idle, Arrive
  <2>5. Aside(c)
    BY <1>3 DEF IInv, TypeOK, Faithful, Furnished, Borrowed, InTx, CallState, Conn, Aside, Arrive
  <2> QED BY <2>1, <2>2, <2>3, <2>4, <2>5, OneCall
<1>4. ASSUME NEW k \in Pool, BeginLookup(c, k) PROVE IInv'
  <2> DEFINE s == [call[c] EXCEPT !.pc = "bypass", !.conn = k]
  <2>1. s \in CallState
    BY <1>4, <1>0 DEF IInv, CallState, Stage, TypeOK
  <2>2. call' = [call EXCEPT ![c] = s] /\ cls' = [cls EXCEPT ![c] = cls[c]]
    BY <1>4 DEF IInv, TypeOK, BeginLookup
  <2>3. call'[c] = s /\ cls'[c] = cls[c] /\ cls[c] \in Tenants \cup {NoTenant}
    BY <1>4, <2>2 DEF IInv, TypeOK, CallState
  <2>4. Faithful(c)' /\ Borrowed(c)'
    BY <1>4, <2>2, <2>3 DEF IInv, TypeOK, CallState, Faithful, Furnished, Borrowed, InTx, Conn,
       Free, Idle, BeginLookup
  <2>5. Aside(c)
    BY <1>4 DEF IInv, TypeOK, Faithful, Furnished, Borrowed, InTx, CallState, Conn, Aside,
       BeginLookup
  <2> QED BY <2>1, <2>2, <2>3, <2>4, <2>5, OneCall
<1>5. ASSUME NEW k \in Pool, Begin(c, k) PROVE IInv'
  <2> DEFINE s == [call[c] EXCEPT !.pc = "opened", !.conn = k]
  <2>1. s \in CallState
    BY <1>5, <1>0 DEF IInv, CallState, Stage, TypeOK
  <2>2. call' = [call EXCEPT ![c] = s] /\ cls' = [cls EXCEPT ![c] = cls[c]]
    BY <1>5 DEF IInv, TypeOK, Begin
  <2>3. call'[c] = s /\ cls'[c] = cls[c] /\ cls[c] \in Tenants \cup {NoTenant}
    BY <1>5, <2>2 DEF IInv, TypeOK, CallState
  <2>4. Faithful(c)' /\ Borrowed(c)'
    BY <1>5, <2>2, <2>3 DEF IInv, TypeOK, CallState, Faithful, Furnished, Borrowed, InTx, Conn,
       Free, Idle, Begin
  <2>5. Aside(c)
    BY <1>5 DEF IInv, TypeOK, Faithful, Furnished, Borrowed, InTx, CallState, Conn, Aside, Begin
  <2> QED BY <2>1, <2>2, <2>3, <2>4, <2>5, OneCall
<1>6. ASSUME Resolve(c) PROVE IInv'
  <2>1. CASE call[c].meant \in tenants
    <3> DEFINE s == [call[c] EXCEPT !.pc = "handle"]
    <3>1. s \in CallState
      BY <1>6, <2>1, <1>0 DEF CallState, Stage
    <3>2. call' = [call EXCEPT ![c] = s] /\ cls' = [cls EXCEPT ![c] = call[c].meant]
      BY <1>6, <2>1 DEF IInv, TypeOK, Resolve, Goto, SetContext, Return
    <3>3. call'[c] = s /\ cls'[c] = call[c].meant /\ call[c].meant \in Tenants \cup {NoTenant}
      BY <1>6, <2>1, <3>2 DEF IInv, TypeOK, CallState
    <3>4. Faithful(c)' /\ Borrowed(c)'
      BY <1>6, <2>1, <3>2, <3>3 DEF IInv, TypeOK, CallState, Faithful, Furnished, Borrowed, InTx,
         Conn, Free, Idle, Resolve, Goto, SetContext, Return
    <3>5. Aside(c)
      BY <1>6, <2>1 DEF IInv, TypeOK, Faithful, Furnished, Borrowed, InTx, CallState, Conn,
         Aside, Resolve, Goto, SetContext, Return
    <3> QED BY <3>1, <3>2, <3>3, <3>4, <3>5, OneCall
  <2>2. CASE call[c].meant \notin tenants
    <3> DEFINE s == Idle
    <3>1. s \in CallState
      BY IdleOK
    <3>2. call' = [call EXCEPT ![c] = s] /\ cls' = [cls EXCEPT ![c] = NoTenant]
      BY <1>6, <2>2 DEF IInv, TypeOK, Resolve, Goto, SetContext, Return
    <3>3. call'[c] = s /\ cls'[c] = NoTenant /\ NoTenant \in Tenants \cup {NoTenant}
      BY <1>6, <2>2, <3>2 DEF IInv, TypeOK, CallState
    <3>4. Faithful(c)' /\ Borrowed(c)'
      BY <1>6, <2>2, <3>2, <3>3 DEF IInv, TypeOK, CallState, Faithful, Furnished, Borrowed, InTx,
         Conn, Free, Idle, Resolve, Goto, SetContext, Return
    <3>5. Aside(c)
      BY <1>6, <2>2 DEF IInv, TypeOK, Faithful, Furnished, Borrowed, InTx, CallState, Conn,
         Aside, Resolve, Goto, SetContext, Return
    <3> QED BY <3>1, <3>2, <3>3, <3>4, <3>5, OneCall
  <2> QED BY <1>6, <2>1, <2>2
<1>7. ASSUME SetBypass(c) PROVE IInv'
  <2> DEFINE s == [call[c] EXCEPT !.pc = "find"]
  <2>1. s \in CallState
    BY <1>7, <1>0 DEF CallState, Stage
  <2>2. call' = [call EXCEPT ![c] = s] /\ cls' = [cls EXCEPT ![c] = cls[c]]
    BY <1>7 DEF IInv, TypeOK, SetBypass, Goto
  <2>3. call'[c] = s /\ cls'[c] = cls[c] /\ cls[c] \in Tenants \cup {NoTenant}
    BY <1>7, <2>2 DEF IInv, TypeOK, CallState
  <2>4. Faithful(c)' /\ Borrowed(c)'
    BY <1>7, <2>2, <2>3 DEF IInv, TypeOK, CallState, Faithful, Furnished, Borrowed, InTx, Conn,
       Free, Idle, SetBypass, Goto
  <2>5. Aside(c)
    BY <1>7 DEF IInv, TypeOK, Faithful, Furnished, Borrowed, InTx, CallState, Conn, Aside,
       SetBypass, Goto
  <2> QED BY <2>1, <2>2, <2>3, <2>4, <2>5, OneCall
<1>8. ASSUME NEW H \in SUBSET tenants, FindAccount(c, H) PROVE IInv'
  <2>1. ASSUME NEW t \in Tenants, WorkFor(c, Configured(c, H), t) PROVE IInv'
    <3> DEFINE P == Configured(c, H)
               s == [call[c] EXCEPT !.pc = "queued", !.conn = NoConn, !.meant = t, !.points = P]
    <3>1. P \subseteq tenants /\ tenants \subseteq Tenants /\ t \in P
      BY <2>1 DEF IInv, TypeOK, Configured, WorkFor
    <3> HIDE DEF P
    <3>2. s \in CallState
      BY <3>1, <1>0 DEF CallState, Stage
    <3>3. call' = [call EXCEPT ![c] = s] /\ cls' = [cls EXCEPT ![c] = t]
      BY <2>1 DEF WorkFor, SetContext, P
    <3>4. call'[c] = s /\ cls'[c] = t
      BY <3>3 DEF IInv, TypeOK
    <3>5. Aside(c)
      BY <1>8 DEF IInv, TypeOK, Furnished, Borrowed, InTx, CallState, Conn, Aside, FindAccount, EndOn
    <3>6. Faithful(c)' /\ Borrowed(c)'
      BY <1>8, <3>1, <3>3, <3>4, <3>5 DEF IInv, TypeOK, CallState, Faithful, Borrowed, InTx,
         Conn, Aside, FindAccount
    <3> QED BY <3>2, <3>3, <3>4, <3>5, <3>6, OneCall
  <2>2. ASSUME Configured(c, H) = {} /\ Leave(c, "named") /\ UNCHANGED cls PROVE IInv'
    <3> DEFINE s == [call[c] EXCEPT !.pc = "named", !.conn = NoConn, !.wrote = {}]
    <3>1. s \in CallState
      BY <1>0 DEF CallState, Stage
    <3>2. call' = [call EXCEPT ![c] = s] /\ cls' = [cls EXCEPT ![c] = cls[c]]
      BY <2>2 DEF IInv, TypeOK, Leave
    <3>3. call'[c] = s /\ cls'[c] = cls[c] /\ cls[c] \in Tenants \cup {NoTenant}
      BY <3>2 DEF IInv, TypeOK, CallState
    <3>4. Faithful(c)' /\ Borrowed(c)'
      BY <1>8, <3>2, <3>3 DEF IInv, TypeOK, CallState, Faithful, Furnished, Borrowed, InTx,
         Conn, Free, Idle, FindAccount, EndOn
    <3>5. Aside(c)
      BY <1>8 DEF IInv, TypeOK, Furnished, Borrowed, InTx, CallState, Conn, Aside, FindAccount, EndOn
    <3> QED BY <3>1, <3>2, <3>3, <3>4, <3>5, OneCall
  <2> QED BY <1>8, <2>1, <2>2 DEF FindAccount
<1>9. ASSUME NEW N \in SUBSET tenants, FindNamed(c, N) PROVE IInv'
  <2>1. ASSUME NEW t \in Tenants, WorkFor(c, N, t) PROVE IInv'
    <3> DEFINE s == [call[c] EXCEPT !.pc = "queued", !.conn = NoConn, !.meant = t, !.points = N]
    <3>1. N \subseteq tenants /\ tenants \subseteq Tenants /\ t \in N
      BY <2>1 DEF IInv, TypeOK, WorkFor
    <3>2. s \in CallState
      BY <3>1, <1>0 DEF CallState, Stage
    <3>3. call' = [call EXCEPT ![c] = s] /\ cls' = [cls EXCEPT ![c] = t]
      BY <2>1 DEF WorkFor, SetContext
    <3>4. call'[c] = s /\ cls'[c] = t
      BY <3>3 DEF IInv, TypeOK
    <3>5. Aside(c)
      BY <1>9 DEF IInv, TypeOK, Furnished, Aside, FindNamed
    <3>6. Faithful(c)' /\ Borrowed(c)'
      BY <1>9, <3>1, <3>3, <3>4, <3>5 DEF IInv, TypeOK, CallState, Faithful, Borrowed, InTx,
         Conn, Aside, FindNamed
    <3> QED BY <3>2, <3>3, <3>4, <3>5, <3>6, OneCall
  <2>2. ASSUME Return(c) PROVE IInv'
    <3> DEFINE s == Idle
    <3>1. s \in CallState
      BY IdleOK
    <3>2. call' = [call EXCEPT ![c] = s] /\ cls' = [cls EXCEPT ![c] = NoTenant]
      BY <2>2 DEF Return, SetContext
    <3>3. call'[c] = s /\ cls'[c] = NoTenant /\ NoTenant \in Tenants \cup {NoTenant}
      BY <3>2 DEF IInv, TypeOK, CallState
    <3>4. Faithful(c)' /\ Borrowed(c)'
      BY <1>9, <3>2, <3>3 DEF IInv, TypeOK, CallState, Faithful, Furnished, Borrowed, InTx,
         Conn, Free, Idle, FindNamed
    <3>5. Aside(c)
      BY <1>9 DEF IInv, TypeOK, Furnished, Aside, FindNamed
    <3> QED BY <3>1, <3>2, <3>3, <3>4, <3>5, OneCall
  <2> QED BY <1>9, <2>1, <2>2 DEF FindNamed
<1>10. ASSUME ListTenants(c) PROVE IInv'
  <2> DEFINE s == [call[c] EXCEPT !.pc = "jobs", !.left = tenants]
  <2>1. s \in CallState
    BY <1>10, <1>0 DEF IInv, CallState, Stage, TypeOK
  <2>2. call' = [call EXCEPT ![c] = s] /\ cls' = [cls EXCEPT ![c] = cls[c]]
    BY <1>10 DEF IInv, TypeOK, ListTenants
  <2>3. call'[c] = s /\ cls'[c] = cls[c] /\ cls[c] \in Tenants \cup {NoTenant}
    BY <1>10, <2>2 DEF IInv, TypeOK, CallState
  <2>4. Faithful(c)' /\ Borrowed(c)'
    BY <1>10, <2>2, <2>3 DEF IInv, TypeOK, CallState, Faithful, Furnished, Borrowed, InTx, Conn,
       Free, Idle, ListTenants
  <2>5. Aside(c)
    BY <1>10 DEF IInv, TypeOK, Faithful, Furnished, Borrowed, InTx, CallState, Conn, Aside,
       ListTenants
  <2> QED BY <2>1, <2>2, <2>3, <2>4, <2>5, OneCall
<1>11. ASSUME NEW t \in Tenants, NextTenant(c, t) PROVE IInv'
  <2> DEFINE s == [call[c] EXCEPT !.pc = "queued", !.meant = t, !.read = {}, !.left = call[c].left \ {t}]
  <2>1. s \in CallState
    BY <1>11, <1>0 DEF CallState, Stage
  <2>2. call' = [call EXCEPT ![c] = s] /\ cls' = [cls EXCEPT ![c] = t]
    BY <1>11 DEF IInv, TypeOK, NextTenant, SetContext
  <2>3. call'[c] = s /\ cls'[c] = t /\ t \in Tenants \cup {NoTenant}
    BY <1>11, <2>2 DEF IInv, TypeOK, CallState
  <2>4. Faithful(c)' /\ Borrowed(c)'
    BY <1>11, <2>2, <2>3 DEF IInv, TypeOK, CallState, Faithful, Furnished, Borrowed, InTx, Conn,
       Free, Idle, NextTenant, SetContext
  <2>5. Aside(c)
    BY <1>11 DEF IInv, TypeOK, Faithful, Furnished, Borrowed, InTx, CallState, Conn, Aside,
       NextTenant, SetContext
  <2> QED BY <2>1, <2>2, <2>3, <2>4, <2>5, OneCall
<1>12. ASSUME End(c) PROVE IInv'
  <2> DEFINE s == Idle
  <2>1. s \in CallState
    BY IdleOK
  <2>2. call' = [call EXCEPT ![c] = s] /\ cls' = [cls EXCEPT ![c] = NoTenant]
    BY <1>12 DEF IInv, TypeOK, End, Return, SetContext
  <2>3. call'[c] = s /\ cls'[c] = NoTenant /\ NoTenant \in Tenants \cup {NoTenant}
    BY <1>12, <2>2 DEF IInv, TypeOK, CallState
  <2>4. Faithful(c)' /\ Borrowed(c)'
    BY <1>12, <2>2, <2>3 DEF IInv, TypeOK, CallState, Faithful, Furnished, Borrowed, InTx, Conn,
       Free, Idle, End, Return, SetContext
  <2>5. Aside(c)
    BY <1>12 DEF IInv, TypeOK, Faithful, Furnished, Borrowed, InTx, CallState, Conn, Aside, End,
       Return, SetContext
  <2> QED BY <2>1, <2>2, <2>3, <2>4, <2>5, OneCall
<1>13. ASSUME Run(c) PROVE IInv'
  <2> DEFINE s == [call[c] EXCEPT !.pc = "queued"]
  <2>1. s \in CallState
    BY <1>13, <1>0 DEF CallState, Stage
  <2>2. call' = [call EXCEPT ![c] = s] /\ cls' = [cls EXCEPT ![c] = cls[c]]
    BY <1>13 DEF IInv, TypeOK, Run, Goto
  <2>3. call'[c] = s /\ cls'[c] = cls[c] /\ cls[c] \in Tenants \cup {NoTenant}
    BY <1>13, <2>2 DEF IInv, TypeOK, CallState
  <2>4. Faithful(c)' /\ Borrowed(c)'
    BY <1>13, <2>2, <2>3 DEF IInv, TypeOK, CallState, Faithful, Furnished, Borrowed, InTx, Conn,
       Free, Idle, Run, Goto
  <2>5. Aside(c)
    BY <1>13 DEF IInv, TypeOK, Faithful, Furnished, Borrowed, InTx, CallState, Conn, Aside, Run,
       Goto
  <2> QED BY <2>1, <2>2, <2>3, <2>4, <2>5, OneCall
<1>14. ASSUME SetTenant(c) PROVE IInv'
  <2> DEFINE s == [call[c] EXCEPT !.pc = "work"]
  <2>1. s \in CallState
    BY <1>14, <1>0 DEF CallState, Stage
  <2>2. call' = [call EXCEPT ![c] = s] /\ cls' = [cls EXCEPT ![c] = cls[c]]
    BY <1>14 DEF IInv, TypeOK, SetTenant, Goto
  <2>3. call'[c] = s /\ cls'[c] = cls[c] /\ cls[c] \in Tenants \cup {NoTenant}
    BY <1>14, <2>2 DEF IInv, TypeOK, CallState
  <2>4. Faithful(c)' /\ Borrowed(c)'
    BY <1>14, <2>2, <2>3 DEF IInv, TypeOK, CallState, Faithful, Furnished, Borrowed, InTx, Conn,
       Free, Idle, SetTenant, Goto
  <2>5. Aside(c)
    BY <1>14 DEF IInv, TypeOK, Faithful, Furnished, Borrowed, InTx, CallState, Conn, Aside,
       SetTenant, Goto
  <2> QED BY <2>1, <2>2, <2>3, <2>4, <2>5, OneCall
<1>15. ASSUME Find(c) PROVE IInv'
  <2> DEFINE s == [call[c] EXCEPT !.read = call[c].read \cup { r.tenant : r \in Visible(c) }]
  <2>1. s \in CallState
    BY <1>15, <1>0 DEF IInv, CallState, Stage, TypeOK, Visible, Row
  <2>2. call' = [call EXCEPT ![c] = s] /\ cls' = [cls EXCEPT ![c] = cls[c]]
    BY <1>15 DEF IInv, TypeOK, Find
  <2>3. call'[c] = s /\ cls'[c] = cls[c] /\ cls[c] \in Tenants \cup {NoTenant}
    BY <1>15, <2>2 DEF IInv, TypeOK, CallState
  <2>4. Faithful(c)' /\ Borrowed(c)'
    BY <1>15, <2>2, <2>3 DEF IInv, TypeOK, CallState, Faithful, Furnished, Works, Borrowed, InTx, Conn,
       Free, Idle, Settings, Find, Visible
  <2>5. Aside(c)
    BY <1>15 DEF IInv, TypeOK, Faithful, Furnished, Works, Borrowed, InTx, CallState, Conn, Aside, Find,
       Visible
  <2> QED BY <2>1, <2>2, <2>3, <2>4, <2>5, OneCall
<1>16. ASSUME Insert(c) PROVE IInv'
  <2> DEFINE s == [call[c] EXCEPT !.wrote = call[c].wrote \cup {[kind |-> "data", tenant |-> cls[c], by |-> call[c].meant]}]
  <2>1. s \in CallState
    BY SMTT(20), <1>16, <1>0 DEF IInv, CallState, Stage, TypeOK, Row, Faithful, Insert, Works
  <2>2. call' = [call EXCEPT ![c] = s] /\ cls' = [cls EXCEPT ![c] = cls[c]]
    BY <1>16 DEF IInv, TypeOK, Insert
  <2>3. call'[c] = s /\ cls'[c] = cls[c] /\ cls[c] \in Tenants \cup {NoTenant}
    BY <1>16, <2>2 DEF IInv, TypeOK, CallState
  <2>4. Faithful(c)' /\ Borrowed(c)'
    BY <1>16, <2>2, <2>3 DEF IInv, TypeOK, CallState, Faithful, Furnished, Works, Borrowed, InTx, Conn,
       Free, Idle, Insert
  <2>5. Aside(c)
    BY <1>16 DEF IInv, TypeOK, Faithful, Furnished, Works, Borrowed, InTx, CallState, Conn, Aside, Insert
  <2> QED BY <2>1, <2>2, <2>3, <2>4, <2>5, OneCall
<1>17. ASSUME GetSettings(c) PROVE IInv'
  <2> DEFINE s == [call[c] EXCEPT !.read = call[c].read \cup { r.tenant : r \in Visible(c) }]
  <2>1. s \in CallState
    BY <1>17, <1>0 DEF IInv, CallState, Stage, TypeOK, Visible, Row
  <2>2. call' = [call EXCEPT ![c] = s] /\ cls' = [cls EXCEPT ![c] = cls[c]]
    BY <1>17 DEF IInv, TypeOK, Borrowed, InTx, GetSettings, Passed
  <2>3. call'[c] = s /\ cls'[c] = cls[c] /\ cls[c] \in Tenants \cup {NoTenant}
    BY <1>17, <2>2 DEF IInv, TypeOK, CallState
  <2>4. Faithful(c)' /\ Borrowed(c)'
    BY <1>17, <2>2, <2>3 DEF IInv, TypeOK, CallState, Faithful, Furnished, Borrowed, InTx, Conn,
       Free, Idle, Settings, GetSettings, Passed, Visible
  <2>5. Aside(c)
    BY <1>17 DEF IInv, TypeOK, Faithful, Furnished, Borrowed, InTx, CallState, Conn, Aside,
       GetSettings, Passed, Visible
  <2> QED BY <2>1, <2>2, <2>3, <2>4, <2>5, OneCall
<1>18. ASSUME Commit(c) PROVE IInv'
  <2>1. CASE call[c].op = "request"
    <3> DEFINE s == [call[c] EXCEPT !.pc = "handle", !.conn = NoConn, !.wrote = {}]
    <3>1. s \in CallState
      BY <1>18, <2>1, <1>0 DEF CallState, Stage
    <3>2. call' = [call EXCEPT ![c] = s] /\ cls' = [cls EXCEPT ![c] = cls[c]]
      BY <1>18, <2>1 DEF IInv, TypeOK, Commit, Leave, Return, SetContext, EndOn
    <3>3. call'[c] = s /\ cls'[c] = cls[c] /\ cls[c] \in Tenants \cup {NoTenant}
      BY <1>18, <2>1, <3>2 DEF IInv, TypeOK, CallState
    <3>4. Faithful(c)' /\ Borrowed(c)'
      BY <1>18, <2>1, <3>2, <3>3 DEF IInv, TypeOK, CallState, Faithful, Furnished, Works, Borrowed,
         InTx, Conn, Free, Idle, Commit, Leave, Return, SetContext, EndOn
    <3>5. Aside(c)
      BY <1>18, <2>1 DEF IInv, TypeOK, Faithful, Furnished, Works, Borrowed, InTx, CallState, Conn,
         Aside, Commit, Leave, Return, SetContext, EndOn
    <3> QED BY <3>1, <3>2, <3>3, <3>4, <3>5, OneCall
  <2>2. CASE call[c].op # "request"
    <3> DEFINE s == Idle
    <3>1. s \in CallState
      BY IdleOK
    <3>2. call' = [call EXCEPT ![c] = s] /\ cls' = [cls EXCEPT ![c] = NoTenant]
      BY <1>18, <2>2 DEF IInv, TypeOK, Commit, Leave, Return, SetContext, EndOn
    <3>3. call'[c] = s /\ cls'[c] = NoTenant /\ NoTenant \in Tenants \cup {NoTenant}
      BY <1>18, <2>2, <3>2 DEF IInv, TypeOK, CallState
    <3>4. Faithful(c)' /\ Borrowed(c)'
      BY <1>18, <2>2, <3>2, <3>3 DEF IInv, TypeOK, CallState, Faithful, Furnished, Works, Borrowed,
         InTx, Conn, Free, Idle, Commit, Leave, Return, SetContext, EndOn
    <3>5. Aside(c)
      BY <1>18, <2>2 DEF IInv, TypeOK, Faithful, Furnished, Works, Borrowed, InTx, CallState, Conn,
         Aside, Commit, Leave, Return, SetContext, EndOn
    <3> QED BY <3>1, <3>2, <3>3, <3>4, <3>5, OneCall
  <2> QED BY <1>18, <2>1, <2>2
<1>19. ASSUME Throw(c) PROVE IInv'
  <2>1. CASE call[c].op = "job"
    <3> DEFINE s == [call[c] EXCEPT !.pc = "jobs", !.conn = NoConn, !.wrote = {}]
    <3>1. s \in CallState
      BY <1>19, <2>1, <1>0 DEF CallState, Stage
    <3>2. call' = [call EXCEPT ![c] = s] /\ cls' = [cls EXCEPT ![c] = NoTenant]
      BY <1>19, <2>1 DEF IInv, TypeOK, Throw, Failed, Leave, Return, SetContext, EndOn
    <3>3. call'[c] = s /\ cls'[c] = NoTenant /\ NoTenant \in Tenants \cup {NoTenant}
      BY <1>19, <2>1, <3>2 DEF IInv, TypeOK, CallState
    <3>4. Faithful(c)' /\ Borrowed(c)'
      BY <1>19, <2>1, <3>2, <3>3 DEF IInv, TypeOK, CallState, Faithful, Furnished, Borrowed,
         InTx, Conn, Free, Idle, Throw, Failed, Leave, Return, SetContext, EndOn
    <3>5. Aside(c)
      BY <1>19, <2>1 DEF IInv, TypeOK, Faithful, Furnished, Borrowed, InTx, CallState, Conn,
         Aside, Throw, Failed, Leave, Return, SetContext, EndOn
    <3> QED BY <3>1, <3>2, <3>3, <3>4, <3>5, OneCall
  <2>2. CASE call[c].op # "job"
    <3> DEFINE s == Idle
    <3>1. s \in CallState
      BY IdleOK
    <3>2. call' = [call EXCEPT ![c] = s] /\ cls' = [cls EXCEPT ![c] = NoTenant]
      BY <1>19, <2>2 DEF IInv, TypeOK, Throw, Failed, Leave, Return, SetContext, EndOn
    <3>3. call'[c] = s /\ cls'[c] = NoTenant /\ NoTenant \in Tenants \cup {NoTenant}
      BY <1>19, <2>2, <3>2 DEF IInv, TypeOK, CallState
    <3>4. Faithful(c)' /\ Borrowed(c)'
      BY <1>19, <2>2, <3>2, <3>3 DEF IInv, TypeOK, CallState, Faithful, Furnished, Borrowed,
         InTx, Conn, Free, Idle, Throw, Failed, Leave, Return, SetContext, EndOn
    <3>5. Aside(c)
      BY <1>19, <2>2 DEF IInv, TypeOK, Faithful, Furnished, Borrowed, InTx, CallState, Conn,
         Aside, Throw, Failed, Leave, Return, SetContext, EndOn
    <3> QED BY <3>1, <3>2, <3>3, <3>4, <3>5, OneCall
  <2> QED BY <1>19, <2>1, <2>2
<1>20. ASSUME TimeOut(c) PROVE IInv'
  <2>1. CASE call[c].op = "job" /\ call[c].pc # "list"
    <3> DEFINE s == [call[c] EXCEPT !.pc = "jobs", !.conn = NoConn, !.wrote = {}]
    <3>1. s \in CallState
      BY <1>20, <2>1, <1>0 DEF CallState, Stage
    <3>2. call' = [call EXCEPT ![c] = s] /\ cls' = [cls EXCEPT ![c] = NoTenant]
      BY <1>20, <2>1 DEF IInv, TypeOK, TimeOut, Waiting, Failed, Leave, Return, SetContext, EndOn
    <3>3. call'[c] = s /\ cls'[c] = NoTenant /\ NoTenant \in Tenants \cup {NoTenant}
      BY <1>20, <2>1, <3>2 DEF IInv, TypeOK, CallState
    <3>4. Faithful(c)' /\ Borrowed(c)'
      BY <1>20, <2>1, <3>2, <3>3 DEF IInv, TypeOK, CallState, Faithful, Furnished, Borrowed,
         InTx, Conn, Free, Idle, TimeOut, Waiting, Failed, Leave, Return, SetContext, EndOn
    <3>5. Aside(c)
      BY <1>20, <2>1 DEF IInv, TypeOK, Faithful, Furnished, Borrowed, InTx, CallState, Conn,
         Aside, TimeOut, Waiting, Failed, Leave, Return, SetContext, EndOn
    <3> QED BY <3>1, <3>2, <3>3, <3>4, <3>5, OneCall
  <2>2. CASE ~(call[c].op = "job" /\ call[c].pc # "list") /\ call[c].pc = "account"
    <3> DEFINE s == [call[c] EXCEPT !.pc = "named", !.conn = NoConn, !.wrote = {}]
    <3>1. s \in CallState
      BY <1>20, <2>2, <1>0 DEF CallState, Stage
    <3>2. call' = [call EXCEPT ![c] = s] /\ cls' = [cls EXCEPT ![c] = cls[c]]
      BY <1>20, <2>2 DEF IInv, TypeOK, TimeOut, Waiting, Failed, Leave, Return, SetContext, EndOn
    <3>3. call'[c] = s /\ cls'[c] = cls[c] /\ cls[c] \in Tenants \cup {NoTenant}
      BY <1>20, <2>2, <3>2 DEF IInv, TypeOK, CallState
    <3>4. Faithful(c)' /\ Borrowed(c)'
      BY <1>20, <2>2, <3>2, <3>3 DEF IInv, TypeOK, CallState, Faithful, Furnished, Borrowed,
         InTx, Conn, Free, Idle, TimeOut, Waiting, Failed, Leave, Return, SetContext, EndOn
    <3>5. Aside(c)
      BY <1>20, <2>2 DEF IInv, TypeOK, Faithful, Furnished, Borrowed, InTx, CallState, Conn,
         Aside, TimeOut, Waiting, Failed, Leave, Return, SetContext, EndOn
    <3> QED BY <3>1, <3>2, <3>3, <3>4, <3>5, OneCall
  <2>3. CASE ~(call[c].op = "job" /\ call[c].pc # "list") /\ call[c].pc # "account"
    <3> DEFINE s == Idle
    <3>1. s \in CallState
      BY IdleOK
    <3>2. call' = [call EXCEPT ![c] = s] /\ cls' = [cls EXCEPT ![c] = NoTenant]
      BY <1>20, <2>3 DEF IInv, TypeOK, TimeOut, Waiting, Failed, Leave, Return, SetContext, EndOn
    <3>3. call'[c] = s /\ cls'[c] = NoTenant /\ NoTenant \in Tenants \cup {NoTenant}
      BY <1>20, <2>3, <3>2 DEF IInv, TypeOK, CallState
    <3>4. Faithful(c)' /\ Borrowed(c)'
      BY <1>20, <2>3, <3>2, <3>3 DEF IInv, TypeOK, CallState, Faithful, Furnished, Borrowed,
         InTx, Conn, Free, Idle, TimeOut, Waiting, Failed, Leave, Return, SetContext, EndOn
    <3>5. Aside(c)
      BY <1>20, <2>3 DEF IInv, TypeOK, Faithful, Furnished, Borrowed, InTx, CallState, Conn,
         Aside, TimeOut, Waiting, Failed, Leave, Return, SetContext, EndOn
    <3> QED BY <3>1, <3>2, <3>3, <3>4, <3>5, OneCall
  <2> QED BY <1>20, <2>1, <2>2, <2>3
<1> QED BY <1>1, <1>2, <1>3, <1>4, <1>5, <1>6, <1>7, <1>8, <1>9, <1>10, <1>11, <1>12, <1>13,
   <1>14, <1>15, <1>16, <1>17, <1>18, <1>19, <1>20 DEF Call
--------------------------------------------------------------------------------
(* A connection that breaks: nobody's, or the one of a transaction.        *)

LEMMA LoseStep == ASSUME IInv, NEW k \in Pool, Lose(k) PROVE IInv'
<1> USE ConstantsAssumption DEF Pool
<1>1. /\ UNCHANGED <<tenants, rows, script, count>> /\ faults' \in 0..MaxFaults
      /\ current' \in [Pool -> Tenants \cup {Unset, Empty}] /\ bypass' \in [Pool -> BOOLEAN]
  BY DEF IInv, TypeOK, Lose
<1>2. ASSUME k \in Free, UNCHANGED <<call, cls>> PROVE IInv'
  <2>1. TypeOK'
    BY <1>1, <1>2 DEF IInv, TypeOK
  <2>2. Furnished'
    BY <1>1, <1>2 DEF IInv, Furnished
  <2>3. \A d \in Calls : Faithful(d)'
    BY <1>1, <1>2 DEF IInv, TypeOK, Faithful, Borrowed, InTx, Conn, Free, Lose
  <2>4. \A d \in Calls : Borrowed(d)'
    BY <1>1, <1>2 DEF IInv, TypeOK, Borrowed, InTx, Conn
  <2> QED BY <2>1, <2>2, <2>3, <2>4 DEF IInv
<1>3. ASSUME NEW c \in Calls, k = Conn(c), Failed(c) PROVE IInv'
  <2> DEFINE s == IF call[c].op = "job" /\ call[c].pc # "list"
                  THEN [call[c] EXCEPT !.pc = "jobs", !.conn = NoConn, !.wrote = {}]
                  ELSE IF call[c].pc \in {"bypass", "find"}
                  THEN [call[c] EXCEPT !.pc = "named", !.conn = NoConn, !.wrote = {}]
                  ELSE Idle
             x == IF ~(call[c].op = "job" /\ call[c].pc # "list") /\ call[c].pc \in {"bypass", "find"}
                  THEN cls[c] ELSE NoTenant
  <2>1. InTx(c) /\ call[c] \in CallState
    BY <1>3 DEF IInv, TypeOK, Borrowed
  <2>2. s \in CallState
    <3>1. \A l \in {"jobs", "named"} :
            [call[c] EXCEPT !.pc = l, !.conn = NoConn, !.wrote = {}] \in CallState
      BY <2>1 DEF CallState, Stage
    <3> QED BY <3>1, IdleOK
  <2>3. call' = [call EXCEPT ![c] = s] /\ cls' = [cls EXCEPT ![c] = x]
    <3>1. call' = [call EXCEPT ![c] = s]
      BY <1>3, <2>1 DEF Failed, Leave, Return, InTx
    <3>2. cls' = [cls EXCEPT ![c] = x]
      BY <1>3, <2>1 DEF IInv, TypeOK, Failed, Return, SetContext, InTx
    <3> QED BY <3>1, <3>2
  <2>4. call'[c] = s /\ cls'[c] = x
    BY <2>3 DEF IInv, TypeOK
  <2>5. TypeOK' /\ Furnished'
    BY <1>1, <2>2, <2>3 DEF IInv, TypeOK, Furnished
  <2>6. Faithful(c)'
    BY <1>1, <2>1, <2>4 DEF IInv, Faithful, CallState, Idle, InTx
  <2>7. Borrowed(c)'
    BY <1>1, <2>1, <2>4 DEF IInv, TypeOK, Borrowed, CallState, Idle, InTx, Conn
  <2>8. ASSUME NEW d \in Calls, d # c PROVE Faithful(d)' /\ Borrowed(d)'
    <3>1. call'[d] = call[d] /\ cls'[d] = cls[d]
      BY <2>3, <2>8 DEF IInv, TypeOK
    <3>2. InTx(d) => current'[Conn(d)] = current[Conn(d)]
      BY <1>3, <2>1, <2>8 DEF IInv, TypeOK, Borrowed, Lose
    <3>3. Faithful(d)'
      BY <1>1, <3>1, <3>2 DEF IInv, Faithful, InTx, Conn
    <3>4. Borrowed(d)'
      <4>1. ASSUME NEW e \in Calls PROVE (InTx(d) /\ InTx(e) /\ Conn(d) = Conn(e) => d = e)'
        BY <2>3, <2>4, <3>1, <4>1 DEF IInv, TypeOK, Borrowed, InTx, Conn, Idle
      <4> QED BY <1>1, <3>1, <4>1 DEF IInv, TypeOK, Borrowed, InTx, Conn
    <3> QED BY <3>3, <3>4
  <2> QED BY <2>5, <2>6, <2>7, <2>8 DEF IInv
<1> QED BY <1>2, <1>3 DEF Lose

(* The script: only its commit shows.                                      *)
LEMMA ScriptStep ==
  ASSUME IInv, (\E t \in Tenants : AddTenant(t)) \/ InsertTenant \/ CommitTenant \/ CrashScript
  PROVE  IInv'
<1>1. /\ UNCHANGED Others /\ tenants \subseteq tenants' /\ rows \subseteq rows'
      /\ tenants' \subseteq Tenants /\ rows' \subseteq Row
      /\ script' \in [pc : {"idle", "insert", "settings"}, tenant : Tenants \cup {NoTenant}]
  BY DEF IInv, TypeOK, Furnished, AddTenant, InsertTenant, CommitTenant, CrashScript, NoScript,
     Others, Row, Settings
<1>2. TypeOK'
  BY <1>1 DEF IInv, TypeOK, Others, Pool
<1>3. Furnished'
  BY <1>1 DEF IInv, TypeOK, Furnished, AddTenant, InsertTenant, CommitTenant, CrashScript,
     NoScript, Others, Settings
<1>4. \A c \in Calls : Faithful(c)'
  BY <1>1 DEF IInv, Faithful, Others, Conn
<1>5. \A c \in Calls : Borrowed(c)'
  BY <1>1 DEF IInv, Borrowed, Others, InTx, Conn, Pool
<1> QED BY <1>2, <1>3, <1>4, <1>5 DEF IInv

LEMMA InitHolds == ASSUME Init PROVE IInv
<1> USE ConstantsAssumption DEF Init
<1>1. TypeOK
  <2>1. call \in [Calls -> CallState] /\ cls \in [Calls -> Tenants \cup {NoTenant}]
    BY IdleOK
  <2>2. rows \subseteq Row
    BY DEF Row, Settings
  <2>3. /\ current \in [Pool -> Tenants \cup {Unset, Empty}] /\ bypass \in [Pool -> BOOLEAN]
        /\ Pool \subseteq Conns /\ Pool # {}
    <3>1. PICK P \in (SUBSET Conns) \ {{}} : current = [k \in P |-> Unset] /\ bypass = [k \in P |-> FALSE]
      OBVIOUS
    <3>2. Pool = P
      BY <3>1 DEF Pool
    <3> QED BY <3>1, <3>2 DEF Pool
  <2> QED BY <2>1, <2>2, <2>3 DEF TypeOK, NoScript
<1>2. Furnished
  BY DEF Furnished, Settings, NoScript
<1>3. \A c \in Calls : Faithful(c)
  BY DEF Faithful, Idle
<1>4. \A c \in Calls : Borrowed(c)
  BY DEF Borrowed, InTx, Conn, Idle
<1> QED BY <1>1, <1>2, <1>3, <1>4 DEF IInv

LEMMA StepHolds == ASSUME IInv, [Next]_vars PROVE IInv'
<1>1. CASE UNCHANGED vars
  BY <1>1 DEF IInv, TypeOK, Furnished, Faithful, Borrowed, InTx, Conn, Pool, vars
<1>2. CASE Next
  BY <1>2, CallStep, LoseStep, ScriptStep DEF Next
<1> QED BY <1>1, <1>2

LEMMA Invariance == Spec => []IInv
BY InitHolds, StepHolds, PTL DEF Spec
--------------------------------------------------------------------------------
(* No transaction sees or writes a row of another tenant, whichever way the *)
(* call found its own (withTenant, the tenant_isolation policies).          *)
THEOREM TenantsKeptApart == Spec => []TenantsApart
<1>1. IInv => TenantsApart
  BY DEF IInv, TypeOK, Furnished, Faithful, TenantsApart, Visible, Settings
<1> QED BY <1>1, Invariance, PTL

(* A call that waits for a connection holds none, so that the pool is never *)
(* exhausted by calls that wait for it (getSettings, TenantDbService.run).  *)
THEOREM PoolNeverWaitsForItself == Spec => []PoolMoves
<1>1. IInv => PoolMoves
  <2> SUFFICES ASSUME IInv, Free = {} PROVE \E c \in Calls : Conn(c) # NoConn /\ ~Waiting(c)
    BY DEF PoolMoves
  <2>1. PICK k \in Pool : TRUE
    BY DEF IInv, TypeOK
  <2>2. PICK c \in Calls : Conn(c) = k
    BY <2>1 DEF Free
  <2>3. Conn(c) # NoConn
    BY <2>1, <2>2, ConstantsAssumption DEF IInv, TypeOK
  <2> QED BY <2>3 DEF IInv, Borrowed, InTx, Waiting
<1> QED BY <1>1, Invariance, PTL

--------------------------------------------------------------------------------
(* The images of a variant.                                                *)

\* The images that a call is to save, those that it brings, and all it has to do with.
ToSave(r) == { r.list[k] : k \in DOMAIN r.list }
Subject(r) == { i \in VI!Images : r.ent[i].there }
Brings(r)  == r.op \in {"create", "upload"}
Own(r)     == IF Brings(r) THEN Subject(r) ELSE {}
Touched(r) == Subject(r) \cup r.del \cup r.todo \cup r.wrote

Stages(op) == CASE op = "none"    -> {"idle"}
                [] op = "create"  -> {"store", "compare", "write", "commit"}
                [] op = "upload"  -> {"store", "open", "demote", "demoting", "compare", "write", "commit"}
                [] op = "update"  -> {"demote", "demoting", "compare", "write", "commit"}
                [] op = "delete"  -> {"remove", "promote", "compare", "write", "commit", "unlink"}
                [] op = "reorder" -> {"compare", "write", "commit"}

\* The list of a call is used up when it commits, or not made yet; a row that
\* it has written is there, unless it is the one to delete; an image that it
\* brings is waiting or written.
Shape(r) ==
  /\ r.pc \in Stages(r.op)
  /\ r.pc = "idle" => r = VI!Idle
  /\ ~VI!InTx(r) => r.wrote = {}
  /\ r.list = <<>> <=> r.pc \in {"idle", "commit", "unlink", "remove", "promote"}
  /\ \A j, k \in DOMAIN r.list : r.list[j] = r.list[k] => j = k
  /\ \A i \in ToSave(r) : i \notin r.del /\ r.ent[i].there
  /\ \A i \in r.wrote : r.w[i].there \/ i \in r.del
  /\ r.del # {} => r.op = "delete"
  /\ \A i, j \in r.del : i = j
  /\ r.op \in {"upload", "update"} => \A i, j \in Subject(r) : i = j
  /\ r.pc = "remove" => r.wrote = {}
  /\ r.pc \notin {"remove", "unlink"} => \A i \in r.del : i \in r.wrote /\ ~r.w[i].there
  /\ Brings(r) => /\ \A i \in Own(r) : i \in ToSave(r) <=> i \notin r.wrote
                  /\ r.pc = "write" => r.ins

\* What a call has to do with the variant v, the rows R, the objects O, the
\* last id d and the images B put back.
Linked(r, v, R, O, d, B) ==
  /\ r.op = "create" => v = "none" /\ r.wrote \subseteq Own(r)
  /\ r.op \notin {"none", "create"} => v # "none"
  /\ v = "gone" => \A i \in r.wrote : ~r.w[i].there
  /\ \A i \in Touched(r) : i <= d
  /\ \A i \in Own(r) : ~R[i].there
  /\ Brings(r) => /\ r.pc # "store" /\ r.list # <<>> => Head(r.list) \in O
                  /\ \A i \in r.wrote : IF i \in Own(r) THEN i \in O ELSE R[i].there
  /\ r.pc = "unlink" => \A i \in r.del : R[i].there => i \in B

Apart(r, s) == r.wrote \cap s.wrote = {} /\ Own(r) \cap Touched(s) = {}
OneCreate == \A t, u \in Calls : imageTx[t].op = "create" /\ imageTx[u].op = "create" => t = u

Owed(r) == Own(r) \cup (IF r.pc = "unlink" THEN r.del ELSE {})
Stocked ==
  /\ \A i \in VI!Rows : i <= used /\ (i \in object \/ i \in revived)
  /\ variant # "there" => VI!Rows = {}
  /\ ~strays => \A k \in object : k \in VI!Rows \/ \E t \in Calls : k \in Owed(imageTx[t])

ImagesInv ==
  /\ VI!TypeOK /\ Stocked /\ OneCreate
  /\ \A t \in Calls : Shape(imageTx[t]) /\ Linked(imageTx[t], variant, image, object, used, revived)
  /\ \A t \in Calls : \A u \in Calls \ {t} : Apart(imageTx[t], imageTx[u])

--------------------------------------------------------------------------------
\* The images of a table, the primary ones, and the table as a call sees it.
There(R)  == { i \in VI!Images : R[i].there }
Marks(R)  == { i \in There(R) : R[i].primary }
Sees(r, R) == [i \in VI!Images |-> IF i \in r.wrote THEN r.w[i] ELSE R[i]]

\* c: isPrimary has been set to false.
Well(R, c) == /\ \A i, j \in Marks(R) : i = j
              /\ There(R) # {} /\ ~c => Marks(R) # {}

\* What a transaction that is alone makes of the mark, on rows R that are well.
Creating(r) ==
  /\ Own(r) # {} => 1 \in Own(r)
  /\ \A i \in Own(r) : r.ent[i].primary <=> i = 1
  /\ \A i \in r.wrote : r.w[i].primary = r.ent[i].primary

Demoted(r, R) == \A i \in Marks(R) : i \in r.todo \/ (i \in r.wrote /\ ~r.w[i].primary)

\* o: the image that the call uploads or updates.
Setting(r, R, o) ==
  /\ Subject(r) = {o}
  /\ r.pc # "commit" => o \notin r.wrote
  /\ \A i \in r.wrote \ {o} : ~r.w[i].primary
  /\ r.pc = "demote" => r.ent[o].primary /\ r.wrote = {}
  /\ r.pc = "demoting" => r.ent[o].primary /\ Demoted(r, R) /\ r.todo \subseteq Marks(R)
  /\ r.pc \in {"demote", "demoting"} => o \notin Marks(R)
  /\ r.pc \in {"compare", "write", "commit"} =>
       IF r.ent[o].primary THEN Marks(Sees(r, R)) \subseteq {o} ELSE r.wrote \subseteq {o}
  /\ r.pc = "commit" => Sees(r, R)[o].there /\ Sees(r, R)[o].primary = r.ent[o].primary

Uploading(r, R) == \E o \in VI!Images \ There(R) :
  Setting(r, R, o) /\ (r.ent[o].primary \/ There(R) # {})

Updating(r, R, c) == \E o \in There(R) :
  /\ Setting(r, R, o)
  /\ r.ent[o].primary \/ ~R[o].primary \/ c
  /\ r.pc = "write" => ~r.ins /\ ("primary" \in r.cols \/ R[o].primary = r.ent[o].primary)

\* o: the image to delete; n: the one that is to be primary after it.
Deleting(r, R, c) == \E o \in There(R) :
  /\ r.del = {o}
  /\ r.pc = "remove" => r.ent[o].primary = R[o].primary
  /\ r.pc = "promote" => o \in Marks(R) /\ r.wrote = {o}
  /\ r.pc \in {"compare", "write"} =>
       /\ o \in Marks(R) /\ r.wrote = {o}
       /\ \E n \in There(R) : ToSave(r) = {n} /\ r.ent[n].primary
  /\ r.pc = "write" => ~r.ins /\ "primary" \in r.cols
  /\ r.pc = "commit" => Well(Sees(r, R), c)

Reordering(r, R) ==
  /\ ToSave(r) \subseteq There(R) /\ r.wrote \subseteq There(R)
  /\ \A i \in There(R) : r.ent[i].primary = R[i].primary
  /\ \A i \in r.wrote : r.w[i].primary = R[i].primary
  /\ r.pc = "write" => ~r.ins

Alone(r, v, R, c) ==
  /\ r.op = "create" => Creating(r)
  /\ v = "there" => /\ r.op = "upload"  => Uploading(r, R)
                    /\ r.op = "update"  => Updating(r, R, c)
                    /\ r.op = "delete"  => Deleting(r, R, c)
                    /\ r.op = "reorder" => Reordering(r, R)

MarkInv ==
  ~overlapped => /\ \A t \in Calls : VI!InTx(imageTx[t]) => /\ Alone(imageTx[t], variant, image, cleared)
                                                            /\ \A u \in Calls \ {t} : ~VI!InTx(imageTx[u])
                 /\ Well(image, cleared)

--------------------------------------------------------------------------------
LEMMA ImagesFinite == IsFiniteSet(VI!Images) /\ VI!Images \subseteq Nat
BY ImagesAssumption, FS_Interval DEF VI!Images

LEMMA LastInt == ASSUME image \in [VI!Images -> VI!Row] PROVE VI!Last \in Int
<1> DEFINE S == {-1} \cup { image[i].sort : i \in VI!Rows }
<1>1. VI!Rows \subseteq VI!Images /\ \A i \in VI!Rows : image[i].sort \in Int
  BY DEF VI!Rows, VI!Row
<1>2. IsFiniteSet(VI!Rows)
  BY <1>1, ImagesFinite, FS_Subset
<1>3. IsFiniteSet({ image[i].sort : i \in VI!Rows })
  <2> DEFINE T == { image[i].sort : i \in VI!Rows }
             f == [i \in VI!Rows |-> image[i].sort]
  <2>1. f \in Surjection(VI!Rows, T)
    BY DEF Surjection
  <2> HIDE DEF T, f
  <2>2. IsFiniteSet(T)
    BY <1>2, <2>1, FS_Surjection
  <2> QED
    BY <2>2 DEF T
<1>4. IsFiniteSet({-1})
  BY FS_Singleton
<1>5. IsFiniteSet(S) /\ S \subseteq Int /\ S # {}
  <2>1. IsFiniteSet(S)
    BY <1>3, <1>4, FS_Union
  <2> QED
    BY <1>1, <2>1
<1>6. \E n \in S : \A m \in S : m <= n
  <2> HIDE DEF S
  <2> QED
    BY <1>5, Greatest
<1>7. \E n \in S : \A i \in VI!Rows : image[i].sort <= n
  BY <1>6
<1>8. VI!Last \in S
  BY <1>7 DEF VI!Last
<1> QED
  BY <1>5, <1>8

\* A gallery in order.
LEMMA TidyIs ==
  ASSUME NEW s \in Seq(VI!Images)
  PROVE  /\ VI!Tidy(s) \in [VI!Images -> VI!Row]
         /\ \A i \in VI!Images : VI!Tidy(s)[i].there <=> \E n \in DOMAIN s : s[n] = i
<1>1. DOMAIN s = 1..Len(s) /\ Len(s) \in Nat
  OBVIOUS
<1>2. ASSUME NEW i \in VI!Images
      PROVE  VI!Tidy(s)[i] \in VI!Row /\ (VI!Tidy(s)[i].there <=> \E n \in DOMAIN s : s[n] = i)
  <2>1. CASE \E n \in 1..Len(s) : s[n] = i
    <3> DEFINE n == CHOOSE n \in 1..Len(s) : s[n] = i
    <3>1. n \in 1..Len(s) /\ n - 1 \in Int
      BY <1>1, <2>1
    <3>2. VI!Tidy(s)[i] = VI!At(n - 1, n = 1)
      BY <2>1 DEF VI!Tidy
    <3> HIDE DEF n
    <3> QED
      BY <1>1, <2>1, <3>1, <3>2 DEF VI!At, VI!Row
  <2>2. CASE ~ \E n \in 1..Len(s) : s[n] = i
    BY <1>1, <2>2 DEF VI!Tidy, VI!NoRow, VI!Row
  <2> QED
    BY <2>1, <2>2
<1>3. VI!Tidy(s) \in [VI!Images -> VI!Row]
  BY <1>2 DEF VI!Tidy
<1> QED
  BY <1>2, <1>3

LEMMA DrawnIs ==
  ASSUME NEW n \in 0..MaxImages
  PROVE  VI!Drawn(n) \in Seq(VI!Images) /\ Len(VI!Drawn(n)) = n /\ DOMAIN VI!Drawn(n) = 1..n /\ \A k \in 1..n : VI!Drawn(n)[k] = k
<1>1. n \in Nat /\ 1..n \subseteq VI!Images
  BY ImagesAssumption DEF VI!Images
<1>2. DOMAIN VI!Drawn(n) = 1..n /\ \A k \in 1..n : VI!Drawn(n)[k] = k
  BY DEF VI!Drawn
<1>3. VI!Drawn(n) \in [1..n -> VI!Images]
  BY <1>1 DEF VI!Drawn
<1>4. VI!Drawn(n) \in Seq(VI!Images)
  BY <1>1, <1>3
<1>5. Len(VI!Drawn(n)) = n
  BY <1>1, <1>2, <1>4
<1> QED
  BY <1>2, <1>4, <1>5

\* The first image of a new gallery is its primary one.
LEMMA GalleryIs ==
  ASSUME NEW n \in 0..MaxImages, NEW i \in 1..n
  PROVE  VI!Tidy(VI!Drawn(n))[i].primary <=> i = 1
<1> DEFINE s == VI!Drawn(n)
           k == CHOOSE k \in 1..Len(s) : s[k] = i
<1>1. Len(s) = n /\ \A j \in 1..n : s[j] = j
  BY DrawnIs
<1>2. i \in VI!Images
  BY ImagesAssumption DEF VI!Images
<1>3. k \in 1..Len(s) /\ s[k] = i
  BY <1>1
<1>4. VI!Tidy(s)[i] = VI!At(k - 1, k = 1)
  BY <1>2, <1>3 DEF VI!Tidy
<1> HIDE DEF k, s
<1>5. k = i
  BY <1>1, <1>3
<1>6. VI!Tidy(s)[i].primary = (k = 1)
  BY <1>4 DEF VI!At
<1> QED
  BY <1>5, <1>6 DEF s

LEMMA RowTypes == /\ VI!NoRow \in VI!Row /\ VI!Blank \in [VI!Images -> VI!Row] /\ VI!Idle \in VI!Call
                  /\ \A n \in Int, p \in BOOLEAN : VI!At(n, p) \in VI!Row
<1>1. VI!NoRow \in VI!Row /\ \A n \in Int, p \in BOOLEAN : VI!At(n, p) \in VI!Row
  BY DEF VI!NoRow, VI!Row, VI!At
<1>2. VI!Blank \in [VI!Images -> VI!Row]
  BY <1>1 DEF VI!Blank
<1>3. <<>> \in Seq(VI!Images)
  OBVIOUS
<1>4. VI!Idle \in VI!Call
  BY <1>2, <1>3 DEF VI!Idle, VI!Call
<1> QED
  BY <1>1, <1>2, <1>4

LEMMA IdleShape ==
  /\ Shape(VI!Idle) /\ Touched(VI!Idle) = {} /\ Own(VI!Idle) = {} /\ Owed(VI!Idle) = {}
  /\ VI!Idle.wrote = {}
  /\ VI!Idle.pc = "idle" /\ VI!Idle.op = "none" /\ ~VI!InTx(VI!Idle)
  /\ \A v, R, O, d, B : Linked(VI!Idle, v, R, O, d, B)
<1>1. /\ VI!Idle.wrote = {} /\ VI!Idle.del = {} /\ VI!Idle.todo = {} /\ VI!Idle.pc = "idle"
      /\ VI!Idle.op = "none"
      /\ VI!Idle.list = <<>>
  BY DEF VI!Idle
<1>2. DOMAIN <<>> = {}
  OBVIOUS
<1>3. Subject(VI!Idle) = {}
  BY DEF VI!Idle, VI!Blank, VI!NoRow, Subject
<1>4. /\ Own(VI!Idle) = {} /\ ToSave(VI!Idle) = {} /\ ~VI!InTx(VI!Idle) /\ ~Brings(VI!Idle)
      /\ Touched(VI!Idle) = {} /\ Owed(VI!Idle) = {}
  BY <1>1, <1>2, <1>3 DEF Own, Brings, ToSave, VI!InTx, Touched, Owed
<1>5. Shape(VI!Idle)
  BY <1>1, <1>2, <1>4 DEF Shape, Stages
<1>6. \A v, R, O, d, B : Linked(VI!Idle, v, R, O, d, B)
  BY <1>1, <1>4 DEF Linked
<1> QED
  BY <1>1, <1>4, <1>5, <1>6

--------------------------------------------------------------------------------
(* Initially.                                                              *)

LEMMA ImagesInit == ASSUME VI!Init PROVE ImagesInv /\ MarkInv
<1>1. used \in 0..MaxImages /\ image = VI!Tidy(VI!Drawn(used)) /\ object = 1..used
      /\ ((variant = "none" /\ used = 0) \/ variant = "there")
  BY ImagesAssumption DEF VI!Init, VI!Key
<1>2. \A t \in Calls : imageTx[t] = VI!Idle
  BY DEF VI!Init
<1>3. /\ VI!Drawn(used) \in Seq(VI!Images) /\ DOMAIN VI!Drawn(used) = 1..used
      /\ \A k \in 1..used : VI!Drawn(used)[k] = k
      /\ Len(VI!Drawn(used)) = used
  BY <1>1, DrawnIs
<1>4. /\ image \in [VI!Images -> VI!Row]
      /\ \A i \in VI!Images : image[i].there <=> \E n \in 1..used : VI!Drawn(used)[n] = i
  BY <1>1, <1>3, TidyIs
<1>5. 1..used \subseteq VI!Images
  BY <1>1, ImagesAssumption DEF VI!Images
<1>6. VI!Rows = 1..used
  BY <1>3, <1>4, <1>5 DEF VI!Rows
<1>7. VI!TypeOK
  <2>1. imageTx \in [Calls -> VI!Call]
    BY RowTypes DEF VI!Init
  <2> QED
    BY <1>1, <1>4, <1>5, <2>1 DEF VI!Init, VI!TypeOK
<1>8. Stocked
  <2>1. variant # "there" => VI!Rows = {}
    BY <1>1, <1>6
  <2>2. \A i \in 1..used : i <= used
    BY <1>1
  <2> QED
    BY <1>1, <1>6, <2>1, <2>2 DEF Stocked
<1>9. \A t \in Calls : Shape(imageTx[t]) /\ Linked(imageTx[t], variant, image, object, used, revived)
  BY <1>2, IdleShape
<1>10. \A t, u \in Calls : Apart(imageTx[t], imageTx[u])
  BY <1>2, IdleShape DEF Apart
<1>11. OneCreate
  BY <1>2, IdleShape DEF OneCreate
<1>12. \A i \in VI!Rows : image[i].primary <=> i = 1
  BY <1>1, <1>6, GalleryIs
<1>13. Well(image, cleared)
  <2>1. VI!Rows # {} => 1 \in VI!Rows
    BY <1>1, <1>6
  <2>2. VI!Rows = There(image)
    BY DEF VI!Rows, There
  <2> QED
    BY <1>12, <2>1, <2>2 DEF Well, Marks
<1>14. \A t \in Calls : ~VI!InTx(imageTx[t])
  BY <1>2, IdleShape
<1> QED
  BY <1>7, <1>8, <1>9, <1>10, <1>11, <1>13, <1>14 DEF ImagesInv, MarkInv

--------------------------------------------------------------------------------
(* What a step has to show.                                                *)

\* A step that makes of the call t the record r.
LEMMA CallKeeps ==
  ASSUME ImagesInv, VI!TypeOK', Stocked', NEW t \in Calls, NEW r \in VI!Call, imageTx' = [imageTx EXCEPT ![t] = r],
         Shape(r), Linked(r, variant', image', object', used', revived'),
         r.op = "create" => \A u \in Calls \ {t} : imageTx[u].op # "create",
         \A u \in Calls \ {t} : /\ Linked(imageTx[u], variant', image', object', used', revived')
                                /\ Apart(r, imageTx[u]) /\ Apart(imageTx[u], r)
  PROVE  ImagesInv'
<1>1. \A u \in Calls : imageTx'[u] = IF u = t THEN r ELSE imageTx[u]
  BY DEF ImagesInv, VI!TypeOK
<1>2. OneCreate'
  BY <1>1 DEF ImagesInv, OneCreate
<1>3. ASSUME NEW u \in Calls
      PROVE  Shape(imageTx'[u]) /\ Linked(imageTx'[u], variant', image', object', used', revived')
  BY <1>1 DEF ImagesInv
<1>4. ASSUME NEW u \in Calls, NEW v \in Calls \ {u} PROVE Apart(imageTx'[u], imageTx'[v])
  BY <1>1, <1>4 DEF ImagesInv
<1> QED
  BY <1>2, <1>3, <1>4 DEF ImagesInv

LEMMA Held ==
  ASSUME ImagesInv, NEW t \in Calls
  PROVE  /\ imageTx[t] \in VI!Call /\ Shape(imageTx[t]) /\ Linked(imageTx[t], variant, image, object, used, revived)
         /\ \A u \in Calls \ {t} : Apart(imageTx[t], imageTx[u]) /\ Apart(imageTx[u], imageTx[t])
BY DEF ImagesInv, VI!TypeOK

\* One that changes neither table nor storage: it may write rows that are free,
\* and touch more images.
LEMMA LocalKeeps ==
  ASSUME ImagesInv, NEW t \in Calls, NEW r \in VI!Call, imageTx' = [imageTx EXCEPT ![t] = r],
         UNCHANGED <<variant, image, object, used, cleared, revived, strays, imageCalls, imageAborts>>,
         overlapped' \in BOOLEAN,
         Shape(r), Linked(r, variant, image, object, used, revived),
         r.op = imageTx[t].op, r.del = imageTx[t].del, Own(r) = Own(imageTx[t]),
         imageTx[t].pc # "unlink", r.pc # "unlink",
         \A i \in Touched(r) : i \in Touched(imageTx[t]) \/ i \in VI!Rows,
         \A i \in r.wrote : i \in imageTx[t].wrote \/ VI!Free(t, i)
  PROVE  ImagesInv'
<1>1. VI!TypeOK'
  BY DEF ImagesInv, VI!TypeOK
<1>2. Stocked'
  <2>1. VI!Rows' = VI!Rows
    BY DEF VI!Rows
  <2>2. \A u \in Calls : Owed(imageTx'[u]) = Owed(imageTx[u])
    <3>1. \A u \in Calls : imageTx'[u] = IF u = t THEN r ELSE imageTx[u]
      BY DEF ImagesInv, VI!TypeOK
    <3> QED
      BY <3>1 DEF Owed
  <2> QED
    BY <2>1, <2>2 DEF ImagesInv, Stocked
<1>3. ASSUME NEW u \in Calls \ {t}
      PROVE  /\ Linked(imageTx[u], variant, image, object, used, revived)
             /\ Apart(r, imageTx[u]) /\ Apart(imageTx[u], r)
  <2>1. /\ Linked(imageTx[u], variant, image, object, used, revived)
        /\ Apart(imageTx[t], imageTx[u]) /\ Apart(imageTx[u], imageTx[t])
    BY Held
  <2>2. r.wrote \cap imageTx[u].wrote = {}
    BY <2>1 DEF Apart, VI!Free
  <2>3. \A i \in Own(imageTx[u]) : i \notin VI!Rows
    BY <2>1 DEF Linked, VI!Rows
  <2>4. Own(imageTx[u]) \cap Touched(r) = {}
    BY <2>1, <2>3 DEF Apart
  <2> QED
    BY <2>1, <2>2, <2>4 DEF Apart
<1>4. r.op = "create" => \A u \in Calls \ {t} : imageTx[u].op # "create"
  BY DEF ImagesInv, OneCreate
<1> QED
  BY <1>1, <1>2, <1>3, <1>4, CallKeeps

LEMMA OpOf ==
  ASSUME NEW r \in VI!Call, Shape(r)
  PROVE  /\ r.pc = "idle" <=> r.op = "none"
         /\ r.pc = "store" => r.op \in {"create", "upload"}
         /\ r.pc = "open" => r.op = "upload"
         /\ r.pc \in {"demote", "demoting"} => r.op \in {"upload", "update"}
         /\ r.pc \in {"remove", "promote", "unlink"} => r.op = "delete"
<1>1. r.op \in {"none", "create", "upload", "update", "delete", "reorder"} /\ r.pc \in Stages(r.op)
  BY DEF VI!Call, Shape
<1>2. CASE r.op = "none"
  BY <1>1, <1>2 DEF Stages
<1>3. CASE r.op = "create"
  BY <1>1, <1>3 DEF Stages
<1>4. CASE r.op = "upload"
  BY <1>1, <1>4 DEF Stages
<1>5. CASE r.op = "update"
  BY <1>1, <1>5 DEF Stages
<1>6. CASE r.op = "delete"
  BY <1>1, <1>6 DEF Stages
<1>7. CASE r.op = "reorder"
  BY <1>1, <1>7 DEF Stages
<1> QED
  BY <1>1, <1>2, <1>3, <1>4, <1>5, <1>6, <1>7

LEMMA RowsAre ==
  ASSUME ImagesInv
  PROVE  /\ image \in [VI!Images -> VI!Row] /\ There(image) = VI!Rows
         /\ \A t \in Calls, i \in VI!Images : VI!View(t, i) \in VI!Row /\ VI!View(t, i) = Sees(imageTx[t], image)[i]
<1>1. image \in [VI!Images -> VI!Row] /\ There(image) = VI!Rows
  BY DEF ImagesInv, VI!TypeOK, There, VI!Rows
<1>2. ASSUME NEW t \in Calls, NEW i \in VI!Images
      PROVE  VI!View(t, i) \in VI!Row /\ VI!View(t, i) = Sees(imageTx[t], image)[i]
  <2>1. imageTx[t].w \in [VI!Images -> VI!Row]
    BY Held DEF VI!Call
  <2> QED
    BY <1>1, <2>1 DEF VI!View, Sees
<1> QED
  BY <1>1, <1>2

LEMMA HeadIs ==
  ASSUME NEW r \in VI!Call, Shape(r), r.list # <<>>
  PROVE  LET i == Head(r.list)
             s == Tail(r.list)
         IN  /\ i \in VI!Images /\ i \in ToSave(r) /\ i \in Subject(r) /\ i \notin r.del
             /\ s \in Seq(VI!Images) /\ (s = <<>> <=> Len(r.list) = 1)
             /\ \A j, k \in DOMAIN s : s[j] = s[k] => j = k
             /\ { s[k] : k \in DOMAIN s } = ToSave(r) \ {i}
             /\ r.op \in {"upload", "update"} => Len(r.list) = 1
<1> DEFINE l == r.list
           i == Head(l)
           s == Tail(l)
<1>1. l \in Seq(VI!Images) /\ l # <<>>
  BY DEF VI!Call
<1>2. \A j, k \in DOMAIN l : l[j] = l[k] => j = k
  BY DEF Shape
<1>3. \A k \in DOMAIN l : l[k] \notin r.del /\ r.ent[l[k]].there
  BY DEF Shape, ToSave
<1>4. ToSave(r) = { l[k] : k \in DOMAIN l }
  BY DEF ToSave
<1>5. r.op \in {"upload", "update"} => \A j, k \in Subject(r) : j = k
  BY DEF Shape
<1> HIDE DEF l
<1>6. /\ Len(l) \in Nat /\ Len(l) >= 1 /\ DOMAIN l = 1..Len(l) /\ i = l[1] /\ s \in Seq(VI!Images)
      /\ Len(s) = Len(l) - 1 /\ DOMAIN s = 1..(Len(l) - 1) /\ \A k \in 1..(Len(l) - 1) : s[k] = l[k + 1]
  BY <1>1
<1>7. i \in VI!Images /\ i \in ToSave(r) /\ i \notin r.del /\ r.ent[i].there
  BY <1>1, <1>3, <1>4, <1>6
<1>8. s = <<>> <=> Len(l) = 1
  <2> HIDE DEF s
  <2>1. s = <<>> <=> Len(s) = 0
    BY <1>6
  <2> QED
    BY <1>6, <2>1
<1>9. \A j, k \in DOMAIN s : s[j] = s[k] => j = k
  BY <1>2, <1>6
<1>10. { s[k] : k \in DOMAIN s } = ToSave(r) \ {i}
  <2>1. ASSUME NEW k \in DOMAIN s PROVE s[k] \in ToSave(r) \ {i}
    BY <1>2, <1>4, <1>6
  <2>2. ASSUME NEW k \in DOMAIN l, l[k] # i PROVE \E j \in DOMAIN s : s[j] = l[k]
    <3>1. k - 1 \in DOMAIN s /\ s[k - 1] = l[k]
      BY <1>6, <2>2
    <3> QED
      BY <3>1
  <2> QED
    BY <1>4, <2>1, <2>2
<1>11. ASSUME r.op \in {"upload", "update"} PROVE Len(l) = 1
  <2> SUFFICES ASSUME Len(l) > 1 PROVE FALSE
    BY <1>6
  <2>1. 1 \in DOMAIN l /\ 2 \in DOMAIN l
    BY <1>6
  <2>2. l[1] \in Subject(r) /\ l[2] \in Subject(r)
    BY <1>1, <1>3, <2>1 DEF Subject
  <2> QED
    BY <1>2, <1>5, <1>11, <2>1, <2>2
<1> QED
  BY <1>7, <1>8, <1>6, <1>9, <1>10, <1>11 DEF l, Subject

\* s is the call r with the head of its list saved, and not written or as e.
SavesTo(r, s) ==
  /\ s.op = r.op /\ s.del = r.del /\ s.ent = r.ent /\ s.todo = r.todo /\ s.ins = r.ins
  /\ s.cols = r.cols /\ s.list = Tail(r.list)
  /\ s.pc = IF Len(r.list) = 1 THEN "commit" ELSE IF r.op = "create" THEN "store" ELSE "compare"
Unwritten(r, s)  == s.wrote = r.wrote /\ s.w = r.w
Written(r, s, e) == s.wrote = r.wrote \cup {Head(r.list)} /\ s.w = [r.w EXCEPT ![Head(r.list)] = e]

LEMMA SavedIs ==
  ASSUME NEW r \in VI!Call, Shape(r), r.list # <<>>
  PROVE  VI!Saved(r) \in VI!Call /\ SavesTo(r, VI!Saved(r)) /\ Unwritten(r, VI!Saved(r))
<1>1. Tail(r.list) \in Seq(VI!Images)
  BY HeadIs
<1> DEFINE l == Tail(r.list)
           pc == IF Len(r.list) = 1 THEN "commit" ELSE IF r.op = "create" THEN "store" ELSE "compare"
<1>2. VI!Saved(r) = [r EXCEPT !.list = l, !.pc = pc]
  BY DEF VI!Saved, VI!Call
<1> HIDE DEF l
<1>3. pc \in {"commit", "store", "compare"}
  OBVIOUS
<1> HIDE DEF pc
<1>4. VI!Saved(r) \in VI!Call
  BY <1>1, <1>2, <1>3 DEF VI!Call, l
<1>5. /\ VI!Saved(r).op = r.op /\ VI!Saved(r).del = r.del /\ VI!Saved(r).ent = r.ent
      /\ VI!Saved(r).todo = r.todo
      /\ VI!Saved(r).ins = r.ins /\ VI!Saved(r).cols = r.cols /\ VI!Saved(r).list = l
      /\ VI!Saved(r).pc = pc
      /\ VI!Saved(r).wrote = r.wrote /\ VI!Saved(r).w = r.w
  BY <1>2 DEF VI!Call
<1> QED
  BY <1>4, <1>5 DEF SavesTo, Unwritten, l, pc

LEMMA SavesRest ==
  ASSUME NEW r \in VI!Call, NEW s, Shape(r), r.list # <<>>, SavesTo(r, s)
  PROVE  ToSave(s) \subseteq ToSave(r)
<1> DEFINE l == Tail(r.list)
<1>1. { l[k] : k \in DOMAIN l } = ToSave(r) \ {Head(r.list)}
  BY HeadIs
<1>2. s.list = l
  BY DEF SavesTo
<1> HIDE DEF l
<1>3. ToSave(s) = { l[k] : k \in DOMAIN l }
  BY <1>2 DEF ToSave
<1> QED
  BY <1>1, <1>3

--------------------------------------------------------------------------------
(* The mark, in a transaction that is alone.                               *)

LEMMA ClearedMore ==
  ASSUME NEW r, NEW v, NEW R, NEW c, NEW d, Alone(r, v, R, c), c => d PROVE Alone(r, v, R, d)
BY DEF Alone, Updating, Deleting, Well

LEMMA AloneDemotion ==
  ASSUME NEW r \in VI!Call, NEW s \in VI!Call, NEW v, NEW R \in [VI!Images -> VI!Row], NEW c,
         Shape(r), Alone(r, v, R, c), r.pc = "demote",
         s.op = r.op, s.ent = r.ent, s.wrote = r.wrote, s.w = r.w, s.todo = Marks(R),
         s.pc = IF Marks(R) = {} THEN "compare" ELSE "demoting"
  PROVE  Alone(s, v, R, c)
<1>1. r.op \in {"upload", "update"}
  BY OpOf
<1>2. ASSUME NEW o \in VI!Images, Setting(r, R, o) PROVE Setting(s, R, o)
  <2>1. Subject(s) = {o} /\ r.wrote = {} /\ r.ent[o].primary /\ o \notin Marks(R)
    BY <1>2 DEF Setting, Subject
  <2>2. Sees(s, R) = R
    BY <2>1 DEF Sees
  <2> QED
    BY <2>1, <2>2 DEF Setting, Demoted
<1>3. Uploading(r, R) => Uploading(s, R)
  BY <1>2 DEF Uploading
<1>4. Updating(r, R, c) => Updating(s, R, c)
  BY <1>2 DEF Updating, There
<1> QED
  BY <1>1, <1>3, <1>4 DEF Alone

LEMMA AloneDemote ==
  ASSUME NEW r \in VI!Call, NEW s \in VI!Call, NEW v, NEW R \in [VI!Images -> VI!Row], NEW c, NEW i \in r.todo,
         Shape(r), Alone(r, v, R, c), r.pc = "demoting",
         s.op = r.op, s.ent = r.ent, s.todo = r.todo \ {i},
         s.pc = IF s.todo = {} THEN "compare" ELSE "demoting",
         i \in Marks(R) => /\ s.wrote = r.wrote \cup {i} /\ s.w[i].there /\ ~s.w[i].primary
                           /\ \A k \in r.wrote \ {i} : s.w[k] = r.w[k]
  PROVE  Alone(s, v, R, c)
<1>1. r.op \in {"upload", "update"}
  BY OpOf
<1>2. ASSUME NEW o \in VI!Images, Setting(r, R, o) PROVE Setting(s, R, o)
  <2>1. /\ Subject(s) = {o} /\ r.ent[o].primary /\ o \notin Marks(R) /\ o \notin r.wrote
        /\ Demoted(r, R) /\ r.todo \subseteq Marks(R) /\ \A k \in r.wrote \ {o} : ~r.w[k].primary
    BY <1>2 DEF Setting, Subject
  <2>2. /\ i \in Marks(R) /\ i # o /\ s.wrote = r.wrote \cup {i} /\ ~s.w[i].primary
        /\ \A k \in r.wrote \ {i} : s.w[k] = r.w[k]
    BY <2>1
  <2>3. \A k \in s.wrote \ {o} : ~s.w[k].primary
    BY <2>1, <2>2
  <2>4. Demoted(s, R)
    BY <2>1, <2>2, <2>3 DEF Demoted
  <2>5. s.todo = {} => Marks(Sees(s, R)) \subseteq {o}
    <3> SUFFICES ASSUME s.todo = {}, NEW k \in Marks(Sees(s, R)) PROVE k = o
      OBVIOUS
    <3>1. k \in VI!Images /\ Sees(s, R)[k] = IF k \in s.wrote THEN s.w[k] ELSE R[k]
      BY DEF Sees, Marks, There
    <3>2. k \notin s.wrote => k \in Marks(R)
      BY <3>1 DEF Marks, There
    <3> QED
      BY <2>3, <2>4, <3>1, <3>2 DEF Demoted, Marks
  <2> QED
    BY <2>1, <2>2, <2>3, <2>4, <2>5 DEF Setting
<1>3. Uploading(r, R) => Uploading(s, R)
  BY <1>2 DEF Uploading
<1>4. Updating(r, R, c) => Updating(s, R, c)
  BY <1>2 DEF Updating, There
<1> QED
  BY <1>1, <1>3, <1>4 DEF Alone

LEMMA AloneRemove ==
  ASSUME NEW r \in VI!Call, NEW s \in VI!Call, NEW v, NEW R \in [VI!Images -> VI!Row], NEW c, NEW i \in r.del,
         Shape(r), Alone(r, v, R, c), Well(R, c), r.pc = "remove",
         s.op = r.op, s.del = r.del, s.ent = r.ent, s.wrote = {i}, ~s.w[i].there,
         s.pc = IF r.ent[i].primary THEN "promote" ELSE "commit"
  PROVE  Alone(s, v, R, c)
<1>1. r.op = "delete"
  BY OpOf
<1>2. ASSUME Deleting(r, R, c) PROVE Deleting(s, R, c)
  <2>1. i \in There(R) /\ r.del = {i} /\ r.ent[i].primary = R[i].primary
    BY <1>2 DEF Deleting
  <2>2. R[i].primary <=> i \in Marks(R)
    BY <2>1 DEF Marks
  <2>3. ASSUME ~R[i].primary PROVE Well(Sees(s, R), c)
    <3>1. \A k \in VI!Images : Sees(s, R)[k] = IF k = i THEN s.w[k] ELSE R[k]
      BY DEF Sees
    <3>2. There(Sees(s, R)) = There(R) \ {i}
      BY <3>1 DEF There
    <3>3. Marks(Sees(s, R)) = Marks(R)
      BY <2>3, <3>1, <3>2 DEF Marks, There
    <3> QED
      BY <3>2, <3>3 DEF Well
  <2> QED
    BY <2>1, <2>2, <2>3 DEF Deleting
<1> QED
  BY <1>1, <1>2 DEF Alone

LEMMA AlonePromote ==
  ASSUME NEW r \in VI!Call, NEW s \in VI!Call, NEW v, NEW R \in [VI!Images -> VI!Row], NEW c,
         Shape(r), Alone(r, v, R, c), Well(R, c), r.pc = "promote",
         s.op = r.op, s.del = r.del, s.wrote = r.wrote, s.w = r.w,
         \/ s.pc = "commit" /\ There(Sees(r, R)) = {}
         \/ s.pc = "compare" /\ \E n \in There(Sees(r, R)) : ToSave(s) = {n} /\ s.ent[n].primary
  PROVE  Alone(s, v, R, c)
<1>1. r.op = "delete"
  BY OpOf
<1>2. ASSUME Deleting(r, R, c) PROVE Deleting(s, R, c)
  <2>1. PICK o \in There(R) : r.del = {o} /\ o \in Marks(R) /\ r.wrote = {o}
    BY <1>2 DEF Deleting
  <2>2. ~r.w[o].there
    BY <2>1 DEF Shape
  <2>3. Sees(s, R) = Sees(r, R)
    BY DEF Sees
  <2>4. CASE s.pc = "commit" /\ There(Sees(r, R)) = {}
    <3>1. Well(Sees(s, R), c)
      BY <2>3, <2>4 DEF Well, Marks
    <3> QED
      BY <2>1, <2>4, <3>1 DEF Deleting
  <2>5. ASSUME s.pc = "compare", NEW n \in There(Sees(r, R)), ToSave(s) = {n}, s.ent[n].primary
        PROVE  Deleting(s, R, c)
    <3>1. n \in There(R)
      BY <2>1, <2>2 DEF There, Sees
    <3> QED
      BY <2>1, <2>5, <3>1 DEF Deleting
  <2> QED
    BY <2>4, <2>5
<1> QED
  BY <1>1, <1>2 DEF Alone

\* What the images to save are, in a transaction that is alone.
LEMMA ToSaveIs ==
  ASSUME NEW r \in VI!Call, Shape(r), r.list # <<>>
  PROVE  Head(r.list) \in ToSave(r) /\ ToSave(r) \subseteq Subject(r) /\ ToSave(r) \subseteq VI!Images
         /\ (r.op \in {"upload", "update"} => Len(r.list) = 1)
         /\ \A n : ToSave(r) = {n} => Head(r.list) = n /\ Len(r.list) = 1
<1>1. Head(r.list) \in ToSave(r) /\ (r.op \in {"upload", "update"} => Len(r.list) = 1)
  BY HeadIs
<1>2. ToSave(r) \subseteq VI!Images
  BY DEF ToSave, VI!Call
<1>3. ToSave(r) \subseteq Subject(r)
  BY <1>2 DEF Shape, Subject
<1>4. ASSUME NEW n, ToSave(r) = {n} PROVE Len(r.list) = 1
  <2> DEFINE s == Tail(r.list)
  <2>1. s \in Seq(VI!Images) /\ (s = <<>> <=> Len(r.list) = 1) /\ { s[k] : k \in DOMAIN s } = ToSave(r) \ {Head(r.list)}
    BY HeadIs
  <2> HIDE DEF s
  <2>2. { s[k] : k \in DOMAIN s } = {}
    BY <1>1, <1>4, <2>1
  <2>3. ASSUME s # <<>> PROVE FALSE
    <3>1. 1 \in DOMAIN s
      BY <2>1, <2>3
    <3> QED
      BY <2>2, <3>1
  <2> QED
    BY <2>1, <2>3
<1> QED
  BY <1>1, <1>2, <1>3, <1>4

\* compare, with the differing columns found, or no row.
LEMMA AloneCompare ==
  ASSUME NEW r \in VI!Call, NEW s \in VI!Call, NEW v, NEW R \in [VI!Images -> VI!Row], NEW c,
         Shape(r), Alone(r, v, R, c), Well(R, c), r.pc = "compare", r.list # <<>>, s.pc = "write",
         s.op = r.op, s.del = r.del, s.list = r.list, s.ent = r.ent, s.todo = r.todo, s.wrote = r.wrote, s.w = r.w,
         LET i == Head(r.list)
         IN  IF Sees(r, R)[i].there
             THEN ~s.ins /\ ("primary" \in s.cols <=> r.ent[i].primary # Sees(r, R)[i].primary)
             ELSE s.ins
  PROVE  Alone(s, v, R, c)
<1> DEFINE i == Head(r.list)
<1>1. i \in ToSave(r) /\ i \in Subject(r) /\ i \in VI!Images /\ ToSave(s) = ToSave(r)
  BY ToSaveIs DEF ToSave
<1>2. /\ Sees(s, R) = Sees(r, R) /\ Subject(s) = Subject(r) /\ Own(s) = Own(r)
      /\ Sees(r, R)[i] = IF i \in r.wrote THEN r.w[i] ELSE R[i]
  BY <1>1 DEF Sees, Subject, Own, Brings
<1>3. ASSUME NEW o \in VI!Images, Setting(r, R, o)
      PROVE  Setting(s, R, o) /\ i = o /\ i \notin r.wrote
  BY <1>1, <1>2, <1>3 DEF Setting
<1>4. Uploading(r, R) => Uploading(s, R)
  BY <1>2, <1>3 DEF Uploading
<1>5. ASSUME Updating(r, R, c) PROVE Updating(s, R, c)
  <2>1. PICK o \in There(R) : Setting(r, R, o) /\ (r.ent[o].primary \/ ~R[o].primary \/ c)
    BY <1>5 DEF Updating
  <2>2. o \in VI!Images /\ R[o].there
    BY <2>1 DEF There
  <2>3. Setting(s, R, o) /\ i = o /\ Sees(r, R)[o] = R[o]
    BY <1>2, <1>3, <2>1, <2>2
  <2>4. ~s.ins /\ ("primary" \in s.cols \/ R[o].primary = s.ent[o].primary)
    BY <2>2, <2>3
  <2> QED
    BY <2>1, <2>3, <2>4 DEF Updating
<1>6. ASSUME Deleting(r, R, c) PROVE Deleting(s, R, c)
  <2>1. PICK o \in There(R) : r.del = {o} /\ o \in Marks(R) /\ r.wrote = {o}
                             /\ \E n \in There(R) : ToSave(r) = {n} /\ r.ent[n].primary
    BY <1>6 DEF Deleting
  <2>2. PICK n \in There(R) : ToSave(r) = {n} /\ r.ent[n].primary
    BY <2>1
  <2>3. n = i /\ n # o
    BY <1>1, <2>1, <2>2 DEF Shape
  <2>4. Sees(r, R)[i] = R[i] /\ R[i].there /\ i \notin Marks(R)
    BY <1>2, <2>1, <2>2, <2>3 DEF There, Well
  <2>5. ~R[i].primary
    BY <2>2, <2>3, <2>4 DEF Marks
  <2>6. ~s.ins /\ "primary" \in s.cols
    BY <2>2, <2>3, <2>4, <2>5
  <2> QED
    BY <1>1, <2>1, <2>2, <2>6 DEF Deleting
<1>7. ASSUME Reordering(r, R), r.op = "reorder" PROVE Reordering(s, R)
  <2>1. R[i].there
    BY <1>1, <1>7 DEF Reordering, There
  <2>2. r.del = {}
    BY <1>7 DEF Shape
  <2>3. Sees(r, R)[i].there
    BY <1>2, <2>1, <2>2 DEF Shape
  <2> QED
    BY <1>1, <1>7, <2>3 DEF Reordering
<1>8. Creating(r) => Creating(s)
  BY <1>2 DEF Creating
<1> QED
  BY <1>4, <1>5, <1>6, <1>7, <1>8 DEF Alone

\* compare, when nothing differs.
LEMMA AloneSaved ==
  ASSUME NEW r \in VI!Call, NEW s \in VI!Call, NEW v, NEW R \in [VI!Images -> VI!Row], NEW c,
         Shape(r), Alone(r, v, R, c), Well(R, c), r.pc = "compare", r.list # <<>>,
         SavesTo(r, s), Unwritten(r, s), ~Brings(r), ToSave(s) \subseteq ToSave(r),
         LET i == Head(r.list) IN Sees(r, R)[i].there /\ Sees(r, R)[i].primary = r.ent[i].primary
  PROVE  Alone(s, v, R, c)
<1> DEFINE i == Head(r.list)
<1>1. /\ i \in ToSave(r) /\ i \in Subject(r) /\ i \in VI!Images
      /\ (r.op \in {"upload", "update"} => Len(r.list) = 1)
  BY ToSaveIs
<1>2. /\ Sees(s, R) = Sees(r, R) /\ Subject(s) = Subject(r)
      /\ Sees(r, R)[i] = IF i \in r.wrote THEN r.w[i] ELSE R[i]
  BY <1>1 DEF Sees, Subject, SavesTo, Unwritten
<1>3. s.pc \in {"commit", "compare"} /\ (Len(r.list) = 1 => s.pc = "commit")
      /\ s.op = r.op /\ s.del = r.del /\ s.ent = r.ent /\ s.wrote = r.wrote /\ s.w = r.w
  BY DEF SavesTo, Unwritten, Brings
<1>4. ASSUME Updating(r, R, c), r.op = "update" PROVE Updating(s, R, c)
  <2>1. PICK o \in There(R) : Setting(r, R, o) /\ (r.ent[o].primary \/ ~R[o].primary \/ c)
    BY <1>4 DEF Updating
  <2>2. i = o /\ s.pc = "commit"
    BY <1>1, <1>3, <1>4, <2>1 DEF Setting
  <2>3. Setting(s, R, o)
    BY <1>2, <1>3, <2>1, <2>2 DEF Setting
  <2> QED
    BY <1>3, <2>1, <2>2, <2>3 DEF Updating
<1>5. ASSUME Deleting(r, R, c) PROVE FALSE
  <2>1. PICK o \in There(R) : r.del = {o} /\ o \in Marks(R) /\ r.wrote = {o}
                             /\ \E n \in There(R) : ToSave(r) = {n} /\ r.ent[n].primary
    BY <1>5 DEF Deleting
  <2>2. PICK n \in There(R) : ToSave(r) = {n} /\ r.ent[n].primary
    BY <2>1
  <2>3. n = i /\ n # o
    BY <1>1, <2>1, <2>2 DEF Shape
  <2> QED
    BY <1>2, <2>1, <2>2, <2>3 DEF There, Well, Marks
<1>6. Reordering(r, R) => Reordering(s, R)
  BY <1>3 DEF Reordering
<1> QED
  BY <1>3, <1>4, <1>5, <1>6 DEF Alone, Brings

LEMMA AloneWrite ==
  ASSUME NEW r \in VI!Call, NEW s \in VI!Call, NEW v, NEW R \in [VI!Images -> VI!Row], NEW c, NEW e \in VI!Row,
         Shape(r), Alone(r, v, R, c), Well(R, c), r.pc = "write", r.list # <<>>,
         SavesTo(r, s), Written(r, s, e), e.there, ToSave(s) \subseteq ToSave(r),
         LET i == Head(r.list)
         IN  e.primary = IF r.ins \/ "primary" \in r.cols THEN r.ent[i].primary ELSE Sees(r, R)[i].primary
  PROVE  Alone(s, v, R, c)
<1> DEFINE i == Head(r.list)
<1>1. /\ i \in ToSave(r) /\ i \in Subject(r) /\ i \in VI!Images
      /\ (r.op \in {"upload", "update"} => Len(r.list) = 1)
      /\ \A n : ToSave(r) = {n} => i = n /\ Len(r.list) = 1
  BY ToSaveIs
<1>2. /\ Subject(s) = Subject(r) /\ Own(s) = Own(r)
      /\ Sees(r, R)[i] = IF i \in r.wrote THEN r.w[i] ELSE R[i]
      /\ s.wrote = r.wrote \cup {i} /\ s.w[i] = e /\ (\A k \in VI!Images : k # i => s.w[k] = r.w[k])
      /\ s.op = r.op /\ s.del = r.del /\ s.ent = r.ent
      /\ s.pc \in {"commit", "compare", "store"} /\ (Len(r.list) = 1 => s.pc = "commit")
  BY <1>1 DEF Sees, Subject, Own, Brings, SavesTo, Written, VI!Call
<1>3. \A k \in VI!Images : Sees(s, R)[k] = IF k = i THEN e ELSE Sees(r, R)[k]
  BY <1>2 DEF Sees
<1> HIDE DEF i
<1>4. ASSUME NEW o \in VI!Images, Setting(r, R, o), Len(r.list) = 1, e.primary = r.ent[o].primary
      PROVE  i = o /\ s.pc = "commit" /\ Setting(s, R, o)
  <2>1. i = o /\ s.pc = "commit"
    BY <1>1, <1>2, <1>4 DEF Setting
  <2>2. r.ent[o].primary => Marks(Sees(s, R)) \subseteq {o}
    BY <1>3, <1>4, <2>1 DEF Setting, Marks, There
  <2>3. \A k \in s.wrote \ {o} : ~s.w[k].primary
    BY <1>2, <1>4, <2>1 DEF Setting, VI!Call
  <2>4. ~r.ent[o].primary => s.wrote \subseteq {o}
    BY <1>2, <1>4, <2>1 DEF Setting
  <2> QED
    BY <1>2, <1>3, <1>4, <2>1, <2>2, <2>3, <2>4 DEF Setting
<1>5. ASSUME Uploading(r, R), r.op = "upload" PROVE Uploading(s, R)
  <2>1. PICK o \in VI!Images \ There(R) : Setting(r, R, o) /\ (r.ent[o].primary \/ There(R) # {})
    BY <1>5 DEF Uploading
  <2>2. r.ins /\ i = o
    BY <1>1, <1>5, <2>1 DEF Shape, Brings, Setting
  <2>3. Setting(s, R, o)
    BY <1>1, <1>4, <1>5, <2>1, <2>2 DEF i
  <2> QED
    BY <1>2, <2>1, <2>3 DEF Uploading
<1>6. ASSUME Updating(r, R, c), r.op = "update" PROVE Updating(s, R, c)
  <2>1. PICK o \in There(R) : /\ Setting(r, R, o) /\ (r.ent[o].primary \/ ~R[o].primary \/ c)
                             /\ ~r.ins /\ ("primary" \in r.cols \/ R[o].primary = r.ent[o].primary)
    BY <1>6 DEF Updating
  <2>2. o \in VI!Images /\ i = o /\ i \notin r.wrote
    BY <1>1, <2>1 DEF Setting, There
  <2>3. Setting(s, R, o) /\ s.pc = "commit"
    BY <1>1, <1>2, <1>4, <1>6, <2>1, <2>2 DEF i
  <2> QED
    BY <1>2, <2>1, <2>3 DEF Updating
<1>7. ASSUME Deleting(r, R, c) PROVE Deleting(s, R, c)
  <2>1. PICK o \in There(R) : /\ r.del = {o} /\ o \in Marks(R) /\ r.wrote = {o} /\ "primary" \in r.cols
                             /\ \E n \in There(R) : ToSave(r) = {n} /\ r.ent[n].primary
    BY <1>7 DEF Deleting
  <2>2. PICK n \in There(R) : ToSave(r) = {n} /\ r.ent[n].primary
    BY <2>1
  <2>3. n = i /\ n # o /\ s.pc = "commit" /\ e.primary
    BY <1>1, <1>2, <2>1, <2>2 DEF Shape, i
  <2>4. ~r.w[o].there
    BY <2>1 DEF Shape
  <2>5. \A k \in VI!Images : Sees(s, R)[k] = IF k = i THEN e ELSE IF k = o THEN r.w[o] ELSE R[k]
    BY <1>3, <2>1 DEF Sees
  <2>6. Marks(Sees(s, R)) = {i}
    <3>1. \A k \in VI!Images : R[k].there /\ R[k].primary => k = o
      BY <2>1 DEF Well, Marks, There
    <3> QED
      BY <1>1, <2>3, <2>4, <2>5, <3>1 DEF Marks, There
  <2>7. Well(Sees(s, R), c)
    BY <2>6 DEF Well
  <2> QED
    BY <1>2, <2>1, <2>3, <2>7 DEF Deleting
<1>8. ASSUME Reordering(r, R), r.op = "reorder" PROVE Reordering(s, R)
  <2>1. i \in There(R) /\ Sees(r, R)[i].primary = R[i].primary
    BY <1>1, <1>2, <1>8 DEF Reordering
  <2>2. e.primary = R[i].primary
    BY <1>8, <2>1 DEF Reordering, i
  <2>3. s.pc # "write"
    BY <1>2
  <2> QED
    BY <1>2, <1>8, <2>1, <2>2, <2>3 DEF Reordering, VI!Call
<1>9. ASSUME Creating(r), r.op = "create" PROVE Creating(s)
  <2>1. e.primary = r.ent[i].primary
    BY <1>9 DEF Shape, Brings, i
  <2> QED
    BY <1>2, <1>9, <2>1 DEF Creating, VI!Call
<1> QED
  BY <1>2, <1>5, <1>6, <1>7, <1>8, <1>9 DEF Alone

\* write, of a row that compare has found.
LEMMA AloneSeen ==
  ASSUME NEW r \in VI!Call, NEW R \in [VI!Images -> VI!Row], NEW c,
         Shape(r), Alone(r, "there", R, c), r.pc = "write", r.list # <<>>, ~r.ins
  PROVE  Sees(r, R)[Head(r.list)].there
<1> DEFINE i == Head(r.list)
<1>1. i \in ToSave(r) /\ i \in Subject(r) /\ i \in VI!Images /\ \A n : ToSave(r) = {n} => i = n
  BY ToSaveIs
<1>2. Sees(r, R)[i] = IF i \in r.wrote THEN r.w[i] ELSE R[i]
  BY <1>1 DEF Sees
<1>3. r.op \in {"update", "delete", "reorder"}
  BY OpOf DEF Shape, Brings, VI!Call
<1>4. CASE r.op = "update"
  <2>1. PICK o \in There(R) : Setting(r, R, o)
    BY <1>4 DEF Alone, Updating
  <2> QED
    BY <1>1, <1>2, <2>1 DEF Setting, There
<1>5. CASE r.op = "delete"
  <2>1. PICK o \in There(R) : r.del = {o} /\ r.wrote = {o} /\ \E n \in There(R) : ToSave(r) = {n}
    BY <1>5 DEF Alone, Deleting
  <2> QED
    BY <1>1, <1>2, <2>1 DEF Shape, There
<1>6. CASE r.op = "reorder"
  BY <1>1, <1>2, <1>6 DEF Alone, Reordering, There, Shape
<1> QED
  BY <1>3, <1>4, <1>5, <1>6

\* What a call begins with.
LEMMA AloneOpen ==
  ASSUME NEW r \in VI!Call, NEW s \in VI!Call, NEW v, NEW R \in [VI!Images -> VI!Row], NEW c, NEW i \in VI!Images,
         s.op = "upload", Subject(s) = {i}, s.wrote = {}, ~R[i].there, Well(R, c),
         There(R) = {} => s.ent[i].primary,
         s.pc = IF s.ent[i].primary /\ There(R) # {} THEN "demote" ELSE "compare"
  PROVE  Alone(s, v, R, c)
<1>1. i \in VI!Images \ There(R) /\ i \notin Marks(R)
  BY DEF There, Marks
<1>2. Sees(s, R) = R
  BY DEF Sees
<1>3. There(R) = {} => Marks(R) = {}
  BY DEF Marks
<1>4. Setting(s, R, i)
  BY <1>1, <1>2, <1>3 DEF Setting
<1> QED
  BY <1>1, <1>4 DEF Alone, Uploading

LEMMA AloneUpdate ==
  ASSUME NEW s \in VI!Call, NEW v, NEW R \in [VI!Images -> VI!Row], NEW c, NEW i \in VI!Images,
         s.op = "update", Subject(s) = {i}, s.wrote = {}, R[i].there, Well(R, c),
         s.ent[i].primary \/ ~R[i].primary \/ c,
         s.pc = IF s.ent[i].primary /\ ~R[i].primary THEN "demote" ELSE "compare"
  PROVE  Alone(s, v, R, c)
<1>1. i \in There(R) /\ (i \in Marks(R) <=> R[i].primary)
  BY DEF There, Marks
<1>2. Sees(s, R) = R
  BY DEF Sees
<1>3. R[i].primary => Marks(R) = {i}
  BY <1>1 DEF Well
<1>4. Setting(s, R, i)
  BY <1>1, <1>2, <1>3 DEF Setting
<1> QED
  BY <1>1, <1>4 DEF Alone, Updating

\* What a transaction that is alone leaves.
LEMMA AloneCommit ==
  ASSUME NEW r \in VI!Call, NEW v, NEW R \in [VI!Images -> VI!Row], NEW c, NEW O, NEW d, NEW B,
         Shape(r), Linked(r, v, R, O, d, B), Alone(r, v, R, c), Well(R, c),
         r.pc = "commit", r.op # "none", ToSave(r) = {},
         v \in {"none", "there", "gone"}, v # "there" => There(R) = {}
  PROVE  Well(Sees(r, R), c)
<1> DEFINE Q == Sees(r, R)
<1>1. \A k \in VI!Images : Q[k] = IF k \in r.wrote THEN r.w[k] ELSE R[k]
  BY DEF Sees
<1>2. r.wrote \subseteq VI!Images
  BY DEF VI!Call
<1> HIDE DEF Q
<1>3. CASE r.op = "create"
  <2>1. There(R) = {} /\ Creating(r) /\ Own(r) = r.wrote /\ r.del = {}
    BY <1>3 DEF Linked, Alone, Shape, Brings
  <2>2. There(Q) = r.wrote
    BY <1>1, <1>2, <2>1 DEF There, Shape
  <2>3. \A k \in r.wrote : Q[k].primary <=> k = 1
    BY <1>1, <1>2, <2>1 DEF Creating
  <2>4. r.wrote # {} => 1 \in r.wrote
    BY <2>1 DEF Creating
  <2> QED
    BY <2>2, <2>3, <2>4 DEF Well, Marks, Q
<1>4. CASE v = "gone"
  <2>1. There(Q) = {}
    BY <1>1, <1>4 DEF Linked, There
  <2> QED
    BY <2>1 DEF Well, Marks, Q
<1>5. ASSUME v = "there", NEW o \in VI!Images, Setting(r, R, o),
             r.ent[o].primary \/ ((o \in Marks(R) => c) /\ There(R) # {})
      PROVE  Well(Q, c)
  <2>1. o \in There(Q) /\ (o \in Marks(Q) <=> r.ent[o].primary)
    BY <1>5 DEF Setting, There, Marks, Q
  <2>2. CASE r.ent[o].primary
    BY <1>5, <2>1, <2>2 DEF Setting, Well, Q
  <2>3. CASE ~r.ent[o].primary
    <3>1. r.wrote \subseteq {o}
      BY <1>5, <2>3 DEF Setting
    <3>2. \A k \in VI!Images : k # o => Q[k] = R[k]
      BY <1>1, <3>1
    <3>3. Marks(Q) = Marks(R) \ {o}
      BY <2>1, <2>3, <3>2 DEF Marks, There
    <3> QED
      BY <1>5, <2>3, <3>3 DEF Well
  <2> QED
    BY <2>2, <2>3
<1>6. CASE v = "there" /\ r.op = "upload"
  <2>1. PICK o \in VI!Images \ There(R) : Setting(r, R, o) /\ (r.ent[o].primary \/ There(R) # {})
    BY <1>6 DEF Alone, Uploading
  <2>2. o \notin Marks(R)
    BY <2>1 DEF Marks
  <2> QED
    BY <1>5, <1>6, <2>1, <2>2 DEF Q
<1>7. CASE v = "there" /\ r.op = "update"
  <2>1. PICK o \in There(R) : Setting(r, R, o) /\ (r.ent[o].primary \/ ~R[o].primary \/ c)
    BY <1>7 DEF Alone, Updating
  <2>2. o \in VI!Images /\ There(R) # {} /\ (o \in Marks(R) <=> R[o].primary)
    BY <2>1 DEF Marks, There
  <2> QED
    BY <1>5, <1>7, <2>1, <2>2 DEF Q
<1>8. CASE v = "there" /\ r.op = "delete"
  BY <1>8 DEF Alone, Deleting
<1>9. CASE v = "there" /\ r.op = "reorder"
  <2>1. Reordering(r, R) /\ r.del = {}
    BY <1>9 DEF Alone, Shape
  <2>2. There(Q) = There(R)
    BY <1>1, <1>2, <2>1 DEF There, Shape, Reordering
  <2>3. Marks(Q) = Marks(R)
    BY <1>1, <2>1, <2>2 DEF Marks, There, Reordering
  <2> QED
    BY <2>2, <2>3 DEF Well, Q
<1>10. /\ r.op \in {"create", "upload", "update", "delete", "reorder"}
       /\ (r.op = "create" \/ v # "none")
  BY DEF VI!Call, Linked
<1> QED
  BY <1>3, <1>4, <1>6, <1>7, <1>8, <1>9, <1>10

--------------------------------------------------------------------------------
\* A step of the call t that leaves the table as it is.
LEMMA MarkKeeps ==
  ASSUME ImagesInv, MarkInv, NEW t \in Calls, NEW r \in VI!Call, imageTx' = [imageTx EXCEPT ![t] = r],
         UNCHANGED <<variant, image>>, cleared => cleared',
         ~overlapped' => ~overlapped /\ (VI!InTx(r) => ~VI!Racing(t)),
         VI!InTx(r) /\ Well(image, cleared') /\ (VI!InTx(imageTx[t]) => Alone(imageTx[t], variant, image, cleared))
           => Alone(r, variant, image, cleared')
  PROVE  MarkInv'
<1> SUFFICES ASSUME ~overlapped' PROVE MarkInv'
  BY DEF MarkInv
<1>1. \A u \in Calls : imageTx'[u] = IF u = t THEN r ELSE imageTx[u]
  BY DEF ImagesInv, VI!TypeOK
<1>2. Well(image, cleared')
  BY DEF MarkInv, Well
<1>3. \A u \in Calls : VI!InTx(imageTx[u]) => /\ Alone(imageTx[u], variant, image, cleared)
                                              /\ \A q \in Calls \ {u} : ~VI!InTx(imageTx[q])
  BY DEF MarkInv
<1>4. ASSUME NEW u \in Calls, VI!InTx(imageTx'[u])
      PROVE  Alone(imageTx'[u], variant, image, cleared') /\ \A q \in Calls \ {u} : ~VI!InTx(imageTx'[q])
  <2>1. CASE u = t
    BY <1>1, <1>2, <1>3, <1>4, <2>1 DEF VI!Racing
  <2>2. CASE u # t
    <3>1. ~VI!InTx(r)
      BY <1>1, <1>4, <2>2 DEF VI!Racing
    <3> QED
      BY <1>1, <1>3, <1>4, <2>2, <3>1, ClearedMore
  <2> QED
    BY <2>1, <2>2
<1> QED
  BY <1>2, <1>4 DEF MarkInv

\* A step inside the transaction.
LEMMA MarkStays ==
  ASSUME ImagesInv, MarkInv, NEW t \in Calls, NEW r \in VI!Call, imageTx' = [imageTx EXCEPT ![t] = r],
         UNCHANGED <<variant, image, cleared, overlapped>>,
         VI!InTx(imageTx[t]),
         Well(image, cleared) /\ Alone(imageTx[t], variant, image, cleared) => Alone(r, variant, image, cleared)
  PROVE  MarkInv'
<1>1. ~overlapped => ~VI!Racing(t)
  BY DEF MarkInv, VI!Racing
<1> QED
  BY <1>1, MarkKeeps

--------------------------------------------------------------------------------
(* Steps inside a transaction.                                             *)

LEMMA StartDemotionKeeps ==
  ASSUME ImagesInv, NEW t \in Calls, VI!StartDemotion(t) PROVE ImagesInv' /\ (MarkInv => MarkInv')
<1> DEFINE S == { i \in VI!Rows : image[i].primary }
           r == [imageTx[t] EXCEPT !.todo = S, !.pc = IF S = {} THEN "compare" ELSE "demoting"]
<1>1. /\ imageTx[t].pc = "demote" /\ imageTx' = [imageTx EXCEPT ![t] = r]
      /\ UNCHANGED <<variant, image, object, used, overlapped, cleared, revived, strays, imageCalls, imageAborts>>
  BY DEF VI!StartDemotion, VI!Step, VI!db, VI!history, VI!bounds
<1>2. /\ imageTx[t] \in VI!Call /\ Shape(imageTx[t])
      /\ Linked(imageTx[t], variant, image, object, used, revived)
  BY Held
<1>3. S \subseteq VI!Rows /\ S \subseteq VI!Images
  BY DEF VI!Rows
<1>4. /\ r \in VI!Call /\ r.todo = S /\ r.pc \in {"compare", "demoting"}
      /\ r.op = imageTx[t].op /\ r.del = imageTx[t].del /\ r.list = imageTx[t].list
      /\ r.ent = imageTx[t].ent
      /\ r.wrote = imageTx[t].wrote /\ r.w = imageTx[t].w /\ r.ins = imageTx[t].ins
  BY <1>2, <1>3 DEF VI!Call
<1> HIDE DEF r, S
<1>5. imageTx[t].op \in {"upload", "update"}
  BY <1>1, <1>2, OpOf
<1>6. ToSave(r) = ToSave(imageTx[t]) /\ Own(r) = Own(imageTx[t]) /\ Subject(r) = Subject(imageTx[t])
  BY <1>4 DEF ToSave, Own, Brings, Subject
<1>7. \A i \in Touched(r) : i \in Touched(imageTx[t]) \/ i \in VI!Rows
  BY <1>3, <1>4, <1>6 DEF Touched
<1>8. Shape(r)
  BY <1>1, <1>2, <1>4, <1>5, <1>6 DEF Shape, Stages, VI!InTx, Brings
<1>9. Linked(r, variant, image, object, used, revived)
  <2>1. \A i \in VI!Rows : i <= used
    BY DEF ImagesInv, Stocked
  <2> QED
    BY <1>1, <1>2, <1>4, <1>5, <1>6, <1>7, <2>1 DEF Linked, Brings
<1>10. ASSUME MarkInv PROVE MarkInv'
  <2>1. S = Marks(image) /\ r.pc = IF Marks(image) = {} THEN "compare" ELSE "demoting"
    BY <1>4, RowsAre DEF S, Marks, r
  <2>2. VI!InTx(imageTx[t])
    BY <1>1 DEF VI!InTx
  <2>3. Alone(imageTx[t], variant, image, cleared) => Alone(r, variant, image, cleared)
    BY <1>1, <1>2, <1>4, <2>1, RowsAre, AloneDemotion
  <2> QED
    BY <1>1, <1>4, <1>10, <2>2, <2>3, MarkStays
<1> QED
  <2>1. overlapped' \in BOOLEAN
    BY <1>1 DEF ImagesInv, VI!TypeOK
  <2> QED
    BY <1>1, <1>4, <1>6, <1>7, <1>8, <1>9, <1>10, <2>1, LocalKeeps

LEMMA DemoteKeeps ==
  ASSUME ImagesInv, NEW t \in Calls, NEW i \in VI!Images, VI!Demote(t, i)
  PROVE  ImagesInv' /\ (MarkInv => MarkInv')
<1> DEFINE rest == imageTx[t].todo \ {i}
           pc == IF rest = {} THEN "compare" ELSE "demoting"
           p == [imageTx[t] EXCEPT !.todo = rest, !.pc = IF rest = {} THEN "compare" ELSE @]
           q == [image[i] EXCEPT !.primary = FALSE]
           hit == image[i].there /\ image[i].primary
           r == IF hit THEN [p EXCEPT !.wrote = @ \cup {i}, !.w[i] = q] ELSE p
<1>1. /\ imageTx[t].pc = "demoting" /\ i \in imageTx[t].todo /\ VI!Free(t, i)
      /\ imageTx' = [imageTx EXCEPT ![t] = r]
      /\ UNCHANGED <<variant, image, object, used, overlapped, cleared, revived, strays, imageCalls, imageAborts>>
  BY DEF VI!Demote, VI!Step, VI!db, VI!history, VI!bounds
<1>2. /\ imageTx[t] \in VI!Call /\ Shape(imageTx[t])
      /\ Linked(imageTx[t], variant, image, object, used, revived)
  BY Held
<1>3. imageTx[t].op \in {"upload", "update"}
  BY <1>1, <1>2, OpOf
<1>4. q \in VI!Row /\ q.there = image[i].there /\ ~q.primary
  BY RowsAre DEF VI!Row
<1>5. /\ p \in VI!Call /\ p.todo = rest /\ p.pc = pc
      /\ p.op = imageTx[t].op /\ p.del = imageTx[t].del /\ p.list = imageTx[t].list
      /\ p.ent = imageTx[t].ent
      /\ p.wrote = imageTx[t].wrote /\ p.w = imageTx[t].w /\ p.ins = imageTx[t].ins
  BY <1>1, <1>2 DEF VI!Call
<1> HIDE DEF p, q
<1>6. /\ r \in VI!Call /\ r.todo = rest /\ r.pc = pc
      /\ r.op = imageTx[t].op /\ r.del = imageTx[t].del /\ r.list = imageTx[t].list
      /\ r.ent = imageTx[t].ent
      /\ r.ins = imageTx[t].ins
      /\ IF hit THEN r.wrote = imageTx[t].wrote \cup {i} /\ r.w = [imageTx[t].w EXCEPT ![i] = q]
                ELSE r.wrote = imageTx[t].wrote /\ r.w = imageTx[t].w
  <2>1. CASE hit
    BY <1>1, <1>4, <1>5, <2>1 DEF VI!Call
  <2>2. CASE ~hit
    BY <1>5, <2>2
  <2> QED
    BY <2>1, <2>2
<1>7. \A k \in r.wrote : (k \in imageTx[t].wrote /\ r.w[k] = imageTx[t].w[k]) \/ (k = i /\ hit /\ r.w[k] = q)
  BY <1>2, <1>6 DEF VI!Call
<1> HIDE DEF r
<1>8. ToSave(r) = ToSave(imageTx[t]) /\ Own(r) = Own(imageTx[t]) /\ Subject(r) = Subject(imageTx[t])
  BY <1>6 DEF ToSave, Own, Brings, Subject
<1>9. \A k \in Touched(r) : k \in Touched(imageTx[t])
  BY <1>1, <1>6, <1>7, <1>8 DEF Touched
<1>10. hit => i \notin Own(imageTx[t])
  BY <1>2 DEF Linked
<1>11. Shape(r)
  <2>1. \A k \in r.wrote : r.w[k].there
    BY <1>2, <1>3, <1>4, <1>7 DEF Shape
  <2>2. r.del = {} /\ imageTx[t].del = {}
    BY <1>2, <1>3, <1>6 DEF Shape
  <2>3. r.pc \in {"compare", "demoting"} /\ VI!InTx(r)
    BY <1>6 DEF VI!InTx
  <2>4. r.pc \in Stages(r.op)
    BY <1>3, <1>6, <2>3 DEF Stages
  <2>5. \A k \in Own(r) : k \in r.wrote <=> k \in imageTx[t].wrote
    BY <1>6, <1>8, <1>10
  <2>6. \A k \in ToSave(r) : r.ent[k].there
    BY <1>2, <1>6, <1>8 DEF Shape
  <2>7. (r.list # <<>>) /\ \A j, k \in DOMAIN r.list : r.list[j] = r.list[k] => j = k
    BY <1>1, <1>2, <1>6 DEF Shape
  <2>8. Brings(r) => \A k \in Own(r) : k \in ToSave(r) <=> k \notin r.wrote
    BY <1>2, <1>6, <1>8, <2>5 DEF Shape, Brings
  <2>9. r.op \in {"upload", "update"} => \A j, k \in Subject(r) : j = k
    BY <1>2, <1>6, <1>8 DEF Shape
  <2> QED
    BY <2>1, <2>2, <2>3, <2>4, <2>6, <2>7, <2>8, <2>9 DEF Shape
<1>12. Linked(r, variant, image, object, used, revived)
  <2>1. variant = "gone" => ~hit
    BY DEF ImagesInv, Stocked, VI!Rows
  <2>2. variant = "gone" => \A k \in r.wrote : ~r.w[k].there
    BY <1>2, <1>7, <2>1 DEF Linked
  <2>3. Brings(r) => \A k \in r.wrote : IF k \in Own(r) THEN k \in object ELSE image[k].there
    BY <1>2, <1>6, <1>7, <1>8, <1>10 DEF Linked, Brings
  <2> QED
    BY <1>1, <1>2, <1>3, <1>6, <1>8, <1>9, <2>2, <2>3 DEF Linked, Brings
<1>13. \A k \in r.wrote : k \in imageTx[t].wrote \/ VI!Free(t, k)
  BY <1>1, <1>7
<1> QED
  <2>1. overlapped' \in BOOLEAN
    BY <1>1 DEF ImagesInv, VI!TypeOK
  <2>2. imageTx[t].pc # "unlink" /\ r.pc # "unlink"
    BY <1>1, <1>6
  <2>3. ASSUME MarkInv PROVE MarkInv'
    <3>1. hit <=> i \in Marks(image)
      BY DEF Marks, There
    <3>2. hit => /\ r.wrote = imageTx[t].wrote \cup {i} /\ r.w[i].there /\ ~r.w[i].primary
                 /\ \A k \in imageTx[t].wrote \ {i} : r.w[k] = imageTx[t].w[k]
      <4>1. hit => r.w[i] = q
        BY <1>2, <1>6 DEF VI!Call
      <4>2. r.w \in [VI!Images -> VI!Row] /\ imageTx[t].wrote \subseteq VI!Images
        BY <1>2, <1>6 DEF VI!Call
      <4> QED
        BY <1>2, <1>4, <1>6, <4>1, <4>2 DEF VI!Call
    <3>3. Alone(imageTx[t], variant, image, cleared) => Alone(r, variant, image, cleared)
      BY <1>1, <1>2, <1>6, <3>1, <3>2, RowsAre, AloneDemote
    <3>4. VI!InTx(imageTx[t])
      BY <1>1 DEF VI!InTx
    <3> QED
      BY <1>1, <1>6, <2>3, <3>3, <3>4, MarkStays
  <2> QED
    BY <1>1, <1>6, <1>8, <1>9, <1>11, <1>12, <1>13, <2>1, <2>2, <2>3, LocalKeeps

LEMMA RemoveKeeps ==
  ASSUME ImagesInv, NEW t \in Calls, VI!Remove(t) PROVE ImagesInv' /\ (MarkInv => MarkInv')
<1>1. PICK i \in imageTx[t].del : VI!Free(t, i) /\ VI!Step(t, [imageTx[t] EXCEPT !.wrote = @ \cup {i}, !.w[i] = VI!NoRow,
                                !.pc = IF imageTx[t].ent[i].primary THEN "promote" ELSE "commit"])
  BY DEF VI!Remove
<1> DEFINE pc == IF imageTx[t].ent[i].primary THEN "promote" ELSE "commit"
           r == [imageTx[t] EXCEPT !.wrote = @ \cup {i}, !.w[i] = VI!NoRow, !.pc = pc]
<1>2. /\ imageTx[t].pc = "remove" /\ imageTx' = [imageTx EXCEPT ![t] = r]
      /\ UNCHANGED <<variant, image, object, used, overlapped, cleared, revived, strays, imageCalls, imageAborts>>
  BY <1>1 DEF VI!Remove, VI!Step, VI!db, VI!history, VI!bounds
<1>3. /\ imageTx[t] \in VI!Call /\ Shape(imageTx[t])
      /\ Linked(imageTx[t], variant, image, object, used, revived)
  BY Held
<1>4. imageTx[t].op = "delete" /\ imageTx[t].list = <<>> /\ i \in VI!Images /\ imageTx[t].wrote = {}
  BY <1>2, <1>3, <1>1, OpOf DEF Shape, VI!Call
<1>5. /\ r \in VI!Call /\ r.pc = pc /\ r.wrote = {i} /\ ~r.w[i].there
      /\ r.op = "delete" /\ r.del = imageTx[t].del /\ r.list = <<>> /\ r.ent = imageTx[t].ent
      /\ r.todo = imageTx[t].todo
  BY <1>3, <1>4, RowTypes DEF VI!Call, VI!NoRow
<1> HIDE DEF r
<1>6. /\ ToSave(r) = {} /\ ~Brings(r) /\ Own(r) = {} /\ Own(imageTx[t]) = {}
      /\ Subject(r) = Subject(imageTx[t])
  BY <1>4, <1>5 DEF ToSave, Own, Brings, Subject
<1>7. \A k \in Touched(r) : k \in Touched(imageTx[t])
  BY <1>1, <1>5, <1>6 DEF Touched
<1>8. imageTx[t].del = {i}
  BY <1>1, <1>3, <1>4 DEF Shape
<1>9. Shape(r)
  BY <1>5, <1>6, <1>8 DEF Shape, Stages, VI!InTx
<1>10. Linked(r, variant, image, object, used, revived)
  BY <1>3, <1>4, <1>5, <1>6, <1>7 DEF Linked
<1> QED
  <2>1. overlapped' \in BOOLEAN
    BY <1>2 DEF ImagesInv, VI!TypeOK
  <2>2. ASSUME MarkInv PROVE MarkInv'
    <3>1. Well(image, cleared) /\ Alone(imageTx[t], variant, image, cleared) => Alone(r, variant, image, cleared)
      BY <1>1, <1>2, <1>3, <1>4, <1>5, RowsAre, AloneRemove
    <3>2. VI!InTx(imageTx[t])
      BY <1>2 DEF VI!InTx
    <3> QED
      BY <1>2, <1>5, <2>2, <3>1, <3>2, MarkStays
  <2> QED
    BY <1>1, <1>2, <1>4, <1>5, <1>6, <1>7, <1>9, <1>10, <2>1, <2>2, LocalKeeps

LEMMA PromoteKeeps ==
  ASSUME ImagesInv, NEW t \in Calls, VI!Promote(t) PROVE ImagesInv' /\ (MarkInv => MarkInv')
<1>1. /\ imageTx[t].pc = "promote"
      /\ UNCHANGED <<variant, image, object, used, overlapped, cleared, revived, strays, imageCalls, imageAborts>>
  BY DEF VI!Promote, VI!Step, VI!db, VI!history, VI!bounds
<1>2. /\ imageTx[t] \in VI!Call /\ Shape(imageTx[t])
      /\ Linked(imageTx[t], variant, image, object, used, revived)
  BY Held
<1>3. imageTx[t].op = "delete" /\ imageTx[t].list = <<>>
  BY <1>1, <1>2, OpOf DEF Shape
<1>4. overlapped' \in BOOLEAN /\ VI!InTx(imageTx[t]) /\ VI!Seen(t) = There(Sees(imageTx[t], image))
  BY <1>1, RowsAre DEF ImagesInv, VI!TypeOK, VI!InTx, VI!Seen, There
<1>5. CASE VI!Seen(t) = {} /\ VI!Step(t, [imageTx[t] EXCEPT !.pc = "commit"])
  <2> DEFINE r == [imageTx[t] EXCEPT !.pc = "commit"]
  <2>1. imageTx' = [imageTx EXCEPT ![t] = r]
    BY <1>5 DEF VI!Step
  <2>2. /\ r \in VI!Call /\ r.pc = "commit" /\ r.wrote = imageTx[t].wrote /\ r.w = imageTx[t].w
        /\ r.op = "delete" /\ r.del = imageTx[t].del /\ r.list = <<>> /\ r.ent = imageTx[t].ent
        /\ r.todo = imageTx[t].todo
    BY <1>2, <1>3 DEF VI!Call
  <2> HIDE DEF r
  <2>3. /\ ToSave(r) = {} /\ ~Brings(r) /\ Own(r) = {} /\ Own(imageTx[t]) = {}
        /\ Subject(r) = Subject(imageTx[t])
    BY <1>3, <2>2 DEF ToSave, Own, Brings, Subject
  <2>4. Touched(r) = Touched(imageTx[t])
    BY <2>2, <2>3 DEF Touched
  <2>5. Shape(r)
    BY <1>1, <1>2, <2>2, <2>3 DEF Shape, Stages, VI!InTx
  <2>6. Linked(r, variant, image, object, used, revived)
    BY <1>2, <1>3, <2>2, <2>3, <2>4 DEF Linked
  <2>7. ASSUME MarkInv PROVE MarkInv'
    <3>1. Well(image, cleared) /\ Alone(imageTx[t], variant, image, cleared) => Alone(r, variant, image, cleared)
      BY <1>1, <1>2, <1>3, <1>4, <1>5, <2>2, RowsAre, AlonePromote
    <3> QED
      BY <1>1, <1>4, <2>1, <2>2, <2>7, <3>1, MarkStays
  <2> QED
    BY <1>1, <1>3, <1>4, <2>1, <2>2, <2>3, <2>4, <2>5, <2>6, <2>7, LocalKeeps
<1>6. ASSUME NEW i \in VI!Images, VI!First(t, i),
             VI!Step(t, [imageTx[t] EXCEPT !.list = <<i>>, !.pc = "compare",
                                   !.ent[i] = [VI!View(t, i) EXCEPT !.primary = TRUE]])
      PROVE  ImagesInv' /\ (MarkInv => MarkInv')
  <2> DEFINE e == [VI!View(t, i) EXCEPT !.primary = TRUE]
             r == [imageTx[t] EXCEPT !.list = <<i>>, !.pc = "compare", !.ent[i] = e]
  <2>1. imageTx' = [imageTx EXCEPT ![t] = r]
    BY <1>6 DEF VI!Step
  <2>2. e \in VI!Row /\ e.there /\ e.primary /\ VI!View(t, i).there
    <3>1. VI!View(t, i) \in VI!Row /\ VI!View(t, i).there
      BY <1>6, RowsAre DEF VI!First, VI!Seen
    <3> QED
      BY <3>1 DEF VI!Row
  <2>3. <<i>> \in Seq(VI!Images) /\ DOMAIN <<i>> = {1} /\ <<i>>[1] = i /\ Head(<<i>>) = i
    OBVIOUS
  <2> HIDE DEF e
  <2>4. /\ r \in VI!Call /\ r.pc = "compare" /\ r.wrote = imageTx[t].wrote /\ r.w = imageTx[t].w
        /\ r.op = "delete" /\ r.del = imageTx[t].del /\ r.list = <<i>>
        /\ r.ent = [imageTx[t].ent EXCEPT ![i] = e]
        /\ r.todo = imageTx[t].todo
    BY <1>2, <1>3, <2>2, <2>3 DEF VI!Call
  <2> HIDE DEF r
  <2>5. Subject(r) = Subject(imageTx[t]) \cup {i}
    <3>1. imageTx[t].ent \in [VI!Images -> VI!Row]
      BY <1>2 DEF VI!Call
    <3> QED
      BY <2>2, <2>4, <3>1 DEF Subject
  <2>6. ToSave(r) = {i} /\ ~Brings(r) /\ Own(r) = {} /\ Own(imageTx[t]) = {}
    BY <1>3, <2>3, <2>4 DEF ToSave, Own, Brings
  <2>7. i \in imageTx[t].wrote \/ i \in VI!Rows
    BY <2>2 DEF VI!View, VI!Rows
  <2>8. \A k \in Touched(r) : k \in Touched(imageTx[t]) \/ k \in VI!Rows
    BY <2>4, <2>5, <2>7 DEF Touched
  <2>9. i \notin imageTx[t].del
    BY <1>1, <1>2, <2>2 DEF Shape, VI!View
  <2>10. Shape(r)
    <3>1. r.list # <<>> /\ \A j, k \in DOMAIN r.list : r.list[j] = r.list[k] => j = k
      BY <2>3, <2>4
    <3>2. r.ent[i].there
      BY <1>2, <2>2, <2>4 DEF VI!Call
    <3> QED
      BY <1>1, <1>2, <2>4, <2>6, <2>9, <3>1, <3>2 DEF Shape, Stages, VI!InTx
  <2>11. Linked(r, variant, image, object, used, revived)
    <3>1. \A k \in VI!Rows : k <= used
      BY DEF ImagesInv, Stocked
    <3> QED
      BY <1>2, <1>3, <2>4, <2>6, <2>8, <3>1 DEF Linked
  <2>12. ASSUME MarkInv PROVE MarkInv'
    <3>1. i \in There(Sees(imageTx[t], image)) /\ r.ent[i].primary
      BY <1>2, <1>4, <1>6, <2>2, <2>4 DEF VI!First, VI!Call
    <3>2. Well(image, cleared) /\ Alone(imageTx[t], variant, image, cleared) => Alone(r, variant, image, cleared)
      BY <1>1, <1>2, <1>3, <2>4, <2>6, <3>1, RowsAre, AlonePromote
    <3> QED
      BY <1>1, <1>4, <2>1, <2>4, <2>12, <3>2, MarkStays
  <2> QED
    BY <1>1, <1>3, <1>4, <2>1, <2>4, <2>6, <2>8, <2>10, <2>11, <2>12, LocalKeeps
<1> QED
  BY <1>5, <1>6 DEF VI!Promote

--------------------------------------------------------------------------------
(* The save of an image.                                                   *)

LEMMA SaveKeeps ==
  ASSUME ImagesInv, NEW t \in Calls, imageTx[t].pc \in {"compare", "write"},
         NEW r \in VI!Call, NEW e \in VI!Row, imageTx' = [imageTx EXCEPT ![t] = r],
         UNCHANGED <<variant, image, object, used, overlapped, cleared, revived, strays, imageCalls, imageAborts>>,
         SavesTo(imageTx[t], r),
         \/ Unwritten(imageTx[t], r) /\ ~Brings(imageTx[t])
         \/ Written(imageTx[t], r, e) /\ e.there /\ variant # "gone" /\ VI!Free(t, Head(imageTx[t].list))
  PROVE  ImagesInv'
<1> DEFINE i == Head(imageTx[t].list)
<1>1. /\ imageTx[t] \in VI!Call /\ Shape(imageTx[t])
      /\ Linked(imageTx[t], variant, image, object, used, revived)
  BY Held
<1>2. imageTx[t].list # <<>>
  BY <1>1 DEF Shape
<1>3. /\ i \in VI!Images /\ i \in ToSave(imageTx[t]) /\ i \in Subject(imageTx[t])
      /\ i \notin imageTx[t].del
      /\ (r.list = <<>> <=> Len(imageTx[t].list) = 1)
      /\ \A j, k \in DOMAIN r.list : r.list[j] = r.list[k] => j = k
      /\ ToSave(r) = ToSave(imageTx[t]) \ {i}
      /\ imageTx[t].op \in {"upload", "update"} => Len(imageTx[t].list) = 1
  <2> DEFINE s == Tail(imageTx[t].list)
  <2>1. r.list = s
    BY DEF SavesTo
  <2>2. ToSave(r) = { s[k] : k \in DOMAIN s }
    BY <2>1 DEF ToSave
  <2>3. /\ i \in VI!Images /\ i \in ToSave(imageTx[t]) /\ i \in Subject(imageTx[t])
        /\ i \notin imageTx[t].del
        /\ (s = <<>> <=> Len(imageTx[t].list) = 1)
        /\ \A j, k \in DOMAIN s : s[j] = s[k] => j = k
        /\ { s[k] : k \in DOMAIN s } = ToSave(imageTx[t]) \ {i}
        /\ imageTx[t].op \in {"upload", "update"} => Len(imageTx[t].list) = 1
    BY <1>1, <1>2, HeadIs
  <2> HIDE DEF s, i
  <2> QED
    BY <2>1, <2>2, <2>3
<1>4. Own(r) = Own(imageTx[t]) /\ Subject(r) = Subject(imageTx[t]) /\ (Brings(r) <=> Brings(imageTx[t]))
  BY DEF SavesTo, Own, Subject, Brings
<1>5. /\ \A k \in imageTx[t].wrote : k \in r.wrote /\ (k = i \/ r.w[k] = imageTx[t].w[k])
      /\ \A k \in r.wrote : k \in imageTx[t].wrote \/ k = i
      /\ i \in r.wrote => (i \in imageTx[t].wrote /\ r.w[i] = imageTx[t].w[i]) \/ (r.w[i].there /\ variant # "gone" /\ VI!Free(t, i))
      /\ Brings(imageTx[t]) => i \in r.wrote
  BY <1>1, <1>3 DEF Unwritten, Written, VI!Call
<1>6. /\ r.op = imageTx[t].op /\ r.del = imageTx[t].del /\ r.ent = imageTx[t].ent
      /\ r.todo = imageTx[t].todo
      /\ r.pc = IF Len(imageTx[t].list) = 1 THEN "commit" ELSE IF imageTx[t].op = "create" THEN "store" ELSE "compare"
  BY DEF SavesTo
<1> HIDE DEF i
<1>7. /\ r.pc \in {"commit", "store", "compare"} /\ (r.pc = "store" => r.op = "create")
      /\ VI!InTx(r) /\ VI!InTx(imageTx[t])
      /\ (r.list = <<>> <=> r.pc = "commit")
  BY <1>3, <1>6 DEF VI!InTx
<1>8. Touched(r) = Touched(imageTx[t]) \cup r.wrote /\ \A k \in Touched(r) : k \in Touched(imageTx[t])
  BY <1>3, <1>4, <1>5, <1>6 DEF Touched
<1>9. Shape(r)
  <2>1. r.pc \in Stages(r.op)
    <3>1. /\ imageTx[t].op # "none"
          /\ imageTx[t].op \in {"none", "create", "upload", "update", "delete", "reorder"}
      BY <1>1, OpOf DEF VI!Call
    <3> QED
      BY <1>6, <1>7, <3>1 DEF Stages
  <2>2. \A k \in ToSave(r) : k \notin r.del /\ r.ent[k].there
    BY <1>1, <1>3, <1>6 DEF Shape
  <2>3. \A k \in r.wrote : r.w[k].there \/ k \in r.del
    BY <1>1, <1>5, <1>6 DEF Shape
  <2>4. \A k \in r.del : k \in r.wrote /\ ~r.w[k].there
    BY <1>1, <1>3, <1>5, <1>6 DEF Shape
  <2>5. Brings(r) => \A k \in Own(r) : k \in ToSave(r) <=> k \notin r.wrote
    BY <1>1, <1>3, <1>4, <1>5 DEF Shape
  <2>6. /\ r.del # {} => r.op = "delete"
        /\ \A j, k \in r.del : j = k
        /\ r.op \in {"upload", "update"} => \A j, k \in Subject(r) : j = k
    BY <1>1, <1>4, <1>6 DEF Shape
  <2> QED
    BY <1>3, <1>7, <2>1, <2>2, <2>3, <2>4, <2>5, <2>6 DEF Shape
<1>10. Linked(r, variant, image, object, used, revived)
  <2>1. Brings(r) => i \in Own(r) /\ i \in object
    BY <1>1, <1>2, <1>3, <1>4 DEF Linked, Own, i
  <2>2. Brings(r) => \A k \in r.wrote : IF k \in Own(r) THEN k \in object ELSE image[k].there
    BY <1>1, <1>4, <1>5, <2>1 DEF Linked
  <2>3. Brings(r) => (r.pc # "store" /\ r.list # <<>> => Head(r.list) \in object)
    BY <1>3, <1>6, <1>7 DEF Brings
  <2>4. variant = "gone" => \A k \in r.wrote : ~r.w[k].there
    BY <1>1, <1>5 DEF Linked
  <2>5. r.op = "create" => variant = "none" /\ r.wrote \subseteq Own(r)
    BY <1>1, <1>4, <1>5, <1>6, <2>1 DEF Linked, Brings
  <2> QED
    BY <1>1, <1>4, <1>6, <1>7, <1>8, <2>2, <2>3, <2>4, <2>5 DEF Linked
<1> QED
  <2>1. overlapped' \in BOOLEAN
    BY DEF ImagesInv, VI!TypeOK
  <2>2. \A k \in r.wrote : k \in imageTx[t].wrote \/ VI!Free(t, k)
    BY <1>5
  <2>3. imageTx[t].pc # "unlink" /\ r.pc # "unlink"
    BY <1>7
  <2> QED
    BY <1>4, <1>6, <1>8, <1>9, <1>10, <2>1, <2>2, <2>3, LocalKeeps

LEMMA Accepts ==
  ASSUME ImagesInv, NEW t \in Calls, imageTx[t].pc \in {"compare", "write"}
  PROVE  LET i == Head(imageTx[t].list)
         IN  /\ imageTx[t].list # <<>> /\ i \in VI!Images /\ i \in ToSave(imageTx[t]) /\ imageTx[t].ent[i].there
             /\ imageTx[t].ent[i] \in VI!Row /\ VI!View(t, i) \in VI!Row
             /\ Brings(imageTx[t]) => i \notin imageTx[t].wrote /\ ~VI!View(t, i).there /\ (imageTx[t].pc = "write" => imageTx[t].ins)
             /\ VI!View(t, i).there => variant # "gone"
<1> DEFINE i == Head(imageTx[t].list)
<1>1. /\ imageTx[t] \in VI!Call /\ Shape(imageTx[t])
      /\ Linked(imageTx[t], variant, image, object, used, revived)
  BY Held
<1>2. imageTx[t].list # <<>>
  BY <1>1 DEF Shape
<1>3. i \in VI!Images /\ i \in ToSave(imageTx[t]) /\ i \in Subject(imageTx[t])
  BY <1>1, <1>2, HeadIs
<1> HIDE DEF i
<1>4. imageTx[t].ent[i].there /\ imageTx[t].ent[i] \in VI!Row /\ VI!View(t, i) \in VI!Row
  BY <1>1, <1>3, RowsAre DEF Subject, VI!Call
<1>5. ASSUME Brings(imageTx[t])
      PROVE  i \notin imageTx[t].wrote /\ ~VI!View(t, i).there /\ (imageTx[t].pc = "write" => imageTx[t].ins)
  <2>1. i \in Own(imageTx[t])
    BY <1>3, <1>5 DEF Own
  <2>2. i \notin imageTx[t].wrote /\ (imageTx[t].pc = "write" => imageTx[t].ins)
    BY <1>1, <1>3, <1>5, <2>1 DEF Shape
  <2> QED
    BY <1>1, <2>1, <2>2 DEF Linked, VI!View
<1>6. VI!View(t, i).there => variant # "gone"
  <2>1. variant = "gone" => ~image[i].there
    BY <1>3 DEF ImagesInv, Stocked, VI!Rows
  <2> QED
    BY <1>1, <2>1 DEF Linked, VI!View
<1> QED
  BY <1>2, <1>3, <1>4, <1>5, <1>6 DEF i

LEMMA CompareKeeps ==
  ASSUME ImagesInv, NEW t \in Calls, VI!Compare(t) PROVE ImagesInv' /\ (MarkInv => MarkInv')
<1> DEFINE i == Head(imageTx[t].list)
           C == VI!Differing(imageTx[t].ent[i], VI!View(t, i))
           p == [imageTx[t] EXCEPT !.ins = TRUE, !.pc = "write"]
           q == [imageTx[t] EXCEPT !.ins = FALSE, !.cols = C, !.pc = "write"]
           r == IF ~VI!View(t, i).there THEN p ELSE IF C = {} THEN VI!Saved(imageTx[t]) ELSE q
<1>1. /\ imageTx[t].pc = "compare" /\ imageTx' = [imageTx EXCEPT ![t] = r]
      /\ UNCHANGED <<variant, image, object, used, overlapped, cleared, revived, strays, imageCalls, imageAborts>>
  BY DEF VI!Compare, VI!Step, VI!db, VI!history, VI!bounds
<1>2. /\ imageTx[t] \in VI!Call /\ Shape(imageTx[t])
      /\ Linked(imageTx[t], variant, image, object, used, revived)
  BY Held
<1>3. /\ imageTx[t].list # <<>> /\ (Brings(imageTx[t]) => ~VI!View(t, i).there) /\ i \in VI!Images
      /\ VI!View(t, i) = Sees(imageTx[t], image)[i]
  BY <1>1, Accepts, RowsAre
<1>4. overlapped' \in BOOLEAN /\ VI!InTx(imageTx[t])
  BY <1>1 DEF ImagesInv, VI!TypeOK, VI!InTx
<1>5. ASSUME NEW s \in VI!Call, s.op = imageTx[t].op, s.del = imageTx[t].del, s.list = imageTx[t].list, s.ent = imageTx[t].ent,
             s.todo = imageTx[t].todo, s.wrote = imageTx[t].wrote, s.w = imageTx[t].w, s.pc = "write",
             imageTx' = [imageTx EXCEPT ![t] = s],
             IF VI!View(t, i).there
             THEN ~s.ins /\ ("primary" \in s.cols <=> imageTx[t].ent[i].primary # VI!View(t, i).primary)
             ELSE s.ins
      PROVE  ImagesInv' /\ (MarkInv => MarkInv')
  <2>1. /\ ToSave(s) = ToSave(imageTx[t]) /\ Own(s) = Own(imageTx[t])
        /\ Subject(s) = Subject(imageTx[t])
        /\ (Brings(s) <=> Brings(imageTx[t]))
    BY <1>5 DEF ToSave, Own, Brings, Subject
  <2>2. Touched(s) = Touched(imageTx[t])
    BY <1>5, <2>1 DEF Touched
  <2>3. Shape(s)
    <3>1. /\ imageTx[t].op # "none"
          /\ imageTx[t].op \in {"none", "create", "upload", "update", "delete", "reorder"}
      BY <1>1, <1>2, OpOf DEF VI!Call
    <3>2. s.pc \in Stages(s.op)
      BY <1>5, <3>1 DEF Stages
    <3> QED
      BY SMTT(20), <1>1, <1>2, <1>3, <1>5, <2>1, <3>2 DEF Shape, VI!InTx
  <2>4. Linked(s, variant, image, object, used, revived)
    BY <1>1, <1>2, <1>5, <2>1, <2>2 DEF Linked
  <2>5. ASSUME MarkInv PROVE MarkInv'
    <3>1. Well(image, cleared) /\ Alone(imageTx[t], variant, image, cleared) => Alone(s, variant, image, cleared)
      BY <1>1, <1>2, <1>3, <1>5, RowsAre, AloneCompare
    <3> QED
      BY <1>1, <1>4, <1>5, <2>5, <3>1, MarkStays
  <2> QED
    BY <1>1, <1>4, <1>5, <2>1, <2>2, <2>3, <2>4, <2>5, LocalKeeps
<1>6. CASE ~VI!View(t, i).there
  <2>1. /\ p \in VI!Call /\ p.op = imageTx[t].op /\ p.del = imageTx[t].del
        /\ p.list = imageTx[t].list /\ p.ent = imageTx[t].ent
        /\ p.todo = imageTx[t].todo /\ p.wrote = imageTx[t].wrote /\ p.w = imageTx[t].w
        /\ p.pc = "write" /\ p.ins
    BY <1>2 DEF VI!Call
  <2>2. imageTx' = [imageTx EXCEPT ![t] = p]
    BY <1>1, <1>6
  <2> HIDE DEF p
  <2> QED
    BY <1>5, <1>6, <2>1, <2>2
<1>7. CASE VI!View(t, i).there /\ C = {}
  <2>1. /\ VI!Saved(imageTx[t]) \in VI!Call /\ SavesTo(imageTx[t], VI!Saved(imageTx[t]))
        /\ Unwritten(imageTx[t], VI!Saved(imageTx[t]))
    BY <1>2, <1>3, SavedIs
  <2>2. imageTx' = [imageTx EXCEPT ![t] = VI!Saved(imageTx[t])]
    BY <1>1, <1>7
  <2>3. ~Brings(imageTx[t]) /\ VI!View(t, i).primary = imageTx[t].ent[i].primary
    BY <1>3, <1>7 DEF VI!Differing
  <2>4. ASSUME MarkInv PROVE MarkInv'
    <3>1. ToSave(VI!Saved(imageTx[t])) \subseteq ToSave(imageTx[t])
      BY <1>2, <1>3, <2>1, SavesRest
    <3>2. Well(image, cleared) /\ Alone(imageTx[t], variant, image, cleared) => Alone(VI!Saved(imageTx[t]), variant, image, cleared)
      BY <1>1, <1>2, <1>3, <1>7, <2>1, <2>3, <3>1, RowsAre, AloneSaved
    <3> QED
      BY <1>1, <1>4, <2>1, <2>2, <2>4, <3>2, MarkStays
  <2> QED
    BY <1>1, <2>1, <2>2, <2>3, <2>4, SaveKeeps, RowTypes
<1>8. CASE VI!View(t, i).there /\ C # {}
  <2>1. C \in SUBSET {"sort", "primary"} /\ ("primary" \in C <=> imageTx[t].ent[i].primary # VI!View(t, i).primary)
    BY DEF VI!Differing
  <2> HIDE DEF C
  <2>2. /\ q \in VI!Call /\ q.op = imageTx[t].op /\ q.del = imageTx[t].del
        /\ q.list = imageTx[t].list /\ q.ent = imageTx[t].ent
        /\ q.todo = imageTx[t].todo /\ q.wrote = imageTx[t].wrote /\ q.w = imageTx[t].w
        /\ q.pc = "write"
        /\ ~q.ins /\ q.cols = C
    BY <1>2, <2>1 DEF VI!Call
  <2>3. imageTx' = [imageTx EXCEPT ![t] = q]
    BY <1>1, <1>8
  <2> HIDE DEF q
  <2> QED
    BY <1>5, <1>8, <2>1, <2>2, <2>3
<1> QED
  BY <1>6, <1>7, <1>8

LEMMA PatchIs ==
  ASSUME NEW a \in VI!Row, NEW b \in VI!Row, NEW C \in SUBSET {"sort", "primary"}
  PROVE  /\ VI!Patch(a, b, C) \in VI!Row /\ VI!Patch(a, b, C).there = a.there
         /\ VI!Patch(a, b, C).primary = IF "primary" \in C THEN b.primary ELSE a.primary
<1> DEFINE D == {"there", "sort", "primary"}
<1>1. DOMAIN a = D
  BY DEF VI!Row
<1>2. VI!Patch(a, b, C) = [there |-> a.there, sort |-> IF "sort" \in C THEN b.sort ELSE a.sort,
                        primary |-> IF "primary" \in C THEN b.primary ELSE a.primary]
  BY <1>1 DEF VI!Patch
<1> QED
  BY <1>2 DEF VI!Row

LEMMA WriteKeeps ==
  ASSUME ImagesInv, NEW t \in Calls, VI!Write(t) PROVE ImagesInv' /\ (MarkInv => MarkInv')
<1> DEFINE i == Head(imageTx[t].list)
           n == VI!Patch(VI!View(t, i), imageTx[t].ent[i], imageTx[t].cols)
           q == VI!Saved(imageTx[t])
           p(e) == [q EXCEPT !.wrote = @ \cup {i}, !.w[i] = e]
           r == IF imageTx[t].ins THEN p(imageTx[t].ent[i]) ELSE IF VI!View(t, i).there THEN p(n) ELSE q
<1>1. /\ imageTx[t].pc = "write" /\ imageTx' = [imageTx EXCEPT ![t] = r] /\ VI!Free(t, i) /\ (imageTx[t].ins => VI!Accepted(t))
      /\ UNCHANGED <<variant, image, object, used, overlapped, cleared, revived, strays, imageCalls, imageAborts>>
  BY DEF VI!Write, VI!Step, VI!db, VI!history, VI!bounds
<1>2. /\ imageTx[t] \in VI!Call /\ Shape(imageTx[t])
      /\ Linked(imageTx[t], variant, image, object, used, revived)
  BY Held
<1>3. /\ imageTx[t].list # <<>> /\ i \in VI!Images /\ imageTx[t].ent[i] \in VI!Row
      /\ imageTx[t].ent[i].there /\ VI!View(t, i) \in VI!Row
      /\ (Brings(imageTx[t]) => imageTx[t].ins) /\ (VI!View(t, i).there => variant # "gone")
      /\ VI!View(t, i) = Sees(imageTx[t], image)[i] /\ VI!InTx(imageTx[t])
  BY <1>1, Accepts, RowsAre DEF VI!InTx
<1>4. q \in VI!Call /\ SavesTo(imageTx[t], q) /\ Unwritten(imageTx[t], q)
  BY <1>2, <1>3, SavedIs
<1> HIDE DEF q
<1>a. ASSUME NEW s \in VI!Call, SavesTo(imageTx[t], s), NEW e \in VI!Row, Written(imageTx[t], s, e), e.there,
             e.primary = IF imageTx[t].ins \/ "primary" \in imageTx[t].cols THEN imageTx[t].ent[i].primary ELSE VI!View(t, i).primary,
             variant # "gone", imageTx' = [imageTx EXCEPT ![t] = s]
      PROVE  ImagesInv' /\ (MarkInv => MarkInv')
  <2>1. ToSave(s) \subseteq ToSave(imageTx[t])
    BY <1>2, <1>3, <1>a, SavesRest
  <2>2. Well(image, cleared) /\ Alone(imageTx[t], variant, image, cleared) => Alone(s, variant, image, cleared)
    BY <1>1, <1>2, <1>3, <1>a, <2>1, RowsAre, AloneWrite
  <2>3. MarkInv => MarkInv'
    BY <1>1, <1>3, <1>a, <2>2, MarkStays
  <2> QED
    BY <1>1, <1>a, <2>3, SaveKeeps
<1>5. ASSUME NEW e \in VI!Row
      PROVE  p(e) \in VI!Call /\ SavesTo(imageTx[t], p(e)) /\ Written(imageTx[t], p(e), e)
  <2>1. q.wrote = imageTx[t].wrote /\ q.w = imageTx[t].w
    BY <1>4 DEF Unwritten
  <2>2. /\ p(e) \in VI!Call /\ p(e).op = q.op /\ p(e).del = q.del /\ p(e).ent = q.ent
        /\ p(e).todo = q.todo
        /\ p(e).ins = q.ins /\ p(e).cols = q.cols /\ p(e).list = q.list /\ p(e).pc = q.pc
        /\ p(e).wrote = q.wrote \cup {i} /\ p(e).w = [q.w EXCEPT ![i] = e]
    BY <1>3, <1>4 DEF VI!Call
  <2> HIDE DEF p
  <2> QED
    BY <1>4, <2>1, <2>2 DEF SavesTo, Written
<1> HIDE DEF p
<1>6. CASE imageTx[t].ins
  <2>1. variant # "gone"
    BY <1>1, <1>2, <1>6 DEF VI!Accepted, Linked
  <2>2. imageTx' = [imageTx EXCEPT ![t] = p(imageTx[t].ent[i])]
    BY <1>1, <1>6
  <2>3. /\ p(imageTx[t].ent[i]) \in VI!Call /\ SavesTo(imageTx[t], p(imageTx[t].ent[i]))
        /\ Written(imageTx[t], p(imageTx[t].ent[i]), imageTx[t].ent[i])
    BY <1>3, <1>5
  <2> QED
    BY <1>3, <1>6, <1>a, <2>1, <2>2, <2>3
<1>7. CASE ~imageTx[t].ins /\ VI!View(t, i).there
  <2>1. /\ n \in VI!Row /\ n.there
        /\ n.primary = IF "primary" \in imageTx[t].cols THEN imageTx[t].ent[i].primary ELSE VI!View(t, i).primary
    BY <1>2, <1>3, <1>7, PatchIs DEF VI!Call
  <2>2. imageTx' = [imageTx EXCEPT ![t] = p(n)]
    BY <1>1, <1>7
  <2>3. p(n) \in VI!Call /\ SavesTo(imageTx[t], p(n)) /\ Written(imageTx[t], p(n), n)
    BY <1>5, <2>1
  <2> HIDE DEF n
  <2> QED
    BY <1>3, <1>7, <1>a, <2>1, <2>2, <2>3
<1>8. CASE ~imageTx[t].ins /\ ~VI!View(t, i).there
  <2>1. imageTx' = [imageTx EXCEPT ![t] = q]
    BY <1>1, <1>8
  <2>2. ~Brings(imageTx[t]) /\ q.op = imageTx[t].op
    BY <1>3, <1>4, <1>8 DEF SavesTo
  <2>3. Alone(imageTx[t], variant, image, cleared) => Alone(q, variant, image, cleared)
    <3>1. variant = "there" => ~Alone(imageTx[t], variant, image, cleared)
      BY <1>1, <1>2, <1>3, <1>8, RowsAre, AloneSeen
    <3>2. variant # "there" => Alone(q, variant, image, cleared)
      BY <2>2 DEF Alone, Brings
    <3> QED
      BY <3>1, <3>2
  <2>4. MarkInv => MarkInv'
    BY <1>1, <1>3, <1>4, <2>1, <2>3, MarkStays
  <2> QED
    BY <1>1, <1>4, <2>1, <2>2, <2>4, SaveKeeps, RowTypes
<1> QED
  BY <1>6, <1>7, <1>8

--------------------------------------------------------------------------------
(* Steps that draw an id or change the storage.                            *)

LEMMA OpenKeeps ==
  ASSUME ImagesInv, NEW t \in Calls, VI!Open(t) PROVE ImagesInv' /\ (MarkInv => MarkInv')
<1> DEFINE i == Head(imageTx[t].list)
           p == VI!FirstIsPrimary(imageTx[t].ent[i].primary)
           e == VI!At(VI!Last + 1, p)
           pc == IF p /\ VI!Rows # {} THEN "demote" ELSE "compare"
           r == [imageTx[t] EXCEPT !.ent[i] = e, !.pc = pc]
<1>1. /\ imageTx[t] \in VI!Call /\ Shape(imageTx[t])
      /\ Linked(imageTx[t], variant, image, object, used, revived)
  BY Held
<1>2. /\ imageTx[t].pc = "open" /\ imageTx' = [imageTx EXCEPT ![t].ent[i] = e, ![t].pc = pc] /\ overlapped' = (overlapped \/ VI!Racing(t))
      /\ UNCHANGED <<variant, image, object, used, cleared, revived, strays, imageCalls, imageAborts>>
  BY DEF VI!Open, VI!db, VI!bounds
<1>3. e \in VI!Row /\ e.there
  <2>1. p \in BOOLEAN /\ VI!Last \in Int
    BY LastInt, RowsAre DEF VI!FirstIsPrimary
  <2> QED
    BY <2>1, RowTypes DEF VI!At
<1>4. pc \in {"demote", "compare"}
  OBVIOUS
<1>5. imageTx[t].op = "upload" /\ imageTx[t].list # <<>> /\ imageTx[t].wrote = {}
  BY <1>1, <1>2, OpOf DEF Shape, VI!InTx
<1>6. i \in VI!Images /\ i \in Subject(imageTx[t])
  BY <1>1, <1>5, HeadIs
<1> HIDE DEF e, pc, i
<1>7. imageTx' = [imageTx EXCEPT ![t] = r]
  BY <1>2 DEF ImagesInv, VI!TypeOK
<1>8. /\ r \in VI!Call /\ r.op = imageTx[t].op /\ r.del = imageTx[t].del
      /\ r.list = imageTx[t].list /\ r.ent = [imageTx[t].ent EXCEPT ![i] = e]
      /\ r.todo = imageTx[t].todo /\ r.wrote = imageTx[t].wrote /\ r.w = imageTx[t].w /\ r.pc = pc
  BY <1>1, <1>3, <1>4, <1>6 DEF VI!Call
<1> HIDE DEF r
<1>9. Subject(r) = Subject(imageTx[t])
  <2>1. imageTx[t].ent \in [VI!Images -> VI!Row]
    BY <1>1 DEF VI!Call
  <2> QED
    BY <1>3, <1>6, <1>8, <2>1 DEF Subject
<1>10. /\ Own(r) = Own(imageTx[t]) /\ Touched(r) = Touched(imageTx[t]) /\ Brings(r)
       /\ Brings(imageTx[t]) /\ ToSave(r) = ToSave(imageTx[t])
  BY <1>5, <1>8, <1>9 DEF Own, Touched, Brings, ToSave
<1>11. Shape(r)
  <2>1. r.pc \in Stages(r.op)
    BY <1>4, <1>5, <1>8 DEF Stages
  <2>2. \A k \in ToSave(r) : r.ent[k].there
    BY <1>1, <1>8, <1>9, <1>10 DEF Shape, Subject, VI!Call
  <2> QED
    BY <1>1, <1>2, <1>4, <1>5, <1>8, <1>9, <1>10, <2>1, <2>2 DEF Shape, VI!InTx
<1>12. Linked(r, variant, image, object, used, revived)
  BY <1>1, <1>2, <1>4, <1>5, <1>8, <1>10 DEF Linked
<1> QED
  <2>1. overlapped' \in BOOLEAN
    BY <1>2 DEF ImagesInv, VI!TypeOK, VI!Racing
  <2>2. ASSUME MarkInv PROVE MarkInv'
    <3>1. Subject(r) = {i} /\ ~image[i].there
      BY <1>1, <1>5, <1>6, <1>9, <1>10 DEF Shape, Linked, Own
    <3>2. r.ent[i].primary <=> p
      <4>1. r.ent[i] = e
        BY <1>1, <1>6, <1>8 DEF VI!Call
      <4> QED
        BY <4>1 DEF e, VI!At
    <3>3. There(image) = {} => p
      BY RowsAre DEF VI!FirstIsPrimary
    <3>4. r.pc = IF r.ent[i].primary /\ There(image) # {} THEN "demote" ELSE "compare"
      BY <1>8, <3>2, RowsAre DEF pc
    <3>5. Well(image, cleared') => Alone(r, variant, image, cleared')
      BY <1>5, <1>6, <1>8, <3>1, <3>2, <3>3, <3>4, RowsAre, AloneOpen
    <3> QED
      BY <1>2, <1>7, <1>8, <2>2, <3>5, MarkKeeps
  <2> QED
    BY <1>2, <1>4, <1>5, <1>7, <1>8, <1>10, <1>11, <1>12, <2>1, <2>2, LocalKeeps

LEMMA LinkedMore ==
  ASSUME NEW r, NEW v, NEW R, NEW O, NEW P, NEW d \in Int, NEW e \in Int, NEW B,
         Linked(r, v, R, O, d, B), O \subseteq P, d <= e, Touched(r) \subseteq Int
  PROVE  Linked(r, v, R, P, e, B)
<1>1. \A i \in Touched(r) : i <= e
  BY DEF Linked
<1> QED
  BY <1>1 DEF Linked

LEMMA TouchedInt ==
  ASSUME NEW r \in VI!Call
  PROVE  Touched(r) \subseteq VI!Images /\ Touched(r) \subseteq Int
BY DEF Touched, Subject, VI!Call, VI!Images

LEMMA StoreKeeps ==
  ASSUME ImagesInv, NEW t \in Calls, VI!Store(t) PROVE ImagesInv' /\ (MarkInv => MarkInv')
<1> DEFINE i == Head(imageTx[t].list)
           pc == IF imageTx[t].op = "create" THEN "compare" ELSE "open"
           r == [imageTx[t] EXCEPT !.pc = pc]
<1>1. /\ imageTx[t] \in VI!Call /\ Shape(imageTx[t])
      /\ Linked(imageTx[t], variant, image, object, used, revived)
  BY Held
<1>2. /\ imageTx[t].pc = "store" /\ imageTx' = [imageTx EXCEPT ![t].pc = pc]
      /\ object' = object \cup {i}
      /\ UNCHANGED <<variant, image, used, overlapped, cleared, revived, strays, imageCalls, imageAborts>>
  BY DEF VI!Store, VI!db, VI!bounds, VI!history, VI!Key
<1>3. imageTx[t].op \in {"create", "upload"} /\ imageTx[t].list # <<>>
  BY <1>1, <1>2, OpOf DEF Shape
<1>4. i \in VI!Images /\ i \in Own(imageTx[t]) /\ Own(imageTx[t]) = Subject(imageTx[t])
  BY <1>1, <1>3, HeadIs DEF Own, Brings
<1>5. pc \in {"compare", "open"} /\ (pc = "compare" <=> imageTx[t].op = "create")
  OBVIOUS
<1> HIDE DEF i, pc
<1>6. imageTx' = [imageTx EXCEPT ![t] = r]
  BY <1>2 DEF ImagesInv, VI!TypeOK
<1>7. /\ r \in VI!Call /\ r.op = imageTx[t].op /\ r.del = imageTx[t].del
      /\ r.list = imageTx[t].list /\ r.ent = imageTx[t].ent
      /\ r.todo = imageTx[t].todo /\ r.wrote = imageTx[t].wrote /\ r.w = imageTx[t].w /\ r.pc = pc
  BY <1>1, <1>5 DEF VI!Call
<1> HIDE DEF r
<1>8. /\ Own(r) = Own(imageTx[t]) /\ Touched(r) = Touched(imageTx[t]) /\ Brings(r)
      /\ Brings(imageTx[t])
      /\ ToSave(r) = ToSave(imageTx[t]) /\ Subject(r) = Subject(imageTx[t])
  BY <1>3, <1>7 DEF Own, Touched, Brings, ToSave, Subject
<1>9. Shape(r)
  <2>1. r.pc \in Stages(r.op)
    BY <1>3, <1>5, <1>7 DEF Stages
  <2> QED
    BY <1>1, <1>2, <1>3, <1>5, <1>7, <1>8, <2>1 DEF Shape, VI!InTx
<1>10. Linked(r, variant, image, object', used, revived)
  <2>1. Head(r.list) \in object'
    BY <1>2, <1>7 DEF i
  <2> QED
    BY <1>1, <1>2, <1>3, <1>5, <1>7, <1>8, <2>1 DEF Linked
<1>11. \A u \in Calls \ {t} : /\ Linked(imageTx[u], variant, image, object', used, revived)
                              /\ Apart(r, imageTx[u]) /\ Apart(imageTx[u], r)
  <2> SUFFICES ASSUME NEW u \in Calls \ {t}
               PROVE  /\ Linked(imageTx[u], variant, image, object', used, revived)
                      /\ Apart(r, imageTx[u]) /\ Apart(imageTx[u], r)
    OBVIOUS
  <2>1. /\ imageTx[u] \in VI!Call /\ Linked(imageTx[u], variant, image, object, used, revived)
        /\ Apart(imageTx[t], imageTx[u]) /\ Apart(imageTx[u], imageTx[t])
    BY Held
  <2>2. used \in Int /\ object \subseteq object'
    BY <1>2 DEF ImagesInv, VI!TypeOK
  <2> QED
    BY <1>7, <1>8, <2>1, <2>2, LinkedMore, TouchedInt DEF Apart
<1>12. VI!TypeOK'
  BY <1>2, <1>4, <1>6, <1>7 DEF ImagesInv, VI!TypeOK
<1>13. Stocked'
  <2>1. VI!Rows' = VI!Rows
    BY <1>2 DEF VI!Rows
  <2>2. imageTx'[t] = r /\ \A u \in Calls : u # t => imageTx'[u] = imageTx[u]
    BY <1>6 DEF ImagesInv, VI!TypeOK
  <2>3. \A u \in Calls : Owed(imageTx[u]) \subseteq Owed(imageTx'[u])
    <3>1. Owed(imageTx[t]) \subseteq Owed(r)
      BY <1>2, <1>5, <1>7, <1>8 DEF Owed
    <3> QED
      BY <2>2, <3>1
  <2>4. i \in Owed(imageTx'[t])
    BY <1>4, <1>8, <2>2 DEF Owed
  <2> QED
    BY <1>2, <2>1, <2>3, <2>4 DEF ImagesInv, Stocked
<1> QED
  <2>1. r.op = "create" => \A u \in Calls \ {t} : imageTx[u].op # "create"
    BY <1>7 DEF ImagesInv, OneCreate
  <2>2. ASSUME MarkInv PROVE MarkInv'
    <3>1. VI!InTx(r) <=> VI!InTx(imageTx[t])
      BY <1>2, <1>3, <1>5, <1>7 DEF VI!InTx
    <3>2. VI!InTx(r) => r.op = "create"
      BY <1>3, <1>5, <1>7 DEF VI!InTx
    <3>3. VI!InTx(r) /\ Alone(imageTx[t], variant, image, cleared) => Alone(r, variant, image, cleared)
      BY <1>7, <1>8, <3>2 DEF Alone, Creating
    <3>4. VI!InTx(imageTx[t]) /\ ~overlapped => ~VI!Racing(t)
      BY <2>2 DEF MarkInv, VI!Racing
    <3> QED
      BY <1>2, <1>6, <1>7, <2>2, <3>1, <3>3, <3>4, MarkKeeps
  <2> QED
    BY <1>2, <1>6, <1>7, <1>9, <1>10, <1>11, <1>12, <1>13, <2>1, <2>2, CallKeeps

--------------------------------------------------------------------------------
(* Calls that begin.                                                       *)

LEMMA ArriveKeeps ==
  ASSUME ImagesInv, NEW t \in Calls, NEW r \in VI!Call, VI!Arrive(t, r), cleared' \in BOOLEAN,
         used' \in 0..MaxImages, used <= used', Shape(r), Linked(r, variant, image, object, used', revived),
         r.wrote = {}, r.op # "create", r.pc # "unlink", \A i \in Own(r) : i > used,
         \A i \in Touched(r) : i \in Own(r) \/ i \in VI!Rows
  PROVE  ImagesInv'
<1>1. /\ imageTx[t].pc = "idle" /\ imageCalls' = imageCalls + 1
      /\ imageTx' = [imageTx EXCEPT ![t] = r]
      /\ overlapped' = (overlapped \/ (VI!InTx(r) /\ VI!Racing(t)))
      /\ UNCHANGED <<variant, image, object, revived, strays, imageAborts>>
  BY DEF VI!Arrive, VI!db
<1>2. imageTx[t] = VI!Idle
  BY <1>1, Held DEF Shape
<1>3. VI!TypeOK'
  <2>1. overlapped' \in BOOLEAN /\ imageCalls' \in Nat
    BY <1>1 DEF ImagesInv, VI!TypeOK, VI!InTx, VI!Racing
  <2> QED
    BY <1>1, <2>1 DEF ImagesInv, VI!TypeOK
<1>4. Stocked'
  <2>1. VI!Rows' = VI!Rows
    BY <1>1 DEF VI!Rows
  <2>2. \A u \in Calls : Owed(imageTx[u]) \subseteq Owed(imageTx'[u])
    <3>1. \A u \in Calls : u # t => imageTx'[u] = imageTx[u]
      BY <1>1 DEF ImagesInv, VI!TypeOK
    <3> QED
      BY <1>2, <3>1, IdleShape
  <2>3. \A i \in VI!Rows : i <= used'
    BY DEF ImagesInv, Stocked, VI!TypeOK, VI!Rows, VI!Images
  <2> QED
    BY <1>1, <2>1, <2>2, <2>3 DEF ImagesInv, Stocked
<1>5. ASSUME NEW u \in Calls \ {t}
      PROVE  Linked(imageTx[u], variant, image, object, used', revived) /\ Apart(r, imageTx[u]) /\ Apart(imageTx[u], r)
  <2>1. imageTx[u] \in VI!Call /\ Linked(imageTx[u], variant, image, object, used, revived)
    BY Held
  <2>2. used \in Int /\ used' \in Int
    BY DEF ImagesInv, VI!TypeOK
  <2>3. Linked(imageTx[u], variant, image, object, used', revived)
    BY <2>1, <2>2, LinkedMore, TouchedInt
  <2>4. Own(r) \cap Touched(imageTx[u]) = {}
    <3>1. \A i \in Touched(imageTx[u]) : i <= used /\ i \in Int
      BY <2>1, TouchedInt DEF Linked
    <3> QED
      BY <2>2, <3>1
  <2>5. Own(imageTx[u]) \cap Touched(r) = {}
    <3>1. \A i \in Own(imageTx[u]) : i \notin VI!Rows /\ i \in Touched(imageTx[u])
      BY <2>1 DEF Linked, VI!Rows, Touched, Own
    <3> QED
      BY <2>4, <3>1
  <2> QED
    BY <2>3, <2>4, <2>5 DEF Apart
<1> QED
  BY <1>1, <1>3, <1>4, <1>5, CallKeeps

LEMMA ArriveMark ==
  ASSUME ImagesInv, MarkInv, NEW t \in Calls, NEW r \in VI!Call, VI!Arrive(t, r), cleared => cleared',
         VI!InTx(r) /\ Well(image, cleared') => Alone(r, variant, image, cleared')
  PROVE  MarkInv'
<1>1. /\ imageTx[t].pc = "idle" /\ imageTx' = [imageTx EXCEPT ![t] = r]
      /\ UNCHANGED <<variant, image>>
      /\ overlapped' = (overlapped \/ (VI!InTx(r) /\ VI!Racing(t)))
  BY DEF VI!Arrive, VI!db
<1>2. ~VI!InTx(imageTx[t])
  BY <1>1 DEF VI!InTx
<1> QED
  BY <1>1, <1>2, MarkKeeps

LEMMA BeginUploadKeeps ==
  ASSUME ImagesInv, NEW t \in Calls, NEW wish \in BOOLEAN, VI!BeginUpload(t, wish)
  PROVE  ImagesInv' /\ (MarkInv => MarkInv')
<1> DEFINE i == used + 1
           e == VI!At(0, wish)
           f == [VI!Idle.ent EXCEPT ![i] = e]
           r == [VI!Idle EXCEPT !.op = "upload", !.list = <<i>>, !.ent[i] = e, !.pc = "store"]
<1>1. /\ variant = "there" /\ used < MaxImages /\ used' = i /\ cleared' = cleared /\ VI!Arrive(t, r)
  BY DEF VI!BeginUpload
<1>2. used \in 0..MaxImages /\ i \in 0..MaxImages /\ i \in VI!Images /\ i > used /\ used <= i
  BY <1>1, ImagesAssumption DEF ImagesInv, VI!TypeOK, VI!Images
<1>3. e \in VI!Row /\ e.there
  BY RowTypes DEF VI!At
<1> HIDE DEF e, i
<1>4. <<i>> \in Seq(VI!Images) /\ DOMAIN <<i>> = {1} /\ <<i>>[1] = i /\ <<i>> # <<>>
  BY <1>2
<1>5. f \in [VI!Images -> VI!Row] /\ f[i] = e /\ \A k \in VI!Images : f[k].there <=> k = i
  BY <1>2, <1>3, RowTypes DEF VI!Idle, VI!Blank, VI!NoRow
<1> DEFINE l == <<i>>
<1> HIDE DEF l, f
<1>6. /\ r \in VI!Call /\ r.op = "upload" /\ r.list = l /\ r.ent = f /\ r.pc = "store"
      /\ r.del = {} /\ r.todo = {} /\ r.wrote = {}
  <2>1. r = [VI!Idle EXCEPT !.op = "upload", !.list = l, !.ent = f, !.pc = "store"]
    BY DEF f, l, VI!Idle
  <2> QED
    BY ZenonT(30), <1>4, <1>5, <2>1, RowTypes DEF VI!Call, VI!Idle, l
<1> HIDE DEF r
<1>7. Subject(r) = {i} /\ Own(r) = {i} /\ Brings(r) /\ Touched(r) = {i} /\ ToSave(r) = {i}
  <2>1. Subject(r) = {i}
    BY <1>2, <1>5, <1>6 DEF Subject
  <2>2. ToSave(r) = {i}
    BY <1>4, <1>6 DEF ToSave, l
  <2> QED
    BY <1>6, <2>1, <2>2 DEF Own, Brings, Touched
<1>8. Shape(r)
  <2>1. r.pc \in Stages(r.op)
    BY <1>6 DEF Stages
  <2>2. r.list # <<>> /\ \A j, k \in DOMAIN r.list : r.list[j] = r.list[k] => j = k
    BY <1>4, <1>6 DEF l
  <2>3. r.ent[i].there
    BY <1>3, <1>5, <1>6
  <2> QED
    BY <1>6, <1>7, <2>1, <2>2, <2>3 DEF Shape, VI!InTx
<1>9. Linked(r, variant, image, object, used', revived)
  <2>1. ~image[i].there
    BY <1>2 DEF ImagesInv, Stocked, VI!Rows, VI!TypeOK
  <2> QED
    BY <1>1, <1>2, <1>6, <1>7, <2>1 DEF Linked
<1> QED
  <2>1. cleared' \in BOOLEAN
    BY <1>1 DEF ImagesInv, VI!TypeOK
  <2>2. used' \in 0..MaxImages /\ used <= used' /\ \A k \in Own(r) : k > used
    BY <1>1, <1>2, <1>7
  <2>3. \A k \in Touched(r) : k \in Own(r) \/ k \in VI!Rows
    BY <1>7
  <2>4. ~VI!InTx(r)
    BY <1>6 DEF VI!InTx
  <2>5. MarkInv => MarkInv'
    BY <1>1, <1>6, <2>4, ArriveMark
  <2> QED
    BY <1>1, <1>6, <1>8, <1>9, <2>1, <2>2, <2>3, <2>5, ArriveKeeps

\* A call on images that there are.
LEMMA ExistingKeeps ==
  ASSUME ImagesInv, NEW t \in Calls, NEW r \in VI!Call, VI!Arrive(t, r), cleared' \in BOOLEAN, UNCHANGED used,
         VI!Rows # {}, r.op \in {"update", "delete", "reorder"}, r.pc \in {"demote", "compare", "remove"},
         Shape(r), r.wrote = {}, Touched(r) \subseteq VI!Rows
  PROVE  ImagesInv'
<1>1. variant = "there" /\ \A i \in VI!Rows : i <= used
  BY DEF ImagesInv, Stocked
<1>2. Own(r) = {} /\ ~Brings(r)
  BY DEF Own, Brings
<1>3. Linked(r, variant, image, object, used', revived)
  BY <1>1, <1>2 DEF Linked
<1>4. used' \in 0..MaxImages /\ used <= used'
  BY DEF ImagesInv, VI!TypeOK
<1> QED
  BY <1>2, <1>3, <1>4, ArriveKeeps

LEMMA BeginUpdateKeeps ==
  ASSUME ImagesInv, NEW t \in Calls, NEW i \in VI!Images, NEW primary \in {"keep", "yes", "no"}, NEW sort \in Int,
         VI!BeginUpdate(t, i, primary, sort)
  PROVE  ImagesInv' /\ (MarkInv => MarkInv')
<1> DEFINE p == IF primary = "keep" THEN image[i].primary ELSE primary = "yes"
           e == VI!At(sort, p)
           f == [VI!Idle.ent EXCEPT ![i] = e]
           l == <<i>>
           pc == IF p /\ ~image[i].primary THEN "demote" ELSE "compare"
           r == [VI!Idle EXCEPT !.op = "update", !.list = l, !.ent[i] = e, !.pc = pc]
<1>1. /\ i \in VI!Rows /\ VI!Arrive(t, r) /\ cleared' = (cleared \/ primary = "no")
      /\ UNCHANGED used
  BY DEF VI!BeginUpdate
<1>2. e \in VI!Row /\ e.there
  <2>1. p \in BOOLEAN
    BY RowsAre DEF VI!Row
  <2> QED
    BY <2>1, RowTypes DEF VI!At
<1>3. l \in Seq(VI!Images) /\ DOMAIN l = {1} /\ l[1] = i /\ l # <<>>
  OBVIOUS
<1>4. pc \in {"demote", "compare"}
  OBVIOUS
<1> HIDE DEF e, l, pc
<1>5. f \in [VI!Images -> VI!Row] /\ f[i] = e /\ \A k \in VI!Images : f[k].there <=> k = i
  BY <1>2, RowTypes DEF VI!Idle, VI!Blank, VI!NoRow
<1> HIDE DEF f
<1>6. /\ r \in VI!Call /\ r.op = "update" /\ r.list = l /\ r.ent = f /\ r.pc = pc
      /\ r.del = {} /\ r.todo = {} /\ r.wrote = {}
  <2>1. r = [VI!Idle EXCEPT !.op = "update", !.list = l, !.ent = f, !.pc = pc]
    BY DEF f, VI!Idle
  <2> HIDE DEF r
  <2> QED
    BY ONLY <1>3, <1>4, <1>5, <2>1, RowTypes DEF VI!Call, VI!Idle
<1> HIDE DEF r
<1>7. Subject(r) = {i} /\ Touched(r) = {i} /\ ToSave(r) = {i} /\ ~Brings(r)
  <2>1. Subject(r) = {i}
    BY <1>5, <1>6 DEF Subject
  <2>2. ToSave(r) = {i}
    BY <1>3, <1>6 DEF ToSave
  <2> QED
    BY <1>6, <2>1, <2>2 DEF Brings, Touched
<1>8. Shape(r)
  <2>1. r.pc \in Stages(r.op)
    BY <1>4, <1>6 DEF Stages
  <2>2. r.list # <<>> /\ \A j, k \in DOMAIN r.list : r.list[j] = r.list[k] => j = k
    BY <1>3, <1>6
  <2>3. r.ent[i].there
    BY <1>2, <1>5, <1>6
  <2> QED
    BY <1>4, <1>6, <1>7, <2>1, <2>2, <2>3 DEF Shape, VI!InTx
<1> QED
  <2>1. cleared' \in BOOLEAN
    BY <1>1 DEF ImagesInv, VI!TypeOK
  <2>2. ASSUME MarkInv PROVE MarkInv'
    <3>1. r.ent[i].primary <=> p
      <4>1. e.primary = p
        <5> HIDE DEF p
        <5> QED
          BY DEF e, VI!At
      <4> QED
        BY <1>5, <1>6, <4>1
    <3>2. r.ent[i].primary \/ ~image[i].primary \/ cleared'
      BY <1>1, <3>1
    <3>3. r.pc = IF r.ent[i].primary /\ ~image[i].primary THEN "demote" ELSE "compare"
      BY <1>6, <3>1 DEF pc
    <3>4. image[i].there
      BY <1>1 DEF VI!Rows
    <3>5. Well(image, cleared') => Alone(r, variant, image, cleared')
      BY <1>6, <1>7, <3>2, <3>3, <3>4, RowsAre, AloneUpdate
    <3> QED
      BY <1>1, <1>6, <2>2, <3>5, ArriveMark
  <2> QED
    BY <1>1, <1>4, <1>6, <1>7, <1>8, <2>1, <2>2, ExistingKeeps

LEMMA BeginDeleteKeeps ==
  ASSUME ImagesInv, NEW t \in Calls, NEW i \in VI!Images, VI!BeginDelete(t, i)
  PROVE  ImagesInv' /\ (MarkInv => MarkInv')
<1> DEFINE f == [VI!Idle.ent EXCEPT ![i] = image[i]]
           r == [VI!Idle EXCEPT !.op = "delete", !.del = {i}, !.ent[i] = image[i], !.pc = "remove"]
<1>1. i \in VI!Rows /\ VI!Arrive(t, r) /\ UNCHANGED <<used, cleared>>
  BY DEF VI!BeginDelete
<1>2. f \in [VI!Images -> VI!Row] /\ \A k \in VI!Images : f[k].there <=> k = i
  BY <1>1, RowTypes, RowsAre DEF VI!Idle, VI!Blank, VI!NoRow, VI!Rows
<1> HIDE DEF f
<1>3. /\ r \in VI!Call /\ r.op = "delete" /\ r.list = <<>> /\ r.ent = f /\ r.pc = "remove"
      /\ r.del = {i} /\ r.todo = {} /\ r.wrote = {}
  <2>1. r = [VI!Idle EXCEPT !.op = "delete", !.del = {i}, !.ent = f, !.pc = "remove"]
    BY DEF f, VI!Idle
  <2>2. {i} \in SUBSET VI!Images
    OBVIOUS
  <2> HIDE DEF r
  <2> QED
    BY <1>2, <2>1, <2>2, RowTypes DEF VI!Call, VI!Idle
<1> HIDE DEF r
<1>4. Subject(r) = {i} /\ Touched(r) = {i} /\ ToSave(r) = {} /\ ~Brings(r)
  <2>1. Subject(r) = {i}
    BY <1>2, <1>3 DEF Subject
  <2>2. ToSave(r) = {}
    BY <1>3 DEF ToSave
  <2> QED
    BY <1>3, <2>1, <2>2 DEF Brings, Touched
<1>5. Shape(r)
  <2>1. r.pc \in Stages(r.op)
    BY <1>3 DEF Stages
  <2>2. \A j, k \in DOMAIN r.list : r.list[j] = r.list[k] => j = k
    BY <1>3
  <2> QED
    BY <1>3, <1>4, <2>1, <2>2 DEF Shape, VI!InTx
<1> QED
  <2>1. cleared' \in BOOLEAN
    BY <1>1 DEF ImagesInv, VI!TypeOK
  <2>2. ASSUME MarkInv PROVE MarkInv'
    <3>1. i \in There(image) /\ r.ent[i].primary = image[i].primary
      <4>1. f[i] = image[i]
        BY RowTypes DEF f, VI!Idle
      <4> QED
        BY <1>1, <1>3, <4>1, RowsAre
    <3>2. Alone(r, variant, image, cleared')
      BY <1>3, <3>1 DEF Alone, Deleting
    <3> QED
      BY <1>1, <1>3, <2>2, <3>2, ArriveMark
  <2> QED
    BY <1>1, <1>3, <1>4, <1>5, <2>1, <2>2, ExistingKeeps

LEMMA SameCount == \A S : VI!Cardinality(S) = Cardinality(S)
BY DEF VI!Cardinality, Cardinality

LEMMA OrderingIs ==
  ASSUME NEW S, S \subseteq VI!Images, S # {}, NEW s \in VI!Orderings(S)
  PROVE  /\ s \in Seq(VI!Images) /\ s # <<>> /\ \A k \in DOMAIN s : s[k] \in S
         /\ \A j, k \in DOMAIN s : s[j] = s[k] => j = k
<1>1. IsFiniteSet(S)
  BY ImagesFinite, FS_Subset
<1>2. Cardinality(S) \in Nat /\ Cardinality(S) # 0
  BY <1>1, FS_CardinalityType, FS_EmptySet
<1>3. s \in [1..Cardinality(S) -> S] /\ \A j, k \in DOMAIN s : s[j] = s[k] => j = k
  BY SameCount DEF VI!Orderings
<1>4. 1 \in DOMAIN s
  BY <1>2, <1>3
<1> DEFINE n == Cardinality(S)
<1>5. s \in Seq(VI!Images)
  <2>1. s \in [1..n -> VI!Images] /\ n \in Nat
    BY <1>2, <1>3
  <2> HIDE DEF n
  <2> QED
    BY <2>1
<1>6. s # <<>>
  BY <1>4, <1>5
<1> QED
  BY <1>3, <1>5, <1>6

LEMMA BeginReorderKeeps ==
  ASSUME ImagesInv, NEW t \in Calls, VI!BeginReorder(t) PROVE ImagesInv' /\ (MarkInv => MarkInv')
<1>1. PICK s \in VI!Orderings(VI!Rows) :
        VI!Arrive(t, [VI!Idle EXCEPT !.op = "reorder", !.list = s, !.pc = "compare",
          !.ent = [i \in VI!Images |-> IF i \in VI!Rows THEN VI!At(VI!Tidy(s)[i].sort, image[i].primary) ELSE VI!NoRow]])
  BY DEF VI!BeginReorder
<1> DEFINE f == [i \in VI!Images |-> IF i \in VI!Rows THEN VI!At(VI!Tidy(s)[i].sort, image[i].primary) ELSE VI!NoRow]
           r == [VI!Idle EXCEPT !.op = "reorder", !.list = s, !.pc = "compare", !.ent = f]
<1>2. VI!Rows # {} /\ VI!Rows \subseteq VI!Images /\ UNCHANGED <<used, cleared>> /\ VI!Arrive(t, r)
  BY <1>1 DEF VI!BeginReorder, VI!Rows
<1>3. /\ s \in Seq(VI!Images) /\ s # <<>> /\ \A k \in DOMAIN s : s[k] \in VI!Rows
      /\ \A j, k \in DOMAIN s : s[j] = s[k] => j = k
  BY <1>2, OrderingIs
<1>4. f \in [VI!Images -> VI!Row] /\ \A k \in VI!Images : f[k].there <=> k \in VI!Rows
  <2>1. \A i \in VI!Images : VI!Tidy(s)[i].sort \in Int /\ image[i].primary \in BOOLEAN
    BY <1>3, TidyIs, RowsAre DEF VI!Row
  <2>2. ASSUME NEW i \in VI!Images PROVE f[i] \in VI!Row /\ (f[i].there <=> i \in VI!Rows)
    <3>1. CASE i \in VI!Rows
      <4>1. f[i] = VI!At(VI!Tidy(s)[i].sort, image[i].primary)
        BY <3>1
      <4> QED
        BY <2>1, <3>1, <4>1, RowTypes DEF VI!At
    <3>2. CASE i \notin VI!Rows
      <4>1. f[i] = VI!NoRow
        BY <3>2
      <4> QED
        BY <3>2, <4>1, RowTypes DEF VI!NoRow
    <3> QED
      BY <3>1, <3>2
  <2>3. f = [i \in VI!Images |-> f[i]]
    OBVIOUS
  <2> HIDE DEF f
  <2> QED
    BY <2>2, <2>3
<1> HIDE DEF f
<1>5. /\ r \in VI!Call /\ r.op = "reorder" /\ r.list = s /\ r.ent = f /\ r.pc = "compare"
      /\ r.del = {} /\ r.todo = {} /\ r.wrote = {}
  BY <1>3, <1>4, RowTypes DEF VI!Call, VI!Idle
<1> HIDE DEF r
<1>6. Subject(r) = VI!Rows /\ Touched(r) = VI!Rows /\ ToSave(r) \subseteq VI!Rows /\ ~Brings(r)
  <2>1. Subject(r) = VI!Rows
    BY <1>2, <1>4, <1>5 DEF Subject
  <2>2. ToSave(r) \subseteq VI!Rows
    BY <1>3, <1>5 DEF ToSave
  <2> QED
    BY <1>5, <2>1, <2>2 DEF Brings, Touched
<1>7. Shape(r)
  <2>1. r.pc \in Stages(r.op)
    BY <1>5 DEF Stages
  <2>2. \A k \in ToSave(r) : r.ent[k].there
    BY <1>2, <1>4, <1>5, <1>6
  <2>3. r.list # <<>> /\ \A j, k \in DOMAIN r.list : r.list[j] = r.list[k] => j = k
    BY <1>3, <1>5
  <2> QED
    BY <1>5, <1>6, <2>1, <2>2, <2>3 DEF Shape, VI!InTx
<1> QED
  <2>1. cleared' \in BOOLEAN
    BY <1>2 DEF ImagesInv, VI!TypeOK
  <2>2. ASSUME MarkInv PROVE MarkInv'
    <3>1. ASSUME NEW k \in VI!Rows PROVE r.ent[k].primary = image[k].primary
      BY <1>2, <1>5, <3>1 DEF f, VI!At
    <3>2. Alone(r, variant, image, cleared')
      BY <1>5, <1>6, <3>1, RowsAre DEF Alone, Reordering
    <3> QED
      BY <1>2, <1>5, <2>2, <3>2, ArriveMark
  <2> QED
    BY <1>2, <1>5, <1>6, <1>7, <2>1, <2>2, ExistingKeeps

\* Before the variant is created, there is no other call.
LEMMA BeginCreateKeeps ==
  ASSUME ImagesInv, NEW t \in Calls, NEW n \in 0..MaxImages, VI!BeginCreate(t, n)
  PROVE  ImagesInv' /\ (MarkInv => MarkInv')
<1> DEFINE l == VI!Drawn(n)
           f == VI!Tidy(l)
           pc == IF n = 0 THEN "commit" ELSE "store"
           r == [VI!Idle EXCEPT !.op = "create", !.list = l, !.ent = f, !.pc = pc]
<1>1. /\ variant = "none" /\ \A u \in Calls : imageTx[u].op # "create"
      /\ used' = n /\ cleared' = cleared
      /\ imageTx[t].pc = "idle" /\ imageCalls' = imageCalls + 1
      /\ imageTx' = [imageTx EXCEPT ![t] = r]
      /\ overlapped' = (overlapped \/ (VI!InTx(r) /\ VI!Racing(t)))
      /\ UNCHANGED <<variant, image, object, revived, strays, imageAborts>> /\ VI!Arrive(t, r)
  BY DEF VI!BeginCreate, VI!Arrive, VI!db
<1>2. \A u \in Calls : imageTx[u] = VI!Idle
  <2> SUFFICES ASSUME NEW u \in Calls PROVE imageTx[u] = VI!Idle
    OBVIOUS
  <2>1. /\ imageTx[u] \in VI!Call /\ Shape(imageTx[u])
        /\ Linked(imageTx[u], variant, image, object, used, revived)
    BY Held
  <2>2. imageTx[u].op = "none"
    BY <1>1, <2>1 DEF Linked
  <2> QED
    BY <2>1, <2>2, OpOf DEF Shape
<1>3. VI!Rows = {}
  BY <1>1 DEF ImagesInv, Stocked
<1>4. /\ l \in Seq(VI!Images) /\ Len(l) = n /\ DOMAIN l = 1..n /\ (\A k \in 1..n : l[k] = k)
      /\ n \in Nat
  BY DrawnIs
<1>5. f \in [VI!Images -> VI!Row] /\ \A i \in VI!Images : f[i].there <=> \E k \in 1..n : l[k] = i
  <2> HIDE DEF l
  <2> QED
    BY <1>4, TidyIs
<1> HIDE DEF l, f
<1>6. /\ r \in VI!Call /\ r.op = "create" /\ r.list = l /\ r.ent = f /\ r.pc = pc
      /\ r.del = {} /\ r.todo = {} /\ r.wrote = {}
  BY <1>4, <1>5, RowTypes DEF VI!Call, VI!Idle
<1> HIDE DEF r
<1>7. 1..n \subseteq VI!Images
  BY ImagesAssumption DEF VI!Images
<1>8. /\ Subject(r) = 1..n /\ Own(r) = 1..n /\ Touched(r) = 1..n /\ ToSave(r) = 1..n /\ Brings(r)
      /\ Owed(r) = 1..n
  <2>1. Subject(r) = 1..n
    BY <1>4, <1>5, <1>6, <1>7 DEF Subject
  <2>2. ToSave(r) = 1..n
    BY <1>4, <1>6 DEF ToSave
  <2> QED
    BY <1>6, <2>1, <2>2 DEF Own, Brings, Touched, Owed
<1>9. Shape(r)
  <2>1. r.pc \in Stages(r.op)
    BY <1>6 DEF Stages
  <2>2. \A j, k \in DOMAIN r.list : r.list[j] = r.list[k] => j = k
    BY <1>4, <1>6
  <2>3. r.list = <<>> <=> n = 0
    BY <1>4, <1>6
  <2>4. \A k \in ToSave(r) : r.ent[k].there
    BY <1>4, <1>5, <1>6, <1>7, <1>8
  <2> QED
    BY <1>6, <1>8, <2>1, <2>2, <2>3, <2>4 DEF Shape, VI!InTx
<1>10. Linked(r, variant, image, object, used', revived)
  <2>1. \A i \in 1..n : ~image[i].there /\ i <= n
    BY <1>3, <1>4, <1>7 DEF VI!Rows
  <2>2. r.pc # "store" => r.list = <<>>
    BY <1>4, <1>6
  <2> QED
    BY <1>1, <1>6, <1>8, <2>1, <2>2 DEF Linked
<1>11. VI!TypeOK'
  <2>1. overlapped' \in BOOLEAN /\ imageCalls' \in Nat
    BY <1>1 DEF ImagesInv, VI!TypeOK, VI!InTx, VI!Racing
  <2> QED
    BY <1>1, <1>6, <2>1 DEF ImagesInv, VI!TypeOK
<1>12. Stocked'
  <2>1. VI!Rows' = {}
    BY <1>1, <1>3 DEF VI!Rows
  <2>2. \A u \in Calls : Owed(imageTx[u]) = {}
    BY <1>2, IdleShape
  <2> QED
    BY <1>1, <1>3, <2>1, <2>2 DEF ImagesInv, Stocked
<1>13. \A u \in Calls : /\ Linked(imageTx[u], variant, image, object, used', revived)
                        /\ Apart(r, imageTx[u]) /\ Apart(imageTx[u], r)
  BY <1>2, IdleShape DEF Apart
<1>14. ASSUME MarkInv PROVE MarkInv'
  <2>1. \A k \in 1..n : r.ent[k].primary <=> k = 1
    BY <1>6, GalleryIs DEF l, f
  <2>2. Own(r) # {} => 1 \in Own(r)
    BY <1>4, <1>8
  <2>3. Alone(r, variant, image, cleared')
    BY <1>1, <1>6, <1>8, <2>1, <2>2 DEF Alone, Creating
  <2> QED
    BY <1>1, <1>6, <1>14, <2>3, ArriveMark
<1> QED
  BY <1>1, <1>6, <1>9, <1>10, <1>11, <1>12, <1>13, <1>14, CallKeeps

--------------------------------------------------------------------------------
(* Ends of a call.                                                         *)

LEMMA UnlinkKeeps ==
  ASSUME ImagesInv, NEW t \in Calls, VI!Unlink(t) PROVE ImagesInv' /\ (MarkInv => MarkInv')
<1>1. /\ imageTx[t].pc = "unlink" /\ object' = object \ imageTx[t].del
      /\ imageTx' = [imageTx EXCEPT ![t] = VI!Idle]
      /\ UNCHANGED <<variant, image, used, overlapped, cleared, revived, strays, imageCalls, imageAborts>>
  BY DEF VI!Unlink, VI!Deleted, VI!Key, VI!db, VI!history, VI!bounds
<1>2. /\ imageTx[t] \in VI!Call /\ Shape(imageTx[t])
      /\ Linked(imageTx[t], variant, image, object, used, revived)
  BY Held
<1>3. imageTx[t].op = "delete" /\ Own(imageTx[t]) = {} /\ Owed(imageTx[t]) = imageTx[t].del
  BY <1>1, <1>2, OpOf DEF Own, Owed, Brings
<1>4. VI!TypeOK'
  BY <1>1, RowTypes DEF ImagesInv, VI!TypeOK
<1>5. Stocked'
  <2>1. VI!Rows' = VI!Rows
    BY <1>1 DEF VI!Rows
  <2>2. \A u \in Calls : u # t => imageTx'[u] = imageTx[u]
    BY <1>1 DEF ImagesInv, VI!TypeOK
  <2>3. \A i \in VI!Rows \cap imageTx[t].del : i \in revived
    BY <1>1, <1>2 DEF Linked, VI!Rows
  <2>4. \A k \in object' : \A u \in Calls : k \in Owed(imageTx[u]) => k \in Owed(imageTx'[u])
    BY <1>1, <1>3, <2>2
  <2> QED
    BY <1>1, <2>1, <2>3, <2>4 DEF ImagesInv, Stocked
<1>6. ASSUME NEW u \in Calls \ {t}
      PROVE  Linked(imageTx[u], variant, image, object', used, revived) /\ Apart(VI!Idle, imageTx[u]) /\ Apart(imageTx[u], VI!Idle)
  <2>1. /\ imageTx[u] \in VI!Call /\ Shape(imageTx[u])
        /\ Linked(imageTx[u], variant, image, object, used, revived)
        /\ Apart(imageTx[u], imageTx[t])
    BY Held
  <2>2. Own(imageTx[u]) \cap imageTx[t].del = {}
    BY <2>1 DEF Apart, Touched
  <2>3. \A i \in Own(imageTx[u]) : i \in object => i \in object'
    BY <1>1, <2>2
  <2>4. Brings(imageTx[u]) /\ imageTx[u].list # <<>> => Head(imageTx[u].list) \in Own(imageTx[u])
    BY <2>1, HeadIs DEF Own
  <2>5. Linked(imageTx[u], variant, image, object', used, revived)
    BY <2>1, <2>3, <2>4 DEF Linked
  <2> QED
    BY <2>5, IdleShape DEF Apart
<1>7. MarkInv => MarkInv'
  BY <1>1, IdleShape, RowTypes, MarkKeeps
<1> QED
  BY <1>1, <1>4, <1>5, <1>6, <1>7, IdleShape, RowTypes, CallKeeps

LEMMA DropKeeps ==
  ASSUME ImagesInv, NEW t \in Calls, VI!Drop(t), imageCalls' \in Nat, imageAborts' \in Nat
  PROVE  ImagesInv' /\ (MarkInv => MarkInv')
<1>1. /\ imageTx' = [imageTx EXCEPT ![t] = VI!Idle] /\ strays' = TRUE
      /\ UNCHANGED <<variant, image, object, used, overlapped, cleared, revived>>
  BY DEF VI!Drop, VI!db
<1>2. VI!TypeOK'
  BY <1>1, RowTypes DEF ImagesInv, VI!TypeOK
<1>3. Stocked'
  <2>1. VI!Rows' = VI!Rows
    BY <1>1 DEF VI!Rows
  <2> QED
    BY <1>1, <2>1 DEF ImagesInv, Stocked
<1>4. \A u \in Calls : /\ Linked(imageTx[u], variant, image, object, used, revived)
                       /\ Apart(VI!Idle, imageTx[u]) /\ Apart(imageTx[u], VI!Idle)
  BY Held, IdleShape DEF Apart
<1>5. MarkInv => MarkInv'
  BY <1>1, IdleShape, RowTypes, MarkKeeps
<1> QED
  BY <1>1, <1>2, <1>3, <1>4, <1>5, IdleShape, RowTypes, CallKeeps

LEMMA DeleteVariantKeeps ==
  ASSUME ImagesInv, VI!DeleteVariant
  PROVE  ImagesInv' /\ (MarkInv => MarkInv')
<1>1. /\ variant = "there" /\ (\A t \in Calls : imageTx[t].wrote = {})
      /\ variant' = "gone" /\ image' = VI!Blank /\ strays' = TRUE
      /\ UNCHANGED <<object, used, imageTx, overlapped, cleared, revived, imageCalls, imageAborts>>
  BY DEF VI!DeleteVariant, VI!bounds
<1>2. VI!TypeOK'
  BY <1>1, RowTypes DEF ImagesInv, VI!TypeOK
<1>3. \A i \in VI!Images : ~image'[i].there
  BY <1>1 DEF VI!Blank, VI!NoRow
<1>4. Stocked'
  <2>1. VI!Rows' = {}
    BY <1>3 DEF VI!Rows
  <2> QED
    BY <1>1, <2>1 DEF Stocked
<1>5. ASSUME NEW t \in Calls PROVE Linked(imageTx[t], variant', image', object, used, revived)
  <2>1. /\ imageTx[t] \in VI!Call /\ Shape(imageTx[t])
        /\ Linked(imageTx[t], variant, image, object, used, revived)
    BY Held
  <2>2. Own(imageTx[t]) \subseteq VI!Images /\ imageTx[t].del \subseteq VI!Images
    BY <2>1 DEF Own, Subject, VI!Call
  <2> QED
    BY <1>1, <1>3, <2>1, <2>2 DEF Linked
<1>6. ASSUME MarkInv PROVE MarkInv'
  <2>1. There(image') = {}
    BY <1>3 DEF There
  <2>2. Well(image', cleared')
    BY <2>1 DEF Well, Marks
  <2>3. ASSUME NEW t \in Calls PROVE Alone(imageTx[t], variant', image', cleared')
    <3>1. imageTx[t].op # "create"
      BY <1>1, Held DEF Linked
    <3> QED
      BY <1>1, <3>1 DEF Alone
  <2> QED
    BY <1>1, <1>6, <2>2, <2>3 DEF MarkInv
<1> QED
  BY <1>1, <1>2, <1>4, <1>5, <1>6 DEF ImagesInv, OneCreate

--------------------------------------------------------------------------------
(* The end of a transaction.                                               *)

\* What the tables are after a commit.
LEMMA CommitIs ==
  ASSUME ImagesInv, NEW t \in Calls, VI!Commit(t)
  PROVE  /\ imageTx[t] \in VI!Call /\ Shape(imageTx[t]) /\ Linked(imageTx[t], variant, image, object, used, revived)
         /\ imageTx[t].pc = "commit" /\ imageTx[t].op # "none" /\ ToSave(imageTx[t]) = {}
         /\ image' \in [VI!Images -> VI!Row] /\ image' = Sees(imageTx[t], image)
         /\ \A i \in VI!Images : image'[i] = IF i \in imageTx[t].wrote THEN imageTx[t].w[i] ELSE image[i]
         /\ variant' = IF imageTx[t].op = "create" THEN "there" ELSE variant
         /\ variant # "none" <=> imageTx[t].op # "create"
         /\ \A i \in VI!Images : image'[i].there => i <= used /\ (i \in object \/ i \in revived')
         /\ \A i \in imageTx[t].wrote : image'[i].there /\ ~image[i].there => i \in Own(imageTx[t]) \/ i \in revived'
<1>1. /\ imageTx[t].pc = "commit" /\ image' = [i \in VI!Images |-> VI!View(t, i)]
      /\ variant' = (IF imageTx[t].op = "create" THEN "there" ELSE variant)
      /\ revived' = revived \cup VI!Again(t)
  BY DEF VI!Commit
<1>2. /\ imageTx[t] \in VI!Call /\ Shape(imageTx[t])
      /\ Linked(imageTx[t], variant, image, object, used, revived)
  BY Held
<1>3. imageTx[t].op # "none" /\ imageTx[t].list = <<>>
  BY <1>1, <1>2, OpOf DEF Shape
<1>4. ToSave(imageTx[t]) = {}
  BY <1>3 DEF ToSave
<1>5. image' \in [VI!Images -> VI!Row] /\ image' = Sees(imageTx[t], image)
  <2>1. \A i \in VI!Images : VI!View(t, i) \in VI!Row /\ VI!View(t, i) = Sees(imageTx[t], image)[i]
    BY RowsAre
  <2>2. Sees(imageTx[t], image) = [i \in VI!Images |-> Sees(imageTx[t], image)[i]]
    BY DEF Sees
  <2> QED
    BY <1>1, <2>1, <2>2
<1>6. \A i \in VI!Images : image'[i] = IF i \in imageTx[t].wrote THEN imageTx[t].w[i] ELSE image[i]
  BY <1>1 DEF VI!View
<1>7. variant # "none" <=> imageTx[t].op # "create"
  BY <1>2, <1>3 DEF Linked
<1>8. ASSUME NEW i \in imageTx[t].wrote, image'[i].there, ~image[i].there
      PROVE  i \in Own(imageTx[t]) \/ i \in revived'
  <2>1. i \in VI!Images /\ imageTx[t].w[i].there
    BY <1>2, <1>6, <1>8 DEF VI!Call
  <2>2. CASE Brings(imageTx[t])
    BY <1>2, <1>8, <2>2 DEF Linked
  <2>3. CASE ~Brings(imageTx[t])
    BY <1>1, <1>8, <2>1, <2>3 DEF VI!Again, Brings
  <2> QED
    BY <2>2, <2>3
<1>9. ASSUME NEW i \in VI!Images, image'[i].there
      PROVE  i <= used /\ (i \in object \/ i \in revived')
  <2>1. CASE image[i].there
    BY <1>1, <2>1 DEF ImagesInv, Stocked, VI!Rows
  <2>2. CASE ~image[i].there
    <3>1. i \in imageTx[t].wrote
      BY <1>6, <1>9, <2>2
    <3>2. i \in Own(imageTx[t]) \/ i \in revived'
      BY <1>8, <1>9, <2>2, <3>1
    <3>3. i \in Own(imageTx[t]) => i \in object
      BY <1>2, <3>1 DEF Linked, Own
    <3>4. i <= used
      BY <1>2, <3>1 DEF Linked, Touched
    <3> QED
      BY <3>2, <3>3, <3>4
  <2> QED
    BY <2>1, <2>2
<1> QED
  BY <1>1, <1>2, <1>3, <1>4, <1>5, <1>6, <1>7, <1>8, <1>9

LEMMA CommitKeeps ==
  ASSUME ImagesInv, NEW t \in Calls, VI!Commit(t) PROVE ImagesInv' /\ (MarkInv => MarkInv')
<1> DEFINE D == IF imageTx[t].op = "delete" THEN imageTx[t].del ELSE {}
           q == [VI!Idle EXCEPT !.op = "delete", !.del = imageTx[t].del, !.pc = "unlink"]
           r == IF imageTx[t].op = "delete" THEN q ELSE VI!Idle
<1>1. /\ imageTx' = [imageTx EXCEPT ![t] = r] /\ revived \subseteq revived'
      /\ revived' = revived \cup VI!Again(t)
      /\ UNCHANGED <<object, used, overlapped, cleared, strays, imageCalls, imageAborts>>
  BY DEF VI!Commit, VI!bounds
<1>2. /\ imageTx[t] \in VI!Call /\ Shape(imageTx[t])
      /\ Linked(imageTx[t], variant, image, object, used, revived)
      /\ imageTx[t].pc = "commit" /\ imageTx[t].op # "none" /\ ToSave(imageTx[t]) = {}
      /\ image' \in [VI!Images -> VI!Row] /\ image' = Sees(imageTx[t], image)
      /\ \A i \in VI!Images : image'[i] = IF i \in imageTx[t].wrote THEN imageTx[t].w[i] ELSE image[i]
      /\ variant' = IF imageTx[t].op = "create" THEN "there" ELSE variant
      /\ variant # "none" <=> imageTx[t].op # "create"
      /\ \A i \in VI!Images : image'[i].there => i <= used /\ (i \in object \/ i \in revived')
      /\ \A i \in imageTx[t].wrote : image'[i].there /\ ~image[i].there => i \in Own(imageTx[t]) \/ i \in revived'
  BY CommitIs
<1>3. /\ r \in VI!Call /\ Own(r) = {} /\ Touched(r) = D /\ r.wrote = {} /\ r.op # "create"
      /\ Shape(r)
      /\ D \subseteq imageTx[t].wrote /\ (\A i \in D : ~image'[i].there)
      /\ (r.pc = "unlink" => r.del = D)
      /\ (r.op # "none" => imageTx[t].op # "create") /\ Owed(r) = D /\ ~Brings(r)
      /\ ~VI!InTx(r)
  <2>1. CASE imageTx[t].op = "delete"
    <3>1. /\ q \in VI!Call /\ q.op = "delete" /\ q.del = D /\ q.pc = "unlink" /\ q.wrote = {}
          /\ q.todo = {}
          /\ q.list = <<>> /\ q.ent = VI!Blank
      BY <1>2, <2>1, RowTypes DEF VI!Call, VI!Idle
    <3> HIDE DEF q
    <3>2. Subject(q) = {} /\ ~Brings(q) /\ ToSave(q) = {}
      BY <3>1 DEF Subject, VI!Blank, VI!NoRow, Brings, ToSave
    <3>3. Own(q) = {} /\ Touched(q) = D /\ Owed(q) = D
      BY <3>1, <3>2 DEF Own, Touched, Owed
    <3>4. Shape(q)
      <4>1. q.pc \in Stages(q.op)
        BY <3>1 DEF Stages
      <4>2. \A i, j \in D : i = j
        BY <1>2, <2>1 DEF Shape
      <4>3. \A j, k \in DOMAIN q.list : q.list[j] = q.list[k] => j = k
        BY <3>1
      <4> QED
        BY <3>1, <3>2, <3>3, <4>1, <4>2, <4>3 DEF Shape, VI!InTx
    <3>5. D \subseteq imageTx[t].wrote /\ \A i \in D : ~image'[i].there
      BY <1>2, <2>1 DEF Shape, VI!Call
    <3> QED
      BY <2>1, <3>1, <3>2, <3>3, <3>4, <3>5 DEF VI!InTx
  <2>2. CASE imageTx[t].op # "delete"
    BY <2>2, IdleShape, RowTypes DEF Brings
  <2> QED
    BY <2>1, <2>2
<1> HIDE DEF r, D
<1>4. VI!TypeOK'
  <2>1. variant' \in {"none", "there", "gone"}
    BY <1>2 DEF ImagesInv, VI!TypeOK
  <2>2. revived' \in SUBSET VI!Images
    BY <1>1, <1>2 DEF ImagesInv, VI!TypeOK, VI!Again, VI!Call
  <2> QED
    BY <1>1, <1>2, <1>3, <2>1, <2>2 DEF ImagesInv, VI!TypeOK
<1>5. \A i \in VI!Images : i \in VI!Rows' <=> image'[i].there
  BY DEF VI!Rows
<1>6. VI!Rows' \subseteq VI!Images
  BY DEF VI!Rows
<1>7. Stocked'
  <2>1. variant' # "there" => VI!Rows' = {}
    <3> SUFFICES ASSUME variant' # "there", NEW i \in VI!Rows' PROVE FALSE
      OBVIOUS
    <3>1. variant = "gone" /\ VI!Rows = {}
      BY <1>2 DEF ImagesInv, Stocked, VI!TypeOK
    <3>2. i \in VI!Images /\ image'[i].there
      BY <1>5, <1>6
    <3>3. ~image[i].there
      BY <3>1, <3>2 DEF VI!Rows
    <3> QED
      BY <1>2, <3>1, <3>2, <3>3 DEF Linked
  <2>2. ASSUME ~strays', NEW k \in object'
        PROVE  k \in VI!Rows' \/ \E u \in Calls : k \in Owed(imageTx'[u])
    <3>1. imageTx'[t] = r /\ \A u \in Calls : u # t => imageTx'[u] = imageTx[u]
      BY <1>1 DEF ImagesInv, VI!TypeOK
    <3>2. k \in VI!Rows \/ \E u \in Calls : k \in Owed(imageTx[u])
      BY <1>1, <2>2 DEF ImagesInv, Stocked
    <3>3. k \in VI!Images
      BY <1>1, <2>2 DEF ImagesInv, VI!TypeOK
    <3>4. \A i \in imageTx[t].wrote : image'[i].there \/ i \in D
      BY <1>2 DEF Shape, D, VI!Call
    <3>5. CASE k \in VI!Rows
      BY <1>2, <1>3, <1>5, <3>1, <3>3, <3>4, <3>5 DEF VI!Rows
    <3>6. CASE k \in Owed(imageTx[t])
      <4>1. k \in Own(imageTx[t]) /\ Brings(imageTx[t])
        BY <1>2, <3>6 DEF Owed, Own
      <4>2. k \in imageTx[t].wrote
        BY <1>2, <4>1 DEF Shape
      <4> QED
        BY <1>3, <1>5, <3>1, <3>3, <3>4, <4>2
    <3>7. CASE \E u \in Calls \ {t} : k \in Owed(imageTx[u])
      BY <3>1, <3>7
    <3> QED
      BY <3>2, <3>5, <3>6, <3>7
  <2> QED
    BY <1>1, <1>2, <1>5, <1>6, <2>1, <2>2 DEF Stocked
<1>8. Linked(r, variant', image', object', used', revived')
  <2>1. r.op # "none" => variant' # "none"
    BY <1>2, <1>3
  <2>2. \A i \in Touched(r) : i <= used'
    BY <1>1, <1>2, <1>3 DEF Linked, Touched
  <2> QED
    BY <1>3, <2>1, <2>2 DEF Linked
<1>9. ASSUME NEW u \in Calls \ {t}
      PROVE  Linked(imageTx[u], variant', image', object', used', revived') /\ Apart(r, imageTx[u]) /\ Apart(imageTx[u], r)
  <2>1. /\ imageTx[u] \in VI!Call /\ Shape(imageTx[u])
        /\ Linked(imageTx[u], variant, image, object, used, revived)
        /\ Apart(imageTx[t], imageTx[u]) /\ Apart(imageTx[u], imageTx[t])
    BY Held
  <2>2. imageTx[t].op = "create" => imageTx[u].op = "none"
    BY <1>2, <2>1 DEF Linked, ImagesInv, OneCreate
  <2>3. imageTx[u].op = "create" => imageTx[u].op = "create" /\ variant' = "none"
    BY <1>2, <2>1, <2>2 DEF Linked
  <2>4. \A i \in Own(imageTx[u]) : ~image'[i].there
    <3>1. \A i \in Own(imageTx[u]) : i \notin imageTx[t].wrote /\ i \in VI!Images
      BY <2>1 DEF Apart, Touched, Own, Subject
    <3> QED
      BY <1>2, <2>1, <3>1 DEF Linked
  <2>5. \A i \in imageTx[u].wrote : image[i].there => image'[i].there
    BY <1>2, <2>1 DEF Apart, VI!Call
  <2>6. imageTx[u].pc = "unlink" => \A i \in imageTx[u].del : image'[i].there => i \in revived'
    <3> SUFFICES ASSUME imageTx[u].pc = "unlink", NEW i \in imageTx[u].del, image'[i].there PROVE i \in revived'
      OBVIOUS
    <3>1. i \in VI!Images /\ (image[i].there => i \in revived)
      BY <2>1 DEF Linked, VI!Call
    <3>2. i \notin Own(imageTx[t])
      BY <2>1 DEF Apart, Touched
    <3> QED
      BY <1>1, <1>2, <3>1, <3>2
  <2>7. Linked(imageTx[u], variant', image', object', used', revived')
    BY <1>1, <1>2, <2>1, <2>2, <2>3, <2>4, <2>5, <2>6 DEF Linked
  <2>8. Own(imageTx[u]) \cap Touched(r) = {}
    BY <1>3, <2>1 DEF Apart, Touched
  <2> QED
    BY <1>3, <2>7, <2>8 DEF Apart
<1>10. ASSUME MarkInv PROVE MarkInv'
  <2> SUFFICES ASSUME ~overlapped' PROVE MarkInv'
    BY DEF MarkInv
  <2>1. VI!InTx(imageTx[t]) /\ ~VI!InTx(r)
    BY <1>2, <1>3 DEF VI!InTx
  <2>2. /\ Well(image, cleared) /\ Alone(imageTx[t], variant, image, cleared) /\ \A u \in Calls \ {t} : ~VI!InTx(imageTx[u])
    BY <1>1, <1>10, <2>1 DEF MarkInv
  <2>3. Well(image', cleared')
    <3>1. variant \in {"none", "there", "gone"} /\ (variant # "there" => There(image) = {})
      BY RowsAre DEF ImagesInv, VI!TypeOK, Stocked
    <3> QED
      BY <1>1, <1>2, <2>2, <3>1, RowsAre, AloneCommit
  <2>4. \A u \in Calls : imageTx'[u] = IF u = t THEN r ELSE imageTx[u]
    BY <1>1 DEF ImagesInv, VI!TypeOK
  <2>5. \A u \in Calls : ~VI!InTx(imageTx'[u])
    BY <2>1, <2>2, <2>4
  <2> QED
    BY <2>3, <2>5 DEF MarkInv
<1> QED
  BY <1>1, <1>3, <1>4, <1>7, <1>8, <1>9, <1>10, CallKeeps

LEMMA ImagesNext == ASSUME ImagesInv, [VI!Next]_VI!vars PROVE ImagesInv' /\ (MarkInv => MarkInv')
<1>1. CASE UNCHANGED VI!vars
  <2>1. UNCHANGED <<variant, image, object, used, imageTx, overlapped, cleared, revived, strays, imageCalls, imageAborts>>
    BY <1>1 DEF VI!vars, VI!db, VI!history, VI!bounds
  <2>2. VI!TypeOK' /\ Stocked' /\ OneCreate'
    BY <2>1 DEF ImagesInv, VI!TypeOK, Stocked, VI!Rows, OneCreate
  <2> QED
    BY <2>1, <2>2 DEF ImagesInv, MarkInv
<1>2. CASE VI!DeleteVariant
  BY <1>2, DeleteVariantKeeps
<1>3. ASSUME NEW t \in Calls, VI!Begin(t) PROVE ImagesInv' /\ (MarkInv => MarkInv')
  <2>1. ASSUME NEW i \in VI!Images PROVE image[i].sort \in Int
    BY RowsAre DEF VI!Row
  <2> QED
    BY <1>3, <2>1, ImagesAssumption, BeginCreateKeeps, BeginUploadKeeps, BeginReorderKeeps,
       BeginUpdateKeeps, BeginDeleteKeeps DEF VI!Begin
<1>4. ASSUME NEW t \in Calls, VI!Run(t) PROVE ImagesInv' /\ (MarkInv => MarkInv')
  <2>1. ASSUME VI!Refused(t) PROVE ImagesInv' /\ (MarkInv => MarkInv')
    BY <2>1, DropKeeps DEF VI!Refused, VI!bounds, ImagesInv, VI!TypeOK
  <2> QED
    BY <1>4, <2>1, StoreKeeps, OpenKeeps, StartDemotionKeeps, RemoveKeeps, PromoteKeeps,
       CompareKeeps,
       WriteKeeps, CommitKeeps, UnlinkKeeps, DemoteKeeps DEF VI!Run
<1>5. ASSUME NEW t \in Calls, VI!Abort(t) PROVE ImagesInv' /\ (MarkInv => MarkInv')
  BY <1>5, DropKeeps DEF VI!Abort, ImagesInv, VI!TypeOK
<1> QED
  BY <1>1, <1>2, <1>3, <1>4, <1>5 DEF VI!Next

\* An image that is shown has its object in the storage, whatever uploads, updates,
\* deletions and reorderings overlap or fail, unless a stale save put it back; and
\* an object that stays belongs to an image or to a call under way, unless a call
\* failed half way (uploadImage, createWithImages, deleteImage).
THEOREM ImagesAndObjects == VI!Spec => []ObjectsMatch
<1>1. ImagesInv => ObjectsMatch
  <2> SUFFICES ASSUME ImagesInv PROVE ObjectsMatch
    OBVIOUS
  <2>1. (\A t \in Calls : imageTx[t].pc = "idle") => \A t \in Calls : Owed(imageTx[t]) = {}
    BY Held, IdleShape DEF Shape
  <2> QED
    BY <2>1 DEF ImagesInv, Stocked, ObjectsMatch, VI!ObjectsMatch, VI!Key
<1> QED
  BY <1>1, ImagesInit, ImagesNext, PTL DEF VI!Spec

\* A variant with images has exactly one primary image for as long as its
\* transactions do not overlap and nobody takes the mark away (the demotion in
\* uploadImage and updateImage, the promotion in deleteImage).
THEOREM MarkOnOne == VI!Spec => []OnePrimary
<1>1. ASSUME ImagesInv, MarkInv PROVE OnePrimary
  <2>1. There(image) = VI!Rows /\ \A i \in VI!Rows : i \in Marks(image) <=> image[i].primary
    BY <1>1, RowsAre DEF Marks
  <2>2. Marks(image) \subseteq VI!Rows
    BY <2>1 DEF Marks
  <2> QED
    BY <1>1, <2>1, <2>2 DEF MarkInv, Well, OnePrimary, VI!OnePrimary
<1> QED
  BY <1>1, ImagesInit, ImagesNext, PTL DEF VI!Spec

--------------------------------------------------------------------------------
(* Categories.                                                             *)

\* A parent is no category or one that has been stored.
Known(p, R) == p = NoCategory \/ (p \in Categories /\ R[p].there)
Rooted(R) == \A c \in Categories : IF R[c].there THEN Known(R[c].parent, R) ELSE R[c].parent = NoCategory

\* A rename may bring a category back under the parent that it has loaded.
Renames(r, c) == r.op = "update" /\ ~r.moves /\ r.id = c
Nodes(R, x) == { c \in Categories : (R[c].there /\ ~R[c].deleted) \/ \E u \in Calls : Renames(x[u], c) }
Leads(R, x, c, S) == \/ R[c].parent \in S
                     \/ \E u \in Calls : Renames(x[u], c) /\ x[u].ent.parent \in S

\* Whoever goes from parent to parent leaves every set of categories.
NoTrap(R, x) == \A S \in SUBSET Nodes(R, x) : S # {} => \E c \in S : ~Leads(R, x, c, S)

\* What a call is like and what it rests on in the table.
Tended(r, R) ==
  /\ r.pc = "idle" => r = CT!Idle
  /\ r.pc # "idle" => r.op # "none" /\ r.id \in Categories
  /\ r.op = "create" => r.pc \in {"save", "write", "commit"} /\ ~R[r.id].there
  /\ r.op \in {"update", "delete"} => R[r.id].there
  /\ r.op # "update" => ~r.moves
  /\ r.op = "delete" => r.pc \in {"remove", "commit"}
  /\ r.op \in {"create", "update"} => r.pc # "remove" /\ r.ent.there /\ Known(r.ent.parent, R)
  /\ r.pc \in {"walk", "move"} => r.moves
  /\ r.pc = "write" /\ r.op = "create" => "there" \in r.cols
  /\ r.pc # "commit" => r.wrote = {}
  /\ r.op # "delete" => r.wrote \subseteq {r.id}
  /\ \A c \in r.wrote :
       /\ r.w[c].there /\ Known(r.w[c].parent, R)
       /\ r.op # "create" => R[c].there
       /\ r.op # "delete" => r.w[c].parent \in {R[c].parent, r.ent.parent}
       /\ r.op = "delete" => r.w[c].parent \in {R[c].parent, NoCategory} /\ (R[c].deleted => r.w[c].deleted)

\* A call that moves a category has met the ancestors of its new parent, as they
\* are, up to the one it reads next, and not the category itself.
Climbed(r, R) ==
  LET ahead == IF r.pc = "walk" THEN {r.at, NoCategory} ELSE {NoCategory}
  IN  /\ r.id \in Categories /\ ~R[r.id].deleted /\ r.id \notin r.visited
      /\ r.to \in r.visited \cup ahead
      /\ r.pc = "walk" => r.at = r.to \/ Known(r.at, R)
      /\ \A v \in r.visited : R[v].there /\ (R[v].deleted \/ R[v].parent \in r.visited \cup ahead)
      /\ r.pc \in {"save", "write", "commit"} => r.ent.parent = r.to

\* Two calls neither write one row nor create one category.
Separate(r, s) == r.wrote \cap s.wrote = {} /\ (r.op = "create" => s.id # r.id)

TreeInv ==
  /\ CT!TypeOK
  /\ \A t \in Calls : treeTx[t].pc = "idle" \/ treeTx[t].id \in Categories
  /\ ~meddled => /\ Rooted(cat) /\ NoTrap(cat, treeTx)
                 /\ \A t \in Calls : /\ Tended(treeTx[t], cat)
                                     /\ treeTx[t].moves => Climbed(treeTx[t], cat)
                 /\ \A t, u \in Calls : t # u => Separate(treeTx[t], treeTx[u])

LEMMA TreeTypes ==
  /\ CT!NoRow \in CT!Row /\ CT!Idle \in CT!Call
  /\ CT!NoRow = [there |-> FALSE, parent |-> NoCategory, deleted |-> FALSE]
  /\ DOMAIN CT!NoRow = {"there", "parent", "deleted"}
  /\ CT!Idle.pc = "idle" /\ CT!Idle.op = "none" /\ ~CT!Idle.moves /\ CT!Idle.wrote = {} /\ CT!Idle.id = NoCategory
  /\ CT!Idle.visited = {} /\ CT!Idle.to = NoCategory
BY DEF CT!NoRow, CT!Row, CT!Idle, CT!Call

LEMMA IdleTended == ASSUME NEW R PROVE Tended(CT!Idle, R)
BY TreeTypes DEF Tended

LEMMA CategoryOf ==
  ASSUME CT!TypeOK, NEW c \in Categories
  PROVE  /\ cat[c] \in CT!Row /\ cat[c].there \in BOOLEAN /\ cat[c].deleted \in BOOLEAN
         /\ cat[c].parent \in Categories \cup {NoCategory}
BY DEF CT!TypeOK, CT!Row

LEMMA CallOf == ASSUME CT!TypeOK, NEW t \in Calls PROVE treeTx[t] \in CT!Call
BY DEF CT!TypeOK

\* Fewer ways from category to category lead into no more traps.
LEMMA FewerWays ==
  ASSUME NEW R, NEW x, NEW Q, NEW y, NoTrap(R, x), Nodes(Q, y) \subseteq Nodes(R, x),
         \A S \in SUBSET Nodes(Q, y) : \A c \in S : Leads(Q, y, c, S) => Leads(R, x, c, S)
  PROVE  NoTrap(Q, y)
<1> SUFFICES ASSUME NEW S \in SUBSET Nodes(Q, y), S # {} PROVE \E c \in S : ~Leads(Q, y, c, S)
  BY DEF NoTrap
<1>1. S \in SUBSET Nodes(R, x)
  OBVIOUS
<1>2. \E c \in S : ~Leads(R, x, c, S)
  BY <1>1 DEF NoTrap
<1> QED
  BY <1>2

\* The step of a call that changes no row.
LEMMA TreeStep ==
  ASSUME TreeInv, NEW t \in Calls, NEW r \in CT!Call, treeTx' = [treeTx EXCEPT ![t] = r],
         UNCHANGED <<cat, meddled>>, treeCalls' \in Nat, treeAborts' \in Nat,
         r.pc = "idle" \/ r.id \in Categories,
         ~meddled => /\ Tended(r, cat) /\ (r.moves => Climbed(r, cat))
                     /\ \A u \in Calls \ {t} : Separate(r, treeTx[u]) /\ Separate(treeTx[u], r)
                     /\ \A c \in Categories : Renames(r, c) =>
                          \/ cat[c].there /\ ~cat[c].deleted /\ r.ent.parent = cat[c].parent
                          \/ Renames(treeTx[t], c) /\ r.ent.parent = treeTx[t].ent.parent
  PROVE  TreeInv'
<1>1. \A u \in Calls : treeTx'[u] = IF u = t THEN r ELSE treeTx[u]
  BY DEF TreeInv, CT!TypeOK
<1>2. CT!TypeOK' /\ \A u \in Calls : treeTx'[u].pc = "idle" \/ treeTx'[u].id \in Categories
  BY <1>1 DEF TreeInv, CT!TypeOK
<1> SUFFICES ASSUME ~meddled PROVE TreeInv'
  BY <1>2 DEF TreeInv
<1>3. Nodes(cat, treeTx') \subseteq Nodes(cat, treeTx)
  <2> SUFFICES ASSUME NEW c \in Categories, NEW u \in Calls, Renames(treeTx'[u], c)
               PROVE c \in Nodes(cat, treeTx)
    BY DEF Nodes
  <2>1. CASE u = t
    BY <1>1, <2>1 DEF Nodes
  <2>2. CASE u # t
    BY <1>1, <2>2 DEF Nodes
  <2> QED
    BY <2>1, <2>2
<1>4. ASSUME NEW S \in SUBSET Nodes(cat, treeTx'), NEW c \in S, Leads(cat, treeTx', c, S)
      PROVE  Leads(cat, treeTx, c, S)
  <2> SUFFICES ASSUME NEW u \in Calls, Renames(treeTx'[u], c), treeTx'[u].ent.parent \in S
               PROVE Leads(cat, treeTx, c, S)
    BY <1>4 DEF Leads
  <2>1. c \in Categories
    BY DEF Nodes
  <2>2. CASE u = t
    BY <1>1, <2>1, <2>2 DEF Leads
  <2>3. CASE u # t
    BY <1>1, <2>3 DEF Leads
  <2> QED
    BY <2>2, <2>3
<1>5. NoTrap(cat, treeTx')
  BY <1>3, <1>4, FewerWays DEF TreeInv
<1>6. \A u \in Calls : Tended(treeTx'[u], cat) /\ (treeTx'[u].moves => Climbed(treeTx'[u], cat))
  BY <1>1 DEF TreeInv
<1>7. \A u, v \in Calls : u # v => Separate(treeTx'[u], treeTx'[v])
  BY <1>1 DEF TreeInv
<1> QED
  BY <1>2, <1>5, <1>6, <1>7 DEF TreeInv

\* A call that goes on with its operation, its category and its entity.
LEMMA GoesOn ==
  ASSUME TreeInv, NEW t \in Calls, NEW x, x = treeTx[t], NEW r \in CT!Call, CT!Step(t, r),
         x.pc # "idle", r.id = x.id,
         ~meddled => /\ r.op = x.op /\ r.moves = x.moves
                     /\ ~x.moves => r.ent = x.ent
                     /\ Tended(r, cat) /\ (r.moves => Climbed(r, cat))
                     /\ \A u \in Calls \ {t} : r.wrote \cap treeTx[u].wrote = {}
  PROVE  TreeInv'
<1>1. treeTx' = [treeTx EXCEPT ![t] = r] /\ UNCHANGED <<cat, meddled, treeCalls, treeAborts>>
  BY DEF CT!Step
<1>2. treeCalls' \in Nat /\ treeAborts' \in Nat
  BY <1>1 DEF TreeInv, CT!TypeOK
<1>3. ASSUME ~meddled, NEW u \in Calls \ {t} PROVE Separate(r, treeTx[u]) /\ Separate(treeTx[u], r)
  BY <1>3 DEF TreeInv, Separate
<1>4. ASSUME ~meddled, NEW c \in Categories, Renames(r, c)
      PROVE  Renames(x, c) /\ r.ent.parent = x.ent.parent
  BY <1>4 DEF Renames
<1> QED
  BY <1>1, <1>2, <1>3, <1>4, TreeStep DEF TreeInv

LEMMA CallEnds ==
  ASSUME TreeInv, NEW t \in Calls, treeTx' = [treeTx EXCEPT ![t] = CT!Idle],
         UNCHANGED <<cat, meddled>>, treeCalls' \in Nat, treeAborts' \in Nat
  PROVE  TreeInv'
<1>1. ASSUME ~meddled, NEW u \in Calls \ {t} PROVE Separate(CT!Idle, treeTx[u]) /\ Separate(treeTx[u], CT!Idle)
  <2>1. treeTx[u].op = "create" => treeTx[u].id \in Categories
    BY <1>1, TreeTypes DEF TreeInv, Tended
  <2> QED
    BY <2>1, TreeTypes, TreeAssumption DEF Separate
<1>2. \A c \in Categories : ~Renames(CT!Idle, c)
  BY TreeTypes DEF Renames
<1> QED
  BY <1>1, <1>2, IdleTended, TreeTypes, TreeStep

LEMMA CallArrives ==
  ASSUME TreeInv, NEW t \in Calls, NEW r \in CT!Call, CT!Arrive(t, r), r.wrote = {}, r.op # "create",
         r.id \in Categories,
         ~meddled => /\ Tended(r, cat) /\ (r.moves => Climbed(r, cat))
                     /\ cat[r.id].there /\ ~cat[r.id].deleted
                     /\ r.op = "update" => r.ent = cat[r.id]
  PROVE  TreeInv'
<1>1. treeTx' = [treeTx EXCEPT ![t] = r] /\ UNCHANGED <<cat, meddled>> /\ treeCalls' \in Nat /\ treeAborts' \in Nat
  BY DEF CT!Arrive, TreeInv, CT!TypeOK
<1>2. ASSUME ~meddled, NEW u \in Calls \ {t} PROVE Separate(r, treeTx[u]) /\ Separate(treeTx[u], r)
  <2>1. treeTx[u].op = "create" => ~cat[treeTx[u].id].there
    BY <1>2 DEF TreeInv, Tended
  <2> QED
    BY <1>2, <2>1 DEF Separate
<1>3. ASSUME ~meddled, NEW c \in Categories, Renames(r, c)
      PROVE  cat[c].there /\ ~cat[c].deleted /\ r.ent.parent = cat[c].parent
  BY <1>3 DEF Renames
<1> QED
  BY <1>1, <1>2, <1>3, TreeStep

LEMMA BeginCreateTree ==
  ASSUME TreeInv, NEW t \in Calls, NEW c \in Categories, NEW p \in Categories \cup {NoCategory}, CT!BeginCreate(t, c, p)
  PROVE  TreeInv'
<1>1. PICK e : e = [there |-> TRUE, parent |-> p, deleted |-> FALSE]
  OBVIOUS
<1>2. e \in CT!Row /\ e.there /\ e.parent = p
  BY <1>1 DEF CT!Row
<1>3. PICK r : r = [CT!Idle EXCEPT !.op = "create", !.id = c, !.to = p, !.pc = "save", !.ent = e]
  OBVIOUS
<1>4. r \in CT!Call /\ r.op = "create" /\ r.id = c /\ r.pc = "save" /\ r.ent = e /\ ~r.moves /\ r.wrote = {}
  BY <1>2, <1>3 DEF CT!Idle, CT!Call, CT!NoRow, CT!Row
<1>5. CT!Arrive(t, r) /\ c \in CT!Unused /\ (p \in CT!Live \/ p = NoCategory)
  BY <1>1, <1>3 DEF CT!BeginCreate
<1>6. treeTx' = [treeTx EXCEPT ![t] = r] /\ UNCHANGED <<cat, meddled>> /\ treeCalls' \in Nat /\ treeAborts' \in Nat
  BY <1>5 DEF CT!Arrive, TreeInv, CT!TypeOK
<1>7. Tended(r, cat)
  BY <1>2, <1>4, <1>5 DEF Tended, Known, CT!Unused, CT!Live
<1>8. ASSUME ~meddled, NEW u \in Calls \ {t} PROVE Separate(r, treeTx[u]) /\ Separate(treeTx[u], r)
  <2>1. treeTx[u].id # c
    <3>1. treeTx[u].pc # "idle" => treeTx[u].id # c
      BY <1>5 DEF CT!Unused, CT!Busy
    <3>2. treeTx[u].pc = "idle" => treeTx[u].id = NoCategory
      BY <1>8, TreeTypes DEF TreeInv, Tended
    <3> QED
      BY <3>1, <3>2, TreeAssumption
  <2> QED
    BY <1>4, <2>1 DEF Separate
<1>9. \A d \in Categories : ~Renames(r, d)
  BY <1>4 DEF Renames
<1> QED
  BY <1>4, <1>6, <1>7, <1>8, <1>9, TreeStep

LEMMA BeginRenameTree ==
  ASSUME TreeInv, NEW t \in Calls, NEW c \in Categories, CT!BeginRename(t, c) PROVE TreeInv'
<1>1. PICK r : r = [CT!Idle EXCEPT !.op = "update", !.id = c, !.ent = cat[c], !.pc = "save"]
  OBVIOUS
<1>2. r \in CT!Call /\ r.op = "update" /\ r.id = c /\ r.pc = "save" /\ r.ent = cat[c] /\ ~r.moves /\ r.wrote = {}
  BY <1>1, CategoryOf DEF TreeInv, CT!Idle, CT!Call, CT!NoRow, CT!Row
<1>3. CT!Arrive(t, r) /\ cat[c].there /\ ~cat[c].deleted
  BY <1>1 DEF CT!BeginRename, CT!Live
<1>4. ~meddled => Tended(r, cat)
  BY <1>2, <1>3 DEF Tended, TreeInv, Rooted
<1> QED
  BY <1>2, <1>3, <1>4, CallArrives

LEMMA BeginMoveTree ==
  ASSUME TreeInv, NEW t \in Calls, NEW c \in Categories, NEW p \in Categories \cup {NoCategory}, CT!BeginMove(t, c, p)
  PROVE  TreeInv'
<1>1. PICK s : s = IF p = NoCategory THEN "move" ELSE "walk"
  OBVIOUS
<1>2. PICK r : r = [CT!Idle EXCEPT !.op = "update", !.id = c, !.to = p, !.moves = TRUE, !.ent = cat[c],
                                   !.at = p, !.pc = s]
  OBVIOUS
<1>3. s \in {"move", "walk"} /\ (s = "move" => p = NoCategory)
  BY <1>1
<1>4. /\ r \in CT!Call /\ r.op = "update" /\ r.id = c /\ r.pc = s /\ r.ent = cat[c] /\ r.moves /\ r.wrote = {}
      /\ r.to = p /\ r.at = p /\ r.visited = {}
  BY <1>2, <1>3, CategoryOf DEF TreeInv, CT!Idle, CT!Call, CT!NoRow, CT!Row
<1>5. CT!Arrive(t, r) /\ cat[c].there /\ ~cat[c].deleted
  BY <1>1, <1>2 DEF CT!BeginMove, CT!Live
<1>6. ~meddled => Tended(r, cat)
  BY <1>3, <1>4, <1>5 DEF Tended, TreeInv, Rooted
<1>7. Climbed(r, cat)
  BY <1>3, <1>4, <1>5 DEF Climbed
<1> QED
  BY <1>4, <1>5, <1>6, <1>7, CallArrives

LEMMA BeginDeleteTree ==
  ASSUME TreeInv, NEW t \in Calls, NEW c \in Categories, CT!BeginDelete(t, c) PROVE TreeInv'
<1>1. PICK r : r = [CT!Idle EXCEPT !.op = "delete", !.id = c, !.pc = "remove"]
  OBVIOUS
<1>2. r \in CT!Call /\ r.op = "delete" /\ r.id = c /\ r.pc = "remove" /\ ~r.moves /\ r.wrote = {}
  BY <1>1 DEF CT!Idle, CT!Call, CT!NoRow, CT!Row
<1>3. CT!Arrive(t, r) /\ cat[c].there /\ ~cat[c].deleted
  BY <1>1 DEF CT!BeginDelete, CT!Live
<1>4. Tended(r, cat)
  BY <1>2, <1>3 DEF Tended
<1> QED
  BY <1>2, <1>3, <1>4, CallArrives

LEMMA WalkTree == ASSUME TreeInv, NEW t \in Calls, CT!Walk(t) PROVE TreeInv'
<1>1. PICK x : x = treeTx[t]
  OBVIOUS
<1>2. x \in CT!Call /\ x.pc = "walk" /\ x.at \in Categories /\ x.at # x.id /\ x.at \notin x.visited
      /\ (x.at \in CT!Live \/ x.at # x.to)
  BY <1>1, CallOf DEF TreeInv, CT!Walk, CT!Call
<1>3. PICK a : a = IF x.at \in CT!Live THEN cat[x.at].parent ELSE NoCategory
  OBVIOUS
<1>4. a \in Categories \cup {NoCategory}
  BY <1>2, <1>3, CategoryOf DEF TreeInv
<1>5. PICK r : r = [x EXCEPT !.visited = @ \cup {x.at}, !.at = a]
  OBVIOUS
<1>6. /\ r \in CT!Call /\ r.pc = "walk" /\ r.op = x.op /\ r.id = x.id /\ r.to = x.to /\ r.moves = x.moves /\ r.at = a
      /\ r.visited = x.visited \cup {x.at} /\ r.ent = x.ent /\ r.cols = x.cols /\ r.wrote = x.wrote /\ r.w = x.w
  BY <1>2, <1>4, <1>5 DEF CT!Call
<1>7. CT!Step(t, r)
  BY <1>1, <1>3, <1>5 DEF CT!Walk, CT!Ancestor
<1>8. ASSUME ~meddled PROVE Tended(r, cat) /\ x.moves /\ Climbed(r, cat)
  <2>1. Tended(x, cat) /\ x.moves /\ Climbed(x, cat) /\ Rooted(cat)
    BY <1>1, <1>2, <1>8 DEF TreeInv, Tended
  <2>2. Tended(r, cat)
    BY <1>2, <1>6, <2>1 DEF Tended
  <2>3. cat[x.at].there
    BY <1>2, <2>1, TreeAssumption DEF Climbed, Known, CT!Live
  <2>4. Known(a, cat)
    BY <1>2, <1>3, <2>1, <2>3 DEF Rooted, Known
  <2>5. cat[x.at].deleted \/ cat[x.at].parent = a
    BY <1>2, <1>3, <2>3 DEF CT!Live
  <2>6. x.to \in x.visited \cup {x.at, NoCategory}
    BY <1>2, <2>1 DEF Climbed
  <2>7. \A v \in x.visited : cat[v].there /\ (cat[v].deleted \/ cat[v].parent \in x.visited \cup {x.at, NoCategory})
    BY <1>2, <2>1 DEF Climbed
  <2>8. Climbed(r, cat)
    BY <1>2, <1>6, <2>1, <2>3, <2>4, <2>5, <2>6, <2>7 DEF Climbed
  <2> QED
    BY <2>1, <2>2, <2>8
<1>9. ASSUME ~meddled PROVE \A u \in Calls \ {t} : r.wrote \cap treeTx[u].wrote = {}
  BY <1>1, <1>6, <1>9 DEF TreeInv, Separate
<1> QED
  BY <1>1, <1>2, <1>6, <1>7, <1>8, <1>9, GoesOn

LEMMA MoveTree == ASSUME TreeInv, NEW t \in Calls, CT!Move(t) PROVE TreeInv'
<1>1. PICK x : x = treeTx[t]
  OBVIOUS
<1>2. x \in CT!Call /\ x.pc \in {"move", "walk"} /\ (x.pc = "walk" => x.at \in x.visited \cup {NoCategory})
  BY <1>1, CallOf DEF TreeInv, CT!Move
<1>3. PICK e : e = [x.ent EXCEPT !.parent = x.to]
  OBVIOUS
<1>4. e \in CT!Row /\ e.parent = x.to /\ e.there = x.ent.there
  BY <1>2, <1>3 DEF CT!Call, CT!Row
<1>5. PICK r : r = [x EXCEPT !.ent = e, !.pc = "save"]
  OBVIOUS
<1>6. /\ r \in CT!Call /\ r.pc = "save" /\ r.op = x.op /\ r.id = x.id /\ r.to = x.to /\ r.moves = x.moves
      /\ r.visited = x.visited /\ r.ent = e /\ r.wrote = x.wrote /\ r.w = x.w
  BY <1>2, <1>4, <1>5 DEF CT!Call
<1>7. r = [x EXCEPT !.ent.parent = x.to, !.pc = "save"]
  BY <1>2, <1>3, <1>5 DEF CT!Call
<1>8. CT!Step(t, r)
  BY <1>1, <1>7 DEF CT!Move
<1>9. ASSUME ~meddled PROVE Tended(r, cat) /\ x.moves /\ Climbed(r, cat)
  <2>1. Tended(x, cat) /\ x.moves /\ Climbed(x, cat)
    BY <1>1, <1>2, <1>9 DEF TreeInv, Tended
  <2>2. x.op = "update" /\ x.wrote = {} /\ x.ent.there /\ cat[x.id].there /\ x.id \in Categories
    BY <1>2, <2>1 DEF Tended
  <2>3. x.to \in x.visited \cup {NoCategory}
    BY <1>2, <2>1 DEF Climbed
  <2>4. \A v \in x.visited : cat[v].there /\ (cat[v].deleted \/ cat[v].parent \in x.visited \cup {NoCategory})
    BY <1>2, <2>1 DEF Climbed
  <2>5. Known(x.to, cat)
    BY <1>2, <2>3, <2>4 DEF Known, CT!Call
  <2>6. Tended(r, cat)
    BY <1>4, <1>6, <2>2, <2>5 DEF Tended
  <2>7. Climbed(r, cat)
    BY <1>4, <1>6, <2>1, <2>3, <2>4 DEF Climbed
  <2> QED
    BY <2>1, <2>6, <2>7
<1>10. ASSUME ~meddled PROVE \A u \in Calls \ {t} : r.wrote \cap treeTx[u].wrote = {}
  BY <1>1, <1>6, <1>10 DEF TreeInv, Separate
<1> QED
  BY <1>1, <1>2, <1>6, <1>8, <1>9, <1>10, GoesOn

LEMMA SaveTree == ASSUME TreeInv, NEW t \in Calls, CT!Save(t) PROVE TreeInv'
<1>1. PICK x : x = treeTx[t]
  OBVIOUS
<1>2. x \in CT!Call /\ x.pc = "save"
  BY <1>1, CallOf DEF TreeInv, CT!Save
<1>3. PICK k : k = { m \in DOMAIN CT!NoRow : x.ent[m] # CT!View(t, x.id)[m] }
  OBVIOUS
<1>4. PICK r : r = [x EXCEPT !.cols = k, !.pc = "write"]
  OBVIOUS
<1>5. /\ r \in CT!Call /\ r.pc = "write" /\ r.op = x.op /\ r.id = x.id /\ r.to = x.to /\ r.moves = x.moves
      /\ r.visited = x.visited /\ r.ent = x.ent /\ r.cols = k /\ r.wrote = x.wrote /\ r.w = x.w
  <2>1. k \in SUBSET DOMAIN CT!NoRow
    BY <1>3
  <2> QED
    BY <1>2, <1>4, <2>1 DEF CT!Call
<1>6. CT!Step(t, r)
  BY <1>1, <1>3, <1>4 DEF CT!Save
<1>7. ASSUME ~meddled PROVE Tended(r, cat) /\ (r.moves => Climbed(r, cat))
  <2>1. Tended(x, cat) /\ (x.moves => Climbed(x, cat))
    BY <1>1, <1>7 DEF TreeInv
  <2>2. x.op = "create" => "there" \in k
    <3>1. CT!View(t, x.id) = cat[x.id]
      BY <1>1, <1>2, <2>1 DEF Tended, CT!View
    <3>2. x.op = "create" => x.ent.there /\ ~cat[x.id].there
      BY <2>1 DEF Tended
    <3>3. x.ent["there"] = x.ent.there /\ cat[x.id]["there"] = cat[x.id].there
      OBVIOUS
    <3> QED
      BY <1>3, <3>1, <3>2, <3>3, TreeTypes
  <2>3. Tended(r, cat)
    BY <1>2, <1>5, <2>1, <2>2 DEF Tended
  <2>4. x.moves => Climbed(r, cat)
    BY <1>2, <1>5, <2>1 DEF Climbed
  <2> QED
    BY <1>5, <2>3, <2>4
<1>8. ASSUME ~meddled PROVE \A u \in Calls \ {t} : r.wrote \cap treeTx[u].wrote = {}
  BY <1>1, <1>5, <1>8 DEF TreeInv, Separate
<1> QED
  BY <1>1, <1>2, <1>5, <1>6, <1>7, <1>8, GoesOn

\* What Put makes of a call.
LEMMA PutIs ==
  ASSUME NEW t \in Calls, NEW x \in CT!Call, x = treeTx[t], NEW c \in Categories, NEW d \in CT!Row,
         NEW r, r = CT!Put(t, c, d)
  PROVE  /\ r \in CT!Call /\ r.pc = "commit" /\ r.op = x.op /\ r.id = x.id /\ r.to = x.to /\ r.moves = x.moves
         /\ r.visited = x.visited /\ r.ent = x.ent /\ r.wrote = x.wrote \cup {c} /\ r.w[c] = d
         /\ \A a \in Categories \ {c} : r.w[a] = x.w[a]
<1>1. PICK w : w = [x.w EXCEPT ![c] = d]
  OBVIOUS
<1>2. w \in [Categories -> CT!Row] /\ w[c] = d /\ \A a \in Categories \ {c} : w[a] = x.w[a]
  BY <1>1 DEF CT!Call
<1>3. PICK W : W = x.wrote \cup {c}
  OBVIOUS
<1>4. W \in SUBSET Categories
  BY <1>3 DEF CT!Call
<1>5. r = [x EXCEPT !.wrote = W, !.w = w, !.pc = "commit"]
  BY <1>1, <1>3 DEF CT!Put, CT!Call
<1>6. /\ r \in CT!Call /\ r.pc = "commit" /\ r.op = x.op /\ r.id = x.id /\ r.to = x.to /\ r.moves = x.moves
      /\ r.visited = x.visited /\ r.ent = x.ent /\ r.wrote = W /\ r.w = w
  BY ONLY x \in CT!Call, <1>2, <1>4, <1>5 DEF CT!Call
<1> QED
  BY <1>2, <1>3, <1>6

LEMMA WriteTree == ASSUME TreeInv, NEW t \in Calls, CT!Write(t) PROVE TreeInv'
<1>1. PICK x : x = treeTx[t]
  OBVIOUS
<1>2. x \in CT!Call /\ x.pc = "write"
  BY <1>1, CallOf DEF TreeInv, CT!Write
<1>3. PICK c : c = x.id
  OBVIOUS
<1>4. PICK d : d = [k \in DOMAIN CT!NoRow |-> IF k \in x.cols THEN x.ent[k] ELSE cat[c][k]]
  OBVIOUS
<1>5. CT!Step(t, CT!Put(t, c, d)) /\ CT!Free(t, c)
  BY <1>1, <1>3, <1>4 DEF CT!Write
<1>6. PICK r : r = CT!Put(t, c, d)
  OBVIOUS
<1>8. ASSUME c \in Categories
      PROVE  /\ d \in CT!Row /\ d.there = (IF "there" \in x.cols THEN x.ent.there ELSE cat[c].there)
             /\ d.parent \in {x.ent.parent, cat[c].parent}
  <2>1. cat[c] \in CT!Row /\ x.ent \in CT!Row
    BY <1>2, <1>8, CategoryOf DEF TreeInv, CT!Call
  <2> QED
    BY <1>4, <2>1, TreeTypes DEF CT!Row
<1>9. CASE c \in Categories
  <2>0. d \in CT!Row
    BY <1>8, <1>9
  <2>1. r \in CT!Call
    BY ONLY <1>1, <1>2, <1>6, <1>9, <2>0, PutIs
  <2>2. /\ r.pc = "commit" /\ r.op = x.op /\ r.id = x.id /\ r.to = x.to /\ r.moves = x.moves
        /\ r.visited = x.visited /\ r.ent = x.ent /\ r.wrote = x.wrote \cup {c} /\ r.w[c] = d
    BY ONLY <1>1, <1>2, <1>6, <1>9, <2>0, PutIs
  <2>3. ASSUME ~meddled PROVE Tended(r, cat) /\ (r.moves => Climbed(r, cat))
    <3>1. Tended(x, cat) /\ (x.moves => Climbed(x, cat)) /\ Rooted(cat)
      BY <1>1, <2>3 DEF TreeInv
    <3>2. x.op \in {"create", "update"} /\ x.wrote = {}
      BY <1>2, <3>1 DEF Tended, CT!Call
    <3>3. d.there
      BY <1>2, <1>3, <1>8, <1>9, <3>1, <3>2 DEF Tended
    <3>4. Known(d.parent, cat)
      BY <1>3, <1>8, <1>9, <3>1, <3>2 DEF Tended, Rooted, Known
    <3>5. Tended(r, cat)
      BY <1>2, <1>3, <1>8, <1>9, <2>2, <3>1, <3>2, <3>3, <3>4 DEF Tended
    <3>6. x.moves => Climbed(r, cat)
      BY <1>2, <2>2, <3>1 DEF Climbed
    <3> QED
      BY <2>2, <3>5, <3>6
  <2>4. ASSUME ~meddled PROVE \A u \in Calls \ {t} : r.wrote \cap treeTx[u].wrote = {}
    <3>1. x.wrote = {}
      BY <1>1, <1>2, <2>4 DEF TreeInv, Tended
    <3> SUFFICES ASSUME NEW u \in Calls \ {t} PROVE c \notin treeTx[u].wrote
      BY <2>2, <3>1
    <3>2. treeTx[u].pc = "idle" => treeTx[u].wrote = {}
      BY <2>4 DEF TreeInv, Tended
    <3> QED
      BY <1>5, <3>2 DEF CT!Free, CT!Busy
  <2> QED
    BY <1>1, <1>2, <1>5, <1>6, <2>1, <2>2, <2>3, <2>4, GoesOn
<1> QED
  BY <1>1, <1>2, <1>3, <1>9 DEF TreeInv

LEMMA RemoveTree == ASSUME TreeInv, NEW t \in Calls, CT!Remove(t) PROVE TreeInv'
<1>1. PICK x : x = treeTx[t]
  OBVIOUS
<1>2. x \in CT!Call /\ x.pc = "remove"
  BY <1>1, CallOf DEF TreeInv, CT!Remove
<1>3. PICK c : c = x.id
  OBVIOUS
<1>4. c \in Categories
  BY <1>1, <1>2, <1>3 DEF TreeInv
<1>5. PICK g : g = [cat[c] EXCEPT !.deleted = TRUE]
  OBVIOUS
<1>6. g \in CT!Row /\ g.there = cat[c].there /\ g.parent = cat[c].parent /\ g.deleted
  <2>1. cat[c] \in CT!Row
    BY <1>4, CategoryOf DEF TreeInv
  <2> QED
    BY <1>5, <2>1 DEF CT!Row
<1>7. PICK r : r = CT!Put(t, c, g)
  OBVIOUS
<1>8. /\ r \in CT!Call /\ r.pc = "commit" /\ r.op = x.op /\ r.id = x.id /\ r.to = x.to /\ r.moves = x.moves
      /\ r.visited = x.visited /\ r.ent = x.ent /\ r.wrote = x.wrote \cup {c} /\ r.w[c] = g
  BY ONLY <1>1, <1>2, <1>4, <1>6, <1>7, t \in Calls, PutIs
<1>9. CT!Free(t, c) /\ (CT!Step(t, r) \/ CT!Step(t, CT!Idle)
        \/ \E d \in CT!Children(c) : /\ CT!Free(t, d)
                                     /\ CT!Step(t, [r EXCEPT !.wrote = @ \cup {d},
                                                             !.w[d] = [cat[d] EXCEPT !.parent = NoCategory]]))
  BY <1>1, <1>3, <1>5, <1>7 DEF CT!Remove
<1>10. ASSUME ~meddled
       PROVE  /\ Tended(x, cat) /\ x.op = "delete" /\ x.wrote = {} /\ ~x.moves /\ Rooted(cat) /\ cat[c].there
  <2>1. Tended(x, cat) /\ Rooted(cat)
    BY <1>1, <1>10 DEF TreeInv
  <2>2. x.op = "delete"
    BY <1>2, <2>1 DEF Tended, CT!Call
  <2> QED
    BY <1>2, <1>3, <2>1, <2>2 DEF Tended
<1>11. Known(cat[c].parent, cat) => Known(g.parent, cat)
  BY <1>6
<1>12. ASSUME ~meddled, NEW d \in Categories, CT!Free(t, d), NEW u \in Calls \ {t} PROVE d \notin treeTx[u].wrote
  <2>1. treeTx[u].pc = "idle" => treeTx[u].wrote = {}
    BY <1>12 DEF TreeInv, Tended
  <2> QED
    BY <1>12, <2>1 DEF CT!Free, CT!Busy
<1>13. CASE CT!Step(t, CT!Idle)
  <2>1. treeTx' = [treeTx EXCEPT ![t] = CT!Idle] /\ UNCHANGED <<cat, meddled, treeCalls, treeAborts>>
    BY <1>13 DEF CT!Step
  <2>2. treeCalls' \in Nat /\ treeAborts' \in Nat
    BY <2>1 DEF TreeInv, CT!TypeOK
  <2> QED
    BY <2>1, <2>2, CallEnds
<1>14. CASE CT!Step(t, r)
  <2>1. ASSUME ~meddled PROVE Tended(r, cat) /\ ~r.moves
    BY <1>3, <1>4, <1>6, <1>8, <1>10, <2>1 DEF Tended, Rooted
  <2>2. ASSUME ~meddled PROVE \A u \in Calls \ {t} : r.wrote \cap treeTx[u].wrote = {}
    BY <1>4, <1>8, <1>9, <1>10, <1>12, <2>2
  <2> QED
    BY <1>1, <1>2, <1>8, <1>14, <2>1, <2>2, GoesOn
<1>15. ASSUME NEW d \in CT!Children(c), CT!Free(t, d),
              CT!Step(t, [r EXCEPT !.wrote = @ \cup {d}, !.w[d] = [cat[d] EXCEPT !.parent = NoCategory]])
       PROVE  TreeInv'
  <2>1. d \in Categories /\ cat[d].there /\ ~cat[d].deleted
    BY DEF CT!Children, CT!Live
  <2>2. PICK h : h = [cat[d] EXCEPT !.parent = NoCategory]
    OBVIOUS
  <2>3. h \in CT!Row /\ h.there = cat[d].there /\ h.parent = NoCategory /\ h.deleted = cat[d].deleted
    <3>1. cat[d] \in CT!Row
      BY <2>1, CategoryOf DEF TreeInv
    <3> QED
      BY <2>2, <3>1 DEF CT!Row
  <2>4. PICK w : w = [r.w EXCEPT ![d] = h]
    OBVIOUS
  <2>5. PICK W : W = r.wrote \cup {d}
    OBVIOUS
  <2>6. w \in [Categories -> CT!Row] /\ W \in SUBSET Categories /\ w[d] = h /\ (d # c => w[c] = r.w[c])
    BY <1>4, <1>8, <2>1, <2>3, <2>4, <2>5 DEF CT!Call
  <2>7. PICK s : s = [r EXCEPT !.wrote = W, !.w = w]
    OBVIOUS
  <2>8. s = [r EXCEPT !.wrote = @ \cup {d}, !.w[d] = [cat[d] EXCEPT !.parent = NoCategory]]
    BY <1>8, <2>2, <2>4, <2>5, <2>7 DEF CT!Call
  <2>9. /\ s \in CT!Call /\ s.pc = "commit" /\ s.op = x.op /\ s.id = x.id /\ s.moves = x.moves
        /\ s.ent = x.ent /\ s.wrote = W /\ s.w = w
    BY ONLY <1>8, <2>6, <2>7 DEF CT!Call
  <2>10. CT!Step(t, s)
    BY <1>15, <2>8
  <2>11. ASSUME ~meddled PROVE Tended(s, cat) /\ ~s.moves
    <3>1. \A a \in W : a \in Categories /\ w[a].there /\ cat[a].there /\ Known(w[a].parent, cat)
                       /\ w[a].parent \in {cat[a].parent, NoCategory} /\ (cat[a].deleted => w[a].deleted)
      <4>1. W = {c, d} /\ Rooted(cat) /\ cat[c].there
        BY <1>8, <1>10, <2>5, <2>11
      <4>2. w[d] = h /\ (d # c => w[c] = g) /\ Known(NoCategory, cat)
        BY <1>8, <2>6 DEF Known
      <4>3. Known(cat[c].parent, cat)
        BY <1>4, <4>1 DEF Rooted
      <4> QED
        BY <1>4, <1>6, <2>1, <2>3, <4>1, <4>2, <4>3
    <3> QED
      BY <1>3, <1>4, <1>10, <2>9, <2>11, <3>1 DEF Tended
  <2>12. ASSUME ~meddled PROVE \A u \in Calls \ {t} : s.wrote \cap treeTx[u].wrote = {}
    <3> SUFFICES ASSUME NEW u \in Calls \ {t} PROVE s.wrote \cap treeTx[u].wrote = {}
      OBVIOUS
    <3>1. s.wrote = {c, d}
      BY <1>8, <1>10, <2>5, <2>9, <2>12
    <3>2. c \notin treeTx[u].wrote
      BY <1>4, <1>9, <1>12, <2>12
    <3>3. d \notin treeTx[u].wrote
      BY <1>12, <1>15, <2>1, <2>12
    <3> QED
      BY <3>1, <3>2, <3>3
  <2> QED
    BY <1>1, <1>2, <2>9, <2>10, <2>11, <2>12, GoesOn
<1> QED
  BY <1>9, <1>13, <1>14, <1>15

LEMMA RefuseTree == ASSUME TreeInv, NEW t \in Calls, CT!Refuse(t) \/ CT!Abort(t) PROVE TreeInv'
<1>1. treeTx' = [treeTx EXCEPT ![t] = CT!Idle] /\ UNCHANGED <<cat, meddled>>
  BY DEF CT!Refuse, CT!Step, CT!Abort
<1>2. treeCalls' \in Nat /\ treeAborts' \in Nat
  BY DEF CT!Refuse, CT!Step, CT!Abort, TreeInv, CT!TypeOK
<1> QED
  BY <1>1, <1>2, CallEnds

\* The table after the commit of x.
After(x, R, Q) == \A c \in Categories : Q[c] = IF c \in x.wrote THEN x.w[c] ELSE R[c]

\* What others rest on stays when x commits.
LEMMA OthersTended ==
  ASSUME NEW x \in CT!Call, NEW r \in CT!Call, NEW R, NEW Q, After(x, R, Q), Tended(x, R), Tended(r, R),
         x.pc = "commit", r.pc # "idle" => r.id \in Categories, Separate(x, r), Separate(r, x)
  PROVE  Tended(r, Q)
<1>1. \A c \in Categories : R[c].there => Q[c].there
  BY DEF After, Tended
<1>2. \A p \in Categories \cup {NoCategory} : Known(p, R) => Known(p, Q)
  BY <1>1 DEF Known
<1>3. r.op = "create" => ~Q[r.id].there
  <2> SUFFICES ASSUME r.op = "create" PROVE ~Q[r.id].there
    OBVIOUS
  <2>1. r.pc # "idle" /\ r.id \in Categories /\ ~R[r.id].there /\ x.id # r.id
    BY TreeTypes DEF Tended, Separate
  <2>2. r.id \notin x.wrote
    <3>1. CASE x.op = "create"
      BY <2>1, <3>1 DEF Tended
    <3>2. CASE x.op # "create"
      BY <2>1, <3>2 DEF Tended
    <3> QED
      BY <3>1, <3>2
  <2> QED
    BY <2>1, <2>2 DEF After
<1>4. r.op \in {"update", "delete"} => Q[r.id].there
  <2> SUFFICES ASSUME r.op \in {"update", "delete"} PROVE Q[r.id].there
    OBVIOUS
  <2>1. r.pc # "idle" /\ r.id \in Categories /\ R[r.id].there
    BY TreeTypes DEF Tended
  <2> QED
    BY <1>1, <2>1
<1>5. \A c \in r.wrote : c \in Categories /\ Q[c] = R[c] /\ r.w[c].parent \in Categories \cup {NoCategory}
  <2>1. \A c \in r.wrote : c \in Categories /\ r.w[c] \in CT!Row
    BY DEF CT!Call
  <2> QED
    BY <2>1 DEF After, Separate, CT!Row
<1>6. r.ent.parent \in Categories \cup {NoCategory}
  BY DEF CT!Call, CT!Row
<1>7. Known(r.ent.parent, R) => Known(r.ent.parent, Q)
  BY <1>2, <1>6
<1>8. \A c \in r.wrote :
        /\ r.w[c].there /\ Known(r.w[c].parent, Q)
        /\ r.op # "create" => Q[c].there
        /\ r.op # "delete" => r.w[c].parent \in {Q[c].parent, r.ent.parent}
        /\ r.op = "delete" => r.w[c].parent \in {Q[c].parent, NoCategory} /\ (Q[c].deleted => r.w[c].deleted)
  BY <1>2, <1>5 DEF Tended
<1> QED
  BY <1>3, <1>4, <1>7, <1>8 DEF Tended

\* A call that moves a category goes on while others create some.
LEMMA OthersClimb ==
  ASSUME NEW x \in CT!Call, NEW r \in CT!Call, NEW R, NEW Q, After(x, R, Q), Tended(x, R), Tended(r, R),
         x.op = "create", r.moves, Climbed(r, R)
  PROVE  Climbed(r, Q)
<1>1. x.wrote \subseteq {x.id} /\ ~R[x.id].there
  BY DEF Tended
<1>2. \A c \in Categories : R[c].there => Q[c] = R[c]
  BY <1>1 DEF After
<1>3. r.op = "update" /\ R[r.id].there
  BY DEF Tended
<1>4. Q[r.id] = R[r.id]
  BY <1>2, <1>3 DEF Climbed
<1>5. \A v \in r.visited : R[v].there /\ Q[v] = R[v]
  BY <1>2 DEF Climbed, CT!Call
<1>6. Known(r.at, R) => Known(r.at, Q)
  BY <1>2 DEF Known
<1> QED
  BY <1>4, <1>5, <1>6 DEF Climbed

LEMMA RootedAfter ==
  ASSUME NEW x \in CT!Call, NEW R, NEW Q, After(x, R, Q), Tended(x, R), Rooted(R),
         \A c \in Categories : R[c].parent \in Categories \cup {NoCategory}
  PROVE  Rooted(Q)
<1>1. \A c \in Categories : R[c].there => Q[c].there
  BY DEF After, Tended
<1>2. \A p \in Categories \cup {NoCategory} : Known(p, R) => Known(p, Q)
  BY <1>1 DEF Known
<1>3. ASSUME NEW c \in x.wrote PROVE Q[c].there /\ Known(Q[c].parent, Q)
  <2>1. c \in Categories /\ Q[c] = x.w[c] /\ x.w[c] \in CT!Row
    BY DEF After, CT!Call
  <2> QED
    BY <1>2, <2>1 DEF Tended, CT!Row
<1>4. ASSUME NEW c \in Categories, c \notin x.wrote
      PROVE  IF Q[c].there THEN Known(Q[c].parent, Q) ELSE Q[c].parent = NoCategory
  BY <1>2, <1>4 DEF After, Rooted
<1> QED
  BY <1>3, <1>4 DEF Rooted

\* The calls X are as they were but that t has ended.
Ended(t, X, Y) == \A u \in Calls : Y[u] = IF u = t THEN CT!Idle ELSE X[u]

LEMMA EndedRenames ==
  ASSUME NEW t \in Calls, NEW X, NEW Y, Ended(t, X, Y), NEW u \in Calls, NEW c, Renames(Y[u], c)
  PROVE  u # t /\ Y[u] = X[u]
BY TreeTypes DEF Ended, Renames

\* A rename, or a deletion: no category leads where it did not, or might have led.
LEMMA CommitShrinks ==
  ASSUME NEW t \in Calls, NEW X, NEW Y, Ended(t, X, Y), NEW x \in CT!Call, x = X[t], NEW R, NEW Q, After(x, R, Q),
         Tended(x, R), NoTrap(R, X), (x.op = "update" /\ ~x.moves) \/ x.op = "delete"
  PROVE  NoTrap(Q, Y)
<1>1. ASSUME NEW c \in Categories, ~(\E u \in Calls : Renames(X[u], c)), Q[c].there, ~Q[c].deleted
      PROVE  R[c].there /\ ~R[c].deleted
  <2>1. c \notin x.wrote => Q[c] = R[c]
    BY DEF After
  <2>2. ASSUME c \in x.wrote PROVE R[c].there /\ ~R[c].deleted
    <3>1. Q[c] = x.w[c]
      BY <2>2 DEF After
    <3>2. ~Renames(x, c)
      BY <1>1
    <3>3. x.op = "delete"
      BY <2>2, <3>2 DEF Tended, Renames
    <3> QED
      BY <1>1, <2>2, <3>1, <3>3 DEF Tended
  <2> QED
    BY <1>1, <2>1, <2>2
<1>2. Nodes(Q, Y) \subseteq Nodes(R, X)
  <2> SUFFICES ASSUME NEW c \in Nodes(Q, Y), c \notin Nodes(R, X) PROVE FALSE
    OBVIOUS
  <2>1. c \in Categories /\ ~(R[c].there /\ ~R[c].deleted) /\ ~(\E u \in Calls : Renames(X[u], c))
    BY DEF Nodes
  <2>2. ~(Q[c].there /\ ~Q[c].deleted)
    BY <1>1, <2>1
  <2>3. ~(\E u \in Calls : Renames(Y[u], c))
    BY <2>1, EndedRenames
  <2> QED
    BY <2>2, <2>3 DEF Nodes
<1>3. ASSUME NEW S \in SUBSET Nodes(Q, Y), NEW c \in S, Leads(Q, Y, c, S) PROVE Leads(R, X, c, S)
  <2>1. c \in Categories /\ NoCategory \notin S
    BY TreeAssumption DEF Nodes
  <2>2. CASE \E u \in Calls : Renames(Y[u], c) /\ Y[u].ent.parent \in S
    BY <2>2, EndedRenames DEF Leads
  <2>3. ASSUME Q[c].parent \in S PROVE Leads(R, X, c, S)
    <3>1. c \notin x.wrote => Q[c] = R[c]
      BY <2>1 DEF After
    <3>2. ASSUME c \in x.wrote PROVE Leads(R, X, c, S)
      <4>1. Q[c] = x.w[c]
        BY <2>1, <3>2 DEF After
      <4>2. CASE x.op = "delete"
        BY <2>1, <2>3, <3>2, <4>1, <4>2 DEF Tended, Leads
      <4>3. CASE x.op = "update" /\ ~x.moves
        <5>1. c = x.id /\ Q[c].parent \in {R[c].parent, x.ent.parent}
          BY <3>2, <4>1, <4>3 DEF Tended
        <5>2. Renames(X[t], c) /\ X[t].ent.parent = x.ent.parent
          BY <4>3, <5>1 DEF Renames
        <5> QED
          BY <2>3, <5>1, <5>2 DEF Leads
      <4> QED
        BY <4>2, <4>3
    <3> QED
      BY <2>3, <3>1, <3>2 DEF Leads
  <2> QED
    BY <1>3, <2>2, <2>3 DEF Leads
<1> QED
  BY <1>2, <1>3, FewerWays

\* A category that is new has no child, so no trap holds it.
LEMMA CommitGrows ==
  ASSUME NEW t \in Calls, NEW X, NEW Y, Ended(t, X, Y), NEW x \in CT!Call, x = X[t], NEW R, NEW Q, After(x, R, Q),
         Tended(x, R), NoTrap(R, X), Rooted(R), x.op = "create",
         \A u \in Calls : Tended(X[u], R)
  PROVE  NoTrap(Q, Y)
<1>1. x.wrote \subseteq {x.id} /\ ~R[x.id].there
  BY DEF Tended
<1>2. \A c \in Categories : c \notin x.wrote => Q[c] = R[c]
  BY DEF After
<1>3. ASSUME NEW c \in x.wrote PROVE c \in Categories /\ ~R[c].there /\ Known(Q[c].parent, R)
  BY <1>1, <1>3 DEF After, Tended, CT!Call
<1>4. ASSUME NEW u \in Calls, NEW c, Renames(Y[u], c)
      PROVE  Renames(X[u], c) /\ Y[u] = X[u] /\ R[c].there /\ Known(X[u].ent.parent, R)
  <2>1. Y[u] = X[u] /\ Tended(X[u], R)
    BY <1>4, EndedRenames
  <2> QED
    BY <1>4, <2>1 DEF Renames, Tended
<1> SUFFICES ASSUME NEW S \in SUBSET Nodes(Q, Y), S # {}, \A c \in S : Leads(Q, Y, c, S) PROVE FALSE
  BY DEF NoTrap
<1>5. S \subseteq Categories /\ NoCategory \notin S
  BY TreeAssumption DEF Nodes
<1>6. PICK T : T = S \ x.wrote
  OBVIOUS
<1>7. \A p \in S : Known(p, R) => p \in T
  BY <1>3, <1>5, <1>6 DEF Known
<1>8. ASSUME NEW c \in S PROVE T # {} /\ (c \in T => Leads(R, X, c, T))
  <2>1. CASE Q[c].parent \in S
    <3>1. CASE c \in x.wrote
      BY <1>3, <1>6, <1>7, <2>1, <3>1
    <3>2. CASE c \notin x.wrote
      <4>1. c \in Categories /\ R[c].parent \in S
        BY <1>2, <1>5, <2>1, <3>2
      <4>2. Known(R[c].parent, R)
        BY <1>5, <4>1 DEF Rooted
      <4> QED
        BY <1>7, <4>1, <4>2 DEF Leads
    <3> QED
      BY <3>1, <3>2
  <2>2. CASE \E u \in Calls : Renames(Y[u], c) /\ Y[u].ent.parent \in S
    BY <1>4, <1>7, <2>2 DEF Leads
  <2> QED
    BY <2>1, <2>2 DEF Leads
<1>9. T \subseteq Nodes(R, X)
  <2> SUFFICES ASSUME NEW c \in T PROVE c \in Nodes(R, X)
    OBVIOUS
  <2>1. c \in Categories /\ Q[c] = R[c] /\ c \in Nodes(Q, Y)
    BY <1>2, <1>5, <1>6
  <2> QED
    BY <1>4, <2>1 DEF Nodes
<1>10. T # {} /\ \A c \in T : Leads(R, X, c, T)
  BY <1>6, <1>8
<1> QED
  BY <1>9, <1>10 DEF NoTrap

\* A move by itself: from the new parent one meets the ancestors that the call has
\* met, which do not lead to the category.
LEMMA CommitMoves ==
  ASSUME NEW t \in Calls, NEW X, NEW Y, Ended(t, X, Y), NEW x \in CT!Call, x = X[t], NEW R, NEW Q, After(x, R, Q),
         Tended(x, R), NoTrap(R, X), x.moves, Climbed(x, R), x.pc = "commit",
         \A u \in Calls \ {t} : X[u].op # "update",
         \A c \in Categories : R[c].deleted \in BOOLEAN /\ R[c].there \in BOOLEAN
  PROVE  NoTrap(Q, Y)
<1>1. x.op = "update" /\ x.wrote \subseteq {x.id} /\ x.id \in Categories /\ R[x.id].there /\ ~R[x.id].deleted
  BY DEF Tended, Climbed
<1>2. x.id \notin x.visited /\ x.to \in x.visited \cup {NoCategory} /\ x.ent.parent = x.to
  BY DEF Climbed
<1>3. \A v \in x.visited : R[v].deleted \/ R[v].parent \in x.visited \cup {NoCategory}
  BY DEF Climbed
<1>4. \A c \in Categories : c # x.id => Q[c] = R[c]
  BY <1>1 DEF After
<1>5. Q[x.id].parent \in {R[x.id].parent, x.to}
  BY <1>1, <1>2 DEF After, Tended
<1>6. \A u \in Calls : \A c : ~Renames(Y[u], c)
  BY TreeTypes DEF Ended, Renames
<1> SUFFICES ASSUME NEW S \in SUBSET Nodes(Q, Y), S # {}, \A c \in S : Leads(Q, Y, c, S) PROVE FALSE
  BY DEF NoTrap
<1>7. \A c \in S : c \in Categories /\ R[c].there /\ ~R[c].deleted /\ Q[c].parent \in S
  BY <1>1, <1>4, <1>6 DEF Nodes, Leads
<1>8. NoCategory \notin S
  BY <1>7, TreeAssumption
<1>9. CASE \A c \in S : R[c].parent \in S
  BY <1>7, <1>9 DEF NoTrap, Nodes, Leads
<1>10. CASE \E c \in S : R[c].parent \notin S
  <2>1. x.id \in S /\ x.to \in S
    BY <1>4, <1>5, <1>7, <1>10
  <2>2. PICK T : T = S \cap x.visited
    OBVIOUS
  <2>3. T # {} /\ T \subseteq S /\ x.to \in T
    BY <1>2, <1>8, <2>1, <2>2
  <2>4. \A c \in T : R[c].parent \in T
    BY <1>2, <1>3, <1>4, <1>7, <1>8, <2>2
  <2>5. T \in SUBSET Nodes(R, X)
    BY <1>7, <2>3 DEF Nodes
  <2> QED
    BY <2>3, <2>4, <2>5 DEF NoTrap, Leads
<1> QED
  BY <1>9, <1>10

LEMMA CommitTree == ASSUME TreeInv, NEW t \in Calls, CT!Commit(t) PROVE TreeInv'
<1>1. PICK x : x = treeTx[t]
  OBVIOUS
<1>2. x \in CT!Call /\ x.pc = "commit" /\ x.id \in Categories
  BY <1>1, CallOf DEF TreeInv, CT!Commit
<1>3. After(x, cat, cat')
  BY <1>1 DEF CT!Commit, CT!View, After
<1>4. treeTx' = [treeTx EXCEPT ![t] = CT!Idle] /\ UNCHANGED <<treeCalls, treeAborts>>
  BY DEF CT!Commit
<1>5. Ended(t, treeTx, treeTx')
  BY <1>4 DEF Ended, TreeInv, CT!TypeOK
<1>6. CT!TypeOK'
  <2>1. \A c \in Categories : CT!View(t, c) \in CT!Row
    BY <1>1, <1>2, CategoryOf DEF TreeInv, CT!View, CT!Call
  <2>2. cat' \in [Categories -> CT!Row]
    BY <2>1 DEF CT!Commit
  <2>3. treeTx' \in [Calls -> CT!Call]
    BY <1>4, TreeTypes DEF TreeInv, CT!TypeOK
  <2>4. meddled' \in BOOLEAN
    BY DEF CT!Commit, TreeInv, CT!TypeOK
  <2> QED
    BY <1>4, <2>2, <2>3, <2>4 DEF TreeInv, CT!TypeOK
<1>7. \A u \in Calls : treeTx'[u].pc = "idle" \/ treeTx'[u].id \in Categories
  BY <1>5, TreeTypes DEF Ended, TreeInv
<1> SUFFICES ASSUME ~meddled' PROVE TreeInv'
  BY <1>6, <1>7 DEF TreeInv
<1>8. ~meddled /\ \A u \in Calls \ {t} : treeTx[u].pc = "idle" \/ ~CT!Meddle(t, u)
  BY DEF CT!Commit, CT!Busy, TreeInv, CT!TypeOK
<1>9. Rooted(cat) /\ NoTrap(cat, treeTx) /\ Tended(x, cat) /\ (x.moves => Climbed(x, cat))
  BY <1>1, <1>8 DEF TreeInv
<1>10. ASSUME NEW u \in Calls PROVE treeTx[u] \in CT!Call /\ Tended(treeTx[u], cat)
  BY <1>8, CallOf DEF TreeInv
<1>11. \A c \in Categories : /\ cat[c].parent \in Categories \cup {NoCategory}
                             /\ cat[c].deleted \in BOOLEAN /\ cat[c].there \in BOOLEAN
  BY CategoryOf DEF TreeInv
<1>12. Rooted(cat')
  BY <1>2, <1>3, <1>9, <1>11, RootedAfter
<1>13. x.op # "none"
  BY <1>2, <1>9 DEF Tended
<1>14. \A u \in Calls \ {t} : x.moves => treeTx[u].op # "update"
  <2> SUFFICES ASSUME NEW u \in Calls \ {t}, x.moves, treeTx[u].op = "update" PROVE FALSE
    OBVIOUS
  <2>1. treeTx[u].pc # "idle" /\ x.op = "update"
    BY <1>9, <1>10, TreeTypes DEF Tended
  <2> QED
    BY <1>1, <1>8, <2>1 DEF CT!Meddle
<1>15. NoTrap(cat', treeTx')
  <2>1. CASE x.op = "create"
    BY <1>1, <1>2, <1>3, <1>5, <1>9, <1>10, <2>1, CommitGrows
  <2>2. CASE x.moves
    BY <1>1, <1>2, <1>3, <1>5, <1>9, <1>11, <1>14, <2>2, CommitMoves
  <2>3. CASE (x.op = "update" /\ ~x.moves) \/ x.op = "delete"
    BY <1>1, <1>2, <1>3, <1>5, <1>9, <2>3, CommitShrinks
  <2> QED
    BY <1>2, <1>13, <2>1, <2>2, <2>3 DEF CT!Call
<1>16. ASSUME NEW u \in Calls
       PROVE  Tended(treeTx'[u], cat') /\ (treeTx'[u].moves => Climbed(treeTx'[u], cat'))
  <2>1. CASE u = t
    BY <1>5, <2>1, IdleTended, TreeTypes DEF Ended
  <2>2. CASE u # t
    <3>1. treeTx'[u] = treeTx[u]
      BY <1>5, <2>2 DEF Ended
    <3>2. Separate(x, treeTx[u]) /\ Separate(treeTx[u], x)
      BY <1>1, <1>8, <2>2 DEF TreeInv
    <3>3. treeTx[u].pc # "idle" => treeTx[u].id \in Categories
      BY DEF TreeInv
    <3>4. Tended(treeTx[u], cat')
      BY <1>2, <1>3, <1>9, <1>10, <3>2, <3>3, OthersTended
    <3>5. ASSUME treeTx[u].moves PROVE Climbed(treeTx[u], cat')
      <4>1. treeTx[u].pc # "idle" /\ treeTx[u].op = "update"
        BY <1>10, <3>5, TreeTypes DEF Tended
      <4>2. x.op = "create"
        BY <1>1, <1>8, <2>2, <3>5, <4>1 DEF CT!Meddle
      <4>3. Climbed(treeTx[u], cat)
        BY <1>8, <3>5 DEF TreeInv
      <4> QED
        BY <1>2, <1>3, <1>9, <1>10, <3>5, <4>2, <4>3, OthersClimb
    <3> QED
      BY <3>1, <3>4, <3>5
  <2> QED
    BY <2>1, <2>2
<1>17. ASSUME NEW u \in Calls, NEW v \in Calls, u # v PROVE Separate(treeTx'[u], treeTx'[v])
  <2>1. treeTx'[u] = treeTx[u] \/ treeTx'[u] = CT!Idle
    BY <1>5 DEF Ended
  <2>2. treeTx'[v] = treeTx[v] \/ treeTx'[v] = CT!Idle
    BY <1>5 DEF Ended
  <2>3. treeTx[u].op = "create" => treeTx[u].id \in Categories
    BY <1>10, TreeTypes DEF Tended, TreeInv
  <2>4. Separate(treeTx[u], treeTx[v])
    BY <1>8, <1>17 DEF TreeInv
  <2> QED
    BY <2>1, <2>2, <2>3, <2>4, TreeTypes, TreeAssumption DEF Separate
<1> QED
  BY <1>6, <1>7, <1>12, <1>15, <1>16, <1>17 DEF TreeInv

LEMMA TreeInit == ASSUME CT!Init PROVE TreeInv
<1>1. cat = [c \in Categories |-> CT!NoRow] /\ treeTx = [t \in Calls |-> CT!Idle]
      /\ meddled = FALSE /\ treeCalls = 0 /\ treeAborts = 0
  BY DEF CT!Init
<1>2. CT!TypeOK
  BY <1>1, TreeTypes DEF CT!TypeOK
<1>3. \A t \in Calls : treeTx[t] = CT!Idle
  BY <1>1
<1>4. \A c \in Categories : ~cat[c].there /\ cat[c].parent = NoCategory
  BY <1>1, TreeTypes
<1>5. Nodes(cat, treeTx) = {}
  BY <1>3, <1>4, TreeTypes DEF Nodes, Renames
<1>6. NoTrap(cat, treeTx) /\ Rooted(cat)
  BY <1>4, <1>5 DEF NoTrap, Rooted
<1>7. \A t, u \in Calls : Separate(treeTx[t], treeTx[u])
  BY <1>3, TreeTypes DEF Separate
<1> QED
  BY <1>2, <1>3, <1>6, <1>7, IdleTended, TreeTypes DEF TreeInv

LEMMA TreeNext == ASSUME TreeInv, [CT!Next]_CT!vars PROVE TreeInv'
<1>1. CASE UNCHANGED CT!vars
  <2>1. UNCHANGED <<cat, treeTx, meddled, treeCalls, treeAborts>>
    BY <1>1 DEF CT!vars
  <2> QED
    BY <2>1 DEF TreeInv, CT!TypeOK
<1>2. ASSUME NEW t \in Calls, CT!Begin(t) PROVE TreeInv'
  BY <1>2, BeginCreateTree, BeginRenameTree, BeginMoveTree, BeginDeleteTree DEF CT!Begin
<1>3. ASSUME NEW t \in Calls, CT!Run(t) \/ CT!Abort(t) PROVE TreeInv'
  BY <1>3, WalkTree, MoveTree, RefuseTree, SaveTree, WriteTree, RemoveTree, CommitTree DEF CT!Run
<1> QED
  BY <1>1, <1>2, <1>3 DEF CT!Next

\* Every category that is not deleted is in the tree that getCategoryTree returns,
\* for any number of categories and calls: no category becomes its own ancestor,
\* however creations, renames and deletions overlap, as long as no move overlaps
\* another move, a rename or a deletion (CategoriesService.update and delete).
THEOREM TreeComplete == CT!Spec => []AllShown
<1>1. ASSUME TreeInv PROVE AllShown
  <2> SUFFICES ASSUME ~meddled PROVE CT!Live \subseteq CT!Shown
    BY DEF AllShown, CT!AllShown, CT!Shown
  <2> SUFFICES ASSUME NEW S \in SUBSET CT!Live, CT!Roots \cup CT!Under(S) \subseteq S, NEW c \in CT!Live \ S
               PROVE FALSE
    BY DEF CT!Shown
  <2>1. PICK T : T = CT!Live \ S
    OBVIOUS
  <2>2. T \in SUBSET Nodes(cat, treeTx) /\ T # {}
    BY <2>1 DEF CT!Live, Nodes
  <2>3. \A d \in T : cat[d].parent \in T
    BY <2>1 DEF CT!Roots, CT!Under
  <2>4. \A d \in T : Leads(cat, treeTx, d, T)
    BY <2>3 DEF Leads
  <2> QED
    BY <1>1, <2>2, <2>4 DEF TreeInv, NoTrap
<1> QED
  BY <1>1, TreeInit, TreeNext, PTL DEF CT!Spec

--------------------------------------------------------------------------------
(* The components together.                                                *)

\* MCCatalogue runs one component and leaves the others alone, so its behaviours
\* are behaviours of each: what is proved of Tenancy, VariantImages, Products
\* and Categories holds of the specification that the run checks.
THEOREM CatalogueSafe ==
  CatalogueSpec => [](/\ TenantsApart /\ PoolMoves /\ ObjectsMatch /\ OnePrimary
                      /\ StockKept /\ OneDefault /\ ListApplied /\ AllShown)
<1>1. CatalogueInit => Init /\ VI!Init /\ PV!Init /\ CT!Init
  BY DEF CatalogueInit
<1>2. [CatalogueNext]_<<part, vars, productVars, imageVars, treeVars>>
        => [Next]_vars /\ [VI!Next]_VI!vars /\ [PV!Next]_PV!vars /\ [CT!Next]_CT!vars
  BY DEF CatalogueNext, productVars, imageVars, treeVars, vars, CT!vars, VI!vars, VI!db, VI!history, VI!bounds,
         PV!vars, PV!db, PV!history, PV!bounds
<1> QED
  BY <1>1, <1>2, TenantsKeptApart, PoolNeverWaitsForItself, ImagesAndObjects, MarkOnOne,
     StockNotLost, DefaultOnOne, ListTakenOver, TreeComplete, PTL DEF CatalogueSpec, Spec, VI!Spec, PV!Spec, CT!Spec
================================================================================
