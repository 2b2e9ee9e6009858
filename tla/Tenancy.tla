-------------------------------- MODULE Tenancy --------------------------------
(* Whom a call works for. Requests, webhooks and the expiry job find their   *)
(* tenant in three ways and keep it in the context of the call; withTenant   *)
(* copies it to a setting of the connection that the pool lends to the       *)
(* transaction, and the policies of the tables read that setting. A script   *)
(* adds tenants meanwhile. The statements between a transaction's begin and  *)
(* its end are those of any service: reads, writes, the tenant's settings.   *)
EXTENDS Naturals

CONSTANTS
  Tenants, NoTenant,
  Conns, NoConn,       \* connections the pool may open: it is configured for some of them
  Calls, MaxCalls,     \* calls under way at a time, and in all
  MaxFaults            \* connections lost

ASSUME ConstantsAssumption == NoConn \notin Conns /\ MaxCalls \in Nat /\ MaxFaults \in Nat

VARIABLES
  tenants,    \* the tenants there are
  rows,       \* the rows of the tables that have a policy
  current,    \* app.current_tenant of a connection
  bypass,     \* app.bypass_rls of a connection
  cls,        \* tenantId in the context of a call
  call, script, count, faults

vars == <<tenants, rows, current, bypass, cls, call, script, count, faults>>

\* Never set, or set by a transaction that has ended: the latter is an empty text.
Unset == "unset"
Empty == "empty"

\* by is the tenant on whose behalf the row was written: no column of the table.
Row == [kind : {"settings", "data"}, tenant : Tenants, by : Tenants]
Settings(t) == [kind |-> "settings", tenant |-> t, by |-> t]

Idle == [pc |-> "idle", op |-> "none", meant |-> NoTenant, conn |-> NoConn,
         wrote |-> {}, read |-> {}, left |-> {}, points |-> {}]
NoScript == [pc |-> "idle", tenant |-> NoTenant]

Pool == DOMAIN current

Stage == {"idle", "resolve", "account", "bypass", "find", "named", "list", "jobs",
          "handle", "queued", "opened", "work"}

CallState ==
  [pc    : Stage,
   op    : {"none", "request", "webhook", "job"},
   meant : Tenants \cup {NoTenant}, \* of its host, of the account, or the job's turn
   conn  : Conns \cup {NoConn}, \* the connection it has borrowed
   wrote : SUBSET Row,          \* what its transaction has inserted
   read  : SUBSET Tenants,      \* whose rows it was given
   left  : SUBSET Tenants,      \* the tenants the job has yet to see to
   points : SUBSET Tenants]     \* that the account of a webhook was found to point at

TypeOK ==
  /\ tenants \subseteq Tenants /\ rows \subseteq Row
  /\ current \in [Pool -> Tenants \cup {Unset, Empty}] /\ bypass \in [Pool -> BOOLEAN]
  /\ Pool \subseteq Conns /\ Pool # {}
  /\ cls \in [Calls -> Tenants \cup {NoTenant}] /\ call \in [Calls -> CallState]
  /\ script \in [pc : {"idle", "insert", "settings"}, tenant : Tenants \cup {NoTenant}]
  /\ count \in 0..MaxCalls /\ faults \in 0..MaxFaults

Init ==
  /\ tenants \in SUBSET Tenants
  /\ rows = { Settings(t) : t \in tenants }
  /\ \E P \in (SUBSET Conns) \ {{}} : current = [k \in P |-> Unset] /\ bypass = [k \in P |-> FALSE]
  /\ cls = [c \in Calls |-> NoTenant] /\ call = [c \in Calls |-> Idle]
  /\ script = NoScript /\ count = 0 /\ faults = 0

--------------------------------------------------------------------------------
Conn(c)    == call[c].conn
Free       == Pool \ { Conn(c) : c \in Calls }
Waiting(c) == call[c].pc \in {"resolve", "account", "named", "list", "queued"}

\* What the policies let the transaction of c see of the rows.
Visible(c) == { r \in rows \cup call[c].wrote : r.tenant = current[Conn(c)] }

\* Mutant: the tenant is kept by a service that all calls share.
SetContext_Shared(c, t) == cls' = [d \in Calls |-> t]

Goto(c, l)       == call' = [call EXCEPT ![c] = [@ EXCEPT !.pc = l]]
SetContext(c, t) == cls' = [cls EXCEPT ![c] = t]
Leave(c, l)      == call' = [call EXCEPT ![c] = [@ EXCEPT !.pc = l, !.conn = NoConn, !.wrote = {}]]
Return(c)        == call' = [call EXCEPT ![c] = Idle] /\ SetContext(c, NoTenant)

\* Both settings are local: the end of a transaction, either way, undoes them.
EndOn(b) ==
  /\ current' = [k \in Pool |-> IF k = b /\ current[k] # Unset THEN Empty ELSE current[k]]
  /\ bypass'  = [k \in Pool |-> bypass[k] /\ k # b]

\* A transaction has failed: the job catches the error and sees to the next
\* tenant, resolveTenantId looks for a name, and any other call ends.
Failed(c) ==
  IF call[c].op = "job" /\ call[c].pc # "list"
  THEN Leave(c, "jobs") /\ SetContext(c, NoTenant)
  ELSE IF call[c].pc \in {"account", "bypass", "find"}
  THEN Leave(c, "named") /\ UNCHANGED cls
  ELSE Return(c)

--------------------------------------------------------------------------------
Arrive(c, op, t, l) ==
  /\ call[c].pc = "idle" /\ count < MaxCalls
  /\ call' = [call EXCEPT ![c] = [Idle EXCEPT !.pc = l, !.op = op, !.meant = t]]
  /\ count' = count + 1
  /\ UNCHANGED <<tenants, rows, current, bypass, cls, script, faults>>

\* TenantResolutionMiddleware: the tenant of the host, or 404.
Resolve(c) ==
  /\ call[c].pc = "resolve" /\ Free # {}
  /\ IF call[c].meant \in tenants THEN SetContext(c, call[c].meant) /\ Goto(c, "handle") ELSE Return(c)
  /\ UNCHANGED <<tenants, rows, current, bypass, script, count, faults>>

\* resolveTenantId, of the account that a webhook names: a transaction that may
\* see the configurations of all tenants.
BeginLookup(c, k) ==
  /\ call[c].pc = "account" /\ k \in Free
  /\ call' = [call EXCEPT ![c] = [@ EXCEPT !.pc = "bypass", !.conn = k]]
  /\ UNCHANGED <<tenants, rows, current, bypass, cls, script, count, faults>>

SetBypass(c) ==
  /\ call[c].pc = "bypass"
  /\ bypass' = [bypass EXCEPT ![Conn(c)] = TRUE] /\ Goto(c, "find")
  /\ UNCHANGED <<tenants, rows, current, cls, script, count, faults>>

\* Of the tenants in H the call c may work for any; the query takes the first.
WorkFor(c, H, t) ==
  /\ t \in H
  /\ call' = [call EXCEPT ![c] = [@ EXCEPT !.pc = "queued", !.conn = NoConn, !.meant = t, !.points = H]]
  /\ SetContext(c, t)

\* H have the account as account_ref in payment_provider_configs: the column is not
\* unique, and neither the provider nor enabled is asked for.
Configured(c, H) == { t \in H : bypass[Conn(c)] \/ t = current[Conn(c)] }

FindAccount(c, H) ==
  /\ call[c].pc = "find"
  /\ \/ \E t \in Tenants : WorkFor(c, Configured(c, H), t)
     \/ Configured(c, H) = {} /\ Leave(c, "named") /\ UNCHANGED cls
  /\ EndOn(Conn(c))
  /\ UNCHANGED <<tenants, rows, script, count, faults>>

\* Not found, or not read for an error: the account may be the host, the name or
\* the id of a tenant, or of several, N. Otherwise 404.
FindNamed(c, N) ==
  /\ call[c].pc = "named" /\ Free # {}
  /\ (\E t \in Tenants : WorkFor(c, N, t)) \/ (N = {} /\ Return(c))
  /\ UNCHANGED <<tenants, rows, current, bypass, script, count, faults>>

\* The expiry job: the tenants there are, and a context for each in turn.
ListTenants(c) ==
  /\ call[c].pc = "list" /\ Free # {}
  /\ call' = [call EXCEPT ![c] = [@ EXCEPT !.pc = "jobs", !.left = tenants]]
  /\ UNCHANGED <<tenants, rows, current, bypass, cls, script, count, faults>>

NextTenant(c, t) ==
  /\ call[c].pc = "jobs" /\ t \in call[c].left
  /\ call' = [call EXCEPT ![c] = [@ EXCEPT !.pc = "queued", !.meant = t, !.read = {}, !.left = call[c].left \ {t}]]
  /\ SetContext(c, t)
  /\ UNCHANGED <<tenants, rows, current, bypass, script, count, faults>>

End(c) ==
  /\ call[c].pc = "handle" \/ (call[c].pc = "jobs" /\ call[c].left = {})
  /\ Return(c)
  /\ UNCHANGED <<tenants, rows, current, bypass, script, count, faults>>

--------------------------------------------------------------------------------
\* tenantDb.run: withTenant refuses a context without a tenant.
Run(c) ==
  /\ call[c].pc = "handle" /\ cls[c] # NoTenant
  /\ Goto(c, "queued")
  /\ UNCHANGED <<tenants, rows, current, bypass, cls, script, count, faults>>

Begin(c, k) ==
  /\ call[c].pc = "queued" /\ k \in Free
  /\ call' = [call EXCEPT ![c] = [@ EXCEPT !.pc = "opened", !.conn = k]]
  /\ UNCHANGED <<tenants, rows, current, bypass, cls, script, count, faults>>

SetTenant(c) ==
  /\ call[c].pc = "opened"
  /\ current' = [current EXCEPT ![Conn(c)] = cls[c]] /\ Goto(c, "work")
  /\ UNCHANGED <<tenants, rows, bypass, cls, script, count, faults>>

\* The first statement of the expiry job is the locked read of Orders' ExpiryRefused:
\* its transactions can only throw.
Works(c) == call[c].pc = "work" /\ call[c].op # "job"

Find(c) ==
  /\ Works(c)
  /\ call' = [call EXCEPT ![c] = [@ EXCEPT !.read = call[c].read \cup { r.tenant : r \in Visible(c) }]]
  /\ UNCHANGED <<tenants, rows, current, bypass, cls, script, count, faults>>

\* The services take the tenant of a new row from the context; the policy's
\* WITH CHECK compares it with the setting.
Insert(c) ==
  /\ Works(c) /\ cls[c] = current[Conn(c)]
  /\ call' = [call EXCEPT ![c] = [@ EXCEPT !.wrote = call[c].wrote \cup {[kind |-> "data", tenant |-> cls[c], by |-> call[c].meant]}]]
  /\ UNCHANGED <<tenants, rows, current, bypass, cls, script, count, faults>>

\* Mutant: no caller passes its manager.
Passed_Never(c) == FALSE

\* getSettings: in the transaction of the caller, which passes its manager, or
\* else in one of its own. Without a row it throws.
Passed(c) == Conn(c) # NoConn

GetSettings(c) ==
  /\ call[c].op = "request" /\ call[c].pc = "work"
  /\ IF Passed(c)
     THEN /\ \E r \in Visible(c) : r.kind = "settings"
          /\ call' = [call EXCEPT ![c] = [@ EXCEPT !.read = call[c].read \cup { r.tenant : r \in Visible(c) }]]
     ELSE Goto(c, "queued")
  /\ UNCHANGED <<tenants, rows, current, bypass, cls, script, count, faults>>

Commit(c) ==
  /\ Works(c)
  /\ rows' = rows \cup call[c].wrote
  /\ IF call[c].op = "request" THEN Leave(c, "handle") /\ UNCHANGED cls ELSE Return(c)
  /\ EndOn(Conn(c))
  /\ UNCHANGED <<tenants, script, count, faults>>

\* The work of a transaction throws, and it is rolled back.
Throw(c) ==
  /\ call[c].pc = "work"
  /\ Failed(c) /\ EndOn(Conn(c))
  /\ UNCHANGED <<tenants, rows, script, count, faults>>

\* No connection within connectionTimeoutMillis.
TimeOut(c) ==
  /\ Waiting(c) /\ Free = {}
  /\ Failed(c) /\ EndOn(Conn(c))
  /\ UNCHANGED <<tenants, rows, script, count, faults>>

\* A connection breaks; the pool opens another, which has no settings.
Lose(k) ==
  /\ faults < MaxFaults /\ faults' = faults + 1
  /\ current' = [current EXCEPT ![k] = Unset] /\ bypass' = [bypass EXCEPT ![k] = FALSE]
  /\ \/ k \in Free /\ UNCHANGED <<call, cls>>
     \/ \E c \in Calls : k = Conn(c) /\ Failed(c)
  /\ UNCHANGED <<tenants, rows, script, count>>

--------------------------------------------------------------------------------
\* scripts/create-tenant.ts, on a connection of its own. It stops when the host
\* is taken; a crash rolls its transaction back.
Others == <<current, bypass, cls, call, count, faults>>

AddTenant(t) ==
  /\ script.pc = "idle" /\ t \notin tenants
  /\ script' = [pc |-> "insert", tenant |-> t]
  /\ UNCHANGED <<tenants, rows, Others>>

\* The tenant is not visible before the transaction that inserts it commits.
InsertTenant ==
  /\ script.pc = "insert"
  /\ script' = [script EXCEPT !.pc = "settings"]
  /\ UNCHANGED <<tenants, rows, Others>>

CommitTenant ==
  /\ script.pc = "settings"
  /\ tenants' = tenants \cup {script.tenant} /\ rows' = rows \cup {Settings(script.tenant)}
  /\ script' = NoScript
  /\ UNCHANGED Others

CrashScript ==
  /\ script.pc # "idle" /\ script' = NoScript
  /\ UNCHANGED <<tenants, rows, Others>>

--------------------------------------------------------------------------------
Call(c) ==
  \/ \E t \in Tenants : Arrive(c, "request", t, "resolve")
  \/ Arrive(c, "webhook", NoTenant, "account")
  \/ Arrive(c, "job", NoTenant, "list")
  \/ \E k \in Pool : BeginLookup(c, k) \/ Begin(c, k)
  \/ Resolve(c) \/ SetBypass(c)
  \/ \E H \in SUBSET tenants : FindAccount(c, H) \/ FindNamed(c, H)
  \/ ListTenants(c) \/ (\E t \in Tenants : NextTenant(c, t)) \/ End(c)
  \/ Run(c) \/ SetTenant(c) \/ Find(c) \/ Insert(c) \/ GetSettings(c)
  \/ Commit(c) \/ Throw(c) \/ TimeOut(c)

Next ==
  \/ \E c \in Calls : Call(c)
  \/ \E k \in Pool : Lose(k)
  \/ \E t \in Tenants : AddTenant(t)
  \/ InsertTenant \/ CommitTenant \/ CrashScript

Spec == Init /\ [][Next]_vars

--------------------------------------------------------------------------------
(* A row belongs to the tenant it was written for, a call is given rows of the *)
(* tenant it works for only, and its transactions find the settings of that   *)
(* tenant, also while the tenant is being created. A webhook works for one of *)
(* the tenants that its account points at, so for the right one only when     *)
(* there are no two (withTenant, resolveTenantId, expireOrdersForTenant,      *)
(* create-tenant.ts).                                                         *)
TenantsApart ==
  /\ \A r \in rows : r.tenant = r.by
  /\ \A c \in Calls :
       /\ call[c].read \subseteq {call[c].meant}
       /\ call[c].pc = "work" => Settings(call[c].meant) \in Visible(c)
       /\ call[c].op = "webhook" =>
            cls[c] \in call[c].points \cup {NoTenant}

(* The pool never waits for itself: while calls wait for a connection and none *)
(* is free, one of those that hold them can go on without another (getSettings *)
(* inside a transaction, TenantDbService.run).                                *)
PoolMoves ==
  (\E c \in Calls : Waiting(c)) /\ Free = {}
    => \E c \in Calls : Conn(c) # NoConn /\ ~Waiting(c)
================================================================================
