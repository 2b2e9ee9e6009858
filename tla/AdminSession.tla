------------------------------ MODULE AdminSession ------------------------------
(***************************************************************************)
(* The session of the admin web in one browser tab: requests that meet an  *)
(* expired access token, the refresh they share, and what the client does  *)
(* when the refresh fails. Of the server it keeps the tokens: each refresh *)
(* token is good once, and a second use ends its family (module Sessions). *)
(***************************************************************************)
EXTENDS Integers, Sequences, FiniteSets, SequencesExt

CONSTANTS
  Queries, Uploads,    \* requests through baseQueryWithReauth, and through axios
  MaxTokens,           \* bound: pairs of tokens; the last one is not renewed
  MaxSends, MaxFaults  \* bounds: requests, and answers that are lost

\* The guards of the routes keep a query of getMe mounted. A cache that is reset
\* makes it start anew while the request of before may still run: two slots.
Me       == {"me1", "me2"}
Requests == Queries \cup Uploads \cup Me

VARIABLES
  tokens,  \* pairs of an access and a refresh token: family, used
  valid,   \* access tokens that have not expired
  dead,    \* families that have been revoked or have expired
  cookie,  \* the pair that the browser holds, or 0
  auth,    \* authSlice: isAuthenticated
  me,      \* cache entry of getMe
  mine,    \* and the slot of its request
  route,   \* guard that is mounted: RequireAuth or PublicOnlyRoute
  req,     \* the requests
  refresh, \* refreshes on their way, by the request that started them,
  joined,  \* and the requests that await each, in the order they came
  resets,  \* resets of the cache that are due
  reused, lost, \* history: a refresh token was used twice; an answer got lost
  sends, faults

server  == <<tokens, valid, dead>>
client  == <<cookie, auth, me, mine, route>>
traffic == <<req, refresh, joined>>
history == <<reused, lost>>
bounds  == <<sends, faults>>
vars    == <<server, client, traffic, resets, history, bounds>>

NoRequest == [pc |-> "idle", token |-> 0, attempt |-> 1]
NoRefresh == [pc |-> "off", token |-> 0]

Init ==
  /\ tokens = <<[fam |-> 1, used |-> FALSE]>> /\ valid = {1} /\ dead = {}
  /\ cookie = 1 /\ auth = FALSE /\ me = "none" /\ mine = "me1" /\ route = "app"
  /\ req = [r \in Requests |-> NoRequest] /\ refresh = [r \in Requests |-> NoRefresh]
  /\ joined = [r \in Requests |-> <<>>] /\ resets = 0
  /\ reused = FALSE /\ lost = FALSE /\ sends = 0 /\ faults = 0

--------------------------------------------------------------------------------
(* What a getMe that ends does: the reducers of authSlice, and the guards.  *)

\* A failed getMe brings the login page, whose guard asks once more.
MeFails  == me' = (IF route = "app" THEN "none" ELSE "error") /\ route' = "login"
MeOk     == me' = "ok" /\ route' = "app"
Current(r) == r = mine /\ me = "loading"

Sent(r, n) == [req EXCEPT ![r] = [pc |-> "sent", token |-> cookie, attempt |-> n]]

SendMe(r) ==
  /\ r \in Me /\ me = "none" /\ req[r].pc = "idle"
  /\ me' = "loading" /\ mine' = r /\ req' = Sent(r, 1)
  /\ UNCHANGED <<server, cookie, auth, route, refresh, joined, resets, history, bounds>>

Send(r) ==
  /\ r \notin Me /\ req[r].pc = "idle" /\ route = "app" /\ me = "ok" /\ sends < MaxSends
  /\ sends' = sends + 1 /\ req' = Sent(r, 1)
  /\ UNCHANGED <<server, client, refresh, joined, resets, history, faults>>

Serve(r) ==
  /\ req[r].pc = "sent"
  /\ req' = [req EXCEPT ![r].pc = IF req[r].token \in valid THEN "ok" ELSE "401"]
  /\ UNCHANGED <<server, client, refresh, joined, resets, history, bounds>>

\* The request ends, other than by a failed refresh.
End(r, ok) ==
  /\ req' = [req EXCEPT ![r] = NoRequest]
  /\ auth' = IF r \in Me THEN ok ELSE auth
  /\ IF ~Current(r) THEN UNCHANGED <<me, route>> ELSE IF ok THEN MeOk ELSE MeFails
  /\ UNCHANGED <<server, cookie, mine, refresh, joined, resets, history, sends>>

Answered(r) == req[r].pc = "ok" /\ End(r, TRUE) /\ UNCHANGED faults

\* Still 401 after a refresh: no further attempt.
GivesUp(r) == req[r].pc = "401" /\ req[r].attempt = 2 /\ End(r, FALSE) /\ UNCHANGED faults

Fails(r) ==
  /\ req[r].pc \in {"sent", "ok", "401"} /\ faults < MaxFaults /\ faults' = faults + 1
  /\ End(r, FALSE)

--------------------------------------------------------------------------------
(* withSingleFlightRefresh.                                                *)

InFlight == { l \in Requests : refresh[l].pc # "off" }

\* The request whose refresh r awaits: the one in flight, or else its own.
Leader_Self(r) == r
Leader(r) == IF InFlight = {} THEN r ELSE CHOOSE l \in InFlight : TRUE

Join(r) ==
  /\ req[r].pc = "401" /\ req[r].attempt = 1
  /\ req' = [req EXCEPT ![r].pc = "waiting"]
  /\ LET l == Leader(r)
     IN  /\ joined' = [joined EXCEPT ![l] = Append(@, r)]
         /\ refresh' = IF refresh[l].pc # "off" THEN refresh
                       ELSE [refresh EXCEPT ![l] = [pc |-> "sent", token |-> cookie]]
  /\ UNCHANGED <<server, client, resets, history, bounds>>

\* The server: a token that was used before ends its family.
ServeRefresh(l) ==
  /\ refresh[l].pc = "sent"
  /\ LET n == refresh[l].token
         new == Len(tokens) + 1
         live == n # 0 /\ tokens[n].fam \notin dead
     IN  IF live /\ ~tokens[n].used /\ new <= MaxTokens
         THEN /\ tokens' = Append([tokens EXCEPT ![n].used = TRUE], [fam |-> tokens[n].fam, used |-> FALSE])
              /\ valid' = valid \cup {new}
              /\ refresh' = [refresh EXCEPT ![l] = [pc |-> "ok", token |-> new]]
              /\ UNCHANGED <<dead, reused>>
         ELSE /\ dead' = IF live THEN dead \cup {tokens[n].fam} ELSE dead
              /\ reused' = (reused \/ (live /\ tokens[n].used))
              /\ refresh' = [refresh EXCEPT ![l].pc = "401"]
              /\ UNCHANGED <<tokens, valid>>
  /\ UNCHANGED <<client, req, joined, resets, lost, bounds>>

\* All who await it go on with the new cookies.
Refreshed(l) ==
  /\ refresh[l].pc = "ok"
  /\ cookie' = refresh[l].token
  /\ req' = [r \in Requests |-> IF r \in ToSet(joined[l])
                                THEN [pc |-> "sent", token |-> refresh[l].token, attempt |-> 2] ELSE req[r]]
  /\ refresh' = [refresh EXCEPT ![l] = NoRefresh] /\ joined' = [joined EXCEPT ![l] = <<>>]
  /\ UNCHANGED <<server, auth, me, mine, route, resets, history, bounds>>

\* The cache is to be reset by the first of them, if it was logged in until then
\* and is no upload.
ResetDue_Always(l) == \E r \in ToSet(joined[l]) : r \notin Uploads
ResetDue(l) == auth /\ joined[l][1] \notin Uploads

LogOut(l) ==
  /\ LET J == ToSet(joined[l])
     IN  /\ auth' = FALSE
         /\ resets' = IF ResetDue(l) THEN resets + 1 ELSE resets
         /\ req' = [r \in Requests |-> IF r \in J THEN NoRequest ELSE req[r]]
         /\ IF \E r \in J : Current(r) THEN MeFails ELSE UNCHANGED <<me, route>>
  /\ refresh' = [refresh EXCEPT ![l] = NoRefresh] /\ joined' = [joined EXCEPT ![l] = <<>>]
  /\ UNCHANGED <<server, cookie, mine, reused, sends>>

RefreshFails(l) == refresh[l].pc = "401" /\ LogOut(l) /\ UNCHANGED <<lost, faults>>

RefreshLost(l) ==
  /\ refresh[l].pc \in {"sent", "ok"} /\ faults < MaxFaults
  /\ faults' = faults + 1 /\ lost' = TRUE /\ LogOut(l)

\* setTimeout: every mounted query starts anew.
Reset ==
  /\ resets > 0 /\ resets' = resets - 1
  /\ me' = "none"
  /\ UNCHANGED <<server, cookie, auth, mine, route, traffic, history, bounds>>

--------------------------------------------------------------------------------
(* The user, and time.                                                     *)

Login ==
  /\ route = "login" /\ me = "error" /\ Len(tokens) < MaxTokens /\ sends < MaxSends
  /\ tokens' = Append(tokens, [fam |-> Len(tokens) + 1, used |-> FALSE])
  /\ valid' = valid \cup {Len(tokens) + 1} /\ cookie' = Len(tokens) + 1
  /\ me' = "none" /\ sends' = sends + 1
  /\ UNCHANGED <<dead, auth, mine, route, traffic, resets, history, faults>>

Logout ==
  /\ route = "app" /\ me = "ok" /\ sends < MaxSends /\ sends' = sends + 1
  /\ dead' = IF cookie = 0 THEN dead ELSE dead \cup {tokens[cookie].fam}
  /\ cookie' = 0 /\ auth' = FALSE /\ me' = "none" /\ route' = "login"
  /\ UNCHANGED <<tokens, valid, mine, traffic, resets, history, faults>>

Expire(n) ==
  /\ n \in valid /\ valid' = valid \ {n}
  /\ UNCHANGED <<tokens, dead, client, traffic, resets, history, bounds>>

\* The refresh token expires, or the family is revoked elsewhere.
Die(n) ==
  /\ n \in DOMAIN tokens /\ tokens[n].fam \notin dead
  /\ dead' = dead \cup {tokens[n].fam}
  /\ UNCHANGED <<tokens, valid, client, traffic, resets, history, bounds>>

Progress ==
  \/ Reset
  \/ \E r \in Requests : \/ SendMe(r) \/ Serve(r) \/ Answered(r) \/ GivesUp(r)
                         \/ Join(r) \/ ServeRefresh(r) \/ Refreshed(r) \/ RefreshFails(r)

Next ==
  \/ Progress
  \/ \E r \in Requests : Send(r) \/ Fails(r) \/ RefreshLost(r)
  \/ Login \/ Logout
  \/ \E n \in DOMAIN tokens : Expire(n) \/ Die(n)

\* The browser runs what is due, and a request gets an answer or an error.
Spec == Init /\ [][Next]_vars /\ WF_vars(Progress)

--------------------------------------------------------------------------------
TypeOK ==
  /\ tokens \in Seq([fam : 1..MaxTokens, used : BOOLEAN]) /\ valid \in SUBSET (1..MaxTokens)
  /\ dead \in SUBSET (1..MaxTokens) /\ cookie \in 0..MaxTokens /\ auth \in BOOLEAN
  /\ me \in {"none", "loading", "ok", "error"} /\ mine \in Me /\ route \in {"app", "login"}
  /\ req \in [Requests -> [pc : {"idle", "sent", "ok", "401", "waiting"}, token : 0..MaxTokens, attempt : 1..2]]
  /\ refresh \in [Requests -> [pc : {"off", "sent", "ok", "401"}, token : 0..MaxTokens]]
  /\ joined \in [Requests -> Seq(Requests)] /\ resets \in Nat
  /\ reused \in BOOLEAN /\ lost \in BOOLEAN /\ sends \in Nat /\ faults \in Nat

(* The client never ends its own session: it uses no refresh token twice, as long *)
(* as the answer to a refresh has not been lost (refresh-session-lock.ts).        *)
NoSelfReuse == reused => lost

(* A dead session does not keep the client busy: once the user stops, requests,   *)
(* refreshes and resets of the cache come to an end, whatever has expired or was  *)
(* revoked (baseQueryWithReauth: the reset fires once per session death).         *)
Quiet == /\ \A r \in Requests : req[r].pc = "idle" /\ refresh[r].pc = "off"
         /\ resets = 0 /\ me # "none"
ComesToRest == <>[]Quiet

(* A client that has logged out says so: the guard does not go on showing the     *)
(* app from the cached getMe (baseQueryWithReauth, uploadVariantImage).           *)
LogoutShown == (~auth /\ me = "ok") ~> (auth \/ me # "ok")
================================================================================
