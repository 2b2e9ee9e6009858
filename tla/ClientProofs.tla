------------------------------- MODULE ClientProofs -------------------------------
(***************************************************************************)
(* What holds of the admin web for any number of requests, tokens, files   *)
(* and tasks: of its session, and of its upload manager.                   *)
(***************************************************************************)
EXTENDS MCClient, SequenceTheorems, Sums, TLAPS

--------------------------------------------------------------------------------
(* The session of a tab.                                                   *)

Spent(n) == n # 0 /\ tokens[n].used

\* One refresh is in flight at most. The token that it presents has not been
\* used, nor has the one that it brings, and the cookie has been used only when
\* its successor is on the way: unless an answer was lost.
Pair      == [fam : Nat, used : BOOLEAN]
Flight(n) == [pc : {"off", "sent", "ok", "401"}, token : 0..n]

SessionTypes ==
  /\ tokens \in Seq(Pair) /\ cookie \in 0..Len(tokens)
  /\ renewal \in [AS!Requests -> Flight(Len(tokens))]
  /\ reused \in BOOLEAN /\ lost \in BOOLEAN

OneFlight == \A k, l \in AS!InFlight : k = l

TokensFresh ==
  /\ \A l \in AS!InFlight : renewal[l].pc \in {"sent", "ok"} => ~Spent(renewal[l].token)
  /\ Spent(cookie) => \E l \in AS!InFlight : renewal[l].pc = "ok"

SessionInv == /\ SessionTypes /\ OneFlight
              /\ ~lost => ~reused /\ TokensFresh

LEMMA SessionInit == AS!Init => SessionInv
<1> SUFFICES ASSUME AS!Init PROVE SessionInv
  OBVIOUS
<1>1. SessionTypes
  <2> DEFINE pair == [fam |-> 1, used |-> FALSE]
  <2>1. tokens = <<pair>> /\ cookie = 1 /\ reused = FALSE /\ lost = FALSE
    BY DEF AS!Init
  <2>2. pair \in Pair
    BY DEF Pair
  <2>3. renewal \in [AS!Requests -> Flight(1)]
    BY DEF AS!Init, AS!NoRefresh, Flight
  <2> HIDE DEF pair
  <2>4. tokens \in Seq(Pair) /\ Len(tokens) = 1
    BY <2>1, <2>2
  <2>5. Flight(Len(tokens)) = Flight(1) /\ cookie \in 0..Len(tokens)
    BY <2>1, <2>4
  <2> QED
    BY <2>1, <2>3, <2>4, <2>5 DEF SessionTypes
<1>2. AS!InFlight = {}
  BY DEF AS!Init, AS!NoRefresh, AS!InFlight
<1>3. ~Spent(cookie)
  BY DEF AS!Init, Spent
<1> QED
  BY <1>1, <1>2, <1>3 DEF SessionInv, OneFlight, TokensFresh, AS!Init

\* A step that leaves the tokens, the cookie and the refreshes alone.
LEMMA SessionStays ==
  ASSUME SessionInv, UNCHANGED <<tokens, cookie, renewal, reused, lost>>
  PROVE  SessionInv'
BY DEF SessionInv, SessionTypes, OneFlight, TokensFresh, Spent, AS!InFlight

\* The first request to be refused presents the cookie, the others wait for it.
LEMMA JoinKeeps == ASSUME SessionInv, NEW r \in AS!Requests, AS!Join(r) PROVE SessionInv'
<1> DEFINE l == AS!Leader(r)
<1>1. l \in AS!Requests /\ (AS!InFlight # {} => l \in AS!InFlight)
  BY DEF AS!Leader, AS!InFlight
<1>2. UNCHANGED <<tokens, cookie, reused, lost>>
  BY DEF AS!Join, AS!server, AS!client, AS!history
<1>3. renewal' = IF renewal[l].pc # "off" THEN renewal
                 ELSE [renewal EXCEPT ![l] = [pc |-> "sent", token |-> cookie]]
  BY DEF AS!Join
<1>4. CASE renewal' = renewal
  BY <1>2, <1>4, SessionStays
<1>5. CASE AS!InFlight = {} /\ renewal' = [renewal EXCEPT ![l] = [pc |-> "sent", token |-> cookie]]
  <2>1. AS!InFlight' = {l}
    BY <1>1, <1>5 DEF AS!InFlight, SessionInv, SessionTypes
  <2>2. SessionTypes'
    BY <1>1, <1>2, <1>5 DEF SessionInv, SessionTypes, Flight, Pair
  <2>3. ~lost => ~Spent(cookie)
    BY <1>5 DEF SessionInv, TokensFresh
  <2> QED
    BY <1>1, <1>2, <1>5, <2>1, <2>2, <2>3 DEF SessionInv, SessionTypes, OneFlight, TokensFresh, Spent
<1> QED
  BY <1>1, <1>3, <1>4, <1>5 DEF AS!InFlight

LEMMA ServeKeeps == ASSUME SessionInv, NEW l \in AS!Requests, AS!ServeRefresh(l) PROVE SessionInv'
<1> DEFINE n == renewal[l].token
           new == Len(tokens) + 1
           live == n # 0 /\ tokens[n].fam \notin dead
<1>1. /\ l \in AS!InFlight /\ n \in 0..Len(tokens) /\ cookie' = cookie /\ lost' = lost
      /\ cookie \in 0..Len(tokens)
      /\ Len(tokens) \in Nat /\ \A i \in 1..Len(tokens) : tokens[i] \in Pair
  <2>1. renewal[l].pc = "sent" /\ cookie' = cookie /\ lost' = lost
    BY DEF AS!ServeRefresh, AS!client
  <2>2. l \in AS!InFlight
    BY <2>1 DEF AS!InFlight
  <2>3. Len(tokens) \in Nat /\ \A i \in 1..Len(tokens) : tokens[i] \in Pair
    BY DEF SessionInv, SessionTypes
  <2>4. n \in 0..Len(tokens) /\ cookie \in 0..Len(tokens)
    BY DEF SessionInv, SessionTypes, Flight
  <2> QED
    BY <2>1, <2>2, <2>3, <2>4
<1>2. CASE live /\ ~tokens[n].used /\ new <= MaxTokens
  <2>1. /\ tokens' = Append([tokens EXCEPT ![n].used = TRUE], [fam |-> tokens[n].fam, used |-> FALSE])
        /\ renewal' = [renewal EXCEPT ![l] = [pc |-> "ok", token |-> new]]
        /\ reused' = reused
    BY <1>2 DEF AS!ServeRefresh
  <2>2. n \in 1..Len(tokens)
    BY <1>1, <1>2
  <2>3. /\ tokens' \in Seq(Pair) /\ Len(tokens') = new
        /\ \A i \in 1..Len(tokens) : tokens'[i] = IF i = n THEN [tokens[n] EXCEPT !.used = TRUE] ELSE tokens[i]
        /\ tokens'[new] = [fam |-> tokens[n].fam, used |-> FALSE]
    <3> DEFINE spent == [tokens EXCEPT ![n].used = TRUE]
               pair  == [fam |-> tokens[n].fam, used |-> FALSE]
    <3>1. [tokens[n] EXCEPT !.used = TRUE] \in Pair
      BY <1>1, <2>2 DEF Pair
    <3>2. /\ spent \in Seq(Pair) /\ Len(spent) = Len(tokens)
          /\ \A i \in 1..Len(tokens) : spent[i] = IF i = n THEN [tokens[n] EXCEPT !.used = TRUE] ELSE tokens[i]
      BY <1>1, <2>2, <3>1, ExceptSeq DEF SessionInv, SessionTypes
    <3>6. pair \in Pair
      BY <1>1, <2>2 DEF Pair
    <3>3. tokens' = Append(spent, pair)
      BY <2>1
    <3> HIDE DEF spent, pair
    <3>4. /\ tokens' \in Seq(Pair) /\ Len(tokens') = new
          /\ \A i \in 1..Len(tokens) : tokens'[i] = spent[i]
          /\ tokens'[new] = pair
      BY <1>1, <3>2, <3>6, <3>3
    <3> QED
      BY <3>2, <3>4 DEF pair
  <2>4. SessionTypes' /\ renewal'[l] = [pc |-> "ok", token |-> new]
    BY <1>1, <2>1, <2>3 DEF SessionInv, SessionTypes, Flight, Pair
  <2>5. AS!InFlight' = {l}
    BY <1>1, <2>1 DEF AS!InFlight, SessionInv, SessionTypes, OneFlight
  <2>6. ~tokens'[new].used
    BY <2>3
  <2> QED
    BY <1>1, <2>1, <2>4, <2>5, <2>6 DEF SessionInv, OneFlight, TokensFresh, Spent
<1>3. CASE ~(live /\ ~tokens[n].used /\ new <= MaxTokens)
  <2>1. /\ tokens' = tokens /\ renewal' = [renewal EXCEPT ![l].pc = "401"]
        /\ reused' = (reused \/ (live /\ tokens[n].used))
    BY <1>3 DEF AS!ServeRefresh
  <2>2. SessionTypes' /\ renewal'[l].pc = "401"
    BY <1>1, <2>1 DEF SessionInv, SessionTypes, Flight, Pair
  <2>3. AS!InFlight' = {l}
    BY <1>1, <2>1 DEF AS!InFlight, SessionInv, SessionTypes, OneFlight
  <2>4. ~lost => ~Spent(n) /\ ~Spent(cookie)
    BY <1>1 DEF SessionInv, OneFlight, TokensFresh, AS!ServeRefresh
  <2> QED
    BY <1>1, <2>1, <2>2, <2>3, <2>4 DEF SessionInv, OneFlight, TokensFresh, Spent
<1> QED
  BY <1>2, <1>3

LEMMA RefreshedKeeps == ASSUME SessionInv, NEW l \in AS!Requests, AS!Refreshed(l) PROVE SessionInv'
<1>1. /\ l \in AS!InFlight /\ cookie' = renewal[l].token /\ renewal[l].pc = "ok"
      /\ renewal' = [renewal EXCEPT ![l] = AS!NoRefresh]
      /\ UNCHANGED <<tokens, reused, lost>>
  BY DEF AS!Refreshed, AS!InFlight, AS!server, AS!history
<1>2. AS!InFlight' = {}
  BY <1>1 DEF AS!InFlight, SessionInv, SessionTypes, OneFlight, AS!NoRefresh
<1>3. SessionTypes'
  BY <1>1 DEF SessionInv, SessionTypes, Flight, Pair, AS!NoRefresh
<1> QED
  BY <1>1, <1>2, <1>3 DEF SessionInv, OneFlight, TokensFresh, Spent

\* The cookie of a client that logs itself out is the one it has presented.
LEMMA LogOutKeeps ==
  ASSUME SessionInv, NEW l \in AS!Requests, AS!LogOut(l),
         \/ renewal[l].pc = "401" /\ lost' = lost
         \/ renewal[l].pc \in {"sent", "ok"} /\ lost' = TRUE
  PROVE  SessionInv'
<1>1. /\ l \in AS!InFlight /\ renewal' = [renewal EXCEPT ![l] = AS!NoRefresh]
      /\ UNCHANGED <<tokens, cookie, reused>>
  BY DEF AS!LogOut, AS!InFlight, AS!server
<1>2. AS!InFlight' = {}
  BY <1>1 DEF AS!InFlight, SessionInv, SessionTypes, OneFlight, AS!NoRefresh
<1>3. SessionTypes'
  <2>1. lost' \in BOOLEAN
    BY DEF SessionInv, SessionTypes, Flight, Pair
  <2> QED
    BY <1>1, <2>1 DEF SessionInv, SessionTypes, Flight, Pair, AS!NoRefresh
<1>4. ~lost' => ~Spent(cookie)
  BY <1>1 DEF SessionInv, SessionTypes, OneFlight, TokensFresh
<1> QED
  BY <1>1, <1>2, <1>3, <1>4 DEF SessionInv, SessionTypes, OneFlight, TokensFresh, Spent

LEMMA LoginKeeps == ASSUME SessionInv, AS!Login PROVE SessionInv'
<1> DEFINE new == Len(tokens) + 1
           pair == [fam |-> new, used |-> FALSE]
<1>1. tokens' = Append(tokens, pair) /\ cookie' = new /\ UNCHANGED <<renewal, reused, lost>>
  BY DEF AS!Login, AS!traffic, AS!history
<1>2. Len(tokens) \in Nat /\ pair \in Pair
  BY DEF SessionInv, SessionTypes, Flight, Pair
<1> HIDE DEF pair
<1>3. /\ tokens' \in Seq(Pair) /\ Len(tokens') = new
      /\ \A i \in 1..Len(tokens) : tokens'[i] = tokens[i]
      /\ tokens'[new] = pair
  BY <1>1, <1>2 DEF SessionInv, SessionTypes, Flight, Pair
<1>7. renewal' \in [AS!Requests -> Flight(new)] /\ reused' \in BOOLEAN /\ lost' \in BOOLEAN
  <2>1. Flight(Len(tokens)) \subseteq Flight(new)
    BY <1>2 DEF Flight
  <2> QED
    BY <1>1, <2>1 DEF SessionInv, SessionTypes
<1>4. SessionTypes' /\ AS!InFlight' = AS!InFlight
  BY <1>1, <1>2, <1>3, <1>7 DEF SessionTypes, AS!InFlight
<1>5. \A l \in AS!InFlight : Spent(renewal[l].token)' <=> Spent(renewal[l].token)
  <2>1. \A l \in AS!InFlight : renewal[l].token \in 0..Len(tokens)
    BY DEF SessionInv, SessionTypes, Flight, AS!InFlight
  <2> QED
    BY <1>1, <1>2, <1>3, <2>1 DEF Spent
<1>6. ~Spent(cookie)'
  BY <1>1, <1>3 DEF Spent, pair
<1> QED
  BY <1>1, <1>4, <1>5, <1>6 DEF SessionInv, OneFlight, TokensFresh

LEMMA SessionNext == SessionInv /\ [AS!Next]_AS!vars => SessionInv'
<1> SUFFICES ASSUME SessionInv, [AS!Next]_AS!vars PROVE SessionInv'
  OBVIOUS
<1>1. CASE UNCHANGED AS!vars
  BY <1>1, SessionStays DEF AS!vars, AS!server, AS!client, AS!traffic, AS!history
<1>2. CASE AS!Reset
  BY <1>2, SessionStays DEF AS!Reset, AS!server, AS!traffic, AS!history
<1>3. ASSUME NEW r \in AS!Requests,
             \/ AS!SendMe(r) \/ AS!Serve(r) \/ AS!Answered(r) \/ AS!GivesUp(r)
             \/ AS!Send(r) \/ AS!Fails(r)
      PROVE  SessionInv'
  BY <1>3, SessionStays
     DEF AS!SendMe, AS!Serve, AS!Answered, AS!GivesUp, AS!Send, AS!Fails, AS!End, AS!server, AS!client, AS!history
<1>4. ASSUME NEW r \in AS!Requests, AS!RefreshFails(r) PROVE SessionInv'
  BY <1>4, LogOutKeeps DEF AS!RefreshFails
<1>5. ASSUME NEW r \in AS!Requests, AS!RefreshLost(r) PROVE SessionInv'
  BY <1>5, LogOutKeeps DEF AS!RefreshLost
<1>6. CASE AS!Logout
  <2>1. cookie' = 0 /\ UNCHANGED <<tokens, renewal, reused, lost>>
    BY <1>6 DEF AS!Logout, AS!traffic, AS!history
  <2> QED
    BY <2>1 DEF SessionInv, SessionTypes, OneFlight, TokensFresh, Spent, AS!InFlight
<1>7. ASSUME NEW n \in DOMAIN tokens, AS!Expire(n) \/ AS!Die(n) PROVE SessionInv'
  BY <1>7, SessionStays DEF AS!Expire, AS!Die, AS!client, AS!traffic, AS!history
<1> QED
  BY <1>1, <1>2, <1>3, <1>4, <1>5, <1>6, <1>7, JoinKeeps, ServeKeeps, RefreshedKeeps, LoginKeeps
     DEF AS!Next, AS!Progress

(* However many requests meet an expired token at once, and whatever logins    *)
(* and logouts come between, the client uses no refresh token twice unless an  *)
(* answer got lost (withSingleFlightRefresh).                                  *)
THEOREM RefreshedOnce == AS!Spec => []NoSelfReuse
<1>1. SessionInv => NoSelfReuse
  BY DEF SessionInv, NoSelfReuse, AS!NoSelfReuse
<1> QED
  BY <1>1, SessionInit, SessionNext, PTL DEF AS!Spec

--------------------------------------------------------------------------------
(* What Filter returns.                                                    *)

\* g is the function by which Filter(s, S) is computed, up to place n.
Filtering(s, S, n, g) == g = [m \in 0..n |->
  IF m = 0 THEN <<>> ELSE IF s[m] \in S THEN Append(g[m - 1], s[m]) ELSE g[m - 1]]

\* A set of natural numbers up to n has a least element: the argument of an induction.
LEMMA Least ==
  ASSUME NEW n \in Nat, NEW N, N \subseteq 0..n, N # {}
  PROVE  \E k \in N : \A m \in N : k <= m
<1> DEFINE C == { 0..m : m \in N }
           S == 0..n
<1>1. C \subseteq SUBSET S /\ C # {}
  <2>1. ASSUME NEW m \in N PROVE 0..m \subseteq S
    OBVIOUS
  <2>2. PICK m : m \in N
    OBVIOUS
  <2>3. 0..m \in C
    BY <2>2
  <2> HIDE DEF S
  <2> QED
    BY <2>1, <2>3
<1>5. IsFiniteSet(S)
  BY FS_Interval
<1>2. PICK T \in C : \A U \in C : U \subseteq T => U = T
  <2> HIDE DEF C, S
  <2> QED
    BY <1>1, <1>5, Smallest
<1>3. PICK k \in N : T = 0..k
  OBVIOUS
<1>4. ASSUME NEW m \in N PROVE k <= m
  <2> SUFFICES ASSUME m < k PROVE FALSE
    OBVIOUS
  <2>1. 0..m \subseteq 0..k /\ k \in 0..k /\ k \notin 0..m
    OBVIOUS
  <2> QED
    BY <1>2, <1>3, <2>1
<1> QED
  BY <1>4

LEMMA FilteringExists ==
  ASSUME NEW s, NEW S, NEW n \in Nat PROVE \E g : Filtering(s, S, n, g)
<1> DEFINE N == { m \in 0..n : ~ \E g : Filtering(s, S, m, g) }
<1> SUFFICES ASSUME N # {} PROVE FALSE
  OBVIOUS
<1>1. PICK k \in N : \A m \in N : k <= m
  <2> HIDE DEF N
  <2>1. N \subseteq 0..n
    BY DEF N
  <2> QED
    BY <2>1, Least
<1>2. CASE k = 0
  <2> DEFINE g == [m \in 0..0 |-> <<>>]
  <2>1. Filtering(s, S, 0, g)
    BY DEF Filtering
  <2> QED
    BY <1>1, <1>2, <2>1
<1>3. CASE k # 0
  <2>1. PICK h : Filtering(s, S, k - 1, h)
    BY <1>1, <1>3
  <2> DEFINE g == [m \in 0..k |-> IF m = k THEN IF s[k] \in S THEN Append(h[k - 1], s[k]) ELSE h[k - 1]
                                  ELSE h[m]]
  <2>2. \A m \in 0..(k - 1) : h[m] = IF m = 0 THEN <<>> ELSE IF s[m] \in S THEN Append(h[m - 1], s[m]) ELSE h[m - 1]
    BY <2>1 DEF Filtering
  <2>3. ASSUME NEW m \in 0..k
        PROVE  g[m] = IF m = 0 THEN <<>> ELSE IF s[m] \in S THEN Append(g[m - 1], s[m]) ELSE g[m - 1]
    BY <1>3, <2>2
  <2>4. Filtering(s, S, k, g)
    <3> DEFINE e == [m \in 0..k |-> IF m = 0 THEN <<>> ELSE IF s[m] \in S THEN Append(g[m - 1], s[m]) ELSE g[m - 1]]
    <3>1. \A m \in 0..k : g[m] = e[m]
      BY <2>3
    <3>2. g = e
      BY <3>1
    <3> QED
      BY <3>2 DEF Filtering
  <2> QED
    BY <1>1, <2>4
<1> QED
  BY <1>2, <1>3

\* e says which element of s each element of r is: all the first n that are in S.
Picks(e, r, s, S, n) ==
  /\ e \in [1..Len(r) -> 1..n]
  /\ \A j \in 1..Len(r) : r[j] = s[e[j]] /\ r[j] \in S
  /\ \A i, j \in 1..Len(r) : e[i] = e[j] => i = j
  /\ \A k \in 1..n : s[k] \in S => \E j \in 1..Len(r) : e[j] = k

LEMMA FilterStep ==
  ASSUME NEW X, NEW s \in Seq(X), NEW S, NEW n \in 1..Len(s),
         NEW r \in Seq(X), NEW e, Picks(e, r, s, S, n - 1)
  PROVE  \E d : Picks(d, IF s[n] \in S THEN Append(r, s[n]) ELSE r, s, S, n)
<1>1. n \in Nat /\ Len(r) \in Nat /\ s[n] \in X
  OBVIOUS
<1>2. CASE s[n] \notin S
  BY SMTT(20), <1>1, <1>2 DEF Picks
<1>3. CASE s[n] \in S
  <2> DEFINE q == Append(r, s[n])
             l == Len(r)
             d == [j \in 1..(l + 1) |-> IF j = l + 1 THEN n ELSE e[j]]
  <2>1. Len(q) = l + 1 /\ q[l + 1] = s[n] /\ \A j \in 1..l : q[j] = r[j]
    BY <1>1
  <2>2. \A j \in 1..l : e[j] \in 1..(n - 1)
    BY DEF Picks
  <2>3. d \in [1..(l + 1) -> 1..n]
    BY <1>1, <2>2
  <2> HIDE DEF q
  <2>4. \A j \in 1..(l + 1) : q[j] = s[d[j]] /\ q[j] \in S
    BY SMTT(20), <1>1, <1>3, <2>1, <2>2 DEF Picks
  <2>8. /\ d[l + 1] = n
        /\ \A j \in 1..(l + 1) : j # l + 1 => j \in 1..l /\ d[j] = e[j] /\ d[j] # n
    BY <1>1, <2>2
  <2>5. ASSUME NEW i \in 1..(l + 1), NEW j \in 1..(l + 1), d[i] = d[j] PROVE i = j
    <3> HIDE DEF d
    <3> QED
      BY <2>5, <2>8 DEF Picks
  <2>6. \A k \in 1..n : s[k] \in S => \E j \in 1..(l + 1) : d[j] = k
    <3> SUFFICES ASSUME NEW k \in 1..n, s[k] \in S PROVE \E j \in 1..(l + 1) : d[j] = k
      OBVIOUS
    <3>1. CASE k = n
      BY <1>1, <3>1
    <3>2. CASE k # n
      <4>1. k \in 1..(n - 1)
        BY <1>1, <3>2
      <4>2. PICK j \in 1..l : e[j] = k
        BY <4>1 DEF Picks
      <4> QED
        BY <1>1, <4>2
    <3> QED
      BY <3>1, <3>2
  <2>7. Picks(d, q, s, S, n)
    <3> HIDE DEF d
    <3> QED
      BY <2>1, <2>3, <2>4, <2>5, <2>6 DEF Picks
  <2> QED
    BY <1>3, <2>7 DEF q
<1> QED
  BY <1>2, <1>3

\* Filter keeps the elements of S, each at a place of its own.
LEMMA FilterPicks ==
  ASSUME NEW X, NEW s \in Seq(X), NEW S
  PROVE  Filter(s, S) \in Seq(X) /\ \E e : Picks(e, Filter(s, S), s, S, Len(s))
<1> DEFINE g == CHOOSE h : Filtering(s, S, Len(s), h)
<1>1. Len(s) \in Nat
  OBVIOUS
<1>2. Filtering(s, S, Len(s), g)
  BY <1>1, FilteringExists
<1>3. Filter(s, S) = g[Len(s)]
  BY DEF Filter, Filtering
<1> HIDE DEF g
<1> DEFINE N == { n \in 0..Len(s) : ~ (g[n] \in Seq(X) /\ \E e : Picks(e, g[n], s, S, n)) }
<1>4. N = {}
  <2> SUFFICES ASSUME N # {} PROVE FALSE
    OBVIOUS
  <2>1. PICK k \in N : \A m \in N : k <= m
    <3>1. N \subseteq 0..Len(s)
      OBVIOUS
    <3> HIDE DEF N
    <3> QED
      BY <1>1, <3>1, Least
  <2>2. g[k] = IF k = 0 THEN <<>> ELSE IF s[k] \in S THEN Append(g[k - 1], s[k]) ELSE g[k - 1]
    BY <1>2 DEF Filtering
  <2>3. CASE k = 0
    <3>1. g[k] = <<>>
      BY <2>2, <2>3
    <3>2. Picks(<<>>, <<>>, s, S, 0)
      BY DEF Picks
    <3>3. g[k] \in Seq(X) /\ Picks(<<>>, g[k], s, S, k)
      BY <2>3, <3>1, <3>2
    <3> QED
      BY <3>3
  <2>4. CASE k # 0
    <3>1. k \in 1..Len(s) /\ k - 1 \in 0..Len(s) /\ k - 1 \notin N
      BY <1>1, <2>1, <2>4
    <3>2. g[k - 1] \in Seq(X)
      BY <3>1
    <3>3. PICK e : Picks(e, g[k - 1], s, S, k - 1)
      BY <3>1
    <3>4. \E d : Picks(d, g[k], s, S, k)
      BY <2>2, <2>4, <3>1, <3>2, <3>3, FilterStep
    <3>5. g[k] \in Seq(X)
      BY <2>2, <2>4, <3>1, <3>2
    <3> QED
      BY <3>4, <3>5
  <2> QED
    BY <2>3, <2>4
<1> QED
  BY <1>1, <1>3, <1>4

LEMMA FilterSet ==
  ASSUME NEW X, NEW s \in Seq(X), NEW S
  PROVE  Filter(s, S) \in Seq(X) /\ ToSet(Filter(s, S)) = ToSet(s) \cap S
<1> DEFINE r == Filter(s, S)
<1>1. r \in Seq(X)
  BY FilterPicks
<1>2. PICK e : Picks(e, r, s, S, Len(s))
  BY FilterPicks
<1> HIDE DEF r
<1>3. DOMAIN r = 1..Len(r) /\ DOMAIN s = 1..Len(s)
  BY <1>1
<1>4. ToSet(r) \subseteq ToSet(s) \cap S
  BY <1>2, <1>3 DEF Picks, ToSet
<1>5. ToSet(s) \cap S \subseteq ToSet(r)
  BY <1>2, <1>3 DEF Picks, ToSet
<1> QED
  BY <1>1, <1>4, <1>5 DEF r

--------------------------------------------------------------------------------
(* The upload manager: what holds of its list, its tasks and its waiter.   *)

\* A file has one local item at most, and a key of it one place in an order.
Once(s)     == \A m, n \in DOMAIN s : s[m].local /\ s[n].local /\ s[m].file = s[n].file => m = n
KeysOnce(o) == \A m, n \in DOMAIN o : o[m] = o[n] /\ o[m][2] => m = n

\* Of the items I, the deletions D, the files A used so far, the tasks T and the
\* files S that are scheduled:
Has(I, f, st) == \E i \in I : i.local /\ i.file = f /\ i.status = st
Gone(I, D, f) == \A i \in I \cup D : i.local => i.file # f
Open(T, f)    == { k \in DOMAIN T : T[k].file = f /\ T[k].pc # "ended" }
Active        == {"queued", "uploading"}

ItemsFit(I, D, A) ==
  /\ \A i \in I : (i.local => i.file \in A) /\ (~i.local => i.status = "done")
  /\ \A i, j \in I : i.local /\ j.local /\ i.file = j.file => i = j
  /\ \A i \in D : i.status = "done" /\ (i.local => i.file \in A /\ \A j \in I : j.local => j.file # i.file)

\* a task that has not ended is the only one of its file, and the last; until it is
\* sent its item is queued, and then uploading, unless the file was removed;
TaskFits(I, D, T, S, k) == T[k].pc # "ended" =>
  /\ T[k].file \in S
  /\ \A j \in DOMAIN T : T[j].file = T[k].file /\ (j > k \/ T[j].pc # "ended") => j = k
  /\ T[k].pc = "waiting" => ~T[k].aborted /\ (Has(I, T[k].file, "queued") \/ Gone(I, D, T[k].file))
  /\ T[k].pc # "waiting" => IF T[k].aborted THEN Gone(I, D, T[k].file) ELSE Has(I, T[k].file, "uploading")

\* a file that stays scheduled without a task was removed;
TasksFit(I, D, A, T, S) ==
  /\ \A k \in DOMAIN T : TaskFits(I, D, T, S, k)
  /\ \A f \in S : f \in A /\ (Gone(I, D, f) \/ Open(T, f) # {})

\* an item that is queued or uploading has a task,
Covered(I, T) == \A i \in I : i.status \in Active => Open(T, i.file) # {}

\* and the waiter waits for the tasks of the files that it is to await.
Awaits(I, A, T, W, F) ==
  /\ F \subseteq A
  /\ \A i \in I : i.file \in F /\ i.status \in Active => Open(T, i.file) \cap W # {}

\* Before the variant has an id, nothing is sent and nothing asked.
Early == ~context => /\ tasks = <<>> /\ scheduled = {} /\ refresh = {}
                     /\ \A i \in ToSet(items) : i.status # "uploading"

UploadInv ==
  /\ TypeOK
  /\ Once(items) /\ \A o \in orders : KeysOnce(o)
  /\ ItemsFit(ToSet(items), deletions, added)
  /\ TasksFit(ToSet(items), deletions, added, tasks, scheduled)
  /\ context => Covered(ToSet(items), tasks)
  /\ Early
  /\ Awaits(ToSet(items), added, tasks, waiter, awaited)

LEMMA UploadInit == Init => UploadInv
<1> SUFFICES ASSUME Init PROVE UploadInv
  OBVIOUS
<1>1. items = <<>> /\ tasks = <<>> /\ ToSet(items) = {} /\ DOMAIN items = {} /\ DOMAIN tasks = {}
  BY DEF Init, ToSet
<1>2. TypeOK
  BY DEF Init, TypeOK
<1> QED
  BY <1>1, <1>2
     DEF Init, UploadInv, Once, KeysOnce, ItemsFit, TasksFit, Covered, Awaits, Early

--------------------------------------------------------------------------------
(* Lists.                                                                  *)

LEMMA Elements ==
  ASSUME NEW X, NEW s \in Seq(X)
  PROVE  /\ ToSet(s) \subseteq X /\ DOMAIN s = 1..Len(s) /\ Len(s) \in Nat
         /\ \A n \in DOMAIN s : s[n] \in ToSet(s)
         /\ \A x \in ToSet(s) : \E n \in DOMAIN s : s[n] = x
BY DEF ToSet

LEMMA FilterOnce ==
  ASSUME NEW s \in Seq(Item), Once(s), NEW S PROVE Once(Filter(s, S))
<1> DEFINE r == Filter(s, S)
<1>1. r \in Seq(Item)
  BY FilterPicks
<1>2. PICK e : Picks(e, r, s, S, Len(s))
  BY FilterPicks
<1> HIDE DEF r
<1> SUFFICES Once(r)
  BY DEF r
<1>3. DOMAIN r = 1..Len(r) /\ DOMAIN s = 1..Len(s)
  BY <1>1
<1> QED
  BY <1>2, <1>3 DEF Picks, Once

LEMMA FilterKeysOnce ==
  ASSUME NEW o \in Seq(Files \X BOOLEAN), KeysOnce(o), NEW S PROVE KeysOnce(Filter(o, S))
<1> DEFINE r == Filter(o, S)
<1>1. r \in Seq(Files \X BOOLEAN)
  BY FilterPicks
<1>2. PICK e : Picks(e, r, o, S, Len(o))
  BY FilterPicks
<1> HIDE DEF r
<1> SUFFICES KeysOnce(r)
  BY DEF r
<1>3. DOMAIN r = 1..Len(r) /\ DOMAIN o = 1..Len(o)
  BY <1>1
<1> QED
  BY <1>2, <1>3 DEF Picks, KeysOnce

LEMMA Joined ==
  ASSUME NEW X, NEW s \in Seq(X), NEW t \in Seq(X)
  PROVE  /\ s \o t \in Seq(X) /\ ToSet(s \o t) = ToSet(s) \cup ToSet(t)
         /\ Len(s \o t) = Len(s) + Len(t) /\ Len(s) \in Nat /\ Len(t) \in Nat
         /\ \A n \in 1..Len(s) : (s \o t)[n] = s[n]
         /\ \A n \in 1..Len(t) : (s \o t)[Len(s) + n] = t[n]
         /\ \A n \in 1..(Len(s) + Len(t)) :
              n \in 1..Len(s) \/ (n > Len(s) /\ n - Len(s) \in 1..Len(t) /\ (s \o t)[n] = t[n - Len(s)])
<1> DEFINE r == s \o t
<1>1. r \in Seq(X) /\ Len(r) = Len(s) + Len(t) /\ Len(s) \in Nat /\ Len(t) \in Nat
  OBVIOUS
<1>2. \A n \in 1..Len(s) : r[n] = s[n]
  OBVIOUS
<1>3. \A n \in 1..Len(t) : r[Len(s) + n] = t[n]
  OBVIOUS
<1>4. \A n \in 1..(Len(s) + Len(t)) :
        n \in 1..Len(s) \/ (n > Len(s) /\ n - Len(s) \in 1..Len(t) /\ r[n] = t[n - Len(s)])
  OBVIOUS
<1>5. DOMAIN r = 1..(Len(s) + Len(t)) /\ DOMAIN s = 1..Len(s) /\ DOMAIN t = 1..Len(t)
  BY <1>1
<1> HIDE DEF r
<1>6. ToSet(s) \subseteq ToSet(r)
  <2> SUFFICES ASSUME NEW n \in 1..Len(s) PROVE \E m \in DOMAIN r : r[m] = s[n]
    BY <1>5 DEF ToSet
  <2> QED
    BY <1>1, <1>2, <1>5
<1>7. ToSet(t) \subseteq ToSet(r)
  <2> SUFFICES ASSUME NEW n \in 1..Len(t) PROVE \E m \in DOMAIN r : r[m] = t[n]
    BY <1>5 DEF ToSet
  <2>1. Len(s) + n \in DOMAIN r
    BY <1>1, <1>5
  <2> QED
    BY <1>3, <2>1
<1>8. ToSet(r) \subseteq ToSet(s) \cup ToSet(t)
  BY <1>2, <1>4, <1>5 DEF ToSet
<1> QED
  BY <1>1, <1>2, <1>3, <1>4, <1>6, <1>7, <1>8 DEF r

LEMMA JoinedOnce ==
  ASSUME NEW s \in Seq(Item), NEW t \in Seq(Item), Once(s), Once(t),
         \A i \in ToSet(s), j \in ToSet(t) : i.local /\ j.local => i.file # j.file
  PROVE  Once(s \o t)
<1> DEFINE r == s \o t
<1>1. /\ r \in Seq(Item) /\ Len(r) = Len(s) + Len(t) /\ Len(s) \in Nat /\ Len(t) \in Nat
      /\ \A n \in 1..Len(s) : r[n] = s[n]
      /\ \A n \in 1..(Len(s) + Len(t)) :
           n \in 1..Len(s) \/ (n > Len(s) /\ n - Len(s) \in 1..Len(t) /\ r[n] = t[n - Len(s)])
  BY Joined
<1>2. DOMAIN r = 1..(Len(s) + Len(t)) /\ DOMAIN s = 1..Len(s) /\ DOMAIN t = 1..Len(t)
  BY <1>1
<1>3. /\ \A n \in 1..Len(s) : s[n] \in ToSet(s)
      /\ \A n \in 1..Len(t) : t[n] \in ToSet(t)
  BY <1>2, Elements
<1> HIDE DEF r
<1> SUFFICES ASSUME NEW m \in DOMAIN r, NEW n \in DOMAIN r,
                    r[m].local, r[n].local, r[m].file = r[n].file
             PROVE  m = n
  BY DEF Once, r
<1>4. CASE m \in 1..Len(s) /\ n \in 1..Len(s)
  BY <1>1, <1>2, <1>4 DEF Once
<1>5. CASE m \in 1..Len(s) /\ n \notin 1..Len(s)
  BY <1>1, <1>2, <1>3, <1>5
<1>6. CASE m \notin 1..Len(s) /\ n \in 1..Len(s)
  BY <1>1, <1>2, <1>3, <1>6
<1>7. CASE m \notin 1..Len(s) /\ n \notin 1..Len(s)
  <2>1. m - Len(s) \in DOMAIN t /\ n - Len(s) \in DOMAIN t
    BY <1>1, <1>2, <1>7
  <2>2. m - Len(s) = n - Len(s)
    BY <1>1, <1>2, <1>7, <2>1 DEF Once
  <2> QED
    BY <1>1, <1>2, <2>2
<1> QED
  BY <1>4, <1>5, <1>6, <1>7

PatchOf(j, i, f, st) ==
  /\ j.file = i.file /\ j.local = i.local
  /\ j.status = IF i.file = f /\ i.local THEN st ELSE i.status

\* Patched sets the status of the file's local items.
LEMMA Patches ==
  ASSUME items \in Seq(Item), NEW f \in Files, NEW st \in {"queued", "uploading", "done", "error"}
  PROVE  /\ Patched(f, st) \in Seq(Item)
         /\ Once(items) => Once(Patched(f, st))
         /\ \A i \in ToSet(items) : \E j \in ToSet(Patched(f, st)) : PatchOf(j, i, f, st)
         /\ \A j \in ToSet(Patched(f, st)) : \E i \in ToSet(items) : PatchOf(j, i, f, st)
<1> DEFINE r == Patched(f, st)
<1>1. DOMAIN items = 1..Len(items) /\ Len(items) \in Nat /\ \A n \in 1..Len(items) : items[n] \in Item
  OBVIOUS
<1>2. DOMAIN r = DOMAIN items
  BY DEF Patched
<1>3. \A n \in DOMAIN items : /\ r[n] \in Item /\ r[n].file = items[n].file /\ r[n].local = items[n].local
                              /\ r[n].status = IF items[n].file = f /\ items[n].local THEN st ELSE items[n].status
  BY <1>1 DEF Patched, Item
<1>4. r \in Seq(Item)
  <2>1. r = [n \in 1..Len(items) |-> r[n]]
    BY <1>1 DEF Patched
  <2> HIDE DEF r
  <2> QED
    BY <1>1, <1>3, <2>1
<1> HIDE DEF r
<1>5. Once(items) => Once(r)
  BY <1>2, <1>3 DEF Once
<1> QED
  BY <1>2, <1>3, <1>4, <1>5 DEF ToSet, PatchOf, r

LEMMA SameItem ==
  ASSUME NEW i \in Item, NEW j \in Item, i.file = j.file, i.local = j.local, i.status = j.status
  PROVE  i = j
BY DEF Item

LEMMA PatchFits ==
  ASSUME items \in Seq(Item), NEW f \in Files, NEW st \in {"queued", "uploading", "done", "error"},
         NEW D, NEW A, ItemsFit(ToSet(items), D, A),
         NEW J, J = ToSet(Patched(f, st))
  PROVE  /\ ItemsFit(J, D, A)
         /\ \A g : Gone(J, D, g) <=> Gone(ToSet(items), D, g)
         /\ \A g, s : g # f => (Has(J, g, s) <=> Has(ToSet(items), g, s))
         /\ \A s : Has(J, f, s) <=> s = st /\ \E i \in ToSet(items) : i.local /\ i.file = f
<1> DEFINE I == ToSet(items)
<1>1. /\ \A i \in I : \E j \in J : PatchOf(j, i, f, st)
      /\ \A j \in J : \E i \in I : PatchOf(j, i, f, st)
  BY Patches
<1>2. Patched(f, st) \in Seq(Item)
  BY Patches
<1>3. J \subseteq Item /\ I \subseteq Item
  <2>1. \A s : s \in Seq(Item) => ToSet(s) \subseteq Item
    BY Elements
  <2> QED
    BY <1>2, <2>1
<1> HIDE DEF I
<1> SUFFICES /\ ItemsFit(J, D, A)
             /\ \A g : Gone(J, D, g) <=> Gone(I, D, g)
             /\ \A g, s : g # f => (Has(J, g, s) <=> Has(I, g, s))
             /\ \A s : Has(J, f, s) <=> s = st /\ \E i \in I : i.local /\ i.file = f
  BY DEF I
<1>4. ItemsFit(I, D, A)
  BY DEF I
<1>5. \A g : Gone(J, D, g) <=> Gone(I, D, g)
  BY <1>1 DEF Gone, PatchOf
<1>6. \A g, s : g # f => (Has(J, g, s) <=> Has(I, g, s))
  BY <1>1 DEF Has, PatchOf
<1>7. \A s : Has(J, f, s) <=> s = st /\ \E i \in I : i.local /\ i.file = f
  BY <1>1 DEF Has, PatchOf
<1>8. \A i \in J : (i.local => i.file \in A) /\ (~i.local => i.status = "done")
  BY <1>1, <1>4 DEF ItemsFit, PatchOf
<1>9. ASSUME NEW i \in J, NEW j \in J, i.local, j.local, i.file = j.file PROVE i = j
  <2>1. PICK k \in I : PatchOf(i, k, f, st)
    BY <1>1
  <2>2. PICK l \in I : PatchOf(j, l, f, st)
    BY <1>1
  <2>3. k = l
    BY <1>4, <1>9, <2>1, <2>2 DEF ItemsFit, PatchOf
  <2> QED
    BY <1>3, <1>9, <2>1, <2>2, <2>3, SameItem DEF PatchOf
<1>10. \A i \in D : i.status = "done" /\ (i.local => i.file \in A /\ \A j \in J : j.local => j.file # i.file)
  BY <1>1, <1>4 DEF ItemsFit, PatchOf
<1> QED
  BY <1>5, <1>6, <1>7, <1>8, <1>9, <1>10 DEF ItemsFit

--------------------------------------------------------------------------------
(* The tasks.                                                              *)

New(f)         == [file |-> f, pc |-> "waiting", aborted |-> FALSE]
Fresh(t, f)    == t.file = f /\ t.pc = "waiting" /\ ~t.aborted
QueuedOf(s)    == Filter(s, { i \in Item : i.status = "queued" })
ToSchedule(s, S) == Filter(QueuedOf(s), { i \in Item : i.file \notin S })

\* U is T with a fresh task for each element of new.
Extends(U, T, new) ==
  /\ \A k \in DOMAIN T : k \in DOMAIN U /\ U[k] = T[k]
  /\ \A k \in DOMAIN U : k \notin DOMAIN T =>
       \E n \in DOMAIN new : k = Len(T) + n /\ Fresh(U[k], new[n].file)
  /\ \A n \in DOMAIN new :
       Len(T) + n \in DOMAIN U /\ Len(T) + n \notin DOMAIN T /\ Fresh(U[Len(T) + n], new[n].file)

LEMMA TasksAppended ==
  ASSUME NEW T \in Seq(Task), NEW new \in Seq(Item), NEW N \in Seq(Task), Len(N) = Len(new),
         \A n \in DOMAIN new : Fresh(N[n], new[n].file)
  PROVE  T \o N \in Seq(Task) /\ Len(T) \in Nat /\ Len(T) <= Len(T \o N) /\ Extends(T \o N, T, new)
<1> DEFINE U == T \o N
           l == Len(T)
           m == Len(new)
<1>1. DOMAIN new = 1..m /\ m \in Nat /\ DOMAIN T = 1..l /\ l \in Nat
  OBVIOUS
<1>5. /\ U \in Seq(Task) /\ Len(U) = l + m
      /\ \A n \in 1..l : U[n] = T[n]
      /\ \A n \in 1..m : U[l + n] = N[n]
      /\ \A n \in 1..(l + m) :
           n \in 1..l \/ (n > l /\ n - l \in 1..m /\ U[n] = N[n - l])
  <2>1. U \in Seq(Task) /\ Len(U) = l + Len(N)
    OBVIOUS
  <2>2. \A n \in 1..l : U[n] = T[n]
    OBVIOUS
  <2>3. \A n \in 1..Len(N) : U[l + n] = N[n]
    OBVIOUS
  <2>4. \A n \in 1..(l + Len(N)) :
          n \in 1..l \/ (n > l /\ n - l \in 1..Len(N) /\ U[n] = N[n - l])
    OBVIOUS
  <2> HIDE DEF U
  <2> QED
    BY <2>1, <2>2, <2>3, <2>4
<1>6. DOMAIN U = 1..(l + m)
  BY <1>5
<1> HIDE DEF U, l, m
<1>7. ASSUME NEW k \in DOMAIN U, k \notin DOMAIN T
      PROVE  \E n \in DOMAIN new : k = l + n /\ Fresh(U[k], new[n].file)
  <2>1. k - l \in DOMAIN new /\ U[k] = N[k - l]
    BY <1>1, <1>5, <1>6, <1>7
  <2>2. k = l + (k - l)
    BY <1>1, <1>6
  <2> QED
    BY <2>1, <2>2
<1>8. ASSUME NEW n \in DOMAIN new
      PROVE  l + n \in DOMAIN U /\ l + n \notin DOMAIN T /\ Fresh(U[l + n], new[n].file)
  <2>1. l + n \in DOMAIN U /\ l + n \notin DOMAIN T
    BY <1>1, <1>6
  <2>2. U[l + n] = N[n]
    BY <1>1, <1>5
  <2> QED
    BY <2>1, <2>2
<1>9. \A k \in DOMAIN T : k \in DOMAIN U /\ U[k] = T[k]
  BY <1>1, <1>5, <1>6
<1>10. l <= Len(U)
  BY <1>1, <1>5
<1> QED
  BY <1>1, <1>5, <1>7, <1>8, <1>9, <1>10 DEF Extends, U, l, m

\* scheduleUploads gives every file that waits its task, and none a second one.
LEMMA ScheduleFits ==
  ASSUME NEW s \in Seq(Item), Once(s), NEW D, NEW A, A \subseteq Files, ItemsFit(ToSet(s), D, A),
         NEW T \in Seq(Task), NEW S, S \subseteq Files, TasksFit(ToSet(s), D, A, T, S),
         \A i \in ToSet(s) : i.status = "uploading" => Open(T, i.file) # {},
         NEW U, Extends(U, T, ToSchedule(s, S)),
         NEW V, V = S \cup { i.file : i \in ToSet(QueuedOf(s)) }
  PROVE  V \subseteq Files /\ TasksFit(ToSet(s), D, A, U, V) /\ Covered(ToSet(s), U)
<1> DEFINE I == ToSet(s)
           q == QueuedOf(s)
           new == ToSchedule(s, S)
<1>1. q \in Seq(Item) /\ Once(q) /\ ToSet(q) = { i \in I : i.status = "queued" }
  <2>1. I \subseteq Item
    BY Elements
  <2> QED
    BY <2>1, FilterSet, FilterOnce DEF QueuedOf
<1>2. new \in Seq(Item) /\ Once(new) /\ ToSet(new) = { i \in ToSet(q) : i.file \notin S }
  <2>1. ToSet(q) \subseteq Item
    BY <1>1, Elements
  <2> HIDE DEF q
  <2>2. Filter(q, { i \in Item : i.file \notin S }) \in Seq(Item)
    BY <1>1, FilterSet
  <2>3. Once(Filter(q, { i \in Item : i.file \notin S }))
    BY <1>1, FilterOnce
  <2>4. ToSet(Filter(q, { i \in Item : i.file \notin S })) = ToSet(q) \cap { i \in Item : i.file \notin S }
    BY <1>1, FilterSet
  <2> QED
    BY <2>1, <2>2, <2>3, <2>4 DEF ToSchedule, q
<1>3. I \subseteq Item
  BY Elements
<1> HIDE DEF I, q, new
<1>4. DOMAIN new = 1..Len(new) /\ Len(new) \in Nat
  BY <1>2
<1>5. \A n \in DOMAIN new :
        /\ new[n] \in I /\ new[n].status = "queued" /\ new[n].file \notin S
        /\ new[n].local /\ new[n].file \in A /\ new[n].file \in Files
  <2>1. \A n \in DOMAIN new : new[n] \in ToSet(new)
    BY <1>2, Elements
  <2> QED
    BY <1>1, <1>2, <1>3, <2>1 DEF ItemsFit, I, Item
<1>6. Extends(U, T, new) /\ DOMAIN T = 1..Len(T) /\ Len(T) \in Nat
  BY DEF new
<1>10. ASSUME NEW k \in DOMAIN U, k \notin DOMAIN T
       PROVE  \E n \in DOMAIN new : k = Len(T) + n /\ Fresh(U[k], new[n].file)
  BY <1>6, <1>10 DEF Extends
<1>11. ASSUME NEW n \in DOMAIN new
       PROVE  Len(T) + n \in DOMAIN U /\ Len(T) + n \notin DOMAIN T /\ Fresh(U[Len(T) + n], new[n].file)
  BY <1>6 DEF Extends
<1>8. \A k \in DOMAIN T : k \in DOMAIN U /\ U[k] = T[k]
  BY <1>6 DEF Extends
<1>12. V = S \cup { i.file : i \in ToSet(q) }
  BY DEF q
<1>13. \A i \in ToSet(q) : i \in I /\ i.status = "queued" /\ i.local /\ i.file \in A
  BY <1>1 DEF ItemsFit, I
<1>14. \A i \in ToSet(q) : i.file \in S \/ \E n \in DOMAIN new : new[n] = i
  <2>1. \A i \in ToSet(new) : \E n \in DOMAIN new : new[n] = i
    BY <1>2, Elements
  <2> QED
    BY <1>2, <2>1
<1>15. \A f \in Files : Open(T, f) \subseteq Open(U, f)
  BY <1>8 DEF Open
<1>16. ASSUME NEW i \in ToSet(q) PROVE Open(U, i.file) # {}
  <2>1. CASE i.file \in S
    <3>1. Open(T, i.file) # {}
      BY <1>13, <2>1 DEF TasksFit, Gone, I
    <3> QED
      BY <1>15, <2>1, <3>1
  <2>2. CASE i.file \notin S
    <3>1. PICK n \in DOMAIN new : new[n] = i
      BY <1>14, <2>2
    <3>2. Len(T) + n \in Open(U, i.file)
      BY <1>11, <3>1 DEF Open, Fresh
    <3> QED
      BY <3>2
  <2> QED
    BY <2>1, <2>2
<1>17. Covered(I, U)
  <2> SUFFICES ASSUME NEW i \in I, i.status \in Active PROVE Open(U, i.file) # {}
    BY DEF Covered
  <2>1. CASE i.status = "queued"
    BY <1>1, <1>16, <2>1
  <2>2. CASE i.status = "uploading"
    <3>1. i.file \in Files /\ Open(T, i.file) # {}
      BY <1>3, <2>2 DEF I, Item
    <3> QED
      BY <1>15, <3>1
  <2> QED
    BY <2>1, <2>2 DEF Active
<1>18. \A f \in V : f \in A /\ (Gone(I, D, f) \/ Open(U, f) # {})
  <2> SUFFICES ASSUME NEW f \in V PROVE f \in A /\ (Gone(I, D, f) \/ Open(U, f) # {})
    OBVIOUS
  <2>1. CASE f \in S
    BY <1>15, <2>1 DEF TasksFit, I
  <2>2. CASE f \notin S
    BY <1>12, <1>13, <1>16, <2>2
  <2> QED
    BY <2>1, <2>2
<1>19. ASSUME NEW k \in DOMAIN U PROVE TaskFits(I, D, U, V, k)
  <2>1. CASE k \in DOMAIN T
    <3>1. U[k] = T[k] /\ S \subseteq V /\ TaskFits(I, D, T, S, k)
      BY <1>6, <1>8, <1>12, <2>1 DEF TasksFit, I
    <3>2. ASSUME NEW j \in DOMAIN U, T[k].pc # "ended", U[j].file = T[k].file, j > k \/ U[j].pc # "ended"
          PROVE  j = k
      <4>1. CASE j \in DOMAIN T
        BY <1>6, <1>8, <3>1, <3>2, <4>1 DEF TaskFits
      <4>2. CASE j \notin DOMAIN T
        <5>1. PICK n \in DOMAIN new : Fresh(U[j], new[n].file)
          BY <1>10, <4>2
        <5> QED
          BY <1>5, <3>1, <3>2, <5>1 DEF TaskFits, Fresh
      <4> QED
        BY <4>1, <4>2
    <3> QED
      BY <3>1, <3>2 DEF TaskFits
  <2>2. CASE k \notin DOMAIN T
    <3>1. PICK n \in DOMAIN new : k = Len(T) + n /\ Fresh(U[k], new[n].file)
      BY <1>10, <2>2
    <3>2. ASSUME NEW j \in DOMAIN U, U[j].file = new[n].file, j > k \/ U[j].pc # "ended"
          PROVE  j = k
      <4>1. CASE j \in DOMAIN T
        <5>1. U[j] = T[j] /\ ~(j > k)
          BY <1>4, <1>6, <1>8, <3>1, <4>1
        <5> QED
          BY <1>5, <3>2, <4>1, <5>1 DEF TasksFit, TaskFits
      <4>2. CASE j \notin DOMAIN T
        <5>1. PICK m \in DOMAIN new : j = Len(T) + m /\ Fresh(U[j], new[m].file)
          BY <1>10, <4>2
        <5> QED
          BY <1>2, <1>5, <3>1, <3>2, <5>1 DEF Once, Fresh
      <4> QED
        BY <4>1, <4>2
    <3>3. new[n].file \in V /\ Has(I, new[n].file, "queued")
      <4>1. new[n] \in ToSet(q)
        BY <1>1, <1>5
      <4> QED
        BY <1>5, <1>12, <4>1 DEF Has
    <3> QED
      BY <3>1, <3>2, <3>3 DEF TaskFits, Fresh
  <2> QED
    BY <2>1, <2>2
<1>20. V \subseteq Files
  BY <1>12, <1>13
<1>21. TasksFit(I, D, A, U, V)
  BY <1>18, <1>19 DEF TasksFit
<1> QED
  BY <1>17, <1>20, <1>21 DEF I

--------------------------------------------------------------------------------
(* The handlers.                                                           *)


LEMMA SeqOfSet ==
  ASSUME NEW S, IsFiniteSet(S)
  PROVE  LET s == SetToSeq(S) IN s \in Seq(S) /\ \A m, n \in DOMAIN s : s[m] = s[n] => m = n
<1> DEFINE s == SetToSeq(S)
<1>1. Cardinality(S) \in Nat /\ \E f \in [1..Cardinality(S) -> S] : IsInjective(f)
  BY FS_CardinalityType DEF ExistsBijection, Bijection, Injection
<1>2. s \in [1..Cardinality(S) -> S] /\ IsInjective(s)
  BY <1>1 DEF SetToSeq
<1>3. s \in Seq(S)
  BY <1>1, <1>2
<1> QED
  BY <1>2, <1>3 DEF IsInjective

Status == {"queued", "uploading", "done", "error"}

\* An item that is not finished is a local one.
LEMMA ActiveLocal ==
  ASSUME NEW I, NEW D, NEW A, ItemsFit(I, D, A), NEW i \in I, i.status # "done"
  PROVE  i.local
BY DEF ItemsFit

\* scheduleUploads.
LEMMA ScheduleKeeps ==
  ASSUME UploadInv, added' \subseteq Files, items' \in Seq(Item), Once(items'),
         ItemsFit(ToSet(items'), deletions', added'),
         TasksFit(ToSet(items'), deletions', added', tasks, scheduled),
         \A i \in ToSet(items') : i.status = "uploading" => Open(tasks, i.file) # {},
         Awaits(ToSet(items'), added', tasks, waiter', awaited'),
         Schedule(items')
  PROVE  /\ tasks' \in Seq(Task) /\ scheduled' \subseteq Files /\ Len(tasks) <= Len(tasks')
         /\ TasksFit(ToSet(items'), deletions', added', tasks', scheduled')
         /\ Covered(ToSet(items'), tasks')
         /\ Awaits(ToSet(items'), added', tasks', waiter', awaited')
<1> DEFINE s == items'
           new == ToSchedule(s, scheduled)
           N == [n \in DOMAIN new |-> New(new[n].file)]
<1>1. tasks \in Seq(Task) /\ scheduled \subseteq Files
  BY DEF UploadInv, TypeOK
<1>2. tasks' = tasks \o N /\ scheduled' = scheduled \cup { i.file : i \in ToSet(QueuedOf(s)) }
  BY DEF Schedule, Unscheduled, ToSchedule, QueuedOf, New
<1>3. new \in Seq(Item)
  <2>1. QueuedOf(s) \in Seq(Item)
    BY FilterSet DEF QueuedOf
  <2> QED
    BY <2>1, FilterSet DEF ToSchedule
<1> HIDE DEF s, new
<1>4. DOMAIN new = 1..Len(new) /\ Len(new) \in Nat /\ \A n \in DOMAIN new : new[n].file \in Files
  <2>1. DOMAIN new = 1..Len(new) /\ Len(new) \in Nat /\ \A n \in DOMAIN new : new[n] \in Item
    BY <1>3
  <2> QED
    BY <2>1 DEF Item
<1>5. N \in Seq(Task) /\ Len(N) = Len(new) /\ \A n \in DOMAIN new : Fresh(N[n], new[n].file)
  <2>1. \A n \in 1..Len(new) : New(new[n].file) \in Task
    BY <1>4 DEF New, Task
  <2>2. N \in Seq(Task) /\ Len(N) = Len(new)
    BY <1>4, <2>1
  <2> QED
    BY <2>2 DEF Fresh, New
<1> HIDE DEF N
<1>6. tasks' \in Seq(Task) /\ Len(tasks) <= Len(tasks') /\ Extends(tasks', tasks, new)
  BY <1>1, <1>2, <1>3, <1>5, TasksAppended
<1>7. /\ scheduled' \subseteq Files
      /\ TasksFit(ToSet(s), deletions', added', tasks', scheduled') /\ Covered(ToSet(s), tasks')
  BY <1>1, <1>2, <1>6, ScheduleFits DEF s, new
<1>8. \A f : Open(tasks, f) \subseteq Open(tasks', f)
  BY <1>6 DEF Open, Extends
<1>9. Awaits(ToSet(s), added', tasks', waiter', awaited')
  BY <1>8 DEF Awaits, s
<1> QED
  BY <1>6, <1>7, <1>9 DEF s

LEMMA AddFilesKeeps == ASSUME UploadInv, NEW F \in SUBSET Files, AddFiles(F) PROVE UploadInv'
<1> DEFINE s == SetToSeq(F)
           q == [n \in DOMAIN s |-> [file |-> s[n], local |-> TRUE, status |-> "queued"]]
           I == ToSet(items)
           J == ToSet(items')
<1>1. /\ F \cap added = {} /\ added' = added \cup F /\ items' = items \o q /\ ScheduleIfKnown
      /\ acts' = acts + 1 /\ UNCHANGED <<context, server, deletions, orders, refresh, waiter, awaited, faults>>
  BY DEF AddFiles, Act, ops
<1>2. TypeOK /\ Once(items) /\ ItemsFit(I, deletions, added) /\ TasksFit(I, deletions, added, tasks, scheduled)
  BY DEF UploadInv
<1>3. /\ items \in Seq(Item) /\ added \subseteq Files /\ deletions \subseteq Item /\ scheduled \subseteq Files
      /\ tasks \in Seq(Task)
  BY <1>2 DEF TypeOK
<1>4. IsFiniteSet(F)
  BY FilesAssumption, FS_Subset
<1>5. s \in Seq(F) /\ \A m, n \in DOMAIN s : s[m] = s[n] => m = n
  BY <1>4, SeqOfSet
<1> HIDE DEF s
<1>6. /\ q \in Seq(Item) /\ Once(q)
      /\ \A i \in ToSet(q) : i.file \in F /\ i.local /\ i.status = "queued"
  <2>1. DOMAIN s = 1..Len(s) /\ Len(s) \in Nat /\ \A n \in DOMAIN s : s[n] \in F /\ s[n] \in Files
    BY <1>5
  <2>2. q \in Seq(Item)
    <3>1. \A n \in 1..Len(s) : [file |-> s[n], local |-> TRUE, status |-> "queued"] \in Item
      BY <2>1 DEF Item
    <3> QED
      BY <2>1, <3>1
  <2>3. DOMAIN q = DOMAIN s
    OBVIOUS
  <2>4. \A n \in DOMAIN q : q[n].file = s[n] /\ q[n].local /\ q[n].status = "queued"
    OBVIOUS
  <2> HIDE DEF q
  <2>5. Once(q)
    BY <1>5, <2>3, <2>4 DEF Once
  <2> QED
    BY <2>1, <2>2, <2>3, <2>4, <2>5 DEF ToSet
<1> HIDE DEF q
<1>7. items' \in Seq(Item) /\ J = I \cup ToSet(q)
  BY <1>1, <1>3, <1>6, Joined
<1>8. I \subseteq Item /\ ToSet(q) \subseteq Item
  BY <1>3, <1>6, Elements
<1>9. Once(items')
  <2>1. \A i \in I, j \in ToSet(q) : i.local /\ j.local => i.file # j.file
    BY <1>1, <1>2, <1>6 DEF ItemsFit
  <2> QED
    BY <1>1, <1>2, <1>3, <1>6, <2>1, JoinedOnce
<1> HIDE DEF I, J
<1>10. ItemsFit(J, deletions, added')
  <2>1. \A i \in J : (i.local => i.file \in added') /\ (~i.local => i.status = "done")
    BY <1>1, <1>2, <1>6, <1>7 DEF ItemsFit
  <2>2. ASSUME NEW i \in J, NEW j \in J, i.local, j.local, i.file = j.file PROVE i = j
    <3>1. CASE i \in I /\ j \in I
      BY <1>2, <2>2, <3>1 DEF ItemsFit
    <3>2. CASE i \in ToSet(q) /\ j \in ToSet(q)
      BY <1>6, <1>8, <2>2, <3>2, SameItem
    <3> QED
      BY <1>1, <1>2, <1>6, <1>7, <2>2, <3>1, <3>2 DEF ItemsFit
  <2>3. \A i \in deletions : i.status = "done" /\ (i.local => i.file \in added' /\ \A j \in J : j.local => j.file # i.file)
    BY <1>1, <1>2, <1>6, <1>7 DEF ItemsFit
  <2> QED
    BY <2>1, <2>2, <2>3 DEF ItemsFit
<1>11. \A f \in scheduled : Gone(I, deletions, f) => Gone(J, deletions, f)
  BY <1>1, <1>2, <1>6, <1>7 DEF TasksFit, Gone
<1>12. \A f, st : Has(I, f, st) => Has(J, f, st)
  BY <1>7 DEF Has
<1>13. TasksFit(J, deletions, added', tasks, scheduled)
  BY <1>1, <1>2, <1>11, <1>12 DEF TasksFit, TaskFits
<1>14. Awaits(J, added', tasks, waiter, awaited)
  BY <1>1, <1>6, <1>7 DEF UploadInv, Awaits, I
<1>15. CASE context
  <2>1. \A i \in J : i.status = "uploading" => Open(tasks, i.file) # {}
    BY <1>6, <1>7, <1>15 DEF UploadInv, Covered, Active, I
  <2>2. Schedule(items')
    BY <1>1, <1>15 DEF ScheduleIfKnown
  <2>3. /\ tasks' \in Seq(Task) /\ scheduled' \subseteq Files /\ Len(tasks) <= Len(tasks')
        /\ TasksFit(J, deletions, added', tasks', scheduled')
        /\ Covered(J, tasks')
        /\ Awaits(J, added', tasks', waiter, awaited)
    BY <1>1, <1>3, <1>7, <1>9, <1>10, <1>13, <1>14, <2>1, <2>2, ScheduleKeeps DEF J
  <2>4. TypeOK'
    BY <1>1, <1>2, <1>3, <1>7, <2>3 DEF TypeOK
  <2> QED
    BY <1>1, <1>2, <1>9, <1>10, <1>15, <2>3, <2>4 DEF UploadInv, Early, J
<1>16. CASE ~context
  <2>1. UNCHANGED <<tasks, scheduled>>
    BY <1>1, <1>16 DEF ScheduleIfKnown
  <2>2. TypeOK'
    BY <1>1, <1>2, <1>3, <1>7, <2>1 DEF TypeOK
  <2>3. Early'
    BY <1>1, <1>6, <1>7, <1>16, <2>1 DEF UploadInv, Early, I, J
  <2> QED
    BY <1>1, <1>2, <1>9, <1>10, <1>13, <1>14, <1>16, <2>1, <2>2, <2>3 DEF UploadInv, J
<1> QED
  BY <1>15, <1>16

LEMMA Appended ==
  ASSUME NEW s \in Seq(Item), NEW x \in Item, Once(s),
         x.local => \A i \in ToSet(s) : i.local => i.file # x.file
  PROVE  Append(s, x) \in Seq(Item) /\ ToSet(Append(s, x)) = ToSet(s) \cup {x} /\ Once(Append(s, x))
<1> DEFINE r == Append(s, x)
           l == Len(s)
<1>1. r \in Seq(Item) /\ Len(r) = l + 1 /\ l \in Nat /\ r[l + 1] = x /\ \A n \in 1..l : r[n] = s[n]
  OBVIOUS
<1>2. DOMAIN r = 1..(l + 1) /\ DOMAIN s = 1..l
  BY <1>1
<1> HIDE DEF r, l
<1>3. \A n \in 1..(l + 1) : n \in 1..l \/ n = l + 1
  BY <1>1
<1>4. 1..l \subseteq 1..(l + 1) /\ l + 1 \in 1..(l + 1) /\ l + 1 \notin 1..l
  BY <1>1
<1>5. ToSet(r) = ToSet(s) \cup {x}
  BY <1>1, <1>2, <1>3, <1>4 DEF ToSet
<1>6. Once(r)
  BY <1>1, <1>2, <1>3, <1>4 DEF Once, ToSet
<1> QED
  BY <1>1, <1>5, <1>6 DEF r

LEMMA AddRejectedFileKeeps == ASSUME UploadInv, NEW f \in Files, AddRejectedFile(f) PROVE UploadInv'
<1> DEFINE x == [file |-> f, local |-> TRUE, status |-> "error"]
           I == ToSet(items)
           J == ToSet(items')
<1>1. /\ f \notin added /\ added' = added \cup {f} /\ items' = Append(items, x) /\ acts' = acts + 1
      /\ UNCHANGED <<context, scheduled, tasks, server, deletions, orders, refresh, waiter, awaited, faults>>
  BY DEF AddRejectedFile, Act, ops
<1>2. TypeOK /\ Once(items) /\ ItemsFit(I, deletions, added) /\ TasksFit(I, deletions, added, tasks, scheduled)
  BY DEF UploadInv
<1>3. x \in Item /\ x.file = f /\ x.local /\ x.status = "error"
  BY DEF Item
<1> HIDE DEF x
<1>4. items' \in Seq(Item) /\ J = I \cup {x} /\ Once(items')
  <2>1. items \in Seq(Item) /\ \A i \in I : i.local => i.file # f
    BY <1>1, <1>2 DEF TypeOK, ItemsFit
  <2> QED
    BY <1>1, <1>2, <1>3, <2>1, Appended
<1>5. Awaits(I, added, tasks, waiter, awaited) /\ (context => Covered(I, tasks))
      /\ (~context => \A i \in I : i.status # "uploading")
  BY DEF UploadInv, Early
<1> HIDE DEF I, J
<1>6. TypeOK'
  BY <1>1, <1>2, <1>4 DEF TypeOK
<1>7. ItemsFit(J, deletions, added')
  BY <1>1, <1>2, <1>3, <1>4 DEF ItemsFit
<1>8. TasksFit(J, deletions, added', tasks, scheduled)
  <2>1. \A g \in scheduled : g # f /\ (Gone(I, deletions, g) => Gone(J, deletions, g))
    BY <1>1, <1>2, <1>3, <1>4 DEF TasksFit, Gone
  <2>2. \A g, st : Has(I, g, st) => Has(J, g, st)
    BY <1>4 DEF Has
  <2> QED
    BY <1>1, <1>2, <2>1, <2>2 DEF TasksFit, TaskFits
<1>9. Awaits(J, added', tasks, waiter, awaited) /\ (context => Covered(J, tasks))
      /\ (~context => \A i \in J : i.status # "uploading")
  BY <1>1, <1>3, <1>4, <1>5 DEF Awaits, Covered, Active
<1>10. Early'
  BY <1>1, <1>9 DEF UploadInv, Early, J
<1> QED
  BY <1>1, <1>4, <1>6, <1>7, <1>8, <1>9, <1>10 DEF UploadInv, J

\* What Without leaves.
LEMMA WithoutKey ==
  ASSUME NEW s \in Seq(Item), Once(s), NEW key
  PROVE  /\ Without(s, key) \in Seq(Item) /\ Once(Without(s, key))
         /\ ToSet(Without(s, key)) = { i \in ToSet(s) : Key(i) # key }
<1>1. ToSet(s) \subseteq Item
  BY Elements
<1>2. Without(s, key) \in Seq(Item) /\ ToSet(Without(s, key)) = ToSet(s) \cap { i \in Item : Key(i) # key }
  BY FilterSet DEF Without
<1>3. Once(Without(s, key))
  BY FilterOnce DEF Without
<1> QED
  BY <1>1, <1>2, <1>3

LEMMA RemoveLocalKeeps == ASSUME UploadInv, NEW i \in ToSet(items), RemoveLocal(i) PROVE UploadInv'
<1> DEFINE f == i.file
           I == ToSet(items)
           J == ToSet(items')
<1>1. /\ i.status # "done" /\ items' = Without(items, Key(i)) /\ acts' = acts + 1
      /\ tasks' = [k \in DOMAIN tasks |-> IF tasks[k].file = f /\ k \in Running
                                          THEN [tasks[k] EXCEPT !.aborted = TRUE] ELSE tasks[k]]
      /\ UNCHANGED <<added, context, scheduled, server, deletions, orders, refresh, waiter, awaited, faults>>
  BY DEF RemoveLocal, Act, ops
<1>2. TypeOK /\ Once(items) /\ ItemsFit(I, deletions, added) /\ TasksFit(I, deletions, added, tasks, scheduled)
  BY DEF UploadInv
<1>3. items \in Seq(Item) /\ I \subseteq Item /\ tasks \in Seq(Task)
  BY <1>2, Elements DEF TypeOK
<1>4. items' \in Seq(Item) /\ Once(items') /\ J = { j \in I : Key(j) # Key(i) }
  BY <1>1, <1>2, <1>3, WithoutKey
<1>5. i.local
  BY <1>1, <1>2 DEF ItemsFit
<1>6. Awaits(I, added, tasks, waiter, awaited) /\ (context => Covered(I, tasks)) /\ Early
  BY DEF UploadInv
<1>7. DOMAIN tasks = 1..Len(tasks) /\ Len(tasks) \in Nat /\ \A k \in DOMAIN tasks : tasks[k] \in Task
  BY <1>3
<1>8. /\ DOMAIN tasks' = DOMAIN tasks
      /\ \A k \in DOMAIN tasks : /\ tasks'[k] \in Task /\ tasks'[k].file = tasks[k].file /\ tasks'[k].pc = tasks[k].pc
                                 /\ tasks'[k].aborted = (tasks[k].aborted \/ (tasks[k].file = f /\ k \in Running))
  BY <1>1, <1>7 DEF Task
<1>9. tasks' \in Seq(Task) /\ Len(tasks') = Len(tasks)
  <2>1. tasks' = [k \in 1..Len(tasks) |-> tasks'[k]]
    BY <1>1, <1>7
  <2>2. tasks' \in [1..Len(tasks) -> Task]
    BY <1>7, <1>8, <2>1
  <2> QED
    BY <1>7, <1>8, <2>2
<1>10. \A g : Open(tasks', g) = Open(tasks, g)
  BY <1>8 DEF Open
<1> USE DEF f
<1>11. J \subseteq I /\ \A j \in I : j \notin J <=> j.local /\ j.file = i.file
  BY <1>4, <1>5 DEF Key
<1> HIDE DEF I, J
<1>12. Gone(J, deletions, i.file)
  BY <1>2, <1>5, <1>11 DEF Gone, ItemsFit, I
<1>13. (\A g : Gone(I, deletions, g) => Gone(J, deletions, g)) /\ \A g, st : g # i.file => (Has(I, g, st) => Has(J, g, st))
  BY <1>11 DEF Gone, Has
<1>14. TasksFit(J, deletions, added, tasks', scheduled)
  <2>1. ASSUME NEW k \in DOMAIN tasks PROVE TaskFits(J, deletions, tasks', scheduled, k)
    <3>1. TaskFits(I, deletions, tasks, scheduled, k)
      BY <1>2 DEF TasksFit
    <3>2. CASE tasks[k].file = i.file
      <4>1. tasks[k].pc \notin {"ended", "waiting"} => k \in Running
        BY <1>7 DEF Running, Task
      <4>2. tasks[k].pc = "waiting" => k \notin Running
        BY DEF Running
      <4> QED
        BY <1>8, <1>12, <3>1, <3>2, <4>1, <4>2 DEF TaskFits
    <3>3. CASE tasks[k].file # i.file
      BY <1>8, <1>13, <3>1, <3>3 DEF TaskFits
    <3> QED
      BY <3>2, <3>3
  <2>2. \A g \in scheduled : g \in added /\ (Gone(J, deletions, g) \/ Open(tasks', g) # {})
    BY <1>2, <1>10, <1>13 DEF TasksFit
  <2> QED
    BY <1>8, <2>1, <2>2 DEF TasksFit
<1>15. ItemsFit(J, deletions, added)
  BY <1>2, <1>11 DEF ItemsFit
<1>16. Awaits(J, added, tasks', waiter, awaited) /\ (context => Covered(J, tasks'))
  BY <1>6, <1>10, <1>11 DEF Awaits, Covered
<1>17. Early'
  <2>1. tasks = <<>> => tasks' = <<>>
    BY <1>3, <1>9
  <2> QED
    BY <1>1, <1>6, <1>11, <2>1 DEF Early, I, J
<1>18. TypeOK'
  BY <1>1, <1>2, <1>4, <1>9 DEF TypeOK
<1> QED
  BY <1>1, <1>2, <1>4, <1>14, <1>15, <1>16, <1>17, <1>18 DEF UploadInv, J

LEMMA RemoveDoneKeeps == ASSUME UploadInv, NEW i \in ToSet(items), RemoveDone(i) PROVE UploadInv'
<1> DEFINE I == ToSet(items)
           J == ToSet(items')
           D == deletions \cup {i}
<1>1. /\ i.status = "done" /\ context /\ items' = Without(items, Key(i)) /\ deletions' = D /\ acts' = acts + 1
      /\ UNCHANGED <<added, context, scheduled, tasks, server, orders, refresh, waiter, awaited, faults>>
  BY DEF RemoveDone, Act
<1>2. TypeOK /\ Once(items) /\ ItemsFit(I, deletions, added) /\ TasksFit(I, deletions, added, tasks, scheduled)
  BY DEF UploadInv
<1>3. items \in Seq(Item) /\ I \subseteq Item
  BY <1>2, Elements DEF TypeOK
<1>4. items' \in Seq(Item) /\ Once(items') /\ J = { j \in I : Key(j) # Key(i) }
  BY <1>1, <1>2, <1>3, WithoutKey
<1>5. Awaits(I, added, tasks, waiter, awaited) /\ Covered(I, tasks)
  BY <1>1 DEF UploadInv
<1>6. J \subseteq I /\ \A j \in I : j \notin J <=> j.local = i.local /\ j.file = i.file
  BY <1>3, <1>4 DEF Key, Item
<1>7. i \in I
  OBVIOUS
<1> HIDE DEF I, J
<1>8. \A j \in I : j \notin J => j.status = "done"
  BY <1>1, <1>2, <1>6, <1>7 DEF ItemsFit
<1>9. ItemsFit(J, D, added)
  <2>1. \A j \in J : i.local /\ j.local => j.file # i.file
    BY <1>6
  <2> QED
    BY <1>1, <1>2, <1>6, <1>7, <2>1 DEF ItemsFit
<1>10. TasksFit(J, D, added, tasks, scheduled)
  <2>1. \A g : Gone(I, deletions, g) => Gone(J, D, g)
    BY <1>6, <1>7 DEF Gone
  <2>2. \A g, st : st # "done" => (Has(I, g, st) => Has(J, g, st))
    BY <1>8 DEF Has
  <2> QED
    BY <1>2, <2>1, <2>2 DEF TasksFit, TaskFits
<1>11. Awaits(J, added, tasks, waiter, awaited) /\ Covered(J, tasks)
  BY <1>5, <1>6 DEF Awaits, Covered
<1>12. TypeOK'
  BY <1>1, <1>2, <1>3, <1>4, <1>7 DEF TypeOK
<1> HIDE DEF D
<1>13. Early'
  BY <1>1 DEF Early
<1> QED
  BY <1>1, <1>2, <1>4, <1>9, <1>10, <1>11, <1>12, <1>13 DEF UploadInv, J

LEMMA RetryItemKeeps == ASSUME UploadInv, NEW i \in ToSet(items), RetryItem(i) PROVE UploadInv'
<1> DEFINE f == i.file
           I == ToSet(items)
           J == ToSet(items')
<1>1. /\ i.status = "error" /\ items' = Patched(f, "queued") /\ awaited' = awaited \ {f} /\ ScheduleIfKnown
      /\ acts' = acts + 1
      /\ UNCHANGED <<added, context, server, deletions, orders, refresh, waiter, faults>>
  BY DEF RetryItem, Act, ops
<1>2. TypeOK /\ Once(items) /\ ItemsFit(I, deletions, added) /\ TasksFit(I, deletions, added, tasks, scheduled)
  BY DEF UploadInv
<1>3. items \in Seq(Item) /\ I \subseteq Item /\ i \in I
  BY <1>2, Elements DEF TypeOK
<1>4. i.local /\ f \in Files
  BY <1>1, <1>2, <1>3 DEF ItemsFit, Item
<1>5. /\ ItemsFit(J, deletions, added)
      /\ \A g : Gone(J, deletions, g) <=> Gone(I, deletions, g)
      /\ \A g, s : g # f => (Has(J, g, s) <=> Has(I, g, s))
  BY <1>1, <1>2, <1>3, <1>4, PatchFits
<1>6. /\ items' \in Seq(Item) /\ Once(items')
      /\ \A j \in J : \E l \in I : PatchOf(j, l, f, "queued")
  BY <1>1, <1>2, <1>3, <1>4, Patches
<1>7. \A k \in DOMAIN tasks : tasks[k] \in Task
  BY <1>2 DEF TypeOK
<1>8. Awaits(I, added, tasks, waiter, awaited) /\ (context => Covered(I, tasks)) /\ Early
  BY DEF UploadInv
<1> HIDE DEF I, J, f
<1>9. Open(tasks, f) = {}
  <2> SUFFICES ASSUME NEW k \in DOMAIN tasks, tasks[k].file = f, tasks[k].pc # "ended" PROVE FALSE
    BY DEF Open
  <2>1. TaskFits(I, deletions, tasks, scheduled, k)
    BY <1>2 DEF TasksFit
  <2>2. ~Gone(I, deletions, f)
    BY <1>3, <1>4 DEF Gone, f
  <2>3. ~Has(I, f, "queued") /\ ~Has(I, f, "uploading")
    BY <1>1, <1>2, <1>3, <1>4 DEF ItemsFit, Has, f
  <2> QED
    BY <2>1, <2>2, <2>3 DEF TaskFits
<1>10. f \notin scheduled
  <2>1. ~Gone(I, deletions, f)
    BY <1>3, <1>4 DEF Gone, f
  <2> QED
    BY <1>2, <1>9, <2>1 DEF TasksFit
<1>11. TasksFit(J, deletions, added, tasks, scheduled)
  BY <1>2, <1>5, <1>10 DEF TasksFit, TaskFits
<1>12. \A j \in J : (j.status = "uploading" => \E l \in I : l.file = j.file /\ l.status = "uploading")
                   /\ (j.file # f => \E l \in I : l.file = j.file /\ l.status = j.status)
  BY <1>6 DEF PatchOf
<1>13. Awaits(J, added, tasks, waiter, awaited')
  BY <1>1, <1>8, <1>12 DEF Awaits
<1>14. CASE context
  <2>1. \A j \in J : j.status = "uploading" => Open(tasks, j.file) # {}
    BY <1>8, <1>12, <1>14 DEF Covered, Active
  <2>2. Schedule(items')
    BY <1>1, <1>14 DEF ScheduleIfKnown
  <2>3. /\ tasks' \in Seq(Task) /\ scheduled' \subseteq Files /\ Len(tasks) <= Len(tasks')
        /\ TasksFit(J, deletions, added, tasks', scheduled')
        /\ Covered(J, tasks')
        /\ Awaits(J, added, tasks', waiter, awaited')
    <3>1. added \subseteq Files
      BY <1>2 DEF TypeOK
    <3> QED
      BY <3>1, <1>1, <1>5, <1>6, <1>11, <1>13, <2>1, <2>2, ScheduleKeeps DEF J
  <2>4. TypeOK'
    <3>1. Len(tasks) \in Nat /\ Len(tasks') \in Nat
      BY <1>2, <2>3 DEF TypeOK
    <3> QED
      BY <3>1, <1>1, <1>2, <1>6, <2>3 DEF TypeOK
  <2>5. Early'
    BY <1>1, <1>14 DEF Early
  <2> QED
    BY <1>1, <1>2, <1>5, <1>6, <1>14, <2>3, <2>4, <2>5 DEF UploadInv, J
<1>15. CASE ~context
  <2>1. UNCHANGED <<tasks, scheduled>>
    BY <1>1, <1>15 DEF ScheduleIfKnown
  <2>2. TypeOK'
    BY <1>1, <1>2, <1>6, <2>1 DEF TypeOK
  <2>3. Early'
    BY <1>1, <1>8, <1>12, <1>15, <2>1 DEF Early, I, J
  <2> QED
    BY <1>1, <1>2, <1>5, <1>6, <1>11, <1>13, <1>15, <2>1, <2>2, <2>3 DEF UploadInv, J
<1> QED
  BY <1>14, <1>15

--------------------------------------------------------------------------------
(* A drag.                                                                 *)

\* The place from which the element at k comes when that at m moves to n.
Origin(m, n, k) == IF k = n THEN m
                   ELSE IF m <= k /\ k < n THEN k + 1
                   ELSE IF n < k /\ k <= m THEN k - 1 ELSE k

LEMMA MovedPlaces ==
  ASSUME NEW X, NEW s \in Seq(X), NEW m \in DOMAIN s, NEW n \in DOMAIN s
  PROVE  LET r == InsertAt(RemoveAt(s, m), n, s[m])
         IN  r \in Seq(X) /\ Len(r) = Len(s) /\ \A k \in 1..Len(s) : r[k] = s[Origin(m, n, k)]
<1> DEFINE l == Len(s)
           a == SubSeq(s, 1, m - 1)
           b == SubSeq(s, m + 1, l)
           t == a \o b
           c == SubSeq(t, 1, n - 1)
           d == SubSeq(t, n, Len(t))
           u == c \o <<s[m]>>
           r == u \o d
<1>1. l \in Nat /\ m \in 1..l /\ n \in 1..l /\ s[m] \in X
  OBVIOUS
<1>2. /\ a \in Seq(X) /\ Len(a) = m - 1 /\ \A k \in 1..(m - 1) : a[k] = s[k]
      /\ b \in Seq(X) /\ Len(b) = l - m /\ \A k \in 1..(l - m) : b[k] = s[m + k]
  OBVIOUS
<1> HIDE DEF a, b
<1>3. t \in Seq(X) /\ Len(t) = l - 1
      /\ (\A k \in 1..(m - 1) : t[k] = a[k])
      /\ (\A k \in 1..(l - 1) : k >= m => t[k] = b[k - m + 1])
  <2>1. t \in Seq(X) /\ Len(t) = Len(a) + Len(b)
    BY <1>2, Joined
  <2>2. \A k \in 1..Len(a) : t[k] = a[k]
    BY <1>2, Joined
  <2>3. \A k \in 1..(Len(a) + Len(b)) : k \in 1..Len(a) \/ (k > Len(a) /\ k - Len(a) \in 1..Len(b) /\ t[k] = b[k - Len(a)])
    BY <1>2, Joined
  <2> HIDE DEF t, c, d, l
  <2>4. ASSUME NEW k \in 1..(l - 1), k >= m PROVE t[k] = b[k - m + 1]
    <3>1. k \in 1..(Len(a) + Len(b)) /\ k \notin 1..Len(a) /\ k - Len(a) = k - m + 1
      BY SMTT(20), <1>1, <1>2, <2>4
    <3> QED
      BY <2>3, <3>1
  <2> QED
    BY <1>1, <1>2, <2>1, <2>2, <2>4
<1> HIDE DEF t
<1> HIDE DEF l
<1>4. \A k \in 1..(l - 1) : t[k] = IF k < m THEN s[k] ELSE s[k + 1]
  <2> SUFFICES ASSUME NEW k \in 1..(l - 1) PROVE t[k] = IF k < m THEN s[k] ELSE s[k + 1]
    OBVIOUS
  <2>1. CASE k < m
    <3>1. k \in 1..(m - 1)
      BY <1>1, <2>1
    <3> QED
      BY <1>2, <1>3, <2>1, <3>1
  <2>2. CASE k >= m
    <3>1. k - m + 1 \in 1..(l - m) /\ m + (k - m + 1) = k + 1 /\ ~(k < m)
      BY <1>1, <2>2
    <3>2. t[k] = b[k - m + 1]
      BY <1>3, <2>2
    <3>3. b[k - m + 1] = s[m + (k - m + 1)]
      BY <1>2, <3>1
    <3> QED
      BY <3>1, <3>2, <3>3
  <2> QED
    BY <1>1, <2>1, <2>2
<1>5. /\ c \in Seq(X) /\ Len(c) = n - 1 /\ \A k \in 1..(n - 1) : c[k] = t[k]
      /\ d \in Seq(X) /\ Len(d) = l - n /\ \A k \in 1..(l - n) : d[k] = t[n + k - 1]
  BY SMTT(20), <1>1, <1>3
<1> HIDE DEF c, d
<1>6. u \in Seq(X) /\ Len(u) = n /\ u[n] = s[m] /\ \A k \in 1..(n - 1) : u[k] = c[k]
  <2> DEFINE x == s[m]
  <2> HIDE DEF x
  <2>0. x \in X /\ u = c \o <<x>>
    BY <1>1 DEF x
  <2>1. u \in Seq(X) /\ Len(u) = Len(c) + 1
    BY <2>0, <1>5
  <2>2. \A k \in 1..Len(c) : u[k] = c[k]
    BY <2>0, <1>5
  <2>3. u[Len(c) + 1] = x
    BY <2>0, <1>5
  <2> HIDE DEF u
  <2> QED
    BY SMTT(20), <1>1, <1>5, <2>1, <2>2, <2>3 DEF x
<1> HIDE DEF u
<1>7. r \in Seq(X) /\ Len(r) = l /\ (\A k \in 1..n : r[k] = u[k])
      /\ (\A k \in 1..l : k > n => r[k] = d[k - n])
  <2>1. r \in Seq(X) /\ Len(r) = Len(u) + Len(d)
    BY ZenonT(30), <1>5, <1>6, Joined
  <2>2. \A k \in 1..Len(u) : r[k] = u[k]
    BY <1>5, <1>6, Joined
  <2>3. \A k \in 1..(Len(u) + Len(d)) : k \in 1..Len(u) \/ (k > Len(u) /\ k - Len(u) \in 1..Len(d) /\ r[k] = d[k - Len(u)])
    BY <1>5, <1>6, Joined
  <2> HIDE DEF r
  <2>4. Len(u) = n /\ Len(u) + Len(d) = l
    BY <1>1, <1>5, <1>6
  <2> QED
    BY <1>1, <2>1, <2>2, <2>3, <2>4
<1>8. ASSUME NEW k \in 1..l PROVE r[k] = s[Origin(m, n, k)]
  <2> HIDE DEF r
  <2>1. CASE k = n
    BY <1>1, <1>6, <1>7, <2>1 DEF Origin
  <2>2. CASE k < n
    <3>1. k \in 1..(n - 1) /\ k \in 1..n /\ k \in 1..(l - 1)
      BY <1>1, <2>2
    <3>2. r[k] = t[k]
      BY <1>5, <1>6, <1>7, <3>1
    <3> QED
      BY <1>1, <1>4, <2>2, <3>1, <3>2 DEF Origin
  <2>3. CASE k > n
    <3>1. k - n \in 1..(l - n) /\ n + (k - n) - 1 = k - 1 /\ k - 1 \in 1..(l - 1) /\ k - 1 + 1 = k
      BY <1>1, <2>3
    <3>2. r[k] = t[k - 1]
      BY <1>1, <1>5, <1>7, <2>3, <3>1
    <3>3. t[k - 1] = IF k - 1 < m THEN s[k - 1] ELSE s[k]
      BY <1>4, <3>1
    <3>4. ~(k = n) /\ ~(k < n) /\ n < k /\ (k - 1 < m <=> k <= m)
      BY <1>1, <2>3
    <3> QED
      BY <3>2, <3>3, <3>4 DEF Origin
  <2> QED
    BY <1>1, <2>1, <2>2, <2>3
<1>9. r = InsertAt(RemoveAt(s, m), n, s[m])
  BY DEF InsertAt, RemoveAt, a, b, t, c, d, u, l
<1> QED
  BY <1>7, <1>8, <1>9 DEF l

LEMMA Moved ==
  ASSUME NEW s \in Seq(Item), Once(s), NEW m \in DOMAIN s, NEW n \in DOMAIN s
  PROVE  LET r == InsertAt(RemoveAt(s, m), n, s[m])
         IN  r \in Seq(Item) /\ ToSet(r) = ToSet(s) /\ Once(r)
<1> DEFINE r == InsertAt(RemoveAt(s, m), n, s[m])
           l == Len(s)
<1>1. r \in Seq(Item) /\ Len(r) = l /\ \A k \in 1..l : r[k] = s[Origin(m, n, k)]
  BY MovedPlaces
<1>2. l \in Nat /\ m \in 1..l /\ n \in 1..l
  OBVIOUS
<1>3. DOMAIN r = 1..l /\ DOMAIN s = 1..l
  BY <1>1
<1> HIDE DEF r, l
<1>4. /\ \A k \in 1..l : Origin(m, n, k) \in 1..l
      /\ \A j, k \in 1..l : Origin(m, n, j) = Origin(m, n, k) => j = k
  BY <1>2 DEF Origin
<1>5. ASSUME NEW j \in 1..l PROVE \E k \in 1..l : Origin(m, n, k) = j
  <2>1. CASE j = m
    BY <1>2, <2>1 DEF Origin
  <2>2. CASE j < m /\ j < n
    <3>1. Origin(m, n, j) = j
      BY <1>2, <2>2 DEF Origin
    <3> QED
      BY <3>1
  <2>3. CASE j < m /\ j >= n
    <3>1. Origin(m, n, j + 1) = j /\ j + 1 \in 1..l
      BY <1>2, <2>3 DEF Origin
    <3> QED
      BY <3>1
  <2>4. CASE j > m /\ j <= n
    <3>1. Origin(m, n, j - 1) = j /\ j - 1 \in 1..l
      BY <1>2, <2>4 DEF Origin
    <3> QED
      BY <3>1
  <2>5. CASE j > m /\ j > n
    <3>1. Origin(m, n, j) = j
      BY <1>2, <2>5 DEF Origin
    <3> QED
      BY <3>1
  <2> QED
    BY <1>2, <2>1, <2>2, <2>3, <2>4, <2>5
<1>6. ToSet(r) = ToSet(s)
  <2>1. \A k \in 1..l : \E j \in 1..l : r[k] = s[j]
    BY <1>1, <1>4
  <2>2. \A j \in 1..l : \E k \in 1..l : r[k] = s[j]
    BY <1>1, <1>5
  <2>3. ToSet(r) = { r[k] : k \in 1..l } /\ ToSet(s) = { s[k] : k \in 1..l }
    BY <1>3 DEF ToSet
  <2> QED
    BY <2>1, <2>2, <2>3
<1>7. Once(r)
  <2> SUFFICES ASSUME NEW j \in 1..l, NEW k \in 1..l, r[j].local, r[k].local, r[j].file = r[k].file PROVE j = k
    BY <1>3 DEF Once
  <2>1. r[j] = s[Origin(m, n, j)] /\ r[k] = s[Origin(m, n, k)]
    BY <1>1
  <2>2. Origin(m, n, j) \in DOMAIN s /\ Origin(m, n, k) \in DOMAIN s
    BY <1>3, <1>4
  <2>3. Origin(m, n, j) = Origin(m, n, k)
    BY <2>1, <2>2 DEF Once
  <2> QED
    BY <1>4, <2>3
<1> QED
  BY <1>1, <1>6, <1>7 DEF r

\* The manager does as well with a list of the same items in another order.
LEMMA SameSetKeeps ==
  ASSUME UploadInv, items' \in Seq(Item), Once(items'), ToSet(items') = ToSet(items),
         \A o \in orders' : o \in Seq(Files \X BOOLEAN) /\ KeysOnce(o),
         refresh' \subseteq SUBSET Files, ~context => refresh' = {},
         acts' \in Nat, faults' \in Nat,
         UNCHANGED <<added, context, scheduled, tasks, server, deletions, waiter, awaited>>
  PROVE  UploadInv'
<1>1. TypeOK'
  BY DEF UploadInv, TypeOK
<1>2. Early'
  BY DEF UploadInv, Early
<1> QED
  BY <1>1, <1>2 DEF UploadInv

\* What stays behind the items whose keys are in K.
LEMMA UntouchedKeys ==
  ASSUME NEW s \in Seq(Item), Once(s), NEW K
  PROVE  /\ Untouched(s, K) \in Seq(Item) /\ Once(Untouched(s, K))
         /\ ToSet(Untouched(s, K)) = { i \in ToSet(s) : Key(i) \notin K }
<1>1. ToSet(s) \subseteq Item
  BY Elements
<1>2. Untouched(s, K) \in Seq(Item) /\ ToSet(Untouched(s, K)) = ToSet(s) \cap { i \in Item : Key(i) \notin K }
  BY FilterSet DEF Untouched
<1>3. Once(Untouched(s, K))
  BY FilterOnce DEF Untouched
<1> QED
  BY <1>1, <1>2, <1>3

\* A list of some items, and behind it the rest of the list: nothing is lost.
LEMMA Rearranged ==
  ASSUME NEW A, NEW D, NEW s \in Seq(Item), Once(s), ItemsFit(ToSet(s), D, A),
         NEW t \in Seq(Item), Once(t), ToSet(t) \subseteq ToSet(s),
         NEW K, \A i \in ToSet(s) : Key(i) \in K <=> \E j \in ToSet(t) : Key(j) = Key(i),
         NEW r, r = t \o Untouched(s, K)
  PROVE  r \in Seq(Item) /\ Once(r) /\ ToSet(r) = ToSet(s)
<1> DEFINE u == Untouched(s, K)
<1>1. u \in Seq(Item) /\ Once(u) /\ ToSet(u) = { i \in ToSet(s) : Key(i) \notin K }
  BY UntouchedKeys
<1> HIDE DEF u
<1>2. r = t \o u
  BY DEF u
<1>3. r \in Seq(Item) /\ ToSet(r) = ToSet(t) \cup ToSet(u)
  BY <1>1, <1>2, Joined
<1>4. \A i \in ToSet(t), j \in ToSet(u) : i.local /\ j.local => i.file # j.file
  BY <1>1 DEF Key
<1>5. Once(r)
  BY <1>1, <1>2, <1>4, JoinedOnce
<1>6. ToSet(s) \subseteq Item
  BY Elements
<1>7. ASSUME NEW i \in ToSet(s), Key(i) \in K PROVE i \in ToSet(t)
  <2>1. PICK j \in ToSet(t) : Key(j) = Key(i)
    BY <1>7
  <2>2. i \in Item /\ j \in Item /\ j \in ToSet(s) /\ j.file = i.file /\ j.local = i.local
    BY <1>6, <2>1 DEF Key
  <2>3. CASE i.local
    BY <2>1, <2>2, <2>3 DEF ItemsFit
  <2>4. CASE ~i.local
    <3>1. i.status = "done" /\ j.status = "done"
      BY <2>2, <2>4 DEF ItemsFit, Item
    <3> QED
      BY <2>1, <2>2, <3>1, SameItem
  <2> QED
    BY <2>3, <2>4
<1>8. ToSet(r) = ToSet(s)
  BY <1>1, <1>3, <1>7
<1> QED
  BY <1>3, <1>5, <1>8

LEMMA DraggedFits ==
  ASSUME items \in Seq(Item), Once(items), NEW s \in Dragged
  PROVE  s \in Seq(Item) /\ Once(s) /\ ToSet(s) \subseteq ToSet(items)
<1>1. ASSUME NEW S, NEW m \in DOMAIN Filter(items, S), NEW n \in DOMAIN Filter(items, S),
             s = InsertAt(RemoveAt(Filter(items, S), m), n, Filter(items, S)[m])
      PROVE  s \in Seq(Item) /\ Once(s) /\ ToSet(s) \subseteq ToSet(items)
  <2>1. Filter(items, S) \in Seq(Item) /\ Once(Filter(items, S)) /\ ToSet(Filter(items, S)) \subseteq ToSet(items)
    BY FilterSet, FilterOnce
  <2> QED
    BY <1>1, <2>1, Moved
<1> DEFINE S1 == { i \in Item : i.status = "done" }
           S2 == { i \in Item : i.status # "error" }
<1>2. \/ \E m, n \in DOMAIN Filter(items, S1) :
           s = InsertAt(RemoveAt(Filter(items, S1), m), n, Filter(items, S1)[m])
      \/ \E m, n \in DOMAIN Filter(items, S2) :
           s = InsertAt(RemoveAt(Filter(items, S2), m), n, Filter(items, S2)[m])
  <2>1. s \in Moves(Filter(items, S1)) \/ s \in Moves(Filter(items, S2))
    BY DEF Dragged
  <2>2. \A t : s \in Moves(t) => \E m, n \in DOMAIN t : s = InsertAt(RemoveAt(t, m), n, t[m])
    BY DEF Moves
  <2> HIDE DEF S1, S2
  <2> QED
    BY <2>1, <2>2
<1> HIDE DEF S1, S2
<1> QED
  BY <1>1, <1>2

\* The keys of a list.
LEMMA KeysOf ==
  ASSUME items \in Seq(Item), Once(items)
  PROVE  LET o == [n \in DOMAIN items |-> Key(items[n])]
         IN  o \in Seq(Files \X BOOLEAN) /\ KeysOnce(o)
<1> DEFINE o == [n \in DOMAIN items |-> Key(items[n])]
<1>1. DOMAIN items = 1..Len(items) /\ Len(items) \in Nat /\ \A n \in 1..Len(items) : items[n] \in Item
  OBVIOUS
<1>2. \A n \in DOMAIN items : Key(items[n]) \in Files \X BOOLEAN
  BY <1>1 DEF Key, Item
<1>3. o \in Seq(Files \X BOOLEAN)
  BY <1>1, <1>2
<1>4. KeysOnce(o)
  <2>1. \A n \in DOMAIN items : items[n].file \in Files /\ items[n].local \in BOOLEAN
    BY <1>1 DEF Item
  <2> QED
    BY <2>1 DEF KeysOnce, Key, Once
<1> QED
  BY <1>3, <1>4

LEMMA ReorderItemsKeeps == ASSUME UploadInv, NEW s \in Dragged, ReorderItems(s) PROVE UploadInv'
<1> DEFINE K == { Key(i) : i \in ToSet(s) }
           o == [n \in DOMAIN items |-> Key(items[n])]
<1>1. TypeOK /\ items \in Seq(Item) /\ Once(items) /\ ItemsFit(ToSet(items), deletions, added) /\ Early
  BY DEF UploadInv, TypeOK
<1>2. /\ items' = s \o Untouched(items, K) /\ acts' = acts + 1 /\ orders' \subseteq orders \cup {o}
      /\ UNCHANGED <<added, context, scheduled, tasks, server, deletions, refresh, waiter, awaited, faults>>
  BY DEF ReorderItems, Act
<1>3. s \in Seq(Item) /\ Once(s) /\ ToSet(s) \subseteq ToSet(items)
  BY <1>1, DraggedFits
<1>4. \A i \in ToSet(items) : Key(i) \in K <=> \E j \in ToSet(s) : Key(j) = Key(i)
  OBVIOUS
<1>5. items' \in Seq(Item) /\ Once(items') /\ ToSet(items') = ToSet(items)
  <2> HIDE DEF K
  <2> QED
    BY <1>1, <1>2, <1>3, <1>4, Rearranged
<1>6. o \in Seq(Files \X BOOLEAN) /\ KeysOnce(o)
  BY <1>1, KeysOf
<1> HIDE DEF o
<1>7. \A p \in orders' : p \in Seq(Files \X BOOLEAN) /\ KeysOnce(p)
  BY <1>2, <1>6 DEF UploadInv, TypeOK
<1> QED
  BY <1>1, <1>2, <1>5, <1>7, SameSetKeeps DEF TypeOK, Early

LEMMA SetGroupContextKeeps == ASSUME UploadInv, SetGroupContext PROVE UploadInv'
<1> DEFINE I == ToSet(items)
<1>1. /\ ~context /\ context' = TRUE /\ items' = items /\ Schedule(items')
      /\ UNCHANGED <<added, server, deletions, orders, refresh, waiter, awaited, acts, faults>>
  <2>1. Schedule(items) /\ items' = items
    BY DEF SetGroupContext
  <2>2. Schedule(items')
    BY <2>1 DEF Schedule
  <2> QED
    BY <2>1, <2>2 DEF SetGroupContext, ops, bounds
<1>2. TypeOK /\ Once(items) /\ ItemsFit(I, deletions, added) /\ TasksFit(I, deletions, added, tasks, scheduled)
  BY DEF UploadInv
<1>3. (\A i \in I : i.status # "uploading") /\ added \subseteq Files /\ items \in Seq(Item)
  BY <1>1, <1>2 DEF UploadInv, Early, TypeOK
<1>4. /\ ToSet(items') = I /\ items' \in Seq(Item) /\ Once(items') /\ added' \subseteq Files
      /\ ItemsFit(ToSet(items'), deletions', added')
      /\ TasksFit(ToSet(items'), deletions', added', tasks, scheduled)
      /\ Awaits(ToSet(items'), added', tasks, waiter', awaited')
      /\ \A i \in ToSet(items') : i.status = "uploading" => Open(tasks, i.file) # {}
  BY <1>1, <1>2, <1>3 DEF UploadInv
<1>5. /\ tasks' \in Seq(Task) /\ scheduled' \subseteq Files /\ Len(tasks) <= Len(tasks')
      /\ TasksFit(ToSet(items'), deletions', added', tasks', scheduled')
      /\ Covered(ToSet(items'), tasks')
      /\ Awaits(ToSet(items'), added', tasks', waiter', awaited')
  BY <1>1, <1>4, ScheduleKeeps
<1>6. TypeOK'
  <2>1. Len(tasks) \in Nat /\ Len(tasks') \in Nat
    BY <1>2, <1>5 DEF TypeOK
  <2> QED
    BY <2>1, <1>1, <1>2, <1>5 DEF TypeOK
<1>7. Early'
  BY <1>1 DEF Early
<1> QED
  BY <1>1, <1>4, <1>5, <1>6, <1>7 DEF UploadInv

LEMMA HydrateKeeps == ASSUME UploadInv, Hydrate PROVE UploadInv'
<1> PICK S \in refresh :
      LET s == SetToSeq(S)
          persisted == [n \in DOMAIN s |-> [file |-> s[n], local |-> FALSE, status |-> "done"]]
      IN  items' = persisted \o Filter(items, { i \in Item : i.status # "done" })
  BY DEF Hydrate
<1> DEFINE s == SetToSeq(S)
           p == [n \in DOMAIN s |-> [file |-> s[n], local |-> FALSE, status |-> "done"]]
           u == Filter(items, { i \in Item : i.status # "done" })
           I == ToSet(items)
           J == ToSet(items')
<1>1. /\ items' = p \o u /\ Schedule(items') /\ refresh' = {} /\ refresh # {}
      /\ UNCHANGED <<added, context, server, deletions, orders, waiter, awaited, acts, faults>>
  BY DEF Hydrate, ops, bounds
<1>2. TypeOK /\ Once(items) /\ ItemsFit(I, deletions, added) /\ TasksFit(I, deletions, added, tasks, scheduled)
      /\ Awaits(I, added, tasks, waiter, awaited)
  BY DEF UploadInv
<1>3. context /\ Covered(I, tasks)
  BY <1>1 DEF UploadInv, Early
<1>4. items \in Seq(Item) /\ I \subseteq Item /\ S \subseteq Files /\ added \subseteq Files
  BY <1>2, Elements DEF TypeOK
<1>5. s \in Seq(S)
  <2>1. IsFiniteSet(S)
    BY <1>4, FilesAssumption, FS_Subset
  <2> QED
    BY <2>1, SeqOfSet
<1> HIDE DEF s
<1>6. p \in Seq(Item) /\ Once(p) /\ \A i \in ToSet(p) : ~i.local /\ i.status = "done"
  <2>1. DOMAIN s = 1..Len(s) /\ Len(s) \in Nat /\ \A n \in DOMAIN s : s[n] \in Files
    BY <1>4, <1>5
  <2>2. \A n \in 1..Len(s) : [file |-> s[n], local |-> FALSE, status |-> "done"] \in Item
    BY <2>1 DEF Item
  <2>3. p \in Seq(Item)
    BY <2>1, <2>2
  <2>4. \A n \in DOMAIN p : ~p[n].local /\ p[n].status = "done"
    OBVIOUS
  <2> HIDE DEF p
  <2> QED
    BY <2>3, <2>4 DEF Once, ToSet
<1> HIDE DEF p
<1>7. u \in Seq(Item) /\ Once(u) /\ ToSet(u) = { i \in I : i.status # "done" }
  BY <1>2, <1>4, FilterSet, FilterOnce
<1> HIDE DEF u
<1>8. items' \in Seq(Item) /\ J = ToSet(p) \cup ToSet(u)
  <2>1. p \o u \in Seq(Item) /\ ToSet(p \o u) = ToSet(p) \cup ToSet(u)
    BY ONLY <1>6, <1>7, Joined
  <2> QED
    BY <1>1, <2>1
<1>9. Once(items')
  BY <1>1, <1>6, <1>7, JoinedOnce
<1> HIDE DEF I, J
<1>10. \A i \in J : (i \in I /\ i.status # "done") \/ (~i.local /\ i.status = "done")
  BY <1>6, <1>7, <1>8
<1>11. \A i \in I : i.status # "done" => i \in J
  BY <1>7, <1>8
<1>12. ItemsFit(J, deletions, added)
  BY <1>2, <1>10 DEF ItemsFit
<1>13. TasksFit(J, deletions, added, tasks, scheduled)
  <2>1. \A g : Gone(I, deletions, g) => Gone(J, deletions, g)
    BY <1>10 DEF Gone
  <2>2. \A g, st : st # "done" => (Has(I, g, st) => Has(J, g, st))
    BY <1>11 DEF Has
  <2> QED
    BY <1>2, <2>1, <2>2 DEF TasksFit, TaskFits
<1>14. Awaits(J, added, tasks, waiter, awaited)
  BY <1>2, <1>10 DEF Awaits, Active
<1>15. \A i \in J : i.status = "uploading" => Open(tasks, i.file) # {}
  BY <1>3, <1>10 DEF Covered, Active
<1>16. /\ tasks' \in Seq(Task) /\ scheduled' \subseteq Files /\ Len(tasks) <= Len(tasks')
       /\ TasksFit(J, deletions, added, tasks', scheduled')
       /\ Covered(J, tasks')
       /\ Awaits(J, added, tasks', waiter, awaited)
  BY <1>1, <1>4, <1>8, <1>9, <1>12, <1>13, <1>14, <1>15, ScheduleKeeps DEF J
<1>17. TypeOK'
  <2>1. Len(tasks) \in Nat /\ Len(tasks') \in Nat
    BY <1>2, <1>16 DEF TypeOK
  <2> QED
    BY <2>1, <1>1, <1>2, <1>8, <1>16 DEF TypeOK
<1>18. Early'
  BY <1>1, <1>3 DEF Early
<1> QED
  BY <1>1, <1>2, <1>9, <1>12, <1>16, <1>17, <1>18 DEF UploadInv, J

LEMMA WaitForIdleKeeps == ASSUME UploadInv, WaitForIdle PROVE UploadInv'
<1> DEFINE I == ToSet(items)
<1>1. /\ context /\ waiter' = UNION { LastTask(f) : f \in Busy } /\ awaited' = Busy /\ acts' = acts + 1
      /\ UNCHANGED <<added, items, context, scheduled, tasks, server, deletions, orders, refresh, faults>>
  BY DEF WaitForIdle, Act, ops
<1>2. TypeOK /\ Once(items) /\ ItemsFit(I, deletions, added) /\ TasksFit(I, deletions, added, tasks, scheduled)
      /\ Covered(I, tasks)
  BY <1>1 DEF UploadInv
<1>3. added \subseteq Files
  BY <1>2 DEF TypeOK
<1>4. Busy \subseteq added
  BY <1>2 DEF Busy, ItemsFit
<1>5. waiter' \subseteq DOMAIN tasks
  BY <1>1 DEF LastTask
<1>6. \A i \in I : i.file \in Busy /\ i.status \in Active => Open(tasks, i.file) \cap waiter' # {}
  <2> SUFFICES ASSUME NEW i \in I, i.file \in Busy, i.status \in Active
               PROVE  Open(tasks, i.file) \cap waiter' # {}
    OBVIOUS
  <2>1. PICK k \in DOMAIN tasks : tasks[k].file = i.file /\ tasks[k].pc # "ended"
    BY <1>2 DEF Covered, Open
  <2>2. \A j \in DOMAIN tasks : tasks[j].file = i.file => j <= k
    <3>1. TaskFits(I, deletions, tasks, scheduled, k)
      BY <1>2 DEF TasksFit
    <3>2. \A j \in DOMAIN tasks : j \in Nat
      BY <1>2 DEF TypeOK
    <3> QED
      BY <2>1, <3>1, <3>2 DEF TaskFits
  <2>3. k \in LastTask(i.file)
    BY <2>1, <2>2 DEF LastTask
  <2>4. k \in waiter'
    BY <1>1, <2>3
  <2> QED
    BY <2>1, <2>4 DEF Open
<1>7. Awaits(I, added, tasks, waiter', awaited')
  BY <1>1, <1>4, <1>6 DEF Awaits
<1>8. TypeOK'
  <2>1. DOMAIN tasks = 1..Len(tasks)
    BY <1>2 DEF TypeOK
  <2> QED
    BY <1>1, <1>2, <1>3, <1>4, <1>5, <2>1 DEF TypeOK
<1>9. Early'
  BY <1>1 DEF Early
<1> QED
  BY <1>1, <1>2, <1>7, <1>8, <1>9 DEF UploadInv

LEMMA ResolveKeeps == ASSUME UploadInv, Resolve PROVE UploadInv'
<1>1. /\ waiter' = {} /\ awaited' = {}
      /\ UNCHANGED <<added, items, context, scheduled, tasks, server, deletions, orders, refresh, acts, faults>>
  BY DEF Resolve, ops, bounds
<1>2. TypeOK'
  BY <1>1 DEF UploadInv, TypeOK
<1>3. Awaits(ToSet(items'), added', tasks', waiter', awaited')
  BY <1>1 DEF Awaits
<1> QED
  BY <1>1, <1>2, <1>3 DEF UploadInv, Early

LEMMA QueryKeeps == ASSUME UploadInv, Query PROVE UploadInv'
<1>1. /\ context /\ refresh' = {server} /\ acts' = acts + 1
      /\ UNCHANGED <<added, items, context, scheduled, tasks, server, deletions, orders, waiter, awaited, faults>>
  BY DEF Query, Act, ops
<1>2. TypeOK /\ Once(items)
  BY DEF UploadInv
<1> QED
  BY <1>1, <1>2, SameSetKeeps DEF UploadInv, TypeOK

LEMMA ReorderedKeeps == ASSUME UploadInv, NEW o \in orders, Reordered(o) PROVE UploadInv'
<1>1. /\ orders' \subseteq orders
      /\ UNCHANGED <<added, items, context, scheduled, tasks, server, deletions, refresh, waiter, awaited, acts, faults>>
  BY DEF Reordered, bounds
<1>2. TypeOK /\ Once(items) /\ Early
  BY DEF UploadInv
<1> QED
  BY <1>1, <1>2, SameSetKeeps DEF UploadInv, TypeOK, Early

\* Among the places of a list that are marked there is a last one.
LEMMA LastPlace ==
  ASSUME NEW l \in Nat, NEW N, N \subseteq 1..l, N # {}
  PROVE  \E n \in N : \A m \in N : m <= n
<1> DEFINE M == { k \in 0..l : l - k \in N }
<1>1. M \subseteq 0..l
  OBVIOUS
<1>2. M # {}
  <2>1. PICK n \in N : TRUE
    OBVIOUS
  <2>2. l - n \in 0..l /\ l - (l - n) = n
    BY <2>1
  <2>3. l - n \in M
    BY <2>1, <2>2
  <2> QED
    BY <2>3
<1>3. PICK k \in M : \A m \in M : k <= m
  <2> HIDE DEF M
  <2> QED
    BY <1>1, <1>2, Least
<1>4. ASSUME NEW m \in N PROVE m <= l - k
  <2>1. l - m \in 0..l /\ l - (l - m) = m
    OBVIOUS
  <2>2. l - m \in M
    BY <2>1
  <2>3. k <= l - m
    BY <1>3, <2>2
  <2> QED
    BY <1>1, <2>3
<1> QED
  BY <1>4

LEMMA ItemOfKey ==
  ASSUME items \in Seq(Item), NEW key \in Keys
  PROVE  ItemOf(key) \in ToSet(items) /\ Key(ItemOf(key)) = key
<1> DEFINE N == { n \in DOMAIN items : Key(items[n]) = key }
<1>1. N # {} /\ N \subseteq 1..Len(items) /\ Len(items) \in Nat
  BY DEF Keys
<1>2. \E n \in N : \A m \in N : m <= n
  <2> HIDE DEF N
  <2> QED
    BY <1>1, LastPlace
<1>3. \E n \in DOMAIN items : /\ Key(items[n]) = key
                              /\ \A m \in DOMAIN items : Key(items[m]) = key => m <= n
  BY <1>2
<1> QED
  BY <1>3 DEF ItemOf, ToSet

\* An order that is taken back.
LEMMA ReorderFailsSame ==
  ASSUME UploadInv, NEW o \in orders, ReorderFails(o)
  PROVE  items' \in Seq(Item) /\ Once(items') /\ ToSet(items') = ToSet(items)
<1> DEFINE old == Filter(o, Keys)
           t == [n \in DOMAIN old |-> ItemOf(old[n])]
           I == ToSet(items)
<1>1. /\ orders' \subseteq orders /\ faults' = faults + 1
      /\ items' = t \o Untouched(items, ToSet(o))
      /\ UNCHANGED <<added, context, scheduled, tasks, server, deletions, refresh, waiter, awaited, acts>>
  BY DEF ReorderFails
<1>2. TypeOK /\ items \in Seq(Item) /\ Once(items) /\ Early /\ ItemsFit(I, deletions, added)
      /\ o \in Seq(Files \X BOOLEAN) /\ KeysOnce(o)
  BY DEF UploadInv, TypeOK
<1>3. old \in Seq(Files \X BOOLEAN) /\ KeysOnce(old) /\ ToSet(old) = ToSet(o) \cap Keys
  BY <1>2, FilterSet, FilterKeysOnce
<1>4. I \subseteq Item /\ Keys = { Key(i) : i \in I }
  BY <1>2, Elements DEF Keys, ToSet
<1> HIDE DEF old
<1>5. DOMAIN old = 1..Len(old) /\ Len(old) \in Nat /\ \A n \in DOMAIN old : old[n] \in Keys
  BY <1>3, Elements
<1>6. \A n \in DOMAIN old : ItemOf(old[n]) \in I /\ Key(ItemOf(old[n])) = old[n]
  BY <1>2, <1>5, ItemOfKey
<1>7. DOMAIN t = DOMAIN old /\ \A n \in DOMAIN old : t[n] \in I /\ Key(t[n]) = old[n]
  BY <1>6
<1>8. t \in Seq(Item)
  BY <1>4, <1>5, <1>6
<1> HIDE DEF t
<1>9. ToSet(t) \subseteq I
  BY <1>7 DEF ToSet
<1>10. Once(t)
  <2> SUFFICES ASSUME NEW m \in DOMAIN old, NEW n \in DOMAIN old, t[m].local, t[n].local, t[m].file = t[n].file
               PROVE  m = n
    BY <1>7 DEF Once
  <2>1. old[m] = <<t[m].file, t[m].local>> /\ old[n] = <<t[n].file, t[n].local>>
    BY <1>7 DEF Key
  <2>2. t[m].local = TRUE /\ t[n].local = TRUE
    BY <1>4, <1>7 DEF Item
  <2>3. old[m] = old[n] /\ old[m][2]
    BY <2>1, <2>2
  <2> QED
    BY <1>3, <2>3 DEF KeysOnce
<1>11. \A i \in I : Key(i) \in ToSet(o) <=> \E j \in ToSet(t) : Key(j) = Key(i)
  <2>1. ASSUME NEW i \in I, Key(i) \in ToSet(o) PROVE \E j \in ToSet(t) : Key(j) = Key(i)
    <3>1. Key(i) \in ToSet(old)
      BY <1>3, <1>4, <2>1
    <3>2. PICK n \in DOMAIN old : old[n] = Key(i)
      BY <1>3, <3>1, Elements
    <3> QED
      BY <1>7, <3>2 DEF ToSet
  <2>2. ASSUME NEW i \in I, NEW j \in ToSet(t), Key(j) = Key(i) PROVE Key(i) \in ToSet(o)
    <3>1. PICK n \in DOMAIN t : t[n] = j
      BY DEF ToSet
    <3>2. old[n] \in ToSet(old)
      BY <1>3, <1>7, Elements
    <3> QED
      BY <1>3, <1>7, <2>2, <3>1, <3>2
  <2> QED
    BY <2>1, <2>2
<1>12. items' \in Seq(Item) /\ Once(items') /\ ToSet(items') = I
  <2> DEFINE K == ToSet(o)
  <2>1. items' = t \o Untouched(items, K) /\ \A i \in I : Key(i) \in K <=> \E j \in ToSet(t) : Key(j) = Key(i)
    BY <1>1, <1>11
  <2> HIDE DEF K
  <2> QED
    BY <1>2, <1>8, <1>9, <1>10, <2>1, Rearranged
<1> QED
  BY <1>12

LEMMA ReorderFailsKeeps == ASSUME UploadInv, NEW o \in orders, ReorderFails(o) PROVE UploadInv'
<1>1. /\ orders' \subseteq orders /\ faults' = faults + 1
      /\ UNCHANGED <<added, context, scheduled, tasks, server, deletions, refresh, waiter, awaited, acts>>
  BY DEF ReorderFails
<1>2. TypeOK /\ Early
  BY DEF UploadInv
<1>3. items' \in Seq(Item) /\ Once(items') /\ ToSet(items') = ToSet(items)
  BY ReorderFailsSame
<1> QED
  BY <1>1, <1>2, <1>3, SameSetKeeps DEF UploadInv, TypeOK, Early

\* U is T with another state of the task k.
At(U, T, k, pc) ==
  /\ DOMAIN U = DOMAIN T
  /\ \A j \in DOMAIN T : /\ U[j].file = T[j].file /\ U[j].aborted = T[j].aborted
                         /\ j # k => U[j].pc = T[j].pc
  /\ U[k].pc = pc

LEMMA TaskMoves ==
  ASSUME tasks \in Seq(Task), NEW k \in DOMAIN tasks, NEW pc \in {"uploading", "stored", "ended"}
  PROVE  LET U == [tasks EXCEPT ![k].pc = pc]
         IN  U \in Seq(Task) /\ Len(U) = Len(tasks) /\ At(U, tasks, k, pc)
<1> DEFINE U == [tasks EXCEPT ![k].pc = pc]
<1>1. DOMAIN tasks = 1..Len(tasks) /\ Len(tasks) \in Nat /\ \A j \in DOMAIN tasks : tasks[j] \in Task
  OBVIOUS
<1>2. [tasks[k] EXCEPT !.pc = pc] \in Task /\ U \in [1..Len(tasks) -> Task]
  BY <1>1 DEF Task
<1>3. U \in Seq(Task) /\ Len(U) = Len(tasks)
  BY <1>1, <1>2
<1>4. At(U, tasks, k, pc)
  BY <1>1 DEF At, Task
<1> QED
  BY <1>3, <1>4

\* A task that has not ended is the only one of its file.
LEMMA OneTask ==
  ASSUME NEW I, NEW D, NEW A, NEW T, NEW S, TasksFit(I, D, A, T, S), NEW k \in DOMAIN T, T[k].pc # "ended"
  PROVE  \A j \in DOMAIN T : T[j].file = T[k].file /\ T[j].pc # "ended" => j = k
BY DEF TasksFit, TaskFits

LEMMA StartKeeps == ASSUME UploadInv, NEW k \in DOMAIN tasks, Start(k) PROVE UploadInv'
<1> DEFINE f == tasks[k].file
           I == ToSet(items)
           J == ToSet(items')
<1>1. /\ tasks[k].pc = "waiting"
      /\ UNCHANGED <<added, context, scheduled, server, deletions, orders, refresh, waiter, awaited, acts, faults>>
  BY DEF Start, ops, bounds
<1>2. TypeOK /\ Once(items) /\ ItemsFit(I, deletions, added) /\ TasksFit(I, deletions, added, tasks, scheduled)
      /\ Awaits(I, added, tasks, waiter, awaited)
  BY DEF UploadInv
<1>3. items \in Seq(Item) /\ tasks \in Seq(Task) /\ I \subseteq Item /\ f \in Files
  <2>1. items \in Seq(Item) /\ tasks \in Seq(Task)
    BY <1>2 DEF TypeOK
  <2>2. tasks[k] \in Task
    BY <2>1
  <2> QED
    BY <2>1, <2>2, Elements DEF Task
<1>4. context /\ Covered(I, tasks)
  BY <1>3 DEF UploadInv, Early
<1>5. TaskFits(I, deletions, tasks, scheduled, k)
  BY <1>2 DEF TasksFit
<1>6. CASE ToSend(f)
  <2>1. items' = Patched(f, "uploading") /\ tasks' = [tasks EXCEPT ![k].pc = "uploading"]
    BY <1>6 DEF Start
  <2>2. tasks' \in Seq(Task) /\ Len(tasks') = Len(tasks) /\ At(tasks', tasks, k, "uploading")
    BY <1>3, <2>1, TaskMoves
  <2>3. /\ ItemsFit(J, deletions, added)
        /\ \A g : Gone(J, deletions, g) <=> Gone(I, deletions, g)
        /\ \A g, s : g # f => (Has(J, g, s) <=> Has(I, g, s))
        /\ \A s : Has(J, f, s) <=> s = "uploading" /\ \E i \in I : i.local /\ i.file = f
    BY <1>2, <1>3, <2>1, PatchFits
  <2>4. items' \in Seq(Item) /\ Once(items') /\ \A j \in J : \E i \in I : PatchOf(j, i, f, "uploading")
    BY <1>2, <1>3, <2>1, Patches
  <2>5. PICK q \in I : q.file = f /\ q.status = "queued" /\ q.local
    BY <1>2, <1>6 DEF ToSend, Queued, ItemsFit
  <2> HIDE DEF I, J, f
  <2>6. \A g : Open(tasks', g) = Open(tasks, g)
    BY <1>1, <2>2 DEF Open, At
  <2>7. ASSUME NEW j \in DOMAIN tasks PROVE TaskFits(J, deletions, tasks', scheduled, j)
    <3>1. TaskFits(I, deletions, tasks, scheduled, j)
      BY <1>2 DEF TasksFit
    <3>2. CASE j = k
      <4>1. Has(J, f, "uploading") /\ ~tasks[k].aborted
        BY <1>1, <1>5, <2>3, <2>5 DEF TaskFits
      <4>2. \A m \in DOMAIN tasks : tasks'[m].pc # "ended" <=> tasks[m].pc # "ended"
        BY <1>1, <2>2 DEF At
      <4> QED
        BY <1>1, <1>5, <2>2, <3>2, <4>1, <4>2 DEF TaskFits, At, f
    <3>3. CASE j # k /\ tasks[j].pc # "ended"
      <4>1. tasks[j].file # f
        BY <1>1, <1>2, <3>3, OneTask DEF f
      <4>2. \A m \in DOMAIN tasks : tasks'[m].pc # "ended" <=> tasks[m].pc # "ended"
        BY <1>1, <2>2 DEF At
      <4> QED
        BY <2>2, <2>3, <3>1, <3>3, <4>1, <4>2 DEF TaskFits, At
    <3>4. CASE j # k /\ tasks[j].pc = "ended"
      BY <2>2, <3>4 DEF TaskFits, At
    <3> QED
      BY <3>2, <3>3, <3>4
  <2>8. TasksFit(J, deletions, added, tasks', scheduled)
    BY <1>2, <2>2, <2>3, <2>6, <2>7 DEF TasksFit, At
  <2>9. \A j \in J : j.status \in Active => \E i \in I : i.file = j.file /\ i.status \in Active
    BY <2>4, <2>5 DEF PatchOf, Active
  <2>10. Covered(J, tasks') /\ Awaits(J, added, tasks', waiter, awaited)
    BY <1>2, <1>4, <2>6, <2>9 DEF Covered, Awaits
  <2>11. TypeOK'
    BY <1>1, <1>2, <2>2, <2>4 DEF TypeOK
  <2>12. Early'
    BY <1>1, <1>4 DEF Early
  <2> QED
    BY <1>1, <1>2, <2>3, <2>4, <2>8, <2>10, <2>11, <2>12 DEF UploadInv, J
<1>7. CASE ~ToSend(f)
  <2>1. items' = items /\ tasks' = [tasks EXCEPT ![k].pc = "ended"]
    BY <1>7 DEF Start
  <2>2. tasks' \in Seq(Task) /\ Len(tasks') = Len(tasks) /\ At(tasks', tasks, k, "ended")
    BY <1>3, <2>1, TaskMoves
  <2>3. Gone(I, deletions, f)
    BY <1>1, <1>5, <1>7 DEF TaskFits, ToSend, Queued, Has
  <2> HIDE DEF I, J, f
  <2>4. \A g : g # f => Open(tasks', g) = Open(tasks, g)
    BY <2>2 DEF Open, At, f
  <2>5. ASSUME NEW j \in DOMAIN tasks PROVE TaskFits(I, deletions, tasks', scheduled, j)
    <3>1. TaskFits(I, deletions, tasks, scheduled, j)
      BY <1>2 DEF TasksFit
    <3>2. \A m \in DOMAIN tasks : tasks'[m].pc # "ended" => tasks[m].pc # "ended" /\ tasks'[m].pc = tasks[m].pc
      BY <1>1, <2>2 DEF At
    <3> QED
      BY <2>2, <3>1, <3>2 DEF TaskFits, At
  <2>6. TasksFit(I, deletions, added, tasks', scheduled)
    <3>1. \A g \in scheduled : g \in added /\ (Gone(I, deletions, g) \/ Open(tasks', g) # {})
      BY <1>2, <2>3, <2>4 DEF TasksFit
    <3> QED
      BY <2>2, <2>5, <3>1 DEF TasksFit, At
  <2>7. \A i \in I : i.status \in Active => i.file # f
    BY <1>2, <2>3 DEF ItemsFit, Gone, Active
  <2>8. Covered(I, tasks') /\ Awaits(I, added, tasks', waiter, awaited)
    BY <1>2, <1>4, <2>4, <2>7 DEF Covered, Awaits
  <2>9. TypeOK'
    BY <1>1, <1>2, <2>1, <2>2 DEF TypeOK
  <2>10. Early'
    BY <1>1, <1>4 DEF Early
  <2> QED
    BY <1>1, <1>2, <2>1, <2>6, <2>8, <2>9, <2>10 DEF UploadInv, I
<1> QED
  BY <1>6, <1>7

LEMMA StoreKeeps == ASSUME UploadInv, NEW k \in DOMAIN tasks, Store(k) PROVE UploadInv'
<1> DEFINE I == ToSet(items)
<1>1. /\ tasks[k].pc = "uploading" /\ server' = server \cup {tasks[k].file}
      /\ tasks' = [tasks EXCEPT ![k].pc = "stored"]
      /\ UNCHANGED <<added, items, context, scheduled, deletions, orders, refresh, waiter, awaited, acts, faults>>
  BY DEF Store, ops, bounds
<1>2. TypeOK /\ Once(items) /\ ItemsFit(I, deletions, added) /\ TasksFit(I, deletions, added, tasks, scheduled)
      /\ Awaits(I, added, tasks, waiter, awaited)
  BY DEF UploadInv
<1>3. tasks \in Seq(Task) /\ tasks[k].file \in Files
  <2>1. tasks \in Seq(Task)
    BY <1>2 DEF TypeOK
  <2>2. tasks[k] \in Task
    BY <2>1
  <2> QED
    BY <2>1, <2>2 DEF Task
<1>4. context /\ Covered(I, tasks)
  BY <1>3 DEF UploadInv, Early
<1>5. tasks' \in Seq(Task) /\ Len(tasks') = Len(tasks) /\ At(tasks', tasks, k, "stored")
  BY <1>1, <1>3, TaskMoves
<1> HIDE DEF I
<1>6. \A j \in DOMAIN tasks : /\ tasks'[j].pc = "ended" <=> tasks[j].pc = "ended"
                              /\ tasks'[j].pc = "waiting" <=> tasks[j].pc = "waiting"
  BY <1>1, <1>5 DEF At
<1>7. \A g : Open(tasks', g) = Open(tasks, g)
  BY <1>5, <1>6 DEF Open, At
<1>8. ASSUME NEW j \in DOMAIN tasks PROVE TaskFits(I, deletions, tasks', scheduled, j)
  <2>1. TaskFits(I, deletions, tasks, scheduled, j)
    BY <1>2 DEF TasksFit
  <2> QED
    BY <1>5, <1>6, <2>1 DEF TaskFits, At
<1>9. TasksFit(I, deletions, added, tasks', scheduled)
  BY <1>2, <1>5, <1>7, <1>8 DEF TasksFit, At
<1>10. Covered(I, tasks') /\ Awaits(I, added, tasks', waiter, awaited)
  BY <1>2, <1>4, <1>7 DEF Covered, Awaits
<1>11. TypeOK'
  BY <1>1, <1>2, <1>3, <1>5 DEF TypeOK
<1>12. Early'
  BY <1>1, <1>4 DEF Early
<1> QED
  BY <1>1, <1>2, <1>9, <1>10, <1>11, <1>12 DEF UploadInv, I

LEMMA EndKeeps ==
  ASSUME UploadInv, NEW k \in DOMAIN tasks, k \in Running, NEW st \in {"done", "error"}, End(k, st),
         faults' \in Nat
  PROVE  UploadInv'
<1> DEFINE f == tasks[k].file
           I == ToSet(items)
           J == ToSet(items')
<1>1. /\ tasks[k].pc # "ended" /\ tasks[k].pc # "waiting" /\ scheduled' = scheduled \ {f}
      /\ tasks' = [tasks EXCEPT ![k].pc = "ended"]
      /\ items' = IF tasks[k].aborted THEN items ELSE Patched(f, st)
      /\ UNCHANGED <<added, context, server, deletions, orders, refresh, waiter, awaited, acts>>
  BY DEF End, ops, Running, Cleared
<1>2. TypeOK /\ Once(items) /\ ItemsFit(I, deletions, added) /\ TasksFit(I, deletions, added, tasks, scheduled)
      /\ Awaits(I, added, tasks, waiter, awaited)
  BY DEF UploadInv
<1>3. items \in Seq(Item) /\ tasks \in Seq(Task) /\ I \subseteq Item /\ f \in Files
  <2>1. items \in Seq(Item) /\ tasks \in Seq(Task)
    BY <1>2 DEF TypeOK
  <2>2. tasks[k] \in Task
    BY <2>1
  <2> QED
    BY <2>1, <2>2, Elements DEF Task
<1>4. context /\ Covered(I, tasks)
  BY <1>3 DEF UploadInv, Early
<1>5. TaskFits(I, deletions, tasks, scheduled, k)
  BY <1>2 DEF TasksFit
<1>6. tasks' \in Seq(Task) /\ Len(tasks') = Len(tasks) /\ At(tasks', tasks, k, "ended")
  BY <1>1, <1>3, TaskMoves
<1>7. /\ items' \in Seq(Item) /\ Once(items') /\ ItemsFit(J, deletions, added)
      /\ \A g : Gone(J, deletions, g) <=> Gone(I, deletions, g)
      /\ \A g, s : g # f => (Has(J, g, s) <=> Has(I, g, s))
      /\ \A j \in J : j.status \in Active => j \in I /\ j.file # f
  <2>1. CASE tasks[k].aborted
    <3>1. Gone(I, deletions, f)
      BY <1>1, <1>5, <2>1 DEF TaskFits
    <3>2. \A j \in I : j.status \in Active => j.file # f
      BY <1>2, <3>1 DEF ItemsFit, Gone, Active
    <3> QED
      BY <1>1, <1>2, <1>3, <2>1, <3>2
  <2>2. CASE ~tasks[k].aborted
    <3>1. items' = Patched(f, st)
      BY <1>1, <2>2
    <3>2. /\ ItemsFit(J, deletions, added)
          /\ \A g : Gone(J, deletions, g) <=> Gone(I, deletions, g)
          /\ \A g, s : g # f => (Has(J, g, s) <=> Has(I, g, s))
      BY <1>2, <1>3, <3>1, PatchFits
    <3>3. items' \in Seq(Item) /\ Once(items') /\ \A j \in J : \E i \in I : PatchOf(j, i, f, st)
      BY <1>2, <1>3, <3>1, Patches
    <3>4. J \subseteq Item
      BY <3>3, Elements
    <3>5. ASSUME NEW j \in J, j.status \in Active PROVE j \in I /\ j.file # f
      <4>1. PICK i \in I : PatchOf(j, i, f, st)
        BY <3>3
      <4>2. ~(i.file = f /\ i.local) /\ j.status = i.status
        BY <3>5, <4>1 DEF PatchOf, Active
      <4>3. i.local
        BY <1>2, <3>5, <4>2 DEF ItemsFit, Active
      <4>4. i \in Item /\ j \in Item
        BY <1>3, <3>4
      <4>5. i = j
        BY <4>1, <4>2, <4>4, SameItem DEF PatchOf
      <4> QED
        BY <4>2, <4>3, <4>5
    <3> QED
      BY <3>2, <3>3, <3>5
  <2> QED
    BY <2>1, <2>2
<1> HIDE DEF I, J, f
<1>8. \A g : g # f => Open(tasks', g) = Open(tasks, g)
  BY <1>6 DEF Open, At, f
<1>9. ASSUME NEW j \in DOMAIN tasks PROVE TaskFits(J, deletions, tasks', scheduled', j)
  <2>1. TaskFits(I, deletions, tasks, scheduled, j)
    BY <1>2 DEF TasksFit
  <2>2. CASE j = k \/ tasks[j].pc = "ended"
    BY <1>6, <2>2 DEF TaskFits, At
  <2>3. CASE j # k /\ tasks[j].pc # "ended"
    <3>1. tasks[j].file # f
      BY <1>1, <1>2, <2>3, OneTask DEF f
    <3>2. \A m \in DOMAIN tasks : tasks'[m].pc # "ended" => tasks[m].pc # "ended"
      BY <1>6 DEF At
    <3> QED
      BY <1>1, <1>6, <1>7, <2>1, <2>3, <3>1, <3>2 DEF TaskFits, At
  <2> QED
    BY <2>2, <2>3
<1>10. TasksFit(J, deletions, added, tasks', scheduled')
  <2>1. \A g \in scheduled' : g \in added /\ (Gone(J, deletions, g) \/ Open(tasks', g) # {})
    BY <1>1, <1>2, <1>7, <1>8 DEF TasksFit
  <2> QED
    BY <1>6, <1>9, <2>1 DEF TasksFit, At
<1>11. Covered(J, tasks') /\ Awaits(J, added, tasks', waiter, awaited)
  BY <1>2, <1>4, <1>7, <1>8 DEF Covered, Awaits
<1>12. TypeOK'
  BY <1>1, <1>2, <1>6, <1>7 DEF TypeOK
<1>13. Early'
  BY <1>1, <1>4 DEF Early
<1> QED
  BY <1>1, <1>2, <1>7, <1>10, <1>11, <1>12, <1>13 DEF UploadInv, J

LEMMA DeletedKeeps == ASSUME UploadInv, NEW i \in deletions, Deleted(i) PROVE UploadInv'
<1> DEFINE I == ToSet(items)
<1>1. /\ deletions' = deletions \ {i} /\ server' \subseteq server
      /\ UNCHANGED <<added, items, context, scheduled, tasks, orders, refresh, waiter, awaited, acts, faults>>
  BY DEF Deleted, bounds
<1>2. TypeOK /\ ItemsFit(I, deletions, added) /\ TasksFit(I, deletions, added, tasks, scheduled)
  BY DEF UploadInv
<1> HIDE DEF I
<1>3. ItemsFit(I, deletions', added)
  BY <1>1, <1>2 DEF ItemsFit
<1>4. TasksFit(I, deletions', added, tasks, scheduled)
  <2>1. \A g : Gone(I, deletions, g) => Gone(I, deletions', g)
    BY <1>1 DEF Gone
  <2> QED
    BY <1>2, <2>1 DEF TasksFit, TaskFits
<1>5. TypeOK'
  BY <1>1, <1>2 DEF TypeOK
<1> QED
  BY <1>1, <1>3, <1>4, <1>5 DEF UploadInv, Early, I

LEMMA DeleteFailsKeeps == ASSUME UploadInv, NEW i \in deletions, DeleteFails(i) PROVE UploadInv'
<1> DEFINE I == ToSet(items)
           J == ToSet(items')
<1>1. /\ deletions' = deletions \ {i} /\ faults' = faults + 1 /\ items' = Append(items, i)
      /\ UNCHANGED <<added, context, scheduled, tasks, server, orders, refresh, waiter, awaited, acts>>
  BY DEF DeleteFails
<1>2. TypeOK /\ Once(items) /\ ItemsFit(I, deletions, added) /\ TasksFit(I, deletions, added, tasks, scheduled)
      /\ Awaits(I, added, tasks, waiter, awaited) /\ (context => Covered(I, tasks)) /\ Early
  BY DEF UploadInv
<1>3. items \in Seq(Item) /\ I \subseteq Item /\ deletions \subseteq Item
  BY <1>2, Elements DEF TypeOK
<1>4. items' \in Seq(Item) /\ J = I \cup {i} /\ Once(items')
  <2>1. i.local => \A j \in I : j.local => j.file # i.file
    BY <1>2 DEF ItemsFit
  <2>2. i \in Item
    BY <1>3
  <2> QED
    BY <1>1, <1>2, <1>3, <2>1, <2>2, Appended
<1> HIDE DEF I, J
<1>5. i.status = "done"
  BY <1>2 DEF ItemsFit
<1>6. ItemsFit(J, deletions', added)
  <2>1. \A d \in deletions' : i.local /\ d.local => i.file # d.file
    <3> SUFFICES ASSUME NEW d \in deletions', i.local, d.local, i.file = d.file PROVE FALSE
      OBVIOUS
    <3>1. d \in deletions /\ d # i /\ d.status = "done" /\ d \in Item /\ i \in Item
      BY <1>1, <1>2, <1>3 DEF ItemsFit
    <3>2. d.local = i.local
      BY <3>1 DEF Item
    <3> QED
      BY <1>5, <3>1, <3>2, SameItem
  <2>2. \A j \in J : (j.local => j.file \in added) /\ (~j.local => j.status = "done")
    BY <1>2, <1>4, <1>5 DEF ItemsFit
  <2>3. \A j, l \in J : j.local /\ l.local /\ j.file = l.file => j = l
    BY <1>2, <1>4 DEF ItemsFit
  <2>4. \A d \in deletions' : d.status = "done" /\ (d.local => d.file \in added /\ \A j \in J : j.local => j.file # d.file)
    BY <1>1, <1>2, <1>4, <2>1 DEF ItemsFit
  <2> QED
    BY <2>2, <2>3, <2>4 DEF ItemsFit
<1>7. TasksFit(J, deletions', added, tasks, scheduled)
  <2>1. \A g : Gone(I, deletions, g) => Gone(J, deletions', g)
    BY <1>1, <1>4 DEF Gone
  <2>2. \A g, s : Has(I, g, s) => Has(J, g, s)
    BY <1>4 DEF Has
  <2> QED
    BY <1>2, <2>1, <2>2 DEF TasksFit, TaskFits
<1>8. Awaits(J, added, tasks, waiter, awaited) /\ (context => Covered(J, tasks))
  BY <1>2, <1>4, <1>5 DEF Awaits, Covered, Active
<1>9. TypeOK'
  BY <1>1, <1>2, <1>3, <1>4 DEF TypeOK
<1>10. Early'
  BY <1>1, <1>2, <1>4, <1>5 DEF Early, I, J
<1> QED
  BY <1>1, <1>2, <1>4, <1>6, <1>7, <1>8, <1>9, <1>10 DEF UploadInv, J

LEMMA UploadedKeeps == ASSUME UploadInv, NEW k \in DOMAIN tasks, Uploaded(k) PROVE UploadInv'
<1>1. k \in Running /\ End(k, "done") /\ faults' = faults
  BY DEF Uploaded, Running
<1>2. faults' \in Nat
  BY <1>1 DEF UploadInv, TypeOK
<1> QED
  BY <1>1, <1>2, EndKeeps

LEMMA FailedKeeps == ASSUME UploadInv, NEW k \in DOMAIN tasks, Failed(k) PROVE UploadInv'
<1>1. k \in Running /\ End(k, "error") /\ faults' \in {faults, faults + 1}
  BY DEF Failed
<1>2. faults' \in Nat
  BY <1>1 DEF UploadInv, TypeOK
<1> QED
  BY <1>1, <1>2, EndKeeps

LEMMA UploadNext == UploadInv /\ [Next]_vars => UploadInv'
<1> SUFFICES ASSUME UploadInv, [Next]_vars PROVE UploadInv'
  OBVIOUS
<1>1. CASE User
  BY <1>1, AddFilesKeeps, AddRejectedFileKeeps, RemoveLocalKeeps, RemoveDoneKeeps, RetryItemKeeps,
     ReorderItemsKeeps DEF User
<1>2. CASE Pages
  BY <1>2, SetGroupContextKeeps, QueryKeeps, HydrateKeeps, WaitForIdleKeeps, ResolveKeeps DEF Pages
<1>3. CASE \E k \in DOMAIN tasks : Upload(k)
  BY <1>3, StartKeeps, StoreKeeps, UploadedKeeps, FailedKeeps DEF Upload
<1>4. CASE \E i \in deletions : Deleted(i) \/ DeleteFails(i)
  BY <1>4, DeletedKeeps, DeleteFailsKeeps
<1>5. CASE \E o \in orders : Reordered(o) \/ ReorderFails(o)
  BY <1>5, ReorderedKeeps, ReorderFailsKeeps
<1>6. CASE UNCHANGED vars
  <2>1. TypeOK'
    BY <1>6 DEF UploadInv, TypeOK, vars, ops, bounds
  <2>2. Early'
    BY <1>6 DEF UploadInv, Early, vars, ops, bounds
  <2> QED
    BY <1>6, <2>1, <2>2 DEF UploadInv, vars, ops, bounds
<1> QED
  BY <1>1, <1>2, <1>3, <1>4, <1>5, <1>6 DEF Next

--------------------------------------------------------------------------------
(* What the upload manager promises.                                       *)

LEMMA UploadInvHolds == Spec => []UploadInv
<1> QED
  BY UploadInit, UploadNext, PTL DEF Spec

(* waitForIdle: when it resolves, no file that it was to await is still      *)
(* queued or uploading, unless it was retried since.                         *)
THEOREM IdleCovers == Spec => []WaitCovers
<1>1. UploadInv => WaitCovers
  <2> SUFFICES ASSUME UploadInv, Resolved, NEW f \in awaited, f \in Busy PROVE FALSE
    BY DEF WaitCovers
  <2>1. PICK i \in ToSet(items) : i.file = f /\ i.status \in Active
    BY DEF Busy, Active
  <2>2. PICK k \in Open(tasks, f) : k \in waiter
    BY <2>1 DEF UploadInv, Awaits
  <2> QED
    BY <2>2 DEF Open, Resolved
<1> QED
  BY <1>1, UploadInvHolds, PTL

(* runUpload: a request that runs is of an item that is listed as uploading, *)
(* or was aborted when that item was removed.                                *)
THEOREM OnlyListedSent == Spec => []SentAsListed
<1>1. UploadInv => SentAsListed
  <2> SUFFICES ASSUME UploadInv, NEW k \in Running, ~tasks[k].aborted
               PROVE  Has(ToSet(items), tasks[k].file, "uploading")
    BY DEF SentAsListed, Has
  <2>1. TaskFits(ToSet(items), deletions, tasks, scheduled, k)
    BY DEF UploadInv, TasksFit, Running
  <2> QED
    BY <2>1 DEF TaskFits, Running
<1> QED
  BY <1>1, UploadInvHolds, PTL

LEMMA PatchedListed ==
  ASSUME UploadInv, NEW f \in Files, NEW st \in Status, items' = Patched(f, st) PROVE Listed' = Listed
<1>1. /\ \A i \in ToSet(items) : \E j \in ToSet(items') : PatchOf(j, i, f, st)
      /\ \A j \in ToSet(items') : \E i \in ToSet(items) : PatchOf(j, i, f, st)
  BY Patches DEF UploadInv, TypeOK, Status
<1> QED
  BY <1>1 DEF Listed, PatchOf

\* A list that grows or is put in another order loses no file.
LEMMA NoneLost == ASSUME ToSet(items) \subseteq ToSet(items') PROVE Listed \subseteq Listed'
BY DEF Listed

LEMMA ListKeptStep ==
  ASSUME UploadInv, [Next]_vars
  PROVE  \/ Listed \subseteq Listed' \/ Hydrate
         \/ \E i \in ToSet(items) : RemoveLocal(i) \/ RemoveDone(i)
<1>1. items \in Seq(Item) /\ tasks \in Seq(Task) /\ Once(items) /\ ItemsFit(ToSet(items), deletions, added)
      /\ deletions \subseteq Item
  BY DEF UploadInv, TypeOK
<1>2. ASSUME items' = items PROVE Listed \subseteq Listed'
  BY <1>2 DEF Listed
<1>3. ASSUME NEW F \in SUBSET Files, AddFiles(F) PROVE Listed \subseteq Listed'
  <2> DEFINE s == SetToSeq(F)
             q == [n \in DOMAIN s |-> [file |-> s[n], local |-> TRUE, status |-> "queued"]]
  <2>1. items' = items \o q
    BY <1>3 DEF AddFiles
  <2>2. s \in Seq(F)
    BY FilesAssumption, FS_Subset, SeqOfSet
  <2> HIDE DEF s
  <2>3. q \in Seq(Item)
    <3>1. DOMAIN s = 1..Len(s) /\ Len(s) \in Nat /\ \A n \in 1..Len(s) : s[n] \in Files
      BY <2>2
    <3>2. \A n \in 1..Len(s) : [file |-> s[n], local |-> TRUE, status |-> "queued"] \in Item
      BY <3>1 DEF Item
    <3> QED
      BY <3>1, <3>2
  <2> HIDE DEF q
  <2>4. ToSet(items \o q) = ToSet(items) \cup ToSet(q)
    BY ONLY <1>1, <2>3, Joined
  <2> QED
    BY <2>1, <2>4, NoneLost
<1>4. ASSUME NEW f \in Files, AddRejectedFile(f) PROVE Listed \subseteq Listed'
  <2> DEFINE x == [file |-> f, local |-> TRUE, status |-> "error"]
  <2>1. x \in Item /\ x.file = f /\ x.local
    BY DEF Item
  <2>2. items' = Append(items, x) /\ f \notin added
    BY <1>4 DEF AddRejectedFile
  <2> HIDE DEF x
  <2>3. \A i \in ToSet(items) : i.local => i.file # x.file
    BY <1>1, <2>1, <2>2 DEF ItemsFit
  <2>4. ToSet(Append(items, x)) = ToSet(items) \cup {x}
    BY <1>1, <2>1, <2>3, Appended
  <2> QED
    BY <2>2, <2>4, NoneLost
<1>5. ASSUME NEW i \in ToSet(items), RetryItem(i) PROVE Listed \subseteq Listed'
  <2>1. i.file \in Files
    <3>1. i \in Item
      BY <1>1, Elements
    <3> QED
      BY <3>1 DEF Item
  <2> QED
    BY <1>5, <2>1, PatchedListed DEF RetryItem, Status
<1>6. ASSUME NEW s \in Dragged, ReorderItems(s) PROVE Listed \subseteq Listed'
  <2> DEFINE K == { Key(i) : i \in ToSet(s) }
  <2>1. items' = s \o Untouched(items, K) /\ \A i \in ToSet(items) : Key(i) \in K <=> \E j \in ToSet(s) : Key(j) = Key(i)
    BY <1>6 DEF ReorderItems
  <2> HIDE DEF K
  <2>2. s \in Seq(Item) /\ Once(s) /\ ToSet(s) \subseteq ToSet(items)
    BY <1>1, DraggedFits
  <2>3. ToSet(items') = ToSet(items)
    BY <1>1, <2>1, <2>2, Rearranged
  <2> QED
    BY <2>3, NoneLost
<1>7. ASSUME NEW k \in DOMAIN tasks, Upload(k) PROVE Listed \subseteq Listed'
  <2>1. tasks[k].file \in Files
    <3>1. tasks[k] \in Task
      BY <1>1
    <3> QED
      BY <3>1 DEF Task
  <2>2. items' = items \/ \E st \in Status : items' = Patched(tasks[k].file, st)
    BY <1>7 DEF Upload, Start, Store, Uploaded, Failed, End, Status
  <2> QED
    BY <1>2, <2>1, <2>2, PatchedListed
<1>8. ASSUME NEW i \in deletions, DeleteFails(i) PROVE Listed \subseteq Listed'
  <2>1. items' = Append(items, i) /\ i \in Item /\ (i.local => \A j \in ToSet(items) : j.local => j.file # i.file)
    BY <1>1, <1>8 DEF DeleteFails, ItemsFit
  <2>2. ToSet(Append(items, i)) = ToSet(items) \cup {i}
    BY <1>1, <2>1, Appended
  <2> QED
    BY <2>1, <2>2, NoneLost
<1>9. ASSUME NEW o \in orders, ReorderFails(o) PROVE Listed \subseteq Listed'
  <2>1. ToSet(items') = ToSet(items)
    BY <1>9, ReorderFailsSame
  <2> QED
    BY <2>1, NoneLost
<1>10. ASSUME SetGroupContext \/ Query \/ WaitForIdle \/ Resolve \/ UNCHANGED vars PROVE Listed \subseteq Listed'
  BY <1>2, <1>10 DEF SetGroupContext, Query, WaitForIdle, Resolve, vars
<1>11. ASSUME NEW i \in deletions, Deleted(i) PROVE Listed \subseteq Listed'
  BY <1>2, <1>11 DEF Deleted
<1>12. ASSUME NEW o \in orders, Reordered(o) PROVE Listed \subseteq Listed'
  BY <1>2, <1>12 DEF Reordered
<1> QED
  BY <1>3, <1>4, <1>5, <1>6, <1>7, <1>8, <1>9, <1>10, <1>11, <1>12 DEF Next, User, Pages

(* reorderItems and its rollback: a file leaves the list only by a removal   *)
(* or a refresh.                                                             *)
THEOREM NothingDropped == Spec => ListKept
<1>1. UploadInv /\ [Next]_vars =>
        [\/ Listed \subseteq Listed' \/ Hydrate
         \/ \E i \in ToSet(items) : RemoveLocal(i) \/ RemoveDone(i)]_vars
  BY ListKeptStep
<1> QED
  BY <1>1, UploadInvHolds, PTL DEF Spec, ListKept
================================================================================
