---------------------------------- MODULE Sums ----------------------------------
(***************************************************************************)
(* Sums over finite sets.  SumFunctionOnSet is defined by recursion, and   *)
(* the induction that its laws need is an argument about a smallest set    *)
(* for which they fail.                                                    *)
(***************************************************************************)
EXTENDS Integers, FiniteSets, Functions, FiniteSetTheorems, WellFoundedInduction, TLAPS

Some(s) == CHOOSE x \in s : TRUE

\* h is the function by which SumFunctionOnSet(f, T) is computed.
Sums(f, T, h) == h = [s \in SUBSET T |->
  IF s = {} THEN 0 ELSE f[Some(s)] + h[s \ {Some(s)}]]

\* A set of finite sets has a smallest one.
LEMMA Smallest ==
  ASSUME NEW S, IsFiniteSet(S), NEW C, C \subseteq SUBSET S, C # {}
  PROVE  \E T \in C : \A U \in C : U \subseteq T => U = T
<1>1. IsWellFoundedOn(StrictSubsetOrdering(S), SUBSET S)
  BY FS_StrictSubsetOrderingWellFounded, FS_FiniteSubsetsOfFinite
<1>2. PICK T \in C : \A U \in C : <<U, T>> \notin StrictSubsetOrdering(S)
  BY <1>1, WFMin
<1> QED
  BY <1>2 DEF StrictSubsetOrdering

LEMMA SomeIn == ASSUME NEW s, s # {} PROVE Some(s) \in s
BY DEF Some

LEMMA SumsAgree ==
  ASSUME NEW f, NEW S, IsFiniteSet(S), NEW T \in SUBSET S,
         NEW g, NEW h, Sums(f, S, g), Sums(f, T, h)
  PROVE  \A s \in SUBSET T : g[s] = h[s]
<1> DEFINE C == { s \in SUBSET T : g[s] # h[s] }
<1> SUFFICES ASSUME C # {} PROVE FALSE
  OBVIOUS
<1>1. PICK s \in C : \A u \in C : u \subseteq s => u = s
  <2>1. C \subseteq SUBSET S
    OBVIOUS
  <2> HIDE DEF C
  <2> QED
    BY <2>1, Smallest
<1>2. s \in SUBSET T /\ s \in SUBSET S
  OBVIOUS
<1>3. /\ g[s] = IF s = {} THEN 0 ELSE f[Some(s)] + g[s \ {Some(s)}]
      /\ h[s] = IF s = {} THEN 0 ELSE f[Some(s)] + h[s \ {Some(s)}]
  BY <1>2 DEF Sums
<1>4. s # {}
  BY <1>1, <1>3
<1>5. Some(s) \in s
  BY <1>4, SomeIn
<1>6. g[s \ {Some(s)}] = h[s \ {Some(s)}]
  BY <1>1, <1>2, <1>5
<1> QED
  BY <1>1, <1>3, <1>6

LEMMA SumsExist == ASSUME NEW f, NEW S, IsFiniteSet(S) PROVE \E h : Sums(f, S, h)
<1> DEFINE C == { T \in SUBSET S : ~ \E h : Sums(f, T, h) }
<1> SUFFICES ASSUME C # {} PROVE FALSE
  OBVIOUS
<1>1. PICK T \in C : \A U \in C : U \subseteq T => U = T
  <2>1. C \subseteq SUBSET S
    OBVIOUS
  <2> HIDE DEF C
  <2> QED
    BY <2>1, Smallest
<1> DEFINE H(U) == CHOOSE h : Sums(f, U, h)
           g == [s \in SUBSET T |-> IF s = {} THEN 0
                                     ELSE f[Some(s)] + H(s \ {Some(s)})[s \ {Some(s)}]]
<1>2. \A U \in SUBSET T : U # T => Sums(f, U, H(U))
  <2> SUFFICES ASSUME NEW U \in SUBSET T, U # T PROVE \E h : Sums(f, U, h)
    OBVIOUS
  <2> QED
    BY <1>1
<1> HIDE DEF H
<1>3. ASSUME NEW r \in SUBSET T, r # T PROVE g[r] = H(r)[r]
  <2>1. H(r)[r] = IF r = {} THEN 0 ELSE f[Some(r)] + H(r)[r \ {Some(r)}]
    BY <1>2, <1>3 DEF Sums
  <2>2. ASSUME r # {} PROVE H(r)[r \ {Some(r)}] = H(r \ {Some(r)})[r \ {Some(r)}]
    <3>1. Some(r) \in r /\ IsFiniteSet(r)
      BY <2>2, SomeIn, FS_Subset
    <3>2. Sums(f, r, H(r)) /\ Sums(f, r \ {Some(r)}, H(r \ {Some(r)}))
      BY <1>2, <1>3, <3>1
    <3> QED
      BY <3>1, <3>2, SumsAgree
  <2> QED
    BY <2>1, <2>2
<1>4. ASSUME NEW s \in SUBSET T, s # {} PROVE g[s \ {Some(s)}] = H(s \ {Some(s)})[s \ {Some(s)}]
  <2>1. Some(s) \in s
    BY <1>4, SomeIn
  <2> QED
    BY <1>3, <2>1
<1>5. Sums(f, T, g)
  <2> DEFINE k == [s \in SUBSET T |-> IF s = {} THEN 0 ELSE f[Some(s)] + g[s \ {Some(s)}]]
  <2>1. \A s \in SUBSET T : k[s] = g[s]
    BY <1>4
  <2>2. k = g
    BY <2>1
  <2> QED
    BY <2>2 DEF Sums
<1> QED
  BY <1>1, <1>5

\* What SumFunctionOnSet computes: the sum of nothing, and one element at a time.
LEMMA SumIs ==
  ASSUME NEW f, NEW S, IsFiniteSet(S), NEW h, Sums(f, S, h)
  PROVE  SumFunctionOnSet(f, S) = h[S]
<1> DEFINE k == CHOOSE i : Sums(f, S, i)
<1>1. SumFunctionOnSet(f, S) = k[S]
  BY DEF SumFunctionOnSet, FoldFunctionOnSet, MapThenFoldSet, Sums, Some
<1>2. Sums(f, S, k)
  OBVIOUS
<1> HIDE DEF k
<1> QED
  BY <1>1, <1>2, SumsAgree

LEMMA SumEmpty == ASSUME NEW f PROVE SumFunctionOnSet(f, {}) = 0
<1>1. PICK h : Sums(f, {}, h)
  BY SumsExist, FS_EmptySet
<1>2. h[{}] = 0
  BY <1>1 DEF Sums
<1> QED
  BY <1>1, <1>2, SumIs, FS_EmptySet

LEMMA SumSome ==
  ASSUME NEW f, NEW S, IsFiniteSet(S), S # {}
  PROVE  SumFunctionOnSet(f, S) = f[Some(S)] + SumFunctionOnSet(f, S \ {Some(S)})
<1> DEFINE R == S \ {Some(S)}
<1>1. R \in SUBSET S /\ IsFiniteSet(R)
  BY FS_Subset
<1>2. PICK h : Sums(f, S, h)
  BY SumsExist
<1>3. PICK g : Sums(f, R, g)
  BY <1>1, SumsExist
<1>4. h[S] = f[Some(S)] + h[R]
  BY <1>2 DEF Sums
<1>5. h[R] = g[R]
  <2> HIDE DEF R
  <2>1. \A s \in SUBSET R : h[s] = g[s]
    BY <1>1, <1>2, <1>3, SumsAgree
  <2> QED
    BY <2>1
<1> QED
  BY <1>1, <1>2, <1>3, <1>4, <1>5, SumIs

LEMMA SumInt ==
  ASSUME NEW S, IsFiniteSet(S), NEW f, \A x \in S : f[x] \in Int
  PROVE  SumFunctionOnSet(f, S) \in Int
<1> DEFINE C == { T \in SUBSET S : SumFunctionOnSet(f, T) \notin Int }
<1> SUFFICES ASSUME C # {} PROVE FALSE
  OBVIOUS
<1>1. PICK T \in C : \A U \in C : U \subseteq T => U = T
  <2>1. C \subseteq SUBSET S
    OBVIOUS
  <2> HIDE DEF C
  <2> QED
    BY <2>1, Smallest
<1>2. T \in SUBSET S /\ T # {} /\ IsFiniteSet(T)
  <2>1. T \in SUBSET S /\ SumFunctionOnSet(f, T) \notin Int
    BY <1>1
  <2>2. SumFunctionOnSet(f, {}) \in Int
    BY SumEmpty
  <2> HIDE DEF C
  <2>3. T # {}
    BY <2>1, <2>2
  <2>4. IsFiniteSet(T)
    BY <2>1, FS_Subset
  <2> QED
    BY <2>1, <2>3, <2>4
<1>3. Some(T) \in T
  BY <1>2, SomeIn
<1>4. SumFunctionOnSet(f, T \ {Some(T)}) \in Int
  BY <1>1, <1>2, <1>3
<1> QED
  BY <1>1, <1>2, <1>3, <1>4, SumSome

\* Any element may be taken out.
LEMMA SumRemove ==
  ASSUME NEW S, IsFiniteSet(S), NEW f, \A x \in S : f[x] \in Int, NEW y \in S
  PROVE  SumFunctionOnSet(f, S) = f[y] + SumFunctionOnSet(f, S \ {y})
<1> DEFINE Sum(T) == SumFunctionOnSet(f, T)
           C == { T \in SUBSET S : \E x \in T : Sum(T) # f[x] + Sum(T \ {x}) }
<1> SUFFICES ASSUME C # {} PROVE FALSE
  OBVIOUS
<1>1. PICK T \in C : \A U \in C : U \subseteq T => U = T
  <2>1. C \subseteq SUBSET S
    OBVIOUS
  <2> HIDE DEF C
  <2> QED
    BY <2>1, Smallest
<1>2. PICK x \in T : Sum(T) # f[x] + Sum(T \ {x})
  BY <1>1
<1> DEFINE z == Some(T)
           R == T \ {x}
           Q == T \ {z}
           P == T \ {x, z}
<1>3. T \in SUBSET S /\ z \in T /\ Sum(T) = f[z] + Sum(Q)
  <2>1. T \in SUBSET S
    BY <1>1
  <2> QED
    BY <2>1, SumSome, SomeIn, FS_Subset
<1> HIDE DEF z
<1>4. x # z
  BY <1>2, <1>3
<1>5. R \notin C /\ Q \notin C
  BY <1>1, <1>2, <1>3
<1>6. Sum(R) = f[z] + Sum(P)
  <2>1. z \in R /\ R \ {z} = P /\ R \in SUBSET S
    BY <1>3, <1>4
  <2> QED
    BY <1>5, <2>1
<1>7. Sum(Q) = f[x] + Sum(P)
  <2>1. x \in Q /\ Q \ {x} = P /\ Q \in SUBSET S
    BY <1>3, <1>4
  <2> QED
    BY <1>5, <2>1
<1>8. Sum(P) \in Int
  <2>1. P \in SUBSET S
    BY <1>3
  <2> QED
    BY <2>1, SumInt, FS_Subset
<1> HIDE DEF Sum
<1> QED
  BY <1>2, <1>3, <1>6, <1>7, <1>8

\* Functions with the same values have the same sum.
LEMMA SumSame ==
  ASSUME NEW S, IsFiniteSet(S), NEW f, NEW g, \A x \in S : f[x] = g[x]
  PROVE  SumFunctionOnSet(f, S) = SumFunctionOnSet(g, S)
<1> DEFINE C == { T \in SUBSET S : SumFunctionOnSet(f, T) # SumFunctionOnSet(g, T) }
<1> SUFFICES ASSUME C # {} PROVE FALSE
  OBVIOUS
<1>1. PICK T \in C : \A U \in C : U \subseteq T => U = T
  <2>1. C \subseteq SUBSET S
    OBVIOUS
  <2> HIDE DEF C
  <2> QED
    BY <2>1, Smallest
<1>2. T \in SUBSET S /\ T # {} /\ IsFiniteSet(T)
  BY <1>1, SumEmpty, FS_Subset
<1>3. Some(T) \in T
  BY <1>2, SomeIn
<1>4. SumFunctionOnSet(f, T \ {Some(T)}) = SumFunctionOnSet(g, T \ {Some(T)})
  BY <1>1, <1>2, <1>3
<1>5. SumFunctionOnSet(f, T) = SumFunctionOnSet(g, T)
  BY <1>2, <1>3, <1>4, SumSome
<1> QED
  BY <1>1, <1>5

\* A function that differs at y only.
LEMMA SumChange ==
  ASSUME NEW S, IsFiniteSet(S), NEW f, \A x \in S : f[x] \in Int,
         NEW g, \A x \in S : g[x] \in Int, NEW y \in S, \A x \in S : x # y => f[x] = g[x]
  PROVE  SumFunctionOnSet(g, S) = SumFunctionOnSet(f, S) - f[y] + g[y]
<1> DEFINE R == S \ {y}
<1>1. IsFiniteSet(R)
  BY FS_Subset
<1>2. SumFunctionOnSet(f, R) = SumFunctionOnSet(g, R)
  BY <1>1, SumSame
<1>3. SumFunctionOnSet(f, R) \in Int
  BY <1>1, SumInt
<1>4. /\ SumFunctionOnSet(f, S) = f[y] + SumFunctionOnSet(f, R)
      /\ SumFunctionOnSet(g, S) = g[y] + SumFunctionOnSet(g, R)
  BY SumRemove
<1>5. f[y] \in Int /\ g[y] \in Int
  OBVIOUS
<1> HIDE DEF R
<1> QED
  BY <1>2, <1>3, <1>4, <1>5

\* A sum of zeros.
LEMMA SumZero ==
  ASSUME NEW S, IsFiniteSet(S), NEW f, \A x \in S : f[x] = 0
  PROVE  SumFunctionOnSet(f, S) = 0
<1> DEFINE C == { T \in SUBSET S : SumFunctionOnSet(f, T) # 0 }
<1> SUFFICES ASSUME C # {} PROVE FALSE
  OBVIOUS
<1>1. PICK T \in C : \A U \in C : U \subseteq T => U = T
  <2>1. C \subseteq SUBSET S
    OBVIOUS
  <2> HIDE DEF C
  <2> QED
    BY <2>1, Smallest
<1>2. T \in SUBSET S /\ T # {} /\ IsFiniteSet(T)
  BY <1>1, SumEmpty, FS_Subset
<1>3. Some(T) \in T
  BY <1>2, SomeIn
<1>4. SumFunctionOnSet(f, T \ {Some(T)}) = 0
  BY <1>1, <1>2, <1>3
<1> QED
  BY <1>1, <1>2, <1>3, <1>4, SumSome
================================================================================
