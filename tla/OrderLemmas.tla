---------------------------- MODULE OrderLemmas -----------------------------
(***************************************************************************)
(* Maxima of finite sets, for the proofs about lookups and negotiations:   *)
(* what Python's max() and a loop that returns the first match rely on.    *)
(* Induction and recursion over the natural numbers, with sets where the   *)
(* library's theorems have predicates, so that provers without             *)
(* second-order instantiation can apply them.                              *)
(***************************************************************************)
EXTENDS Integers, FiniteSetTheorems, WellFoundedInduction, TLAPS

\* A finite set has an element maximal in a strict order R.
LEMMA MaximalExists ==
    ASSUME NEW S, IsFiniteSet(S), S # {}, NEW R,
           \A x, y \in S : <<x, y>> \in R => <<y, x>> \notin R,
           \A x, y, z \in S : <<x, y>> \in R /\ <<y, z>> \in R => <<x, z>> \in R
    PROVE  \E x \in S : \A y \in S : <<x, y>> \notin R
<1> DEFINE Bad == {T \in SUBSET S : T # {} /\ \A x \in T : \E y \in T : <<x, y>> \in R}
<1> SUFFICES ASSUME S \in Bad PROVE FALSE
  OBVIOUS
<1>1. IsWellFoundedOn(StrictSubsetOrdering(S), SUBSET S)
  <2>1. IsWellFoundedOn(StrictSubsetOrdering(S), FiniteSubsetsOf(S))
    BY FS_StrictSubsetOrderingWellFounded
  <2>2. FiniteSubsetsOf(S) = SUBSET S
    BY FS_FiniteSubsetsOfFinite
  <2> QED BY <2>1, <2>2
<1>2. Bad \subseteq SUBSET S /\ Bad # {}
  OBVIOUS
<1> HIDE DEF Bad
<1>3. PICK T \in Bad : \A U \in Bad : <<U, T>> \notin StrictSubsetOrdering(S)
  <2> DEFINE Order == StrictSubsetOrdering(S)
  <2>1. IsWellFoundedOn(Order, SUBSET S)
    BY <1>1
  <2> HIDE DEF Order
  <2>2. \E U \in Bad : \A W \in Bad : ~ (<<W, U>> \in Order)
    BY <2>1, <1>2, WFMin
  <2> QED BY <2>2 DEF Order
<1>4. PICK x \in T : TRUE
  BY DEF Bad
<1> DEFINE U == {y \in T : <<x, y>> \in R}
<1>5. U \in Bad
  BY <1>3, <1>4 DEF Bad
<1>6. U \subseteq T /\ x \notin U /\ U \in SUBSET S /\ T \in SUBSET S
  BY <1>3, <1>4 DEF Bad
<1>7. <<U, T>> \in StrictSubsetOrdering(S)
  BY <1>4, <1>6 DEF StrictSubsetOrdering
<1> QED BY <1>3, <1>5, <1>7

\* Positions in a list: a set of them that is not empty has a first one.
LEMMA FirstExists ==
    ASSUME NEW n \in Nat, NEW S \in SUBSET (1 .. n), S # {}
    PROVE  \E i \in S : \A j \in S : i <= j
<1> DEFINE R == {p \in Nat \X Nat : p[2] < p[1]}
<1>1. IsFiniteSet(S)
  <2>1. IsFiniteSet(1 .. n)
    BY FS_Interval
  <2> QED BY <2>1, FS_Subset
<1>2. \A x, y \in S : <<x, y>> \in R <=> y < x
  OBVIOUS
<1> HIDE DEF R
<1>3. \A x, y \in S : <<x, y>> \in R => <<y, x>> \notin R
  BY <1>2
<1>4. \A x, y, z \in S : <<x, y>> \in R /\ <<y, z>> \in R => <<x, z>> \in R
  BY <1>2
<1>5. \E x \in S : \A y \in S : <<x, y>> \notin R
  BY <1>1, <1>3, <1>4, MaximalExists
<1>6. PICK x \in S : \A y \in S : ~ (y < x)
  BY <1>2, <1>5
<1>7. S \subseteq Int
  OBVIOUS
<1> QED BY <1>6, <1>7

-----------------------------------------------------------------------------

\* A set of natural numbers that is not empty has a smallest element.
LEMMA LeastExists ==
    ASSUME NEW S \in SUBSET Nat, S # {}
    PROVE  \E n \in S : \A m \in S : n <= m
<1>1. PICK top \in S : TRUE
  OBVIOUS
<1> DEFINE T == {i \in 1 .. top + 1 : i - 1 \in S}
<1>2. T \in SUBSET (1 .. top + 1) /\ T # {}
  <2>1. top + 1 \in T
    BY <1>1
  <2> QED BY <2>1
<1>3. top + 1 \in Nat
  BY <1>1
<1>4. PICK i \in T : \A j \in T : i <= j
  <2> HIDE DEF T
  <2> QED BY <1>2, <1>3, FirstExists
<1>5. i - 1 \in S /\ i \in Nat /\ i - 1 <= top
  BY <1>4
<1>6. ASSUME NEW m \in S PROVE i - 1 <= m
  <2>1. CASE m <= top
    <3>1. m + 1 \in T
      BY <2>1
    <3>2. i <= m + 1
      BY <1>4, <3>1
    <3> QED BY <1>5, <3>2
  <2>2. CASE m > top
    BY <1>5, <2>2
  <2> QED BY <2>1, <2>2
<1> QED BY <1>5, <1>6

\* Strong induction, for a set of natural numbers.
LEMMA StrongInduction ==
    ASSUME NEW S, \A n \in Nat : (\A m \in 0 .. n - 1 : m \in S) => n \in S
    PROVE  Nat \subseteq S
<1> SUFFICES ASSUME Nat \ S # {} PROVE FALSE
  OBVIOUS
<1>1. PICK n \in Nat \ S : \A m \in Nat \ S : n <= m
  BY LeastExists
<1>2. \A m \in 0 .. n - 1 : m \in S
  BY <1>1
<1> QED BY <1>1, <1>2

\* A recursion on numbers with values in V: step[n] computes the value at n from
\* the values at smaller numbers.
IsRecursion(step, V) ==
    /\ V # {}
    /\ step \in [Nat -> [[Nat -> V] -> V]]
    /\ \A n \in Nat : \A g, h \in [Nat -> V] :
          (\A m \in 0 .. n - 1 : g[m] = h[m]) => step[n][g] = step[n][h]

Solution(f, step, V) == f \in [Nat -> V] /\ \A n \in Nat : f[n] = step[n][f]

LEMMA RecursionHasSolution ==
    ASSUME NEW V, NEW step, IsRecursion(step, V)
    PROVE  \E f : Solution(f, step, V)
<1> USE DEF IsRecursion, Solution
<1> DEFINE Solves(h, top) == h \in [Nat -> V] /\ \A n \in 0 .. top : h[n] = step[n][h]
<1>1. ASSUME NEW N \in Nat, NEW M \in Nat, NEW g, NEW h, Solves(g, N), Solves(h, M)
      PROVE  \A n \in Nat : n <= N /\ n <= M => g[n] = h[n]
  <2> DEFINE S == {n \in Nat : n <= N /\ n <= M => g[n] = h[n]}
  <2>1. ASSUME NEW n \in Nat, \A m \in 0 .. n - 1 : m \in S PROVE n \in S
    <3>1. CASE n <= N /\ n <= M
      <4>1. g[n] = step[n][g] /\ h[n] = step[n][h]
        BY <1>1, <3>1
      <4>2. \A m \in 0 .. n - 1 : g[m] = h[m]
        BY <2>1, <3>1
      <4> QED BY <1>1, <4>1, <4>2
    <3> QED BY <3>1
  <2> HIDE DEF S
  <2>2. Nat \subseteq S
    BY <2>1, StrongInduction
  <2> QED BY <2>2 DEF S
<1>2. \A N \in Nat : \E h : Solves(h, N)
  <2> DEFINE S == {N \in Nat : \E h : Solves(h, N)}
  <2>1. ASSUME NEW N \in Nat, \A m \in 0 .. N - 1 : m \in S PROVE N \in S
    <3>1. PICK h \in [Nat -> V] : \A n \in 0 .. N - 1 : h[n] = step[n][h]
      <4>1. CASE N = 0
        <5>1. PICK v \in V : TRUE
          OBVIOUS
        <5> DEFINE h == [n \in Nat |-> v]
        <5>2. h \in [Nat -> V]
          OBVIOUS
        <5>3. \A n \in 0 .. N - 1 : h[n] = step[n][h]
          BY <4>1
        <5> HIDE DEF h
        <5> QED BY <5>2, <5>3
      <4>2. CASE N # 0
        <5>1. N - 1 \in 0 .. N - 1
          BY <4>2
        <5>2. \E h : Solves(h, N - 1)
          BY <2>1, <5>1
        <5> QED BY <5>2
      <4> QED BY <4>1, <4>2
    <3> DEFINE g == [h EXCEPT ![N] = step[N][h]]
    <3>2. g \in [Nat -> V]
      OBVIOUS
    <3>3. \A n \in 0 .. N - 1 : g[n] = h[n]
      OBVIOUS
    <3>4. g[N] = step[N][h]
      OBVIOUS
    <3> HIDE DEF g
    <3>5. ASSUME NEW n \in 0 .. N PROVE g[n] = step[n][g]
      <4>1. n \in Nat /\ \A m \in 0 .. n - 1 : g[m] = h[m]
        BY <3>3
      <4>2. step[n][g] = step[n][h]
        BY <3>2, <4>1
      <4>3. g[n] = step[n][h]
        <5>1. CASE n = N
          BY <3>4, <5>1
        <5>2. CASE n # N
          BY <3>1, <3>3, <5>2
        <5> QED BY <5>1, <5>2
      <4> QED BY <4>2, <4>3
    <3> QED BY <3>2, <3>5
  <2> HIDE DEF S
  <2>2. Nat \subseteq S
    BY <2>1, StrongInduction
  <2> QED BY <2>2 DEF S
<1> DEFINE best(N) == CHOOSE h : Solves(h, N)
           f == [n \in Nat |-> best(n)[n]]
<1>3. \A N \in Nat : Solves(best(N), N)
  BY <1>2
<1> HIDE DEF best
<1>4. f \in [Nat -> V]
  BY <1>3
<1>5. ASSUME NEW n \in Nat PROVE f[n] = step[n][f]
  <2>1. f[n] = step[n][best(n)]
    BY <1>3
  <2>2. ASSUME NEW m \in 0 .. n - 1 PROVE f[m] = best(n)[m]
    <3>1. m \in Nat /\ m <= n /\ m <= m
      OBVIOUS
    <3>2. Solves(best(n), n) /\ Solves(best(m), m)
      BY <1>3, <3>1
    <3> HIDE DEF Solves
    <3>3. best(n)[m] = best(m)[m]
      BY <1>1, <3>1, <3>2
    <3> QED BY <3>1, <3>3
  <2>3. best(n) \in [Nat -> V]
    BY <1>3
  <2> HIDE DEF f
  <2> QED BY <1>4, <2>1, <2>2, <2>3
<1> QED BY <1>4, <1>5

\* Induction by steps of one.
LEMMA PlainInduction ==
    ASSUME NEW S, 0 \in S, \A n \in Nat : n \in S => n + 1 \in S
    PROVE  Nat \subseteq S
<1>1. ASSUME NEW n \in Nat, \A m \in 0 .. n - 1 : m \in S PROVE n \in S
  <2>1. CASE n = 0
    BY <2>1
  <2>2. CASE n # 0
    <3>1. n - 1 \in 0 .. n - 1 /\ n - 1 \in Nat /\ n - 1 + 1 = n
      BY <2>2
    <3> QED BY <1>1, <3>1
  <2> QED BY <2>1, <2>2
<1> QED BY <1>1, StrongInduction

\* A recursion in which the value at n is computed from the one at n - 1.
IsIteration(base, next, V) == base \in V /\ next \in [Nat -> [V -> V]]

Iteration(f, base, next, V) ==
    f \in [Nat -> V] /\ f[0] = base /\ \A n \in Nat : f[n + 1] = next[n + 1][f[n]]

LEMMA IterationHasSolution ==
    ASSUME NEW V, NEW base, NEW next, IsIteration(base, next, V)
    PROVE  \E f : Iteration(f, base, next, V)
<1> USE DEF IsIteration
<1> DEFINE step == [n \in Nat |-> [f \in [Nat -> V] |->
                       IF n = 0 THEN base ELSE next[n][f[n - 1]]]]
<1>0. \A n \in Nat : n # 0 => n - 1 \in Nat /\ n - 1 \in 0 .. n - 1
  OBVIOUS
<1>1. \A n \in Nat : \A f \in [Nat -> V] :
         step[n][f] = IF n = 0 THEN base ELSE next[n][f[n - 1]]
  OBVIOUS
<1>2. step \in [Nat -> [[Nat -> V] -> V]]
  BY <1>0
<1> HIDE DEF step
<1>3. IsRecursion(step, V)
  <2>1. ASSUME NEW n \in Nat, NEW g \in [Nat -> V], NEW h \in [Nat -> V],
               \A m \in 0 .. n - 1 : g[m] = h[m]
        PROVE  step[n][g] = step[n][h]
    BY <1>0, <1>1, <2>1
  <2> QED BY <1>2, <2>1 DEF IsRecursion
<1>4. PICK f : Solution(f, step, V)
  BY <1>3, RecursionHasSolution
<1>5. f \in [Nat -> V] /\ f[0] = base
  BY <1>1, <1>4 DEF Solution
<1>6. ASSUME NEW n \in Nat PROVE f[n + 1] = next[n + 1][f[n]]
  <2>1. n + 1 \in Nat /\ n + 1 # 0 /\ n + 1 - 1 = n
    OBVIOUS
  <2>2. f[n + 1] = step[n + 1][f] /\ f \in [Nat -> V]
    BY <1>4, <2>1 DEF Solution
  <2> QED BY <1>1, <2>1, <2>2
<1> QED BY <1>5, <1>6 DEF Iteration

=============================================================================
