-------------------------- MODULE MerkleLogProofs ---------------------------
(***************************************************************************)
(* The Merkle log for every set of receipts and every bound: histories,    *)
(* which need of TreeHash only that it is a function of the leaves, and    *)
(* what roots and audit paths mean, which needs the recursions themselves. *)
(*                                                                         *)
(* tlapm takes a recursive function as a CHOOSE.  So each of the four has  *)
(* first a lemma ("...Def") that it equals its definition's right-hand     *)
(* side, for which RecursionHasSolution needs a set that holds all values; *)
(* the induction over sizes of trees is StrongInduction.                   *)
(***************************************************************************)
EXTENDS MerkleLog, OrderLemmas, SequenceTheorems

-----------------------------------------------------------------------------
(* The recursive functions of the tree. *)

\* Terms made of atoms from a set and of nodes over such terms form a set.
LEMMA TermsExist ==
    ASSUME NEW Atoms
    PROVE  \E Terms : Atoms \subseteq Terms /\ \A a, b \in Terms : HashNode(a, b) \in Terms
<1> DEFINE Over(S) == S \union {HashNode(p[1], p[2]) : p \in S \X S}
           Levels(f, top) ==
               /\ f[0] = Atoms
               /\ \A n \in 1 .. top : f[n] = Over(f[n - 1])
<1>1. ASSUME NEW N \in Nat, NEW M \in Nat, NEW f, NEW g, Levels(f, N), Levels(g, M)
      PROVE  \A n \in Nat : n <= N /\ n <= M => f[n] = g[n]
  <2> DEFINE S == {n \in Nat : n <= N /\ n <= M => f[n] = g[n]}
  <2> HIDE DEF Over
  <2>1. ASSUME NEW n \in Nat, \A m \in 0 .. n - 1 : m \in S PROVE n \in S
    <3>1. CASE n = 0
      BY <1>1, <3>1
    <3>2. CASE n # 0
      <4>1. n - 1 \in 0 .. n - 1
        BY <3>2
      <4>2. n <= N /\ n <= M => f[n - 1] = g[n - 1]
        BY <2>1, <4>1
      <4> QED BY <1>1, <3>2, <4>2
    <3> QED BY <3>1, <3>2
  <2> HIDE DEF S
  <2>2. Nat \subseteq S
    BY <2>1, StrongInduction
  <2> QED BY <2>2 DEF S
<1>2. \A N \in Nat : \E f : Levels(f, N)
  <2> DEFINE S == {N \in Nat : \E f : Levels(f, N)}
  <2> HIDE DEF Over
  <2>1. ASSUME NEW N \in Nat, \A m \in 0 .. N - 1 : m \in S PROVE N \in S
    <3>1. CASE N = 0
      <4> DEFINE f == [n \in {0} |-> Atoms]
      <4>1. Levels(f, 0)
        OBVIOUS
      <4> QED BY <3>1, <4>1
    <3>2. CASE N # 0
      <4>1. N - 1 \in 0 .. N - 1
        BY <3>2
      <4>2. PICK f : Levels(f, N - 1)
        BY <2>1, <4>1
      <4> DEFINE g == [n \in 0 .. N |-> IF n < N THEN f[n] ELSE Over(f[N - 1])]
      <4>3. \A n \in 0 .. N - 1 : g[n] = f[n]
        OBVIOUS
      <4>4. g[N] = Over(f[N - 1])
        OBVIOUS
      <4> HIDE DEF g
      <4>5. g[0] = Atoms
        BY <3>2, <4>2, <4>3
      <4>6. ASSUME NEW n \in 1 .. N PROVE g[n] = Over(g[n - 1])
        <5>1. g[n - 1] = f[n - 1]
          BY <4>3
        <5>2. CASE n = N
          BY <4>4, <5>1, <5>2
        <5>3. CASE n # N
          BY <4>2, <4>3, <5>1, <5>3
        <5> QED BY <5>2, <5>3
      <4> QED BY <4>5, <4>6
    <3> QED BY <3>1, <3>2
  <2> HIDE DEF S
  <2>2. Nat \subseteq S
    BY <2>1, StrongInduction
  <2> QED BY <2>2 DEF S
<1> DEFINE chosen(N) == CHOOSE f : Levels(f, N)
           level == [N \in Nat |-> chosen(N)[N]]
<1>3. \A N \in Nat : Levels(chosen(N), N)
  BY <1>2
<1> HIDE DEF chosen
<1>4. level[0] = Atoms
  BY <1>3
<1>5. ASSUME NEW n \in Nat PROVE level[n + 1] = Over(level[n])
  <2>1. chosen(n + 1)[n + 1] = Over(chosen(n + 1)[n])
    <3> HIDE DEF Over
    <3>1. Levels(chosen(n + 1), n + 1)
      BY <1>3
    <3>2. n + 1 \in 1 .. n + 1 /\ n + 1 - 1 = n
      OBVIOUS
    <3> QED BY <3>1, <3>2
  <2>2. chosen(n + 1)[n] = chosen(n)[n]
    <3>1. Levels(chosen(n), n) /\ Levels(chosen(n + 1), n + 1) /\ n <= n + 1 /\ n <= n
      BY <1>3
    <3> HIDE DEF Levels
    <3> QED BY <1>1, <3>1
  <2> HIDE DEF Over
  <2> QED BY <2>1, <2>2
<1> HIDE DEF level
<1>6. ASSUME NEW n \in Nat PROVE \A m \in 0 .. n : level[m] \subseteq level[n]
  <2> DEFINE S == {i \in Nat : \A m \in 0 .. i : level[m] \subseteq level[i]}
  <2>1. ASSUME NEW i \in Nat, \A m \in 0 .. i - 1 : m \in S PROVE i \in S
    <3>1. ASSUME NEW m \in 0 .. i PROVE level[m] \subseteq level[i]
      <4>1. CASE m # i
        <5>1. i - 1 \in 0 .. i - 1 /\ m \in 0 .. i - 1 /\ i - 1 + 1 = i
          BY <4>1
        <5>2. level[m] \subseteq level[i - 1]
          BY <2>1, <5>1
        <5>3. level[i - 1] \subseteq Over(level[i - 1])
          OBVIOUS
        <5>4. level[i] = Over(level[i - 1])
          BY <1>5, <5>1
        <5> HIDE DEF Over
        <5> QED BY <5>2, <5>3, <5>4
      <4> QED BY <4>1
    <3> QED BY <3>1
  <2> HIDE DEF S
  <2>2. Nat \subseteq S
    BY <2>1, StrongInduction
  <2> QED BY <2>2 DEF S
<1> DEFINE Terms == UNION {level[n] : n \in Nat}
<1>7. Atoms \subseteq Terms
  BY <1>4
<1>8. ASSUME NEW a \in Terms, NEW b \in Terms PROVE HashNode(a, b) \in Terms
  <2>1. PICK i \in Nat, j \in Nat : a \in level[i] /\ b \in level[j]
    BY <1>8
  <2>2. PICK n \in Nat : i <= n /\ j <= n
    <3>1. CASE i <= j
      BY <3>1
    <3>2. CASE j <= i
      BY <3>2
    <3> QED BY <3>1, <3>2
  <2>3. a \in level[n] /\ b \in level[n]
    BY <1>6, <2>1, <2>2
  <2>4. HashNode(a, b) \in Over(level[n])
    <3>1. <<a, b>> \in level[n] \X level[n]
      BY <2>3
    <3> QED BY <3>1
  <2>5. HashNode(a, b) \in level[n + 1]
    <3> HIDE DEF Over
    <3> QED BY <1>5, <2>4
  <2>6. n + 1 \in Nat
    OBVIOUS
  <2> QED BY <2>5, <2>6
<1> QED BY <1>7, <1>8

\* The recursion of n.bit_length() has a solution, and its bounds.
LEMMA HighestBitDef ==
    /\ HighestBit \in [Nat -> Nat]
    /\ \A n \in Nat : HighestBit[n] = IF n <= 1 THEN n ELSE 2 * HighestBit[n \div 2]
<1> DEFINE step == [n \in Nat |-> [h \in [Nat -> Nat] |-> IF n <= 1 THEN n ELSE 2 * h[n \div 2]]]
<1>0. \A n \in Nat : n > 1 => n \div 2 \in 0 .. n - 1
  OBVIOUS
<1>1. step \in [Nat -> [[Nat -> Nat] -> Nat]]
  OBVIOUS
<1>2. \A n \in Nat : \A h \in [Nat -> Nat] :
         step[n][h] = IF n <= 1 THEN n ELSE 2 * h[n \div 2]
  OBVIOUS
<1> HIDE DEF step
<1>3. \A n \in Nat : \A g, h \in [Nat -> Nat] :
        (\A m \in 0 .. n - 1 : g[m] = h[m]) => step[n][g] = step[n][h]
  BY <1>0, <1>2
<1>4. PICK f \in [Nat -> Nat] : \A n \in Nat : f[n] = step[n][f]
  <2>1. IsRecursion(step, Nat)
    BY <1>1, <1>3 DEF IsRecursion
  <2>2. \E f : Solution(f, step, Nat)
    BY <2>1, RecursionHasSolution
  <2> QED BY <2>2 DEF Solution
<1>5. f = [n \in Nat |-> IF n <= 1 THEN n ELSE 2 * f[n \div 2]]
  BY <1>2, <1>4
<1>6. HighestBit = [n \in Nat |-> IF n <= 1 THEN n ELSE 2 * HighestBit[n \div 2]]
  BY <1>5 DEF HighestBit
<1>7. HighestBit \in [Nat -> Nat]
  <2> DEFINE S == {n \in Nat : HighestBit[n] \in Nat}
  <2>1. ASSUME NEW n \in Nat, \A m \in 0 .. n - 1 : m \in S PROVE n \in S
    BY <1>0, <1>6, <2>1
  <2> HIDE DEF S
  <2>2. Nat \subseteq S
    BY <2>1, StrongInduction
  <2> QED BY <1>6, <2>2 DEF S
<1> QED BY <1>6, <1>7

\* A number is at least its highest bit and less than twice that.
LEMMA HighestBitBounds ==
    \A n \in Nat : n > 0 => HighestBit[n] <= n /\ n < 2 * HighestBit[n]
<1> DEFINE S == {n \in Nat : n > 0 => HighestBit[n] <= n /\ n < 2 * HighestBit[n]}
<1>1. ASSUME NEW n \in Nat, \A m \in 0 .. n - 1 : m \in S PROVE n \in S
  <2>1. CASE n <= 1
    BY <2>1, HighestBitDef
  <2>2. CASE n > 1
    <3>1. n \div 2 \in 0 .. n - 1 /\ n \div 2 > 0
      BY <2>2
    <3> DEFINE half == n \div 2
               bit == HighestBit[half]
    <3>2. bit \in Nat /\ bit <= half /\ half < 2 * bit
      BY <1>1, <3>1, HighestBitDef
    <3>3. HighestBit[n] = 2 * bit
      BY <2>2, HighestBitDef
    <3>4. 2 * half <= n /\ n <= 2 * half + 1 /\ half \in Nat
      OBVIOUS
    <3> HIDE DEF half, bit
    <3>5. 2 * bit <= n /\ n < 2 * (2 * bit)
      BY <3>2, <3>4
    <3> QED BY <3>3, <3>5
  <2> QED BY <2>1, <2>2
<1> HIDE DEF S
<1>2. Nat \subseteq S
  BY <1>1, StrongInduction
<1> QED BY <1>2 DEF S

\* The split point leaves both sides smaller, the left one at least half.
LEMMA SplitBounds ==
    ASSUME NEW n \in Nat, n > 1
    PROVE  /\ LargestPowerOfTwoLessThan(n) \in 1 .. n - 1
           /\ n - LargestPowerOfTwoLessThan(n) \in 1 .. n - 1
           /\ n <= 2 * LargestPowerOfTwoLessThan(n)
<1>1. HighestBit[n] \in Nat /\ HighestBit[n] <= n /\ n < 2 * HighestBit[n]
  BY HighestBitBounds, HighestBitDef
<1>2. CASE HighestBit[n] = n
  <2>1. n = 2 * HighestBit[n \div 2] /\ HighestBit[n \div 2] \in Nat
    BY <1>2, HighestBitDef
  <2>2. n \div 2 = HighestBit[n \div 2]
    BY <2>1
  <2> QED BY <1>2, <2>1, <2>2 DEF LargestPowerOfTwoLessThan
<1>3. CASE HighestBit[n] # n
  BY <1>1, <1>3 DEF LargestPowerOfTwoLessThan
<1> QED BY <1>2, <1>3

\* The hash of a slice is its definition's right-hand side.
LEMMA SliceHashDef ==
    ASSUME NEW list, NEW n \in Nat, NEW start \in Nat
    PROVE  SliceHash(list)[n][start] =
             IF n = 0 THEN EmptyHash
             ELSE IF n = 1 THEN list[start + 1]
             ELSE LET k == LargestPowerOfTwoLessThan(n)
                  IN HashNode(SliceHash(list)[k][start], SliceHash(list)[n - k][start + k])
<1> DEFINE Atoms == {EmptyHash} \union {list[i] : i \in Nat}
           Value(h, size, from) ==
             IF size = 0 THEN EmptyHash
             ELSE IF size = 1 THEN list[from + 1]
             ELSE LET k == LargestPowerOfTwoLessThan(size)
                  IN HashNode(h[k][from], h[size - k][from + k])
<1>1. PICK Terms : Atoms \subseteq Terms /\ \A a, b \in Terms : HashNode(a, b) \in Terms
  BY TermsExist
<1> DEFINE V == [Nat -> Terms]
           step == [size \in Nat |-> [h \in [Nat -> V] |-> [from \in Nat |-> Value(h, size, from)]]]
<1>2. ASSUME NEW size \in Nat, NEW from \in Nat, NEW h \in [Nat -> V]
      PROVE  Value(h, size, from) \in Terms
  <2>1. CASE size <= 1
    <3>1. from + 1 \in Nat
      OBVIOUS
    <3>2. EmptyHash \in Terms /\ list[from + 1] \in Terms
      BY <1>1, <3>1
    <3> QED BY <2>1, <3>2
  <2>2. CASE size > 1
    <3> DEFINE k == LargestPowerOfTwoLessThan(size)
    <3>0. k \in 1 .. size - 1
      BY <2>2, SplitBounds
    <3> HIDE DEF k
    <3>1. k \in Nat /\ size - k \in Nat /\ from + k \in Nat
      BY <3>0
    <3>2. h[k][from] \in Terms /\ h[size - k][from + k] \in Terms
      BY <3>1
    <3> QED BY <1>1, <2>2, <3>2 DEF k
  <2> QED BY <2>1, <2>2
<1>3. ASSUME NEW size \in Nat, NEW g \in [Nat -> V], NEW h \in [Nat -> V],
             \A m \in 0 .. size - 1 : g[m] = h[m], NEW from \in Nat
      PROVE  Value(g, size, from) = Value(h, size, from)
  <2>1. CASE size <= 1
    BY <2>1
  <2>2. CASE size > 1
    <3> DEFINE k == LargestPowerOfTwoLessThan(size)
    <3>1. k \in 0 .. size - 1 /\ size - k \in 0 .. size - 1
      BY <2>2, SplitBounds
    <3> HIDE DEF k
    <3>2. g[k] = h[k] /\ g[size - k] = h[size - k]
      BY <1>3, <3>1
    <3> QED BY <2>2, <3>2 DEF k
  <2> QED BY <2>1, <2>2
<1> HIDE DEF Value
<1>4. \A size \in Nat : \A h \in [Nat -> V] : step[size][h] = [from \in Nat |-> Value(h, size, from)]
  OBVIOUS
<1>5. IsRecursion(step, V)
  <2>1. V # {}
    <3>1. EmptyHash \in Terms
      BY <1>1
    <3>2. [i \in Nat |-> EmptyHash] \in V
      BY <3>1
    <3> QED BY <3>2
  <2>2. step \in [Nat -> [[Nat -> V] -> V]]
    BY <1>2
  <2>3. ASSUME NEW size \in Nat, NEW g \in [Nat -> V], NEW h \in [Nat -> V],
               \A m \in 0 .. size - 1 : g[m] = h[m]
        PROVE  step[size][g] = step[size][h]
    <3>1. \A from \in Nat : Value(g, size, from) = Value(h, size, from)
      BY <1>3, <2>3
    <3>2. [from \in Nat |-> Value(g, size, from)] = [from \in Nat |-> Value(h, size, from)]
      BY <3>1
    <3> QED BY <1>4, <3>2
  <2> HIDE DEF V, step
  <2> QED BY <2>1, <2>2, <2>3 DEF IsRecursion
<1> HIDE DEF step
<1>6. PICK f : Solution(f, step, V)
  <2> HIDE DEF V
  <2> QED BY <1>5, RecursionHasSolution
<1>7. f = [size \in Nat |-> [from \in Nat |-> Value(f, size, from)]]
  BY <1>4, <1>6 DEF Solution
<1>8. SliceHash(list) = [size \in Nat |-> [from \in Nat |-> Value(SliceHash(list), size, from)]]
  BY <1>7 DEF SliceHash, Value
<1>9. SliceHash(list)[n][start] = Value(SliceHash(list), n, start)
  BY <1>8
<1> QED BY <1>9 DEF Value

\* So is the path of a leaf in a slice.
LEMMA SlicePathDef ==
    ASSUME NEW list, NEW index, NEW n \in Nat, NEW start \in Nat
    PROVE  SlicePath(list, index)[n][start] =
             IF n <= 1 THEN <<>>
             ELSE LET k == LargestPowerOfTwoLessThan(n)
                  IN IF index - start < k
                     THEN Append(SlicePath(list, index)[k][start], SliceHash(list)[n - k][start + k])
                     ELSE Append(SlicePath(list, index)[n - k][start + k], SliceHash(list)[k][start])
<1> DEFINE hash(size, from) == SliceHash(list)[size][from]
           Hashes == {hash(p[1], p[2]) : p \in Nat \X Nat}
           V == [Nat -> Seq(Hashes)]
           Value(h, size, from) ==
             IF size <= 1 THEN <<>>
             ELSE LET k == LargestPowerOfTwoLessThan(size)
                  IN IF index - from < k
                     THEN Append(h[k][from], hash(size - k, from + k))
                     ELSE Append(h[size - k][from + k], hash(k, from))
           step == [size \in Nat |-> [h \in [Nat -> V] |-> [from \in Nat |-> Value(h, size, from)]]]
<1>1. ASSUME NEW size \in Nat, NEW from \in Nat PROVE hash(size, from) \in Hashes
  <2>1. <<size, from>> \in Nat \X Nat
    OBVIOUS
  <2> QED BY <2>1
<1> HIDE DEF hash, Hashes
<1>2. ASSUME NEW size \in Nat, NEW from \in Nat, NEW h \in [Nat -> V]
      PROVE  Value(h, size, from) \in Seq(Hashes)
  <2>1. CASE size <= 1
    BY <2>1
  <2>2. CASE size > 1
    <3> DEFINE k == LargestPowerOfTwoLessThan(size)
    <3>0. k \in 1 .. size - 1
      BY <2>2, SplitBounds
    <3> HIDE DEF k
    <3>1. k \in Nat /\ size - k \in Nat /\ from + k \in Nat
      BY <3>0
    <3>2. h[k][from] \in Seq(Hashes) /\ h[size - k][from + k] \in Seq(Hashes)
      BY <3>1
    <3>3. hash(size - k, from + k) \in Hashes /\ hash(k, from) \in Hashes
      BY <1>1, <3>1
    <3>4. /\ Append(h[k][from], hash(size - k, from + k)) \in Seq(Hashes)
          /\ Append(h[size - k][from + k], hash(k, from)) \in Seq(Hashes)
      BY <3>2, <3>3
    <3> QED BY <2>2, <3>4 DEF k
  <2> QED BY <2>1, <2>2
<1>3. ASSUME NEW size \in Nat, NEW g \in [Nat -> V], NEW h \in [Nat -> V],
             \A m \in 0 .. size - 1 : g[m] = h[m], NEW from \in Nat
      PROVE  Value(g, size, from) = Value(h, size, from)
  <2>1. CASE size <= 1
    BY <2>1
  <2>2. CASE size > 1
    <3> DEFINE k == LargestPowerOfTwoLessThan(size)
    <3>1. k \in 0 .. size - 1 /\ size - k \in 0 .. size - 1
      BY <2>2, SplitBounds
    <3> HIDE DEF k
    <3>2. g[k] = h[k] /\ g[size - k] = h[size - k]
      BY <1>3, <3>1
    <3> QED BY <2>2, <3>2 DEF k
  <2> QED BY <2>1, <2>2
<1> HIDE DEF Value
<1>4. \A size \in Nat : \A h \in [Nat -> V] : step[size][h] = [from \in Nat |-> Value(h, size, from)]
  OBVIOUS
<1>5. IsRecursion(step, V)
  <2>1. V # {}
    <3>1. <<>> \in Seq(Hashes)
      OBVIOUS
    <3>2. [i \in Nat |-> <<>>] \in V
      BY <3>1
    <3> QED BY <3>2
  <2>2. step \in [Nat -> [[Nat -> V] -> V]]
    BY <1>2
  <2>3. ASSUME NEW size \in Nat, NEW g \in [Nat -> V], NEW h \in [Nat -> V],
               \A m \in 0 .. size - 1 : g[m] = h[m]
        PROVE  step[size][g] = step[size][h]
    <3>1. \A from \in Nat : Value(g, size, from) = Value(h, size, from)
      BY <1>3, <2>3
    <3>2. [from \in Nat |-> Value(g, size, from)] = [from \in Nat |-> Value(h, size, from)]
      BY <3>1
    <3> QED BY <1>4, <3>2
  <2> HIDE DEF V, step
  <2> QED BY <2>1, <2>2, <2>3 DEF IsRecursion
<1> HIDE DEF step
<1>6. PICK f : Solution(f, step, V)
  <2> HIDE DEF V
  <2> QED BY <1>5, RecursionHasSolution
<1>7. f = [size \in Nat |-> [from \in Nat |-> Value(f, size, from)]]
  BY <1>4, <1>6 DEF Solution
<1>8. SlicePath(list, index) =
        [size \in Nat |-> [from \in Nat |-> Value(SlicePath(list, index), size, from)]]
  BY <1>7 DEF SlicePath, Value, hash
<1>9. SlicePath(list, index)[n][start] = Value(SlicePath(list, index), n, start)
  BY <1>8
<1> QED BY <1>9 DEF Value, hash

\* One step of _verify: from what a subtree rebuilt, with the next path entry.
Climb(sub, left, path) ==
    IF sub.root = NoRoot \/ sub.used >= Len(path)
    THEN [root |-> NoRoot, used |-> sub.used]
    ELSE [root |-> IF left THEN HashNode(sub.root, path[sub.used + 1])
                           ELSE HashNode(path[sub.used + 1], sub.root),
          used |-> sub.used + 1]

\* So is what is rebuilt from a leaf and a path.
LEMMA RebuildDef ==
    ASSUME NEW leaf, NEW path, NEW n \in Nat, NEW m \in Nat
    PROVE  Rebuild(leaf, path)[n][m] =
             IF n <= 1 THEN [root |-> leaf, used |-> 0]
             ELSE LET k == LargestPowerOfTwoLessThan(n)
                  IN Climb(IF m < k THEN Rebuild(leaf, path)[k][m]
                                    ELSE Rebuild(leaf, path)[n - k][m - k], m < k, path)
<1> DEFINE Atoms == {leaf, NoRoot} \union {path[i] : i \in Nat}
           Value(h, size, at) ==
             IF size <= 1 THEN [root |-> leaf, used |-> 0]
             ELSE LET k == LargestPowerOfTwoLessThan(size)
                  IN Climb(IF at < k THEN h[k][at] ELSE h[size - k][at - k], at < k, path)
<1>1. PICK Terms : Atoms \subseteq Terms /\ \A a, b \in Terms : HashNode(a, b) \in Terms
  BY TermsExist
<1> DEFINE V == [Nat -> [root : Terms, used : Nat]]
           step == [size \in Nat |-> [h \in [Nat -> V] |-> [at \in Nat |-> Value(h, size, at)]]]
<1>2. ASSUME NEW size \in Nat, NEW at \in Nat, NEW h \in [Nat -> V]
      PROVE  Value(h, size, at) \in [root : Terms, used : Nat]
  <2>1. CASE size <= 1
    BY <1>1, <2>1
  <2>2. CASE size > 1
    <3> DEFINE k == LargestPowerOfTwoLessThan(size)
               sub == IF at < k THEN h[k][at] ELSE h[size - k][at - k]
    <3>1. k \in Nat /\ size - k \in Nat
      BY <2>2, SplitBounds
    <3>2. sub \in [root : Terms, used : Nat]
      <4> HIDE DEF k
      <4>1. CASE at < k
        BY <3>1, <4>1
      <4>2. CASE ~(at < k)
        <5>1. at - k \in Nat
          BY <3>1, <4>2
        <5> QED BY <3>1, <4>2, <5>1
      <4> QED BY <4>1, <4>2
    <3>3. Value(h, size, at) = Climb(sub, at < k, path)
      BY <2>2
    <3> HIDE DEF sub, k
    <3>6. sub.root \in Terms /\ sub.used \in Nat
      BY <3>2
    <3>7. sub.used + 1 \in Nat
      <4>1. \A i \in Nat : i + 1 \in Nat
        OBVIOUS
      <4> QED BY <3>6, <4>1
    <3>4. path[sub.used + 1] \in Terms /\ NoRoot \in Terms
      BY <1>1, <3>7
    <3>5. HashNode(sub.root, path[sub.used + 1]) \in Terms /\ HashNode(path[sub.used + 1], sub.root) \in Terms
      BY <1>1, <3>4, <3>6
    <3>8. Climb(sub, at < k, path) \in [root : Terms, used : Nat]
      BY <3>4, <3>5, <3>6, <3>7 DEF Climb
    <3> QED BY <3>3, <3>8
  <2> QED BY <2>1, <2>2
<1>3. ASSUME NEW size \in Nat, NEW g \in [Nat -> V], NEW h \in [Nat -> V],
             \A i \in 0 .. size - 1 : g[i] = h[i], NEW at \in Nat
      PROVE  Value(g, size, at) = Value(h, size, at)
  <2>1. CASE size <= 1
    BY <2>1
  <2>2. CASE size > 1
    <3> DEFINE k == LargestPowerOfTwoLessThan(size)
    <3>1. k \in 0 .. size - 1 /\ size - k \in 0 .. size - 1
      BY <2>2, SplitBounds
    <3> HIDE DEF k
    <3>2. g[k] = h[k] /\ g[size - k] = h[size - k]
      BY <1>3, <3>1
    <3> QED BY <2>2, <3>2 DEF k
  <2> QED BY <2>1, <2>2
<1> HIDE DEF Value
<1>4. \A size \in Nat : \A h \in [Nat -> V] : step[size][h] = [at \in Nat |-> Value(h, size, at)]
  OBVIOUS
<1>5. IsRecursion(step, V)
  <2>1. V # {}
    <3>1. NoRoot \in Terms
      BY <1>1
    <3>2. [i \in Nat |-> [root |-> NoRoot, used |-> 0]] \in V
      BY <3>1
    <3> QED BY <3>2
  <2>2. step \in [Nat -> [[Nat -> V] -> V]]
    BY <1>2
  <2>3. ASSUME NEW size \in Nat, NEW g \in [Nat -> V], NEW h \in [Nat -> V],
               \A i \in 0 .. size - 1 : g[i] = h[i]
        PROVE  step[size][g] = step[size][h]
    <3>1. \A at \in Nat : Value(g, size, at) = Value(h, size, at)
      BY <1>3, <2>3
    <3>2. [at \in Nat |-> Value(g, size, at)] = [at \in Nat |-> Value(h, size, at)]
      BY <3>1
    <3> QED BY <1>4, <3>2
  <2> HIDE DEF V, step
  <2> QED BY <2>1, <2>2, <2>3 DEF IsRecursion
<1> HIDE DEF step
<1>6. PICK f : Solution(f, step, V)
  <2> HIDE DEF V
  <2> QED BY <1>5, RecursionHasSolution
<1>7. f = [size \in Nat |-> [at \in Nat |-> Value(f, size, at)]]
  BY <1>4, <1>6 DEF Solution
<1>8. Rebuild(leaf, path) = [size \in Nat |-> [at \in Nat |-> Value(Rebuild(leaf, path), size, at)]]
  BY <1>7 DEF Rebuild, Value, Climb
<1>9. Rebuild(leaf, path)[n][m] = Value(Rebuild(leaf, path), n, m)
  BY <1>8
<1> QED BY <1>9 DEF Value

-----------------------------------------------------------------------------
(* Hashes, roots and paths of lists of leaves. *)

\* Hashes are equal only if they were made in the same way of the same parts.
LEMMA HashTerms ==
    /\ \A a, b, c, d : HashNode(a, b) = HashNode(c, d) => a = c /\ b = d
    /\ \A a, b, data : HashNode(a, b) # HashLeaf(data)
    /\ \A a, b : HashNode(a, b) # EmptyHash /\ HashNode(a, b) # NoRoot
    /\ \A data : HashLeaf(data) # EmptyHash /\ HashLeaf(data) # NoRoot
    /\ EmptyHash # NoRoot
BY DEF HashNode, HashLeaf, EmptyHash, NoRoot

\* The hash of a slice, by cases.
LEMMA SliceHashShort ==
    ASSUME NEW list, NEW start \in Nat
    PROVE  SliceHash(list)[0][start] = EmptyHash /\ SliceHash(list)[1][start] = list[start + 1]
BY SliceHashDef

\* A slice of several leaves is split at a power of two.
LEMMA SliceHashNode ==
    ASSUME NEW list, NEW n \in Nat, n > 1, NEW start \in Nat
    PROVE  SliceHash(list)[n][start] =
             HashNode(SliceHash(list)[LargestPowerOfTwoLessThan(n)][start],
                      SliceHash(list)[n - LargestPowerOfTwoLessThan(n)]
                                     [start + LargestPowerOfTwoLessThan(n)])
<1>1. n # 0 /\ n # 1
  OBVIOUS
<1> QED BY <1>1, SliceHashDef

LEMMA SliceHashCases ==
    ASSUME NEW list, NEW n \in Nat, NEW start \in Nat
    PROVE  \/ n = 0 /\ SliceHash(list)[n][start] = EmptyHash
           \/ n = 1 /\ SliceHash(list)[n][start] = list[start + 1]
           \/ /\ n > 1
              /\ SliceHash(list)[n][start] =
                   HashNode(SliceHash(list)[LargestPowerOfTwoLessThan(n)][start],
                            SliceHash(list)[n - LargestPowerOfTwoLessThan(n)]
                                           [start + LargestPowerOfTwoLessThan(n)])
<1>1. CASE n = 0
  BY <1>1, SliceHashShort
<1>2. CASE n = 1
  BY <1>2, SliceHashShort
<1>3. CASE n > 1
  BY <1>3, SliceHashNode
<1> QED BY <1>1, <1>2, <1>3

\* What is rebuilt from a leaf and a path, by cases.
LEMMA RebuildLeaf ==
    ASSUME NEW leaf, NEW path, NEW n \in Nat, n <= 1, NEW m \in Nat
    PROVE  Rebuild(leaf, path)[n][m] = [root |-> leaf, used |-> 0]
BY RebuildDef

LEMMA RebuildNode ==
    ASSUME NEW leaf, NEW path, NEW n \in Nat, n > 1, NEW m \in Nat
    PROVE  Rebuild(leaf, path)[n][m] =
             Climb(IF m < LargestPowerOfTwoLessThan(n)
                   THEN Rebuild(leaf, path)[LargestPowerOfTwoLessThan(n)][m]
                   ELSE Rebuild(leaf, path)[n - LargestPowerOfTwoLessThan(n)]
                                           [m - LargestPowerOfTwoLessThan(n)],
                   m < LargestPowerOfTwoLessThan(n), path)
<1>1. ~(n <= 1)
  OBVIOUS
<1> QED BY <1>1, RebuildDef

\* Two slices with one hash have the same leaves.
SameSlices(a, b, n, m, s, t) ==
    s + n <= Len(a) /\ t + m <= Len(b) /\ SliceHash(a)[n][s] = SliceHash(b)[m][t]
    => n = m /\ \A i \in 1 .. n : a[s + i] = b[t + i]

\* By induction on the length: nodes differ from leaves, and a node determines
\* its children.
LEMMA SliceHashBinds ==
    \A a, b \in Seq(Leaf) : \A n, m, s, t \in Nat : SameSlices(a, b, n, m, s, t)
<1> SUFFICES ASSUME NEW a \in Seq(Leaf), NEW b \in Seq(Leaf)
             PROVE  \A n, m, s, t \in Nat : SameSlices(a, b, n, m, s, t)
  OBVIOUS
<1> DEFINE Same(i, m, s, t) == SameSlices(a, b, i, m, s, t)
           S == {i \in Nat : \A m, s, t \in Nat : Same(i, m, s, t)}
<1> USE DEF SameSlices
<1>1. \A list \in Seq(Leaf) : \A s \in Nat : s + 1 <= Len(list) => \E data : list[s + 1] = HashLeaf(data)
  BY DEF Leaf
<1>2. ASSUME NEW i \in Nat, \A j \in 0 .. i - 1 : j \in S PROVE i \in S
  <2> SUFFICES ASSUME NEW m \in Nat, NEW s \in Nat, NEW t \in Nat,
                      s + i <= Len(a), t + m <= Len(b), SliceHash(a)[i][s] = SliceHash(b)[m][t]
               PROVE  i = m /\ \A j \in 1 .. i : a[s + j] = b[t + j]
    OBVIOUS
  <2> DEFINE k == LargestPowerOfTwoLessThan(i)
             l == LargestPowerOfTwoLessThan(m)
  <2>1. \/ i = 0 /\ SliceHash(a)[i][s] = EmptyHash
        \/ i = 1 /\ SliceHash(a)[i][s] = a[s + 1]
        \/ i > 1 /\ SliceHash(a)[i][s] = HashNode(SliceHash(a)[k][s], SliceHash(a)[i - k][s + k])
    BY SliceHashCases
  <2>2. \/ m = 0 /\ SliceHash(b)[m][t] = EmptyHash
        \/ m = 1 /\ SliceHash(b)[m][t] = b[t + 1]
        \/ m > 1 /\ SliceHash(b)[m][t] = HashNode(SliceHash(b)[l][t], SliceHash(b)[m - l][t + l])
    BY SliceHashCases
  <2>3. i > 1 => k \in 1 .. i - 1
    BY SplitBounds
  <2>4. m > 1 => l \in 1 .. m - 1
    BY SplitBounds
  <2> HIDE DEF k, l
  <2>5. i = 1 => \E data : SliceHash(a)[i][s] = HashLeaf(data)
    BY <1>1, <2>1
  <2>6. m = 1 => \E data : SliceHash(b)[m][t] = HashLeaf(data)
    BY <1>1, <2>2
  <2>7. \/ i = 0 /\ m = 0
        \/ i = 1 /\ m = 1
        \/ i > 1 /\ m > 1
    BY <2>1, <2>2, <2>5, <2>6, HashTerms
  <2>8. CASE i = 0 /\ m = 0
    BY <2>8
  <2>9. CASE i = 1 /\ m = 1
    BY <2>1, <2>2, <2>9
  <2>10. CASE i > 1 /\ m > 1
    <3>1. SliceHash(a)[k][s] = SliceHash(b)[l][t] /\ SliceHash(a)[i - k][s + k] = SliceHash(b)[m - l][t + l]
      BY <2>1, <2>2, <2>10, HashTerms
    <3>2. k \in 0 .. i - 1 /\ i - k \in 0 .. i - 1 /\ l \in Nat /\ m - l \in Nat
      BY <2>3, <2>4, <2>10
    <3>3. s + k \in Nat /\ t + l \in Nat
      BY <3>2
    <3>4. Same(k, l, s, t)
      BY <1>2, <3>2
    <3>5. Same(i - k, m - l, s + k, t + l)
      BY <1>2, <3>2, <3>3
    <3>6. Len(a) \in Nat /\ Len(b) \in Nat
      OBVIOUS
    <3>7. k = l /\ \A j \in 1 .. k : a[s + j] = b[t + j]
      BY <2>3, <2>4, <2>10, <3>1, <3>4, <3>6
    <3>8. i - k = m - l /\ \A j \in 1 .. i - k : a[s + k + j] = b[t + l + j]
      BY <2>3, <2>4, <2>10, <3>1, <3>5, <3>6
    <3>9. i = m
      BY <3>2, <3>7, <3>8
    <3>10. ASSUME NEW j \in 1 .. i PROVE a[s + j] = b[t + j]
      <4>1. CASE j <= k
        BY <3>2, <3>7, <4>1
      <4>2. CASE j > k
        <5>1. j - k \in 1 .. i - k
          BY <3>2, <4>2
        <5>2. s + k + (j - k) = s + j /\ t + l + (j - k) = t + j
          BY <3>2, <3>7
        <5> QED BY <3>8, <5>1, <5>2
      <4> QED BY <3>2, <4>1, <4>2
    <3> QED BY <3>9, <3>10
  <2> QED BY <2>7, <2>8, <2>9, <2>10
<1> HIDE DEF S
<1>3. Nat \subseteq S
  BY <1>2, StrongInduction
<1> QED BY <1>3 DEF S

\* The root of a list determines the list.
LEMMA TreeHashBinds ==
    ASSUME NEW a \in Seq(Leaf), NEW b \in Seq(Leaf), TreeHash(a) = TreeHash(b)
    PROVE  a = b
<1>1. Len(a) \in Nat /\ Len(b) \in Nat
  OBVIOUS
<1>2. SameSlices(a, b, Len(a), Len(b), 0, 0)
  <2> DEFINE n == Len(a)
             m == Len(b)
  <2>1. n \in Nat /\ m \in Nat /\ 0 \in Nat
    BY <1>1
  <2> HIDE DEF n, m
  <2>2. SameSlices(a, b, n, m, 0, 0)
    BY <2>1, SliceHashBinds
  <2> QED BY <2>2 DEF n, m
<1>3. SliceHash(a)[Len(a)][0] = SliceHash(b)[Len(b)][0]
  BY DEF TreeHash
<1>4. Len(a) = Len(b) /\ \A i \in 1 .. Len(a) : a[0 + i] = b[0 + i]
  BY <1>1, <1>2, <1>3 DEF SameSlices
<1>5. \A i \in 1 .. Len(a) : a[i] = b[i]
  BY <1>4
<1> QED BY <1>4, <1>5

\* What a path rebuilds to the hash of a slice started from the leaf at its place.
LeafAtPlace(list, leaf, path, n, m, s) ==
    m < n /\ Rebuild(leaf, path)[n][m].root = SliceHash(list)[n][s] => leaf = list[s + m + 1]

\* By induction on the size of the tree, going into the half that has the place.
LEMMA RebuildSound ==
    \A list, leaf, path : \A n, m, s \in Nat : LeafAtPlace(list, leaf, path, n, m, s)
<1> SUFFICES ASSUME NEW list, NEW leaf, NEW path
             PROVE  \A n, m, s \in Nat : LeafAtPlace(list, leaf, path, n, m, s)
  OBVIOUS
<1> USE DEF LeafAtPlace
<1> DEFINE Sound(i, m, s) == LeafAtPlace(list, leaf, path, i, m, s)
           S == {i \in Nat : \A m, s \in Nat : Sound(i, m, s)}
<1>1. ASSUME NEW i \in Nat, \A j \in 0 .. i - 1 : j \in S PROVE i \in S
  <2> SUFFICES ASSUME NEW m \in Nat, NEW s \in Nat, m < i,
                      Rebuild(leaf, path)[i][m].root = SliceHash(list)[i][s]
               PROVE  leaf = list[s + m + 1]
    OBVIOUS
  <2>1. CASE i = 1
    <3>1. Rebuild(leaf, path)[i][m].root = leaf /\ SliceHash(list)[i][s] = list[s + 1]
      <4>1. Rebuild(leaf, path)[i][m] = [root |-> leaf, used |-> 0]
        BY <2>1, RebuildLeaf
      <4> QED BY <2>1, <4>1, SliceHashShort
    <3> QED BY <2>1, <3>1
  <2>2. CASE i > 1
    <3> DEFINE k == LargestPowerOfTwoLessThan(i)
               sub == IF m < k THEN Rebuild(leaf, path)[k][m] ELSE Rebuild(leaf, path)[i - k][m - k]
               left == SliceHash(list)[k][s]
               right == SliceHash(list)[i - k][s + k]
    <3>1. SliceHash(list)[i][s] = HashNode(left, right)
      BY <2>2, SliceHashNode
    <3>2. Rebuild(leaf, path)[i][m].root = Climb(sub, m < k, path).root
      BY <2>2, RebuildNode
    <3>3. k \in 1 .. i - 1
      BY <2>2, SplitBounds
    <3>4. sub.root = IF m < k THEN left ELSE right
      <4> HIDE DEF k, sub, left, right
      <4>1. HashNode(left, right) = Climb(sub, m < k, path).root
        BY <3>1, <3>2
      <4> QED BY <4>1, HashTerms DEF Climb
    <3>5. CASE m < k
      <4>1. Rebuild(leaf, path)[k][m].root = left
        BY <3>4, <3>5
      <4>2. Sound(k, m, s)
        <5> HIDE DEF k
        <5>1. k \in 0 .. i - 1
          BY <3>3
        <5> QED BY <1>1, <5>1
      <4> QED BY <3>5, <4>1, <4>2
    <3>6. CASE ~(m < k)
      <4>1. Rebuild(leaf, path)[i - k][m - k].root = right
        BY <3>4, <3>6
      <4> HIDE DEF k
      <4>2. i - k \in 0 .. i - 1 /\ m - k \in Nat /\ s + k \in Nat /\ m - k < i - k
        BY <3>3, <3>6
      <4>3. Sound(i - k, m - k, s + k)
        BY <1>1, <4>2
      <4>4. leaf = list[s + k + (m - k) + 1]
        BY <4>1, <4>2, <4>3
      <4>5. s + k + (m - k) + 1 = s + m + 1
        BY <3>3
      <4> QED BY <4>4, <4>5
    <3> QED BY <3>5, <3>6
  <2> QED BY <2>1, <2>2
<1> HIDE DEF S
<1>2. Nat \subseteq S
  BY <1>1, StrongInduction
<1> QED BY <1>2 DEF S

\* The hashes of all slices of a list.
Hashes(list) == {SliceHash(list)[p[1]][p[2]] : p \in Nat \X Nat}

\* The path of a slice, by cases, is a list of hashes of slices.
LEMMA SlicePathShort ==
    ASSUME NEW list, NEW index, NEW n \in Nat, n <= 1, NEW start \in Nat
    PROVE  SlicePath(list, index)[n][start] = <<>>
BY SlicePathDef

LEMMA SlicePathNode ==
    ASSUME NEW list, NEW index, NEW n \in Nat, n > 1, NEW start \in Nat
    PROVE  SlicePath(list, index)[n][start] =
             IF index - start < LargestPowerOfTwoLessThan(n)
             THEN Append(SlicePath(list, index)[LargestPowerOfTwoLessThan(n)][start],
                         SliceHash(list)[n - LargestPowerOfTwoLessThan(n)]
                                        [start + LargestPowerOfTwoLessThan(n)])
             ELSE Append(SlicePath(list, index)[n - LargestPowerOfTwoLessThan(n)]
                                               [start + LargestPowerOfTwoLessThan(n)],
                         SliceHash(list)[LargestPowerOfTwoLessThan(n)][start])
<1>1. ~(n <= 1)
  OBVIOUS
<1> QED BY <1>1, SlicePathDef

LEMMA SlicePathType ==
    ASSUME NEW list, NEW index
    PROVE  \A n, start \in Nat : SlicePath(list, index)[n][start] \in Seq(Hashes(list))
<1> DEFINE S == {n \in Nat : \A start \in Nat :
                    SlicePath(list, index)[n][start] \in Seq(Hashes(list))}
<1>1. ASSUME NEW size \in Nat, NEW from \in Nat PROVE SliceHash(list)[size][from] \in Hashes(list)
  <2>1. <<size, from>> \in Nat \X Nat
    OBVIOUS
  <2> QED BY <2>1 DEF Hashes
<1>2. ASSUME NEW n \in Nat, \A m \in 0 .. n - 1 : m \in S PROVE n \in S
  <2> SUFFICES ASSUME NEW start \in Nat
               PROVE  SlicePath(list, index)[n][start] \in Seq(Hashes(list))
    OBVIOUS
  <2>1. CASE n <= 1
    <3>1. <<>> \in Seq(Hashes(list))
      OBVIOUS
    <3> QED BY <2>1, <3>1, SlicePathShort
  <2>2. CASE n > 1
    <3> DEFINE k == LargestPowerOfTwoLessThan(n)
    <3>1. k \in 0 .. n - 1 /\ n - k \in 0 .. n - 1 /\ k \in Nat /\ n - k \in Nat /\ start + k \in Nat
      BY <2>2, SplitBounds
    <3>2. CASE index - start < k
      <4>1. SlicePath(list, index)[n][start] =
              Append(SlicePath(list, index)[k][start], SliceHash(list)[n - k][start + k])
        BY <2>2, <3>2, SlicePathNode
      <4> HIDE DEF k
      <4>2. SlicePath(list, index)[k][start] \in Seq(Hashes(list))
        BY <1>2, <3>1
      <4>3. SliceHash(list)[n - k][start + k] \in Hashes(list)
        BY <1>1, <3>1
      <4> QED BY <4>1, <4>2, <4>3
    <3>3. CASE ~(index - start < k)
      <4>1. SlicePath(list, index)[n][start] =
              Append(SlicePath(list, index)[n - k][start + k], SliceHash(list)[k][start])
        BY <2>2, <3>3, SlicePathNode
      <4> HIDE DEF k
      <4>2. SlicePath(list, index)[n - k][start + k] \in Seq(Hashes(list))
        BY <1>2, <3>1
      <4>3. SliceHash(list)[k][start] \in Hashes(list)
        BY <1>1, <3>1
      <4> QED BY <4>1, <4>2, <4>3
    <3> QED BY <3>2, <3>3
  <2> QED BY <2>1, <2>2
<1> HIDE DEF S
<1>3. Nat \subseteq S
  BY <1>2, StrongInduction
<1> QED BY <1>3 DEF S

\* A slice of leaves has a hash, never the mark of a path that ran out.
LEMMA SliceHashIsRoot ==
    ASSUME NEW list \in Seq(Leaf), NEW n \in Nat, NEW start \in Nat, start + n <= Len(list)
    PROVE  SliceHash(list)[n][start] # NoRoot
<1>1. n = 1 => \E data : list[start + 1] = HashLeaf(data)
  BY DEF Leaf
<1>2. CASE n = 0
  BY <1>2, SliceHashShort, HashTerms
<1>3. CASE n = 1
  <2>1. SliceHash(list)[n][start] = list[start + 1]
    BY <1>3, SliceHashShort
  <2> QED BY <1>1, <1>3, <2>1, HashTerms
<1>4. CASE n > 1
  BY <1>4, SliceHashNode, HashTerms
<1> QED BY <1>2, <1>3, <1>4

\* The path of a leaf, or a longer one that begins with it, rebuilds the hash of
\* the slice and uses up the path and no more.
RebuildsSlice(list, index, path, n, start) ==
    LET full == SlicePath(list, index)[n][start]
        rebuilt == Rebuild(list[index + 1], path)[n][index - start]
    IN  /\ start <= index /\ index < start + n /\ start + n <= Len(list)
        /\ Len(full) <= Len(path) /\ \A i \in 1 .. Len(full) : path[i] = full[i]
        => rebuilt.root = SliceHash(list)[n][start] /\ rebuilt.used = Len(full)

\* By induction on the size, with the path of the half as the longer one's beginning.
LEMMA RebuildComplete ==
    \A list \in Seq(Leaf) : \A index \in Nat : \A path : Len(path) \in Nat =>
        \A n, start \in Nat : RebuildsSlice(list, index, path, n, start)
<1> SUFFICES ASSUME NEW list \in Seq(Leaf), NEW index \in Nat, NEW path, Len(path) \in Nat
             PROVE  \A n, start \in Nat : RebuildsSlice(list, index, path, n, start)
  OBVIOUS
<1> DEFINE full(n, start) == SlicePath(list, index)[n][start]
           hash(n, start) == SliceHash(list)[n][start]
           built(n, start) == Rebuild(list[index + 1], path)[n][index - start]
           Within(n, start) == start <= index /\ index < start + n /\ start + n <= Len(list)
           Begins(P) == Len(P) <= Len(path) /\ \A i \in 1 .. Len(P) : path[i] = P[i]
           Built(n, start) ==
              Within(n, start) /\ Begins(full(n, start))
              => built(n, start).root = hash(n, start) /\ built(n, start).used = Len(full(n, start))
           S == {n \in Nat : \A start \in Nat : Built(n, start)}
<1>0. Len(path) \in Nat /\ Len(list) \in Nat
  OBVIOUS
<1>1. ASSUME NEW P \in Seq(Hashes(list)), NEW h \in Hashes(list), Begins(Append(P, h))
      PROVE  Begins(P) /\ Len(P) \in Nat /\ Len(P) < Len(path) /\ path[Len(P) + 1] = h
  <2>1. /\ Len(P) \in Nat /\ Len(Append(P, h)) = Len(P) + 1 /\ Append(P, h)[Len(P) + 1] = h
        /\ \A i \in 1 .. Len(P) : Append(P, h)[i] = P[i]
    OBVIOUS
  <2> QED BY <1>0, <1>1, <2>1
<1>2. ASSUME NEW n \in Nat, \A m \in 0 .. n - 1 : m \in S PROVE n \in S
  <2> SUFFICES ASSUME NEW start \in Nat, Within(n, start), Begins(full(n, start))
               PROVE  built(n, start).root = hash(n, start) /\ built(n, start).used = Len(full(n, start))
    BY DEF S
  <2>0. index - start \in Nat
    OBVIOUS
  <2>1. CASE n = 1
    <3>1. start = index
      BY <2>1
    <3>2. hash(n, start) = list[index + 1]
      BY <2>1, <3>1, SliceHashShort
    <3>3. full(n, start) = <<>>
      BY <2>1, SlicePathShort
    <3>4. built(n, start) = [root |-> list[index + 1], used |-> 0]
      BY <2>0, <2>1, RebuildLeaf
    <3> QED BY <3>2, <3>3, <3>4
  <2>2. CASE n > 1
    <3> DEFINE k == LargestPowerOfTwoLessThan(n)
    <3>1. k \in 1 .. n - 1 /\ n - k \in 1 .. n - 1
      BY <2>2, SplitBounds
    <3>2. built(n, start) =
            Climb(IF index - start < k THEN Rebuild(list[index + 1], path)[k][index - start]
                  ELSE Rebuild(list[index + 1], path)[n - k][index - start - k],
                  index - start < k, path)
      BY <2>0, <2>2, RebuildNode
    <3>3. hash(n, start) = HashNode(hash(k, start), hash(n - k, start + k))
      BY <2>2, SliceHashNode
    <3>4. full(n, start) =
            IF index - start < k THEN Append(full(k, start), hash(n - k, start + k))
                                 ELSE Append(full(n - k, start + k), hash(k, start))
      BY <2>2, SlicePathNode
    <3> HIDE DEF k
    <3>6. /\ k \in Nat /\ n - k \in Nat /\ start + k \in Nat /\ start + k + (n - k) = start + n
          /\ k \in 0 .. n - 1 /\ n - k \in 0 .. n - 1 /\ k < n
      BY <3>1
    <3>7. hash(k, start) \in Hashes(list) /\ hash(n - k, start + k) \in Hashes(list)
      <4>1. <<k, start>> \in Nat \X Nat /\ <<n - k, start + k>> \in Nat \X Nat
        BY <3>6
      <4> QED BY <4>1 DEF Hashes
    <3>8. full(k, start) \in Seq(Hashes(list)) /\ full(n - k, start + k) \in Seq(Hashes(list))
      BY <3>6, SlicePathType
    <3>9. CASE index - start < k
      <4> DEFINE P == full(k, start)
                 h == hash(n - k, start + k)
                 sub == built(k, start)
      <4>1. full(n, start) = Append(P, h) /\ P \in Seq(Hashes(list)) /\ h \in Hashes(list)
        BY <3>4, <3>7, <3>8, <3>9
      <4>2. built(n, start) = Climb(sub, TRUE, path)
        BY <3>2, <3>9
      <4>3. Built(k, start)
        BY <1>2, <3>6
      <4>4. Within(k, start)
        BY <1>0, <3>6, <3>9
      <4>5. sub.root = hash(k, start) => sub.root # NoRoot
        BY <3>6, <4>4, SliceHashIsRoot
      <4> HIDE DEF full, hash, built, Within, Begins
      <4>6. Begins(P) /\ Len(P) \in Nat /\ Len(P) < Len(path) /\ path[Len(P) + 1] = h
        BY <1>1, <4>1
      <4>7. sub.root = hash(k, start) /\ sub.used = Len(P)
        BY <4>3, <4>4, <4>6
      <4>8. Len(full(n, start)) = Len(P) + 1
        BY <4>1
      <4> HIDE DEF P, h, sub
      <4>9. ~(sub.root = NoRoot \/ sub.used >= Len(path))
        BY <1>0, <4>5, <4>6, <4>7
      <4>10. Climb(sub, TRUE, path) = [root |-> HashNode(sub.root, h), used |-> Len(P) + 1]
        BY <4>6, <4>7, <4>9 DEF Climb
      <4>11. hash(n, start) = HashNode(sub.root, h)
        BY <3>3, <4>7 DEF h
      <4>12. built(n, start) = [root |-> hash(n, start), used |-> Len(full(n, start))]
        BY <4>2, <4>8, <4>10, <4>11
      <4> QED BY <4>12
    <3>10. CASE ~(index - start < k)
      <4> DEFINE P == full(n - k, start + k)
                 h == hash(k, start)
                 sub == built(n - k, start + k)
      <4>1. full(n, start) = Append(P, h) /\ P \in Seq(Hashes(list)) /\ h \in Hashes(list)
        BY <3>4, <3>7, <3>8, <3>10
      <4>2. built(n, start) = Climb(sub, FALSE, path)
        <5>1. index - start - k = index - (start + k)
          BY <3>6
        <5>2. Rebuild(list[index + 1], path)[n - k][index - start - k] = sub
          BY <5>1
        <5>3. built(n, start) = Climb(sub, index - start < k, path)
          <6> HIDE DEF sub, built
          <6> QED BY <3>2, <3>10, <5>2
        <5> QED BY <3>10, <5>3 DEF Climb
      <4>3. Built(n - k, start + k)
        BY <1>2, <3>6
      <4>4. Within(n - k, start + k)
        BY <1>0, <3>6, <3>10
      <4>5. sub.root = hash(n - k, start + k) => sub.root # NoRoot
        BY <3>6, <4>4, SliceHashIsRoot
      <4> HIDE DEF full, hash, built, Within, Begins
      <4>6. Begins(P) /\ Len(P) \in Nat /\ Len(P) < Len(path) /\ path[Len(P) + 1] = h
        BY <1>1, <4>1
      <4>7. sub.root = hash(n - k, start + k) /\ sub.used = Len(P)
        BY <4>3, <4>4, <4>6
      <4>8. Len(full(n, start)) = Len(P) + 1
        BY <4>1
      <4> HIDE DEF P, h, sub
      <4>9. ~(sub.root = NoRoot \/ sub.used >= Len(path))
        BY <1>0, <4>5, <4>6, <4>7
      <4>10. Climb(sub, FALSE, path) = [root |-> HashNode(h, sub.root), used |-> Len(P) + 1]
        BY <4>6, <4>7, <4>9 DEF Climb
      <4>11. hash(n, start) = HashNode(h, sub.root)
        BY <3>3, <4>7 DEF h
      <4>12. built(n, start) = [root |-> hash(n, start), used |-> Len(full(n, start))]
        BY <4>2, <4>8, <4>10, <4>11
      <4> QED BY <4>12
    <3> QED BY <3>9, <3>10
  <2>3. n >= 1
    BY <1>0
  <2> QED BY <2>1, <2>2, <2>3
<1> HIDE DEF S
<1>3. Nat \subseteq S
  BY <1>2, StrongInduction
<1> QED BY <1>3 DEF S, RebuildsSlice

\* An honest proof verifies against the root of its list and no other.
LEMMA IssuedVerifies ==
    ASSUME NEW list \in Seq(Leaf), NEW index \in 0 .. Len(list) - 1, NEW root
    PROVE  VerifyProof(Proof(list, index), root) <=> TreeHash(list) = root
<1> DEFINE n == Len(list)
           path == AuditPath(list, index)
           rebuilt == Rebuild(list[index + 1], path)[n][index]
<1>1. n \in Nat /\ n > 0 /\ index \in Nat /\ index \in 0 .. n - 1 /\ 0 \in Nat
  OBVIOUS
<1>2. path = SlicePath(list, index)[n][0]
  BY DEF AuditPath
<1>3. path \in Seq(Hashes(list))
  BY <1>1, <1>2, SlicePathType
<1>4. rebuilt.root = TreeHash(list) /\ rebuilt.used = Len(path)
  <2>1. Len(path) \in Nat
    BY <1>3
  <2> HIDE DEF n, path
  <2>2. RebuildsSlice(list, index, path, n, 0)
    BY <1>1, <2>1, RebuildComplete
  <2>3. 0 <= index /\ index < 0 + n /\ 0 + n <= Len(list) /\ index - 0 = index
    BY <1>1 DEF n
  <2>4. rebuilt.root = SliceHash(list)[n][0] /\ rebuilt.used = Len(path)
    BY <1>1, <1>2, <2>1, <2>2, <2>3 DEF RebuildsSlice
  <2> QED BY <2>4 DEF TreeHash, n
<1>5. TreeHash(list) # NoRoot
  <2>1. 0 + n <= Len(list)
    BY <1>1
  <2> QED BY <1>1, <2>1, SliceHashIsRoot DEF TreeHash
<1> HIDE DEF n, path, rebuilt
<1>6. VerifyProof(Proof(list, index), root) <=>
        rebuilt.root # NoRoot /\ rebuilt.used = Len(path) /\ rebuilt.root = root
  BY <1>1 DEF VerifyProof, Proof, n, path, rebuilt
<1> QED BY <1>4, <1>5, <1>6

\* A proof that verifies against the root of a list, by whomever it was made and
\* whatever its path, names the index of its leaf in the list.
LEMMA VerifiedIsIncluded ==
    ASSUME NEW list \in Seq(Leaf), NEW leaf, NEW index, NEW path,
           VerifyProof([leaf_index |-> index, leaf_hash |-> leaf,
                        audit_path |-> path, tree_size |-> Len(list)], TreeHash(list))
    PROVE  index \in 0 .. Len(list) - 1 /\ leaf = list[index + 1]
<1>1. index \in 0 .. Len(list) - 1 /\ Len(list) \in Nat /\ index \in Nat /\ index < Len(list)
  BY DEF VerifyProof
<1>2. Rebuild(leaf, path)[Len(list)][index].root = SliceHash(list)[Len(list)][0]
  BY DEF VerifyProof, TreeHash
<1>3. LeafAtPlace(list, leaf, path, Len(list), index, 0)
  BY <1>1, RebuildSound
<1>4. leaf = list[0 + index + 1]
  BY <1>1, <1>2, <1>3 DEF LeafAtPlace
<1> QED BY <1>1, <1>4

-----------------------------------------------------------------------------
(* The log. *)

\* A prefix of a list does not see what is appended to the list.
LEMMA PrefixOfAppend ==
    ASSUME NEW S, NEW s \in Seq(S), NEW e \in S, NEW n \in 0 .. Len(s)
    PROVE  SubSeq(Append(s, e), 1, n) = SubSeq(s, 1, n)
<1>1. Append(s, e) \in Seq(S) /\ Len(Append(s, e)) = Len(s) + 1
  OBVIOUS
<1>2. Len(SubSeq(Append(s, e), 1, n)) = n /\ Len(SubSeq(s, 1, n)) = n
  BY <1>1
<1>3. SubSeq(Append(s, e), 1, n) \in Seq(S) /\ SubSeq(s, 1, n) \in Seq(S)
  BY <1>1
<1>4. \A i \in 1 .. n : SubSeq(Append(s, e), 1, n)[i] = SubSeq(s, 1, n)[i]
  BY <1>1
<1> QED BY <1>2, <1>3, <1>4

\* A list is its longest prefix.
LEMMA WholePrefix ==
    ASSUME NEW S, NEW s \in Seq(S)
    PROVE  SubSeq(s, 1, Len(s)) = s
OBVIOUS

\* Every action keeps the types.
LEMMA TypeStep == TypeOK /\ [Next]_vars => TypeOK'
<1> SUFFICES ASSUME TypeOK, [Next]_vars PROVE TypeOK'
  OBVIOUS
<1> USE DEF TypeOK
<1>1. ASSUME NEW data \in Data, AppendReceipt(data)
      PROVE  TypeOK'
  <2>1. HashLeaf(data) \in Leaf
    BY DEF Leaf
  <2>2. leaves' \in Seq(Leaf) /\ Len(leaves') = Len(leaves) + 1 /\ Len(leaves) \in Nat
    BY <1>1, <2>1 DEF AppendReceipt
  <2>3. \A t \in tickets' : t.data \in Data /\ t.index \in 0 .. Len(leaves') - 1
    BY <1>1, <2>2 DEF AppendReceipt
  <2> QED BY <1>1, <2>2, <2>3 DEF AppendReceipt
<1>2. CASE PublishRoot
  <2>1. Len(leaves) \in Nat
    OBVIOUS
  <2> QED BY <1>2, <2>1 DEF PublishRoot
<1>3. ASSUME NEW index \in 0 .. MaxLeaves - 1, IssueProof(index)
      PROVE  TypeOK'
  <2>1. Len(leaves) \in Nat /\ index \in Nat /\ index < Len(leaves)
    BY <1>3, MaxLeavesAssumption DEF IssueProof
  <2>2. /\ Proof(leaves, index).tree_size = Len(leaves)
        /\ Proof(leaves, index).leaf_index = index
    BY DEF Proof
  <2> QED BY <1>3, <2>1, <2>2 DEF IssueProof
<1>4. CASE UNCHANGED vars
  BY <1>4 DEF vars
<1> QED BY <1>1, <1>2, <1>3, <1>4 DEF Next

\* The log's type invariant, for every value of the constants.
THEOREM TypeCorrect == Spec => []TypeOK
<1>1. Init => TypeOK
  BY DEF Init, TypeOK
<1> QED BY <1>1, TypeStep, PTL DEF Spec

\* Appending keeps the prefixes the roots were taken of; a new root is taken of
\* the whole list.
LEMMA HistoryStep == TypeOK /\ HistoryKept /\ [Next]_vars => HistoryKept'
<1> SUFFICES ASSUME TypeOK, HistoryKept, [Next]_vars PROVE HistoryKept'
  OBVIOUS
<1>1. leaves \in Seq(Leaf) /\ Len(leaves) \in Nat
  BY DEF TypeOK
<1>2. ASSUME NEW data \in Data, AppendReceipt(data)
      PROVE  HistoryKept'
  <2> DEFINE leaf == HashLeaf(data)
  <2>1. leaf \in Leaf /\ leaves' = Append(leaves, leaf) /\ roots' = roots
    BY <1>2 DEF AppendReceipt, Leaf
  <2>2. ASSUME NEW r \in roots
        PROVE  r.hash = TreeHash(Prefix(r.size)')
    <3>1. r.size \in 0 .. Len(leaves)
      BY DEF TypeOK
    <3>2. SubSeq(leaves', 1, r.size) = SubSeq(leaves, 1, r.size)
      BY <1>1, <2>1, <3>1, PrefixOfAppend
    <3> QED BY <3>2 DEF HistoryKept, Prefix
  <2>3. ASSUME NEW t \in tickets'
        PROVE  leaves'[t.index + 1] = HashLeaf(t.data)
    <3>1. CASE t \in tickets
      <4>1. t.index + 1 \in 1 .. Len(leaves)
        BY <1>1, <3>1 DEF TypeOK
      <4> QED BY <1>1, <2>1, <3>1, <4>1 DEF HistoryKept
    <3>2. CASE t = [data |-> data, index |-> Len(leaves)]
      BY <1>1, <2>1, <3>2
    <3> QED BY <1>2, <3>1, <3>2 DEF AppendReceipt
  <2> QED BY <2>1, <2>2, <2>3 DEF HistoryKept, Prefix
<1>3. CASE PublishRoot
  <2> DEFINE new == [size |-> Len(leaves), hash |-> TreeHash(leaves)]
  <2>1. Prefix(new.size) = leaves
    BY <1>1, WholePrefix DEF Prefix
  <2>2. roots' = roots \union {new} /\ UNCHANGED <<leaves, tickets>>
    BY <1>3 DEF PublishRoot
  <2>3. new.hash = TreeHash(Prefix(new.size))
    BY <2>1
  <2> HIDE DEF new
  <2> QED BY <2>2, <2>3 DEF HistoryKept, Prefix
<1>4. ASSUME NEW index \in 0 .. MaxLeaves - 1, IssueProof(index)
      PROVE  HistoryKept'
  BY <1>4 DEF IssueProof, HistoryKept, Prefix
<1>5. CASE UNCHANGED vars
  BY <1>5 DEF vars, HistoryKept, Prefix
<1> QED BY <1>2, <1>3, <1>4, <1>5 DEF Next

\* Whatever is appended later, published roots stay roots of the log's prefixes
\* and receipts keep the index they were given.
THEOREM HistoryCorrect == Spec => []HistoryKept
<1>1. Init => HistoryKept
  BY DEF Init, HistoryKept
<1> QED BY <1>1, TypeCorrect, HistoryStep, PTL DEF Spec

\* Each proof handed out is, for ever, what proof() returns for the log as long
\* as it was then.
ProofsKept == \A p \in proofs : p = Proof(Prefix(p.tree_size), p.leaf_index)

\* A prefix of the log is a list of leaves.
LEMMA PrefixType ==
    ASSUME TypeOK, NEW n \in 0 .. Len(leaves)
    PROVE  Prefix(n) \in Seq(Leaf) /\ Len(Prefix(n)) = n /\ \A i \in 1 .. n : Prefix(n)[i] = leaves[i]
BY DEF TypeOK, Prefix

\* Appending does not change the prefixes that proofs were made of.
LEMMA ProofsStep == TypeOK /\ ProofsKept /\ [Next]_vars => ProofsKept'
<1> SUFFICES ASSUME TypeOK, ProofsKept, [Next]_vars PROVE ProofsKept'
  OBVIOUS
<1>1. leaves \in Seq(Leaf) /\ Len(leaves) \in Nat
  BY DEF TypeOK
<1>2. ASSUME NEW data \in Data, AppendReceipt(data)
      PROVE  ProofsKept'
  <2>1. HashLeaf(data) \in Leaf /\ leaves' = Append(leaves, HashLeaf(data)) /\ proofs' = proofs
    BY <1>2 DEF AppendReceipt, Leaf
  <2>2. ASSUME NEW p \in proofs
        PROVE  Prefix(p.tree_size)' = Prefix(p.tree_size)
    <3>1. p.tree_size \in 0 .. Len(leaves)
      BY DEF TypeOK
    <3> QED BY <1>1, <2>1, <3>1, PrefixOfAppend DEF Prefix
  <2> QED BY <2>1, <2>2 DEF ProofsKept
<1>3. CASE PublishRoot
  BY <1>3 DEF PublishRoot, ProofsKept, Prefix
<1>4. ASSUME NEW index \in 0 .. MaxLeaves - 1, IssueProof(index)
      PROVE  ProofsKept'
  <2> DEFINE new == Proof(leaves, index)
  <2>1. new.tree_size = Len(leaves) /\ new.leaf_index = index
    BY DEF Proof
  <2>2. Prefix(new.tree_size) = leaves
    BY <1>1, <2>1, WholePrefix DEF Prefix
  <2>3. new = Proof(Prefix(new.tree_size), new.leaf_index)
    BY <2>1, <2>2
  <2>4. proofs' = proofs \union {new} /\ UNCHANGED leaves
    BY <1>4 DEF IssueProof
  <2> HIDE DEF new
  <2> QED BY <2>3, <2>4 DEF ProofsKept, Prefix
<1>5. CASE UNCHANGED vars
  BY <1>5 DEF vars, ProofsKept, Prefix
<1> QED BY <1>2, <1>3, <1>4, <1>5 DEF Next

\* Proofs handed out stay honest proofs of the log's prefixes.
LEMMA ProofsHonest == Spec => []ProofsKept
<1>1. Init => ProofsKept
  BY DEF Init, ProofsKept
<1> QED BY <1>1, TypeCorrect, ProofsStep, PTL DEF Spec

\* Every proof the log issued verifies against the roots published at its size,
\* before or after it, and against no other.
THEOREM ProofsCorrect == Spec => []ProofsMatchRoots
<1>1. TypeOK /\ HistoryKept /\ ProofsKept => ProofsMatchRoots
  <2> SUFFICES ASSUME TypeOK, HistoryKept, ProofsKept, NEW p \in proofs, NEW r \in roots
               PROVE  VerifyProof(p, r.hash) <=> p.tree_size = r.size
    BY DEF ProofsMatchRoots
  <2> DEFINE a == Prefix(p.tree_size)
             b == Prefix(r.size)
  <2>1. /\ p.tree_size \in 0 .. Len(leaves) /\ r.size \in 0 .. Len(leaves)
        /\ p.leaf_index \in 0 .. p.tree_size - 1
    BY DEF TypeOK
  <2>2. a \in Seq(Leaf) /\ Len(a) = p.tree_size /\ b \in Seq(Leaf) /\ Len(b) = r.size
    BY <2>1, PrefixType
  <2>3. p = Proof(a, p.leaf_index) /\ r.hash = TreeHash(b)
    BY DEF ProofsKept, HistoryKept
  <2>4. a = b <=> p.tree_size = r.size
    BY <2>2
  <2> HIDE DEF a, b
  <2>5. VerifyProof(Proof(a, p.leaf_index), r.hash) <=> TreeHash(a) = r.hash
    BY <2>1, <2>2, IssuedVerifies
  <2>6. TreeHash(a) = TreeHash(b) <=> a = b
    BY <2>2, TreeHashBinds
  <2> QED BY <2>3, <2>4, <2>5, <2>6
<1> QED BY <1>1, TypeCorrect, HistoryCorrect, ProofsHonest, PTL

\* Tamper evidence: a list of receipts with a published root is the published one.
THEOREM RootsCorrect == Spec => []RootsAreBinding
<1>1. TypeOK /\ HistoryKept => RootsAreBinding
  <2> SUFFICES ASSUME TypeOK, HistoryKept, NEW r \in roots, NEW n \in 0 .. MaxLeaves,
                      NEW other \in [1 .. n -> Leaf], TreeHash(other) = r.hash
               PROVE  other = Prefix(r.size)
    BY DEF RootsAreBinding
  <2>1. other \in Seq(Leaf)
    BY MaxLeavesAssumption
  <2>2. r.size \in 0 .. Len(leaves)
    BY DEF TypeOK
  <2>3. Prefix(r.size) \in Seq(Leaf)
    BY <2>2, PrefixType
  <2>4. TreeHash(other) = TreeHash(Prefix(r.size))
    BY DEF HistoryKept
  <2> QED BY <2>1, <2>3, <2>4, TreeHashBinds
<1> QED BY <1>1, TypeCorrect, HistoryCorrect, PTL

\* What the run tries for short paths of hashes the log has given out, for every
\* leaf hash, index and path whatever: each names its index in the list of the root.
NothingForged ==
    \A r \in roots : \A leaf, index, path :
        VerifyProof([leaf_index |-> index, leaf_hash |-> leaf,
                     audit_path |-> path, tree_size |-> r.size], r.hash)
            => index \in 0 .. r.size - 1 /\ leaf = leaves[index + 1]

\* A proof that verifies against a published root at its size names the leaf
\* that the log has at its index, by whomever and from whatever it was made.
THEOREM AnyPathCorrect == Spec => []NothingForged
<1>1. TypeOK /\ HistoryKept => NothingForged
  <2> SUFFICES ASSUME TypeOK, HistoryKept, NEW r \in roots, NEW leaf, NEW index, NEW path,
                      VerifyProof([leaf_index |-> index, leaf_hash |-> leaf,
                                   audit_path |-> path, tree_size |-> r.size], r.hash)
               PROVE  index \in 0 .. r.size - 1 /\ leaf = leaves[index + 1]
    BY DEF NothingForged
  <2> DEFINE list == Prefix(r.size)
  <2>1. r.size \in 0 .. Len(leaves)
    BY DEF TypeOK
  <2>2. list \in Seq(Leaf) /\ Len(list) = r.size /\ \A i \in 1 .. r.size : list[i] = leaves[i]
    BY <2>1, PrefixType
  <2>3. r.hash = TreeHash(list)
    BY DEF HistoryKept
  <2> HIDE DEF list
  <2>4. VerifyProof([leaf_index |-> index, leaf_hash |-> leaf,
                     audit_path |-> path, tree_size |-> Len(list)], TreeHash(list))
    BY <2>2, <2>3
  <2>5. index \in 0 .. Len(list) - 1 /\ leaf = list[index + 1]
    BY <2>2, <2>4, VerifiedIsIncluded
  <2>6. index + 1 \in 1 .. r.size
    BY <2>1, <2>2, <2>5
  <2> QED BY <2>2, <2>5, <2>6
<1> QED BY <1>1, TypeCorrect, HistoryCorrect, PTL

\* The case of it that the run checks.
THEOREM InclusionCorrect == Spec => []NoForgedInclusion
<1>1. TypeOK /\ NothingForged => NoForgedInclusion
  <2> SUFFICES ASSUME TypeOK, NothingForged, NEW r \in roots, NEW d \in Data,
                      NEW index \in 0 .. MaxLeaves, NEW path \in Paths,
                      VerifyProof([leaf_index |-> index, leaf_hash |-> HashLeaf(d),
                                   audit_path |-> path, tree_size |-> r.size], r.hash)
               PROVE  index < r.size /\ leaves[index + 1] = HashLeaf(d)
    BY DEF NoForgedInclusion
  <2>1. index \in 0 .. r.size - 1 /\ HashLeaf(d) = leaves[index + 1]
    BY DEF NothingForged
  <2>2. r.size \in Nat
    BY DEF TypeOK
  <2> QED BY <2>1, <2>2
<1> QED BY <1>1, TypeCorrect, AnyPathCorrect, PTL

=============================================================================
