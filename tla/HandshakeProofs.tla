--------------------------- MODULE HandshakeProofs --------------------------
(***************************************************************************)
(* The negotiation for every set of deployments and offers.  The maxima    *)
(* that max() computes exist because lists are finite; two maxima of       *)
(* different representations agree because versions written the usual way  *)
(* are determined by their numbers.                                        *)
(***************************************************************************)
EXTENDS Handshake, OrderLemmas, FiniteSetTheorems, TLAPS

-----------------------------------------------------------------------------
(* Lists: loops that append, and joins. *)

\* What Kept returns, item by item.
LEMMA KeptDef ==
    ASSUME NEW list, NEW set, Len(list) \in Nat
    PROVE  \E kept \in [Nat -> Seq({list[i] : i \in Nat})] :
              /\ kept[0] = <<>>
              /\ \A n \in Nat : kept[n + 1] =
                    IF list[n + 1] \in set THEN Append(kept[n], list[n + 1]) ELSE kept[n]
              /\ Kept(list, set) = kept[Len(list)]
<1> DEFINE Items == {list[i] : i \in Nat}
           V == Seq(Items)
           next == [n \in Nat |-> [v \in V |-> IF list[n] \in set THEN Append(v, list[n]) ELSE v]]
<1>1. <<>> \in V /\ \A n \in Nat : list[n] \in Items
  OBVIOUS
<1>2. next \in [Nat -> [V -> V]]
  <2>1. \A n \in Nat : \A v \in V : (IF list[n] \in set THEN Append(v, list[n]) ELSE v) \in V
    <3> HIDE DEF Items
    <3> QED BY <1>1
  <2> HIDE DEF V
  <2> QED BY <2>1
<1>3. \A n \in Nat : \A v \in V : next[n][v] = IF list[n] \in set THEN Append(v, list[n]) ELSE v
  OBVIOUS
<1> HIDE DEF next, V
<1>4. PICK f \in [Nat -> V] : f[0] = <<>> /\ \A n \in Nat : f[n + 1] = next[n + 1][f[n]]
  <2>1. IsIteration(<<>>, next, V)
    BY <1>1, <1>2 DEF IsIteration
  <2>2. \E f : Iteration(f, <<>>, next, V)
    BY <2>1, IterationHasSolution
  <2> QED BY <2>2 DEF Iteration
<1>5. ASSUME NEW n \in Nat
      PROVE  f[n + 1] = IF list[n + 1] \in set THEN Append(f[n], list[n + 1]) ELSE f[n]
  <2>1. n + 1 \in Nat /\ f[n] \in V
    OBVIOUS
  <2> QED BY <1>3, <1>4, <2>1
<1>6. f = [n \in Nat |-> IF n = 0 THEN <<>>
                         ELSE IF list[n] \in set THEN Append(f[n - 1], list[n]) ELSE f[n - 1]]
  <2>1. ASSUME NEW n \in Nat
        PROVE  f[n] = IF n = 0 THEN <<>>
                      ELSE IF list[n] \in set THEN Append(f[n - 1], list[n]) ELSE f[n - 1]
    <3>1. CASE n = 0
      BY <1>4, <3>1
    <3>2. CASE n # 0
      <4>1. n - 1 \in Nat /\ n - 1 + 1 = n
        BY <3>2
      <4>2. f[n - 1 + 1] = IF list[n - 1 + 1] \in set THEN Append(f[n - 1], list[n - 1 + 1]) ELSE f[n - 1]
        BY <1>5, <4>1
      <4> QED BY <3>2, <4>1, <4>2
    <3> QED BY <3>1, <3>2
  <2> QED BY <2>1
<1> DEFINE F == CHOOSE g : g = [n \in Nat |-> IF n = 0 THEN <<>>
                         ELSE IF list[n] \in set THEN Append(g[n - 1], list[n]) ELSE g[n - 1]]
<1>7. F = [n \in Nat |-> IF n = 0 THEN <<>>
                         ELSE IF list[n] \in set THEN Append(F[n - 1], list[n]) ELSE F[n - 1]]
  BY <1>6
<1>8. Kept(list, set) = F[Len(list)]
  BY DEF Kept
<1> HIDE DEF F
<1>81. ASSUME NEW n \in Nat
       PROVE  F[n] = IF n = 0 THEN <<>>
                     ELSE IF list[n] \in set THEN Append(F[n - 1], list[n]) ELSE F[n - 1]
  BY <1>7
<1>9. \A n \in Nat : F[n] = f[n]
  <2> DEFINE S == {n \in Nat : F[n] = f[n]}
  <2>1. 0 \in S
    BY <1>4, <1>7
  <2>2. ASSUME NEW n \in Nat, n \in S PROVE n + 1 \in S
    <3>1. n + 1 \in Nat /\ n + 1 # 0 /\ n + 1 - 1 = n
      OBVIOUS
    <3>2. F[n + 1] = IF list[n + 1] \in set THEN Append(F[n], list[n + 1]) ELSE F[n]
      BY <1>81, <3>1
    <3>3. F[n] = f[n]
      BY <2>2
    <3>4. F[n + 1] = f[n + 1]
      <4>1. f[n + 1] = IF list[n + 1] \in set THEN Append(f[n], list[n + 1]) ELSE f[n]
        BY <1>5
      <4> QED BY <3>2, <3>3, <4>1
    <3> QED BY <3>1, <3>4
  <2> HIDE DEF S
  <2>3. Nat \subseteq S
    BY <2>1, <2>2, PlainInduction
  <2> QED BY <2>3 DEF S
<1>10. Kept(list, set) = f[Len(list)]
  BY <1>8, <1>9
<1> QED BY <1>4, <1>5, <1>10 DEF V

\* Append adds one element to a list's elements.
LEMMA ElementsOfAppend ==
    ASSUME NEW X, NEW s \in Seq(X), NEW e \in X
    PROVE  Elements(Append(s, e)) = Elements(s) \union {e}
<1>1. /\ Len(s) \in Nat /\ DOMAIN s = 1 .. Len(s)
      /\ DOMAIN Append(s, e) = 1 .. Len(s) + 1 /\ Append(s, e)[Len(s) + 1] = e
      /\ \A i \in 1 .. Len(s) : Append(s, e)[i] = s[i]
  OBVIOUS
<1>2. 1 .. Len(s) + 1 = 1 .. Len(s) \union {Len(s) + 1}
  BY <1>1
<1> QED BY <1>1, <1>2 DEF Elements

\* Kept keeps exactly the elements that are in the set.
LEMMA KeptElements ==
    ASSUME NEW X, NEW list \in Seq(X), NEW set
    PROVE  Kept(list, set) \in Seq(X) /\ Elements(Kept(list, set)) = Elements(list) \intersect set
<1> DEFINE Items == {list[i] : i \in Nat}
<1>1. Len(list) \in Nat /\ DOMAIN list = 1 .. Len(list)
  OBVIOUS
<1>2. PICK kept \in [Nat -> Seq(Items)] :
              /\ kept[0] = <<>>
              /\ \A n \in Nat : kept[n + 1] =
                    IF list[n + 1] \in set THEN Append(kept[n], list[n + 1]) ELSE kept[n]
              /\ Kept(list, set) = kept[Len(list)]
  BY <1>1, KeptDef
<1> DEFINE S == {n \in Nat : n <= Len(list) =>
                     /\ kept[n] \in Seq(X)
                     /\ Elements(kept[n]) = {list[i] : i \in 1 .. n} \intersect set}
<1>3. 0 \in S
  <2>1. Elements(<<>>) = {} /\ {list[i] : i \in 1 .. 0} = {} /\ <<>> \in Seq(X)
    BY DEF Elements
  <2> QED BY <1>2, <2>1
<1>4. ASSUME NEW n \in Nat, n \in S PROVE n + 1 \in S
  <2> SUFFICES ASSUME n + 1 <= Len(list)
               PROVE  /\ kept[n + 1] \in Seq(X)
                      /\ Elements(kept[n + 1]) = {list[i] : i \in 1 .. n + 1} \intersect set
    OBVIOUS
  <2>1. kept[n] \in Seq(X) /\ Elements(kept[n]) = {list[i] : i \in 1 .. n} \intersect set
    BY <1>1, <1>4
  <2>2. {list[i] : i \in 1 .. n + 1} = {list[i] : i \in 1 .. n} \union {list[n + 1]}
    <3>1. 1 .. n + 1 = 1 .. n \union {n + 1}
      OBVIOUS
    <3> QED BY <3>1
  <2>3. kept[n + 1] = IF list[n + 1] \in set THEN Append(kept[n], list[n + 1]) ELSE kept[n]
    BY <1>2
  <2>4. list[n + 1] \in X
    BY <1>1
  <2>5. CASE list[n + 1] \in set
    <3>1. Elements(kept[n + 1]) = Elements(kept[n]) \union {list[n + 1]}
      BY <2>1, <2>3, <2>4, <2>5, ElementsOfAppend
    <3>2. kept[n + 1] \in Seq(X)
      BY <2>1, <2>3, <2>4, <2>5
    <3> QED BY <2>1, <2>2, <2>5, <3>1, <3>2
  <2>6. CASE list[n + 1] \notin set
    <3>1. kept[n + 1] = kept[n]
      BY <2>3, <2>6
    <3> QED BY <2>1, <2>2, <2>6, <3>1
  <2> QED BY <2>5, <2>6
<1> HIDE DEF S
<1>5. Nat \subseteq S
  BY <1>3, <1>4, PlainInduction
<1>6. Elements(list) = {list[i] : i \in 1 .. Len(list)}
  BY <1>1 DEF Elements
<1>7. Len(list) \in S
  BY <1>1, <1>5
<1>8. /\ kept[Len(list)] \in Seq(X)
      /\ Elements(kept[Len(list)]) = {list[i] : i \in 1 .. Len(list)} \intersect set
  BY <1>1, <1>7 DEF S
<1> QED BY <1>2, <1>6, <1>8

\* It depends on the set only as far as the list's elements are concerned.
LEMMA KeptAgrees ==
    ASSUME NEW X, NEW list \in Seq(X), NEW T, NEW U,
           Elements(list) \intersect T = Elements(list) \intersect U
    PROVE  Kept(list, T) = Kept(list, U)
<1>1. Len(list) \in Nat /\ \A i \in 1 .. Len(list) : list[i] \in T <=> list[i] \in U
  BY DEF Elements
<1>2. PICK kept \in [Nat -> Seq({list[i] : i \in Nat})] :
              /\ kept[0] = <<>>
              /\ \A n \in Nat : kept[n + 1] =
                    IF list[n + 1] \in T THEN Append(kept[n], list[n + 1]) ELSE kept[n]
              /\ Kept(list, T) = kept[Len(list)]
  BY <1>1, KeptDef
<1>3. PICK same \in [Nat -> Seq({list[i] : i \in Nat})] :
              /\ same[0] = <<>>
              /\ \A n \in Nat : same[n + 1] =
                    IF list[n + 1] \in U THEN Append(same[n], list[n + 1]) ELSE same[n]
              /\ Kept(list, U) = same[Len(list)]
  BY <1>1, KeptDef
<1> DEFINE S == {n \in Nat : n <= Len(list) => kept[n] = same[n]}
<1>4. 0 \in S
  BY <1>2, <1>3
<1>5. ASSUME NEW n \in Nat, n \in S PROVE n + 1 \in S
  <2> SUFFICES ASSUME n + 1 <= Len(list) PROVE kept[n + 1] = same[n + 1]
    OBVIOUS
  <2>1. kept[n] = same[n] /\ n + 1 \in 1 .. Len(list)
    BY <1>1, <1>5
  <2>2. list[n + 1] \in T <=> list[n + 1] \in U
    BY <1>1, <2>1
  <2>3. kept[n + 1] = IF list[n + 1] \in T THEN Append(kept[n], list[n + 1]) ELSE kept[n]
    BY <1>2
  <2>4. same[n + 1] = IF list[n + 1] \in U THEN Append(same[n], list[n + 1]) ELSE same[n]
    BY <1>3
  <2> QED BY <2>1, <2>2, <2>3, <2>4
<1> HIDE DEF S
<1>6. Nat \subseteq S
  BY <1>4, <1>5, PlainInduction
<1> QED BY <1>1, <1>2, <1>3, <1>6 DEF S

\* A list all of whose elements pass is returned as it is.
LEMMA KeptAll ==
    ASSUME NEW X, NEW list \in Seq(X), NEW set, Elements(list) \subseteq set
    PROVE  Kept(list, set) = list
<1> DEFINE Items == {list[i] : i \in Nat}
<1>1. Len(list) \in Nat /\ \A i \in 1 .. Len(list) : list[i] \in set
  BY DEF Elements
<1>2. PICK kept \in [Nat -> Seq(Items)] :
              /\ kept[0] = <<>>
              /\ \A n \in Nat : kept[n + 1] =
                    IF list[n + 1] \in set THEN Append(kept[n], list[n + 1]) ELSE kept[n]
              /\ Kept(list, set) = kept[Len(list)]
  BY <1>1, KeptDef
<1> DEFINE S == {n \in Nat : n <= Len(list) =>
                     Len(kept[n]) = n /\ \A i \in 1 .. n : kept[n][i] = list[i]}
<1>3. 0 \in S
  BY <1>2
<1>4. ASSUME NEW n \in Nat, n \in S PROVE n + 1 \in S
  <2> SUFFICES ASSUME n + 1 <= Len(list)
               PROVE  Len(kept[n + 1]) = n + 1 /\ \A i \in 1 .. n + 1 : kept[n + 1][i] = list[i]
    OBVIOUS
  <2>1. Len(kept[n]) = n /\ \A i \in 1 .. n : kept[n][i] = list[i]
    BY <1>1, <1>4
  <2>2. n + 1 \in 1 .. Len(list) /\ n + 1 \in Nat
    BY <1>1
  <2>3. kept[n + 1] = Append(kept[n], list[n + 1])
    <3>1. list[n + 1] \in set
      BY <1>1, <2>2
    <3>2. kept[n + 1] = IF list[n + 1] \in set THEN Append(kept[n], list[n + 1]) ELSE kept[n]
      BY <1>2
    <3> QED BY <3>1, <3>2
  <2>4. kept[n] \in Seq(Items) /\ list[n + 1] \in Items
    BY <2>2 DEF Items
  <2> HIDE DEF Items
  <2>5. /\ Len(Append(kept[n], list[n + 1])) = n + 1
        /\ Append(kept[n], list[n + 1])[n + 1] = list[n + 1]
        /\ \A i \in 1 .. n : Append(kept[n], list[n + 1])[i] = kept[n][i]
    <3> DEFINE s == kept[n]
               e == list[n + 1]
    <3>1. s \in Seq(Items) /\ e \in Items /\ Len(s) = n
      BY <2>1, <2>4
    <3> HIDE DEF s, e
    <3>2. /\ Len(Append(s, e)) = Len(s) + 1 /\ Append(s, e)[Len(s) + 1] = e
          /\ \A i \in 1 .. Len(s) : Append(s, e)[i] = s[i]
      <4>1. \A x \in Seq(Items), y \in Items :
               /\ Len(Append(x, y)) = Len(x) + 1 /\ Append(x, y)[Len(x) + 1] = y
               /\ \A i \in 1 .. Len(x) : Append(x, y)[i] = x[i]
        OBVIOUS
      <4> QED BY <3>1, <4>1
    <3>3. /\ Len(Append(s, e)) = n + 1 /\ Append(s, e)[n + 1] = e
          /\ \A i \in 1 .. n : Append(s, e)[i] = s[i]
      BY <3>1, <3>2
    <3> QED BY <3>3 DEF s, e
  <2>6. \A i \in 1 .. n + 1 : i \in 1 .. n \/ i = n + 1
    OBVIOUS
  <2> QED BY <2>1, <2>3, <2>5, <2>6
<1> HIDE DEF S
<1>5. Nat \subseteq S
  BY <1>3, <1>4, PlainInduction
<1>6. Len(Kept(list, set)) = Len(list) /\ \A i \in 1 .. Len(list) : Kept(list, set)[i] = list[i]
  <2>1. Len(list) \in S
    BY <1>1, <1>5
  <2>2. Len(kept[Len(list)]) = Len(list) /\ \A i \in 1 .. Len(list) : kept[Len(list)][i] = list[i]
    BY <1>1, <2>1 DEF S
  <2> QED BY <1>2, <2>2
<1>7. Kept(list, set) \in Seq(X)
  BY KeptElements
<1> QED BY <1>6, <1>7

\* A list none of whose elements passes leaves nothing.
LEMMA KeptNone ==
    ASSUME NEW X, NEW list \in Seq(X), NEW set, Elements(list) \intersect set = {}
    PROVE  Kept(list, set) = <<>>
<1>1. Kept(list, set) \in Seq(X) /\ Elements(Kept(list, set)) = {}
  BY KeptElements
<1>2. Len(Kept(list, set)) = 0
  <2>1. Len(Kept(list, set)) \in Nat /\ DOMAIN Kept(list, set) = 1 .. Len(Kept(list, set))
    BY <1>1
  <2>2. DOMAIN Kept(list, set) = {}
    BY <1>1 DEF Elements
  <2>3. Len(Kept(list, set)) # 0 => 1 \in 1 .. Len(Kept(list, set))
    BY <2>1
  <2> QED BY <2>1, <2>2, <2>3
<1> QED BY <1>1, <1>2

\* FlattenSeq, list by list.
LEMMA FlattenDef ==
    ASSUME NEW X, NEW lists \in Seq(Seq(X))
    PROVE  \E flat \in [Nat -> Seq(X)] :
              /\ flat[0] = <<>>
              /\ \A n \in Nat : n < Len(lists) => flat[n + 1] = flat[n] \o lists[n + 1]
              /\ FlattenSeq(lists) = flat[Len(lists)]
<1> DEFINE V == Seq(X)
           top == Len(lists)
           next == [n \in Nat |-> [v \in V |-> IF n \in 1 .. top THEN v \o lists[n] ELSE v]]
<1>1. <<>> \in V /\ top \in Nat /\ \A n \in 1 .. top : lists[n] \in V
  OBVIOUS
<1>2. next \in [Nat -> [V -> V]]
  <2>1. ASSUME NEW n \in Nat, NEW v \in V
        PROVE  (IF n \in 1 .. top THEN v \o lists[n] ELSE v) \in V
    <3>1. CASE n \in 1 .. top
      <4>1. lists[n] \in Seq(X) /\ v \in Seq(X)
        BY <1>1, <3>1
      <4>2. v \o lists[n] \in Seq(X)
        BY <4>1
      <4> QED BY <3>1, <4>2
    <3>2. CASE n \notin 1 .. top
      BY <3>2
    <3> QED BY <3>1, <3>2
  <2> HIDE DEF V, top
  <2> QED BY <2>1
<1>3. \A n \in Nat : \A v \in V : next[n][v] = IF n \in 1 .. top THEN v \o lists[n] ELSE v
  OBVIOUS
<1> HIDE DEF next, V, top
<1>4. PICK f : Iteration(f, <<>>, next, V)
  <2>1. IsIteration(<<>>, next, V)
    BY <1>1, <1>2 DEF IsIteration
  <2> QED BY <2>1, IterationHasSolution
<1>5. f \in [Nat -> V] /\ f[0] = <<>>
  BY <1>4 DEF Iteration
<1>6. ASSUME NEW n \in Nat, n < top PROVE f[n + 1] = f[n] \o lists[n + 1]
  <2>1. n + 1 \in Nat /\ n + 1 \in 1 .. top /\ f[n] \in V
    BY <1>1, <1>5, <1>6
  <2>2. f[n + 1] = next[n + 1][f[n]]
    BY <1>4 DEF Iteration
  <2> QED BY <1>3, <2>1, <2>2
<1>7. CASE top = 0
  <2>1. lists = <<>> /\ Len(lists) = 0
    BY <1>7 DEF top
  <2>2. FlattenSeq(lists) = <<>>
    BY <2>1 DEF FlattenSeq
  <2> QED BY <1>5, <1>6, <1>7, <2>2 DEF V, top
<1>8. CASE top # 0
  <2> DEFINE g == [i \in 1 .. top |-> f[i]]
  <2>1. g = [i \in 1 .. top |-> IF i = 1 THEN lists[i] ELSE g[i - 1] \o lists[i]]
    <3>1. ASSUME NEW i \in 1 .. top
          PROVE  f[i] = IF i = 1 THEN lists[i] ELSE g[i - 1] \o lists[i]
      <4>0. i \in Nat /\ i - 1 \in Nat /\ i - 1 < top /\ i - 1 + 1 = i
        BY <1>1
      <4>1. f[i] = f[i - 1] \o lists[i]
        BY <1>6, <4>0
      <4>2. CASE i = 1
        <5>1. f[i] = <<>> \o lists[1]
          <6>1. f[i - 1] = <<>>
            BY <1>5, <4>2
          <6> QED BY <4>1, <4>2, <6>1
        <5>2. lists[1] \in Seq(X)
          BY <1>1, <4>2 DEF V
        <5>3. <<>> \o lists[1] = lists[1]
          BY <5>2
        <5> QED BY <4>2, <5>1, <5>3
      <4>3. CASE i # 1
        <5>1. i - 1 \in 1 .. top
          <6>1. i # 1 /\ i \in 1 .. top /\ top \in Nat
            BY <1>1, <4>3
          <6> QED BY <6>1
        <5> QED BY <4>1, <4>3, <5>1
      <4> QED BY <4>2, <4>3
    <3> QED BY <3>1
  <2> DEFINE F == CHOOSE h : h = [i \in 1 .. top |-> IF i = 1 THEN lists[i] ELSE h[i - 1] \o lists[i]]
  <2>2. F = [i \in 1 .. top |-> IF i = 1 THEN lists[i] ELSE F[i - 1] \o lists[i]]
    <3> HIDE DEF g
    <3> QED BY <2>1
  <2>3. FlattenSeq(lists) = F[top]
    BY <1>8 DEF FlattenSeq, top
  <2> HIDE DEF F
  <2>4. ASSUME NEW i \in 1 .. top
        PROVE  F[i] = IF i = 1 THEN lists[i] ELSE F[i - 1] \o lists[i]
    BY <2>2
  <2>5. ASSUME NEW i \in 1 .. top
        PROVE  g[i] = IF i = 1 THEN lists[i] ELSE g[i - 1] \o lists[i]
    <3> HIDE DEF g
    <3> QED BY <2>1
  <2>6. \A i \in 1 .. top : g[i] = f[i]
    OBVIOUS
  <2> HIDE DEF g
  <2> DEFINE S == {i \in Nat : i \in 1 .. top => F[i] = g[i]}
  <2>7. ASSUME NEW i \in Nat, \A j \in 0 .. i - 1 : j \in S PROVE i \in S
    <3> SUFFICES ASSUME i \in 1 .. top PROVE F[i] = g[i]
      OBVIOUS
    <3>1. F[i] = IF i = 1 THEN lists[i] ELSE F[i - 1] \o lists[i]
      BY <2>4
    <3>2. g[i] = IF i = 1 THEN lists[i] ELSE g[i - 1] \o lists[i]
      BY <2>5
    <3>3. CASE i # 1
      <4>1. i - 1 \in 1 .. top /\ i - 1 \in 0 .. i - 1
        BY <1>1, <3>3
      <4>2. F[i - 1] = g[i - 1]
        BY <2>7, <4>1
      <4> QED BY <3>1, <3>2, <3>3, <4>2
    <3> QED BY <3>1, <3>2, <3>3
  <2> HIDE DEF S
  <2>8. Nat \subseteq S
    BY <2>7, StrongInduction
  <2>9. F[top] = f[top]
    <3>1. top \in 1 .. top /\ top \in S
      BY <1>1, <1>8, <2>8
    <3> QED BY <2>6, <3>1 DEF S
  <2> QED BY <1>5, <1>6, <2>3, <2>9 DEF V, top
<1> QED BY <1>7, <1>8

\* What is flattened is of the type of the lists' items.
LEMMA FlattenType ==
    ASSUME NEW X, NEW lists \in Seq(Seq(X))
    PROVE  FlattenSeq(lists) \in Seq(X)
<1>1. Len(lists) \in Nat
  OBVIOUS
<1>2. PICK flat \in [Nat -> Seq(X)] :
              /\ flat[0] = <<>>
              /\ \A n \in Nat : n < Len(lists) => flat[n + 1] = flat[n] \o lists[n + 1]
              /\ FlattenSeq(lists) = flat[Len(lists)]
  BY FlattenDef
<1> QED BY <1>1, <1>2

\* A concatenation, item by item.
LEMMA ConcatItems ==
    ASSUME NEW X, NEW s \in Seq(X), NEW t \in Seq(X)
    PROVE  Len(s \o t) = Len(s) + Len(t) /\ \A i \in 1 .. Len(s) + Len(t) :
              (s \o t)[i] = IF i <= Len(s) THEN s[i] ELSE t[i - Len(s)]
<1>1. Len(s \o t) = Len(s) + Len(t)
  OBVIOUS
<1>2. \A i \in 1 .. Len(s) + Len(t) : (s \o t)[i] = IF i <= Len(s) THEN s[i] ELSE t[i - Len(s)]
  BY SMT
<1> QED BY <1>1, <1>2

\* Lists of one item each are flattened into the list of their items.
LEMMA FlattenSingles ==
    ASSUME NEW X, NEW lists \in Seq(Seq(X)), \A i \in DOMAIN lists : Len(lists[i]) = 1
    PROVE  FlattenSeq(lists) = [i \in DOMAIN lists |-> lists[i][1]]
<1>1. Len(lists) \in Nat /\ DOMAIN lists = 1 .. Len(lists)
  OBVIOUS
<1>2. PICK flat \in [Nat -> Seq(X)] :
              /\ flat[0] = <<>>
              /\ \A n \in Nat : n < Len(lists) => flat[n + 1] = flat[n] \o lists[n + 1]
              /\ FlattenSeq(lists) = flat[Len(lists)]
  BY FlattenDef
<1> DEFINE S == {n \in Nat : n <= Len(lists) =>
                     Len(flat[n]) = n /\ \A i \in 1 .. n : flat[n][i] = lists[i][1]}
<1>3. 0 \in S
  BY <1>2
<1>4. ASSUME NEW n \in Nat, n \in S PROVE n + 1 \in S
  <2> SUFFICES ASSUME n + 1 <= Len(lists)
               PROVE  Len(flat[n + 1]) = n + 1 /\ \A i \in 1 .. n + 1 : flat[n + 1][i] = lists[i][1]
    OBVIOUS
  <2>1. n < Len(lists) /\ n + 1 \in 1 .. Len(lists)
    BY <1>1
  <2>2. Len(flat[n]) = n /\ \A i \in 1 .. n : flat[n][i] = lists[i][1]
    BY <1>4, <2>1
  <2>3. flat[n + 1] = flat[n] \o lists[n + 1]
    BY <1>2, <2>1
  <2> DEFINE s == flat[n]
             t == lists[n + 1]
  <2>4. s \in Seq(X) /\ t \in Seq(X) /\ Len(s) = n /\ Len(t) = 1
    <3>1. s \in Seq(X)
      OBVIOUS
    <3>2. t \in Seq(X)
      BY <2>1
    <3>3. Len(s) = n
      BY <2>2
    <3>4. Len(t) = 1
      BY <1>1, <2>1
    <3> QED BY <3>1, <3>2, <3>3, <3>4
  <2> HIDE DEF s, t
  <2> DEFINE c == s \o t
  <2>5. Len(c) = n + 1 /\ \A i \in 1 .. n + 1 : c[i] = IF i <= n THEN s[i] ELSE t[i - n]
    <3>1. Len(s \o t) = Len(s) + Len(t) /\ \A i \in 1 .. Len(s) + Len(t) :
             (s \o t)[i] = IF i <= Len(s) THEN s[i] ELSE t[i - Len(s)]
      BY <2>4, ConcatItems
    <3> QED BY <2>4, <3>1
  <2> HIDE DEF c
  <2>6. flat[n + 1] = c /\ (\A i \in 1 .. n : s[i] = lists[i][1]) /\ t[1] = lists[n + 1][1]
    BY <2>2, <2>3 DEF c, s, t
  <2>7. ASSUME NEW i \in 1 .. n + 1 PROVE c[i] = lists[i][1]
    <3>1. c[i] = IF i <= n THEN s[i] ELSE t[i - n]
      BY <2>5
    <3>2. CASE i <= n
      BY <2>6, <3>1, <3>2
    <3>3. CASE ~(i <= n)
      <4>1. i = n + 1 /\ i - n = 1
        BY <3>3
      <4> QED BY <2>6, <3>1, <3>3, <4>1
    <3> QED BY <3>2, <3>3
  <2> QED BY <2>5, <2>6, <2>7
<1> HIDE DEF S
<1>5. Nat \subseteq S
  BY <1>3, <1>4, PlainInduction
<1>6. Len(lists) \in S
  BY <1>1, <1>5
<1>7. /\ Len(FlattenSeq(lists)) = Len(lists)
      /\ \A i \in 1 .. Len(lists) : FlattenSeq(lists)[i] = lists[i][1]
  <2>1. Len(flat[Len(lists)]) = Len(lists)
        /\ \A i \in 1 .. Len(lists) : flat[Len(lists)][i] = lists[i][1]
    BY <1>1, <1>6 DEF S
  <2> QED BY <1>2, <2>1
<1>8. FlattenSeq(lists) \in Seq(X)
  BY FlattenType
<1> QED BY <1>1, <1>7, <1>8

\* Elements of a concatenation are those of its two parts.
LEMMA ElementsOfConcat ==
    ASSUME NEW X, NEW s \in Seq(X), NEW t \in Seq(X)
    PROVE  Elements(s \o t) = Elements(s) \union Elements(t)
<1>1. PICK c : c = s \o t
  OBVIOUS
<1>2. PICK m \in Nat, n \in Nat : m = Len(s) /\ n = Len(t)
  OBVIOUS
<1>3. /\ DOMAIN s = 1 .. m /\ DOMAIN t = 1 .. n
      /\ c \in Seq(X) /\ Len(c) = m + n
      /\ \A i \in 1 .. m + n : c[i] = IF i <= m THEN s[i] ELSE t[i - m]
  BY <1>1, <1>2, ConcatItems
<1>4. DOMAIN c = 1 .. m + n
  BY <1>3
<1>5. /\ Elements(s) = {s[i] : i \in 1 .. m} /\ Elements(t) = {t[i] : i \in 1 .. n}
      /\ Elements(c) = {c[i] : i \in 1 .. m + n}
  BY <1>3, <1>4 DEF Elements
<1>6. ASSUME NEW i \in 1 .. m PROVE i \in 1 .. m + n /\ c[i] = s[i]
  BY <1>3
<1>7. ASSUME NEW i \in 1 .. n PROVE m + i \in 1 .. m + n /\ c[m + i] = t[i]
  <2>1. m + i \in 1 .. m + n /\ ~(m + i <= m) /\ m + i - m = i
    OBVIOUS
  <2> QED BY <1>3, <2>1
<1>8. ASSUME NEW i \in 1 .. m + n PROVE c[i] \in Elements(s) \union Elements(t)
  <2>1. CASE i <= m
    <3>1. i \in 1 .. m /\ c[i] = s[i]
      BY <1>3, <2>1
    <3> QED BY <1>5, <3>1
  <2>2. CASE ~(i <= m)
    <3>1. i - m \in 1 .. n /\ c[i] = t[i - m]
      BY <1>3, <2>2
    <3> QED BY <1>5, <3>1
  <2> QED BY <2>1, <2>2
<1>9. Elements(s) \subseteq Elements(c)
  BY <1>5, <1>6
<1>10. Elements(t) \subseteq Elements(c)
  BY <1>5, <1>7
<1>11. Elements(c) \subseteq Elements(s) \union Elements(t)
  BY <1>5, <1>8
<1> QED BY <1>1, <1>9, <1>10, <1>11

\* Flattening keeps all elements of the lists and adds none.
LEMMA FlattenElements ==
    ASSUME NEW X, NEW lists \in Seq(Seq(X))
    PROVE  Elements(FlattenSeq(lists)) = UNION {Elements(lists[i]) : i \in DOMAIN lists}
<1>1. Len(lists) \in Nat /\ DOMAIN lists = 1 .. Len(lists)
  OBVIOUS
<1>2. PICK flat \in [Nat -> Seq(X)] :
              /\ flat[0] = <<>>
              /\ \A n \in Nat : n < Len(lists) => flat[n + 1] = flat[n] \o lists[n + 1]
              /\ FlattenSeq(lists) = flat[Len(lists)]
  BY FlattenDef
<1> DEFINE all == [n \in Nat |-> UNION {Elements(lists[i]) : i \in 1 .. n}]
           S == {n \in Nat : n <= Len(lists) => Elements(flat[n]) = all[n]}
<1>3. all[0] = {} /\ all[Len(lists)] = UNION {Elements(lists[i]) : i \in 1 .. Len(lists)}
  BY <1>1
<1>4. ASSUME NEW n \in Nat PROVE all[n + 1] = all[n] \union Elements(lists[n + 1])
  <2>1. /\ \A i \in 1 .. n + 1 : i \in 1 .. n \/ i = n + 1
        /\ \A i \in 1 .. n : i \in 1 .. n + 1
        /\ n + 1 \in 1 .. n + 1
    <3> HIDE DEF all
    <3> QED OBVIOUS
  <2>2. /\ all[n] = UNION {Elements(lists[i]) : i \in 1 .. n}
        /\ all[n + 1] = UNION {Elements(lists[i]) : i \in 1 .. n + 1}
    OBVIOUS
  <2> HIDE DEF all
  <2>3. ASSUME NEW e PROVE e \in all[n + 1] <=> e \in all[n] \/ e \in Elements(lists[n + 1])
    <3>1. e \in all[n + 1] <=> \E i \in 1 .. n + 1 : e \in Elements(lists[i])
      BY <2>2
    <3>2. e \in all[n] <=> \E i \in 1 .. n : e \in Elements(lists[i])
      BY <2>2
    <3> QED BY <2>1, <3>1, <3>2
  <2> QED BY <2>3
<1> HIDE DEF all
<1>5. 0 \in S
  BY <1>2, <1>3 DEF Elements
<1>6. ASSUME NEW n \in Nat, n \in S PROVE n + 1 \in S
  <2> SUFFICES ASSUME n + 1 <= Len(lists) PROVE Elements(flat[n + 1]) = all[n + 1]
    OBVIOUS
  <2>1. n < Len(lists) /\ n <= Len(lists) /\ n + 1 \in 1 .. Len(lists)
    <3>1. ASSUME NEW m \in Nat, n + 1 <= m PROVE n < m /\ n <= m /\ n + 1 \in 1 .. m
      BY <3>1
    <3> QED BY <1>1, <3>1
  <2>2. Elements(flat[n]) = all[n]
    BY <1>6, <2>1
  <2>3. flat[n + 1] = flat[n] \o lists[n + 1]
    BY <1>2, <2>1
  <2>4. flat[n] \in Seq(X) /\ lists[n + 1] \in Seq(X)
    BY <2>1
  <2>5. Elements(flat[n] \o lists[n + 1]) = Elements(flat[n]) \union Elements(lists[n + 1])
    BY <2>4, ElementsOfConcat
  <2> QED BY <1>4, <2>2, <2>3, <2>5
<1> HIDE DEF S
<1>7. Nat \subseteq S
  BY <1>5, <1>6, PlainInduction
<1>8. Elements(flat[Len(lists)]) = all[Len(lists)]
  BY <1>1, <1>7 DEF S
<1> QED BY <1>1, <1>2, <1>3, <1>8

\* Without removes exactly the elements that are in the set.
LEMMA WithoutElements ==
    ASSUME NEW X, NEW list \in Seq(X), NEW set
    PROVE  Without(list, set) \in Seq(X) /\ Elements(Without(list, set)) = Elements(list) \ set
BY KeptElements DEF Without

\* What crosses the headers as a list comes back as a list of the same type, of
\* what was written between commas, and items written without commas and not blank come back as they were.
LEMMA SplitItems ==
    ASSUME NEW X, NEW items \in Seq(Seq(X))
    PROVE  /\ Split(items) \in Seq(X)
           /\ Elements(Split(items)) = Fields(items)
           /\ CleanItems(items) => Split(items) = [i \in DOMAIN items |-> items[i][1]]
<1>1. FlattenSeq(items) \in Seq(X)
  BY FlattenType
<1>2. Split(items) \in Seq(X) /\ Elements(Split(items)) = Fields(items)
  <2>1. /\ Without(FlattenSeq(items), {Blank}) \in Seq(X)
        /\ Elements(Without(FlattenSeq(items), {Blank}))
             = Elements(FlattenSeq(items)) \ {Blank}
    BY <1>1, WithoutElements
  <2>2. Elements(FlattenSeq(items)) \ {Blank} = Fields(items)
    BY FlattenElements DEF Fields
  <2> QED BY <2>1, <2>2 DEF Split
<1>3. ASSUME CleanItems(items) PROVE Split(items) = [i \in DOMAIN items |-> items[i][1]]
  <2> DEFINE wishes == [i \in DOMAIN items |-> items[i][1]]
  <2>1. FlattenSeq(items) = wishes
    BY <1>3, FlattenSingles DEF CleanItems
  <2>2. Blank \notin Elements(wishes)
    BY <1>3 DEF CleanItems, Elements
  <2> HIDE DEF wishes
  <2>3. wishes \in Seq(X)
    BY <1>1, <2>1
  <2>4. Kept(wishes, Elements(wishes) \ {Blank}) = wishes
    BY <2>2, <2>3, KeptAll
  <2>5. Split(items) = wishes
    BY <2>1, <2>4 DEF Split, Without
  <2> QED BY <2>5 DEF wishes
<1> QED BY <1>2, <1>3

-----------------------------------------------------------------------------
(* Versions. *)

\* Versions are totally ordered.
LEMMA BelowIsTotal ==
    \A v, w \in Triple : Below(v, w) \/ Below(w, v) \/ v = w
BY DEF Triple, Below

\* Of finitely many versions, numbered f, one is not below any other.
LEMMA HighestExists ==
    ASSUME NEW S, IsFiniteSet(S), S # {}, NEW f, \A i \in S : f[i] \in Triple
    PROVE  \E i \in S : \A j \in S : ~Below(f[i], f[j])
<1> DEFINE R == {p \in S \X S : Below(f[p[1]], f[p[2]])}
<1>1. \A x, y \in S : <<x, y>> \in R <=> Below(f[x], f[y])
  OBVIOUS
<1> HIDE DEF R
<1>2. \A x, y \in S : <<x, y>> \in R => <<y, x>> \notin R
  BY <1>1 DEF Below, Triple
<1>3. \A x, y, z \in S : <<x, y>> \in R /\ <<y, z>> \in R => <<x, z>> \in R
  <2>1. \A u, v, w \in Triple : Below(u, v) /\ Below(v, w) => Below(u, w)
    BY DEF Below, Triple
  <2> QED BY <1>1, <2>1
<1>4. \E x \in S : \A y \in S : <<x, y>> \notin R
  BY <1>2, <1>3, MaximalExists
<1> QED BY <1>1, <1>4

\* A version written the usual way is what its numbers say.
LEMMA PlainIsNumbers ==
    ASSUME NEW s, Plain(s), NEW t, Plain(t), Numbers(s) = Numbers(t)
    PROVE  s = t
<1>1. s[1].number = t[1].number /\ s[2].number = t[2].number /\ s[3].number = t[3].number
  BY DEF Numbers
<1>2. \A i \in 1 .. 3 : s[i] = t[i]
  <2>1. \A i \in 1 .. 3 : s[i].number = t[i].number
    BY <1>1
  <2>2. \A i \in 1 .. 3 : s[i] \in [number : Nat, written : {"plain"}]
                            /\ t[i] \in [number : Nat, written : {"plain"}]
    BY DEF Plain
  <2> QED BY <2>1, <2>2
<1> QED BY <1>2 DEF Plain

LEMMA PlainNumbers == \A s : Plain(s) => Numbers(s) \in Triple
BY DEF Plain, Numbers, Triple

-----------------------------------------------------------------------------

\* The common versions by position, and what they are the positions of.
LEMMA CommonPositions ==
    ASSUME NEW d \in Deployments, NEW offered
    PROVE  /\ Len(d.registry) \in Nat
           /\ CommonAt(offered, d.registry) \in SUBSET (1 .. Len(d.registry))
           /\ IsFiniteSet(CommonAt(offered, d.registry))
           /\ {d.registry[i].spelling : i \in CommonAt(offered, d.registry)}
                = Elements(offered) \intersect Supported(d)
<1>1. d.registry \in Seq(Entry)
  BY DeploymentsAssumption
<1>2. Len(d.registry) \in Nat /\ DOMAIN d.registry = 1 .. Len(d.registry)
  BY <1>1
<1>3. CommonAt(offered, d.registry) \in SUBSET (1 .. Len(d.registry))
  BY <1>2 DEF CommonAt, SupportedAt
<1>4. IsFiniteSet(1 .. Len(d.registry))
  BY <1>2, FS_Interval
<1>5. IsFiniteSet(CommonAt(offered, d.registry))
  BY <1>3, <1>4, FS_Subset
<1> QED BY <1>2, <1>3, <1>5 DEF CommonAt, Supported

\* What the negotiation on spellings selects is what the negotiation on numbers
\* does, when all versions are written the usual way.
LEMMA SelectionsAgree ==
    ASSUME NEW d \in Deployments, NEW offered,
           \A s \in Elements(offered) \union Supported(d) : Plain(s)
    PROVE  LET agreed == HighestCommon(NumbersOf(Elements(offered)), NumbersOf(Supported(d)))
           IN IF CommonAt(offered, d.registry) = {} THEN agreed = NoVersion
              ELSE Numbers(SelectedVersion(offered, d.registry)) = agreed
<1> DEFINE common == CommonAt(offered, d.registry)
           numbers(i) == Numbers(d.registry[i].spelling)
           overlap == NumbersOf(Elements(offered)) \intersect NumbersOf(Supported(d))
           agreed == HighestCommon(NumbersOf(Elements(offered)), NumbersOf(Supported(d)))
<1>1. overlap = {numbers(i) : i \in common}
  <2>1. overlap = {Numbers(s) : s \in Elements(offered) \intersect Supported(d)}
    BY PlainIsNumbers DEF NumbersOf
  <2>2. {d.registry[i].spelling : i \in common} = Elements(offered) \intersect Supported(d)
    BY CommonPositions
  <2> QED BY <2>1, <2>2
<1>2. overlap \in SUBSET Triple
  BY PlainNumbers DEF NumbersOf
<1>3. CASE common = {}
  BY <1>1, <1>3 DEF HighestCommon
<1>4. CASE common # {}
  <2>1. PICK highest \in common : \A j \in common : ~Below(numbers(highest), numbers(j))
    <3> DEFINE f == [i \in common |-> numbers(i)]
    <3>1. IsFiniteSet(common)
      BY CommonPositions
    <3>2. \A i \in common : f[i] = numbers(i) /\ f[i] \in Triple
      BY <1>1, <1>2
    <3> HIDE DEF f, common
    <3>3. \E i \in common : \A j \in common : ~Below(f[i], f[j])
      BY <1>4, <3>1, <3>2, HighestExists
    <3> QED BY <3>2, <3>3
  <2>2. PICK v \in overlap : \A w \in overlap : ~Below(v, w)
    BY <1>1, <2>1
  <2> DEFINE largest == {i \in common : \A j \in common : ~Below(numbers(i), numbers(j))}
             first == CHOOSE i \in largest : \A j \in largest : i <= j
  <2>3. largest # {}
    BY <2>1
  <2>4. first \in largest
    <3>1. Len(d.registry) \in Nat /\ largest \in SUBSET (1 .. Len(d.registry))
      BY CommonPositions
    <3> HIDE DEF largest
    <3>2. \E i \in largest : \A j \in largest : i <= j
      BY <2>3, <3>1, FirstExists
    <3> QED BY <3>2
  <2>5. numbers(first) \in overlap /\ \A w \in overlap : ~Below(numbers(first), w)
    BY <1>1, <2>4
  <2>6. agreed \in overlap /\ \A w \in overlap : ~Below(agreed, w)
    BY <2>2 DEF HighestCommon
  <2>7. numbers(first) = agreed
    BY <1>2, <2>5, <2>6, BelowIsTotal
  <2> QED BY <1>4, <2>7 DEF SelectedVersion
<1> QED BY <1>3, <1>4

-----------------------------------------------------------------------------

\* Only Answer makes a reply out of none, and what it makes.
LEMMA AnswerMakesReplies ==
    ASSUME [Next]_vars, reply = NoReply, reply' # NoReply
    PROVE  Answer
BY DEF Next, vars, Redeploy, Fetch, SendOffer, LoseHeader

\* An offer is refused exactly for lack of a common version.
LEMMA RespondOutcomes ==
    ASSUME NEW o, NEW d
    PROVE  LET common == CommonAt(Split(o.versions), d.registry)
           IN /\ Respond(o, d).outcome = IF common = {} THEN "refused" ELSE "accepted"
              /\ Respond(o, d).version = SelectedVersion(Split(o.versions), d.registry)
BY DEF Respond, SelectedVersion

\* The three ways to answer, told apart by the outcome.
LEMMA Outcomes ==
    ASSUME Answer
    PROVE  \/ headers # Required /\ reply'.outcome = "no header"
           \/ /\ headers = Required /\ reply'.outcome = "invalid version"
              /\ NegotiationRaises(Split(offer.versions), deployment.registry)
           \/ /\ headers = Required /\ reply'.outcome \in {"accepted", "refused"}
              /\ reply' = Respond(offer, deployment)
              /\ ~NegotiationRaises(Split(offer.versions), deployment.registry)
<1>1. CASE headers # Required
  BY <1>1 DEF Answer
<1>2. CASE headers = Required /\ NegotiationRaises(Split(offer.versions), deployment.registry)
  BY <1>2 DEF Answer
<1>3. CASE headers = Required /\ ~NegotiationRaises(Split(offer.versions), deployment.registry)
  <2>1. reply' = Respond(offer, deployment)
    BY <1>3 DEF Answer
  <2> QED BY <1>3, <2>1, RespondOutcomes
<1> QED BY <1>1, <1>2, <1>3

LEMMA TypeStep == TypeOK /\ [Next]_vars => TypeOK'
<1> SUFFICES ASSUME TypeOK, [Next]_vars PROVE TypeOK'
  OBVIOUS
<1> USE DEF TypeOK
<1>1. ASSUME NEW d \in Deployments, Redeploy(d) PROVE TypeOK'
  BY <1>1 DEF Redeploy
<1>2. CASE Fetch
  BY <1>2 DEF Fetch
<1>3. ASSUME NEW o \in Offers, SendOffer(o) PROVE TypeOK'
  BY <1>3 DEF SendOffer
<1>4. ASSUME NEW h \in Required, LoseHeader(h) PROVE TypeOK'
  BY <1>4 DEF LoseHeader
<1>5. CASE Answer
  <2>1. /\ reply'.outcome \in {"accepted", "refused", "no header", "invalid version"}
        /\ reply'.outcome = "no header" <=> headers # Required
    BY <1>5, Outcomes, RespondOutcomes
  <2> QED BY <1>5, <2>1 DEF Answer
<1>6. CASE UNCHANGED vars
  BY <1>6 DEF vars
<1> QED BY <1>1, <1>2, <1>3, <1>4, <1>5, <1>6 DEF Next

\* The handshake's variables keep their types, for all deployments and offers.
THEOREM TypeCorrect == Spec => []TypeOK
<1>1. Init => TypeOK
  BY DEF Init, TypeOK
<1> QED BY <1>1, TypeStep, PTL DEF Spec

\* No offer makes the negotiation raise by itself.
THEOREM RaisesCorrect == Spec => OnlyOwnVersionsRaise
<1>1. TypeOK /\ [Next]_vars =>
        [reply = NoReply /\ reply' # NoReply /\ reply'.outcome = "invalid version" =>
           \E v \in Supported(deployment) : ~HasTuple(v)]_vars
  <2> SUFFICES ASSUME [Next]_vars, reply = NoReply, reply' # NoReply,
                      reply'.outcome = "invalid version"
               PROVE  \E v \in Supported(deployment) : ~HasTuple(v)
    OBVIOUS
  <2>1. Answer
    BY AnswerMakesReplies
  <2>2. NegotiationRaises(Split(offer.versions), deployment.registry)
    BY <2>1, Outcomes, RespondOutcomes
  <2> QED BY <2>2 DEF NegotiationRaises, CommonAt, Supported
<1> QED BY <1>1, TypeCorrect, PTL DEF Spec, OnlyOwnVersionsRaise

\* The negotiation on text answers what the negotiation on numbers returns.
THEOREM NegotiationCorrect == Spec => NegotiationsAgree
<1> DEFINE AllPlain == \A s \in Offered \union Supported(deployment) : Plain(s)
           agreed == HighestCommon(NumbersOf(Offered), NumbersOf(Supported(deployment)))
<1>1. TypeOK /\ [Next]_vars =>
        [Negotiates /\ AllPlain =>
           IF reply'.outcome = "refused" THEN agreed = NoVersion
           ELSE Numbers(reply'.version) = agreed]_vars
  <2> SUFFICES ASSUME TypeOK, [Next]_vars, AllPlain, Negotiates
               PROVE  IF reply'.outcome = "refused" THEN agreed = NoVersion
                      ELSE Numbers(reply'.version) = agreed
    OBVIOUS
  <2>1. Answer
    BY AnswerMakesReplies DEF Negotiates, Negotiated
  <2>2. reply' = Respond(offer, deployment)
    BY <2>1, Outcomes DEF Negotiates, Negotiated
  <2>3. deployment \in Deployments
    BY DEF TypeOK
  <2> QED BY <2>2, <2>3, RespondOutcomes, SelectionsAgree DEF Offered
<1> QED BY <1>1, TypeCorrect, PTL DEF Spec, NegotiationsAgree

-----------------------------------------------------------------------------
(* Capabilities. *)

\* What negotiate answers to a list of wishes, as it came through the headers.
LEMMA RespondToWishes ==
    ASSUME NEW d \in Deployments, NEW o \in Offers
    PROVE  LET asked == Split(o.capabilities)
               answer == Respond(o, d)
               granted == IF answer.outcome = "accepted"
                          THEN Elements(asked) \intersect d.capabilities ELSE {}
           IN /\ asked \in Seq(Capabilities \union {Blank})
              /\ Elements(answer.accepted) = granted
              /\ Elements(answer.rejected) = Elements(asked) \ granted
              /\ answer.accepted = Kept(asked, granted)
              /\ answer.rejected = Without(asked, granted)
<1> DEFINE X == Capabilities \union {Blank}
           asked == Split(o.capabilities)
           common == CommonAt(Split(o.versions), d.registry)
           answer == Respond(o, d)
           granted == IF answer.outcome = "accepted"
                      THEN Elements(asked) \intersect d.capabilities ELSE {}
<1>1. asked \in Seq(X)
  BY SplitItems, OffersAssumption
<1>2. CASE common = {}
  <2>1. answer.outcome = "refused" /\ answer.accepted = <<>> /\ answer.rejected = asked
    BY <1>2 DEF Respond
  <2>2. granted = {}
    BY <2>1
  <2>3. Kept(asked, {}) = <<>>
    <3>1. Elements(asked) \intersect {} = {}
      OBVIOUS
    <3> QED BY <1>1, <3>1, KeptNone
  <2>4. Without(asked, {}) = asked
    <3>1. Kept(asked, Elements(asked) \ {}) = asked
      BY <1>1, KeptAll
    <3> QED BY <3>1 DEF Without
  <2>5. Elements(<<>>) = {}
    BY DEF Elements
  <2> HIDE DEF answer, granted, asked
  <2> QED BY <1>1, <2>1, <2>2, <2>3, <2>4, <2>5 DEF granted, answer, asked
<1>3. CASE common # {}
  <2>1. /\ answer.outcome = "accepted"
        /\ answer.accepted = Kept(asked, d.capabilities)
        /\ answer.rejected = Without(asked, d.capabilities)
    BY <1>3 DEF Respond
  <2>2. granted = Elements(asked) \intersect d.capabilities
    BY <2>1
  <2> HIDE DEF answer, granted, asked
  <2>3. /\ Elements(Kept(asked, d.capabilities)) = granted
        /\ Elements(Without(asked, d.capabilities)) = Elements(asked) \ d.capabilities
    BY <1>1, <2>2, KeptElements, WithoutElements
  <2>4. Elements(asked) \ d.capabilities = Elements(asked) \ granted
    BY <2>2
  <2>5. Kept(asked, d.capabilities) = Kept(asked, granted)
    <3>1. Elements(asked) \intersect d.capabilities = Elements(asked) \intersect granted
      BY <2>2
    <3> QED BY <1>1, <3>1, KeptAgrees
  <2>6. Without(asked, d.capabilities) = Without(asked, granted)
    BY <2>4 DEF Without
  <2> QED BY <1>1, <2>1, <2>3, <2>4, <2>5, <2>6 DEF granted, answer, asked
<1> QED BY <1>2, <1>3

\* Each capability that reaches the provider is granted or refused as it
\* supports it, and wishes without commas once each and in their order.
THEOREM WishesCorrect == Spec => EveryWishAnswered
<1> DEFINE fields == Fields(offer.capabilities)
           granted == IF reply'.outcome = "accepted"
                      THEN fields \intersect deployment.capabilities ELSE {}
           wishes == [i \in DOMAIN offer.capabilities |-> offer.capabilities[i][1]]
           Granting == /\ Elements(reply'.accepted) = granted
                       /\ Elements(reply'.rejected) = fields \ granted
                       /\ CleanItems(offer.capabilities) =>
                            /\ reply'.accepted = Kept(wishes, granted)
                            /\ reply'.rejected = Without(wishes, granted)
<1>1. TypeOK /\ [Next]_vars => [Negotiates => Granting]_vars
  <2> SUFFICES ASSUME TypeOK, [Next]_vars, Negotiates PROVE Granting
    OBVIOUS
  <2>1. Answer
    BY AnswerMakesReplies DEF Negotiates, Negotiated
  <2>2. reply' = Respond(offer, deployment)
    BY <2>1, Outcomes DEF Negotiates, Negotiated
  <2>3. deployment \in Deployments /\ offer \in Offers
    BY <2>1 DEF TypeOK, Answer
  <2>4. /\ Elements(Split(offer.capabilities)) = fields
        /\ CleanItems(offer.capabilities) => Split(offer.capabilities) = wishes
    BY <2>3, SplitItems, OffersAssumption
  <2>5. /\ Elements(reply'.accepted) = granted
        /\ Elements(reply'.rejected) = fields \ granted
        /\ reply'.accepted = Kept(Split(offer.capabilities), granted)
        /\ reply'.rejected = Without(Split(offer.capabilities), granted)
    BY <2>2, <2>3, <2>4, RespondToWishes
  <2> QED BY <2>4, <2>5
<1> QED BY <1>1, TypeCorrect, PTL DEF Spec, EveryWishAnswered

\* While the client holds a document, what the provider is now is among what it
\* has been since the document was fetched.
SinceCurrent == document # NoDocument => deployment \in since

\* Fetch starts the history anew with the deployment that runs, Redeploy adds to it.
LEMMA SinceStep == SinceCurrent /\ [Next]_vars => SinceCurrent'
<1> SUFFICES ASSUME SinceCurrent, [Next]_vars, document' # NoDocument
             PROVE  deployment' \in since'
  BY DEF SinceCurrent
<1>1. ASSUME NEW d \in Deployments, Redeploy(d) PROVE deployment' \in since'
  BY <1>1 DEF Redeploy
<1>2. CASE Fetch
  BY <1>2 DEF Fetch
<1>3. CASE UNCHANGED <<deployment, document, since>>
  BY <1>3 DEF SinceCurrent
<1>4. \/ \E d \in Deployments : Redeploy(d)
      \/ Fetch
      \/ UNCHANGED <<deployment, document, since>>
  BY DEF Next, vars, SendOffer, LoseHeader, Answer
<1> QED BY <1>1, <1>2, <1>3, <1>4

\* What the document promised is denied only if it was withdrawn since.
THEOREM DenialsCorrect == Spec => DeniedOnlyIfWithdrawn
<1> DEFINE Denial ==
              /\ reply'.outcome = "refused" =>
                   \A v \in Supported(document) \intersect Offered :
                      \E d \in since : v \notin Supported(d)
              /\ reply'.outcome = "accepted" =>
                   \A c \in Elements(reply'.rejected) \intersect document.capabilities :
                      \E d \in since : c \notin d.capabilities
<1>1. TypeOK /\ SinceCurrent /\ [Next]_vars =>
        [Negotiates /\ document # NoDocument => Denial]_vars
  <2> SUFFICES ASSUME TypeOK, SinceCurrent, [Next]_vars, Negotiates, document # NoDocument
               PROVE  Denial
    OBVIOUS
  <2>1. Answer
    BY AnswerMakesReplies DEF Negotiates, Negotiated
  <2>2. reply' = Respond(offer, deployment) /\ deployment \in since
    BY <2>1, Outcomes DEF Negotiates, Negotiated, SinceCurrent
  <2>3. deployment \in Deployments /\ offer \in Offers
    BY <2>1 DEF TypeOK, Answer
  <2> DEFINE common == CommonAt(Split(offer.versions), deployment.registry)
  <2>4. ASSUME reply'.outcome = "refused", NEW v \in Supported(document) \intersect Offered
        PROVE  v \notin Supported(deployment)
    <3>1. common = {}
      BY <2>2, <2>4, RespondOutcomes
    <3> QED BY <2>4, <3>1 DEF CommonAt, Supported, Offered
  <2>5. ASSUME reply'.outcome = "accepted", NEW c \in Elements(reply'.rejected)
        PROVE  c \notin deployment.capabilities
    <3>1. common # {}
      BY <2>2, <2>5, RespondOutcomes
    <3>2. reply'.rejected = Without(Split(offer.capabilities), deployment.capabilities)
      BY <2>2, <3>1 DEF Respond
    <3>3. Split(offer.capabilities) \in Seq(Capabilities \union {Blank})
      BY <2>3, SplitItems, OffersAssumption
    <3> QED BY <2>5, <3>2, <3>3, WithoutElements
  <2> QED BY <2>2, <2>4, <2>5
<1>2. Init => SinceCurrent
  BY DEF Init, SinceCurrent
<1> QED BY <1>1, <1>2, SinceStep, TypeCorrect, PTL DEF Spec, DeniedOnlyIfWithdrawn

=============================================================================
