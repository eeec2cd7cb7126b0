---------------------------- MODULE OrdersProofs ----------------------------
(***************************************************************************)
(* What the proofs of the components need of sequences and sums: the order *)
(* of a loop, what it keeps of a sequence, a sequence put together from    *)
(* others, and the sum of a function over a set.                           *)
(***************************************************************************)
EXTENDS Orders, Integers, SequencesExt, FiniteSetTheorems, WellFoundedInduction, TLAPS

-----------------------------------------------------------------------------
LEMMA SizeOrder ==
  ASSUME NEW C \in SUBSET Nat, C # {}
  PROVE  \E m \in C : \A n \in C : m <= n
<1>1. PICK m \in C : \A n \in C : ~(<<n, m>> \in OpToRel(<, Nat))
  BY NatLessThanWellFounded, WFMin
<1>2. \A n \in C : ~ (n < m)
  BY <1>1, Zenon DEF OpToRel
<1> QED BY <1>2

(* Of two elements the smaller one has fewer below it.                      *)
LEMMA RankGrows ==
  ASSUME NEW S \in SUBSET Nat, IsFiniteSet(S), NEW x \in S, NEW y \in S, x < y
  PROVE  Cardinality(Below(S, x)) < Cardinality(Below(S, y))
<1>1. Below(S, x) \cup {x} \subseteq Below(S, y) /\ x \notin Below(S, x)
  <2>1. ASSUME NEW z \in S, z < x PROVE z < y
    BY <2>1
  <2>2. ~(x < x)
    OBVIOUS
  <2> QED BY <2>1, <2>2 DEF Below
<1>2. IsFiniteSet(Below(S, x)) /\ IsFiniteSet(Below(S, y))
  BY FS_Subset DEF Below
<1>3. Cardinality(Below(S, x) \cup {x}) = Cardinality(Below(S, x)) + 1
  BY <1>1, <1>2, FS_AddElement
<1>4. Cardinality(Below(S, x) \cup {x}) <= Cardinality(Below(S, y))
  BY <1>1, <1>2, FS_Subset
<1> QED BY <1>2, <1>3, <1>4, FS_CardinalityType

LEMMA RankBounds ==
  ASSUME NEW S \in SUBSET Nat, IsFiniteSet(S), NEW x \in S
  PROVE  Cardinality(Below(S, x)) + 1 \in 1 .. Cardinality(S)
<1>1. Below(S, x) \subseteq S \ {x}
  BY DEF Below
<1>2. IsFiniteSet(S \ {x}) /\ Cardinality(S \ {x}) = Cardinality(S) - 1
  BY FS_RemoveElement
<1>3. IsFiniteSet(Below(S, x)) /\ Cardinality(Below(S, x)) <= Cardinality(S \ {x})
  BY <1>1, <1>2, FS_Subset
<1> QED BY <1>2, <1>3, FS_CardinalityType

LEMMA RankReached ==
  ASSUME NEW S \in SUBSET Nat, IsFiniteSet(S), NEW k \in 1 .. Cardinality(S)
  PROVE  \E x \in S : Cardinality(Below(S, x)) = k - 1
<1> DEFINE T == 1 .. Cardinality(S)
           rank == [x \in S |-> Cardinality(Below(S, x)) + 1]
<1>1. Cardinality(S) \in Nat
  BY FS_CardinalityType
<1>2. IsFiniteSet(T) /\ Cardinality(T) = Cardinality(S)
  BY <1>1, FS_Interval
<1>3. \A x \in S : Cardinality(Below(S, x)) + 1 \in T
  BY RankBounds
<1>4. \A x \in S : Cardinality(Below(S, x)) \in Nat
  <2>1. \A x \in S : IsFiniteSet(Below(S, x))
    BY FS_Subset DEF Below
  <2> QED BY <2>1, FS_CardinalityType
<1>5. ASSUME NEW x \in S, NEW y \in S, Cardinality(Below(S, x)) = Cardinality(Below(S, y))
      PROVE  x = y
  <2>1. ~(x < y) /\ ~(y < x)
    BY <1>4, <1>5, RankGrows
  <2> QED BY <2>1
<1>6. rank \in Injection(S, T)
  <2>1. rank \in [S -> T]
    BY <1>3
  <2>2. \A x, y \in S : rank[x] = rank[y] => x = y
    BY <1>4, <1>5
  <2> QED BY <2>1, <2>2 DEF Injection, IsInjective
<1>7. rank \in Surjection(S, T)
  BY <1>2, <1>6, FS_Injection
<1>8. PICK x \in S : rank[x] = k
  BY <1>7 DEF Surjection
<1> QED BY <1>4, <1>8

(* The loop meets every element once, from the least up.                    *)
LEMMA OrderedFacts ==
  ASSUME NEW S \in SUBSET Nat, IsFiniteSet(S)
  PROVE  /\ Cardinality(S) \in Nat
         /\ Ordered(S) \in Seq(S)
         /\ Len(Ordered(S)) = Cardinality(S)
         /\ \A x \in S : \E k \in 1 .. Cardinality(S) : Ordered(S)[k] = x
         /\ \A k \in 1 .. Cardinality(S) : Ordered(S)[k] \in S
         /\ \A j, k \in 1 .. Cardinality(S) : j < k => Ordered(S)[j] < Ordered(S)[k]
<1> DEFINE n == Cardinality(S)
           Rank(x) == Cardinality(Below(S, x))
<1>1. n \in Nat
  BY FS_CardinalityType
<1>2. ASSUME NEW k \in 1 .. n
      PROVE  Ordered(S)[k] \in S /\ Rank(Ordered(S)[k]) = k - 1
  <2>1. Ordered(S)[k] = CHOOSE x \in S : Rank(x) = k - 1
    BY DEF Ordered
  <2>2. \E x \in S : Rank(x) = k - 1
    BY RankReached
  <2> QED BY <2>1, <2>2
<1>3. Ordered(S) \in [1 .. n -> S]
  BY <1>2 DEF Ordered
<1>4. ASSUME NEW x \in S, NEW y \in S, Rank(x) = Rank(y) PROVE x = y
  <2>1. Rank(x) \in Nat /\ Rank(y) \in Nat
    <3>1. IsFiniteSet(Below(S, x)) /\ IsFiniteSet(Below(S, y))
      BY FS_Subset DEF Below
    <3> QED BY <3>1, FS_CardinalityType
  <2>2. ~(x < y) /\ ~(y < x)
    BY <1>4, <2>1, RankGrows
  <2> QED BY <2>2
<1>5. ASSUME NEW x \in S PROVE \E k \in 1 .. n : Ordered(S)[k] = x
  <2> DEFINE k == Rank(x) + 1
  <2>1. k \in 1 .. n
    BY RankBounds
  <2>2. Rank(x) \in Nat
    <3>1. IsFiniteSet(Below(S, x))
      BY FS_Subset DEF Below
    <3> QED BY <3>1, FS_CardinalityType
  <2>3. Ordered(S)[k] \in S /\ Rank(Ordered(S)[k]) = k - 1
    BY <1>2, <2>1
  <2>4. Ordered(S)[k] = x
    <3>1. Rank(Ordered(S)[k]) = Rank(x)
      BY <2>2, <2>3
    <3> QED BY <1>4, <2>3, <3>1
  <2> QED BY <2>1, <2>4
<1>6. ASSUME NEW j \in 1 .. n, NEW k \in 1 .. n, j < k
      PROVE  Ordered(S)[j] < Ordered(S)[k]
  <2>1. /\ Ordered(S)[j] \in S /\ Rank(Ordered(S)[j]) = j - 1
        /\ Ordered(S)[k] \in S /\ Rank(Ordered(S)[k]) = k - 1
    BY <1>2
  <2> DEFINE a == Ordered(S)[j]
             b == Ordered(S)[k]
  <2>2. a # b
    BY <1>6, <2>1
  <2>3. ~(b < a)
    <3>1. ASSUME b < a PROVE FALSE
      <4>1. Rank(b) < Rank(a)
        BY <2>1, <3>1, RankGrows
      <4> QED BY <1>6, <2>1, <4>1
    <3> QED BY <3>1
  <2>4. a \in Nat /\ b \in Nat
    BY <2>1
  <2> HIDE DEF a, b
  <2>5. a < b
    BY <2>2, <2>3, <2>4
  <2> QED BY <2>5 DEF a, b
<1>7. Ordered(S) \in Seq(S) /\ Len(Ordered(S)) = n
  BY <1>1, <1>3
<1> QED BY <1>1, <1>2, <1>5, <1>6, <1>7

-----------------------------------------------------------------------------
(***************************************************************************)
(* Sequences whose elements come in a given order: what a loop keeps of one,*)
(* and one made of several.  The order is a set of pairs.                   *)
(***************************************************************************)

Increasing(s, R) == \A j, k \in DOMAIN s : j < k => <<s[j], s[k]>> \in R

LEMMA ConcatSet ==
  ASSUME NEW A, NEW B, NEW s \in Seq(A), NEW t \in Seq(B)
  PROVE  ToSet(s \o t) = ToSet(s) \cup ToSet(t)
<1>1. /\ Len(s) \in Nat /\ Len(t) \in Nat
      /\ DOMAIN s = 1 .. Len(s) /\ DOMAIN t = 1 .. Len(t) /\ DOMAIN (s \o t) = 1 .. Len(s) + Len(t)
      /\ \A i \in 1 .. Len(s) : (s \o t)[i] = s[i]
      /\ \A i \in 1 .. Len(t) : (s \o t)[Len(s) + i] = t[i]
  OBVIOUS
<1>2. ASSUME NEW i \in DOMAIN (s \o t) PROVE (s \o t)[i] \in ToSet(s) \cup ToSet(t)
  <2>1. CASE i <= Len(s)
    <3>1. i \in DOMAIN s /\ (s \o t)[i] = s[i]
      BY <1>1, <2>1
    <3> QED BY <3>1 DEF ToSet
  <2>2. CASE i > Len(s)
    <3>1. i - Len(s) \in DOMAIN t /\ (s \o t)[i] = t[i - Len(s)]
      <4>1. i - Len(s) \in 1 .. Len(t) /\ Len(s) + (i - Len(s)) = i
        BY <1>1, <2>2
      <4> QED BY <1>1, <4>1
    <3> QED BY <3>1 DEF ToSet
  <2> QED BY <1>1, <2>1, <2>2
<1>3. ASSUME NEW i \in DOMAIN s PROVE s[i] \in ToSet(s \o t)
  <2>1. i \in DOMAIN (s \o t) /\ (s \o t)[i] = s[i]
    BY <1>1
  <2> QED BY <2>1 DEF ToSet
<1>4. ASSUME NEW i \in DOMAIN t PROVE t[i] \in ToSet(s \o t)
  <2>1. Len(s) + i \in DOMAIN (s \o t) /\ (s \o t)[Len(s) + i] = t[i]
    BY <1>1
  <2> QED BY <2>1 DEF ToSet
<1>5. ToSet(s \o t) \subseteq ToSet(s) \cup ToSet(t)
  BY <1>2 DEF ToSet
<1>6. ToSet(s) \subseteq ToSet(s \o t) /\ ToSet(t) \subseteq ToSet(s \o t)
  BY <1>3, <1>4 DEF ToSet
<1> QED BY <1>5, <1>6

LEMMA ConcatIncreasing ==
  ASSUME NEW E, NEW R, NEW s \in Seq(E), NEW t \in Seq(E),
         Increasing(s, R), Increasing(t, R),
         \A x \in ToSet(s), y \in ToSet(t) : <<x, y>> \in R
  PROVE  s \o t \in Seq(E) /\ Increasing(s \o t, R)
<1>1. /\ Len(s) \in Nat /\ Len(t) \in Nat
      /\ DOMAIN s = 1 .. Len(s) /\ DOMAIN t = 1 .. Len(t) /\ DOMAIN (s \o t) = 1 .. Len(s) + Len(t)
      /\ \A i \in 1 .. Len(s) : (s \o t)[i] = s[i]
      /\ \A i \in 1 .. Len(t) : (s \o t)[Len(s) + i] = t[i]
  OBVIOUS
<1>2. ASSUME NEW i \in 1 .. Len(s) + Len(t), i > Len(s)
      PROVE  i - Len(s) \in 1 .. Len(t) /\ (s \o t)[i] = t[i - Len(s)]
  <2>1. i - Len(s) \in 1 .. Len(t) /\ Len(s) + (i - Len(s)) = i
    BY <1>1, <1>2
  <2> QED BY <1>1, <2>1
<1>3. ASSUME NEW j \in 1 .. Len(s) + Len(t), NEW k \in 1 .. Len(s) + Len(t), j < k
      PROVE  <<(s \o t)[j], (s \o t)[k]>> \in R
  <2>1. CASE k <= Len(s)
    <3>1. j \in DOMAIN s /\ k \in DOMAIN s /\ (s \o t)[j] = s[j] /\ (s \o t)[k] = s[k]
      BY <1>1, <1>3, <2>1
    <3> QED BY <1>3, <3>1 DEF Increasing
  <2>2. CASE j <= Len(s) /\ k > Len(s)
    <3>1. j \in DOMAIN s /\ (s \o t)[j] = s[j]
      BY <1>1, <2>2
    <3>2. k - Len(s) \in DOMAIN t /\ (s \o t)[k] = t[k - Len(s)]
      BY <1>1, <1>2, <2>2
    <3>3. s[j] \in ToSet(s) /\ t[k - Len(s)] \in ToSet(t)
      BY <3>1, <3>2 DEF ToSet
    <3> QED BY <3>1, <3>2, <3>3
  <2>3. CASE j > Len(s)
    <3>1. j - Len(s) \in DOMAIN t /\ (s \o t)[j] = t[j - Len(s)]
      BY <1>1, <1>2, <2>3
    <3>2. k > Len(s)
      BY <1>1, <1>3, <2>3
    <3>3. k - Len(s) \in DOMAIN t /\ (s \o t)[k] = t[k - Len(s)]
      BY <1>1, <1>2, <3>2
    <3>4. j - Len(s) < k - Len(s)
      BY <1>1, <1>3
    <3> QED BY <3>1, <3>3, <3>4 DEF Increasing
  <2>4. k <= Len(s) \/ (j <= Len(s) /\ k > Len(s)) \/ j > Len(s)
    BY <1>1
  <2> QED BY <2>1, <2>2, <2>3, <2>4, Zenon
<1> QED BY <1>1, <1>3 DEF Increasing

LEMMA IntervalSize ==
  ASSUME NEW n \in Nat
  PROVE  IsFiniteSet(1 .. n) /\ Cardinality(1 .. n) = n
BY FS_Interval

LEMMA PickedFacts ==
  ASSUME NEW E, NEW s \in Seq(E), NEW S \in SUBSET DOMAIN s
  PROVE  /\ Picked(s, S) \in Seq(E)
         /\ Len(Picked(s, S)) = Cardinality(S) /\ Cardinality(S) \in Nat
         /\ Cardinality(S) <= Len(s)
         /\ DOMAIN Picked(s, S) = 1 .. Cardinality(S)
         /\ \A k \in 1 .. Cardinality(S) : Ordered(S)[k] \in S /\ Picked(s, S)[k] = s[Ordered(S)[k]]
         /\ \A j, k \in 1 .. Cardinality(S) : j < k => Ordered(S)[j] < Ordered(S)[k]
         /\ ToSet(Picked(s, S)) = {s[i] : i \in S}
<1>1. DOMAIN s = 1 .. Len(s) /\ Len(s) \in Nat
  OBVIOUS
<1>2. S \in SUBSET Nat /\ IsFiniteSet(S) /\ Cardinality(S) <= Len(s)
  <2>1. IsFiniteSet(1 .. Len(s)) /\ Cardinality(1 .. Len(s)) = Len(s)
    BY <1>1, IntervalSize
  <2> QED BY <1>1, <2>1, FS_Subset
<1> DEFINE n == Cardinality(S)
           o == Ordered(S)
<1>3. /\ n \in Nat
      /\ \A x \in S : \E k \in 1 .. n : o[k] = x
      /\ \A k \in 1 .. n : o[k] \in S
      /\ \A j, k \in 1 .. n : j < k => o[j] < o[k]
  BY <1>2, OrderedFacts
<1> HIDE DEF o
<1>4. Picked(s, S) = [k \in 1 .. n |-> s[o[k]]]
  BY DEF Picked, o
<1> HIDE DEF n
<1>5. \A k \in 1 .. n : s[o[k]] \in E
  BY <1>1, <1>3
<1>6. Picked(s, S) \in Seq(E) /\ Len(Picked(s, S)) = n /\ DOMAIN Picked(s, S) = 1 .. n
  BY <1>3, <1>4, <1>5
<1>7. ToSet(Picked(s, S)) = {s[i] : i \in S}
  <2>1. ToSet(Picked(s, S)) = {s[o[k]] : k \in 1 .. n}
    BY <1>4, <1>6 DEF ToSet
  <2> QED BY <1>3, <2>1
<1> QED BY <1>2, <1>3, <1>4, <1>6, <1>7 DEF n, o

LEMMA PickedIncreasing ==
  ASSUME NEW E, NEW R, NEW s \in Seq(E), NEW S \in SUBSET DOMAIN s, Increasing(s, R)
  PROVE  Increasing(Picked(s, S), R)
<1> DEFINE n == Cardinality(S)
           p == Picked(s, S)
           o == Ordered(S)
<1>1. /\ DOMAIN p = 1 .. n
      /\ \A k \in 1 .. n : o[k] \in DOMAIN s /\ p[k] = s[o[k]]
      /\ \A j, k \in 1 .. n : j < k => o[j] < o[k]
  BY PickedFacts
<1> HIDE DEF n, p, o
<1>2. Increasing(p, R)
  BY <1>1 DEF Increasing
<1> QED BY <1>2 DEF p

(* The elements of a sequence that an order puts before x.                  *)
Preceding(s, R, x) == {y \in ToSet(s) : <<y, x>> \in R}

(* The place of an element is one more than how many come before it.        *)
LEMMA PlaceFacts ==
  ASSUME NEW E, NEW R, NEW s \in Seq(E), Increasing(s, R),
         \A x, y \in E : <<x, y>> \in R => <<y, x>> \notin R
  PROVE  /\ IsFiniteSet(ToSet(s)) /\ Cardinality(ToSet(s)) = Len(s)
         /\ \A k \in DOMAIN s :
              /\ IsFiniteSet(Preceding(s, R, s[k]))
              /\ Cardinality(Preceding(s, R, s[k])) = k - 1
         /\ \A j, k \in DOMAIN s : s[j] = s[k] => j = k
<1>1. Len(s) \in Nat /\ DOMAIN s = 1 .. Len(s) /\ \A k \in 1 .. Len(s) : s[k] \in E
  OBVIOUS
<1>2. \A x \in E : <<x, x>> \notin R
  OBVIOUS
<1>3. ASSUME NEW j \in 1 .. Len(s), NEW k \in 1 .. Len(s), s[j] = s[k] PROVE j = k
  <2>1. ~(j < k) /\ ~(k < j)
    BY <1>1, <1>2, <1>3 DEF Increasing
  <2> QED BY <2>1
<1>4. ASSUME NEW n \in 0 .. Len(s)
      PROVE  IsFiniteSet({s[j] : j \in 1 .. n}) /\ Cardinality({s[j] : j \in 1 .. n}) = n
  <2> DEFINE T == {s[j] : j \in 1 .. n}
             f == [j \in 1 .. n |-> s[j]]
  <2>1. n \in Nat /\ IsFiniteSet(1 .. n) /\ Cardinality(1 .. n) = n
    BY <1>1, IntervalSize
  <2>2. f \in Bijection(1 .. n, T)
    <3>1. \A j \in 1 .. n : j \in 1 .. Len(s)
      BY <1>1
    <3>2. f \in [1 .. n -> T] /\ (\A j, k \in 1 .. n : f[j] = f[k] => j = k)
      BY <1>3, <3>1
    <3>3. \A x \in T : \E j \in 1 .. n : f[j] = x
      OBVIOUS
    <3> QED BY <3>2, <3>3 DEF Bijection, Injection, Surjection, IsInjective
  <2> HIDE DEF f, T
  <2>3. IsFiniteSet(T) /\ Cardinality(T) = Cardinality(1 .. n)
    BY <2>1, <2>2, FS_Bijection DEF ExistsBijection
  <2> QED BY <2>1, <2>3 DEF T
<1>5. ASSUME NEW k \in 1 .. Len(s)
      PROVE  Preceding(s, R, s[k]) = {s[j] : j \in 1 .. k - 1}
  <2>1. ASSUME NEW j \in 1 .. Len(s), <<s[j], s[k]>> \in R PROVE j \in 1 .. k - 1
    <3>1. ~(k < j) /\ j # k
      BY <1>1, <1>2, <2>1 DEF Increasing
    <3> QED BY <3>1
  <2>2. ASSUME NEW j \in 1 .. k - 1 PROVE j \in 1 .. Len(s) /\ <<s[j], s[k]>> \in R
    <3>1. j \in 1 .. Len(s) /\ j < k
      BY <1>1
    <3> QED BY <1>1, <3>1 DEF Increasing
  <2> QED BY <1>1, <2>1, <2>2 DEF ToSet, Preceding
<1>6. ToSet(s) = {s[j] : j \in 1 .. Len(s)}
  BY <1>1 DEF ToSet
<1>7. IsFiniteSet(ToSet(s)) /\ Cardinality(ToSet(s)) = Len(s)
  <2>1. Len(s) \in 0 .. Len(s)
    BY <1>1
  <2> QED BY <1>4, <1>6, <2>1
<1>8. ASSUME NEW k \in 1 .. Len(s)
      PROVE  /\ IsFiniteSet(Preceding(s, R, s[k]))
             /\ Cardinality(Preceding(s, R, s[k])) = k - 1
  <2>1. k - 1 \in 0 .. Len(s)
    BY <1>1
  <2> QED BY <1>4, <1>5, <2>1
<1> QED BY <1>1, <1>3, <1>7, <1>8
-----------------------------------------------------------------------------
(* One sequence out of several.                                             *)
Flattens(seqs, g) ==
  g = [i \in 1 .. Len(seqs) |-> IF i = 1 THEN seqs[i] ELSE g[i - 1] \o seqs[i]]
Flat(seqs) == CHOOSE g : Flattens(seqs, g)

LEMMA FlattenIsFlat ==
  ASSUME NEW seqs, Len(seqs) # 0
  PROVE  FlattenSeq(seqs) = Flat(seqs)[Len(seqs)]
BY DEF FlattenSeq, Flat, Flattens

(* The first n steps of it.                                                 *)
FlatTo(E, seqs, n, g) ==
  /\ g \in [1 .. n -> Seq(E)]
  /\ \A i \in 1 .. n : g[i] = IF i = 1 THEN seqs[i] ELSE g[i - 1] \o seqs[i]

LEMMA FlatGrows ==
  ASSUME NEW E, NEW seqs \in Seq(Seq(E)), NEW n \in Nat, n < Len(seqs), NEW g, FlatTo(E, seqs, n, g)
  PROVE  \E h : FlatTo(E, seqs, n + 1, h)
<1> DEFINE h == [i \in 1 .. n + 1 |-> IF i <= n THEN g[i]
                                      ELSE IF i = 1 THEN seqs[i] ELSE g[i - 1] \o seqs[i]]
<1>1. \A i \in 1 .. n + 1 : seqs[i] \in Seq(E)
  OBVIOUS
<1>2. \A i \in 1 .. n : g[i] \in Seq(E) /\ h[i] = g[i]
  BY DEF FlatTo
<1>3. h[n + 1] = IF n + 1 = 1 THEN seqs[n + 1] ELSE g[n] \o seqs[n + 1]
  OBVIOUS
<1> HIDE DEF h
<1>4. h[n + 1] \in Seq(E)
  <2>1. CASE n = 0
    BY <1>1, <1>3, <2>1
  <2>2. CASE n # 0
    <3>1. n \in 1 .. n /\ n + 1 # 1
      BY <2>2
    <3>2. g[n] \in Seq(E) /\ seqs[n + 1] \in Seq(E)
      BY <1>1, <1>2, <3>1
    <3> QED BY <1>3, <3>1, <3>2
  <2> QED BY <2>1, <2>2
<1>5. h \in [1 .. n + 1 -> Seq(E)]
  <2>1. \A i \in 1 .. n + 1 : h[i] \in Seq(E)
    <3>1. \A i \in 1 .. n + 1 : i \in 1 .. n \/ i = n + 1
      OBVIOUS
    <3> QED BY <1>2, <1>4, <3>1
  <2>2. h = [i \in 1 .. n + 1 |-> h[i]]
    BY DEF h
  <2> QED BY <2>1, <2>2
<1>6. ASSUME NEW i \in 1 .. n + 1
      PROVE  h[i] = IF i = 1 THEN seqs[i] ELSE h[i - 1] \o seqs[i]
  <2>1. CASE i = n + 1
    <3>1. CASE n = 0
      BY <1>3, <2>1, <3>1
    <3>2. CASE n # 0
      <4>1. n \in 1 .. n /\ i - 1 = n /\ i # 1 /\ n + 1 # 1
        BY <2>1, <3>2
      <4> QED BY <1>2, <1>3, <2>1, <4>1
    <3> QED BY <3>1, <3>2
  <2>2. CASE i \in 1 .. n
    <3>1. CASE i = 1
      BY <1>2, <2>2, <3>1 DEF FlatTo
    <3>2. CASE i # 1
      <4>1. i - 1 \in 1 .. n
        BY <2>2, <3>2
      <4>2. g[i] = g[i - 1] \o seqs[i]
        BY <2>2, <3>2 DEF FlatTo
      <4> QED BY <1>2, <2>2, <3>2, <4>1, <4>2
    <3> QED BY <3>1, <3>2
  <2> QED BY <2>1, <2>2
<1> QED BY <1>5, <1>6 DEF FlatTo

LEMMA FlatExists ==
  ASSUME NEW E, NEW seqs \in Seq(Seq(E)), NEW n \in 0 .. Len(seqs)
  PROVE  \E g : FlatTo(E, seqs, n, g)
<1> DEFINE Bad == {m \in 0 .. Len(seqs) : ~ \E g : FlatTo(E, seqs, m, g)}
<1> SUFFICES ASSUME Bad # {} PROVE FALSE
  OBVIOUS
<1>1. PICK m \in Bad : \A k \in Bad : m <= k
  <2>1. Bad \in SUBSET Nat
    OBVIOUS
  <2> HIDE DEF Bad
  <2> QED BY <2>1, SizeOrder
<1>2. m # 0
  <2> SUFFICES \E g : FlatTo(E, seqs, 0, g)
    BY <1>1
  <2> DEFINE e == [i \in 1 .. 0 |-> <<>>]
  <2>1. FlatTo(E, seqs, 0, e)
    BY DEF FlatTo
  <2> QED BY <2>1
<1>3. m - 1 \in Nat /\ m - 1 \in 0 .. Len(seqs) /\ m - 1 < Len(seqs) /\ m - 1 \notin Bad /\ (m - 1) + 1 = m
  <2>1. m \in 0 .. Len(seqs) /\ Len(seqs) \in Nat
    BY <1>1
  <2> HIDE DEF Bad
  <2>2. m - 1 \in Nat /\ m - 1 \in 0 .. Len(seqs) /\ m - 1 < Len(seqs) /\ (m - 1) + 1 = m /\ ~(m <= m - 1)
    BY <1>2, <2>1
  <2> QED BY <1>1, <2>2
<1>4. PICK g : FlatTo(E, seqs, m - 1, g)
  BY <1>3
<1>5. \E h : FlatTo(E, seqs, (m - 1) + 1, h)
  BY <1>3, <1>4, FlatGrows
<1> QED BY <1>1, <1>3, <1>5

LEMMA FlatFacts ==
  ASSUME NEW E, NEW seqs \in Seq(Seq(E))
  PROVE  FlatTo(E, seqs, Len(seqs), Flat(seqs))
<1>1. Len(seqs) \in 0 .. Len(seqs)
  OBVIOUS
<1>2. PICK g : FlatTo(E, seqs, Len(seqs), g)
  BY <1>1, FlatExists
<1>3. Flattens(seqs, g)
  BY <1>2 DEF FlatTo, Flattens
<1>4. Flattens(seqs, Flat(seqs))
  BY <1>3 DEF Flat
<1> DEFINE p == Flat(seqs)
<1> HIDE DEF p
<1>5. p = [i \in 1 .. Len(seqs) |-> IF i = 1 THEN seqs[i] ELSE p[i - 1] \o seqs[i]]
  BY <1>4 DEF p, Flattens
<1> DEFINE Bad == {m \in 1 .. Len(seqs) : p[m] \notin Seq(E)}
<1>6. Bad = {}
  <2> SUFFICES ASSUME Bad # {} PROVE FALSE
    OBVIOUS
  <2>1. PICK m \in Bad : \A k \in Bad : m <= k
    <3>1. Bad \in SUBSET Nat
      OBVIOUS
    <3> HIDE DEF Bad
    <3> QED BY <3>1, SizeOrder
  <2>2. CASE m = 1
    <3>1. p[1] = seqs[1] /\ seqs[1] \in Seq(E)
      BY <1>5, <2>1, <2>2
    <3> QED BY <2>1, <2>2, <3>1
  <2>3. CASE m # 1
    <3>1. m - 1 \in 1 .. Len(seqs) /\ m - 1 \notin Bad /\ m \in 1 .. Len(seqs)
      BY <2>1, <2>3
    <3>2. p[m] = p[m - 1] \o seqs[m]
      BY <1>5, <2>3, <3>1
    <3>3. p[m - 1] \in Seq(E) /\ seqs[m] \in Seq(E)
      BY <3>1
    <3>4. p[m - 1] \o seqs[m] \in Seq(E)
      BY <3>3
    <3> QED BY <2>1, <3>2, <3>4
  <2> QED BY <2>2, <2>3
<1>7. p \in [1 .. Len(seqs) -> Seq(E)]
  BY <1>5, <1>6
<1>8. \A i \in 1 .. Len(seqs) : p[i] = IF i = 1 THEN seqs[i] ELSE p[i - 1] \o seqs[i]
  BY <1>5
<1> QED BY <1>7, <1>8 DEF FlatTo, p

(* When each of the sequences is in order, and each comes before the next    *)
(* ones, their elements make one sequence in order.                         *)
LEMMA FlattenIncreasing ==
  ASSUME NEW E, NEW R, NEW seqs \in Seq(Seq(E)), Len(seqs) # 0,
         \A i \in 1 .. Len(seqs) : Increasing(seqs[i], R),
         \A i, j \in 1 .. Len(seqs) :
           i < j => \A x \in ToSet(seqs[i]), y \in ToSet(seqs[j]) : <<x, y>> \in R
  PROVE  /\ FlattenSeq(seqs) \in Seq(E)
         /\ Increasing(FlattenSeq(seqs), R)
         /\ ToSet(FlattenSeq(seqs)) = UNION {ToSet(seqs[i]) : i \in 1 .. Len(seqs)}
<1> DEFINE f == Flat(seqs)
           Whole(m) == /\ Increasing(f[m], R)
                       /\ ToSet(f[m]) = UNION {ToSet(seqs[i]) : i \in 1 .. m}
           Bad == {m \in 1 .. Len(seqs) : ~Whole(m)}
<1>1. /\ \A i \in 1 .. Len(seqs) : f[i] \in Seq(E)
      /\ \A i \in 1 .. Len(seqs) : f[i] = IF i = 1 THEN seqs[i] ELSE f[i - 1] \o seqs[i]
  BY FlatFacts DEF FlatTo
<1> HIDE DEF f
<1>2. Bad = {}
  <2> SUFFICES ASSUME Bad # {} PROVE FALSE
    OBVIOUS
  <2>1. PICK m \in Bad : \A k \in Bad : m <= k
    <3>1. Bad \in SUBSET Nat
      OBVIOUS
    <3> HIDE DEF Bad
    <3> QED BY <3>1, SizeOrder
  <2>2. CASE m = 1
    <3>1. f[1] = seqs[1] /\ 1 \in 1 .. Len(seqs)
      BY <1>1, <2>1, <2>2
    <3>2. UNION {ToSet(seqs[i]) : i \in 1 .. 1} = ToSet(seqs[1])
      OBVIOUS
    <3> QED BY <2>1, <2>2, <3>1, <3>2
  <2>3. CASE m # 1
    <3> DEFINE n == m - 1
    <3>1. n \in 1 .. Len(seqs) /\ n \notin Bad /\ m \in 1 .. Len(seqs) /\ n < m /\ 1 .. m = 1 .. n \cup {m}
      <4>1. m \in 1 .. Len(seqs) /\ Len(seqs) \in Nat
        BY <2>1
      <4> HIDE DEF Bad
      <4>2. n \in 1 .. Len(seqs) /\ n < m /\ 1 .. m = 1 .. n \cup {m} /\ ~(m <= n)
        BY <2>3, <4>1
      <4> QED BY <2>1, <4>1, <4>2
    <3>2. f[m] = f[n] \o seqs[m] /\ f[n] \in Seq(E) /\ seqs[m] \in Seq(E)
      <4>1. f[m] = IF m = 1 THEN seqs[m] ELSE f[m - 1] \o seqs[m]
        BY <1>1, <3>1
      <4>2. f[n] \in Seq(E) /\ seqs[m] \in Seq(E)
        BY <1>1, <3>1
      <4> QED BY <2>3, <4>1, <4>2
    <3> HIDE DEF n
    <3>3. Whole(n)
      BY <3>1
    <3> HIDE DEF Bad
    <3>4. \A x \in ToSet(f[n]), y \in ToSet(seqs[m]) : <<x, y>> \in R
      <4> TAKE x \in ToSet(f[n]), y \in ToSet(seqs[m])
      <4>1. PICK i \in 1 .. n : x \in ToSet(seqs[i])
        BY <3>3
      <4>2. i \in 1 .. Len(seqs) /\ i < m
        BY <3>1, <4>1
      <4> QED BY <3>1, <4>1, <4>2
    <3>5. Increasing(f[m], R)
      <4>1. Increasing(f[n], R) /\ Increasing(seqs[m], R)
        BY <3>1, <3>3
      <4>2. Increasing(f[n] \o seqs[m], R)
        BY <3>2, <3>4, <4>1, ConcatIncreasing
      <4> QED BY <3>2, <4>2, Zenon
    <3>6. ToSet(f[m]) = ToSet(f[n]) \cup ToSet(seqs[m])
      BY <3>2, ConcatSet
    <3>7. ToSet(f[m]) = UNION {ToSet(seqs[i]) : i \in 1 .. m}
      BY <3>1, <3>3, <3>6
    <3> QED BY <2>1, <3>5, <3>7 DEF Bad
  <2> QED BY <2>2, <2>3
<1>3. Len(seqs) \in 1 .. Len(seqs)
  OBVIOUS
<1>4. Whole(Len(seqs)) /\ f[Len(seqs)] \in Seq(E)
  BY <1>1, <1>2, <1>3
<1> QED BY <1>4, FlattenIsFlat DEF f
-----------------------------------------------------------------------------
(***************************************************************************)
(* The sum of a function over a finite set, which the models write as a    *)
(* fold.  That the fold's recursive function exists is proved from the     *)
(* finiteness of the set, and each fact below by a smallest subset for which*)
(* it would fail.                                                          *)
(***************************************************************************)

(* The fold of a function over a set picks its elements one by one.  The     *)
(* partial sums are the sums of the subsets, in the order of the picks.      *)
Pick(s) == CHOOSE x \in s : TRUE
Summed(f, S, g) ==
  g = [s \in SUBSET S |-> IF s = {} THEN 0 ELSE f[Pick(s)] + g[s \ {Pick(s)}]]
Partial(f, S) == CHOOSE g : Summed(f, S, g)
SumOver(f, S) == Partial(f, S)[S]

LEMMA FoldIsSum ==
  ASSUME NEW f, NEW S
  PROVE  FoldFunctionOnSet(LAMBDA c, n : c + n, 0, f, S) = SumOver(f, S)
BY DEF FoldFunctionOnSet, MapThenFoldSet, SumOver, Partial, Summed, Pick

LEMMA PickIn ==
  ASSUME NEW s, s # {}
  PROVE  Pick(s) \in s
BY DEF Pick

LEMMA Smallest ==
  ASSUME NEW S, IsFiniteSet(S), NEW C \in SUBSET (SUBSET S), C # {}
  PROVE  \E T \in C : \A U \in C : U \subseteq T => U = T
<1>1. C \subseteq FiniteSubsetsOf(S)
  BY FS_Subset DEF FiniteSubsetsOf
<1>2. PICK T \in C : \A U \in C : ~(<<U, T>> \in StrictSubsetOrdering(S))
  BY <1>1, FS_StrictSubsetOrderingWellFounded, WFMin
<1> QED BY <1>2 DEF StrictSubsetOrdering

Level(S, n) == {s \in SUBSET S : Cardinality(s) <= n}
OnLevel(f, S, n, g) ==
  /\ g \in [Level(S, n) -> Int]
  /\ \A s \in Level(S, n) : g[s] = IF s = {} THEN 0 ELSE f[Pick(s)] + g[s \ {Pick(s)}]

LEMMA LevelStep ==
  ASSUME NEW f, NEW S, IsFiniteSet(S), \A x \in S : f[x] \in Int,
         NEW n \in Nat, NEW g, OnLevel(f, S, n, g)
  PROVE  \E h : OnLevel(f, S, n + 1, h)
<1> DEFINE h == [s \in Level(S, n + 1) |-> IF s = {} THEN 0 ELSE f[Pick(s)] + g[s \ {Pick(s)}]]
<1>1. ASSUME NEW s \in Level(S, n + 1), s # {}
      PROVE  Pick(s) \in S /\ s \ {Pick(s)} \in Level(S, n) /\ s \ {Pick(s)} \in Level(S, n + 1)
  <2>1. Pick(s) \in s /\ s \in SUBSET S /\ IsFiniteSet(s)
    BY <1>1, PickIn, FS_Subset DEF Level
  <2>2. Cardinality(s) \in Nat /\ Cardinality(s) <= n + 1
    BY <2>1, FS_CardinalityType DEF Level
  <2>3. Cardinality(s \ {Pick(s)}) = Cardinality(s) - 1
    BY <2>1, FS_RemoveElement
  <2> QED BY <2>1, <2>2, <2>3 DEF Level
<1>2. h \in [Level(S, n + 1) -> Int]
  BY <1>1 DEF OnLevel
<1>3. ASSUME NEW s \in Level(S, n) PROVE h[s] = g[s]
  <2>1. s \in Level(S, n + 1)
    BY FS_Subset, FS_CardinalityType DEF Level
  <2> QED BY <2>1 DEF OnLevel
<1>4. \A s \in Level(S, n + 1) : h[s] = IF s = {} THEN 0 ELSE f[Pick(s)] + h[s \ {Pick(s)}]
  BY <1>1, <1>3
<1> QED BY <1>2, <1>4 DEF OnLevel

LEMMA LevelExists ==
  ASSUME NEW f, NEW S, IsFiniteSet(S), \A x \in S : f[x] \in Int, NEW n \in Nat
  PROVE  \E g : OnLevel(f, S, n, g)
<1> DEFINE Bad == {m \in Nat : ~ \E g : OnLevel(f, S, m, g)}
<1> SUFFICES ASSUME Bad # {} PROVE FALSE
  OBVIOUS
<1>1. PICK m \in Bad : \A k \in Bad : m <= k
  BY SizeOrder
<1>2. m # 0
  <2>1. \A s \in Level(S, 0) : s = {}
    BY FS_Subset, FS_EmptySet, FS_CardinalityType DEF Level
  <2>2. OnLevel(f, S, 0, [s \in Level(S, 0) |-> 0])
    BY <2>1 DEF OnLevel
  <2> QED BY <2>2
<1>3. m - 1 \in Nat /\ m - 1 \notin Bad
  BY <1>1, <1>2
<1>4. PICK g : OnLevel(f, S, m - 1, g)
  BY <1>3
<1>5. \E h : OnLevel(f, S, (m - 1) + 1, h)
  BY <1>3, <1>4, LevelStep
<1> QED BY <1>1, <1>5

LEMMA PartialFacts ==
  ASSUME NEW f, NEW S, IsFiniteSet(S), \A x \in S : f[x] \in Int
  PROVE  /\ Partial(f, S) \in [SUBSET S -> Int]
         /\ \A s \in SUBSET S :
              Partial(f, S)[s] = IF s = {} THEN 0 ELSE f[Pick(s)] + Partial(f, S)[s \ {Pick(s)}]
<1>1. Cardinality(S) \in Nat /\ Level(S, Cardinality(S)) = SUBSET S
  BY FS_CardinalityType, FS_Subset DEF Level
<1>2. PICK g : OnLevel(f, S, Cardinality(S), g)
  BY <1>1, LevelExists
<1>3. Summed(f, S, g)
  BY <1>1, <1>2 DEF OnLevel, Summed
<1>4. Summed(f, S, Partial(f, S))
  BY <1>3 DEF Partial
<1> DEFINE p == Partial(f, S)
<1> HIDE DEF p
<1>5. p = [s \in SUBSET S |-> IF s = {} THEN 0 ELSE f[Pick(s)] + p[s \ {Pick(s)}]]
  BY <1>4 DEF Summed, p
<1>6. \A s \in SUBSET S : p[s] = IF s = {} THEN 0 ELSE f[Pick(s)] + p[s \ {Pick(s)}]
  BY <1>5
<1>7. \A s \in SUBSET S : p[s] \in Int
  <2> DEFINE C == {s \in SUBSET S : p[s] \notin Int}
  <2> SUFFICES ASSUME C # {} PROVE FALSE
    OBVIOUS
  <2>1. C \in SUBSET (SUBSET S)
    OBVIOUS
  <2> HIDE DEF C
  <2>2. PICK T \in C : \A U \in C : U \subseteq T => U = T
    BY <2>1, Smallest
  <2> USE DEF C
  <2>3. T # {} /\ Pick(T) \in T /\ T \subseteq S
    BY <1>6, <2>2, PickIn
  <2>4. T \ {Pick(T)} \notin C /\ T \ {Pick(T)} \in SUBSET S
    BY <2>2, <2>3
  <2>5. p[T \ {Pick(T)}] \in Int /\ f[Pick(T)] \in Int
    BY <2>3, <2>4
  <2>6. p[T] = f[Pick(T)] + p[T \ {Pick(T)}] /\ p[T] \notin Int
    BY <1>6, <2>2, <2>3, Zenon
  <2> QED BY <2>5, <2>6
<1> QED BY <1>5, <1>6, <1>7 DEF p

(* The sum over a smaller set is the partial sum there.                     *)
LEMMA PartialOfSubset ==
  ASSUME NEW f, NEW S, IsFiniteSet(S), \A x \in S : f[x] \in Int, NEW T \in SUBSET S
  PROVE  Partial(f, S)[T] = SumOver(f, T)
<1> DEFINE p == Partial(f, S)
           q == Partial(f, T)
           C == {s \in SUBSET T : p[s] # q[s]}
<1>1. IsFiniteSet(T)
  BY FS_Subset
<1>2. \A s \in SUBSET S : p[s] = IF s = {} THEN 0 ELSE f[Pick(s)] + p[s \ {Pick(s)}]
  BY PartialFacts
<1>3. \A s \in SUBSET T : q[s] = IF s = {} THEN 0 ELSE f[Pick(s)] + q[s \ {Pick(s)}]
  <2>1. \A x \in T : f[x] \in Int
    OBVIOUS
  <2> QED BY <1>1, <2>1, PartialFacts
<1> HIDE DEF p, q
<1>4. ASSUME C # {} PROVE FALSE
  <2>1. C \in SUBSET (SUBSET T)
    OBVIOUS
  <2> HIDE DEF C
  <2>2. PICK s \in C : \A U \in C : U \subseteq s => U = s
    BY <1>1, <1>4, <2>1, Smallest
  <2> USE DEF C
  <2>3. s # {} /\ Pick(s) \in s /\ s \subseteq T
    BY <1>2, <1>3, <2>2, PickIn
  <2>4. p[s \ {Pick(s)}] = q[s \ {Pick(s)}]
    BY <2>2, <2>3
  <2> QED BY <1>2, <1>3, <2>2, <2>3, <2>4
<1> QED BY <1>4 DEF SumOver, p, q

LEMMA SumFacts ==
  ASSUME NEW f, NEW S, IsFiniteSet(S), \A x \in S : f[x] \in Int
  PROVE  /\ SumOver(f, S) \in Int
         /\ SumOver(f, S) = IF S = {} THEN 0 ELSE f[Pick(S)] + SumOver(f, S \ {Pick(S)})
<1>1. /\ Partial(f, S)[S] \in Int
      /\ Partial(f, S)[S] = IF S = {} THEN 0 ELSE f[Pick(S)] + Partial(f, S)[S \ {Pick(S)}]
  <2>1. S \in SUBSET S
    OBVIOUS
  <2>2. Partial(f, S) \in [SUBSET S -> Int]
    BY PartialFacts
  <2> DEFINE p == Partial(f, S)
  <2>3. \A s \in SUBSET S : p[s] = IF s = {} THEN 0 ELSE f[Pick(s)] + p[s \ {Pick(s)}]
    BY PartialFacts
  <2> HIDE DEF p
  <2>4. p[S] = IF S = {} THEN 0 ELSE f[Pick(S)] + p[S \ {Pick(S)}]
    BY <2>1, <2>3
  <2> QED BY <2>1, <2>2, <2>4 DEF p
<1>2. Partial(f, S)[S \ {Pick(S)}] = SumOver(f, S \ {Pick(S)})
  BY PartialOfSubset
<1> QED BY <1>1, <1>2 DEF SumOver

(* The order of the picks does not matter.                                  *)
LEMMA SumSplits ==
  ASSUME NEW f, NEW S, IsFiniteSet(S), \A x \in S : f[x] \in Int, NEW x \in S
  PROVE  SumOver(f, S) = f[x] + SumOver(f, S \ {x})
<1> DEFINE Splits(T) == \A y \in T : SumOver(f, T) = f[y] + SumOver(f, T \ {y})
           C == {T \in SUBSET S : ~Splits(T)}
<1>1. \A T \in SUBSET S : IsFiniteSet(T) /\ \A y \in T : f[y] \in Int
  BY FS_Subset
<1>2. ASSUME C # {} PROVE FALSE
  <2>1. C \in SUBSET (SUBSET S)
    OBVIOUS
  <2> HIDE DEF C
  <2>2. PICK T \in C : \A U \in C : U \subseteq T => U = T
    BY <1>2, <2>1, Smallest
  <2> USE DEF C
  <2>3. PICK y \in T : SumOver(f, T) # f[y] + SumOver(f, T \ {y})
    BY <2>2
  <2> DEFINE z == Pick(T)
             rest == T \ {y, z}
  <2>4. z \in T /\ T \in SUBSET S /\ rest \in SUBSET S
    BY <2>2, <2>3, PickIn
  <2> HIDE DEF z
  <2>5. SumOver(f, T) = f[z] + SumOver(f, T \ {z})
    BY <1>1, <2>3, <2>4, SumFacts DEF z
  <2>6. z # y
    BY <2>3, <2>5
  <2>7. T \ {z} \in SUBSET S /\ T \ {z} \notin C /\ T \ {y} \in SUBSET S /\ T \ {y} \notin C
    BY <2>2, <2>3, <2>4
  <2>8. /\ SumOver(f, T \ {z}) = f[y] + SumOver(f, rest)
        /\ SumOver(f, T \ {y}) = f[z] + SumOver(f, rest)
    <3>1. y \in T \ {z} /\ z \in T \ {y} /\ (T \ {z}) \ {y} = rest /\ (T \ {y}) \ {z} = rest
      BY <2>3, <2>4, <2>6
    <3>2. Splits(T \ {z}) /\ Splits(T \ {y})
      BY <2>7
    <3> QED BY <3>1, <3>2
  <2>9. SumOver(f, rest) \in Int /\ f[y] \in Int /\ f[z] \in Int
    BY <1>1, <2>3, <2>4, SumFacts
  <2> QED BY <2>3, <2>5, <2>8, <2>9
<1>3. Splits(S)
  BY <1>2
<1> QED BY <1>3

LEMMA SameSum ==
  ASSUME NEW f, NEW g, NEW S, IsFiniteSet(S),
         \A x \in S : f[x] \in Int /\ g[x] = f[x]
  PROVE  SumOver(g, S) = SumOver(f, S)
<1> DEFINE C == {T \in SUBSET S : SumOver(g, T) # SumOver(f, T)}
<1>1. \A T \in SUBSET S : IsFiniteSet(T) /\ (\A y \in T : f[y] \in Int) /\ (\A y \in T : g[y] \in Int)
  BY FS_Subset
<1>2. ASSUME C # {} PROVE FALSE
  <2>1. C \in SUBSET (SUBSET S)
    OBVIOUS
  <2> HIDE DEF C
  <2>2. PICK T \in C : \A U \in C : U \subseteq T => U = T
    BY <1>2, <2>1, Smallest
  <2> USE DEF C
  <2>3. /\ SumOver(f, T) = IF T = {} THEN 0 ELSE f[Pick(T)] + SumOver(f, T \ {Pick(T)})
        /\ SumOver(g, T) = IF T = {} THEN 0 ELSE g[Pick(T)] + SumOver(g, T \ {Pick(T)})
    BY <1>1, <2>2, SumFacts
  <2>4. T # {} /\ Pick(T) \in T
    BY <2>2, <2>3, PickIn
  <2>5. SumOver(g, T \ {Pick(T)}) = SumOver(f, T \ {Pick(T)})
    BY <2>2, <2>4
  <2> QED BY <2>2, <2>3, <2>4, <2>5
<1> QED BY <1>2

LEMMA SumOfZeros ==
  ASSUME NEW f, NEW S, IsFiniteSet(S), \A x \in S : f[x] = 0
  PROVE  SumOver(f, S) = 0
<1> DEFINE C == {T \in SUBSET S : SumOver(f, T) # 0}
<1>1. \A T \in SUBSET S : IsFiniteSet(T) /\ \A y \in T : f[y] = 0 /\ f[y] \in Int
  BY FS_Subset
<1>2. ASSUME C # {} PROVE FALSE
  <2>1. C \in SUBSET (SUBSET S)
    OBVIOUS
  <2> HIDE DEF C
  <2>2. PICK T \in C : \A U \in C : U \subseteq T => U = T
    BY <1>2, <2>1, Smallest
  <2> USE DEF C
  <2>3. SumOver(f, T) = IF T = {} THEN 0 ELSE f[Pick(T)] + SumOver(f, T \ {Pick(T)})
    BY <1>1, <2>2, SumFacts
  <2>4. T # {} /\ Pick(T) \in T
    BY <2>2, <2>3, PickIn
  <2>5. SumOver(f, T \ {Pick(T)}) = 0 /\ f[Pick(T)] = 0
    BY <1>1, <2>2, <2>4
  <2> QED BY <2>2, <2>3, <2>4, <2>5
<1> QED BY <1>2

(* One value changes.                                                       *)
LEMMA SumChanges ==
  ASSUME NEW f, NEW g, NEW S, IsFiniteSet(S), NEW x \in S, f[x] \in Int, g[x] \in Int,
         \A y \in S \ {x} : f[y] \in Int /\ g[y] = f[y]
  PROVE  SumOver(g, S) = SumOver(f, S) - f[x] + g[x]
<1>1. IsFiniteSet(S \ {x})
  BY FS_Subset
<1>2. SumOver(g, S \ {x}) = SumOver(f, S \ {x}) /\ SumOver(f, S \ {x}) \in Int
  BY <1>1, SameSum, SumFacts
<1>3. SumOver(g, S) = g[x] + SumOver(g, S \ {x}) /\ SumOver(f, S) = f[x] + SumOver(f, S \ {x})
  <2>1. (\A y \in S : f[y] \in Int) /\ (\A y \in S : g[y] \in Int)
    OBVIOUS
  <2> QED BY <2>1, SumSplits
<1> QED BY <1>2, <1>3

(* What is zero adds nothing.                                               *)
LEMMA SumPadded ==
  ASSUME NEW f, NEW S, IsFiniteSet(S), NEW B \in SUBSET S,
         \A x \in S : f[x] \in Int, \A x \in S \ B : f[x] = 0
  PROVE  SumOver(f, S) = SumOver(f, B)
<1> DEFINE D == S \ B
           C == {T \in SUBSET D : SumOver(f, B \cup T) # SumOver(f, B)}
<1>1. /\ \A T \in SUBSET S : IsFiniteSet(T) /\ \A y \in T : f[y] \in Int
      /\ IsFiniteSet(D)
  BY FS_Subset
<1>2. ASSUME C # {} PROVE FALSE
  <2>1. C \in SUBSET (SUBSET D)
    OBVIOUS
  <2> HIDE DEF C, D
  <2>2. PICK T \in C : \A U \in C : U \subseteq T => U = T
    BY <1>1, <1>2, <2>1, Smallest
  <2> USE DEF C, D
  <2>3. T # {}
    BY <2>2
  <2>4. PICK x : x \in T
    BY <2>3
  <2>5. B \cup T \in SUBSET S /\ x \in B \cup T /\ (B \cup T) \ {x} = B \cup (T \ {x}) /\ f[x] = 0
    BY <2>2, <2>4
  <2>6. SumOver(f, B \cup T) = f[x] + SumOver(f, (B \cup T) \ {x})
    BY <1>1, <2>5, SumSplits
  <2>7. T \ {x} \notin C /\ T \ {x} \in SUBSET D
    <3>1. T \ {x} \in SUBSET D /\ T \ {x} \subseteq T /\ T \ {x} # T
      BY <2>2, <2>4
    <3> HIDE DEF C
    <3> QED BY <2>2, <3>1
  <2>8. SumOver(f, B \cup (T \ {x})) = SumOver(f, B) /\ SumOver(f, B \cup T) # SumOver(f, B)
    BY <2>2, <2>7
  <2>9. SumOver(f, B) \in Int
    BY <1>1, SumFacts
  <2> HIDE DEF C, D
  <2>10. SumOver(f, B \cup T) = 0 + SumOver(f, B)
    BY <2>5, <2>6, <2>8, Zenon
  <2> QED BY <2>8, <2>9, <2>10
<1>3. D \notin C
  BY <1>2
<1> QED BY <1>3

(* A sum may be taken under other names.                                    *)
LEMMA SumRenamed ==
  ASSUME NEW f, NEW g, NEW m, NEW A, NEW B, IsFiniteSet(A), IsFiniteSet(B),
         \A a \in A : f[a] \in Int /\ m[a] \in B /\ g[m[a]] = f[a],
         \A a, b \in A : m[a] = m[b] => a = b
  PROVE  SumOver(g, {m[a] : a \in A}) = SumOver(f, A)
<1> DEFINE Image(T) == {m[a] : a \in T}
           C == {T \in SUBSET A : SumOver(g, Image(T)) # SumOver(f, T)}
<1>1. \A T \in SUBSET A : IsFiniteSet(T) /\ (\A y \in T : f[y] \in Int)
                          /\ IsFiniteSet(Image(T)) /\ (\A h \in Image(T) : g[h] \in Int)
  <2> SUFFICES ASSUME NEW T \in SUBSET A
               PROVE  IsFiniteSet(T) /\ (\A y \in T : f[y] \in Int)
                      /\ IsFiniteSet(Image(T)) /\ (\A h \in Image(T) : g[h] \in Int)
    OBVIOUS
  <2>1. Image(T) \in SUBSET B /\ (\A h \in Image(T) : g[h] \in Int) /\ \A y \in T : f[y] \in Int
    OBVIOUS
  <2> HIDE DEF Image
  <2> QED BY <2>1, FS_Subset
<1>2. ASSUME C # {} PROVE FALSE
  <2>1. C \in SUBSET (SUBSET A)
    OBVIOUS
  <2> HIDE DEF C
  <2>2. PICK T \in C : \A U \in C : U \subseteq T => U = T
    BY <1>2, <2>1, Smallest
  <2> USE DEF C
  <2>3. T # {}
    <3>1. SumOver(f, {}) = 0 /\ SumOver(g, {}) = 0
      <4>1. IsFiniteSet({}) /\ (\A y \in {} : f[y] \in Int) /\ (\A y \in {} : g[y] \in Int)
        BY FS_EmptySet
      <4> QED BY <4>1, SumFacts
    <3>2. Image({}) = {}
      OBVIOUS
    <3> QED BY <2>2, <3>1, <3>2
  <2>4. PICK x : x \in T
    BY <2>3
  <2>5. T \in SUBSET A /\ m[x] \in Image(T) /\ Image(T) \ {m[x]} = Image(T \ {x}) /\ g[m[x]] = f[x]
    BY <2>2, <2>4
  <2>6. T \ {x} \notin C /\ T \ {x} \in SUBSET A
    BY <2>2, <2>4
  <2>7. SumOver(g, Image(T \ {x})) = SumOver(f, T \ {x})
    BY <2>6
  <2>8. SumOver(g, Image(T)) # SumOver(f, T)
    BY <2>2
  <2> HIDE DEF Image, C
  <2>9. SumOver(f, T) = f[x] + SumOver(f, T \ {x})
    BY <1>1, <2>4, <2>5, SumSplits
  <2>10. SumOver(g, Image(T)) = g[m[x]] + SumOver(g, Image(T) \ {m[x]})
    BY <1>1, <2>5, SumSplits
  <2> QED BY <2>5, <2>7, <2>8, <2>9, <2>10
<1>3. A \notin C
  BY <1>2
<1> QED BY <1>3

(* The sizes of sets without a common element add up.                        *)
LEMMA SumOfSizes ==
  ASSUME NEW S, IsFiniteSet(S), NEW P, \A x \in S : IsFiniteSet(P[x]),
         \A x, y \in S : x # y => P[x] \cap P[y] = {},
         NEW f, \A x \in S : f[x] = Cardinality(P[x])
  PROVE  SumOver(f, S) = Cardinality(UNION {P[x] : x \in S})
<1> DEFINE All(T) == UNION {P[x] : x \in T}
           Sized(T) == IsFiniteSet(All(T)) /\ SumOver(f, T) = Cardinality(All(T))
           C == {T \in SUBSET S : ~Sized(T)}
<1>1. \A x \in S : f[x] \in Int
  BY FS_CardinalityType
<1>2. ASSUME C # {} PROVE FALSE
  <2>1. PICK T \in C : \A U \in C : U \subseteq T => U = T
    <3>1. C \in SUBSET (SUBSET S)
      OBVIOUS
    <3> HIDE DEF C
    <3> QED BY <1>2, <3>1, Smallest
  <2>2. T \subseteq S /\ IsFiniteSet(T) /\ \A x \in T : f[x] \in Int
    BY <1>1, FS_Subset
  <2>3. CASE T = {}
    <3>1. SumOver(f, T) = 0
      BY <2>2, <2>3, SumFacts
    <3>2. All(T) = {}
      BY <2>3
    <3>3. Sized(T)
      BY <3>1, <3>2, FS_EmptySet
    <3> QED BY <3>3
  <2>4. CASE T # {}
    <3>1. PICK x \in T : TRUE
      BY <2>4
    <3> DEFINE U == T \ {x}
    <3>2. Sized(U)
      <4>1. U \in SUBSET S /\ U \subseteq T /\ U # T
        BY <2>2, <3>1
      <4> HIDE DEF Sized
      <4> QED BY <2>1, <4>1
    <3>3. All(T) = P[x] \cup All(U) /\ P[x] \cap All(U) = {}
      <4>1. All(T) = P[x] \cup All(U)
        BY <3>1
      <4>2. ASSUME NEW y \in U PROVE P[x] \cap P[y] = {}
        BY <2>2, <3>1, <4>2
      <4> QED BY <4>1, <4>2
    <3>4. IsFiniteSet(P[x]) /\ x \in S
      BY <2>2, <3>1
    <3>5. SumOver(f, T) = f[x] + SumOver(f, U)
      BY <2>2, <3>1, SumSplits
    <3> HIDE DEF All, U
    <3>6. IsFiniteSet(All(U)) /\ SumOver(f, U) = Cardinality(All(U))
      BY <3>2
    <3>7. IsFiniteSet(All(T))
          /\ Cardinality(All(T)) = Cardinality(P[x]) + Cardinality(All(U)) - Cardinality(P[x] \cap All(U))
      BY <3>3, <3>4, <3>6, FS_Union
    <3>8. Cardinality(P[x] \cap All(U)) = 0
      BY <3>3, FS_EmptySet
    <3>9. Cardinality(P[x]) \in Nat /\ Cardinality(All(U)) \in Nat
      BY <3>4, <3>6, FS_CardinalityType
    <3>10. Sized(T)
      BY <3>4, <3>5, <3>6, <3>7, <3>8, <3>9
    <3> QED BY <2>1, <3>10 DEF C
  <2> QED BY <2>3, <2>4
<1>3. Sized(S)
  <2>1. S \in SUBSET S /\ C = {}
    BY <1>2
  <2> HIDE DEF Sized
  <2> QED BY <2>1
<1> QED BY <1>3
=============================================================================
