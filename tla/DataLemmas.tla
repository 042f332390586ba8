----------------------------- MODULE DataLemmas -----------------------------
(***************************************************************************)
(* What the proofs of several modules need of numbers, of sequences and of *)
(* folds.  The library folds with operators, which the provers do not      *)
(* instantiate: a module that folds shows what its own operator does at    *)
(* each place, and takes from here that there is such a fold and which     *)
(* values it takes on its way.                                             *)
(***************************************************************************)
EXTENDS Integers, FiniteSets, Sequences, SequencesExt, FiniteSetTheorems,
        SequenceTheorems, NaturalsInduction, WellFoundedInduction, TLAPS

-----------------------------------------------------------------------------
(***************************************************************************)
(* Numbers.                                                                *)
(***************************************************************************)
\* A nonempty set of naturals has a least element.
LEMMA LeastExists ==
  ASSUME NEW S \in SUBSET Nat, S # {}
  PROVE  \E x \in S : \A y \in S : x <= y
<1> DEFINE R == OpToRel(<, Nat)
<1>1. IsWellFoundedOn(R, Nat)
  BY NatLessThanWellFounded
<1>2. \A a, b \in Nat : a < b => <<a, b>> \in R
  BY Zenon DEF OpToRel
<1> HIDE DEF R
<1>3. PICK x \in S : \A y \in S : ~(<<y, x>> \in R)
  BY <1>1, WFMin, Zenon
<1>4. \A y \in S : ~(y < x)
  BY <1>2, <1>3, Zenon
<1>5. \A y \in S : x <= y
  BY <1>4, SMT
<1> QED BY <1>5

\* A set that holds 0 and, with each number below n, the next one holds all up to n.
LEMMA UpTo ==
  ASSUME NEW n \in Nat, NEW A, 0 \in A, \A i \in 0..n - 1 : i \in A => i + 1 \in A
  PROVE  \A i \in 0..n : i \in A
<1> DEFINE Missing == (0..n) \ A
<1>1. SUFFICES ASSUME Missing # {} PROVE FALSE
  OBVIOUS
<1>2. PICK x \in Missing : \A y \in Missing : x <= y
  <2>1. Missing \in SUBSET Nat
    OBVIOUS
  <2> HIDE DEF Missing
  <2> QED BY <1>1, <2>1, LeastExists, Zenon
<1>3. x \in 0..n /\ x \notin A /\ x # 0
  OBVIOUS
<1>4. x - 1 \in 0..n - 1 /\ (x - 1) + 1 = x
  BY <1>3
<1>5. x - 1 \notin A
  BY <1>3, <1>4, Zenon
<1>6. x - 1 \in Missing /\ ~(x <= x - 1)
  BY <1>4, <1>5
<1> QED BY <1>2, <1>6, Zenon

\* The greatest of some numbers.
LEMMA GreatestOf ==
  ASSUME NEW s \in SUBSET Nat, NEW m \in s, \A i \in s : i <= m
  PROVE  Max(s) = m
<1>1. \E x \in s : \A y \in s : x >= y
  OBVIOUS
<1>2. Max(s) \in s /\ \A y \in s : Max(s) >= y
  BY <1>1, Zenon DEF Max
<1> DEFINE x == Max(s)
<1> HIDE DEF x
<1>3. x \in s /\ x >= m /\ x <= m /\ x \in Nat /\ m \in Nat
  BY <1>2, Zenon DEF x
<1>4. x = m
  BY <1>3
<1> QED BY <1>4 DEF x

\* Some of the numbers up to n have a greatest.
LEMMA GreatestIn ==
  ASSUME NEW n \in Nat, NEW s \in SUBSET (1..n), s # {}
  PROVE  Max(s) \in s /\ \A i \in s : i <= Max(s)
<1> DEFINE Others == {n - i : i \in s}
<1>1. PICK x \in Others : \A y \in Others : x <= y
  <2>1. \A i \in s : n - i \in Nat
    OBVIOUS
  <2>2. Others \in SUBSET Nat /\ Others # {}
    BY <2>1, Zenon
  <2> HIDE DEF Others
  <2> QED BY <2>2, LeastExists, Zenon
<1>2. PICK m \in s : x = n - m
  OBVIOUS
<1>3. ASSUME NEW i \in s PROVE i <= m
  <2>1. n - i \in Others
    OBVIOUS
  <2>2. x <= n - i
    BY <1>1, <2>1, Zenon
  <2> QED BY <1>2, <2>2
<1>4. Max(s) = m
  BY <1>3, GreatestOf, s \in SUBSET Nat
<1> QED BY <1>3, <1>4, Zenon

\* Every rank up to the number of elements is taken by one of them.
LEMMA RankIsTaken ==
  ASSUME NEW l \in Nat, NEW S \in SUBSET (1..l), NEW j \in 1..Cardinality(S)
  PROVE  \E i \in S : Cardinality({k \in S : k <= i}) = j
<1> DEFINE Below(m) == {k \in S : k <= m}
           Enough == {m \in Nat : Cardinality(Below(m)) >= j}
<1>0. \A k \in S : k \in Nat /\ 1 <= k /\ k <= l
  OBVIOUS
<1>1. IsFiniteSet(S) /\ Cardinality(S) \in Nat
  BY FS_Interval, FS_Subset, FS_CardinalityType, 0 \in Int, 1 \in Int, l \in Int
<1>2. \A m \in Nat : IsFiniteSet(Below(m)) /\ Cardinality(Below(m)) \in Nat
  BY <1>1, FS_Subset, FS_CardinalityType
<1>3. Below(l) = S
  BY <1>0, Zenon
<1>4. Enough # {}
  BY <1>1, <1>3
<1>5. PICK m \in Enough : \A y \in Enough : m <= y
  <2> HIDE DEF Enough
  <2> QED BY <1>4, LeastExists, Enough \in SUBSET Nat DEF Enough
<1>6. Below(0) = {} /\ Cardinality(Below(0)) = 0
  <2>1. \A k \in S : ~(k <= 0)
    BY <1>0
  <2>2. Below(0) = {}
    BY <2>1, Zenon
  <2> QED BY <2>2, FS_EmptySet, Zenon
<1>7. m \in Nat \ {0} /\ m - 1 \in Nat
  BY <1>5, <1>6
<1>8. \A k \in S : k <= m <=> k <= m - 1 \/ k = m
  BY <1>0, <1>7
<1>9. \A k \in S : k = m => ~(k <= m - 1)
  BY <1>0, <1>7
<1>10. m \in S => Below(m) = Below(m - 1) \cup {m} /\ m \notin Below(m - 1)
  BY <1>8, <1>9, Zenon
<1>11. m \notin S => Below(m) = Below(m - 1)
  BY <1>8, Zenon
<1>12. Cardinality(Below(m)) >= j
  BY <1>5
<1>13. ~(Cardinality(Below(m - 1)) >= j)
  <2>1. m - 1 \in Enough => m <= m - 1
    BY <1>5, Zenon
  <2> QED BY <1>7, <2>1
<1>14. m \in S
  BY <1>11, <1>12, <1>13, Zenon
<1>15. Cardinality(Below(m)) = Cardinality(Below(m - 1)) + 1
  BY <1>2, <1>7, <1>10, <1>14, FS_AddElement, Zenon
<1> HIDE DEF Below
<1>16. Cardinality(Below(m)) = j
  BY <1>2, <1>7, <1>12, <1>13, <1>15
<1> QED BY <1>14, <1>16, Zenon DEF Below

-----------------------------------------------------------------------------
(***************************************************************************)
(* Sequences.                                                              *)
(***************************************************************************)
\* A beginning of a sequence, and the one that is longer by one.
LEMMA OneMore ==
  ASSUME NEW W, NEW t \in Seq(W), NEW k \in 0..Len(t) - 1
  PROVE  SubSeq(t, 1, k + 1) = Append(SubSeq(t, 1, k), t[k + 1])
<1>1. /\ SubSeq(t, 1, k + 1) \in Seq(W) /\ Len(SubSeq(t, 1, k + 1)) = k + 1
      /\ \A i \in 1..k + 1 : SubSeq(t, 1, k + 1)[i] = t[i]
  OBVIOUS
<1>2. /\ SubSeq(t, 1, k) \in Seq(W) /\ Len(SubSeq(t, 1, k)) = k
      /\ \A i \in 1..k : SubSeq(t, 1, k)[i] = t[i]
  OBVIOUS
<1>3. t[k + 1] \in W
  OBVIOUS
<1> DEFINE a == SubSeq(t, 1, k + 1)
           b == SubSeq(t, 1, k)
           c == Append(b, t[k + 1])
<1> HIDE DEF b
<1>4. c \in Seq(W) /\ Len(c) = k + 1 /\ (\A i \in 1..k : c[i] = b[i]) /\ c[k + 1] = t[k + 1]
  BY <1>2, <1>3 DEF b
<1> HIDE DEF a, c
<1>5. \A i \in 1..k + 1 : a[i] = c[i]
  BY <1>1, <1>2, <1>4 DEF a, b
<1>6. a = c
  BY <1>1, <1>4, <1>5, SeqEqual DEF a
<1> QED BY <1>6 DEF a, b, c

\* A sequence starts with the first of those it is put together from.
LEMMA PrefixOfConcat ==
  ASSUME NEW W, NEW s \in Seq(W), NEW t \in Seq(W)
  PROVE  IsPrefix(s, s \o t) /\ SubSeq(s \o t, Len(s) + 1, Len(s \o t)) = t
<1> DEFINE u == s \o t
<1>1. /\ u \in Seq(W) /\ Len(u) = Len(s) + Len(t) /\ Len(s) \in Nat /\ Len(t) \in Nat
      /\ \A i \in 1..Len(s) : u[i] = s[i]
      /\ \A i \in 1..Len(t) : u[Len(s) + i] = t[i]
  OBVIOUS
<1> HIDE DEF u
<1>2. SubSeq(u, 1, Len(s)) = SubSeq(s, 1, Len(s))
  BY <1>1
<1>3. SubSeq(u, Len(s) + 1, Len(u)) = t
  BY <1>1
<1> QED BY <1>1, <1>2, <1>3 DEF IsPrefix, u

-----------------------------------------------------------------------------
(***************************************************************************)
(* Folds from left to right, which take the greatest place last.           *)
(***************************************************************************)
\* Of the places up to k, all but the last are those up to k - 1.
LEMMA FirstPlaces ==
  ASSUME NEW k \in Nat \ {0}
  PROVE  Max(1..k) = k /\ (1..k) \ {k} = 1..k - 1 /\ 1..k # {}
<1>1. 1..k \in SUBSET Nat /\ k \in 1..k /\ \A i \in 1..k : i <= k
  OBVIOUS
<1>2. Max(1..k) = k
  BY <1>1, GreatestOf, Zenon
<1> QED BY <1>1, <1>2

\* it is the fold of F from b over the places in each set of the first n.
Folding(F, b, n, it) ==
  it = [s \in SUBSET (1..n) |-> IF s = {} THEN b ELSE F[<<it[s \ {Max(s)}], Max(s)>>]]

\* There is a fold: with each place behind those so far, there is one over the
\* sets that hold it.
LEMMA FoldExists ==
  ASSUME NEW n \in Nat, NEW V, NEW b \in V, NEW F \in [V \X (1..n) -> V]
  PROVE  \E it \in [SUBSET (1..n) -> V] : Folding(F, b, n, it)
<1> DEFINE A == {m \in 0..n : \E it \in [SUBSET (1..m) -> V] : Folding(F, b, m, it)}
<1>1. 0 \in A
  <2> DEFINE it == [s \in SUBSET (1..0) |-> b]
  <2>1. \A s \in SUBSET (1..0) : s = {}
    OBVIOUS
  <2>2. it \in [SUBSET (1..0) -> V] /\ Folding(F, b, 0, it)
    BY <2>1, Zenon DEF Folding
  <2>3. 0 \in 0..n
    OBVIOUS
  <2> QED BY <2>2, <2>3, Zenon
<1>2. ASSUME NEW m \in 0..n - 1, m \in A PROVE m + 1 \in A
  <2>1. PICK it \in [SUBSET (1..m) -> V] : Folding(F, b, m, it)
    BY <1>2, Zenon
  <2> DEFINE k == m + 1
             more == [s \in SUBSET (1..k) |-> IF k \in s THEN F[<<it[s \ {k}], k>>] ELSE it[s]]
  <2>2. k \in 1..n /\ k \in 1..k /\ k \notin 1..m /\ k \in 0..n
    BY <1>2
  <2>3. \A s \in SUBSET (1..k) : s \ {k} \in SUBSET (1..m)
    BY <1>2
  <2>4. \A s \in SUBSET (1..k) : k \notin s => s \in SUBSET (1..m)
    BY <1>2
  <2>5. more \in [SUBSET (1..k) -> V]
    <3>1. \A s \in SUBSET (1..k) : k \in s => F[<<it[s \ {k}], k>>] \in V
      <4> HIDE DEF k
      <4> QED BY <2>2, <2>3
    <3>2. \A s \in SUBSET (1..k) : k \notin s => it[s] \in V
      BY <2>4, Zenon
    <3> HIDE DEF k
    <3> QED BY <3>1, <3>2, Zenon
  <2>6. ASSUME NEW s \in SUBSET (1..k)
        PROVE  more[s] = IF s = {} THEN b ELSE F[<<more[s \ {Max(s)}], Max(s)>>]
    <3>1. CASE k \in s
      <4>1. Max(s) = k
        <5>1. s \in SUBSET Nat /\ \A i \in s : i <= k
          BY <1>2
        <5> HIDE DEF k
        <5> QED BY <3>1, <5>1, GreatestOf, Zenon
      <4>2. s # {} /\ s \ {k} \in SUBSET (1..k) /\ k \notin s \ {k}
        BY <3>1, Zenon
      <4>3. more[s \ {k}] = it[s \ {k}]
        <5> HIDE DEF k
        <5> QED BY <4>2, Zenon
      <4> HIDE DEF k
      <4> QED BY <3>1, <4>1, <4>2, <4>3, Zenon
    <3>2. CASE k \notin s
      <4>1. s \in SUBSET (1..m)
        BY <2>4, <3>2, Zenon
      <4>2. it[s] = IF s = {} THEN b ELSE F[<<it[s \ {Max(s)}], Max(s)>>]
        BY <2>1, <4>1, Zenon DEF Folding
      <4>3. s \ {Max(s)} \in SUBSET (1..k) /\ k \notin s \ {Max(s)}
        BY <3>2, Zenon
      <4>4. more[s \ {Max(s)}] = it[s \ {Max(s)}]
        <5> HIDE DEF k
        <5> QED BY <4>3, Zenon
      <4>5. more[s] = it[s]
        BY <3>2, Zenon
      <4> HIDE DEF k, more
      <4> QED BY <4>2, <4>4, <4>5, Zenon
    <3> QED BY <3>1, <3>2, Zenon
  <2>7. Folding(F, b, k, more)
    <3>1. more = [s \in SUBSET (1..k) |-> more[s]]
      OBVIOUS
    <3> HIDE DEF k, more
    <3> QED BY <2>6, <3>1, Zenon DEF Folding
  <2> HIDE DEF k, more
  <2> QED BY <2>2, <2>5, <2>7, Zenon DEF k
<1>3. n \in A
  <2> HIDE DEF A
  <2> QED BY <1>1, <1>2, UpTo
<1> QED BY <1>3, Zenon

\* A fold as the library computes it, before its operator is known to be F.
Folded(it, next, b, n) ==
  \A s \in SUBSET (1..n) : it[s] = IF s = {} THEN b ELSE next[s]

AsGiven(it, next, F, V, n) ==
  \A s \in SUBSET (1..n) :
    s # {} /\ it[s \ {Max(s)}] \in V => next[s] = F[<<it[s \ {Max(s)}], Max(s)>>]

\* The values a fold takes on its way.
Values(g, F, b, n, it) ==
  /\ g[0] = b
  /\ \A k \in 1..n : g[k] = F[<<g[k - 1], k>>]
  /\ g[n] = it[1..n]

\* So a fold, as long as it stays in V, goes from place to place.
LEMMA FoldSteps ==
  ASSUME NEW n \in Nat, NEW V, NEW b \in V, NEW F \in [V \X (1..n) -> V], NEW it, NEW next,
         Folded(it, next, b, n), AsGiven(it, next, F, V, n)
  PROVE  \E g \in [0..n -> V] : Values(g, F, b, n, it)
<1> DEFINE g == [k \in 0..n |-> it[1..k]]
           A == {k \in 0..n : g[k] \in V}
<1>1. \A k \in 0..n : 1..k \in SUBSET (1..n) /\ g[k] = it[1..k]
  OBVIOUS
<1>2. g[0] = b
  BY <1>1, 1..0 = {}, 0 \in 0..n DEF Folded
<1> HIDE DEF g
<1>3. ASSUME NEW k \in 1..n, g[k - 1] \in V PROVE g[k] = F[<<g[k - 1], k>>]
  <2>1. k \in Nat \ {0} /\ k \in 0..n /\ k - 1 \in 0..n
    OBVIOUS
  <2>2. Max(1..k) = k /\ (1..k) \ {k} = 1..k - 1 /\ 1..k # {}
    BY <2>1, FirstPlaces, Zenon
  <2>3. it[(1..k) \ {Max(1..k)}] = g[k - 1]
    BY <1>1, <2>1, <2>2, Zenon
  <2>4. next[1..k] = F[<<g[k - 1], k>>]
    BY <1>1, <1>3, <2>1, <2>2, <2>3, Zenon DEF AsGiven
  <2> QED BY <1>1, <2>1, <2>2, <2>4, Zenon DEF Folded
<1>4. \A k \in 0..n : k \in A
  <2>1. 0 \in A
    BY <1>2
  <2>2. ASSUME NEW k \in 0..n - 1, k \in A PROVE k + 1 \in A
    <3>1. k + 1 \in 1..n /\ (k + 1) - 1 = k /\ k + 1 \in 0..n
      OBVIOUS
    <3>2. g[k + 1] = F[<<g[k], k + 1>>] /\ g[k] \in V
      BY <1>3, <2>2, <3>1
    <3>3. g[k + 1] \in V
      BY <3>1, <3>2
    <3> QED BY <3>1, <3>3, Zenon
  <2> HIDE DEF A
  <2> QED BY <2>1, <2>2, UpTo
<1>5. g \in [0..n -> V]
  <2>1. g = [k \in 0..n |-> g[k]]
    BY Zenon DEF g
  <2>2. \A k \in 0..n : g[k] \in V
    BY <1>4
  <2> QED BY <2>1, <2>2, Zenon
<1>6. \A k \in 1..n : g[k] = F[<<g[k - 1], k>>]
  <2>1. \A k \in 1..n : k - 1 \in 0..n
    OBVIOUS
  <2> QED BY <1>3, <1>4, <2>1, Zenon
<1>7. g[n] = it[1..n]
  BY <1>1, n \in 0..n
<1> QED BY <1>2, <1>5, <1>6, <1>7, Zenon DEF Values
=============================================================================
