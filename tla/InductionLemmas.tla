-------------------------- MODULE InductionLemmas --------------------------
(***************************************************************************)
(* Induction and what follows from it, as facts about sets: least and      *)
(* greatest numbers, sets that are closed under successors, and sets of    *)
(* numbers in their order.                                                 *)
(***************************************************************************)
EXTENDS Integers, FiniteSets, FiniteSetTheorems, WellFoundedInduction, TLAPS

\* Every set of naturals that is not empty has a least element: of the intervals
\* 0..n with n in it one contains no smaller one.
LEMMA LeastNumber ==
    ASSUME NEW S \in SUBSET Nat, S # {}
    PROVE  \E n \in S : \A m \in S : n <= m
<1> DEFINE T == {0..n : n \in S}
<1>1. T \subseteq FiniteSubsetsOf(Nat)
  <2>1. \A n \in Nat : IsFiniteSet(0..n)
    BY FS_Interval
  <2>2. QED
    BY <2>1 DEF FiniteSubsetsOf
<1>2. PICK x \in T : \A y \in T : ~ (<<y, x>> \in StrictSubsetOrdering(Nat))
  <2>1. IsWellFoundedOn(StrictSubsetOrdering(Nat), FiniteSubsetsOf(Nat))
    BY FS_StrictSubsetOrderingWellFounded
  <2>2. T # {}
    OBVIOUS
  <2>3. QED
    BY <1>1, <2>1, <2>2, WFMin
<1>3. PICK n \in S : x = 0..n
  OBVIOUS
<1>4. ASSUME NEW m \in S, m < n PROVE FALSE
  <2>1. <<0..m, 0..n>> \in StrictSubsetOrdering(Nat)
    BY <1>4 DEF StrictSubsetOrdering
  <2>2. QED
    BY <1>2, <1>3, <2>1
<1>5. QED
  BY <1>4

\* A set of naturals with 0 and the successor of each of its elements has them all.
LEMMA ClosedIsNat ==
    ASSUME NEW S \in SUBSET Nat, 0 \in S, \A n \in S : n + 1 \in S
    PROVE  S = Nat
<1> SUFFICES ASSUME Nat \ S # {} PROVE FALSE
  OBVIOUS
<1>1. PICK n \in Nat \ S : \A m \in Nat \ S : n <= m
  BY LeastNumber
<1>2. n # 0 /\ n - 1 \in S
  BY <1>1
<1>3. QED
  BY <1>1, <1>2

\* A set of naturals that has an element and a bound has a greatest element.
LEMMA GreatestNumber ==
    ASSUME NEW S \in SUBSET Nat, S # {}, NEW b \in Nat, \A n \in S : n <= b
    PROVE  \E n \in S : \A m \in S : m <= n
<1> DEFINE T == {b - n : n \in S}
<1>1. T \in SUBSET Nat /\ T # {}
  <2>1. \A n \in S : n \in Nat /\ n <= b
    OBVIOUS
  <2>2. \A n \in S : b - n \in Nat
    BY <2>1
  <2>3. QED
    BY <2>2
<1>2. PICK d \in T : \A e \in T : d <= e
  BY <1>1, LeastNumber
<1>3. PICK n \in S : d = b - n
  OBVIOUS
<1>4. ASSUME NEW m \in S PROVE m <= n
  <2>1. b - m \in T
    OBVIOUS
  <2>2. b - n <= b - m
    BY <1>2, <1>3, <2>1
  <2>3. QED
    BY <2>2
<1>5. QED
  BY <1>4

-----------------------------------------------------------------------------
\* A function on numbers whose values grow.
Increasing(s) == \A i, j \in DOMAIN s : i < j => s[i] < s[j]

\* A finite set of numbers has its numbers in order.
LEMMA IncreasingExists ==
    ASSUME NEW N \in Nat, NEW S \in SUBSET (1..N)
    PROVE  \E s \in [1..Cardinality(S) -> S] : Increasing(s)
<1> DEFINE P(n) == \A T \in SUBSET (1..n) : \E s \in [1..Cardinality(T) -> T] : Increasing(s)
           Q == {n \in Nat : P(n)}
<1>1. 0 \in Q
  <2> SUFFICES ASSUME NEW T \in SUBSET (1..0)
               PROVE  \E s \in [1..Cardinality(T) -> T] : Increasing(s)
    OBVIOUS
  <2>1. T = {}
    OBVIOUS
  <2>2. Cardinality(T) = 0
    BY <2>1, FS_EmptySet
  <2>3. 1..Cardinality(T) = {}
    BY <2>2
  <2>4. PICK s : s = [i \in {} |-> 0]
    OBVIOUS
  <2>5. s \in [1..Cardinality(T) -> T] /\ Increasing(s)
    BY <2>1, <2>3, <2>4 DEF Increasing
  <2>6. QED
    BY <2>5
<1>2. ASSUME NEW n \in Q PROVE n + 1 \in Q
  <2> SUFFICES ASSUME NEW S_ \in SUBSET (1..n + 1)
               PROVE  \E s \in [1..Cardinality(S_) -> S_] : Increasing(s)
    OBVIOUS
  <2>1. n \in Nat /\ P(n)
    OBVIOUS
  <2>2. CASE n + 1 \notin S_
    <3>1. S_ \in SUBSET (1..n)
      BY <2>1, <2>2
    <3>2. QED
      BY <2>1, <3>1
  <2>3. CASE n + 1 \in S_
    <3>1. PICK T : T = S_ \ {n + 1}
      OBVIOUS
    <3>2. T \in SUBSET (1..n) /\ S_ = T \cup {n + 1} /\ n + 1 \notin T
      BY <2>1, <2>3, <3>1
    <3>3. PICK t \in [1..Cardinality(T) -> T] : Increasing(t)
      BY <2>1, <3>2
    <3>4. IsFiniteSet(T)
      <4>1. IsFiniteSet(1..n)
        BY <2>1, FS_Interval
      <4>2. QED
        BY <3>2, <4>1, FS_Subset
    <3>5. PICK c \in Nat : c = Cardinality(T)
      BY <3>4, FS_CardinalityType
    <3>6. Cardinality(S_) = c + 1
      BY <3>2, <3>4, <3>5, FS_AddElement
    <3> DEFINE s == [i \in 1..c + 1 |-> IF i = c + 1 THEN n + 1 ELSE t[i]]
    <3>7. \A i \in 1..c + 1 : i = c + 1 \/ i \in 1..c
      OBVIOUS
    <3>8. \A i \in 1..c : t[i] \in T /\ t[i] < n + 1
      <4>1. t \in [1..c -> T]
        BY <3>5
      <4>2. \A x \in T : x \in 1..n
        BY <3>2
      <4>3. \A x \in 1..n : x < n + 1
        BY <2>1
      <4>4. QED
        BY <4>1, <4>2, <4>3
    <3>9. s \in [1..c + 1 -> S_]
      BY <3>2, <3>7, <3>8
    <3>10. ASSUME NEW i \in 1..c + 1, NEW j \in 1..c + 1, i < j PROVE s[i] < s[j]
      <4>1. i \in 1..c
        BY <3>10
      <4>2. CASE j = c + 1
        BY <3>8, <4>1, <4>2
      <4>3. CASE j \in 1..c
        BY <3>3, <3>5, <3>10, <4>1, <4>3 DEF Increasing
      <4>4. QED
        BY <3>7, <4>2, <4>3
    <3>11. DOMAIN s = 1..c + 1
      OBVIOUS
    <3>. HIDE DEF s
    <3>12. Increasing(s)
      BY <3>10, <3>11 DEF Increasing
    <3>13. QED
      BY <3>6, <3>9, <3>12
  <2>4. QED
    BY <2>2, <2>3
<1>3. Q \in SUBSET Nat
  OBVIOUS
<1>. HIDE DEF Q
<1>4. Q = Nat
  BY <1>1, <1>2, <1>3, ClosedIsNat
<1>5. QED
  BY <1>4 DEF Q

\* An increasing function from as many numbers as S has into S has all of S.
LEMMA IncreasingIsOnto ==
    ASSUME NEW N \in Nat, NEW S \in SUBSET (1..N),
           NEW s \in [1..Cardinality(S) -> S], Increasing(s)
    PROVE  \A x \in S : \E i \in 1..Cardinality(S) : s[i] = x
<1>1. IsFiniteSet(S)
  <2>1. IsFiniteSet(1..N)
    BY FS_Interval
  <2>2. QED
    BY <2>1, FS_Subset
<1>2. PICK c \in Nat : c = Cardinality(S)
  BY <1>1, FS_CardinalityType
<1>3. \A i, j \in 1..c : s[i] = s[j] => i = j
  <2> SUFFICES ASSUME NEW i \in 1..c, NEW j \in 1..c, s[i] = s[j], i # j PROVE FALSE
    OBVIOUS
  <2>1. s[i] \in Nat /\ s[j] \in Nat
    <3>1. s \in [1..c -> S]
      BY <1>2
    <3>2. \A x \in S : x \in Nat
      OBVIOUS
    <3>3. QED
      BY <3>1, <3>2
  <2>2. i < j \/ j < i
    OBVIOUS
  <2>3. QED
    BY <1>2, <2>1, <2>2 DEF Increasing
<1>4. s \in Injection(1..c, S)
  BY <1>2, <1>3 DEF Injection, IsInjective
<1>5. Cardinality(1..c) = c
  BY FS_Interval
<1>6. s \in Surjection(1..c, S)
  BY <1>1, <1>2, <1>4, <1>5, FS_Injection
<1>7. QED
  BY <1>2, <1>6 DEF Surjection

\* The first k numbers of a set in their order, and all of them.
LeavesNoneOut(s, k, S) ==
    /\ s \in [1..k -> S] /\ Increasing(s)
    /\ \A x \in S, i \in 1..k : x < s[i] => \E j \in 1..k : s[j] = x
HasAll(t, m, S) ==
    /\ t \in [1..m -> S] /\ Increasing(t)
    /\ \A x \in S : \E i \in 1..m : t[i] = x

\* An increasing function into S that leaves no smaller number of S out is how an
\* increasing function onto S begins.
LEMMA IncreasingBegins ==
    ASSUME NEW S \in SUBSET Nat, NEW k \in Nat, NEW m \in Nat,
           NEW s, LeavesNoneOut(s, k, S), NEW t, HasAll(t, m, S)
    PROVE  k <= m /\ \A i \in 1..k : s[i] = t[i]
<1>5. /\ s \in [1..k -> S] /\ Increasing(s) /\ t \in [1..m -> S] /\ Increasing(t)
      /\ \A x \in S : \E i \in 1..m : t[i] = x
      /\ \A x \in S, i \in 1..k : x < s[i] => \E j \in 1..k : s[j] = x
  BY DEF LeavesNoneOut, HasAll
<1> DEFINE W == {i \in 1..k : ~(i <= m /\ s[i] = t[i])}
<1>1. ASSUME W # {} PROVE FALSE
  <2>1. PICK i \in W : \A j \in W : i <= j
    <3>1. W \in SUBSET Nat
      OBVIOUS
    <3>. HIDE DEF W
    <3>2. QED
      BY <1>1, <3>1, LeastNumber
  <2>2. \A j \in 1..k : j < i => j <= m /\ s[j] = t[j]
    BY <2>1
  <2>3. i \in 1..k /\ s[i] \in S /\ s[i] \in Nat
    BY <1>5
  <2>4. PICK l \in 1..m : t[l] = s[i]
    BY <1>5, <2>3
  <2>5. ~(l < i)
    BY <1>5, <2>2, <2>3, <2>4 DEF Increasing
  <2>6. i \in 1..m /\ t[i] \in S /\ t[i] \in Nat
    <3>1. i \in Nat /\ l \in Nat /\ 1 <= i /\ i <= l /\ l <= m
      BY <2>3, <2>5
    <3>2. i \in 1..m
      BY <3>1
    <3>3. t[i] \in S
      BY <1>5, <3>2
    <3>4. QED
      BY <3>2, <3>3
  <2>7. t[i] <= s[i]
    BY <1>5, <2>3, <2>4, <2>5, <2>6 DEF Increasing
  <2>8. t[i] # s[i]
    BY <2>1, <2>6
  <2>9. PICK j \in 1..k : s[j] = t[i]
    BY <1>5, <2>3, <2>6, <2>7, <2>8
  <2>10. CASE j < i
    <3>1. s[j] = t[j] /\ j \in 1..m
      BY <2>2, <2>10
    <3>2. t[j] < t[i]
      BY <1>5, <2>6, <2>10, <3>1 DEF Increasing
    <3>3. QED
      BY <2>6, <2>9, <3>1, <3>2
  <2>11. CASE ~(j < i)
    BY <1>5, <2>3, <2>6, <2>7, <2>8, <2>9, <2>11 DEF Increasing
  <2>12. QED
    BY <2>10, <2>11
<1>2. \A i \in 1..k : i <= m /\ s[i] = t[i]
  BY <1>1
<1>3. k <= m
  <2>1. CASE k = 0
    BY <2>1
  <2>2. CASE k # 0
    <3>1. k \in 1..k
      BY <2>2
    <3>2. QED
      BY <1>2, <3>1
  <2>3. QED
    BY <2>1, <2>2
<1>4. QED
  BY <1>2, <1>3
=============================================================================
