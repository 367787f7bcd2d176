---------------------- MODULE CommandProgress_proofs ----------------------
(***************************************************************************)
(* Proofs that the processes count what they announced, for any workers,   *)
(* any commands that are made of indexes of any nodes, and any reporter.   *)
(* What is still to be counted is a sum over the calls that the main       *)
(* thread, the tasks in the queue and the workers have left; sums are      *)
(* cardinalities here, so that no induction is needed for their laws.      *)
(***************************************************************************)
EXTENDS CommandProgress, InductionLemmas

\* The sum of the values of w, as the number of the pairs of an argument and one
\* of the units of its value.
Units(w) == UNION {{k} \X (1..w[k]) : k \in DOMAIN w}
Total(w) == Cardinality(Units(w))
Weights(D) == [D -> Nat]

\* What the units are.
LEMMA UnitsAre ==
    ASSUME NEW D, NEW w \in Weights(D)
    PROVE  /\ \A k \in D : \A n \in 1..w[k] : <<k, n>> \in Units(w)
           /\ \A u \in Units(w) : \E k \in D : \E n \in 1..w[k] : u = <<k, n>>
<1>1. DOMAIN w = D
  BY DEF Weights
<1>2. ASSUME NEW k \in D, NEW n \in 1..w[k] PROVE <<k, n>> \in Units(w)
  <2>1. <<k, n>> \in {k} \X (1..w[k])
    BY <1>2
  <2>2. QED
    BY <1>1, <2>1 DEF Units
<1>3. ASSUME NEW u \in Units(w) PROVE \E k \in D : \E n \in 1..w[k] : u = <<k, n>>
  <2>1. PICK k \in D : u \in {k} \X (1..w[k])
    BY <1>1 DEF Units
  <2>2. QED
    BY <2>1
<1>4. QED
  BY <1>2, <1>3

\* There are n numbers up to n.
LEMMA NumbersAre ==
    ASSUME NEW n \in Nat
    PROVE  IsFiniteSet(1..n) /\ Cardinality(1..n) = n
<1>1. 1 \in Int /\ n \in Int
  OBVIOUS
<1>2. IsFiniteSet(1..n) /\ Cardinality(1..n) = IF 1 > n THEN 0 ELSE n - 1 + 1
  BY <1>1, FS_Interval, Zenon
<1>3. (IF 1 > n THEN 0 ELSE n - 1 + 1) = n
  OBVIOUS
<1>4. QED
  BY <1>2, <1>3

\* The units of one value are as many as the value.
LEMMA UnitsOfOne ==
    ASSUME NEW k, NEW n \in Nat
    PROVE  IsFiniteSet({k} \X (1..n)) /\ Cardinality({k} \X (1..n)) = n
<1>1. IsFiniteSet({k}) /\ Cardinality({k}) = 1
  BY FS_Singleton
<1>2. IsFiniteSet(1..n) /\ Cardinality(1..n) = n
  BY NumbersAre
<1>3. Cardinality({k} \X (1..n)) = 1 * n /\ IsFiniteSet({k} \X (1..n))
  <2> DEFINE A == {k} B == 1..n
  <2>1. IsFiniteSet(A) /\ IsFiniteSet(B) /\ Cardinality(A) = 1 /\ Cardinality(B) = n
    BY <1>1, <1>2
  <2> HIDE DEF A, B
  <2>2. IsFiniteSet(A \X B) /\ Cardinality(A \X B) = Cardinality(A) * Cardinality(B)
    BY <2>1, FS_Product, Zenon
  <2>3. IsFiniteSet(A \X B) /\ Cardinality(A \X B) = 1 * n
    BY <2>1, <2>2
  <2>4. QED
    BY <2>3 DEF A, B
<1>4. QED
  BY <1>3

\* A sum of finitely many values is a natural.
LEMMA TotalIsNat ==
    ASSUME NEW D, IsFiniteSet(D), NEW w \in Weights(D)
    PROVE  IsFiniteSet(Units(w)) /\ Total(w) \in Nat
<1> DEFINE parts == {{k} \X (1..w[k]) : k \in D}
<1>1. DOMAIN w = D /\ \A k \in D : w[k] \in Nat
  BY DEF Weights
<1>2. IsFiniteSet(parts)
  <2> DEFINE part == [k \in D |-> {k} \X (1..w[k])]
  <2>1. part \in [D -> parts] /\ \A x \in parts : \E k \in D : part[k] = x
    OBVIOUS
  <2>2. part \in Surjection(D, parts)
    BY <2>1 DEF Surjection
  <2> HIDE DEF part, parts
  <2>3. QED
    BY <2>2, FS_Surjection
<1>3. \A x \in parts : IsFiniteSet(x)
  <2>1. ASSUME NEW k \in D PROVE IsFiniteSet({k} \X (1..w[k]))
    BY <1>1, UnitsOfOne, Zenon
  <2>2. QED
    BY <2>1
<1>4. IsFiniteSet(UNION parts)
  <2> HIDE DEF parts
  <2>1. QED
    BY <1>2, <1>3, FS_UNION
<1>5. Units(w) = UNION parts
  BY <1>1 DEF Units
<1>6. IsFiniteSet(Units(w))
  BY <1>4, <1>5
<1>7. QED
  BY <1>6, FS_CardinalityType DEF Total

\* The sum without one value, and the sum with it.
LEMMA TotalWithout ==
    ASSUME NEW D, IsFiniteSet(D), NEW w \in Weights(D), NEW k \in D
    PROVE  /\ [w EXCEPT ![k] = 0] \in Weights(D)
           /\ Total(w) = Total([w EXCEPT ![k] = 0]) + w[k]
<1>1. PICK v : v = [w EXCEPT ![k] = 0]
  OBVIOUS
<1>2. /\ w \in [D -> Nat] /\ w[k] \in Nat
      /\ v \in Weights(D) /\ v[k] = 0 /\ \A j \in D : j # k => v[j] = w[j]
  BY <1>1 DEF Weights
<1>3. PICK U : U = {k} \X (1..w[k])
  OBVIOUS
<1>4. IsFiniteSet(U) /\ Cardinality(U) = w[k]
  BY <1>2, <1>3, UnitsOfOne
<1>5. \A u \in Units(w) : u \in Units(v) \/ u \in U
  <2> SUFFICES ASSUME NEW u \in Units(w) PROVE u \in Units(v) \/ u \in U
    OBVIOUS
  <2>1. PICK j \in D, n \in Nat : u = <<j, n>> /\ n \in 1..w[j]
    BY UnitsAre
  <2>2. CASE j = k
    BY <1>3, <2>1, <2>2
  <2>3. CASE j # k
    BY <1>2, <2>1, <2>3, UnitsAre
  <2>4. QED
    BY <2>2, <2>3
<1>6. \A u \in Units(v) : u \in Units(w) /\ u \notin U
  <2> SUFFICES ASSUME NEW u \in Units(v) PROVE u \in Units(w) /\ u \notin U
    OBVIOUS
  <2>1. PICK j \in D, n \in Nat : u = <<j, n>> /\ n \in 1..v[j]
    BY <1>2, UnitsAre
  <2>2. j # k
    BY <1>2, <2>1
  <2>3. n \in 1..w[j]
    BY <1>2, <2>1, <2>2
  <2>4. u \in Units(w)
    BY <2>1, <2>3, UnitsAre
  <2>5. QED
    BY <1>3, <2>1, <2>2, <2>4
<1>7. \A u \in U : u \in Units(w)
  <2> SUFFICES ASSUME NEW u \in U PROVE u \in Units(w)
    OBVIOUS
  <2>1. PICK n \in 1..w[k] : u = <<k, n>>
    BY <1>3
  <2>2. QED
    BY <2>1, UnitsAre
<1>8. Units(w) = Units(v) \cup U /\ Units(v) \cap U = {}
  BY <1>5, <1>6, <1>7
<1>9. IsFiniteSet(Units(v)) /\ Total(v) \in Nat
  BY <1>2, TotalIsNat
<1>10. Cardinality(Units(v) \cup U) = Cardinality(Units(v)) + Cardinality(U) - Cardinality({})
  BY <1>4, <1>8, <1>9, FS_Union
<1>11. Total(w) = Total(v) + w[k]
  BY <1>2, <1>4, <1>8, <1>9, <1>10, FS_EmptySet DEF Total
<1>12. QED
  BY <1>1, <1>2, <1>11

\* A sum changes by as much as one of its values.
LEMMA TotalChanges ==
    ASSUME NEW D, IsFiniteSet(D), NEW v \in Weights(D), NEW w \in Weights(D), NEW k \in D,
           \A j \in D : j # k => v[j] = w[j]
    PROVE  Total(v) + w[k] = Total(w) + v[k]
<1>1. /\ v[k] \in Nat /\ w[k] \in Nat
      /\ v \in [D -> Nat] /\ w \in [D -> Nat]
  BY DEF Weights
<1>2. [v EXCEPT ![k] = 0] = [w EXCEPT ![k] = 0]
  <2>1. \A j \in D : [v EXCEPT ![k] = 0][j] = [w EXCEPT ![k] = 0][j]
    BY <1>1
  <2>2. QED
    BY <1>1, <2>1
<1>3. PICK z : z = [w EXCEPT ![k] = 0]
  OBVIOUS
<1>4. Total(v) = Total(z) + v[k] /\ Total(w) = Total(z) + w[k] /\ Total(z) \in Nat
  BY <1>2, <1>3, TotalWithout, TotalIsNat
<1>5. QED
  BY <1>1, <1>4

\* A sum of zeros is 0.
LEMMA TotalOfZeros ==
    ASSUME NEW D, NEW w \in Weights(D), \A k \in D : w[k] = 0
    PROVE  Total(w) = 0
<1>1. Units(w) = {}
  BY UnitsAre
<1>2. QED
  BY <1>1, FS_EmptySet DEF Total

\* A sum is zero only if all its values are.
LEMMA TotalIsZero ==
    ASSUME NEW D, IsFiniteSet(D), NEW w \in Weights(D)
    PROVE  Total(w) = 0 <=> \A k \in D : w[k] = 0
<1>1. ASSUME Total(w) = 0, NEW k \in D PROVE w[k] = 0
  <2>1. /\ [w EXCEPT ![k] = 0] \in Weights(D)
        /\ Total(w) = Total([w EXCEPT ![k] = 0]) + w[k]
    BY TotalWithout
  <2>2. Total([w EXCEPT ![k] = 0]) \in Nat /\ w[k] \in Nat
    BY <2>1, TotalIsNat DEF Weights
  <2>3. QED
    BY <1>1, <2>1, <2>2
<1>2. QED
  BY <1>1, TotalOfZeros

\* A sum is not greater than another one with more and greater values.
LEMMA TotalGrows ==
    ASSUME NEW E, IsFiniteSet(E), NEW D \in SUBSET E, NEW v \in Weights(D), NEW w \in Weights(E),
           \A k \in D : v[k] <= w[k]
    PROVE  Total(v) <= Total(w)
<1>1. \A k \in D : v[k] \in Nat /\ w[k] \in Nat
  BY DEF Weights
<1>2. Units(v) \subseteq Units(w)
  <2> SUFFICES ASSUME NEW u \in Units(v) PROVE u \in Units(w)
    OBVIOUS
  <2>1. PICK k \in D, n \in Nat : u = <<k, n>> /\ n \in 1..v[k]
    BY UnitsAre
  <2>2. n \in 1..w[k]
    BY <1>1, <2>1
  <2>3. QED
    BY <2>1, <2>2, UnitsAre
<1>3. QED
  BY <1>2, TotalIsNat, FS_Subset DEF Total

\* A sum in another order.
LEMMA TotalReordered ==
    ASSUME NEW D, IsFiniteSet(D), NEW E, NEW h \in Bijection(D, E),
           NEW v \in Weights(D), NEW w \in Weights(E), \A k \in D : v[k] = w[h[k]]
    PROVE  Total(v) = Total(w)
<1> DEFINE g == [u \in Units(v) |-> <<h[u[1]], u[2]>>]
<1>0. h \in [D -> E] /\ \A x, y \in D : h[x] = h[y] => x = y
  BY DEF Bijection, Injection, IsInjective
<1>1. \A e \in E : \E x \in D : h[x] = e
  BY DEF Bijection, Surjection
<1>2. g \in [Units(v) -> Units(w)]
  <2> SUFFICES ASSUME NEW u \in Units(v) PROVE <<h[u[1]], u[2]>> \in Units(w)
    OBVIOUS
  <2>1. PICK k \in D, n \in Nat : u = <<k, n>> /\ n \in 1..v[k]
    BY UnitsAre
  <2>2. h[k] \in E /\ n \in 1..w[h[k]]
    BY <1>0, <2>1
  <2>3. <<h[k], n>> \in Units(w)
    BY <2>2, UnitsAre
  <2>4. QED
    BY <2>1, <2>3
<1>3. \A x, y \in Units(v) : g[x] = g[y] => x = y
  <2> SUFFICES ASSUME NEW x \in Units(v), NEW y \in Units(v), g[x] = g[y] PROVE x = y
    OBVIOUS
  <2>1. PICK k \in D, n \in Nat : x = <<k, n>> /\ n \in 1..v[k]
    BY UnitsAre
  <2>2. PICK l \in D, m \in Nat : y = <<l, m>> /\ m \in 1..v[l]
    BY UnitsAre
  <2>3. <<h[k], n>> = <<h[l], m>>
    BY <2>1, <2>2
  <2>4. h[k] = h[l] /\ n = m
    BY <2>3
  <2>5. QED
    BY <1>0, <2>1, <2>2, <2>4
<1>4. \A u \in Units(w) : \E x \in Units(v) : g[x] = u
  <2> SUFFICES ASSUME NEW u \in Units(w) PROVE \E x \in Units(v) : g[x] = u
    OBVIOUS
  <2>1. PICK e \in E, n \in Nat : u = <<e, n>> /\ n \in 1..w[e]
    BY UnitsAre
  <2>2. PICK k \in D : h[k] = e
    BY <1>1
  <2>3. <<k, n>> \in Units(v)
    BY <2>1, <2>2, UnitsAre
  <2>4. g[<<k, n>>] = <<e, n>>
    BY <2>2, <2>3
  <2>5. QED
    BY <2>1, <2>3, <2>4
<1>5. g \in Bijection(Units(v), Units(w))
  <2> HIDE DEF g
  <2>1. QED
    BY <1>2, <1>3, <1>4 DEF Bijection, Injection, Surjection, IsInjective
<1>6. IsFiniteSet(Units(v)) /\ ExistsBijection(Units(v), Units(w))
  BY <1>5, TotalIsNat DEF ExistsBijection
<1>7. QED
  BY <1>6, FS_Bijection DEF Total

\* A sum leaves out what is 0.
LEMMA TotalDropsZeros ==
    ASSUME NEW E, NEW D \in SUBSET E, NEW v \in Weights(D), NEW w \in Weights(E),
           \A k \in D : v[k] = w[k], \A k \in E \ D : w[k] = 0
    PROVE  Total(v) = Total(w)
<1>1. \A u \in Units(v) : u \in Units(w)
  <2> SUFFICES ASSUME NEW u \in Units(v) PROVE u \in Units(w)
    OBVIOUS
  <2>1. PICK k \in D, n \in Nat : u = <<k, n>> /\ n \in 1..v[k]
    BY UnitsAre
  <2>2. k \in E /\ n \in 1..w[k]
    BY <2>1
  <2>3. QED
    BY <2>1, <2>2, UnitsAre
<1>2. \A u \in Units(w) : u \in Units(v)
  <2> SUFFICES ASSUME NEW u \in Units(w) PROVE u \in Units(v)
    OBVIOUS
  <2>1. PICK k \in E, n \in Nat : u = <<k, n>> /\ n \in 1..w[k]
    BY UnitsAre
  <2>2. k \in D
    BY <2>1
  <2>3. n \in 1..v[k]
    BY <2>1, <2>2
  <2>4. QED
    BY <2>1, <2>2, <2>3, UnitsAre
<1>3. Units(v) = Units(w)
  BY <1>1, <1>2
<1>4. QED
  BY <1>3 DEF Total

\* A sum of zeros and ones counts the ones.
LEMMA TotalOfOnes ==
    ASSUME NEW D, IsFiniteSet(D), NEW w \in Weights(D), \A k \in D : w[k] \in {0, 1}
    PROVE  Total(w) = Cardinality({k \in D : w[k] = 1})
<1> DEFINE O == {k \in D : w[k] = 1}
           v == [k \in O |-> 1]
<1>1. v \in Weights(O) /\ \A k \in O : v[k] = 1
  BY DEF Weights
<1>2. Units(v) = O \X {1}
  <2>1. DOMAIN v = O /\ 1..1 = {1}
    OBVIOUS
  <2>2. Units(v) = UNION {{k} \X {1} : k \in O}
    BY <2>1 DEF Units
  <2> HIDE DEF O
  <2>3. QED
    BY <2>2
<1>3. Total(v) = Total(w)
  <2>1. O \in SUBSET D /\ (\A k \in O : v[k] = w[k]) /\ \A k \in D \ O : w[k] = 0
    BY <1>1
  <2> HIDE DEF O, v
  <2>2. QED
    BY <1>1, <2>1, TotalDropsZeros
<1>4. IsFiniteSet(O)
  BY FS_Subset
<1>5. Cardinality(O \X {1}) = Cardinality(O)
  <2> HIDE DEF O
  <2>1. IsFiniteSet({1}) /\ Cardinality({1}) = 1
    BY FS_Singleton
  <2>2. PICK A : A = {1}
    OBVIOUS
  <2>3. Cardinality(O \X A) = Cardinality(O) * Cardinality(A) /\ Cardinality(O) \in Nat
    BY <1>4, <2>1, <2>2, FS_Product, FS_CardinalityType, Zenon
  <2>4. QED
    BY <2>1, <2>2, <2>3
<1>6. QED
  BY <1>2, <1>3, <1>5 DEF Total

\* A sum is one of its values and the sum of the others.
LEMMA TotalRemoves ==
    ASSUME NEW D, IsFiniteSet(D), NEW w \in Weights(D), NEW k \in D
    PROVE  Total(w) = w[k] + Total([j \in D \ {k} |-> w[j]])
<1>1. PICK z : z = [w EXCEPT ![k] = 0]
  OBVIOUS
<1>2. PICK v : v = [j \in D \ {k} |-> w[j]]
  OBVIOUS
<1>3. /\ z \in Weights(D) /\ z[k] = 0 /\ \A j \in D \ {k} : z[j] = w[j]
      /\ v \in Weights(D \ {k}) /\ \A j \in D \ {k} : v[j] = w[j]
      /\ w[k] \in Nat
  BY <1>1, <1>2 DEF Weights
<1>4. Total(v) = Total(z)
  BY <1>3, TotalDropsZeros
<1>5. Total(w) = Total(z) + w[k] /\ Total(z) \in Nat
  BY <1>1, <1>3, TotalWithout, TotalIsNat
<1>6. QED
  BY <1>2, <1>3, <1>4, <1>5

\* The fold of the community modules computes the sum.
LEMMA SumIsTotal ==
    ASSUME NEW S, IsFiniteSet(S), NEW f, \A x \in S : f[x] \in Nat
    PROVE  SumFunctionOnSet(f, S) = Total([x \in S |-> f[x]])
<1> DEFINE Fold(iter) == [s \in SUBSET S |->
               IF s = {} THEN 0
               ELSE f[CHOOSE x \in s : TRUE] + iter[s \ {CHOOSE x \in s : TRUE}]]
           it == CHOOSE iter : iter = Fold(iter)
           g == [s \in SUBSET S |-> Total([x \in s |-> f[x]])]
<1>1. SumFunctionOnSet(f, S) = it[S]
  BY DEF SumFunctionOnSet, FoldFunctionOnSet, MapThenFoldSet
<1>2. \A s \in SUBSET S : IsFiniteSet(s) /\ [x \in s |-> f[x]] \in Weights(s)
  BY FS_Subset DEF Weights
<1>3. ASSUME NEW s \in SUBSET S
      PROVE  g[s] = IF s = {} THEN 0
                    ELSE f[CHOOSE x \in s : TRUE] + g[s \ {CHOOSE x \in s : TRUE}]
  <2>1. PICK w : w = [x \in s |-> f[x]]
    OBVIOUS
  <2>2. w \in Weights(s) /\ IsFiniteSet(s) /\ g[s] = Total(w)
    BY <1>2, <2>1
  <2>3. CASE s = {}
    <3>1. Total(w) = 0
      BY <2>2, <2>3, TotalOfZeros
    <3>2. QED
      BY <2>2, <2>3, <3>1
  <2>4. CASE s # {}
    <3>1. PICK k : k = CHOOSE x \in s : TRUE
      OBVIOUS
    <3>2. k \in s
      BY <2>4, <3>1
    <3>3. Total(w) = w[k] + Total([j \in s \ {k} |-> w[j]])
      BY <2>2, <3>2, TotalRemoves
    <3>4. w[k] = f[k] /\ [j \in s \ {k} |-> w[j]] = [j \in s \ {k} |-> f[j]]
      BY <2>1, <3>2
    <3>5. g[s \ {k}] = Total([j \in s \ {k} |-> f[j]])
      OBVIOUS
    <3>6. g[s] = f[k] + g[s \ {k}]
      BY <2>2, <3>3, <3>4, <3>5
    <3>7. QED
      BY <2>4, <3>1, <3>6, Zenon
  <2>5. QED
    BY <2>3, <2>4
<1>4. g = Fold(g)
  <2>1. \A s \in SUBSET S : g[s] = Fold(g)[s]
    BY <1>3
  <2>2. QED
    BY <2>1
<1>5. it = Fold(it)
  <2> HIDE DEF g, Fold
  <2>1. QED
    BY <1>4
<1>6. \A s \in SUBSET S : it[s] = g[s]
  <2> SUFFICES ASSUME NEW t \in SUBSET S, it[t] # g[t] PROVE FALSE
    OBVIOUS
  <2> DEFINE Bad == {s \in SUBSET S : it[s] # g[s]}
             Sizes == {Cardinality(s) : s \in Bad}
  <2>1. \A s \in SUBSET S : Cardinality(s) \in Nat
    BY <1>2, FS_CardinalityType
  <2>2. Sizes \in SUBSET Nat /\ Cardinality(t) \in Sizes
    <3> HIDE DEF it, g
    <3>1. QED
      BY <2>1
  <2>3. PICK n \in Sizes : \A m \in Sizes : n <= m
    <3> HIDE DEF Sizes
    <3>1. QED
      BY <2>2, LeastNumber
  <2>4. PICK s \in SUBSET S : it[s] # g[s] /\ n = Cardinality(s)
    <3> HIDE DEF it, g
    <3>1. QED
      BY <2>3
  <2>5. PICK k : k = CHOOSE x \in s : TRUE
    OBVIOUS
  <2>6. /\ it[s] = IF s = {} THEN 0 ELSE f[k] + it[s \ {k}]
        /\ g[s] = IF s = {} THEN 0 ELSE f[k] + g[s \ {k}]
    <3>1. it[s] = Fold(it)[s]
      <4> HIDE DEF it, Fold
      <4>1. QED
        BY <1>5
    <3> HIDE DEF it, g
    <3>2. QED
      BY <1>3, <2>5, <3>1, Zenon
  <2>7. s # {} /\ it[s \ {k}] # g[s \ {k}]
    <3> HIDE DEF it, g
    <3>1. QED
      BY <2>4, <2>6
  <2>8. k \in s
    BY <2>5, <2>7
  <2>9. s \ {k} \in SUBSET S /\ Cardinality(s \ {k}) = n - 1
    BY <1>2, <2>4, <2>8, FS_RemoveElement
  <2>10. n - 1 \in Sizes
    <3> HIDE DEF it, g
    <3>1. QED
      BY <2>7, <2>9
  <2>11. n <= n - 1 /\ n \in Nat
    BY <2>1, <2>3, <2>4, <2>10
  <2>12. QED
    BY <2>11
<1>7. QED
  <2>1. S \in SUBSET S
    OBVIOUS
  <2> HIDE DEF it
  <2>2. QED
    BY <1>1, <1>6, <2>1

-----------------------------------------------------------------------------
\* What the calls of a command can be.
CallNames == {"AddTotalSize", "AddFinishedSize", "ReduceTotalSize",
              "IncFileCount", "IncFinishedCount", "OutOfBounds", "Throw"}
Call == {c \in [call : CallNames, n : Nat] :
            c.call \in {"IncFinishedCount", "Throw"} => c.n = 1}
Titles == {"Reading directory", "Computing index differences", "Resolving deleted nodes",
           "Indexing potentially new nodes", "Creating snapshot", "Verifying snapshot",
           "Restoring snapshot"}
PlannedProcess ==
    [title : Titles, isEndDeterminate : BOOLEAN, nFiles : Nat, totalSize : 0..UInt64Size - 1,
     mainCalls : Seq(Call), tasks : Seq(Seq(Call))]

\* The two calls that count, these and the exception, and how much a call counts.
Counters == {"IncFinishedCount", "AddFinishedSize"}
Kinds == Counters \cup {"Throw"}
Amount(c, kind) == IF c.call = kind THEN c.n ELSE 0

\* What each call of s after the first k counts, and all of them; the same for the
\* tasks after the first k.
Amounts(s, k, kind) == [j \in 1..Len(s) |-> IF j > k THEN Amount(s[j], kind) ELSE 0]
AmountAfter(s, k, kind) == Total(Amounts(s, k, kind))
TaskAmounts(ts, k, kind) ==
    [t \in 1..Len(ts) |-> IF t > k THEN AmountAfter(ts[t], 0, kind) ELSE 0]
TasksAfter(ts, k, kind) == Total(TaskAmounts(ts, k, kind))

\* A call counts a natural.
LEMMA AmountIsNat ==
    ASSUME NEW c \in Call, NEW kind PROVE Amount(c, kind) \in Nat
BY DEF Amount, Call

\* The amounts of calls are weights.
LEMMA AmountAfterIsNat ==
    ASSUME NEW s \in Seq(Call), NEW k \in Nat, NEW kind
    PROVE  /\ Amounts(s, k, kind) \in Weights(1..Len(s))
           /\ IsFiniteSet(1..Len(s))
           /\ AmountAfter(s, k, kind) \in Nat
<1>1. \A j \in 1..Len(s) : s[j] \in Call
  OBVIOUS
<1>2. \A j \in 1..Len(s) : (IF j > k THEN Amount(s[j], kind) ELSE 0) \in Nat
  BY <1>1, AmountIsNat
<1>3. Amounts(s, k, kind) \in Weights(1..Len(s))
  BY <1>2 DEF Weights, Amounts
<1>4. IsFiniteSet(1..Len(s))
  BY FS_Interval
<1>5. QED
  BY <1>3, <1>4, TotalIsNat DEF AmountAfter

\* After the next call what is left is less by its amount.
LEMMA AmountAfterNext ==
    ASSUME NEW s \in Seq(Call), NEW k \in Nat, k < Len(s), NEW kind
    PROVE  AmountAfter(s, k, kind) = Amount(s[k + 1], kind) + AmountAfter(s, k + 1, kind)
<1> DEFINE D == 1..Len(s)
           v == Amounts(s, k, kind)
           w == Amounts(s, k + 1, kind)
<1>1. v \in Weights(D) /\ w \in Weights(D) /\ IsFiniteSet(D)
  <2>1. k + 1 \in Nat
    OBVIOUS
  <2>2. QED
    BY <2>1, AmountAfterIsNat, Zenon
<1>2. k + 1 \in D /\ \A j \in D : j # k + 1 => v[j] = w[j]
  BY DEF Amounts
<1>3. v[k + 1] = Amount(s[k + 1], kind) /\ w[k + 1] = 0
  BY <1>2 DEF Amounts
<1>4. Total(v) \in Nat /\ Total(w) \in Nat /\ AmountAfter(s, k, kind) = Total(v)
      /\ AmountAfter(s, k + 1, kind) = Total(w)
  BY <1>1, TotalIsNat DEF AmountAfter
<1>5. v[k + 1] \in Nat
  BY <1>1, <1>2 DEF Weights
<1> HIDE DEF v, w, D
<1>6. Total(v) + w[k + 1] = Total(w) + v[k + 1]
  BY <1>1, <1>2, TotalChanges
<1>7. QED
  BY <1>3, <1>4, <1>5, <1>6

\* Nothing is left after the last.
LEMMA AmountAfterAll ==
    ASSUME NEW s \in Seq(Call), NEW kind
    PROVE  AmountAfter(s, Len(s), kind) = 0
<1> DEFINE D == 1..Len(s)
           v == Amounts(s, Len(s), kind)
<1>1. v \in Weights(D)
  BY AmountAfterIsNat
<1>2. \A j \in D : v[j] = 0
  BY DEF Amounts
<1>3. AmountAfter(s, Len(s), kind) = Total(v)
  BY DEF AmountAfter
<1> HIDE DEF v, D
<1>4. QED
  BY <1>1, <1>2, <1>3, TotalOfZeros

\* The calls after the first are the tail.
LEMMA AmountOfTail ==
    ASSUME NEW s \in Seq(Call), s # <<>>, NEW kind
    PROVE  /\ Head(s) \in Call /\ Tail(s) \in Seq(Call)
           /\ AmountAfter(s, 0, kind) = Amount(Head(s), kind) + AmountAfter(Tail(s), 0, kind)
<1>1. PICK t : t = Tail(s)
  OBVIOUS
<1>2. PICK n \in Nat : n = Len(t)
  BY <1>1
<1>3. /\ t \in Seq(Call) /\ Len(s) = n + 1 /\ Head(s) = s[1] /\ s[1] \in Call
      /\ \A j \in 1..n : t[j] = s[j + 1]
  BY <1>1, <1>2
<1> DEFINE D == 1..n
           F == 2..n + 1
           E == 1..n + 1
           v == Amounts(t, 0, kind)
           u == [j \in F |-> Amount(s[j], kind)]
           w == Amounts(s, 1, kind)
           h == [j \in D |-> j + 1]
<1>4. v \in Weights(D) /\ IsFiniteSet(D) /\ AmountAfter(t, 0, kind) = Total(v)
  BY <1>2, <1>3, AmountAfterIsNat DEF AmountAfter
<1>5. w \in Weights(E) /\ AmountAfter(s, 1, kind) = Total(w)
  BY <1>3, AmountAfterIsNat DEF AmountAfter
<1>6. u \in Weights(F)
  <2>1. \A j \in F : s[j] \in Call
    BY <1>3
  <2>2. \A j \in F : Amount(s[j], kind) \in Nat
    BY <2>1, AmountIsNat
  <2>3. QED
    BY <2>2 DEF Weights
<1>7. /\ F \in SUBSET E
      /\ \A j \in F : u[j] = w[j]
      /\ \A j \in E \ F : w[j] = 0
  BY <1>3 DEF Amounts
<1>8. h \in Bijection(D, F)
  <2>1. h \in [D -> F] /\ \A x, y \in D : h[x] = h[y] => x = y
    OBVIOUS
  <2>2. \A y \in F : y - 1 \in D /\ h[y - 1] = y
    OBVIOUS
  <2> HIDE DEF h, D, F
  <2>3. QED
    BY <2>1, <2>2 DEF Bijection, Injection, Surjection, IsInjective
<1>9. \A j \in D : v[j] = u[h[j]]
  BY <1>2, <1>3 DEF Amounts
<1> HIDE DEF v, u, w, h, D, E, F
<1>10. Total(v) = Total(u)
  BY <1>4, <1>6, <1>8, <1>9, TotalReordered
<1>11. Total(u) = Total(w)
  BY <1>5, <1>6, <1>7, TotalDropsZeros
<1>12. AmountAfter(s, 0, kind) = Amount(s[1], kind) + AmountAfter(s, 1, kind)
  BY <1>2, <1>3, AmountAfterNext
<1>13. QED
  BY <1>1, <1>3, <1>4, <1>5, <1>10, <1>11, <1>12

\* The amounts of tasks are weights.
LEMMA TasksAfterIsNat ==
    ASSUME NEW ts \in Seq(Seq(Call)), NEW k \in Nat, NEW kind
    PROVE  /\ TaskAmounts(ts, k, kind) \in Weights(1..Len(ts))
           /\ IsFiniteSet(1..Len(ts))
           /\ TasksAfter(ts, k, kind) \in Nat
<1>1. \A j \in 1..Len(ts) : ts[j] \in Seq(Call)
  OBVIOUS
<1>2. \A j \in 1..Len(ts) : (IF j > k THEN AmountAfter(ts[j], 0, kind) ELSE 0) \in Nat
  BY <1>1, AmountAfterIsNat
<1>3. TaskAmounts(ts, k, kind) \in Weights(1..Len(ts))
  BY <1>2 DEF Weights, TaskAmounts
<1>4. IsFiniteSet(1..Len(ts))
  BY FS_Interval
<1>5. QED
  BY <1>3, <1>4, TotalIsNat DEF TasksAfter

\* A task that is taken takes its amount from the queue.
LEMMA TasksAfterNext ==
    ASSUME NEW ts \in Seq(Seq(Call)), NEW k \in Nat, k < Len(ts), NEW kind
    PROVE  TasksAfter(ts, k, kind) = AmountAfter(ts[k + 1], 0, kind) + TasksAfter(ts, k + 1, kind)
<1> DEFINE D == 1..Len(ts)
           v == TaskAmounts(ts, k, kind)
           w == TaskAmounts(ts, k + 1, kind)
<1>1. v \in Weights(D) /\ w \in Weights(D) /\ IsFiniteSet(D)
  <2>1. k + 1 \in Nat
    OBVIOUS
  <2>2. QED
    BY <2>1, TasksAfterIsNat, Zenon
<1>2. k + 1 \in D /\ \A j \in D : j # k + 1 => v[j] = w[j]
  BY DEF TaskAmounts
<1>3. v[k + 1] = AmountAfter(ts[k + 1], 0, kind) /\ w[k + 1] = 0
  BY <1>2 DEF TaskAmounts
<1>4. Total(v) \in Nat /\ Total(w) \in Nat /\ TasksAfter(ts, k, kind) = Total(v)
      /\ TasksAfter(ts, k + 1, kind) = Total(w)
  BY <1>1, TotalIsNat DEF TasksAfter
<1>5. v[k + 1] \in Nat
  BY <1>1, <1>2 DEF Weights
<1> HIDE DEF v, w, D
<1>6. Total(v) + w[k + 1] = Total(w) + v[k + 1]
  BY <1>1, <1>2, TotalChanges
<1>7. QED
  BY <1>3, <1>4, <1>5, <1>6

\* Nothing is left after the last.
LEMMA TasksAfterAll ==
    ASSUME NEW ts \in Seq(Seq(Call)), NEW kind
    PROVE  TasksAfter(ts, Len(ts), kind) = 0
<1> DEFINE D == 1..Len(ts)
           v == TaskAmounts(ts, Len(ts), kind)
<1>1. v \in Weights(D)
  BY TasksAfterIsNat
<1>2. \A j \in D : v[j] = 0
  BY DEF TaskAmounts
<1>3. TasksAfter(ts, Len(ts), kind) = Total(v)
  BY DEF TasksAfter
<1> HIDE DEF v, D
<1>4. QED
  BY <1>1, <1>2, <1>3, TotalOfZeros

-----------------------------------------------------------------------------
\* What the theorems assume of the commands: their processes have their types, and
\* of a process whose total counts what is done every announced file is counted or
\* ends with an exception, and without one all announced bytes are counted.
Counting(p) == p.isEndDeterminate /\ p.title # "Resolving deleted nodes"
OnlyCounts(s) == \A j \in DOMAIN s : s[j].call \in Counters
CountsOrThrows(s) == \A j \in DOMAIN s : s[j].call \in Kinds
AllOf(p, kind) == AmountAfter(p.mainCalls, 0, kind) + TasksAfter(p.tasks, 0, kind)
Complete(p) ==
    /\ OnlyCounts(p.mainCalls) /\ \A t \in DOMAIN p.tasks : CountsOrThrows(p.tasks[t])
    /\ AllOf(p, "IncFinishedCount") + AllOf(p, "Throw") = p.nFiles
    /\ AllOf(p, "Throw") = 0 => AllOf(p, "AddFinishedSize") = p.totalSize
WellPlanned ==
    \A c \in Commands :
        /\ c.processes \in Seq(PlannedProcess)
        /\ \A i \in DOMAIN c.processes : Counting(c.processes[i]) => Complete(c.processes[i])

\* The types of the other variables, and where the reporter is.
TypeInv ==
    /\ TypeOK
    /\ command \in Commands
    /\ nCalls \in Nat /\ nTaken \in Nat /\ shown \in Nat
    /\ calls \in [Workers -> Seq(Call)]
    /\ \A w \in Workers : ~Idle(w) => Added > 0
    /\ currentStep \in Nat \ {0} /\ (currentStep <= Added \/ currentStep = 1)

\* The plan has its types.
LEMMA PlanIs ==
    ASSUME WellPlanned, command \in Commands
    PROVE  /\ Plan \in Seq(PlannedProcess)
           /\ \A i \in 1..Len(Plan) :
                /\ Plan[i] \in PlannedProcess
                /\ Plan[i].mainCalls \in Seq(Call) /\ Plan[i].tasks \in Seq(Seq(Call))
                /\ Counting(Plan[i]) => Complete(Plan[i])
<1>1. /\ Plan \in Seq(PlannedProcess)
      /\ \A i \in DOMAIN Plan : Counting(Plan[i]) => Complete(Plan[i])
  BY DEF WellPlanned, Plan
<1>2. \A i \in 1..Len(Plan) : i \in DOMAIN Plan /\ Plan[i] \in PlannedProcess
  BY <1>1
<1>3. \A p \in PlannedProcess : p.mainCalls \in Seq(Call) /\ p.tasks \in Seq(Seq(Call))
  BY DEF PlannedProcess
<1>4. QED
  BY <1>1, <1>2, <1>3

\* A call changes only the last process, and keeps it a process.
CalledStatus(p, c) ==
    [p EXCEPT
        !.nFiles = IF c.call = "IncFileCount" THEN @ + 1 ELSE @,
        !.nFinishedFiles = IF c.call = "IncFinishedCount" THEN @ + 1 ELSE @,
        !.totalSize = CASE c.call = "AddTotalSize" -> (@ + c.n) % UInt64Size
                        [] c.call = "ReduceTotalSize" -> (@ - c.n) % UInt64Size
                        [] OTHER -> @,
        !.doneSize = IF c.call = "AddFinishedSize" THEN @ + c.n ELSE @]

\* A call that counts keeps what is announced and adds its amount to what is done.
LEMMA CalledStatusIs ==
    ASSUME NEW p \in Status, NEW c \in Call
    PROVE  /\ CalledStatus(p, c) \in Status
           /\ CalledStatus(p, c).isEndDeterminate = p.isEndDeterminate
           /\ CalledStatus(p, c).hasEnded = p.hasEnded
           /\ CalledStatus(p, c).doneSize >= p.doneSize
           /\ c.call \in Counters =>
                /\ CalledStatus(p, c).nFiles = p.nFiles
                /\ CalledStatus(p, c).totalSize = p.totalSize
                /\ CalledStatus(p, c).nFinishedFiles
                        = p.nFinishedFiles + Amount(c, "IncFinishedCount")
                /\ CalledStatus(p, c).doneSize = p.doneSize + Amount(c, "AddFinishedSize")
<1>1. /\ c.n \in Nat
      /\ c.call = "IncFinishedCount" => c.n = 1
      /\ p.nFiles \in Nat /\ p.nFinishedFiles \in Nat /\ p.doneSize \in Nat
      /\ p.totalSize \in 0..UInt64Size - 1
  BY DEF Call, Status
<1>2. (p.totalSize + c.n) % UInt64Size \in 0..UInt64Size - 1
      /\ (p.totalSize - c.n) % UInt64Size \in 0..UInt64Size - 1
  <2>1. \A x \in Int : x % UInt64Size \in 0..UInt64Size - 1
    BY UInt64Assumption, Z3
  <2>2. p.totalSize + c.n \in Int /\ p.totalSize - c.n \in Int
    BY <1>1, UInt64Assumption
  <2>3. QED
    BY <2>1, <2>2
<1>3. (CASE c.call = "AddTotalSize" -> (p.totalSize + c.n) % UInt64Size
         [] c.call = "ReduceTotalSize" -> (p.totalSize - c.n) % UInt64Size
         [] OTHER -> p.totalSize) \in 0..UInt64Size - 1
  BY <1>1, <1>2
<1>4. PICK t \in 0..UInt64Size - 1 :
        t = CASE c.call = "AddTotalSize" -> (p.totalSize + c.n) % UInt64Size
              [] c.call = "ReduceTotalSize" -> (p.totalSize - c.n) % UInt64Size
              [] OTHER -> p.totalSize
  BY <1>3
<1>5. c.call \in Counters => t = p.totalSize
  BY <1>4 DEF Counters
<1>6. PICK n \in Nat : n = IF c.call = "IncFileCount" THEN p.nFiles + 1 ELSE p.nFiles
  BY <1>1
<1>7. PICK m \in Nat :
        m = IF c.call = "IncFinishedCount" THEN p.nFinishedFiles + 1 ELSE p.nFinishedFiles
  BY <1>1
<1>8. PICK d \in Nat : d = IF c.call = "AddFinishedSize" THEN p.doneSize + c.n ELSE p.doneSize
  BY <1>1
<1>9. CalledStatus(p, c)
        = [p EXCEPT !.nFiles = n, !.nFinishedFiles = m, !.totalSize = t, !.doneSize = d]
  BY <1>4, <1>6, <1>7, <1>8, Zenon DEF CalledStatus
<1>10. PICK q : q = CalledStatus(p, c)
  OBVIOUS
<1>11. /\ q \in Status
       /\ q.isEndDeterminate = p.isEndDeterminate /\ q.hasEnded = p.hasEnded
       /\ q.nFiles = n /\ q.nFinishedFiles = m /\ q.totalSize = t /\ q.doneSize = d
  BY <1>9, <1>10 DEF Status
<1>12. d >= p.doneSize
  BY <1>1, <1>8
<1>13. c.call \in Counters => /\ n = p.nFiles
                           /\ m = p.nFinishedFiles + Amount(c, "IncFinishedCount")
                           /\ d = p.doneSize + Amount(c, "AddFinishedSize")
  BY <1>1, <1>6, <1>7, <1>8 DEF Counters, Amount
<1>14. QED
  BY <1>5, <1>10, <1>11, <1>12, <1>13

\* A call changes the last process only.
LEMMA CalledIs ==
    ASSUME processes \in Seq(Status), Added > 0, NEW c \in Call
    PROVE  /\ Called(c) \in Seq(Status) /\ Len(Called(c)) = Added
           /\ Called(c)[Added] = CalledStatus(processes[Added], c)
           /\ \A i \in 1..Added : i # Added => Called(c)[i] = processes[i]
           /\ processes[Added] \in Status
<1>1. Called(c) = [processes EXCEPT ![Added] = CalledStatus(processes[Added], c)]
  BY DEF Called, CalledStatus, Added
<1>2. Added \in 1..Len(processes) /\ Added \in Nat /\ processes[Added] \in Status
  BY DEF Added
<1>3. CalledStatus(processes[Added], c) \in Status
  BY <1>2, CalledStatusIs
<1>4. QED
  BY <1>1, <1>2, <1>3 DEF Added

-----------------------------------------------------------------------------
\* The nodes of an index, a directory with the size 0 that FileSystemNodeAttributes
\* gives it, and the indexes whose sizes add up to a uint64.
IndexNode ==
    {n \in [path : STRING, dir : BOOLEAN, size : Nat, mtime : Nat, content : STRING] :
        n.dir => n.size = 0}
Index == {x \in Seq(IndexNode) : TotalSize(x, DOMAIN x) < UInt64Size}

\* At most two calls are a sequence of calls.
LEMMA CallsAre ==
    ASSUME NEW c \in Call, NEW d \in Call
    PROVE  <<>> \in Seq(Call) /\ <<c>> \in Seq(Call) /\ <<c, d>> \in Seq(Call)
OBVIOUS

\* What the sequences of at most two calls count.
LEMMA AmountOfFew ==
    ASSUME NEW c \in Call, NEW d \in Call, NEW kind
    PROVE  /\ AmountAfter(<<>>, 0, kind) = 0
           /\ AmountAfter(<<c>>, 0, kind) = Amount(c, kind)
           /\ AmountAfter(<<c, d>>, 0, kind) = Amount(c, kind) + Amount(d, kind)
<1>1. AmountAfter(<<>>, 0, kind) = 0
  <2>1. <<>> \in Seq(Call) /\ Len(<<>>) = 0
    OBVIOUS
  <2>2. QED
    BY <2>1, AmountAfterAll
<1>2. Amount(c, kind) \in Nat /\ Amount(d, kind) \in Nat
  BY AmountIsNat
<1>3. ASSUME NEW e \in Call PROVE AmountAfter(<<e>>, 0, kind) = Amount(e, kind)
  <2>1. PICK s \in Seq(Call) : s = <<e>>
    BY CallsAre
  <2>2. s # <<>> /\ Head(s) = e /\ Tail(s) = <<>>
    BY <2>1
  <2>3. AmountAfter(s, 0, kind) = Amount(Head(s), kind) + AmountAfter(Tail(s), 0, kind)
    BY <2>2, AmountOfTail
  <2>4. Amount(e, kind) \in Nat
    BY AmountIsNat
  <2>5. QED
    BY <1>1, <2>1, <2>2, <2>3, <2>4
<1>4. AmountAfter(<<c, d>>, 0, kind) = Amount(c, kind) + Amount(d, kind)
  <2>1. PICK s \in Seq(Call) : s = <<c, d>>
    BY CallsAre
  <2>2. s # <<>> /\ Head(s) = c /\ Tail(s) = <<d>>
    BY <2>1
  <2>3. AmountAfter(s, 0, kind) = Amount(Head(s), kind) + AmountAfter(Tail(s), 0, kind)
    BY <2>2, AmountOfTail
  <2>4. QED
    BY <1>3, <2>1, <2>2, <2>3
<1>5. QED
  BY <1>1, <1>3, <1>4

\* Calls that count throw nothing.
LEMMA CountsDoNotThrow ==
    ASSUME NEW s \in Seq(Call), OnlyCounts(s)
    PROVE  AmountAfter(s, 0, "Throw") = 0 /\ CountsOrThrows(s)
<1> DEFINE D == 1..Len(s)
           v == Amounts(s, 0, "Throw")
<1>1. \A j \in D : s[j].call \in Counters
  BY DEF OnlyCounts
<1>2. v \in Weights(D)
  BY AmountAfterIsNat
<1>3. \A j \in D : v[j] = 0
  BY <1>1 DEF Amounts, Amount, Counters
<1>4. AmountAfter(s, 0, "Throw") = Total(v)
  BY DEF AmountAfter
<1>5. CountsOrThrows(s)
  BY DEF OnlyCounts, CountsOrThrows, Kinds
<1> HIDE DEF D, v
<1>6. QED
  BY <1>2, <1>3, <1>4, <1>5, TotalOfZeros

\* Calls of IncFinishedCount count as many files as they are, and no bytes.
LEMMA AmountOfCounts ==
    ASSUME NEW s \in Seq(Call), \A j \in 1..Len(s) : s[j] = IncFinishedCount
    PROVE  /\ OnlyCounts(s)
           /\ AmountAfter(s, 0, "IncFinishedCount") = Len(s)
           /\ AmountAfter(s, 0, "AddFinishedSize") = 0
           /\ AmountAfter(s, 0, "Throw") = 0
<1> DEFINE D == 1..Len(s)
           v == Amounts(s, 0, "IncFinishedCount")
           w == Amounts(s, 0, "AddFinishedSize")
<1>1. v \in Weights(D) /\ w \in Weights(D) /\ IsFiniteSet(D) /\ Cardinality(D) = Len(s)
  <2>1. v \in Weights(D) /\ w \in Weights(D) /\ IsFiniteSet(D)
    BY AmountAfterIsNat
  <2>2. Len(s) \in Nat
    OBVIOUS
  <2>3. Cardinality(1..Len(s)) = Len(s)
    BY <2>2, NumbersAre
  <2>4. QED
    BY <2>1, <2>3
<1>2. (\A j \in D : v[j] = 1) /\ (\A j \in D : w[j] = 0)
  BY DEF Amounts, Amount, IncFinishedCount
<1>3. OnlyCounts(s)
  BY DEF OnlyCounts, IncFinishedCount, Counters
<1>4. /\ AmountAfter(s, 0, "IncFinishedCount") = Total(v)
      /\ AmountAfter(s, 0, "AddFinishedSize") = Total(w)
  BY DEF AmountAfter
<1> HIDE DEF D, v, w
<1>5. Total(w) = 0
  BY <1>1, <1>2, TotalOfZeros
<1>6. Total(v) = Cardinality(D)
  <2>1. Total(v) = Cardinality({j \in D : v[j] = 1})
    BY <1>1, <1>2, TotalOfOnes
  <2>2. {j \in D : v[j] = 1} = D
    BY <1>2
  <2>3. QED
    BY <2>1, <2>2
<1>7. AmountAfter(s, 0, "Throw") = 0
  BY <1>3, CountsDoNotThrow
<1>8. QED
  BY <1>1, <1>3, <1>4, <1>5, <1>6, <1>7

\* What tasks count together, from what each of them counts.
LEMMA TasksCount ==
    ASSUME NEW ts \in Seq(Seq(Call)), NEW kind, NEW v \in Weights(1..Len(ts)),
           \A t \in 1..Len(ts) : AmountAfter(ts[t], 0, kind) = v[t]
    PROVE  TasksAfter(ts, 0, kind) = Total(v)
<1>1. v = [t \in 1..Len(ts) |-> v[t]]
  BY DEF Weights
<1>2. TaskAmounts(ts, 0, kind) = [t \in 1..Len(ts) |-> v[t]]
  BY DEF TaskAmounts
<1>3. QED
  BY <1>1, <1>2 DEF TasksAfter

\* A process is planned, and is complete if its calls count what it announces: the
\* main thread only files, and task t fs[t] files and ds[t] bytes, and xs[t] exceptions.
LEMMA ProcessIsPlanned ==
    ASSUME NEW title \in Titles, NEW nFiles \in Nat, NEW size \in 0..UInt64Size - 1,
           NEW mc \in Seq(Call), \A j \in 1..Len(mc) : mc[j] = IncFinishedCount,
           NEW ts \in Seq(Seq(Call)), NEW fs \in Weights(1..Len(ts)),
           NEW xs \in Weights(1..Len(ts)), NEW ds \in Weights(1..Len(ts)),
           \A t \in 1..Len(ts) : /\ CountsOrThrows(ts[t])
                                 /\ AmountAfter(ts[t], 0, "IncFinishedCount") = fs[t]
                                 /\ AmountAfter(ts[t], 0, "Throw") = xs[t]
                                 /\ AmountAfter(ts[t], 0, "AddFinishedSize") = ds[t],
           nFiles = Len(mc) + Total(fs) + Total(xs), Total(xs) = 0 => size = Total(ds)
    PROVE  /\ Process(title, nFiles, size, mc, ts) \in PlannedProcess
           /\ Complete(Process(title, nFiles, size, mc, ts))
<1>1. PICK p : p = Process(title, nFiles, size, mc, ts)
  OBVIOUS
<1>2. /\ p \in PlannedProcess /\ p.nFiles = nFiles /\ p.totalSize = size
      /\ p.mainCalls = mc /\ p.tasks = ts
  BY <1>1 DEF Process, PlannedProcess
<1>3. /\ OnlyCounts(mc) /\ AmountAfter(mc, 0, "IncFinishedCount") = Len(mc)
      /\ AmountAfter(mc, 0, "AddFinishedSize") = 0 /\ AmountAfter(mc, 0, "Throw") = 0
  BY AmountOfCounts
<1>4. /\ TasksAfter(ts, 0, "IncFinishedCount") = Total(fs)
      /\ TasksAfter(ts, 0, "AddFinishedSize") = Total(ds)
      /\ TasksAfter(ts, 0, "Throw") = Total(xs)
  BY TasksCount
<1>5. \A t \in DOMAIN p.tasks : CountsOrThrows(p.tasks[t])
  <2>1. DOMAIN ts = 1..Len(ts)
    OBVIOUS
  <2>2. \A t \in DOMAIN ts : CountsOrThrows(ts[t])
    BY <2>1
  <2>3. QED
    BY <1>2, <2>2
<1>6. Len(mc) \in Nat /\ Total(fs) \in Nat /\ Total(xs) \in Nat /\ Total(ds) \in Nat
  <2>1. Len(mc) \in Nat /\ IsFiniteSet(1..Len(ts))
    BY FS_Interval
  <2>2. QED
    BY <2>1, TotalIsNat
<1>7. /\ AllOf(p, "IncFinishedCount") = Len(mc) + Total(fs)
      /\ AllOf(p, "Throw") = Total(xs) /\ AllOf(p, "AddFinishedSize") = Total(ds)
  BY <1>2, <1>3, <1>4, <1>6 DEF AllOf
<1>8. /\ AllOf(p, "IncFinishedCount") + AllOf(p, "Throw") = p.nFiles
      /\ AllOf(p, "Throw") = 0 => AllOf(p, "AddFinishedSize") = p.totalSize
  BY <1>2, <1>6, <1>7
<1>9. QED
  BY <1>1, <1>2, <1>3, <1>5, <1>8 DEF Complete

\* The sizes of an index are naturals, and those of some of its nodes add up to a
\* number of a uint64.
LEMMA SizesAre ==
    ASSUME NEW x \in Index, NEW S \in SUBSET DOMAIN x
    PROVE  /\ x \in Seq(IndexNode) /\ DOMAIN x = 1..Len(x) /\ Len(x) \in Nat
           /\ \A i \in 1..Len(x) : /\ x[i].size \in Nat /\ x[i].dir \in BOOLEAN
                                   /\ x[i].dir => x[i].size = 0
           /\ IsFiniteSet(S) /\ Cardinality(S) \in Nat /\ Cardinality(S) <= Len(x)
           /\ [i \in S |-> x[i].size] \in Weights(S)
           /\ TotalSize(x, S) = Total([i \in S |-> x[i].size])
           /\ TotalSize(x, S) \in 0..UInt64Size - 1
<1>1. x \in Seq(IndexNode) /\ DOMAIN x = 1..Len(x) /\ Len(x) \in Nat
  BY DEF Index
<1>2. \A i \in 1..Len(x) : /\ x[i].size \in Nat /\ x[i].dir \in BOOLEAN
                           /\ x[i].dir => x[i].size = 0
  BY <1>1 DEF IndexNode
<1>3. IsFiniteSet(1..Len(x)) /\ Cardinality(1..Len(x)) = Len(x)
  BY <1>1, NumbersAre
<1>4. ASSUME NEW T \in SUBSET DOMAIN x
      PROVE  /\ IsFiniteSet(T) /\ [i \in T |-> x[i].size] \in Weights(T)
             /\ TotalSize(x, T) = Total([i \in T |-> x[i].size])
             /\ Total([i \in T |-> x[i].size]) \in Nat
  <2> DEFINE f == [i \in DOMAIN x |-> x[i].size]
             v == [i \in T |-> x[i].size]
  <2>1. IsFiniteSet(T)
    BY <1>1, <1>3, FS_Subset
  <2>2. \A i \in T : f[i] \in Nat
    BY <1>1, <1>2
  <2>3. v \in Weights(T) /\ [i \in T |-> f[i]] = v
    BY <1>1, <1>2 DEF Weights
  <2>4. TotalSize(x, T) = SumFunctionOnSet(f, T)
    BY DEF TotalSize
  <2> HIDE DEF f
  <2>5. SumFunctionOnSet(f, T) = Total([i \in T |-> f[i]])
    BY <2>1, <2>2, SumIsTotal
  <2>6. Total(v) \in Nat
    BY <2>1, <2>3, TotalIsNat
  <2>7. QED
    BY <2>1, <2>3, <2>4, <2>5, <2>6
<1>5. Cardinality(S) \in Nat /\ Cardinality(S) <= Len(x)
  BY <1>1, <1>3, FS_Subset, FS_CardinalityType
<1>6. TotalSize(x, S) \in 0..UInt64Size - 1
  <2> DEFINE D == DOMAIN x
             v == [i \in S |-> x[i].size]
             w == [i \in D |-> x[i].size]
  <2>1. /\ v \in Weights(S) /\ TotalSize(x, S) = Total(v) /\ Total(v) \in Nat
        /\ w \in Weights(D) /\ TotalSize(x, D) = Total(w) /\ Total(w) \in Nat /\ IsFiniteSet(D)
    BY <1>4
  <2>2. \A i \in S : v[i] <= w[i]
    BY <1>1, <1>2
  <2> HIDE DEF v, w, D
  <2>3. Total(v) <= Total(w)
    <3>1. S \in SUBSET D
      BY DEF D
    <3>2. QED
      BY <2>1, <2>2, <3>1, TotalGrows
  <2>4. Total(w) < UInt64Size
    BY <2>1 DEF Index, D
  <2>5. QED
    BY <2>1, <2>3, <2>4, UInt64Assumption
<1>7. QED
  BY <1>1, <1>2, <1>4, <1>5, <1>6

\* Sorted(S) lists the numbers of S.
LEMMA SortedIs ==
    ASSUME NEW N \in Nat, NEW S \in SUBSET (1..N)
    PROVE  /\ Sorted(S) \in Bijection(1..Cardinality(S), S)
           /\ Sorted(S) \in Seq(S) /\ Len(Sorted(S)) = Cardinality(S)
           /\ Cardinality(S) \in Nat /\ IsFiniteSet(S)
<1>1. IsFiniteSet(S) /\ Cardinality(S) \in Nat
  <2>1. IsFiniteSet(1..N)
    BY NumbersAre
  <2>2. QED
    BY <2>1, FS_Subset, FS_CardinalityType
<1>2. \E s \in [1..Cardinality(S) -> S] : \A i, j \in DOMAIN s : i < j => s[i] < s[j]
  BY IncreasingExists DEF Increasing
<1>3. /\ Sorted(S) \in [1..Cardinality(S) -> S]
      /\ \A i, j \in DOMAIN Sorted(S) : i < j => Sorted(S)[i] < Sorted(S)[j]
  BY <1>2 DEF Sorted
<1>4. PICK s : s = Sorted(S)
  OBVIOUS
<1>5. s \in [1..Cardinality(S) -> S] /\ Increasing(s)
  BY <1>3, <1>4 DEF Increasing
<1>6. \A x \in S : \E i \in 1..Cardinality(S) : s[i] = x
  BY <1>5, IncreasingIsOnto
<1>7. \A i, j \in 1..Cardinality(S) : s[i] = s[j] => i = j
  <2> SUFFICES ASSUME NEW i \in 1..Cardinality(S), NEW j \in 1..Cardinality(S), s[i] = s[j]
               PROVE  i = j
    OBVIOUS
  <2>1. s[i] \in Nat /\ i \in Int /\ j \in Int
    <3>1. s[i] \in S
      BY <1>5
    <3>2. \A n \in S : n \in Nat
      OBVIOUS
    <3>3. i \in Int /\ j \in Int
      BY <1>1
    <3>4. QED
      BY <3>1, <3>2, <3>3
  <2>2. ~(i < j) /\ ~(j < i)
    BY <1>5, <2>1 DEF Increasing
  <2>3. QED
    BY <2>1, <2>2
<1>8. s \in Bijection(1..Cardinality(S), S)
  BY <1>5, <1>6, <1>7 DEF Bijection, Injection, Surjection, IsInjective
<1>9. s \in Seq(S) /\ Len(s) = Cardinality(S)
  BY <1>1, <1>5
<1>10. QED
  BY <1>1, <1>4, <1>8, <1>9

\* What a list of nodes counts is what the nodes count.
LEMMA SortedTotal ==
    ASSUME NEW x \in Index, NEW S \in SUBSET DOMAIN x
    PROVE  /\ [k \in 1..Len(Sorted(S)) |-> x[Sorted(S)[k]].size] \in Weights(1..Len(Sorted(S)))
           /\ Total([k \in 1..Len(Sorted(S)) |-> x[Sorted(S)[k]].size]) = TotalSize(x, S)
<1>1. PICK D, h : D = 1..Len(Sorted(S)) /\ h = Sorted(S)
  OBVIOUS
<1>2. /\ S \in SUBSET (1..Len(x)) /\ Len(x) \in Nat
      /\ \A i \in S : x[i].size \in Nat
      /\ [i \in S |-> x[i].size] \in Weights(S)
      /\ TotalSize(x, S) = Total([i \in S |-> x[i].size])
  BY SizesAre
<1>3. /\ D = 1..Cardinality(S) /\ IsFiniteSet(D) /\ h \in Bijection(D, S)
  BY <1>1, <1>2, SortedIs, NumbersAre
<1> DEFINE v == [k \in D |-> x[h[k]].size]
           w == [i \in S |-> x[i].size]
<1>4. \A k \in D : h[k] \in S
  BY <1>3 DEF Bijection, Injection
<1>5. v \in Weights(D) /\ w \in Weights(S) /\ \A k \in D : v[k] = w[h[k]]
  BY <1>2, <1>4 DEF Weights
<1>6. v = [k \in 1..Len(Sorted(S)) |-> x[Sorted(S)[k]].size]
  BY <1>1
<1>7. PICK a \in Weights(D), b \in Weights(S) : a = v /\ b = w /\ \A k \in D : a[k] = b[h[k]]
  BY <1>5
<1>8. Total(a) = Total(b)
  <2> HIDE DEF v, w
  <2>1. IsFiniteSet(D) /\ h \in Bijection(D, S)
    BY <1>3
  <2>2. \A k \in D : a[k] = b[h[k]]
    BY <1>7
  <2>3. QED
    BY <2>1, <2>2, TotalReordered
<1>9. QED
  BY <1>1, <1>2, <1>5, <1>6, <1>7, <1>8

\* Ones add up to their number.
LEMMA OnesAre ==
    ASSUME NEW n \in Nat
    PROVE  [k \in 1..n |-> 1] \in Weights(1..n) /\ Total([k \in 1..n |-> 1]) = n
<1> DEFINE D == 1..n
           v == [k \in D |-> 1]
<1>1. v \in Weights(D) /\ \A k \in D : v[k] = 1
  BY DEF Weights
<1>2. IsFiniteSet(D) /\ Cardinality(D) = n
  BY NumbersAre
<1> HIDE DEF D, v
<1>3. Total(v) = Cardinality({k \in D : v[k] = 1}) /\ {k \in D : v[k] = 1} = D
  BY <1>1, <1>2, TotalOfOnes
<1>4. QED
  BY <1>1, <1>2, <1>3 DEF D, v

-----------------------------------------------------------------------------
\* The calls that a process can make with a size.
LEMMA CallsOfSize ==
    ASSUME NEW n \in Nat
    PROVE  /\ AddTotalSize(n) \in Call /\ AddFinishedSize(n) \in Call
           /\ ReduceTotalSize(n) \in Call /\ IncFileCount \in Call
           /\ IncFinishedCount \in Call /\ OutOfBounds \in Call /\ Throw \in Call
BY DEF Call, CallNames, AddTotalSize, AddFinishedSize, ReduceTotalSize, IncFileCount,
       IncFinishedCount, OutOfBounds, Throw

\* A task counts f files and b bytes.
TaskCounts(task, f, b) ==
    /\ task \in Seq(Call) /\ OnlyCounts(task)
    /\ AmountAfter(task, 0, "IncFinishedCount") = f
    /\ AmountAfter(task, 0, "AddFinishedSize") = b

\* A task counts one file and b bytes, or throws, whatever bytes it has counted.
TaskEnds(task, b) ==
    /\ task \in Seq(Call) /\ CountsOrThrows(task)
    /\ AmountAfter(task, 0, "IncFinishedCount") + AmountAfter(task, 0, "Throw") = 1
    /\ AmountAfter(task, 0, "Throw") = 0 => AmountAfter(task, 0, "AddFinishedSize") = b

\* What the tasks of the commands count.
LEMMA TasksOfNodes ==
    ASSUME NEW n \in Nat
    PROVE  /\ TaskCounts(<<>>, 0, 0)
           /\ TaskCounts(<<IncFinishedCount>>, 1, 0)
           /\ TaskCounts(<<AddFinishedSize(n), IncFinishedCount>>, 1, n)
           /\ TaskCounts(<<IncFinishedCount, AddFinishedSize(n)>>, 1, n)
<1>1. PICK a, b : a = AddFinishedSize(n) /\ b = IncFinishedCount
  OBVIOUS
<1>2. a \in Call /\ b \in Call
  BY <1>1, CallsOfSize
<1>3. /\ Amount(a, "IncFinishedCount") = 0 /\ Amount(b, "IncFinishedCount") = 1
      /\ Amount(a, "AddFinishedSize") = n /\ Amount(b, "AddFinishedSize") = 0
      /\ a.call \in Counters /\ b.call \in Counters
  BY <1>1 DEF Amount, AddFinishedSize, IncFinishedCount, Counters
<1>4. OnlyCounts(<<>>) /\ OnlyCounts(<<b>>) /\ OnlyCounts(<<a, b>>) /\ OnlyCounts(<<b, a>>)
  BY <1>3 DEF OnlyCounts
<1>5. <<>> \in Seq(Call) /\ <<b>> \in Seq(Call) /\ <<a, b>> \in Seq(Call) /\ <<b, a>> \in Seq(Call)
  BY <1>2, CallsAre
<1>6. TaskCounts(<<>>, 0, 0)
  BY <1>2, <1>4, <1>5, AmountOfFew DEF TaskCounts
<1>7. TaskCounts(<<b>>, 1, 0)
  <2>1. \A kind : AmountAfter(<<b>>, 0, kind) = Amount(b, kind)
    BY <1>2, AmountOfFew
  <2>2. QED
    BY <1>3, <1>4, <1>5, <2>1 DEF TaskCounts
<1>8. TaskCounts(<<a, b>>, 1, n)
  <2>1. \A kind : AmountAfter(<<a, b>>, 0, kind) = Amount(a, kind) + Amount(b, kind)
    BY <1>2, AmountOfFew
  <2>2. QED
    BY <1>3, <1>4, <1>5, <2>1 DEF TaskCounts
<1>9. TaskCounts(<<b, a>>, 1, n)
  <2>1. \A kind : AmountAfter(<<b, a>>, 0, kind) = Amount(b, kind) + Amount(a, kind)
    BY <1>2, AmountOfFew
  <2>2. QED
    BY <1>3, <1>4, <1>5, <2>1 DEF TaskCounts
<1>10. QED
  BY <1>1, <1>6, <1>7, <1>8, <1>9

\* A task that counts one file ends that way; one that only throws does so too.
LEMMA CountingTaskEnds ==
    ASSUME NEW task, NEW b, TaskCounts(task, 1, b)
    PROVE  TaskEnds(task, b)
<1>1. AmountAfter(task, 0, "Throw") = 0 /\ CountsOrThrows(task) /\ task \in Seq(Call)
  BY CountsDoNotThrow DEF TaskCounts
<1>2. QED
  BY <1>1 DEF TaskCounts, TaskEnds
LEMMA ThrowingTaskEnds ==
    ASSUME NEW b PROVE TaskEnds(<<Throw>>, b)
<1>1. PICK c \in Call : c = Throw
  <2>1. 0 \in Nat
    OBVIOUS
  <2>2. QED
    BY <2>1, CallsOfSize
<1>2. Amount(c, "IncFinishedCount") = 0 /\ Amount(c, "Throw") = 1 /\ c.call \in Kinds
  BY <1>1 DEF Amount, Throw, Kinds
<1>3. \A kind : AmountAfter(<<c>>, 0, kind) = Amount(c, kind)
  BY AmountOfFew
<1>4. <<c>> \in Seq(Call) /\ CountsOrThrows(<<c>>)
  BY <1>2, CallsAre DEF CountsOrThrows
<1>5. QED
  BY <1>1, <1>2, <1>3, <1>4 DEF TaskEnds

\* The sizes of chunks add up to a natural.
LEMMA ReadSizeIs ==
    ASSUME NEW chunks \in Seq(Nat)
    PROVE  /\ chunks \in Weights(1..Len(chunks)) /\ DOMAIN chunks = 1..Len(chunks)
           /\ Len(chunks) \in Nat
           /\ ReadSize(chunks) = Total(chunks) /\ ReadSize(chunks) \in Nat
<1>1. PICK n \in Nat : n = Len(chunks) /\ DOMAIN chunks = 1..n
  OBVIOUS
<1>2. chunks \in Weights(1..n) /\ chunks = [x \in 1..n |-> chunks[x]]
      /\ \A x \in 1..n : chunks[x] \in Nat
  BY <1>1 DEF Weights
<1>3. IsFiniteSet(1..n)
  BY NumbersAre
<1>4. SumFunctionOnSet(chunks, 1..n) = Total([x \in 1..n |-> chunks[x]])
  BY <1>2, <1>3, SumIsTotal
<1>5. ReadSize(chunks) = Total(chunks)
  BY <1>1, <1>2, <1>4 DEF ReadSize
<1>6. Total(chunks) \in Nat
  BY <1>2, <1>3, TotalIsNat
<1>7. QED
  BY <1>1, <1>2, <1>5, <1>6

\* A sequence and one more element.
LEMMA OneMore ==
    ASSUME NEW S, NEW s \in Seq(S), NEW x \in S, NEW n, n = Len(s),
           NEW t, t = s \o <<x>>
    PROVE  /\ t \in Seq(S) /\ Len(t) = n + 1 /\ t[n + 1] = x
           /\ \A k \in 1..n : t[k] = s[k]
<1>1. <<x>> \in Seq(S) /\ Len(<<x>>) = 1 /\ <<x>>[1] = x
  OBVIOUS
<1>2. QED
  BY <1>1

\* The task that pipes a file counts the size of it if that is the size of the index,
\* and otherwise throws after it has counted it.
LEMMA PipeTaskEnds ==
    ASSUME NEW chunks \in Seq(Nat), NEW size \in Nat
    PROVE  TaskEnds(PipeTask(chunks, size), size)
<1>1. PICK n \in Nat : n = Len(chunks) /\ DOMAIN chunks = 1..n
  OBVIOUS
<1>2. PICK last : last = IF ReadSize(chunks) = size THEN IncFinishedCount ELSE Throw
  OBVIOUS
<1>3. PICK task : task = PipeTask(chunks, size)
  OBVIOUS
<1>4. last \in Call /\ last.call \in Kinds
      /\ Amount(last, "AddFinishedSize") = 0
      /\ Amount(last, "IncFinishedCount") = (IF ReadSize(chunks) = size THEN 1 ELSE 0)
      /\ Amount(last, "Throw") = (IF ReadSize(chunks) = size THEN 0 ELSE 1)
  <2>1. IncFinishedCount \in Call /\ Throw \in Call
    BY CallsOfSize
  <2>2. QED
    BY <1>2, <2>1 DEF Amount, IncFinishedCount, Throw, Kinds, Counters
<1>5. PICK s : s = [k \in 1..n |-> AddFinishedSize(chunks[k])]
  OBVIOUS
<1>6. s \in Seq(Call) /\ Len(s) = n /\ \A k \in 1..n : s[k] = AddFinishedSize(chunks[k])
  <2>1. \A k \in 1..n : chunks[k] \in Nat
    BY <1>1
  <2>2. \A k \in 1..n : AddFinishedSize(chunks[k]) \in Call
    BY <2>1, CallsOfSize
  <2>3. s \in [1..n -> Call]
    BY <1>5, <2>2
  <2>4. QED
    BY <1>5, <2>3
<1>7. task = s \o <<last>>
  BY <1>1, <1>2, <1>3, <1>5 DEF PipeTask, AllRead
<1>8. /\ task \in Seq(Call) /\ Len(task) = n + 1 /\ task[n + 1] = last
      /\ \A k \in 1..n : task[k] = AddFinishedSize(chunks[k])
  <2>1. PICK d \in Call : d = last
    BY <1>4
  <2>2. s \in Seq(Call) /\ n = Len(s) /\ task = s \o <<d>>
    BY <1>6, <1>7, <2>1
  <2>3. /\ task \in Seq(Call) /\ Len(task) = n + 1 /\ task[n + 1] = d
        /\ \A k \in 1..n : task[k] = s[k]
    BY <2>1, <2>2, OneMore
  <2>4. QED
    BY <1>6, <2>1, <2>3
<1>9. CountsOrThrows(task)
  <2>1. \A k \in 1..n + 1 : task[k].call \in Kinds
    <3> SUFFICES ASSUME NEW k \in 1..n + 1 PROVE task[k].call \in Kinds
      OBVIOUS
    <3>1. CASE k = n + 1
      BY <1>4, <1>8, <3>1
    <3>2. CASE k # n + 1
      <4>1. k \in 1..n
        BY <3>2
      <4>2. task[k] = AddFinishedSize(chunks[k])
        BY <1>8, <4>1
      <4>3. AddFinishedSize(chunks[k]).call = "AddFinishedSize"
        BY DEF AddFinishedSize
      <4>4. QED
        BY <4>2, <4>3 DEF Kinds, Counters
    <3>3. QED
      BY <3>1, <3>2
  <2>2. DOMAIN task = 1..n + 1
    BY <1>8
  <2>3. QED
    BY <2>1, <2>2 DEF CountsOrThrows
<1>10. /\ AmountAfter(task, 0, "AddFinishedSize") = ReadSize(chunks)
       /\ \A kind \in {"IncFinishedCount", "Throw"} :
            AmountAfter(task, 0, kind) = Amount(last, kind)
  <2> DEFINE E == 1..n + 1
             D == 1..n
             w(kind) == Amounts(task, 0, kind)
             v(kind) == [k \in D |-> IF kind = "AddFinishedSize" THEN chunks[k] ELSE 0]
             u(kind) == [w(kind) EXCEPT ![n + 1] = 0]
  <2>1. /\ IsFiniteSet(E) /\ D \in SUBSET E /\ n + 1 \in E /\ E \ D = {n + 1}
        /\ \A k \in D : chunks[k] \in Nat
    <3>1. n + 1 \in Nat
      OBVIOUS
    <3>2. QED
      BY <1>1, <3>1, NumbersAre
  <2>2. ASSUME NEW kind
        PROVE  w(kind) \in Weights(E) /\ AmountAfter(task, 0, kind) = Total(w(kind))
    BY <1>8, AmountAfterIsNat DEF AmountAfter
  <2>3. ASSUME NEW kind \in Kinds
        PROVE  /\ w(kind)[n + 1] = Amount(last, kind)
               /\ \A k \in D : w(kind)[k] = v(kind)[k]
    <3>1. w(kind)[n + 1] = Amount(last, kind)
      BY <1>8 DEF Amounts
    <3>2. \A k \in D : w(kind)[k] = Amount(AddFinishedSize(chunks[k]), kind)
      BY <1>8 DEF Amounts
    <3>3. \A k \in D : w(kind)[k] = v(kind)[k]
      BY <3>2 DEF Amount, AddFinishedSize
    <3>4. QED
      BY <3>1, <3>3
  <2>4. ASSUME NEW kind PROVE v(kind) \in Weights(D)
    BY <2>1 DEF Weights
  <2> HIDE DEF D, E, w, v
  <2>5. ASSUME NEW kind \in Kinds
        PROVE  AmountAfter(task, 0, kind) = Total(v(kind)) + Amount(last, kind)
    <3>1. u(kind) \in Weights(E) /\ Total(w(kind)) = Total(u(kind)) + w(kind)[n + 1]
      <4>1. PICK z \in Weights(E) : z = w(kind)
        BY <2>2
      <4>2. [z EXCEPT ![n + 1] = 0] \in Weights(E)
            /\ Total(z) = Total([z EXCEPT ![n + 1] = 0]) + z[n + 1]
        BY <2>1, TotalWithout
      <4>3. QED
        BY <4>1, <4>2
    <3>2. /\ \A k \in D : v(kind)[k] = u(kind)[k]
          /\ \A k \in E \ D : u(kind)[k] = 0
      <4>1. w(kind) \in [E -> Nat]
        BY <2>2 DEF Weights
      <4>2. \A k \in D : k # n + 1
        BY DEF D
      <4>3. QED
        BY <2>1, <2>3, <4>1, <4>2
    <3> HIDE DEF u
    <3>3. Total(v(kind)) = Total(u(kind))
      BY <2>1, <2>4, <3>1, <3>2, TotalDropsZeros
    <3>4. QED
      BY <2>2, <2>3, <3>1, <3>3
  <2>6. Total(v("AddFinishedSize")) = ReadSize(chunks) /\ ReadSize(chunks) \in Nat
    <3>1. chunks = [k \in D |-> chunks[k]]
      BY <1>1 DEF D
    <3>2. v("AddFinishedSize") = chunks
      BY <3>1 DEF v
    <3>3. QED
      BY <3>2, ReadSizeIs
  <2>7. ASSUME NEW kind \in {"IncFinishedCount", "Throw"} PROVE Total(v(kind)) = 0
    <3>1. \A k \in D : v(kind)[k] = 0
      BY <2>7 DEF v
    <3>2. QED
      BY <2>4, <3>1, TotalOfZeros
  <2>8. AmountAfter(task, 0, "AddFinishedSize") = ReadSize(chunks)
    BY <1>4, <2>5, <2>6 DEF Kinds, Counters
  <2>9. ASSUME NEW kind \in {"IncFinishedCount", "Throw"}
        PROVE  AmountAfter(task, 0, kind) = Amount(last, kind)
    <3>1. kind \in Kinds /\ Amount(last, kind) \in Nat
      BY <1>4, AmountIsNat DEF Kinds, Counters
    <3>2. QED
      BY <2>5, <2>7, <3>1
  <2>10. QED
    BY <2>8, <2>9
<1>11. /\ AmountAfter(task, 0, "IncFinishedCount") + AmountAfter(task, 0, "Throw") = 1
       /\ AmountAfter(task, 0, "Throw") = 0 => AmountAfter(task, 0, "AddFinishedSize") = size
  BY <1>4, <1>10
<1>12. QED
  BY <1>3, <1>8, <1>9, <1>11 DEF TaskEnds

\* A process is planned and complete if each of its tasks counts one file or throws.
LEMMA OneFileATask ==
    ASSUME NEW title \in Titles, NEW size \in 0..UInt64Size - 1,
           NEW mc \in Seq(Call), \A j \in 1..Len(mc) : mc[j] = IncFinishedCount,
           NEW ts \in Seq(Seq(Call)), NEW bs \in Weights(1..Len(ts)),
           \A t \in 1..Len(ts) : TaskEnds(ts[t], bs[t]), size = Total(bs)
    PROVE  /\ Process(title, Len(mc) + Len(ts), size, mc, ts) \in PlannedProcess
           /\ Complete(Process(title, Len(mc) + Len(ts), size, mc, ts))
<1> DEFINE T == 1..Len(ts)
           Of(kind) == [t \in T |-> AmountAfter(ts[t], 0, kind)]
           X == {t \in T : Of("Throw")[t] = 1}
           F == {t \in T : Of("IncFinishedCount")[t] = 1}
<1>1. \A t \in T : \A kind : AmountAfter(ts[t], 0, kind) \in Nat
  <2>1. \A t \in T : ts[t] \in Seq(Call)
    OBVIOUS
  <2>2. 0 \in Nat
    OBVIOUS
  <2>3. QED
    BY <2>1, <2>2, AmountAfterIsNat
<1>2. \A kind : Of(kind) \in Weights(T)
  BY <1>1 DEF Weights
<1>3. PICK fs, xs, ds : /\ fs = Of("IncFinishedCount") /\ xs = Of("Throw")
                        /\ ds = Of("AddFinishedSize")
  OBVIOUS
<1>4. \A t \in T : /\ fs[t] \in {0, 1} /\ xs[t] \in {0, 1} /\ fs[t] + xs[t] = 1
                   /\ xs[t] = 0 => ds[t] = bs[t]
                   /\ CountsOrThrows(ts[t])
                   /\ AmountAfter(ts[t], 0, "IncFinishedCount") = fs[t]
                   /\ AmountAfter(ts[t], 0, "Throw") = xs[t]
                   /\ AmountAfter(ts[t], 0, "AddFinishedSize") = ds[t]
  <2> SUFFICES ASSUME NEW t \in T
               PROVE  /\ fs[t] \in {0, 1} /\ xs[t] \in {0, 1} /\ fs[t] + xs[t] = 1
                      /\ xs[t] = 0 => ds[t] = bs[t]
                      /\ CountsOrThrows(ts[t])
                      /\ AmountAfter(ts[t], 0, "IncFinishedCount") = fs[t]
                      /\ AmountAfter(ts[t], 0, "Throw") = xs[t]
                      /\ AmountAfter(ts[t], 0, "AddFinishedSize") = ds[t]
    OBVIOUS
  <2>1. /\ fs[t] = AmountAfter(ts[t], 0, "IncFinishedCount") /\ fs[t] \in Nat
        /\ xs[t] = AmountAfter(ts[t], 0, "Throw") /\ xs[t] \in Nat
        /\ ds[t] = AmountAfter(ts[t], 0, "AddFinishedSize")
    BY <1>1, <1>3
  <2>2. TaskEnds(ts[t], bs[t])
    OBVIOUS
  <2>3. /\ fs[t] + xs[t] = 1 /\ (xs[t] = 0 => ds[t] = bs[t]) /\ CountsOrThrows(ts[t])
    BY <2>1, <2>2 DEF TaskEnds
  <2>4. fs[t] \in {0, 1} /\ xs[t] \in {0, 1}
    BY <2>1, <2>3
  <2>5. QED
    BY <2>1, <2>3, <2>4
<1>5. fs \in Weights(T) /\ xs \in Weights(T) /\ ds \in Weights(T)
  BY <1>2, <1>3
<1>6. IsFiniteSet(T) /\ Cardinality(T) = Len(ts) /\ Len(ts) \in Nat
  <2>1. Len(ts) \in Nat
    OBVIOUS
  <2>2. QED
    BY <2>1, NumbersAre
<1>7. X \in SUBSET T /\ F = T \ X
  BY <1>3, <1>4
<1>8. X = {t \in T : xs[t] = 1} /\ F = {t \in T : fs[t] = 1}
  BY <1>3
<1> HIDE DEF T, Of, X, F
<1>9. Total(xs) = Cardinality(X) /\ Total(fs) = Cardinality(F)
  BY <1>4, <1>5, <1>6, <1>8, TotalOfOnes
<1>10. Total(fs) + Total(xs) = Len(ts) /\ Total(fs) \in Nat /\ Total(xs) \in Nat
  <2>1. IsFiniteSet(X) /\ Cardinality(X) \in Nat /\ IsFiniteSet(F) /\ Cardinality(F) \in Nat
    <3>1. F \in SUBSET T
      BY <1>7
    <3>2. QED
      BY <1>6, <1>7, <3>1, FS_Subset, FS_CardinalityType
  <2>2. Cardinality(F) = Len(ts) - Cardinality(X)
    <3>1. T \cap X = X
      BY <1>7
    <3>2. Cardinality(T \ X) = Cardinality(T) - Cardinality(T \cap X)
      BY <1>6, FS_Difference
    <3>3. QED
      BY <1>6, <1>7, <3>1, <3>2
  <2>3. QED
    BY <1>6, <1>9, <2>1, <2>2
<1>11. ASSUME Total(xs) = 0 PROVE size = Total(ds)
  <2>1. X = {}
    <3>1. IsFiniteSet(X)
      BY <1>6, <1>7, FS_Subset
    <3>2. QED
      BY <1>9, <1>11, <3>1, FS_EmptySet
  <2>2. \A t \in T : ds[t] = bs[t]
    BY <1>4, <1>8, <2>1
  <2>3. ds = bs
    BY <1>5, <2>2 DEF Weights, T
  <2>4. QED
    BY <2>3
<1>12. PICK n \in Nat : n = Len(mc) + Len(ts)
  OBVIOUS
<1>13. n = Len(mc) + Total(fs) + Total(xs)
  <2>1. PICK k \in Nat : k = Len(mc)
    OBVIOUS
  <2>2. PICK f \in Nat, x \in Nat : f = Total(fs) /\ x = Total(xs)
    BY <1>10
  <2>3. f + x = Len(ts)
    BY <1>10, <2>2
  <2>4. n = k + f + x
    <3>1. PICK l \in Nat : l = Len(ts)
      BY <1>6
    <3>2. n = k + l /\ f + x = l
      BY <1>12, <2>1, <2>3, <3>1
    <3>3. QED
      BY <3>2
  <2>5. QED
    BY <2>1, <2>2, <2>4
<1>14. /\ Process(title, n, size, mc, ts) \in PlannedProcess
       /\ Complete(Process(title, n, size, mc, ts))
  BY <1>4, <1>5, <1>11, <1>13, ProcessIsPlanned DEF T
<1>15. QED
  BY <1>12, <1>14

\* A function that gives a task that counts for every number is a list of tasks.
LEMMA TasksAre ==
    ASSUME NEW n \in Nat, NEW ts, ts = [t \in 1..n |-> ts[t]],
           \A t \in 1..n : ts[t] \in Seq(Call)
    PROVE  ts \in Seq(Seq(Call)) /\ Len(ts) = n
<1>1. ts \in [1..n -> Seq(Call)]
  OBVIOUS
<1>2. QED
  BY <1>1

\* ComputeDifference counts every node.
LEMMA DifferenceIsPlanned ==
    ASSUME NEW left \in Index, NEW right
    PROVE  /\ ComputeDifference(left, right) \in PlannedProcess
           /\ Complete(ComputeDifference(left, right))
<1>1. PICK n \in Nat : n = Len(left) /\ DOMAIN left = 1..n
  BY SizesAre
<1>2. PICK bs : bs = [i \in 1..n |-> left[i].size]
  OBVIOUS
<1>3. PICK size : size = TotalSize(left, DOMAIN left)
  OBVIOUS
<1>4. bs \in Weights(1..n) /\ size = Total(bs) /\ size \in 0..UInt64Size - 1
      /\ \A i \in 1..n : left[i].size \in Nat /\ bs[i] = left[i].size
  BY <1>1, <1>2, <1>3, SizesAre
<1>5. PICK ts : ts = [i \in 1..n |-> <<AddFinishedSize(left[i].size), IncFinishedCount>>]
  OBVIOUS
<1>6. \A t \in 1..n : TaskCounts(ts[t], 1, bs[t])
  <2> SUFFICES ASSUME NEW t \in 1..n PROVE TaskCounts(ts[t], 1, bs[t])
    OBVIOUS
  <2>1. ts[t] = <<AddFinishedSize(left[t].size), IncFinishedCount>> /\ bs[t] = left[t].size
    BY <1>4, <1>5
  <2>2. left[t].size \in Nat
    BY <1>4
  <2>3. QED
    BY <2>1, <2>2, TasksOfNodes
<1>7. ts \in Seq(Seq(Call)) /\ Len(ts) = n
  <2>1. ts = [t \in 1..n |-> ts[t]] /\ \A t \in 1..n : ts[t] \in Seq(Call)
    BY <1>5, <1>6 DEF TaskCounts
  <2>2. QED
    BY <2>1, TasksAre
<1>8. PICK mc \in Seq(Call) : mc = <<>> /\ Len(mc) = 0
  <2>1. <<>> \in Seq(Call) /\ Len(<<>>) = 0
    OBVIOUS
  <2>2. QED
    BY <2>1
<1>9. PICK title \in Titles : title = "Computing index differences"
  BY DEF Titles
<1>10. /\ Process(title, Len(mc) + Len(ts), size, mc, ts) \in PlannedProcess
       /\ Complete(Process(title, Len(mc) + Len(ts), size, mc, ts))
  <2>1. \A j \in 1..Len(mc) : mc[j] = IncFinishedCount
    BY <1>8
  <2>2. bs \in Weights(1..Len(ts)) /\ \A t \in 1..Len(ts) : TaskEnds(ts[t], bs[t])
    BY <1>4, <1>6, <1>7, CountingTaskEnds
  <2>3. ts \in Seq(Seq(Call)) /\ size \in 0..UInt64Size - 1 /\ size = Total(bs)
    BY <1>4, <1>7
  <2>4. QED
    BY <2>1, <2>2, <2>3, OneFileATask
<1>11. ComputeDifference(left, right) = Process(title, n, size, mc, ts)
  BY <1>1, <1>3, <1>5, <1>8, <1>9 DEF ComputeDifference
<1>12. QED
  BY <1>7, <1>8, <1>10, <1>11

\* ComputeNodeDifferences counts the nodes that differ, if it can hash them.
LEMMA NodeDifferencesArePlanned ==
    ASSUME NEW right \in Index, NEW left, NEW hashed
    PROVE  /\ ComputeNodeDifferences(left, right, hashed) \in PlannedProcess
           /\ Complete(ComputeNodeDifferences(left, right, hashed))
<1>1. PICK S \in SUBSET DOMAIN right : S = Different(right, left)
  BY DEF Different
<1>2. PICK numbers : numbers = Sorted(S)
  OBVIOUS
<1>3. PICK n \in Nat : n = Len(numbers) /\ numbers \in Seq(S) /\ S \in SUBSET (1..Len(right))
  BY <1>1, <1>2, SizesAre, SortedIs
<1>4. PICK bs : bs = [k \in 1..n |-> right[numbers[k]].size]
  OBVIOUS
<1>5. PICK size : size = TotalSize(right, S)
  OBVIOUS
<1>6. /\ bs \in Weights(1..n) /\ size = Total(bs) /\ size \in 0..UInt64Size - 1
      /\ \A k \in 1..n : right[numbers[k]].size \in Nat /\ bs[k] = right[numbers[k]].size
  <2>1. bs \in Weights(1..n) /\ size = Total(bs) /\ size \in 0..UInt64Size - 1
    BY <1>1, <1>2, <1>3, <1>4, <1>5, SizesAre, SortedTotal
  <2>2. \A i \in S : right[i].size \in Nat
    BY <1>3, SizesAre
  <2>3. QED
    BY <1>3, <1>4, <2>1, <2>2
<1>7. PICK ts : ts = [k \in 1..n |->
                        IndexTask(right[numbers[k]], hashed[numbers[k]])]
  OBVIOUS
<1>8. \A t \in 1..n : TaskEnds(ts[t], bs[t])
  <2> SUFFICES ASSUME NEW t \in 1..n PROVE TaskEnds(ts[t], bs[t])
    OBVIOUS
  <2>1. bs[t] \in Nat /\ bs[t] = right[numbers[t]].size
    BY <1>6
  <2>2. CASE ts[t] = <<IncFinishedCount, AddFinishedSize(bs[t])>>
    BY <2>1, <2>2, TasksOfNodes, CountingTaskEnds
  <2>3. CASE ts[t] = <<Throw>>
    BY <2>3, ThrowingTaskEnds
  <2>4. QED
    BY <1>7, <2>1, <2>2, <2>3 DEF IndexTask
<1>9. ts \in Seq(Seq(Call)) /\ Len(ts) = n
  <2>1. ts = [t \in 1..n |-> ts[t]] /\ \A t \in 1..n : ts[t] \in Seq(Call)
    BY <1>7, <1>8 DEF TaskEnds
  <2>2. QED
    BY <2>1, TasksAre
<1>10. PICK mc \in Seq(Call) : mc = <<>> /\ Len(mc) = 0
  <2>1. <<>> \in Seq(Call) /\ Len(<<>>) = 0
    OBVIOUS
  <2>2. QED
    BY <2>1
<1>11. PICK title \in Titles : title = "Indexing potentially new nodes"
  BY DEF Titles
<1>12. /\ Process(title, Len(mc) + Len(ts), size, mc, ts) \in PlannedProcess
       /\ Complete(Process(title, Len(mc) + Len(ts), size, mc, ts))
  <2>1. \A j \in 1..Len(mc) : mc[j] = IncFinishedCount
    BY <1>10
  <2>2. bs \in Weights(1..Len(ts)) /\ \A t \in 1..Len(ts) : TaskEnds(ts[t], bs[t])
    BY <1>6, <1>8, <1>9
  <2>3. ts \in Seq(Seq(Call)) /\ size \in 0..UInt64Size - 1 /\ size = Total(bs)
    BY <1>6, <1>9
  <2>4. QED
    BY <2>1, <2>2, <2>3, OneFileATask
<1>13. ComputeNodeDifferences(left, right, hashed) = Process(title, n, size, mc, ts)
  <2>1. DOMAIN numbers = 1..n
    BY <1>3
  <2>2. QED
    BY <1>1, <1>2, <1>3, <1>5, <1>7, <1>10, <1>11, <2>1 DEF ComputeNodeDifferences
<1>14. QED
  BY <1>9, <1>10, <1>12, <1>13

\* A list of IncFinishedCount.
LEMMA CountsAre ==
    ASSUME NEW n \in Nat
    PROVE  /\ [k \in 1..n |-> IncFinishedCount] \in Seq(Call)
           /\ Len([k \in 1..n |-> IncFinishedCount]) = n
           /\ \A j \in 1..n : [k \in 1..n |-> IncFinishedCount][j] = IncFinishedCount
<1>1. IncFinishedCount \in Call
  BY CallsOfSize
<1>2. QED
  BY <1>1

\* CreateSnapshot counts the nodes with data in tasks and all others in the main
\* thread; a directory has no bytes to store, and a file those that it has by then.
LEMMA CreateSnapshotIsPlanned ==
    ASSUME NEW right \in Index, NEW left, NEW chunks \in [DOMAIN right -> Seq(Nat)]
    PROVE  /\ CreateSnapshot(left, right, chunks) \in PlannedProcess
           /\ Complete(CreateSnapshot(left, right, chunks))
<1>1. PICK S \in SUBSET DOMAIN right : S = DifferentData(left, right)
  BY DEF DifferentData, Different
<1>2. PICK numbers : numbers = Sorted(S)
  OBVIOUS
<1>3. PICK n \in Nat : /\ n = Len(numbers) /\ numbers \in Seq(S) /\ S \in SUBSET (1..Len(right))
                       /\ n <= Len(right) /\ Len(right) \in Nat
  BY <1>1, <1>2, SizesAre, SortedIs
<1>4. PICK bs : bs = [k \in 1..n |-> right[numbers[k]].size]
  OBVIOUS
<1>5. PICK size : size = TotalSize(right, S)
  OBVIOUS
<1>6. /\ bs \in Weights(1..n) /\ size = Total(bs) /\ size \in 0..UInt64Size - 1
      /\ \A k \in 1..n : /\ right[numbers[k]].size \in Nat /\ bs[k] = right[numbers[k]].size
                         /\ right[numbers[k]].dir => bs[k] = 0
  <2>1. bs \in Weights(1..n) /\ size = Total(bs) /\ size \in 0..UInt64Size - 1
    BY <1>1, <1>2, <1>3, <1>4, <1>5, SizesAre, SortedTotal
  <2>2. \A i \in S : right[i].size \in Nat /\ (right[i].dir => right[i].size = 0)
    BY <1>3, SizesAre
  <2>3. QED
    BY <1>3, <1>4, <2>1, <2>2
<1>7. PICK ts : ts = [k \in 1..n |->
                        BackupTask(right[numbers[k]], chunks[numbers[k]])]
  OBVIOUS
<1>8. \A t \in 1..n : TaskEnds(ts[t], bs[t])
  <2> SUFFICES ASSUME NEW t \in 1..n PROVE TaskEnds(ts[t], bs[t])
    OBVIOUS
  <2>1. CASE right[numbers[t]].dir
    <3>1. ts[t] = <<IncFinishedCount>> /\ bs[t] = 0
      BY <1>6, <1>7, <2>1 DEF BackupTask
    <3>2. 0 \in Nat
      OBVIOUS
    <3>3. TaskCounts(<<IncFinishedCount>>, 1, 0)
      BY <3>2, TasksOfNodes
    <3>4. QED
      BY <3>1, <3>3, CountingTaskEnds
  <2>2. CASE ~right[numbers[t]].dir
    <3>1. PICK cs \in Seq(Nat) : cs = chunks[numbers[t]]
      BY <1>1, <1>3
    <3>2. ts[t] = PipeTask(cs, bs[t]) /\ bs[t] \in Nat
      BY <1>6, <1>7, <2>2, <3>1 DEF BackupTask
    <3>3. QED
      BY <3>2, PipeTaskEnds
  <2>3. QED
    BY <2>1, <2>2
<1>9. ts \in Seq(Seq(Call)) /\ Len(ts) = n
  <2>1. ts = [t \in 1..n |-> ts[t]] /\ \A t \in 1..n : ts[t] \in Seq(Call)
    BY <1>7, <1>8 DEF TaskEnds
  <2>2. QED
    BY <2>1, TasksAre
<1>10. PICK m \in Nat : m = Len(right) - n /\ m + n = Len(right)
  BY <1>3
<1>11. PICK mc \in Seq(Call) : /\ mc = [k \in 1..m |-> IncFinishedCount] /\ Len(mc) = m
                               /\ \A j \in 1..Len(mc) : mc[j] = IncFinishedCount
  BY CountsAre
<1>12. PICK title \in Titles : title = "Creating snapshot"
  BY DEF Titles
<1>13. /\ Process(title, Len(mc) + Len(ts), size, mc, ts) \in PlannedProcess
       /\ Complete(Process(title, Len(mc) + Len(ts), size, mc, ts))
  <2>1. \A j \in 1..Len(mc) : mc[j] = IncFinishedCount
    BY <1>11
  <2>2. bs \in Weights(1..Len(ts)) /\ \A t \in 1..Len(ts) : TaskEnds(ts[t], bs[t])
    BY <1>6, <1>8, <1>9
  <2>3. ts \in Seq(Seq(Call)) /\ size \in 0..UInt64Size - 1 /\ size = Total(bs)
    BY <1>6, <1>9
  <2>4. QED
    BY <2>1, <2>2, <2>3, OneFileATask
<1>14. CreateSnapshot(left, right, chunks) = Process(title, Len(right), size, mc, ts)
  <2>1. DOMAIN numbers = 1..n
    BY <1>3
  <2>2. QED
    BY <1>1, <1>2, <1>3, <1>5, <1>7, <1>10, <1>11, <1>12, <2>1 DEF CreateSnapshot
<1>15. QED
  BY <1>9, <1>10, <1>11, <1>13, <1>14

\* A full verification counts every node, and the bytes of the files.
LEMMA VerifyIsPlanned ==
    ASSUME NEW index \in Index
    PROVE  VerifyFull(index) \in PlannedProcess /\ Complete(VerifyFull(index))
<1>1. PICK n \in Nat : n = Len(index) /\ DOMAIN index = 1..n
  BY SizesAre
<1>2. PICK bs : bs = [i \in 1..n |-> index[i].size]
  OBVIOUS
<1>3. PICK size : size = TotalSize(index, DOMAIN index)
  OBVIOUS
<1>4. bs \in Weights(1..n) /\ size = Total(bs) /\ size \in 0..UInt64Size - 1
      /\ \A i \in 1..n : /\ index[i].size \in Nat /\ bs[i] = index[i].size
                         /\ index[i].dir => bs[i] = 0
  BY <1>1, <1>2, <1>3, SizesAre
<1>5. PICK ts : ts = [i \in 1..n |->
                        IF i \in DOMAIN index /\ ~index[i].dir
                        THEN <<AddFinishedSize(index[i].size), IncFinishedCount>>
                        ELSE <<IncFinishedCount>>]
  OBVIOUS
<1>6. \A t \in 1..n : TaskCounts(ts[t], 1, bs[t])
  <2> SUFFICES ASSUME NEW t \in 1..n PROVE TaskCounts(ts[t], 1, bs[t])
    OBVIOUS
  <2>1. CASE index[t].dir
    <3>1. ts[t] = <<IncFinishedCount>> /\ bs[t] = 0
      BY <1>4, <1>5, <2>1
    <3>2. QED
      BY <3>1, TasksOfNodes
  <2>2. CASE ~index[t].dir
    <3>1. /\ ts[t] = <<AddFinishedSize(index[t].size), IncFinishedCount>>
          /\ bs[t] = index[t].size /\ index[t].size \in Nat
      BY <1>1, <1>4, <1>5, <2>2
    <3>2. QED
      BY <3>1, TasksOfNodes
  <2>3. QED
    BY <2>1, <2>2
<1>7. ts \in Seq(Seq(Call)) /\ Len(ts) = n
  <2>1. ts = [t \in 1..n |-> ts[t]] /\ \A t \in 1..n : ts[t] \in Seq(Call)
    BY <1>5, <1>6 DEF TaskCounts
  <2>2. QED
    BY <2>1, TasksAre
<1>8. PICK mc \in Seq(Call) : mc = <<>> /\ Len(mc) = 0
  <2>1. <<>> \in Seq(Call) /\ Len(<<>>) = 0
    OBVIOUS
  <2>2. QED
    BY <2>1
<1>9. PICK title \in Titles : title = "Verifying snapshot"
  BY DEF Titles
<1>10. /\ Process(title, Len(mc) + Len(ts), size, mc, ts) \in PlannedProcess
       /\ Complete(Process(title, Len(mc) + Len(ts), size, mc, ts))
  <2>1. \A j \in 1..Len(mc) : mc[j] = IncFinishedCount
    BY <1>8
  <2>2. bs \in Weights(1..Len(ts)) /\ \A t \in 1..Len(ts) : TaskEnds(ts[t], bs[t])
    BY <1>4, <1>6, <1>7, CountingTaskEnds
  <2>3. ts \in Seq(Seq(Call)) /\ size \in 0..UInt64Size - 1 /\ size = Total(bs)
    BY <1>4, <1>7
  <2>4. QED
    BY <2>1, <2>2, <2>3, OneFileATask
<1>11. VerifyFull(index) = Process(title, n, size, mc, ts)
  BY <1>1, <1>3, <1>5, <1>8, <1>9 DEF VerifyFull, Verify
<1>12. QED
  BY <1>7, <1>8, <1>10, <1>11

\* Restore counts the directories in the main thread, and their tasks skip them.
LEMMA RestoreIsPlanned ==
    ASSUME NEW index \in Index
    PROVE  Restore(index) \in PlannedProcess /\ Complete(Restore(index))
<1>1. PICK n \in Nat : n = Len(index) /\ DOMAIN index = 1..n
  BY SizesAre
<1>2. PICK bs : bs = [i \in 1..n |-> index[i].size]
  OBVIOUS
<1>3. PICK size : size = TotalSize(index, DOMAIN index)
  OBVIOUS
<1>4. bs \in Weights(1..n) /\ size = Total(bs) /\ size \in 0..UInt64Size - 1
      /\ \A i \in 1..n : /\ index[i].size \in Nat /\ bs[i] = index[i].size
                         /\ index[i].dir => bs[i] = 0
  BY <1>1, <1>2, <1>3, SizesAre
<1>5. PICK fs : fs = [i \in 1..n |-> IF index[i].dir THEN 0 ELSE 1]
  OBVIOUS
<1>6. PICK ts : ts = [i \in DOMAIN index |-> RestoreTask(index[i])]
  OBVIOUS
<1>7. \A t \in 1..n : TaskCounts(ts[t], fs[t], bs[t])
  <2> SUFFICES ASSUME NEW t \in 1..n PROVE TaskCounts(ts[t], fs[t], bs[t])
    OBVIOUS
  <2>1. CASE index[t].dir
    <3>1. ts[t] = <<>> /\ fs[t] = 0 /\ bs[t] = 0
      BY <1>1, <1>4, <1>5, <1>6, <2>1 DEF RestoreTask
    <3>2. QED
      BY <3>1, TasksOfNodes
  <2>2. CASE ~index[t].dir
    <3>1. /\ ts[t] = <<AddFinishedSize(index[t].size), IncFinishedCount>> /\ fs[t] = 1
          /\ bs[t] = index[t].size /\ index[t].size \in Nat
      BY <1>1, <1>4, <1>5, <1>6, <2>2 DEF RestoreTask
    <3>2. QED
      BY <3>1, TasksOfNodes
  <2>3. QED
    BY <2>1, <2>2
<1>8. ts \in Seq(Seq(Call)) /\ Len(ts) = n
  <2>1. ts = [t \in 1..n |-> ts[t]] /\ \A t \in 1..n : ts[t] \in Seq(Call)
    BY <1>1, <1>6, <1>7 DEF TaskCounts
  <2>2. QED
    BY <2>1, TasksAre
<1>9. PICK d \in Nat : d = Cardinality(Directories(index)) /\ n = d + Total(fs)
  <2> DEFINE N == 1..n
             D == Directories(index)
             F == {i \in N : fs[i] = 1}
  <2>1. IsFiniteSet(N) /\ Cardinality(N) = n
    BY NumbersAre
  <2>2. D \in SUBSET N /\ F = N \ D
    BY <1>1, <1>5 DEF Directories
  <2>3. fs \in Weights(N) /\ \A i \in N : fs[i] \in {0, 1}
    BY <1>5 DEF Weights
  <2>4. Total(fs) = Cardinality(F)
    <3> HIDE DEF N
    <3>1. QED
      BY <2>1, <2>3, TotalOfOnes
  <2> HIDE DEF N, D, F
  <2>5. IsFiniteSet(D) /\ Cardinality(D) \in Nat
    BY <2>1, <2>2, FS_Subset, FS_CardinalityType
  <2>6. Cardinality(F) = n - Cardinality(D)
    <3>1. N \cap D = D
      BY <2>2
    <3>2. Cardinality(N \ D) = Cardinality(N) - Cardinality(N \cap D)
      BY <2>1, FS_Difference
    <3>3. QED
      BY <2>1, <2>2, <3>1, <3>2
  <2>7. n = Cardinality(D) + Total(fs)
    BY <2>4, <2>5, <2>6
  <2>8. QED
    BY <2>5, <2>7 DEF D
<1>10. PICK mc \in Seq(Call) : /\ mc = [k \in 1..d |-> IncFinishedCount] /\ Len(mc) = d
                               /\ \A j \in 1..Len(mc) : mc[j] = IncFinishedCount
  BY CountsAre
<1>11. PICK title \in Titles : title = "Restoring snapshot"
  BY DEF Titles
<1>12. /\ Process(title, n, size, mc, ts) \in PlannedProcess
       /\ Complete(Process(title, n, size, mc, ts))
  <2>1. \A j \in 1..Len(mc) : mc[j] = IncFinishedCount
    BY <1>10
  <2>2. fs \in Weights(1..Len(ts)) /\ bs \in Weights(1..Len(ts))
    BY <1>4, <1>5, <1>8 DEF Weights
  <2>3. PICK xs : xs = [t \in 1..Len(ts) |-> 0]
    OBVIOUS
  <2>4. xs \in Weights(1..Len(ts)) /\ \A t \in 1..Len(ts) : xs[t] = 0
    BY <2>3 DEF Weights
  <2>5. Total(xs) = 0
    BY <2>4, TotalOfZeros
  <2>6. \A t \in 1..Len(ts) : /\ CountsOrThrows(ts[t])
                              /\ AmountAfter(ts[t], 0, "IncFinishedCount") = fs[t]
                              /\ AmountAfter(ts[t], 0, "Throw") = xs[t]
                              /\ AmountAfter(ts[t], 0, "AddFinishedSize") = bs[t]
    BY <1>7, <1>8, <2>4, CountsDoNotThrow DEF TaskCounts
  <2>7. /\ ts \in Seq(Seq(Call)) /\ size \in 0..UInt64Size - 1 /\ size = Total(bs)
        /\ n = Len(mc) + Total(fs) + Total(xs)
    BY <1>4, <1>8, <1>9, <1>10, <2>5
  <2>8. QED
    BY <2>1, <2>2, <2>4, <2>6, <2>7, ProcessIsPlanned
<1>13. Restore(index) = Process(title, n, size, mc, ts)
  BY <1>1, <1>3, <1>6, <1>9, <1>10, <1>11 DEF Restore
<1>14. QED
  BY <1>12, <1>13

\* Two lists of as many calls in turn are a list of calls.
LEMMA InTurnIs ==
    ASSUME NEW s \in Seq(Call), NEW t \in Seq(Call), Len(s) = Len(t)
    PROVE  InTurn(s, t) \in Seq(Call)
<1>1. PICK n \in Nat : n = Len(s) /\ n = Len(t)
  OBVIOUS
<1>2. \A k \in 1..2 * n : /\ k % 2 = 1 => (k + 1) \div 2 \in 1..n
                          /\ k % 2 # 1 => k \div 2 \in 1..n
  OBVIOUS
<1>3. \A j \in 1..n : s[j] \in Call /\ t[j] \in Call
  BY <1>1
<1>4. \A k \in 1..2 * n : (IF k % 2 = 1 THEN s[(k + 1) \div 2] ELSE t[k \div 2]) \in Call
  BY <1>2, <1>3
<1>5. InTurn(s, t)
        = [k \in 1..2 * n |-> IF k % 2 = 1 THEN s[(k + 1) \div 2] ELSE t[k \div 2]]
  BY <1>1 DEF InTurn
<1>6. InTurn(s, t) \in [1..2 * n -> Call]
  BY <1>4, <1>5
<1>7. 2 * n \in Nat
  OBVIOUS
<1>8. QED
  BY <1>6, <1>7

\* GenerateIndex announces nothing.
LEMMA GenerateIndexIsPlanned ==
    ASSUME NEW right \in Index
    PROVE  GenerateIndex(right) \in PlannedProcess /\ ~Counting(GenerateIndex(right))
<1>1. PICK n \in Nat : n = Len(right) /\ DOMAIN right = 1..n
  BY SizesAre
<1>2. PICK s, t : /\ s = [i \in 1..n |-> AddTotalSize(right[i].size)]
                  /\ t = [i \in 1..n |-> IncFileCount]
  OBVIOUS
<1>3. \A i \in 1..n : AddTotalSize(right[i].size) \in Call /\ IncFileCount \in Call
  BY <1>1, SizesAre, CallsOfSize
<1>4. s \in Seq(Call) /\ t \in Seq(Call) /\ Len(s) = n /\ Len(t) = n
  <2>1. s \in [1..n -> Call] /\ t \in [1..n -> Call]
    BY <1>2, <1>3
  <2>2. QED
    BY <2>1
<1>5. PICK mc \in Seq(Call) : mc = InTurn(s, t)
  BY <1>4, InTurnIs
<1>6. PICK title \in Titles : title = "Reading directory"
  BY DEF Titles
<1>7. PICK p : p = [title |-> title, isEndDeterminate |-> FALSE, nFiles |-> 0, totalSize |-> 0,
                    tasks |-> <<>>, mainCalls |-> mc]
  OBVIOUS
<1>8. GenerateIndex(right) = p
  BY <1>1, <1>2, <1>5, <1>6, <1>7 DEF GenerateIndex
<1>9. <<>> \in Seq(Seq(Call)) /\ 0 \in 0..UInt64Size - 1
  BY UInt64Assumption
<1>10. p \in PlannedProcess
  BY <1>7, <1>9 DEF PlannedProcess
<1>11. ~Counting(p)
  BY <1>7 DEF Counting
<1>12. QED
  BY <1>8, <1>10, <1>11

\* ComputeDeleted has its types, whatever it finds on the right.
LEMMA DeletedIsPlanned ==
    ASSUME NEW left \in Index, NEW right \in Index
    PROVE  ComputeDeleted(left, right) \in PlannedProcess /\ ~Counting(ComputeDeleted(left, right))
<1>1. PICK S \in SUBSET DOMAIN left : S = Different(left, right)
  BY DEF Different
<1>2. PICK numbers : numbers = Sorted(S)
  OBVIOUS
<1>3. PICK n \in Nat : /\ n = Len(numbers) /\ numbers \in Seq(S) /\ DOMAIN numbers = 1..n
                       /\ S \in SUBSET (1..Len(left))
  <2>1. S \in SUBSET (1..Len(left)) /\ Len(left) \in Nat
    BY <1>1, SizesAre
  <2>2. numbers \in Seq(S)
    BY <1>2, <2>1, SortedIs
  <2>3. QED
    BY <2>1, <2>2
<1>4. PICK size \in 0..UInt64Size - 1 : size = TotalSize(left, S)
  BY <1>1, SizesAre
<1> DEFINE SizeOf(i) == IF left[i].path \in Paths(right) THEN SizeOnTheRight(right, i)
                        ELSE AddFinishedSize(left[i].size)
<1>5. \A i \in S : SizeOf(i) \in Call
  <2> SUFFICES ASSUME NEW i \in S PROVE SizeOf(i) \in Call
    OBVIOUS
  <2>1. AddFinishedSize(left[i].size) \in Call
    BY <1>3, SizesAre, CallsOfSize
  <2>2. SizeOnTheRight(right, i) \in Call
    <3>1. i \in DOMAIN right => right[i].size \in Nat
      BY SizesAre
    <3>2. 0 \in Nat
      OBVIOUS
    <3>3. QED
      BY <3>1, <3>2, CallsOfSize DEF SizeOnTheRight
  <2>3. QED
    BY <2>1, <2>2
<1>6. PICK s, t : s = [k \in 1..n |-> IncFileCount] /\ t = [k \in 1..n |-> SizeOf(numbers[k])]
  OBVIOUS
<1>7. \A k \in 1..n : IncFileCount \in Call /\ SizeOf(numbers[k]) \in Call
  <2>1. \A k \in 1..n : numbers[k] \in S
    BY <1>3
  <2>2. 0 \in Nat
    OBVIOUS
  <2> HIDE DEF SizeOf
  <2>3. QED
    BY <1>5, <2>1, <2>2, CallsOfSize
<1>8. s \in Seq(Call) /\ t \in Seq(Call) /\ Len(s) = n /\ Len(t) = n
  <2> HIDE DEF SizeOf
  <2>1. s \in [1..n -> Call] /\ t \in [1..n -> Call]
    BY <1>6, <1>7
  <2>2. QED
    BY <2>1
<1>9. PICK mc \in Seq(Call) : mc = InTurn(s, t)
  BY <1>8, InTurnIs
<1>10. ComputeDeleted(left, right) = Process("Resolving deleted nodes", n, size, mc, <<>>)
  BY <1>1, <1>2, <1>3, <1>4, <1>6, <1>9 DEF ComputeDeleted
<1>11. <<>> \in Seq(Seq(Call))
  OBVIOUS
<1>12. PICK title \in Titles : title = "Resolving deleted nodes"
  BY DEF Titles
<1>13. Process(title, n, size, mc, <<>>) \in PlannedProcess
  BY <1>11, Zenon DEF Process, PlannedProcess
<1>14. Process(title, n, size, mc, <<>>).title = title
  BY DEF Process
<1>15. QED
  BY <1>10, <1>12, <1>13, <1>14 DEF Counting

-----------------------------------------------------------------------------
\* What the theorems assume of the commands: they are add-snapshot, diff, verify and
\* restore of some indexes.  An index without nodes stands for no snapshot, and the
\* nodes can have any size when they are hashed and any chunks when they are piped.
CommandsAreOfIndexes ==
    \A c \in Commands : \E left, right \in Index :
        \E hashed \in [DOMAIN right -> Nat], chunks \in [DOMAIN right -> Seq(Nat)] :
            c.processes \in {AddSnapshot(left, right, hashed, chunks),
                             <<VerifyFull(right)>>, <<Restore(right)>>,
                             <<GenerateIndex(right)>> \o ComputeDiff(left, right, hashed)}

\* Such commands are well planned.
LEMMA CommandsArePlanned == ASSUME CommandsAreOfIndexes PROVE WellPlanned
<1> DEFINE Planned == {p \in PlannedProcess : Counting(p) => Complete(p)}
<1>1. ASSUME NEW left \in Index, NEW right \in Index, NEW hashed \in [DOMAIN right -> Nat],
             NEW chunks \in [DOMAIN right -> Seq(Nat)]
      PROVE  /\ <<VerifyFull(right)>> \in Seq(Planned) /\ <<Restore(right)>> \in Seq(Planned)
             /\ <<GenerateIndex(right)>> \o ComputeDiff(left, right, hashed) \in Seq(Planned)
             /\ AddSnapshot(left, right, hashed, chunks) \in Seq(Planned)
  <2>1. ASSUME NEW x \in Index, NEW y \in Index
        PROVE  ComputeDiff(x, y, hashed) \in Seq(Planned)
    <3>1. ComputeDifference(x, y) \in Planned /\ ComputeDifference(y, x) \in Planned
      BY DifferenceIsPlanned
    <3>2. ComputeDeleted(x, y) \in Planned
      BY DeletedIsPlanned
    <3>3. ComputeNodeDifferences(x, y, hashed) \in Planned
      BY NodeDifferencesArePlanned
    <3> HIDE DEF AllOf
    <3>4. QED
      BY <3>1, <3>2, <3>3 DEF ComputeDiff
  <2>2. VerifyFull(right) \in Planned /\ Restore(right) \in Planned
    BY VerifyIsPlanned, RestoreIsPlanned
  <2>3. GenerateIndex(right) \in Planned /\ CreateSnapshot(left, right, chunks) \in Planned
    BY GenerateIndexIsPlanned, CreateSnapshotIsPlanned
  <2>4. PICK d, e : d = ComputeDiff(left, right, hashed) /\ e = ComputeDiff(right, right, hashed)
    OBVIOUS
  <2>5. d \in Seq(Planned) /\ e \in Seq(Planned)
    BY <2>1, <2>4
  <2> HIDE DEF AllOf
  <2>6. /\ <<VerifyFull(right)>> \in Seq(Planned) /\ <<Restore(right)>> \in Seq(Planned)
        /\ <<GenerateIndex(right)>> \in Seq(Planned)
        /\ <<CreateSnapshot(left, right, chunks)>> \in Seq(Planned)
    BY <2>2, <2>3
  <2>7. (IF left = <<>> THEN <<>> ELSE d) \in Seq(Planned)
    BY <2>5
  <2>8. /\ AddSnapshot(left, right, hashed, chunks) \in Seq(Planned)
        /\ <<GenerateIndex(right)>> \o ComputeDiff(left, right, hashed) \in Seq(Planned)
    <3>1. \A s, t \in Seq(Planned) : s \o t \in Seq(Planned)
      OBVIOUS
    <3>2. QED
      BY <2>4, <2>5, <2>6, <2>7, <3>1 DEF AddSnapshot
  <2>9. QED
    BY <2>4, <2>5, <2>6, <2>8
<1>2. ASSUME NEW c \in Commands
      PROVE  /\ c.processes \in Seq(PlannedProcess)
             /\ \A i \in DOMAIN c.processes : Counting(c.processes[i]) => Complete(c.processes[i])
  <2>1. c.processes \in Seq(Planned)
    <3>1. PICK left \in Index, right \in Index :
            \E hashed \in [DOMAIN right -> Nat], chunks \in [DOMAIN right -> Seq(Nat)] :
                c.processes \in {AddSnapshot(left, right, hashed, chunks),
                                 <<VerifyFull(right)>>, <<Restore(right)>>,
                                 <<GenerateIndex(right)>> \o ComputeDiff(left, right, hashed)}
      BY DEF CommandsAreOfIndexes
    <3>2. PICK hashed \in [DOMAIN right -> Nat], chunks \in [DOMAIN right -> Seq(Nat)] :
                c.processes \in {AddSnapshot(left, right, hashed, chunks),
                                 <<VerifyFull(right)>>, <<Restore(right)>>,
                                 <<GenerateIndex(right)>> \o ComputeDiff(left, right, hashed)}
      BY <3>1
    <3> HIDE DEF Planned
    <3>3. QED
      BY <1>1, <3>2
  <2>2. PICK s \in Seq(Planned) : s = c.processes
    BY <2>1
  <2>3. \A i \in DOMAIN s : s[i] \in Planned
    BY <2>2
  <2>4. s \in Seq(PlannedProcess)
    <3>1. s \in [1..Len(s) -> PlannedProcess]
      BY <2>3
    <3>2. QED
      BY <3>1
  <2>5. QED
    BY <2>2, <2>3, <2>4
<1>3. QED
  BY <1>2 DEF WellPlanned

-----------------------------------------------------------------------------
\* The types hold before the first process.
LEMMA TypeInvInit == ASSUME Init PROVE TypeInv
<1>1. processes = <<>> /\ Added = 0 /\ processes \in Seq(Status)
  BY DEF Init, Added
<1>2. QED
  BY <1>1 DEF Init, TypeInv, TypeOK, Idle, Showing

\* Every step keeps the types.
LEMMA AddProcessTypes ==
    ASSUME WellPlanned, TypeInv, AddProcessStatusTracker
    PROVE  /\ TypeInv'
           /\ Added' = Added + 1 /\ Added + 1 \in 1..Len(Plan)
           /\ \A i \in 1..Added : processes'[i] = processes[i]
           /\ processes'[Added + 1] =
                [isEndDeterminate |-> Plan[Added + 1].isEndDeterminate,
                 nFiles |-> Plan[Added + 1].nFiles, totalSize |-> Plan[Added + 1].totalSize,
                 nFinishedFiles |-> 0, doneSize |-> 0, hasEnded |-> FALSE]
<1>1. PICK n \in Nat : n = Added
  BY DEF TypeInv, TypeOK, Added
<1>2. /\ processes \in Seq(Status) /\ Len(processes) = n /\ n < Len(Plan)
      /\ command \in Commands /\ command' = command
  BY <1>1 DEF TypeInv, TypeOK, Added, AddProcessStatusTracker
<1>3. Plan \in Seq(PlannedProcess) /\ Plan' = Plan /\ Len(Plan) \in Nat
      /\ n + 1 \in 1..Len(Plan) /\ Plan[n + 1] \in PlannedProcess
      /\ Plan[n + 1].mainCalls \in Seq(Call) /\ Plan[n + 1].tasks \in Seq(Seq(Call))
  <2>1. Plan \in Seq(PlannedProcess) /\ Plan' = Plan /\ Len(Plan) \in Nat
    BY <1>2, PlanIs DEF Plan
  <2>2. n + 1 \in 1..Len(Plan)
    BY <1>1, <1>2, <2>1
  <2>3. QED
    BY <1>2, <2>1, <2>2, PlanIs
<1>4. PICK r : r = [isEndDeterminate |-> Plan[n + 1].isEndDeterminate,
                    nFiles |-> Plan[n + 1].nFiles, totalSize |-> Plan[n + 1].totalSize,
                    nFinishedFiles |-> 0, doneSize |-> 0, hasEnded |-> FALSE]
  OBVIOUS
<1>5. r \in Status
  BY <1>3, <1>4 DEF Status, PlannedProcess
<1>6. processes' = Append(processes, r)
  BY <1>1, <1>4 DEF AddProcessStatusTracker
<1>7. /\ processes' \in Seq(Status) /\ Len(processes') = n + 1
      /\ processes'[n + 1] = r /\ \A i \in 1..n : processes'[i] = processes[i]
  BY <1>1, <1>2, <1>5, <1>6
<1>8. Added' = n + 1
  BY <1>7 DEF Added
<1>9. TypeOK'
  <2>1. nCalls' = 0 /\ nTaken' = 0 /\ ~Showing' /\ UNCHANGED <<main, running, reporter>>
    BY DEF AddProcessStatusTracker, Showing
  <2>2. 0 \in 0..Len(Plan[n + 1].mainCalls) /\ 0 \in 0..Len(Plan[n + 1].tasks)
    BY <1>3
  <2>3. QED
    BY <1>1, <1>3, <1>7, <1>8, <2>1, <2>2 DEF TypeInv, TypeOK
<1>10. TypeInv'
  BY <1>1, <1>2, <1>8, <1>9 DEF TypeInv, Idle, AddProcessStatusTracker
<1>11. QED
  BY <1>1, <1>3, <1>4, <1>7, <1>8, <1>10

\* A call of the main thread or of a task keeps the types.
LEMMA CalledTypes ==
    ASSUME WellPlanned, TypeInv, Added > 0, NEW c \in Call, processes' = Called(c),
           UNCHANGED <<command, running, reporter, currentStep, shown>>,
           main' \in {"running", "outOfBounds"},
           nCalls' \in Nat, nCalls' <= Len(Plan[Added].mainCalls),
           nTaken' = nTaken, calls' \in [Workers -> Seq(Call)]
    PROVE  TypeInv' /\ Added' = Added /\ Plan' = Plan
<1>1. /\ processes' \in Seq(Status) /\ Len(processes') = Added
      /\ Added \in Nat /\ Len(processes) = Added
  BY CalledIs DEF TypeInv, TypeOK, Added
<1>2. Added' = Added /\ Plan' = Plan /\ DOMAIN processes' = DOMAIN processes
  BY <1>1 DEF Added, Plan, TypeInv, TypeOK
<1>3. TypeOK'
  <2>1. nCalls' \in 0..Len(Plan[Added].mainCalls)
    <3>1. Added \in 1..Len(Plan)
      BY <1>1, PlanIs DEF TypeInv, TypeOK
    <3>2. Plan[Added].mainCalls \in Seq(Call)
      BY <3>1, PlanIs DEF TypeInv
    <3>3. Len(Plan[Added].mainCalls) \in Nat
      BY <3>2
    <3>4. QED
      BY <3>3
  <2>2. QED
    BY <1>1, <1>2, <2>1 DEF TypeInv, TypeOK, Showing
<1>4. QED
  BY <1>2, <1>3 DEF TypeInv, Idle

\* The next call of the main thread, of the tasks and of a worker.
LEMMA NextCallIs ==
    ASSUME WellPlanned, TypeInv
    PROVE  /\ Active =>
                /\ Added \in 1..Len(Plan) /\ Added \in Nat
                /\ Plan[Added].mainCalls \in Seq(Call) /\ Plan[Added].tasks \in Seq(Seq(Call))
           /\ Active /\ nCalls < Len(Plan[Added].mainCalls) =>
                Plan[Added].mainCalls[nCalls + 1] \in Call
           /\ Active /\ nTaken < Len(Plan[Added].tasks) =>
                Plan[Added].tasks[nTaken + 1] \in Seq(Call)
           /\ \A w \in Workers : ~Idle(w) =>
                /\ Added > 0
                /\ Head(calls[w]) \in Call
                /\ [calls EXCEPT ![w] = Tail(@)] \in [Workers -> Seq(Call)]
<1>1. ASSUME Active
      PROVE  /\ Added \in 1..Len(Plan) /\ Added \in Nat
             /\ Plan[Added].mainCalls \in Seq(Call) /\ Plan[Added].tasks \in Seq(Seq(Call))
  <2>1. Added \in Nat /\ Added > 0 /\ Added <= Len(Plan)
    BY <1>1 DEF Active, TypeInv, TypeOK, Added
  <2>2. Plan \in Seq(PlannedProcess)
    BY PlanIs DEF TypeInv
  <2>3. Added \in 1..Len(Plan)
    BY <2>1, <2>2
  <2>4. QED
    BY <2>1, <2>3, PlanIs DEF TypeInv
<1>2. ASSUME Active, nCalls < Len(Plan[Added].mainCalls)
      PROVE  Plan[Added].mainCalls[nCalls + 1] \in Call
  <2>1. PICK s \in Seq(Call) : s = Plan[Added].mainCalls
    BY <1>1, <1>2
  <2>2. nCalls + 1 \in 1..Len(s)
    BY <1>2, <2>1 DEF TypeInv
  <2>3. QED
    BY <2>1, <2>2
<1>3. ASSUME Active, nTaken < Len(Plan[Added].tasks)
      PROVE  Plan[Added].tasks[nTaken + 1] \in Seq(Call)
  <2>1. PICK s \in Seq(Seq(Call)) : s = Plan[Added].tasks
    BY <1>1, <1>3
  <2>2. nTaken + 1 \in 1..Len(s)
    BY <1>3, <2>1 DEF TypeInv
  <2>3. QED
    BY <2>1, <2>2
<1>4. ASSUME NEW w \in Workers, ~Idle(w)
      PROVE  /\ Added > 0 /\ Head(calls[w]) \in Call
             /\ [calls EXCEPT ![w] = Tail(@)] \in [Workers -> Seq(Call)]
  <2>1. calls \in [Workers -> Seq(Call)] /\ Added > 0 /\ calls[w] # <<>>
    BY <1>4 DEF TypeInv, Idle
  <2>2. Head(calls[w]) \in Call /\ Tail(calls[w]) \in Seq(Call)
    BY <2>1
  <2>3. QED
    BY <2>1, <2>2
<1>5. QED
  BY <1>1, <1>2, <1>3, <1>4

\* The main thread's call keeps the types, also the one that is out of bounds.
LEMMA MainCallTypes ==
    ASSUME WellPlanned, TypeInv, MainCall
    PROVE  TypeInv' /\ Added' = Added /\ Plan' = Plan
<1>1. PICK c : c = Plan[Added].mainCalls[nCalls + 1]
  OBVIOUS
<1>2. c \in Call /\ Added > 0 /\ Added \in Nat /\ Plan[Added].mainCalls \in Seq(Call)
  BY <1>1, NextCallIs DEF MainCall, Active
<1>3. nCalls' \in Nat /\ nCalls' <= Len(Plan[Added].mainCalls)
  BY <1>2 DEF MainCall, TypeInv
<1>4. /\ UNCHANGED <<command, running, reporter, currentStep, shown>>
      /\ nTaken' = nTaken /\ calls' = calls /\ calls' \in [Workers -> Seq(Call)]
  BY DEF MainCall, TypeInv
<1>5. CASE \E d \in Call : processes' = Called(d) /\ UNCHANGED main
  <2>1. PICK d \in Call : processes' = Called(d)
    BY <1>5
  <2>2. main' \in {"running", "outOfBounds"}
    BY <1>5 DEF MainCall, Active
  <2>3. QED
    BY <1>2, <1>3, <1>4, <2>1, <2>2, CalledTypes
<1>6. CASE main' = "outOfBounds" /\ UNCHANGED processes
  <2>1. Added' = Added /\ Plan' = Plan
    BY <1>4, <1>6 DEF Added, Plan
  <2>2. nCalls' \in 0..Len(Plan[Added].mainCalls)
    BY <1>2, <1>3
  <2>3. TypeOK'
    BY <1>4, <1>6, <2>1, <2>2 DEF TypeInv, TypeOK, Showing
  <2>4. QED
    BY <1>3, <1>4, <2>1, <2>3 DEF TypeInv, Idle
<1>7. CASE c = OutOfBounds
  <2>1. \A n \in 0..UInt64Size - 1 : ReduceTotalSize(n) \in Call
    BY UInt64Assumption DEF Call, CallNames, ReduceTotalSize
  <2>2. \/ main' = "outOfBounds" /\ UNCHANGED processes
        \/ \E n \in 0..UInt64Size - 1 : processes' = Called(ReduceTotalSize(n)) /\ UNCHANGED main
    BY <1>1, <1>7 DEF MainCall
  <2>3. QED
    BY <1>5, <1>6, <2>1, <2>2
<1>8. CASE c # OutOfBounds
  <2>1. processes' = Called(c) /\ UNCHANGED main
    BY <1>1, <1>8 DEF MainCall
  <2>2. QED
    BY <1>2, <1>5, <2>1
<1>9. QED
  BY <1>7, <1>8

\* A worker keeps the types.
LEMMA WorkerTypes ==
    ASSUME WellPlanned, TypeInv, NEW w \in Workers, Worker(w)
    PROVE  TypeInv' /\ Added' = Added /\ Plan' = Plan
<1>1. CASE TakeTask(w)
  <2>1. /\ Active /\ nTaken < Len(Plan[Added].tasks) /\ nTaken' = nTaken + 1
        /\ calls' = [calls EXCEPT ![w] = Plan[Added].tasks[nTaken + 1]]
        /\ UNCHANGED <<command, processes, nCalls, main, running, reporter, currentStep, shown>>
    BY <1>1 DEF TakeTask
  <2>2. Added' = Added /\ Plan' = Plan /\ Added > 0 /\ Added \in Nat
        /\ Plan[Added].tasks \in Seq(Seq(Call)) /\ Plan[Added].tasks[nTaken + 1] \in Seq(Call)
    BY <2>1, NextCallIs DEF Added, Plan, Active
  <2>3. calls' \in [Workers -> Seq(Call)]
    BY <2>1, <2>2 DEF TypeInv
  <2>4. nTaken' \in Nat /\ nTaken' \in 0..Len(Plan[Added].tasks)
    BY <2>1, <2>2 DEF TypeInv
  <2>5. TypeOK'
    BY <2>1, <2>2, <2>4 DEF TypeInv, TypeOK, Showing
  <2>6. QED
    BY <2>1, <2>2, <2>3, <2>4, <2>5 DEF TypeInv, Idle
<1>2. CASE TaskCall(w)
  <2>1. /\ ~Idle(w) /\ main = "running" /\ processes' = Called(Head(calls[w]))
        /\ calls' = [calls EXCEPT ![w] = Tail(@)]
        /\ UNCHANGED <<command, nCalls, nTaken, main, running, reporter, currentStep, shown>>
    BY <1>2 DEF TaskCall
  <2>2. Added > 0 /\ Head(calls[w]) \in Call /\ calls' \in [Workers -> Seq(Call)]
    BY <2>1, NextCallIs
  <2>3. nCalls' \in Nat /\ nCalls' <= Len(Plan[Added].mainCalls)
    <3>1. Added \in 1..Len(Plan)
      BY <2>2, PlanIs DEF TypeInv, TypeOK, Added
    <3>2. Plan[Added].mainCalls \in Seq(Call)
      BY <3>1, PlanIs DEF TypeInv
    <3>3. nCalls \in 0..Len(Plan[Added].mainCalls) /\ Len(Plan[Added].mainCalls) \in Nat
      BY <2>2, <3>2 DEF TypeInv, TypeOK
    <3>4. QED
      BY <2>1, <3>3
  <2>4. main' \in {"running", "outOfBounds"} /\ nTaken' = nTaken
    BY <2>1
  <2>5. QED
    BY <2>1, <2>2, <2>3, <2>4, CalledTypes
<1>3. CASE TaskThrows(w)
  <2>1. /\ main' = "failed"
        /\ UNCHANGED <<command, processes, nCalls, nTaken, calls, running, reporter, currentStep, shown>>
    BY <1>3 DEF TaskThrows
  <2>2. Added' = Added /\ Plan' = Plan
    BY <2>1 DEF Added, Plan
  <2>3. TypeOK'
    BY <2>1, <2>2 DEF TypeInv, TypeOK, Showing
  <2>4. QED
    BY <2>1, <2>2, <2>3 DEF TypeInv, Idle
<1>4. QED
  BY <1>1, <1>2, <1>3 DEF Worker

\* The end of a process keeps the types.
LEMMA FinishedTypes ==
    ASSUME WellPlanned, TypeInv, Finished
    PROVE  /\ TypeInv' /\ Added' = Added /\ Plan' = Plan
           /\ Added \in 1..Len(processes)
           /\ processes'[Added] = [processes[Added] EXCEPT !.hasEnded = TRUE]
           /\ \A i \in 1..Added : i # Added => processes'[i] = processes[i]
<1>1. /\ processes \in Seq(Status) /\ Added > 0 /\ Added = Len(processes) /\ Added \in Nat
      /\ processes' = [processes EXCEPT ![Added].hasEnded = TRUE]
      /\ UNCHANGED <<command, nCalls, nTaken, calls, main, running, reporter, currentStep, shown>>
  BY DEF Finished, Active, TypeInv, TypeOK, Added
<1>2. Added \in 1..Len(processes) /\ processes[Added] \in Status
  BY <1>1
<1>3. [processes[Added] EXCEPT !.hasEnded = TRUE] \in Status
  BY <1>2 DEF Status
<1>4. /\ processes' \in Seq(Status) /\ Len(processes') = Added
      /\ processes'[Added] = [processes[Added] EXCEPT !.hasEnded = TRUE]
      /\ \A i \in 1..Added : i # Added => processes'[i] = processes[i]
  <2>1. PICK p \in Status : p = [processes[Added] EXCEPT !.hasEnded = TRUE]
    BY <1>3
  <2>2. processes' = [processes EXCEPT ![Added] = p]
    BY <1>1, <2>1
  <2>3. processes' \in Seq(Status) /\ Len(processes') = Len(processes)
    BY <1>1, <2>1, <2>2
  <2>4. processes'[Added] = p /\ \A i \in 1..Added : i # Added => processes'[i] = processes[i]
    BY <1>1, <1>2, <2>2
  <2>5. QED
    BY <1>1, <2>1, <2>3, <2>4
<1>5. Added' = Added /\ Plan' = Plan /\ DOMAIN processes' = DOMAIN processes
  BY <1>1, <1>4 DEF Added, Plan
<1>6. TypeOK'
  BY <1>1, <1>4, <1>5 DEF TypeInv, TypeOK, Showing
<1>7. QED
  BY <1>1, <1>2, <1>4, <1>5, <1>6 DEF TypeInv, Idle

\* The end of the tracker, and the reporter, change neither processes nor calls.
LEMMA EndTypes ==
    ASSUME TypeInv, DestroyTracker \/ Join \/ Reporter \/ UNCHANGED vars
    PROVE  /\ TypeInv' /\ Added' = Added /\ Plan' = Plan
           /\ UNCHANGED <<command, processes, nCalls, nTaken, calls>>
<1>1. UNCHANGED <<command, processes, nCalls, nTaken, calls>>
  BY DEF DestroyTracker, Join, Reporter, Report, ReadDoneSize, PrintTask, ToJSON,
         ShowUnchanged, vars
<1>2. /\ Added' = Added /\ Plan' = Plan /\ Added \in Nat
      /\ DOMAIN processes = 1..Added /\ processes \in Seq(Status)
  BY <1>1 DEF Added, Plan, TypeInv, TypeOK
<1>3. /\ main' \in {"running", "joining", "exited", "failed", "dividedByZero", "outOfBounds"}
      /\ running' \in BOOLEAN
      /\ reporter' \in {"waiting", "showing", "printing", "stopped"}
  BY DEF DestroyTracker, Join, Reporter, Report, ReadDoneSize, PrintTask, ToJSON,
         ShowUnchanged, vars, TypeInv, TypeOK, StopReporter
<1>4. shown' \in Nat
  <2>1. CASE ReadDoneSize
    <3>1. currentStep \in DOMAIN processes
      BY <2>1 DEF ReadDoneSize, TypeInv, TypeOK, Showing
    <3>2. processes[currentStep] \in Status
      BY <1>2, <3>1
    <3>3. QED
      BY <2>1, <3>2 DEF ReadDoneSize, Status
  <2>2. CASE ~ReadDoneSize
    BY <2>2 DEF DestroyTracker, Join, Reporter, Report, PrintTask, ToJSON, vars, TypeInv
  <2>3. QED
    BY <2>1, <2>2
<1>5. /\ currentStep' \in Nat \ {0} /\ (currentStep' <= Added \/ currentStep' = 1)
      /\ Showing' => currentStep' \in 1..Added
  <2>0. /\ currentStep \in Nat \ {0} /\ (currentStep <= Added \/ currentStep = 1)
        /\ Showing => currentStep \in 1..Added
    BY <1>2 DEF TypeInv, TypeOK
  <2>1. CASE DestroyTracker \/ Join \/ UNCHANGED vars
    BY <2>0, <2>1 DEF DestroyTracker, Join, vars, Showing
  <2>2. CASE Report
    BY <1>2, <2>0, <2>2 DEF Report, Showing
  <2>3. CASE ReadDoneSize
    BY <2>0, <2>3 DEF ReadDoneSize, Showing
  <2>4. CASE PrintTask
    BY <1>2, <2>0, <2>4 DEF PrintTask, Showing, NextStep
  <2>5. CASE ToJSON
    BY <1>2, <2>0, <2>5 DEF ToJSON, Showing
  <2>6. QED
    BY <2>1, <2>2, <2>3, <2>4, <2>5 DEF Reporter
<1>6. TypeOK'
  BY <1>1, <1>2, <1>3, <1>5 DEF TypeInv, TypeOK
<1>7. QED
  BY <1>1, <1>2, <1>4, <1>5, <1>6 DEF TypeInv, Idle

\* Every step keeps the types.
LEMMA NextTypes == ASSUME WellPlanned, TypeInv, [Next]_vars PROVE TypeInv'
BY AddProcessTypes, MainCallTypes, WorkerTypes, FinishedTypes, EndTypes
   DEF Next, MainThread, Ended

\* The processes and the threads have their types, and the reporter refers to a
\* process that is there: for any workers, any number of commands of any indexes, and
\* any trackers.
THEOREM ProgressTypesAreCorrect == ASSUME CommandsAreOfIndexes PROVE Spec => []TypeOK
<1>1. WellPlanned
  BY CommandsArePlanned
<1>2. Init => TypeInv
  BY <1>1, TypeInvInit
<1>3. TypeInv /\ [Next]_vars => TypeInv'
  BY <1>1, NextTypes
<1>4. TypeInv => TypeOK
  BY DEF TypeInv
<1>5. QED
  BY <1>2, <1>3, <1>4, PTL DEF Spec

-----------------------------------------------------------------------------
\* What is left to count of process p after k calls of the main thread and t tasks
\* that were taken, when the workers have the calls cs left.
WorkerAmounts(cs, kind) == [w \in Workers |-> AmountAfter(cs[w], 0, kind)]
LeftOf(p, k, t, cs, kind) ==
    AmountAfter(p.mainCalls, k, kind) + TasksAfter(p.tasks, t, kind)
        + Total(WorkerAmounts(cs, kind))

\* Its three parts are naturals.
LEMMA LeftIsNat ==
    ASSUME NEW p \in PlannedProcess, NEW k \in Nat, NEW t \in Nat,
           NEW cs \in [Workers -> Seq(Call)], NEW kind
    PROVE  /\ p.mainCalls \in Seq(Call) /\ p.tasks \in Seq(Seq(Call))
           /\ AmountAfter(p.mainCalls, k, kind) \in Nat
           /\ TasksAfter(p.tasks, t, kind) \in Nat
           /\ WorkerAmounts(cs, kind) \in Weights(Workers)
           /\ Total(WorkerAmounts(cs, kind)) \in Nat
           /\ LeftOf(p, k, t, cs, kind) \in Nat
<1>1. p.mainCalls \in Seq(Call) /\ p.tasks \in Seq(Seq(Call))
  BY DEF PlannedProcess
<1>2. AmountAfter(p.mainCalls, k, kind) \in Nat /\ TasksAfter(p.tasks, t, kind) \in Nat
  BY <1>1, AmountAfterIsNat, TasksAfterIsNat
<1>3. WorkerAmounts(cs, kind) \in Weights(Workers)
  <2>1. \A w \in Workers : cs[w] \in Seq(Call)
    OBVIOUS
  <2>2. \A w \in Workers : AmountAfter(cs[w], 0, kind) \in Nat
    BY <2>1, AmountAfterIsNat
  <2>3. QED
    BY <2>2 DEF WorkerAmounts, Weights
<1>4. Total(WorkerAmounts(cs, kind)) \in Nat
  BY <1>3, TotalIsNat, WorkersAssumption
<1>5. QED
  BY <1>1, <1>2, <1>3, <1>4 DEF LeftOf

\* A call of the main thread takes its amount from what is left.
LEMMA LeftAfterMainCall ==
    ASSUME NEW p \in PlannedProcess, NEW k \in Nat, NEW t \in Nat, k < Len(p.mainCalls),
           NEW cs \in [Workers -> Seq(Call)], NEW kind
    PROVE  LeftOf(p, k, t, cs, kind)
                = Amount(p.mainCalls[k + 1], kind) + LeftOf(p, k + 1, t, cs, kind)
<1>1. p.mainCalls \in Seq(Call) /\ k + 1 \in Nat
  BY LeftIsNat
<1>2. p.mainCalls[k + 1] \in Call
  BY <1>1
<1>3. AmountAfter(p.mainCalls, k, kind)
        = Amount(p.mainCalls[k + 1], kind) + AmountAfter(p.mainCalls, k + 1, kind)
  BY <1>1, AmountAfterNext
<1>4. /\ AmountAfter(p.mainCalls, k + 1, kind) \in Nat
      /\ TasksAfter(p.tasks, t, kind) \in Nat /\ Total(WorkerAmounts(cs, kind)) \in Nat
  BY <1>1, LeftIsNat
<1>5. Amount(p.mainCalls[k + 1], kind) \in Nat
  BY <1>2, AmountIsNat
<1>6. QED
  BY <1>3, <1>4, <1>5 DEF LeftOf

\* What one worker has left to count.
LEMMA WorkerChanges ==
    ASSUME NEW kind, NEW cs, NEW ds, NEW w \in Workers, NEW s,
           \A x \in Workers : cs[x] \in Seq(Call) /\ ds[x] \in Seq(Call),
           ds[w] = s, \A x \in Workers : x # w => ds[x] = cs[x]
    PROVE  /\ AmountAfter(s, 0, kind) \in Nat /\ AmountAfter(cs[w], 0, kind) \in Nat
           /\ Total(WorkerAmounts(cs, kind)) \in Nat /\ Total(WorkerAmounts(ds, kind)) \in Nat
           /\ Total(WorkerAmounts(cs, kind)) + AmountAfter(s, 0, kind)
                = Total(WorkerAmounts(ds, kind)) + AmountAfter(cs[w], 0, kind)
<1>3. WorkerAmounts(cs, kind) \in Weights(Workers) /\ WorkerAmounts(ds, kind) \in Weights(Workers)
  <2>1. \A x \in Workers : AmountAfter(cs[x], 0, kind) \in Nat /\ AmountAfter(ds[x], 0, kind) \in Nat
    BY AmountAfterIsNat
  <2>2. QED
    BY <2>1 DEF WorkerAmounts, Weights
<1>4. PICK v : v = WorkerAmounts(cs, kind)
  OBVIOUS
<1>5. PICK u : u = WorkerAmounts(ds, kind)
  OBVIOUS
<1>6. v \in Weights(Workers) /\ u \in Weights(Workers)
  BY <1>3, <1>4, <1>5
<1>7. /\ \A x \in Workers : x # w => v[x] = u[x]
      /\ v[w] = AmountAfter(cs[w], 0, kind) /\ u[w] = AmountAfter(s, 0, kind)
  BY <1>4, <1>5 DEF WorkerAmounts
<1>8. Total(v) + u[w] = Total(u) + v[w]
  BY <1>6, <1>7, TotalChanges, WorkersAssumption
<1>9. Total(v) \in Nat /\ Total(u) \in Nat
  BY <1>6, TotalIsNat, WorkersAssumption
<1>10. u[w] \in Nat /\ v[w] \in Nat
  BY <1>6 DEF Weights
<1>11. QED
  BY <1>4, <1>5, <1>7, <1>8, <1>9, <1>10

\* A worker that takes a task takes its amount from the queue.
LEMMA LeftAfterTake ==
    ASSUME NEW kind, NEW p \in PlannedProcess, NEW w \in Workers,
           nCalls \in Nat, nTaken \in Nat, nTaken < Len(p.tasks),
           \A x \in Workers : calls[x] \in Seq(Call) /\ calls'[x] \in Seq(Call),
           calls[w] = <<>>, calls'[w] = p.tasks[nTaken + 1],
           \A x \in Workers : x # w => calls'[x] = calls[x]
    PROVE  LeftOf(p, nCalls, nTaken, calls, kind) = LeftOf(p, nCalls, nTaken + 1, calls', kind)
<1>1. p.mainCalls \in Seq(Call) /\ p.tasks \in Seq(Seq(Call)) /\ nTaken + 1 \in Nat
  BY DEF PlannedProcess
<1>2. PICK s \in Seq(Call) : s = p.tasks[nTaken + 1]
  BY <1>1
<1>3. TasksAfter(p.tasks, nTaken, kind)
        = AmountAfter(s, 0, kind) + TasksAfter(p.tasks, nTaken + 1, kind)
  BY <1>1, <1>2, TasksAfterNext
<1>4. AmountAfter(calls[w], 0, kind) = 0
  <2>1. calls[w] \in Seq(Call) /\ Len(calls[w]) = 0
    OBVIOUS
  <2>2. QED
    BY <2>1, AmountAfterAll
<1>5. /\ AmountAfter(s, 0, kind) \in Nat
      /\ Total(WorkerAmounts(calls, kind)) \in Nat /\ Total(WorkerAmounts(calls', kind)) \in Nat
      /\ Total(WorkerAmounts(calls, kind)) + AmountAfter(s, 0, kind)
            = Total(WorkerAmounts(calls', kind)) + AmountAfter(calls[w], 0, kind)
  <2>1. calls'[w] = s
    BY <1>2
  <2>2. QED
    BY <2>1, WorkerChanges, Zenon
<1>6. AmountAfter(p.mainCalls, nCalls, kind) \in Nat /\ TasksAfter(p.tasks, nTaken + 1, kind) \in Nat
  BY <1>1, AmountAfterIsNat, TasksAfterIsNat
<1>7. PICK x \in Nat, y \in Nat : x = Total(WorkerAmounts(calls, kind))
                               /\ y = Total(WorkerAmounts(calls', kind))
  BY <1>5
<1>8. x + AmountAfter(s, 0, kind) = y
  BY <1>4, <1>5, <1>7
<1>9. QED
  BY <1>3, <1>5, <1>6, <1>7, <1>8 DEF LeftOf

\* A call of a worker takes its amount from what is left.
LEMMA LeftAfterTaskCall ==
    ASSUME NEW kind, NEW p \in PlannedProcess, NEW w \in Workers,
           nCalls \in Nat, nTaken \in Nat,
           \A x \in Workers : calls[x] \in Seq(Call) /\ calls'[x] \in Seq(Call),
           calls[w] # <<>>, calls'[w] = Tail(calls[w]),
           \A x \in Workers : x # w => calls'[x] = calls[x]
    PROVE  LeftOf(p, nCalls, nTaken, calls, kind) = Amount(Head(calls[w]), kind) + LeftOf(p, nCalls, nTaken, calls', kind)
<1>1. PICK s \in Seq(Call) : s = Tail(calls[w])
  OBVIOUS
<1>2. /\ Head(calls[w]) \in Call
      /\ AmountAfter(calls[w], 0, kind) = Amount(Head(calls[w]), kind) + AmountAfter(s, 0, kind)
  BY <1>1, AmountOfTail
<1>3. /\ AmountAfter(s, 0, kind) \in Nat
      /\ Total(WorkerAmounts(calls, kind)) \in Nat /\ Total(WorkerAmounts(calls', kind)) \in Nat
      /\ Total(WorkerAmounts(calls, kind)) + AmountAfter(s, 0, kind)
            = Total(WorkerAmounts(calls', kind)) + AmountAfter(calls[w], 0, kind)
  BY <1>1, WorkerChanges, Zenon
<1>4. Amount(Head(calls[w]), kind) \in Nat
  BY <1>2, AmountIsNat
<1>5. AmountAfter(p.mainCalls, nCalls, kind) \in Nat /\ TasksAfter(p.tasks, nTaken, kind) \in Nat
  BY AmountAfterIsNat, TasksAfterIsNat DEF PlannedProcess
<1>6. PICK x \in Nat, y \in Nat : x = Total(WorkerAmounts(calls, kind))
                               /\ y = Total(WorkerAmounts(calls', kind))
  BY <1>3
<1>7. PICK a \in Nat, b \in Nat : a = AmountAfter(s, 0, kind) /\ b = Amount(Head(calls[w]), kind)
  BY <1>3, <1>4
<1>8. AmountAfter(calls[w], 0, kind) = b + a
  BY <1>2, <1>7
<1>9. x + a = y + (b + a)
  BY <1>3, <1>6, <1>7, <1>8, Zenon
<1>10. x = y + b
  BY <1>9
<1>11. QED
  BY <1>4, <1>5, <1>6, <1>7, <1>10 DEF LeftOf

\* Before the first call all that is planned is left, after the last call nothing.
LEMMA LeftAtTheEnds ==
    ASSUME NEW p \in PlannedProcess, NEW cs \in [Workers -> Seq(Call)],
           \A w \in Workers : cs[w] = <<>>, NEW kind
    PROVE  /\ LeftOf(p, 0, 0, cs, kind) = AllOf(p, kind) /\ AllOf(p, kind) \in Nat
           /\ LeftOf(p, Len(p.mainCalls), Len(p.tasks), cs, kind) = 0
<1>1. p.mainCalls \in Seq(Call) /\ p.tasks \in Seq(Seq(Call))
  BY DEF PlannedProcess
<1>2. Total(WorkerAmounts(cs, kind)) = 0
  <2>1. \A w \in Workers : WorkerAmounts(cs, kind)[w] = 0
    <3> SUFFICES ASSUME NEW w \in Workers PROVE WorkerAmounts(cs, kind)[w] = 0
      OBVIOUS
    <3>1. cs[w] \in Seq(Call) /\ Len(cs[w]) = 0
      OBVIOUS
    <3>2. AmountAfter(cs[w], 0, kind) = 0
      BY <3>1, AmountAfterAll
    <3>3. QED
      BY <3>2 DEF WorkerAmounts
  <2>2. WorkerAmounts(cs, kind) \in Weights(Workers)
    BY LeftIsNat
  <2>3. QED
    BY <2>1, <2>2, TotalOfZeros
<1>3. AmountAfter(p.mainCalls, 0, kind) \in Nat /\ TasksAfter(p.tasks, 0, kind) \in Nat
  BY <1>1, AmountAfterIsNat, TasksAfterIsNat
<1>4. AmountAfter(p.mainCalls, Len(p.mainCalls), kind) = 0
      /\ TasksAfter(p.tasks, Len(p.tasks), kind) = 0
  BY <1>1, AmountAfterAll, TasksAfterAll
<1>5. QED
  BY <1>2, <1>3, <1>4 DEF LeftOf, AllOf

-----------------------------------------------------------------------------
\* What process i has counted; an exception counts nothing.
Done(i, kind) ==
    CASE kind = "IncFinishedCount" -> processes[i].nFinishedFiles
      [] kind = "AddFinishedSize" -> processes[i].doneSize
      [] OTHER -> 0
ToDo(kind) == LeftOf(Plan[Added], nCalls, nTaken, calls, kind)

Announced(i) ==
    processes[i].nFiles = Plan[i].nFiles /\ processes[i].totalSize = Plan[i].totalSize
Counted(i) == \A kind \in Kinds :
    /\ processes[i].hasEnded => Done(i, kind) = AllOf(Plan[i], kind)
    /\ ~processes[i].hasEnded => Done(i, kind) + ToDo(kind) = AllOf(Plan[i], kind)

\* Only the last process has not ended, and only then there are calls left.  What is
\* done of it and what is left to do is together what was planned.
CountInv ==
    /\ \A i \in 1..Added : i # Added => processes[i].hasEnded
    /\ \A w \in Workers : ~Idle(w) => ~processes[Added].hasEnded
    /\ Added > 0 /\ Counting(Plan[Added]) => \A w \in Workers : CountsOrThrows(calls[w])
    /\ \A i \in 1..Added : Counting(Plan[i]) => Counted(i) /\ Announced(i)
    /\ reporter = "printing" => shown <= processes[currentStep].doneSize

\* What is left is a natural.
LEMMA ToDoIsNat ==
    ASSUME WellPlanned, TypeInv, Added > 0, NEW kind
    PROVE  /\ Added \in 1..Len(Plan) /\ Plan[Added] \in PlannedProcess /\ ToDo(kind) \in Nat
<1>1. Added \in Nat /\ Added <= Len(Plan)
  BY DEF TypeInv, TypeOK, Added
<1>2. Plan \in Seq(PlannedProcess)
  BY PlanIs DEF TypeInv
<1>3. Added \in 1..Len(Plan) /\ Plan[Added] \in PlannedProcess
  BY <1>1, <1>2
<1>4. ToDo(kind) \in Nat
  BY <1>3, LeftIsNat DEF ToDo, TypeInv
<1>5. QED
  BY <1>3, <1>4

\* What the processes are.
LEMMA ProcessIs ==
    ASSUME TypeInv
    PROVE  /\ Added \in Nat /\ DOMAIN processes = 1..Added
           /\ \A i \in 1..Added :
                /\ processes[i] \in Status
                /\ \A kind : Done(i, kind) \in Nat
           /\ Showing => currentStep \in 1..Added
<1>1. Added \in Nat /\ DOMAIN processes = 1..Added /\ processes \in Seq(Status)
      /\ (Showing => currentStep \in 1..Added)
  BY DEF TypeInv, TypeOK, Added
<1>2. \A i \in 1..Added : processes[i] \in Status
  BY <1>1
<1>3. \A p \in Status : p.nFinishedFiles \in Nat /\ p.doneSize \in Nat
  BY DEF Status
<1>4. \A i \in 1..Added : \A kind : Done(i, kind) \in Nat
  BY <1>2, <1>3 DEF Done
<1>5. QED
  BY <1>1, <1>2, <1>4

\* A call moves its amount from what is left to what is done.
LEMMA CalledCounts ==
    ASSUME TypeInv, TypeInv', CountInv, Added > 0, ~processes[Added].hasEnded, NEW c \in Call,
           processes' = Called(c), Added' = Added, Plan' = Plan,
           UNCHANGED <<reporter, currentStep, shown>>,
           Counting(Plan[Added]) =>
                /\ c.call \in Counters
                /\ \A w \in Workers : CountsOrThrows(calls'[w])
                /\ \A kind \in Kinds : /\ ToDo(kind)' \in Nat
                                       /\ ToDo(kind) = Amount(c, kind) + ToDo(kind)'
    PROVE  CountInv'
<1>1. /\ Added \in Nat /\ Added \in 1..Added
      /\ \A i \in 1..Added : i # Added => processes'[i] = processes[i]
      /\ processes'[Added] = CalledStatus(processes[Added], c) /\ processes[Added] \in Status
  BY ProcessIs, CalledIs DEF TypeInv, TypeOK
<1>2. PICK p \in Status, q \in Status :
        /\ p = processes[Added] /\ q = processes'[Added] /\ q = CalledStatus(p, c)
        /\ ~p.hasEnded /\ ~q.hasEnded /\ q.doneSize >= p.doneSize
        /\ c.call \in Counters =>
            /\ q.nFiles = p.nFiles /\ q.totalSize = p.totalSize
            /\ q.nFinishedFiles = p.nFinishedFiles + Amount(c, "IncFinishedCount")
            /\ q.doneSize = p.doneSize + Amount(c, "AddFinishedSize")
  BY <1>1, CalledStatusIs
<1>3. \A i \in 1..Added : i # Added => processes'[i].hasEnded
  BY <1>1 DEF CountInv
<1>4. ASSUME NEW i \in 1..Added, Counting(Plan[i]) PROVE Counted(i)' /\ Announced(i)'
  <2>1. CASE i # Added
    <3>1. processes[i].hasEnded /\ Counted(i) /\ Announced(i) /\ processes'[i] = processes[i]
      BY <1>1, <1>4, <2>1 DEF CountInv
    <3>2. \A kind \in Kinds : Done(i, kind)' = Done(i, kind)
      BY <3>1 DEF Done
    <3>3. QED
      BY <3>1, <3>2 DEF Counted, Announced
  <2>2. CASE i = Added
    <3>1. c.call \in Counters /\ Announced(i) /\ Counted(i)
      BY <1>4, <2>2 DEF CountInv
    <3>2. Announced(i)'
      BY <1>2, <2>2, <3>1 DEF Announced
    <3>3. ASSUME NEW kind \in Kinds
          PROVE  Done(i, kind)' + ToDo(kind)' = AllOf(Plan[i], kind)
      <4>1. Done(i, kind) + ToDo(kind) = AllOf(Plan[i], kind)
        BY <1>2, <2>2, <3>1 DEF Counted
      <4>2. ToDo(kind)' \in Nat /\ ToDo(kind) = Amount(c, kind) + ToDo(kind)'
        BY <1>4, <2>2
      <4>3. Done(i, kind) \in Nat /\ Amount(c, kind) \in Nat
        BY ProcessIs, AmountIsNat
      <4>4. Done(i, kind)' = Done(i, kind) + Amount(c, kind)
        <5>1. CASE kind = "Throw"
          <6>1. Amount(c, kind) = 0
            BY <3>1, <5>1 DEF Amount, Counters
          <6>2. Done(i, kind)' = 0 /\ Done(i, kind) = 0
            BY <5>1 DEF Done
          <6>3. QED
            BY <6>1, <6>2
        <5>2. CASE kind \in Counters
          BY <1>2, <2>2, <3>1, <5>2 DEF Done, Counters
        <5>3. QED
          BY <5>1, <5>2 DEF Kinds
      <4>5. QED
        BY <4>1, <4>2, <4>3, <4>4
    <3>4. QED
      BY <1>2, <2>2, <3>2, <3>3 DEF Counted
  <2>3. QED
    BY <2>1, <2>2
<1>5. ASSUME reporter' = "printing" PROVE shown' <= processes'[currentStep'].doneSize
  <2>1. /\ shown <= processes[currentStep].doneSize /\ shown \in Nat /\ currentStep \in 1..Added
        /\ shown' = shown /\ currentStep' = currentStep
    BY <1>5, ProcessIs DEF CountInv, Showing, TypeInv
  <2>2. CASE currentStep # Added
    BY <1>1, <2>1, <2>2
  <2>3. CASE currentStep = Added
    <3>1. p.doneSize \in Nat /\ q.doneSize \in Nat
      BY DEF Status
    <3>2. processes[currentStep] = p /\ processes'[currentStep'] = q /\ q.doneSize >= p.doneSize
      BY <1>2, <2>1, <2>3
    <3>3. shown <= p.doneSize /\ shown' = shown /\ shown \in Nat
      BY <2>1, <3>2
    <3>4. QED
      BY <3>1, <3>2, <3>3
  <2>4. QED
    BY <2>2, <2>3
<1>6. QED
  BY <1>2, <1>3, <1>4, <1>5 DEF CountInv

\* Nothing is counted when all that changes is where the reporter and the main
\* thread are.
LEMMA EndCounts ==
    ASSUME TypeInv, CountInv, DestroyTracker \/ Join \/ Reporter \/ UNCHANGED vars
    PROVE  CountInv'
<1>1. Added' = Added /\ Plan' = Plan /\ UNCHANGED <<command, processes, nCalls, nTaken, calls>>
  BY EndTypes
<1>2. \A i \in 1..Added : (Counted(i)' <=> Counted(i)) /\ (Announced(i)' <=> Announced(i))
  BY <1>1 DEF Counted, Announced, Done, ToDo
<1>3. \A w \in Workers : Idle(w)' <=> Idle(w)
  BY <1>1 DEF Idle
<1>4. ASSUME reporter' = "printing" PROVE shown' <= processes'[currentStep'].doneSize
  <2>1. CASE ReadDoneSize
    <3>1. currentStep \in 1..Added
      BY <2>1, ProcessIs DEF ReadDoneSize, Showing
    <3>2. processes[currentStep].doneSize \in Nat
      BY <3>1, ProcessIs DEF Status
    <3>3. QED
      BY <1>1, <2>1, <3>2 DEF ReadDoneSize
  <2>2. CASE ~ReadDoneSize
    <3>1. /\ reporter = "printing" /\ UNCHANGED <<shown, currentStep>>
      BY <1>4, <2>2 DEF DestroyTracker, Join, Reporter, Report, PrintTask, ToJSON, vars
    <3>2. QED
      BY <1>1, <3>1 DEF CountInv
  <2>3. QED
    BY <2>1, <2>2
<1>5. QED
  BY <1>1, <1>2, <1>3, <1>4 DEF CountInv

\* A process that is added has all to do that is planned.
LEMMA AddProcessCounts ==
    ASSUME WellPlanned, TypeInv, CountInv, AddProcessStatusTracker
    PROVE  CountInv'
<1>1. /\ TypeInv' /\ Added' = Added + 1 /\ Added + 1 \in 1..Len(Plan) /\ Added \in Nat
      /\ \A i \in 1..Added : processes'[i] = processes[i]
      /\ UNCHANGED <<command, calls, reporter, currentStep, shown>> /\ Plan' = Plan
      /\ nCalls' = 0 /\ nTaken' = 0 /\ ~Showing
      /\ Added > 0 => processes[Added].hasEnded
  BY AddProcessTypes, ProcessIs DEF AddProcessStatusTracker, Plan
<1>2. PICK r : r = processes'[Added + 1]
  OBVIOUS
<1>3. /\ r.nFiles = Plan[Added + 1].nFiles /\ r.totalSize = Plan[Added + 1].totalSize
      /\ r.nFinishedFiles = 0 /\ r.doneSize = 0 /\ ~r.hasEnded
  BY <1>2, AddProcessTypes
<1>4. \A w \in Workers : calls[w] = <<>>
  BY <1>1 DEF CountInv, TypeInv, Idle
<1>5. \A i \in 1..Added : processes'[i].hasEnded
  <2>1. \A i \in 1..Added : i # Added => processes[i].hasEnded
    BY DEF CountInv
  <2>2. QED
    BY <1>1, <2>1
<1>6. ASSUME NEW i \in 1..Added + 1, Counting(Plan[i]) PROVE Counted(i)' /\ Announced(i)'
  <2>1. CASE i \in 1..Added
    <3>1. processes[i].hasEnded /\ Counted(i) /\ Announced(i) /\ processes'[i] = processes[i]
      BY <1>1, <1>5, <1>6, <2>1 DEF CountInv
    <3>2. \A kind \in Kinds : Done(i, kind)' = Done(i, kind)
      BY <3>1 DEF Done
    <3>3. QED
      BY <1>1, <3>1, <3>2 DEF Counted, Announced
  <2>2. CASE i = Added + 1
    <3>0. Announced(i)'
      BY <1>1, <1>2, <1>3, <2>2 DEF Announced
    <3> SUFFICES ASSUME NEW kind \in Kinds
                 PROVE  Done(i, kind)' + ToDo(kind)' = AllOf(Plan[i], kind)
      BY <1>1, <1>2, <1>3, <2>2, <3>0 DEF Counted
    <3>1. /\ Plan[i] \in PlannedProcess /\ calls \in [Workers -> Seq(Call)]
      BY <1>1, <1>6, <2>2, PlanIs DEF TypeInv
    <3>2. LeftOf(Plan[i], 0, 0, calls, kind) = AllOf(Plan[i], kind)
      BY <1>4, <3>1, LeftAtTheEnds
    <3>3. ToDo(kind)' = LeftOf(Plan[i], 0, 0, calls, kind)
      BY <1>1, <2>2 DEF ToDo
    <3>4. Done(i, kind)' = 0
      BY <1>2, <1>3, <2>2 DEF Done
    <3>5. ToDo(kind)' \in Nat
      BY <3>1, <3>3, LeftIsNat
    <3>6. QED
      BY <3>2, <3>3, <3>4, <3>5
  <2>3. QED
    BY <1>1, <2>1, <2>2
<1>7. /\ \A i \in 1..Added + 1 : i # Added + 1 => processes'[i].hasEnded
      /\ \A w \in Workers : calls'[w] = <<>> /\ CountsOrThrows(calls'[w])
      /\ reporter' # "printing"
  BY <1>1, <1>4, <1>5 DEF CountsOrThrows, Showing
<1>8. QED
  BY <1>1, <1>6, <1>7 DEF CountInv, Idle

\* What the main thread counts moves from what is left to what is done.
LEMMA MainCallCounts ==
    ASSUME WellPlanned, TypeInv, CountInv, MainCall
    PROVE  CountInv'
<1>1. /\ TypeInv' /\ Added' = Added /\ Plan' = Plan /\ Added > 0
      /\ ~processes[Added].hasEnded
      /\ nCalls < Len(Plan[Added].mainCalls) /\ nCalls' = nCalls + 1
      /\ UNCHANGED <<command, nTaken, calls, running, reporter, currentStep, shown>>
  BY MainCallTypes DEF MainCall, Active
<1>2. PICK p \in PlannedProcess : p = Plan[Added]
  BY <1>1, ToDoIsNat
<1>3. PICK c : c = p.mainCalls[nCalls + 1]
  OBVIOUS
<1>4. c \in Call
  BY <1>1, <1>2, <1>3, NextCallIs DEF MainCall
<1>5. ASSUME Counting(p)
      PROVE  /\ c.call \in Counters
             /\ \A w \in Workers : CountsOrThrows(calls'[w])
             /\ \A kind \in Kinds : /\ ToDo(kind)' \in Nat
                                    /\ ToDo(kind) = Amount(c, kind) + ToDo(kind)'
  <2>1. OnlyCounts(p.mainCalls)
    BY <1>1, <1>2, <1>5, PlanIs, ToDoIsNat DEF Complete, TypeInv
  <2>2. p.mainCalls \in Seq(Call) /\ nCalls \in Nat
    BY DEF PlannedProcess, TypeInv
  <2>3. c.call \in Counters
    BY <1>1, <1>2, <1>3, <2>1, <2>2 DEF OnlyCounts
  <2>4. ASSUME NEW kind \in Kinds
        PROVE  ToDo(kind)' \in Nat /\ ToDo(kind) = Amount(c, kind) + ToDo(kind)'
    <3>1. /\ calls \in [Workers -> Seq(Call)] /\ nCalls \in Nat /\ nTaken \in Nat
          /\ nCalls + 1 \in Nat /\ nCalls < Len(p.mainCalls)
      BY <1>1, <1>2 DEF TypeInv
    <3>2. LeftOf(p, nCalls, nTaken, calls, kind)
            = Amount(c, kind) + LeftOf(p, nCalls + 1, nTaken, calls, kind)
      BY <1>3, <3>1, LeftAfterMainCall
    <3>3. LeftOf(p, nCalls + 1, nTaken, calls, kind) \in Nat
      BY <3>1, LeftIsNat
    <3>4. ToDo(kind)' = LeftOf(p, nCalls + 1, nTaken, calls, kind)
      BY <1>1, <1>2 DEF ToDo
    <3>5. QED
      BY <1>2, <3>2, <3>3, <3>4 DEF ToDo
  <2>5. QED
    BY <1>1, <1>2, <1>5, <2>3, <2>4 DEF CountInv
<1>6. CASE c # OutOfBounds
  <2>1. processes' = Called(c)
    BY <1>2, <1>3, <1>6 DEF MainCall
  <2>2. QED
    BY <1>1, <1>2, <1>4, <1>5, <2>1, CalledCounts
<1>7. CASE c = OutOfBounds
  <2>1. ~Counting(p)
    BY <1>5, <1>7 DEF OutOfBounds, Counters
  <2>2. CASE UNCHANGED processes
    <3>1. \A i \in 1..Added : Counting(Plan[i]) => i # Added /\ processes[i].hasEnded
      BY <1>2, <2>1 DEF CountInv
    <3>2. \A i \in 1..Added : Counting(Plan[i]) => Counted(i)' /\ Announced(i)'
      BY <1>1, <2>2, <3>1 DEF CountInv, Counted, Announced, Done
    <3>3. QED
      BY <1>1, <1>2, <2>1, <2>2, <3>2 DEF CountInv, Idle
  <2>3. CASE \E n \in 0..UInt64Size - 1 : processes' = Called(ReduceTotalSize(n))
    <3>1. PICK n \in 0..UInt64Size - 1 : processes' = Called(ReduceTotalSize(n))
      BY <2>3
    <3>2. ReduceTotalSize(n) \in Call
      BY UInt64Assumption DEF Call, CallNames, ReduceTotalSize
    <3>3. QED
      BY <1>1, <1>2, <2>1, <3>1, <3>2, CalledCounts
  <2>4. QED
    BY <1>2, <1>3, <1>7, <2>2, <2>3 DEF MainCall
<1>8. QED
  BY <1>6, <1>7

\* The only call named so is the exception.
LEMMA ThrowIs == ASSUME NEW c \in Call PROVE c.call = "Throw" <=> c = Throw
<1>1. c = [call |-> c.call, n |-> c.n] /\ (c.call = "Throw" => c.n = 1)
  BY DEF Call
<1>2. QED
  BY <1>1 DEF Throw

\* A worker that takes a task moves it out of the queue, and counts its calls.
LEMMA WorkerCounts ==
    ASSUME WellPlanned, TypeInv, CountInv, NEW w \in Workers, Worker(w)
    PROVE  CountInv'
<1>1. TypeInv' /\ Added' = Added /\ Plan' = Plan /\ Added > 0
  BY WorkerTypes, NextCallIs DEF Worker, TakeTask, TaskCall, TaskThrows, Active
<1>2. PICK p \in PlannedProcess : p = Plan[Added]
  BY <1>1, ToDoIsNat
<1>3. /\ calls \in [Workers -> Seq(Call)] /\ nCalls \in Nat /\ nTaken \in Nat /\ nTaken + 1 \in Nat
      /\ p.tasks \in Seq(Seq(Call))
  BY DEF TypeInv, PlannedProcess
<1>4. CASE TakeTask(w)
  <2>1. /\ ~processes[Added].hasEnded /\ calls[w] = <<>>
        /\ nTaken < Len(p.tasks) /\ nTaken' = nTaken + 1
        /\ calls' = [calls EXCEPT ![w] = p.tasks[nTaken + 1]]
        /\ UNCHANGED <<command, processes, nCalls, main, running, reporter, currentStep, shown>>
    BY <1>2, <1>4 DEF TakeTask, Active, Idle
  <2>2. ASSUME NEW kind PROVE ToDo(kind)' = ToDo(kind)
    <3>1. /\ \A x \in Workers : calls[x] \in Seq(Call) /\ calls'[x] \in Seq(Call)
          /\ calls'[w] = p.tasks[nTaken + 1] /\ \A x \in Workers : x # w => calls'[x] = calls[x]
      BY <1>1, <1>3, <2>1 DEF TypeInv
    <3>2. LeftOf(p, nCalls, nTaken, calls, kind) = LeftOf(p, nCalls, nTaken + 1, calls', kind)
      BY <1>3, <2>1, <3>1, LeftAfterTake
    <3>3. QED
      BY <1>1, <1>2, <2>1, <3>2 DEF ToDo
  <2>3. ASSUME Counting(p) PROVE \A x \in Workers : CountsOrThrows(calls'[x])
    <3>1. \A t \in DOMAIN p.tasks : CountsOrThrows(p.tasks[t])
      BY <1>1, <1>2, <2>3, PlanIs, ToDoIsNat DEF Complete, TypeInv
    <3>2. CountsOrThrows(p.tasks[nTaken + 1])
      BY <1>3, <2>1, <3>1
    <3>3. QED
      BY <1>1, <1>2, <1>3, <2>1, <2>3, <3>2 DEF CountInv
  <2>4. \A i \in 1..Added : (Counted(i)' <=> Counted(i)) /\ (Announced(i)' <=> Announced(i))
    BY <1>1, <2>1, <2>2 DEF Counted, Announced, Done
  <2>5. QED
    BY <1>1, <1>2, <2>1, <2>3, <2>4 DEF CountInv, Idle
<1>5. CASE TaskCall(w)
  <2>1. /\ calls[w] # <<>> /\ processes' = Called(Head(calls[w])) /\ Head(calls[w]) # Throw
        /\ calls' = [calls EXCEPT ![w] = Tail(@)]
        /\ UNCHANGED <<command, nCalls, nTaken, main, running, reporter, currentStep, shown>>
    BY <1>5 DEF TaskCall, Idle
  <2>2. ~processes[Added].hasEnded
    BY <2>1 DEF CountInv, Idle
  <2>3. PICK s \in Seq(Call) : s = calls[w] /\ s # <<>>
    BY <1>3, <2>1
  <2>4. PICK c \in Call : c = Head(s) /\ c = s[1]
    BY <2>3
  <2>5. ASSUME Counting(p)
        PROVE  /\ c.call \in Counters
               /\ \A x \in Workers : CountsOrThrows(calls'[x])
               /\ \A kind \in Kinds : /\ ToDo(kind)' \in Nat
                                      /\ ToDo(kind) = Amount(c, kind) + ToDo(kind)'
    <3>1. \A x \in Workers : CountsOrThrows(calls[x])
      BY <1>1, <1>2, <2>5 DEF CountInv
    <3>2. CountsOrThrows(s) /\ \A j \in 1..Len(s) : s[j].call \in Kinds
      BY <2>3, <3>1 DEF CountsOrThrows
    <3>3. c.call \in Counters
      <4>1. c.call \in Kinds /\ c # Throw
        BY <2>1, <2>3, <2>4, <3>2
      <4>2. c.call # "Throw"
        BY <4>1, ThrowIs
      <4>3. QED
        BY <4>1, <4>2 DEF Kinds
    <3>4. CountsOrThrows(Tail(s))
      <4>1. \A j \in DOMAIN Tail(s) : Tail(s)[j] = s[j + 1] /\ j + 1 \in 1..Len(s)
        BY <2>3
      <4>2. QED
        BY <3>2, <4>1 DEF CountsOrThrows
    <3>5. \A x \in Workers : CountsOrThrows(calls'[x])
      BY <1>3, <2>1, <2>3, <3>1, <3>4
    <3>6. ASSUME NEW kind \in Kinds
          PROVE  ToDo(kind)' \in Nat /\ ToDo(kind) = Amount(c, kind) + ToDo(kind)'
      <4>1. /\ \A x \in Workers : calls[x] \in Seq(Call) /\ calls'[x] \in Seq(Call)
            /\ calls'[w] = Tail(calls[w]) /\ \A x \in Workers : x # w => calls'[x] = calls[x]
            /\ calls' \in [Workers -> Seq(Call)]
        BY <1>1, <1>3, <2>1 DEF TypeInv
      <4>2. LeftOf(p, nCalls, nTaken, calls, kind)
                = Amount(Head(calls[w]), kind) + LeftOf(p, nCalls, nTaken, calls', kind)
        BY <1>3, <2>1, <4>1, LeftAfterTaskCall
      <4>3. LeftOf(p, nCalls, nTaken, calls', kind) \in Nat
        BY <1>3, <4>1, LeftIsNat
      <4>4. ToDo(kind)' = LeftOf(p, nCalls, nTaken, calls', kind)
        BY <1>1, <1>2, <2>1 DEF ToDo
      <4>5. QED
        BY <1>2, <2>3, <2>4, <4>2, <4>3, <4>4 DEF ToDo
    <3>7. QED
      BY <3>3, <3>5, <3>6
  <2>6. processes' = Called(c) /\ UNCHANGED <<reporter, currentStep, shown>>
    BY <2>1, <2>3, <2>4
  <2>7. QED
    BY <1>1, <1>2, <2>2, <2>5, <2>6, CalledCounts
<1>6. CASE TaskThrows(w)
  <2>1. UNCHANGED <<command, processes, nCalls, nTaken, calls, running, reporter, currentStep, shown>>
    BY <1>6 DEF TaskThrows
  <2>2. \A i \in 1..Added : (Counted(i)' <=> Counted(i)) /\ (Announced(i)' <=> Announced(i))
    BY <1>1, <2>1 DEF Counted, Announced, Done, ToDo
  <2>3. QED
    BY <1>1, <2>1, <2>2 DEF CountInv, Idle
<1>7. QED
  BY <1>4, <1>5, <1>6 DEF Worker

\* When a process ends nothing is left to do.
LEMMA FinishedCounts ==
    ASSUME WellPlanned, TypeInv, CountInv, Finished
    PROVE  CountInv'
<1>1. /\ TypeInv' /\ Added' = Added /\ Plan' = Plan /\ Added > 0 /\ Added \in 1..Added
      /\ processes'[Added] = [processes[Added] EXCEPT !.hasEnded = TRUE]
      /\ \A i \in 1..Added : i # Added => processes'[i] = processes[i]
      /\ UNCHANGED <<command, nCalls, nTaken, calls, main, running, reporter, currentStep, shown>>
      /\ nCalls = Len(Plan[Added].mainCalls) /\ nTaken = Len(Plan[Added].tasks)
      /\ ~processes[Added].hasEnded
      /\ \A w \in Workers : calls[w] = <<>>
  BY FinishedTypes, ProcessIs DEF Finished, Active, AllTasksComplete, Idle
<1>2. PICK p \in Status, q \in Status :
        /\ p = processes[Added] /\ q = processes'[Added] /\ q = [p EXCEPT !.hasEnded = TRUE]
        /\ q.hasEnded /\ q.nFiles = p.nFiles /\ q.nFinishedFiles = p.nFinishedFiles
        /\ q.totalSize = p.totalSize /\ q.doneSize = p.doneSize
  <2>1. PICK p \in Status : p = processes[Added]
    BY <1>1, ProcessIs
  <2>2. PICK q : q = [p EXCEPT !.hasEnded = TRUE]
    OBVIOUS
  <2>3. /\ q \in Status /\ q.hasEnded /\ q.nFiles = p.nFiles
        /\ q.nFinishedFiles = p.nFinishedFiles
        /\ q.totalSize = p.totalSize /\ q.doneSize = p.doneSize
    BY <2>2 DEF Status
  <2>4. QED
    BY <1>1, <2>1, <2>2, <2>3
<1>3. \A kind \in Kinds : ToDo(kind) = 0
  <2>1. Plan[Added] \in PlannedProcess /\ calls \in [Workers -> Seq(Call)]
    BY <1>1, ToDoIsNat DEF TypeInv
  <2>2. QED
    BY <1>1, <2>1, LeftAtTheEnds DEF ToDo
<1>4. \A i \in 1..Added : /\ \A kind \in Kinds : Done(i, kind)' = Done(i, kind)
                          /\ Announced(i)' <=> Announced(i)
  <2>1. \A i \in 1..Added : /\ processes'[i].nFiles = processes[i].nFiles
                            /\ processes'[i].nFinishedFiles = processes[i].nFinishedFiles
                            /\ processes'[i].totalSize = processes[i].totalSize
                            /\ processes'[i].doneSize = processes[i].doneSize
    BY <1>1, <1>2
  <2>2. QED
    BY <1>1, <2>1 DEF Announced, Done
<1>5. \A i \in 1..Added : processes'[i].hasEnded /\ processes'[i].doneSize = processes[i].doneSize
  BY <1>1, <1>2 DEF CountInv
<1>6. ASSUME NEW i \in 1..Added, Counting(Plan[i]) PROVE Counted(i)' /\ Announced(i)'
  <2>1. Counted(i) /\ Announced(i) /\ (processes[i].hasEnded \/ i = Added)
    BY <1>6 DEF CountInv
  <2>2. \A kind \in Kinds : Done(i, kind) = AllOf(Plan[i], kind)
    BY <1>1, <1>3, <2>1, ProcessIs DEF Counted
  <2>3. QED
    BY <1>1, <1>4, <1>5, <2>1, <2>2 DEF Counted
<1>7. reporter' = "printing" => shown' <= processes'[currentStep'].doneSize
  BY <1>1, <1>5, ProcessIs DEF CountInv, Showing
<1>8. QED
  BY <1>1, <1>5, <1>6, <1>7 DEF CountInv, Idle

\* The counts hold in every state.
LEMMA CountsHold == ASSUME WellPlanned PROVE Spec => [](TypeInv /\ CountInv)
<1>1. Init => TypeInv /\ CountInv
  <2> SUFFICES ASSUME Init PROVE TypeInv /\ CountInv
    OBVIOUS
  <2>1. TypeInv
    BY TypeInvInit
  <2>2. Added = 0
    BY DEF Init, Added
  <2>3. QED
    BY <2>1, <2>2 DEF Init, CountInv, Idle
<1>2. TypeInv /\ CountInv /\ [Next]_vars => TypeInv' /\ CountInv'
  <2> SUFFICES ASSUME TypeInv, CountInv, [Next]_vars PROVE TypeInv' /\ CountInv'
    OBVIOUS
  <2>1. TypeInv'
    BY NextTypes
  <2>2. CASE AddProcessStatusTracker
    BY <2>2, AddProcessCounts, AddProcessTypes
  <2>3. CASE MainCall
    BY <2>1, <2>3, MainCallCounts
  <2>4. CASE Finished
    BY <2>1, <2>4, FinishedCounts
  <2>5. CASE \E w \in Workers : Worker(w)
    BY <2>1, <2>5, WorkerCounts
  <2>6. CASE DestroyTracker \/ Join \/ Reporter \/ UNCHANGED vars
    BY <2>1, <2>6, EndCounts
  <2>7. QED
    BY <2>1, <2>2, <2>3, <2>4, <2>5, <2>6 DEF Next, MainThread, Ended
<1>3. QED
  BY <1>1, <1>2, PTL DEF Spec

\* The exceptions that are planned are those of files that have been edited.
LEMMA ThrowsAreOfEdited ==
    ASSUME WellPlanned, TypeInv, NEW i \in 1..Added, Counting(Plan[i])
    PROVE  /\ AllOf(Plan[i], "Throw") = 0 <=> ~ReadsEdited(i)
           /\ \A kind : AllOf(Plan[i], kind) \in Nat
           /\ Complete(Plan[i])
<1>1. PICK p \in PlannedProcess : p = Plan[i] /\ Complete(p)
  <2>1. Added \in Nat /\ Added <= Len(Plan) /\ Plan \in Seq(PlannedProcess)
    BY PlanIs DEF TypeInv, TypeOK, Added
  <2>2. i \in 1..Len(Plan)
    BY <2>1
  <2>3. QED
    BY <2>1, <2>2, PlanIs DEF TypeInv
<1>2. PICK ts \in Seq(Seq(Call)) : ts = p.tasks
  BY DEF PlannedProcess
<1>3. p.mainCalls \in Seq(Call)
  BY DEF PlannedProcess
<1>4. AmountAfter(p.mainCalls, 0, "Throw") = 0
  BY <1>1, <1>3, CountsDoNotThrow DEF Complete
<1>5. \A kind : AllOf(p, kind) \in Nat
  BY <1>2, <1>3, AmountAfterIsNat, TasksAfterIsNat DEF AllOf
<1> DEFINE T == 1..Len(ts)
           xs == TaskAmounts(ts, 0, "Throw")
<1>6. xs \in Weights(T) /\ IsFiniteSet(T) /\ AllOf(p, "Throw") = Total(xs)
  <2>1. xs \in Weights(T) /\ IsFiniteSet(T) /\ TasksAfter(ts, 0, "Throw") = Total(xs)
        /\ Total(xs) \in Nat
    BY TasksAfterIsNat DEF TasksAfter
  <2>2. QED
    BY <1>2, <1>4, <2>1 DEF AllOf
<1>7. \A t \in T : ts[t] \in Seq(Call) /\ xs[t] = AmountAfter(ts[t], 0, "Throw")
  BY DEF TaskAmounts
<1>8. ASSUME NEW t \in T
      PROVE  xs[t] = 0 <=> Throw \notin Range(ts[t])
  <2>1. PICK s \in Seq(Call) : s = ts[t]
    BY <1>7
  <2> DEFINE D == 1..Len(s)
             v == Amounts(s, 0, "Throw")
  <2>2. v \in Weights(D) /\ IsFiniteSet(D) /\ xs[t] = Total(v)
    BY <1>7, <2>1, AmountAfterIsNat DEF AmountAfter
  <2>3. \A j \in D : v[j] = 0 <=> s[j] # Throw
    <3> SUFFICES ASSUME NEW j \in D PROVE v[j] = 0 <=> s[j] # Throw
      OBVIOUS
    <3>1. s[j] \in Call
      BY <2>1
    <3>2. v[j] = Amount(s[j], "Throw")
      BY DEF Amounts
    <3>3. s[j].call = "Throw" <=> s[j] = Throw
      BY <3>1, ThrowIs
    <3>4. QED
      BY <3>2, <3>3 DEF Amount, Throw
  <2>4. Throw \in Range(s) <=> \E j \in D : s[j] = Throw
    BY <2>1 DEF Range
  <2> HIDE DEF D, v, xs
  <2>5. Total(v) = 0 <=> \A j \in D : v[j] = 0
    BY <2>2, TotalIsZero
  <2>6. QED
    BY <2>1, <2>2, <2>3, <2>4, <2>5
<1>9. ReadsEdited(i) <=> \E t \in T : Throw \in Range(ts[t])
  <2>1. DOMAIN ts = T
    OBVIOUS
  <2>2. QED
    BY <1>1, <1>2, <2>1 DEF ReadsEdited
<1> HIDE DEF T, xs
<1>10. Total(xs) = 0 <=> \A t \in T : xs[t] = 0
  BY <1>6, TotalIsZero
<1>11. QED
  BY <1>1, <1>5, <1>6, <1>8, <1>9, <1>10

\* A process never counts more files than it announces, and bytes only if it reads an
\* edited file.  When it has ended it has read none, and all is counted.
LEMMA ProcessShows ==
    ASSUME WellPlanned, TypeInv, CountInv, NEW i \in 1..Added, CountsWhatIsDone(i)
    PROVE  /\ processes[i].nFinishedFiles <= processes[i].nFiles
           /\ ~ReadsEdited(i) => processes[i].doneSize <= processes[i].totalSize
           /\ processes[i].hasEnded =>
                /\ processes[i].nFinishedFiles = processes[i].nFiles
                /\ processes[i].doneSize = processes[i].totalSize
                /\ ~ReadsEdited(i)
<1>1. Counting(Plan[i])
  BY DEF CountsWhatIsDone, Counting
<1>2. Counted(i) /\ Announced(i) /\ (i # Added => processes[i].hasEnded)
  BY <1>1 DEF CountInv
<1>3. PICK f, b, x :
        /\ f = AllOf(Plan[i], "IncFinishedCount") /\ b = AllOf(Plan[i], "AddFinishedSize")
        /\ x = AllOf(Plan[i], "Throw")
  OBVIOUS
<1>4. /\ f \in Nat /\ b \in Nat /\ x \in Nat /\ (x = 0 <=> ~ReadsEdited(i))
      /\ f + x = processes[i].nFiles /\ (x = 0 => b = processes[i].totalSize)
  BY <1>1, <1>2, <1>3, ThrowsAreOfEdited DEF Complete, Announced
<1>5. ASSUME NEW kind \in Kinds
      PROVE  /\ Done(i, kind) \in Nat /\ Done(i, kind) <= AllOf(Plan[i], kind)
             /\ processes[i].hasEnded => Done(i, kind) = AllOf(Plan[i], kind)
  <2>1. Done(i, kind) \in Nat
    BY ProcessIs
  <2>2. CASE processes[i].hasEnded
    BY <1>2, <2>1, <2>2 DEF Counted
  <2>3. CASE ~processes[i].hasEnded
    <3>1. i = Added /\ Added > 0
      BY <1>2, <2>3, ProcessIs
    <3>2. ToDo(kind) \in Nat
      BY <3>1, ToDoIsNat
    <3>3. QED
      BY <1>2, <2>1, <2>3, <3>2 DEF Counted
  <2>4. QED
    BY <2>2, <2>3
<1>6. "IncFinishedCount" \in Kinds /\ "AddFinishedSize" \in Kinds /\ "Throw" \in Kinds
  BY DEF Kinds, Counters
<1>7. /\ Done(i, "IncFinishedCount") = processes[i].nFinishedFiles
      /\ Done(i, "AddFinishedSize") = processes[i].doneSize /\ Done(i, "Throw") = 0
  BY DEF Done
<1>8. /\ processes[i].nFinishedFiles \in Nat /\ processes[i].nFinishedFiles <= f
      /\ processes[i].doneSize \in Nat /\ processes[i].doneSize <= b
      /\ processes[i].hasEnded =>
            /\ processes[i].nFinishedFiles = f /\ processes[i].doneSize = b /\ x = 0
  BY <1>3, <1>5, <1>6, <1>7
<1>9. QED
  BY <1>4, <1>8

\* A process that has finished shows all its files and bytes as done, whatever the
\* order in which the workers and the main thread count them, and has read no file
\* that was edited.
THEOREM FinishedShowsAll == ASSUME CommandsAreOfIndexes PROVE Spec => []FinishedIsComplete
<1>1. ASSUME TypeInv, CountInv PROVE FinishedIsComplete
  BY <1>1, CommandsArePlanned, ProcessIs, ProcessShows DEF FinishedIsComplete
<1>2. Spec => [](TypeInv /\ CountInv)
  BY CommandsArePlanned, CountsHold
<1>3. QED
  BY <1>1, <1>2, PTL

\* No reporter ever shows more than there is to do, also not with a number it has
\* read before a worker counted, except for the bytes of a process that reads a file
\* of another size than the index has, for any chunks of it; such a process does not
\* finish.
THEOREM ProgressIsBounded == ASSUME CommandsAreOfIndexes PROVE Spec => []ProgressAtMostOne
<1>1. ASSUME TypeInv, CountInv PROVE ProgressAtMostOne
  <2>1. WellPlanned
    BY CommandsArePlanned
  <2>2. \A i \in 1..Added : /\ processes[i].doneSize \in Nat
                            /\ processes[i].totalSize \in Int
    BY <1>1, ProcessIs, UInt64Assumption DEF Status
  <2>3. ASSUME NEW i \in 1..Added, CountsWhatIsDone(i)
        PROVE  /\ processes[i].nFinishedFiles <= processes[i].nFiles
               /\ processes[i].doneSize > processes[i].totalSize =>
                    ReadsEdited(i) /\ ~processes[i].hasEnded
    BY <1>1, <2>1, <2>2, <2>3, ProcessShows
  <2>4. ASSUME reporter = "printing", CountsWhatIsDone(currentStep),
               shown > processes[currentStep].totalSize
        PROVE  ReadsEdited(currentStep)
    <3>1. currentStep \in 1..Added
      BY <1>1, <2>4, ProcessIs DEF Showing
    <3>2. shown <= processes[currentStep].doneSize /\ shown \in Nat
      BY <1>1, <2>4 DEF CountInv, TypeInv
    <3>3. processes[currentStep].doneSize > processes[currentStep].totalSize
      BY <2>2, <2>4, <3>1, <3>2
    <3>4. QED
      BY <2>3, <2>4, <3>1, <3>3
  <2>5. QED
    BY <1>1, <2>3, <2>4, ProcessIs DEF ProgressAtMostOne
<1>2. Spec => [](TypeInv /\ CountInv)
  BY CommandsArePlanned, CountsHold
<1>3. QED
  BY <1>1, <1>2, PTL
=============================================================================
