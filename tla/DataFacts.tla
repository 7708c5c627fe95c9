------------------------------ MODULE DataFacts ------------------------------
(***************************************************************************)
(* Facts about data that several proofs need.  The provers cannot use the  *)
(* induction theorems of the library, which take an operator; they can use *)
(* that a set of naturals has a least element.  From that: functions that  *)
(* are defined by recursion on 0..N, and what sorting does.                *)
(***************************************************************************)
EXTENDS Sorting, FiniteSets, SequenceTheorems, FiniteSetTheorems, WellFoundedInduction, TLAPS

(* Induction over the natural numbers, for a set. *)
LEMMA Least ==
    ASSUME NEW T \in SUBSET Nat, T # {}
    PROVE  \E m \in T : \A n \in T : m <= n
  <1> DEFINE R == {p \in Nat \X Nat : p[1] < p[2]}
  <1>1. IsWellFoundedOn(R, Nat)
    BY NatLessThanWellFounded DEF OpToRel
  <1>2. PICK m \in T : \A n \in T : <<n, m>> \notin R
    BY <1>1, WFMin, Zenon
  <1>3. ASSUME NEW n \in T, ~(m <= n) PROVE FALSE
    <2>1. <<n, m>> \in R
      BY <1>3
    <2> QED
      BY <1>2, <2>1
  <1> QED
    BY <1>3

\* The values of a loop: its first, and each from the one before it.
Runs(f, N, start, step) == f[0] = start /\ \A n \in 1 .. N : f[n] = step[n][f[n - 1]]

(* A function on 0..N is determined by its value at 0 and by its steps. *)
LEMMA Recursion ==
    ASSUME NEW X, NEW start \in X, NEW N \in Nat, NEW step \in [1 .. N -> [X -> X]]
    PROVE  \E f \in [0 .. N -> X] : Runs(f, N, start, step)
  <1> USE DEF Runs
  <1> DEFINE Good(m) == \E f \in [0 .. m -> X] :
                            f[0] = start /\ \A n \in 1 .. m : f[n] = step[n][f[n - 1]]
             T == {m \in 0 .. N : ~Good(m)}
  <1>1. SUFFICES ASSUME T # {} PROVE FALSE
    <2>1. T = {} => Good(N)
      <3> HIDE DEF Good
      <3> QED
        OBVIOUS
    <2> QED
      BY <2>1
  <1>2. PICK m \in T : \A n \in T : m <= n
    <2>1. T \in SUBSET Nat
      <3> HIDE DEF Good
      <3> QED
        OBVIOUS
    <2> HIDE DEF T
    <2> QED
      BY <1>1, <2>1, Least
  <1>3. m # 0
    <2>1. Good(0)
      <3> DEFINE f == [n \in 0 .. 0 |-> start]
      <3>1. f \in [0 .. 0 -> X] /\ f[0] = start
        OBVIOUS
      <3>2. 1 .. 0 = {}
        OBVIOUS
      <3> HIDE DEF f
      <3> QED
        BY <3>1, <3>2
    <2> QED
      BY <2>1
  <1>4. Good(m - 1) /\ m \in 1 .. N
    BY <1>2, <1>3
  <1>5. PICK g \in [0 .. m - 1 -> X] :
           g[0] = start /\ \A n \in 1 .. m - 1 : g[n] = step[n][g[n - 1]]
    BY <1>4
  <1> DEFINE f == [n \in 0 .. m |-> IF n < m THEN g[n] ELSE step[m][g[m - 1]]]
  <1>6. f \in [0 .. m -> X]
    BY <1>4, <1>5
  <1>7. f[0] = start /\ \A n \in 1 .. m : f[n] = step[n][f[n - 1]]
    <2>1. \A n \in 0 .. m - 1 : f[n] = g[n]
      BY <1>4
    <2>2. f[m] = step[m][g[m - 1]]
      BY <1>4
    <2> HIDE DEF f
    <2>3. f[0] = start
      BY <1>4, <1>5, <2>1
    <2>4. ASSUME NEW n \in 1 .. m PROVE f[n] = step[n][f[n - 1]]
      <3>1. f[n - 1] = g[n - 1]
        BY <1>4, <2>1
      <3>2. CASE n = m
        BY <2>2, <3>1, <3>2
      <3>3. CASE n < m
        <4>1. n \in 1 .. m - 1
          BY <1>4, <3>3
        <4> QED
          BY <1>5, <2>1, <3>1, <4>1
      <3> QED
        BY <1>4, <3>2, <3>3
    <2> QED
      BY <2>3, <2>4
  <1> QED
    BY <1>2, <1>6, <1>7

LEMMA Divided ==
    ASSUME NEW B \in Nat \ {0}, NEW v \in Nat
    PROVE  v \div B \in Nat /\ v % B \in 0 .. B - 1 /\ v = (v \div B) * B + (v % B)
  OBVIOUS
LEMMA Division ==
    ASSUME NEW B \in Nat \ {0}, NEW a \in Nat, NEW d \in 0 .. B - 1
    PROVE  (a * B + d) \div B = a /\ (a * B + d) % B = d
  OBVIOUS

-----------------------------------------------------------------------------
(* Sorting. *)

\* An order of the first n indices in which the values ascend.
Orders(s, n, p) == /\ p \in [1 .. n -> 1 .. n]
                   /\ \A k \in 1 .. n : \E j \in 1 .. n : p[j] = k
                   /\ \A j, k \in 1 .. n : j < k => s[p[j]] <= s[p[k]]

(* From an order of all but the last value: the last goes before those that are greater. *)
LEMMA Insertion ==
    ASSUME NEW s \in Seq(Int), NEW m \in 1 .. Len(s), NEW p, Orders(s, m - 1, p)
    PROVE  \E new : Orders(s, m, new)
  <1>0. m \in Nat /\ m - 1 \in Nat /\ \A k \in 1 .. m : s[k] \in Int
    BY ElementOfSeq
  <1>1. /\ p \in [1 .. m - 1 -> 1 .. m - 1]
        /\ \A k \in 1 .. m - 1 : \E j \in 1 .. m - 1 : p[j] = k
        /\ \A j, k \in 1 .. m - 1 : j < k => s[p[j]] <= s[p[k]]
    BY DEF Orders
  <1> DEFINE Q == {k \in 1 .. m : k = m \/ s[p[k]] > s[m]}
  <1>2. PICK q \in Q : \A k \in Q : q <= k
    <2>1. Q \in SUBSET Nat /\ Q # {}
      BY <1>0
    <2> HIDE DEF Q
    <2> QED
      BY <2>1, Least
  <1>3. q \in 1 .. m /\ (q = m \/ s[p[q]] > s[m]) /\ \A k \in 1 .. q - 1 : s[p[k]] <= s[m]
    <2>1. q \in 1 .. m /\ (q = m \/ s[p[q]] > s[m])
      BY <1>2
    <2>2. ASSUME NEW k \in 1 .. q - 1 PROVE s[p[k]] <= s[m]
      <3>1. k \in 1 .. m - 1 /\ ~(q <= k)
        BY <1>0, <2>1
      <3>2. k \notin Q
        BY <1>2, <3>1
      <3>3. p[k] \in 1 .. m /\ ~(s[p[k]] > s[m])
        <4>1. p[k] \in 1 .. m - 1
          BY <1>1, <3>1
        <4>2. k \in 1 .. m
          BY <1>0, <3>1
        <4> QED
          BY <1>0, <3>2, <4>1, <4>2
      <3>4. s[p[k]] \in Int /\ s[m] \in Int
        BY <1>0, <3>3
      <3> QED
        BY <3>3, <3>4
    <2> QED
      BY <2>1, <2>2
  <1> HIDE DEF Q
  <1> DEFINE new == [k \in 1 .. m |-> IF k < q THEN p[k] ELSE IF k = q THEN m ELSE p[k - 1]]
  <1>4. /\ \A k \in 1 .. q - 1 : new[k] = p[k] /\ k \in 1 .. m - 1
        /\ new[q] = m
        /\ \A k \in q + 1 .. m : new[k] = p[k - 1] /\ k - 1 \in 1 .. m - 1
    BY <1>0, <1>3
  <1>5. new \in [1 .. m -> 1 .. m]
    <2>1. ASSUME NEW k \in 1 .. m
          PROVE  (IF k < q THEN p[k] ELSE IF k = q THEN m ELSE p[k - 1]) \in 1 .. m
      <3>1. CASE k < q
        <4>1. k \in 1 .. m - 1
          BY <1>0, <1>3, <3>1
        <4>2. p[k] \in 1 .. m - 1
          BY <1>1, <4>1
        <4> QED
          BY <1>0, <3>1, <4>2
      <3>2. CASE k = q
        BY <1>0, <3>2
      <3>3. CASE k > q
        <4>1. k - 1 \in 1 .. m - 1
          BY <1>0, <1>3, <3>3
        <4>2. p[k - 1] \in 1 .. m - 1
          BY <1>1, <4>1
        <4> QED
          BY <1>0, <1>3, <3>3, <4>2
      <3> QED
        BY <1>3, <3>1, <3>2, <3>3
    <2> QED
      BY <2>1
  <1> HIDE DEF new
  <1>6. ASSUME NEW k \in 1 .. m PROVE \E j \in 1 .. m : new[j] = k
    <2>1. CASE k = m
      BY <1>3, <1>4, <2>1
    <2>2. CASE k # m
      <3>1. PICK j \in 1 .. m - 1 : p[j] = k
        BY <1>0, <1>1, <2>2
      <3>2. CASE j < q
        <4>1. j \in 1 .. q - 1 /\ j \in 1 .. m
          BY <1>0, <1>3, <3>2
        <4> QED
          BY <1>4, <3>1, <4>1
      <3>3. CASE ~(j < q)
        <4>1. j + 1 \in q + 1 .. m /\ j + 1 \in 1 .. m /\ (j + 1) - 1 = j
          BY <1>0, <1>3, <3>3
        <4>2. new[j + 1] = p[(j + 1) - 1]
          BY <1>4, <4>1
        <4> QED
          BY <3>1, <4>1, <4>2
      <3> QED
        BY <3>2, <3>3
    <2> QED
      BY <2>1, <2>2
  <1>7. ASSUME NEW j \in 1 .. m, NEW k \in 1 .. m, j < k PROVE s[new[j]] <= s[new[k]]
    <2>0. s[m] \in Int /\ q \in 1 .. m
          /\ \A l \in 1 .. m - 1 : p[l] \in 1 .. m - 1 /\ s[p[l]] \in Int
      <3>1. \A l \in 1 .. m - 1 : p[l] \in 1 .. m - 1
        BY <1>1
      <3>2. \A l \in 1 .. m - 1 : l \in 1 .. m
        BY <1>0
      <3> QED
        BY <1>0, <1>3, <3>1, <3>2
    <2>1. CASE k < q
      <3>1. j \in 1 .. q - 1 /\ k \in 1 .. q - 1
        BY <1>7, <2>0, <2>1
      <3> QED
        BY <1>1, <1>4, <1>7, <3>1
    <2>2. CASE k = q
      <3>1. j \in 1 .. q - 1
        BY <1>7, <2>0, <2>2
      <3> QED
        BY <1>3, <1>4, <2>2, <3>1
    <2>3. CASE k > q /\ j < q
      <3>1. j \in 1 .. q - 1 /\ k \in q + 1 .. m /\ j < k - 1
        BY <1>0, <2>0, <2>3
      <3> QED
        BY <1>1, <1>4, <3>1
    <2>4. CASE k > q /\ j = q
      <3>1. k \in q + 1 .. m /\ q # m /\ (q < k - 1 \/ q = k - 1)
        BY <1>0, <2>0, <2>4
      <3>2. k - 1 \in 1 .. m - 1 /\ new[k] = p[k - 1] /\ q \in 1 .. m - 1
        BY <1>0, <1>4, <2>0, <3>1
      <3>3. s[p[q]] <= s[p[k - 1]]
        <4>1. CASE q = k - 1
          BY <2>0, <3>2, <4>1
        <4>2. CASE q < k - 1
          BY <1>1, <3>2, <4>2
        <4> QED
          BY <3>1, <4>1, <4>2
      <3>4. s[p[q]] > s[m] /\ s[p[q]] \in Int /\ s[p[k - 1]] \in Int
        BY <1>3, <2>0, <3>1, <3>2
      <3>5. s[m] <= s[p[k - 1]]
        BY <2>0, <3>3, <3>4
      <3> QED
        BY <1>4, <2>4, <3>2, <3>5
    <2>5. CASE j > q
      <3>1. j \in q + 1 .. m /\ k \in q + 1 .. m /\ j - 1 < k - 1
        BY <1>0, <1>7, <2>0, <2>5
      <3> QED
        BY <1>1, <1>4, <3>1
    <2>6. k < q \/ k = q \/ (k > q /\ j < q) \/ (k > q /\ j = q) \/ j > q
      BY <2>0
    <2> QED
      BY <2>1, <2>2, <2>3, <2>4, <2>5, <2>6
  <1>8. Orders(s, m, new)
    BY <1>5, <1>6, <1>7 DEF Orders
  <1> QED
    BY <1>8

(* Every sequence of numbers can be sorted. *)
LEMMA OrderExists ==
    ASSUME NEW s \in Seq(Int)
    PROVE  \E p : Orders(s, Len(s), p)
  <1> DEFINE Good(n) == \E p : Orders(s, n, p)
             T == {n \in 0 .. Len(s) : ~Good(n)}
  <1>0. Len(s) \in Nat
    OBVIOUS
  <1>1. SUFFICES ASSUME T # {} PROVE FALSE
    <2>1. T = {} => Good(Len(s))
      <3> HIDE DEF Good
      <3> QED
        BY <1>0
    <2> QED
      BY <2>1
  <1>2. PICK m \in T : \A n \in T : m <= n
    <2>1. T \in SUBSET Nat
      <3> HIDE DEF Good
      <3> QED
        BY <1>0
    <2> HIDE DEF T
    <2> QED
      BY <1>1, <2>1, Least
  <1>3. Good(0)
    <2>1. Orders(s, 0, [k \in 1 .. 0 |-> k])
      BY DEF Orders
    <2> QED
      BY <2>1
  <1>4. m \in 1 .. Len(s) /\ Good(m - 1)
    <2> HIDE DEF Good
    <2>1. m \in 0 .. Len(s) /\ ~Good(m)
      BY <1>2
    <2>2. m # 0
      BY <1>3, <2>1
    <2>3. m - 1 \in 0 .. Len(s) /\ ~(m <= m - 1) /\ m \in 1 .. Len(s)
      BY <1>0, <2>1, <2>2
    <2>4. m - 1 \notin T
      BY <1>2, <2>3
    <2> QED
      BY <2>3, <2>4
  <1>5. Good(m)
    BY <1>4, Insertion
  <1> QED
    BY <1>2, <1>5

(* A sorted sequence is the same values, ascending. *)
LEMMA SortedIs ==
    ASSUME NEW s \in Seq(Int)
    PROVE  /\ Sorted(s) \in Seq(Int) /\ Len(Sorted(s)) = Len(s)
           /\ \A j, k \in 1 .. Len(s) : j <= k => Sorted(s)[j] <= Sorted(s)[k]
           /\ \E p \in [1 .. Len(s) -> 1 .. Len(s)] :
                 /\ \A k \in 1 .. Len(s) : \E j \in 1 .. Len(s) : p[j] = k
                 /\ \A k \in 1 .. Len(s) : Sorted(s)[k] = s[p[k]]
  <1> DEFINE n == Len(s)
             p == CHOOSE q \in Ascending(s) : TRUE
             t == [k \in 1 .. n |-> s[p[k]]]
  <1>0. n \in Nat /\ DOMAIN s = 1 .. n /\ \A k \in 1 .. n : s[k] \in Int
    BY ElementOfSeq
  <1>1. Ascending(s) # {}
    <2>1. PICK q : Orders(s, n, q)
      BY OrderExists
    <2>2. q \in Ascending(s)
      BY <1>0, <2>1 DEF Orders, Ascending
    <2> QED
      BY <2>2
  <1>2. p \in Ascending(s)
    BY <1>1
  <1>3. Sorted(s) = t
    BY <1>0 DEF Sorted
  <1> HIDE DEF p, n
  <1>4. /\ p \in [1 .. n -> 1 .. n]
        /\ \A k \in 1 .. n : \E j \in 1 .. n : p[j] = k
        /\ \A j, k \in 1 .. n : j < k => s[p[j]] <= s[p[k]]
    BY <1>0, <1>2 DEF Ascending
  <1>5. t \in [1 .. n -> Int] /\ \A k \in 1 .. n : t[k] = s[p[k]]
    BY <1>0, <1>4
  <1> HIDE DEF t
  <1>6. t \in Seq(Int) /\ Len(t) = n
    BY <1>0, <1>5
  <1>7. ASSUME NEW j \in 1 .. n, NEW k \in 1 .. n, j <= k PROVE t[j] <= t[k]
    <2>1. CASE j = k
      BY <1>5, <2>1
    <2>2. CASE j < k
      BY <1>4, <1>5, <2>2
    <2> QED
      BY <1>0, <1>7, <2>1, <2>2
  <1> QED
    BY <1>3, <1>4, <1>5, <1>6, <1>7 DEF n

(* How many indices there are that an order takes to one of an interval. *)
LEMMA Taken ==
    ASSUME NEW n \in Nat, NEW p \in [1 .. n -> 1 .. n], NEW a \in Int, NEW b \in Int,
           NEW S \in SUBSET (1 .. n),
           \A k \in S : \E j \in 1 .. n : p[j] = k /\ j \in a .. b
    PROVE  /\ IsFiniteSet(S) /\ Cardinality(S) \in Nat
           /\ Cardinality(S) <= IF a > b THEN 0 ELSE b - a + 1
  <1> DEFINE D == {j \in 1 .. n : p[j] \in S /\ j \in a .. b}
             f == [j \in D |-> p[j]]
  <1>1. IsFiniteSet(a .. b) /\ Cardinality(a .. b) = IF a > b THEN 0 ELSE b - a + 1
    BY FS_Interval
  <1>2. D \in SUBSET (a .. b)
    OBVIOUS
  <1>3. IsFiniteSet(D) /\ Cardinality(D) <= Cardinality(a .. b)
    <2> HIDE DEF D
    <2> QED
      BY <1>1, <1>2, FS_Subset
  <1>4. f \in Surjection(D, S)
    <2>1. f \in [D -> S]
      OBVIOUS
    <2>2. \A k \in S : \E j \in D : f[j] = k
      OBVIOUS
    <2> QED
      BY <2>1, <2>2 DEF Surjection
  <1>5. IsFiniteSet(S) /\ Cardinality(S) <= Cardinality(D)
    <2> HIDE DEF f, D
    <2> QED
      BY <1>3, <1>4, FS_Surjection
  <1>6. Cardinality(S) \in Nat /\ Cardinality(D) \in Nat /\ Cardinality(a .. b) \in Nat
    BY <1>1, <1>3, <1>5, FS_CardinalityType
  <1> QED
    BY <1>1, <1>3, <1>5, <1>6

(* The m-th of the sorted values has less than m below it and the rest at most above it. *)
LEMMA Ranks ==
    ASSUME NEW s \in Seq(Int), NEW m \in 1 .. Len(s)
    PROVE  LET x == Sorted(s)[m]
               below == {k \in 1 .. Len(s) : s[k] < x}
               above == {k \in 1 .. Len(s) : s[k] > x}
           IN  /\ x \in Int /\ \E k \in 1 .. Len(s) : s[k] = x
               /\ IsFiniteSet(below) /\ Cardinality(below) \in Nat /\ Cardinality(below) <= m - 1
               /\ IsFiniteSet(above) /\ Cardinality(above) \in Nat
               /\ Cardinality(above) <= Len(s) - m
  <1> DEFINE n == Len(s)
             t == Sorted(s)
             below == {k \in 1 .. n : s[k] < t[m]}
             above == {k \in 1 .. n : s[k] > t[m]}
  <1>0. n \in Nat /\ m \in Nat /\ m >= 1 /\ m <= n /\ \A k \in 1 .. n : s[k] \in Int
    BY ElementOfSeq
  <1>1. /\ t \in Seq(Int) /\ Len(t) = n
        /\ \A j, k \in 1 .. n : j <= k => t[j] <= t[k]
        /\ \E p \in [1 .. n -> 1 .. n] : /\ \A k \in 1 .. n : \E j \in 1 .. n : p[j] = k
                                         /\ \A k \in 1 .. n : t[k] = s[p[k]]
    BY SortedIs
  <1>2. PICK p \in [1 .. n -> 1 .. n] : /\ \A k \in 1 .. n : \E j \in 1 .. n : p[j] = k
                                        /\ \A k \in 1 .. n : t[k] = s[p[k]]
    BY <1>1
  <1>3. \A j \in 1 .. n : t[j] \in Int
    BY <1>1, ElementOfSeq
  <1> HIDE DEF t, n
  <1>4. ASSUME NEW k \in below PROVE \E j \in 1 .. n : p[j] = k /\ j \in 1 .. m - 1
    <2>1. PICK j \in 1 .. n : p[j] = k
      BY <1>2
    <2>2. t[j] = s[k] /\ t[j] < t[m] /\ t[j] \in Int /\ t[m] \in Int
      <3>1. s[k] < t[m]
        OBVIOUS
      <3>2. t[j] = s[k]
        BY <1>2, <2>1
      <3>3. m \in 1 .. n
        BY DEF n
      <3> QED
        BY <1>3, <2>1, <3>1, <3>2, <3>3
    <2>3. ~(m <= j)
      <3>1. m \in 1 .. n
        BY DEF n
      <3>2. m <= j => t[m] <= t[j]
        BY <1>1, <2>1, <3>1
      <3> QED
        BY <2>2, <3>2
    <2>4. j \in 1 .. m - 1
      BY <1>0, <2>3
    <2> QED
      BY <2>1, <2>4
  <1>5. ASSUME NEW k \in above PROVE \E j \in 1 .. n : p[j] = k /\ j \in m + 1 .. n
    <2>1. PICK j \in 1 .. n : p[j] = k
      BY <1>2
    <2>2. t[j] = s[k] /\ t[j] > t[m] /\ t[j] \in Int /\ t[m] \in Int
      <3>1. s[k] > t[m]
        OBVIOUS
      <3>2. t[j] = s[k]
        BY <1>2, <2>1
      <3>3. m \in 1 .. n
        BY DEF n
      <3> QED
        BY <1>3, <2>1, <3>1, <3>2, <3>3
    <2>3. ~(j <= m)
      <3>1. m \in 1 .. n
        BY DEF n
      <3>2. j <= m => t[j] <= t[m]
        BY <1>1, <2>1, <3>1
      <3> QED
        BY <2>2, <3>2
    <2>4. j \in m + 1 .. n
      BY <1>0, <2>3
    <2> QED
      BY <2>1, <2>4
  <1>6. below \in SUBSET (1 .. n) /\ above \in SUBSET (1 .. n)
    OBVIOUS
  <1>7. IsFiniteSet(below) /\ Cardinality(below) \in Nat /\ Cardinality(below) <= m - 1
    <2> HIDE DEF below
    <2>1. /\ IsFiniteSet(below) /\ Cardinality(below) \in Nat
          /\ Cardinality(below) <= IF 1 > m - 1 THEN 0 ELSE (m - 1) - 1 + 1
      <3>1. 1 \in Int /\ m - 1 \in Int
        BY <1>0
      <3> QED
        BY <1>0, <1>4, <1>6, <3>1, Taken
    <2> QED
      BY <1>0, <2>1
  <1>8. IsFiniteSet(above) /\ Cardinality(above) \in Nat /\ Cardinality(above) <= n - m
    <2> HIDE DEF above
    <2>1. /\ IsFiniteSet(above) /\ Cardinality(above) \in Nat
          /\ Cardinality(above) <= IF m + 1 > n THEN 0 ELSE n - (m + 1) + 1
      <3>1. m + 1 \in Int /\ n \in Int
        BY <1>0
      <3> QED
        BY <1>0, <1>5, <1>6, <3>1, Taken
    <2> QED
      BY <1>0, <2>1
  <1>9. t[m] \in Int /\ \E k \in 1 .. n : s[k] = t[m]
    <2>1. m \in 1 .. n
      BY DEF n
    <2>2. t[m] = s[p[m]] /\ p[m] \in 1 .. n
      BY <1>2, <2>1
    <2> QED
      BY <1>3, <2>1, <2>2
  <1> QED
    BY <1>7, <1>8, <1>9 DEF n, t
=============================================================================
