------------------------ MODULE Reconstruction_proofs ------------------------
(***************************************************************************)
(* What is proved of the reconstruction, for any texts, any number of      *)
(* segments and any of their threads that fail: that threads may finish in *)
(* any order, that a document that lost more than half of its lines fails  *)
(* the check of line conservation, and that no line with a letter or digit *)
(* is lost but JSON, a stranded line and one that repeats what is kept.    *)
(*                                                                         *)
(* The first is about the pool, the places of the results and their        *)
(* gathering, whatever the engine makes of a segment.  For the second its  *)
(* stages are followed one by one: every one of them hands on places of    *)
(* lines it was handed, each at most once, so that what is counted in the  *)
(* end and what was lost are different lines of the document.  The third   *)
(* follows them the other way: what a stage was handed and does not hand   *)
(* on is no word, or is of one of the three kinds.                         *)
(***************************************************************************)
EXTENDS Reconstruction, FiniteSetTheorems, WellFoundedInduction, SequenceTheorems, TLAPS

(* A nonempty set of naturals has a least element. *)
LEMMA LeastNatural ==
  ASSUME NEW T \in SUBSET Nat, T # {}
  PROVE  \E m \in T : \A k \in T : m <= k
<1> DEFINE Below(n) == 0 .. n - 1
           Segments == {Below(n) : n \in T}
<1>1. Segments \subseteq FiniteSubsetsOf(Nat)
  <2> SUFFICES ASSUME NEW n \in T PROVE Below(n) \in FiniteSubsetsOf(Nat)
    OBVIOUS
  <2>1. IsFiniteSet(Below(n))
    BY FS_Interval
  <2> QED BY <2>1 DEF FiniteSubsetsOf
<1>2. PICK s \in Segments : \A r \in Segments : <<r, s>> \notin StrictSubsetOrdering(Nat)
  <2>1. Segments # {}
    OBVIOUS
  <2> HIDE DEF Segments
  <2> QED BY <1>1, <2>1, FS_StrictSubsetOrderingWellFounded, WFMin
<1>3. PICK m \in T : s = Below(m)
  OBVIOUS
<1>4. ASSUME NEW k \in T, k < m PROVE FALSE
  <2>1. Below(k) \subseteq Below(m) /\ Below(k) # Below(m)
    <3>1. k \in Below(m) /\ k \notin Below(k)
      BY <1>4
    <3> QED BY <1>4, <3>1
  <2>2. Below(k) \in SUBSET Nat /\ Below(m) \in SUBSET Nat
    OBVIOUS
  <2>3. <<Below(k), Below(m)>> \notin StrictSubsetOrdering(Nat)
    BY <1>2, <1>3
  <2> HIDE DEF Below
  <2> QED BY <2>1, <2>2, <2>3 DEF StrictSubsetOrdering
<1> QED BY <1>4

(* Induction over an initial segment of the naturals. *)
LEMMA UpTo ==
  ASSUME NEW N \in Nat, NEW Good, 0 \in Good,
         \A n \in 0 .. N - 1 : n \in Good => n + 1 \in Good
  PROVE  0 .. N \subseteq Good
<1> DEFINE Bad == (0 .. N) \ Good
<1> SUFFICES ASSUME Bad # {} PROVE FALSE
  OBVIOUS
<1>1. PICK m \in Bad : \A k \in Bad : m <= k
  <2>1. Bad \in SUBSET Nat
    OBVIOUS
  <2> HIDE DEF Bad
  <2> QED BY <2>1, LeastNatural
<1>2. m # 0 /\ m - 1 \in 0 .. N - 1 /\ m - 1 \notin Bad /\ m \in 0 .. N
  BY <1>1
<1>3. m - 1 \in Good
  BY <1>2
<1>4. (m - 1) + 1 = m
  BY <1>2
<1> QED BY <1>1, <1>2, <1>3, <1>4

(* A recursion over the naturals up to n has a solution, within the values *)
(* its step leads to.                                                      *)
Recursion(f, base, step, n) ==
  f = [i \in 0 .. n |-> IF i = 0 THEN base ELSE step[i][f[i - 1]]]

(* A recursion over the numbers up to n has a solution with values in its  *)
(* range.                                                                  *)
LEMMA RecursionExists ==
  ASSUME NEW V, NEW base \in V, NEW n \in Nat, NEW step \in [1 .. n -> [V -> V]]
  PROVE  \E f : Recursion(f, base, step, n) /\ \A i \in 0 .. n : f[i] \in V
<1> DEFINE Solution(f, m) == /\ Recursion(f, base, step, m)
                             /\ \A i \in 0 .. m : f[i] \in V
           Good == {m \in 0 .. n : \E f : Solution(f, m)}
<1>1. 0 \in Good
  <2> DEFINE f == [i \in 0 .. 0 |-> base]
  <2>1. Solution(f, 0)
    BY DEF Recursion
  <2> QED BY <2>1
<1>2. ASSUME NEW m \in 0 .. n - 1, m \in Good PROVE m + 1 \in Good
  <2>1. PICK f : Solution(f, m)
    BY <1>2
  <2> DEFINE g == [i \in 0 .. m + 1 |-> IF i = m + 1 THEN step[m + 1][f[m]] ELSE f[i]]
  <2>2. f = [i \in 0 .. m |-> IF i = 0 THEN base ELSE step[i][f[i - 1]]]
    BY <2>1 DEF Recursion
  <2>3. step[m + 1] \in [V -> V] /\ f[m] \in V
    BY <2>1
  <2>4. \A i \in 0 .. m + 1 : g[i] \in V
    BY <2>1, <2>3
  <2>5. ASSUME NEW i \in 0 .. m + 1
        PROVE  g[i] = IF i = 0 THEN base ELSE step[i][g[i - 1]]
    <3>1. CASE i = m + 1
      BY <3>1
    <3>2. CASE i # m + 1
      <4>1. i \in 0 .. m /\ (i # 0 => i - 1 \in 0 .. m)
        BY <3>2
      <4>2. f[i] = IF i = 0 THEN base ELSE step[i][f[i - 1]]
        BY <2>2, <4>1
      <4>3. g[i] = f[i] /\ (i # 0 => g[i - 1] = f[i - 1])
        BY <4>1
      <4> QED BY <4>2, <4>3
    <3> QED BY <3>1, <3>2
  <2>6. g = [i \in 0 .. m + 1 |-> IF i = 0 THEN base ELSE step[i][g[i - 1]]]
    <3>1. g = [i \in 0 .. m + 1 |-> g[i]]
      OBVIOUS
    <3> HIDE DEF g
    <3> QED BY <2>5, <3>1
  <2>7. Solution(g, m + 1)
    BY <2>4, <2>6 DEF Recursion
  <2> HIDE DEF Solution, g
  <2> QED BY <2>7
<1>3. n \in Good
  <2> HIDE DEF Good
  <2>1. 0 .. n \subseteq Good
    BY <1>1, <1>2, UpTo
  <2> QED BY <2>1
<1> QED BY <1>3

-----------------------------------------------------------------------------
(* Order *)

IsOrder(R, S) ==
  /\ \A x \in S : <<x, x>> \notin R
  /\ \A x, y, z \in S : <<x, y>> \in R /\ <<y, z>> \in R => <<x, z>> \in R
  /\ \A x, y \in S : x = y \/ <<x, y>> \in R \/ <<y, x>> \in R

BelowIn(R, S, x) == {y \in S : <<y, x>> \in R}
HasRank(R, S, k) == \E x \in S : Cardinality(BelowIn(R, S, x)) = k

(* Of a finite set that is ordered, every rank is that of one element.     *)
LEMMA Ranks ==
  ASSUME NEW S, IsFiniteSet(S), NEW R, IsOrder(R, S)
  PROVE  /\ \A x \in S : Cardinality(BelowIn(R, S, x)) \in 0 .. Cardinality(S) - 1
         /\ \A x, y \in S : <<x, y>> \in R =>
              Cardinality(BelowIn(R, S, x)) < Cardinality(BelowIn(R, S, y))
         /\ \A k \in 0 .. Cardinality(S) - 1 : HasRank(R, S, k)
<1> DEFINE rank == [x \in S |-> Cardinality(BelowIn(R, S, x))]
           N == Cardinality(S)
<1>1. N \in Nat
  BY FS_CardinalityType
<1>2. ASSUME NEW x \in S
      PROVE  /\ IsFiniteSet(BelowIn(R, S, x)) /\ rank[x] \in 0 .. N - 1
             /\ Cardinality(BelowIn(R, S, x)) \in Nat
  <2>1. BelowIn(R, S, x) \in SUBSET S /\ x \notin BelowIn(R, S, x)
    BY DEF BelowIn, IsOrder
  <2>2. IsFiniteSet(BelowIn(R, S, x)) /\ Cardinality(BelowIn(R, S, x)) <= N
    BY <2>1, FS_Subset
  <2>3. Cardinality(BelowIn(R, S, x)) # N
    BY <2>1, FS_Subset
  <2>4. Cardinality(BelowIn(R, S, x)) \in Nat
    BY <2>2, FS_CardinalityType
  <2> QED BY <1>1, <2>2, <2>3, <2>4
<1>3. ASSUME NEW x \in S, NEW y \in S, <<x, y>> \in R
      PROVE  rank[x] < rank[y]
  <2>1. BelowIn(R, S, x) \in SUBSET BelowIn(R, S, y)
    BY <1>3 DEF BelowIn, IsOrder
  <2>2. x \in BelowIn(R, S, y) /\ x \notin BelowIn(R, S, x)
    BY <1>3 DEF BelowIn, IsOrder
  <2>3. Cardinality(BelowIn(R, S, x)) <= Cardinality(BelowIn(R, S, y))
        /\ Cardinality(BelowIn(R, S, x)) # Cardinality(BelowIn(R, S, y))
    BY <1>2, <2>1, <2>2, FS_Subset
  <2> QED BY <1>1, <1>2, <2>3
<1>4. rank \in Injection(S, 0 .. N - 1)
  <2>1. rank \in [S -> 0 .. N - 1]
    BY <1>2
  <2>2. ASSUME NEW x \in S, NEW y \in S, rank[x] = rank[y] PROVE x = y
    <3>1. rank[x] \in Nat
      BY <1>2
    <3>2. ~ rank[x] < rank[y] /\ ~ rank[y] < rank[x]
      BY <2>2, <3>1
    <3> HIDE DEF rank
    <3> QED BY <1>3, <3>2 DEF IsOrder
  <2> HIDE DEF rank
  <2> QED BY <2>1, <2>2 DEF Injection, IsInjective
<1>5. IsFiniteSet(0 .. N - 1) /\ Cardinality(0 .. N - 1) = N
  BY <1>1, FS_Interval
<1>6. rank \in Surjection(S, 0 .. N - 1)
  <2> HIDE DEF rank
  <2> QED BY <1>4, <1>5, FS_Injection
<1>7. ASSUME NEW k \in 0 .. N - 1 PROVE \E x \in S : Cardinality(BelowIn(R, S, x)) = k
  <2>1. \E x \in S : rank[x] = k
    <3> HIDE DEF rank
    <3> QED BY <1>6 DEF Surjection
  <2> QED BY <2>1
<1> QED BY <1>2, <1>3, <1>7 DEF HasRank

(* The k-th place of a finite set of places, and its rank.                 *)
LEMMA PlacesInOrder ==
  ASSUME NEW S \in SUBSET Nat, IsFiniteSet(S)
  PROVE  /\ Cardinality(S) \in Nat
         /\ \A k \in 1 .. Cardinality(S) : Nth(S, k) \in S
         /\ \A k, l \in 1 .. Cardinality(S) : k < l => Nth(S, k) < Nth(S, l)
         /\ \A i \in S : \E k \in 1 .. Cardinality(S) : Nth(S, k) = i
         /\ \A i \in S, k \in 1 .. Cardinality(S) :
              Cardinality({j \in S : j <= i}) = k => Nth(S, k) = i
         /\ \A k \in 1 .. Cardinality(S) : Cardinality({j \in S : j <= Nth(S, k)}) = k
<1> DEFINE R == {p \in S \X S : p[1] < p[2]}
           N == Cardinality(S)
           upTo(i) == {j \in S : j <= i}
<1>1. IsOrder(R, S) /\ N \in Nat
  BY FS_CardinalityType DEF IsOrder
<1>0. \A k \in 0 .. N - 1 : \E x \in S : Cardinality(BelowIn(R, S, x)) = k
  <2>1. IsOrder(R, S)
    BY <1>1
  <2> HIDE DEF R, upTo, N
  <2>2. \A k \in 0 .. Cardinality(S) - 1 : HasRank(R, S, k)
    BY <2>1, Ranks
  <2> QED BY <2>2 DEF N, HasRank
<1>2. ASSUME NEW i \in S
      PROVE  /\ Cardinality(BelowIn(R, S, i)) \in 0 .. N - 1
             /\ Cardinality(upTo(i)) = Cardinality(BelowIn(R, S, i)) + 1
  <2>1. upTo(i) = BelowIn(R, S, i) \cup {i} /\ i \notin BelowIn(R, S, i)
    <3>1. BelowIn(R, S, i) = {y \in S : y < i}
      BY DEF BelowIn
    <3>2. \A y \in S : y <= i <=> y < i \/ y = i
      OBVIOUS
    <3>3. \A y : y \in upTo(i) <=> y \in {z \in S : z < i} \cup {i}
      BY <3>2
    <3>4. upTo(i) = {y \in S : y < i} \cup {i} /\ i \notin {y \in S : y < i}
      <4> HIDE DEF upTo
      <4> QED BY <3>3
    <3> QED BY <3>1, <3>4
  <2>2. IsFiniteSet(BelowIn(R, S, i))
    <3>1. BelowIn(R, S, i) \in SUBSET S
      BY DEF BelowIn
    <3> QED BY <3>1, FS_Subset
  <2>3. Cardinality(BelowIn(R, S, i)) \in 0 .. N - 1
    <3> HIDE DEF R
    <3> QED BY <1>1, Ranks
  <2> HIDE DEF upTo, R
  <2> QED BY <2>1, <2>2, <2>3, FS_AddElement
<1>3. ASSUME NEW i \in S, NEW j \in S, i < j PROVE Cardinality(upTo(i)) < Cardinality(upTo(j))
  <2>1. <<i, j>> \in R
    BY <1>3
  <2>2. Cardinality(BelowIn(R, S, i)) < Cardinality(BelowIn(R, S, j))
    <3> HIDE DEF R
    <3> QED BY <1>1, <2>1, Ranks
  <2> HIDE DEF upTo, R
  <2> QED BY <1>2, <2>2
<1>4. ASSUME NEW k \in 1 .. N
      PROVE  Nth(S, k) \in S /\ Cardinality(upTo(Nth(S, k))) = k
  <2>1. k - 1 \in 0 .. N - 1
    BY <1>1
  <2>2. PICK i \in S : Cardinality(BelowIn(R, S, i)) = k - 1
    BY <1>0, <2>1
  <2>3. Cardinality(upTo(i)) = k
    <3> HIDE DEF R, upTo
    <3> QED BY <1>2, <2>2
  <2> QED BY <2>3 DEF Nth
<1>5. ASSUME NEW i \in S PROVE Cardinality(upTo(i)) \in 1 .. N
  <2> HIDE DEF R, upTo
  <2> QED BY <1>1, <1>2
<1>6. ASSUME NEW i \in S, NEW j \in S, Cardinality(upTo(i)) = Cardinality(upTo(j)) PROVE i = j
  <2>1. Cardinality(upTo(i)) \in Nat /\ Cardinality(upTo(j)) \in Nat
    BY <1>5
  <2> HIDE DEF upTo
  <2>2. ~ i < j /\ ~ j < i
    BY <1>3, <1>6, <2>1
  <2> QED BY <2>2
<1>7. ASSUME NEW k \in 1 .. N, NEW l \in 1 .. N, k < l PROVE Nth(S, k) < Nth(S, l)
  <2>1. Nth(S, k) \in Nat /\ Nth(S, l) \in Nat
    BY <1>4
  <2>2. Nth(S, k) \in S /\ Nth(S, l) \in S
    BY <1>4
  <2>3. Cardinality(upTo(Nth(S, k))) = k /\ Cardinality(upTo(Nth(S, l))) = l
    BY <1>4
  <2> HIDE DEF upTo, R, N
  <2>4. Nth(S, l) # Nth(S, k)
    BY <1>1, <1>7, <2>3
  <2>5. ~ Nth(S, l) < Nth(S, k)
    <3> SUFFICES ASSUME Nth(S, l) < Nth(S, k) PROVE FALSE
      OBVIOUS
    <3>1. l < k
      BY <1>3, <2>2, <2>3
    <3> QED BY <1>1, <1>7, <3>1
  <2> QED BY <2>1, <2>4, <2>5
<1>8. ASSUME NEW i \in S, NEW k \in 1 .. N, Cardinality(upTo(i)) = k PROVE Nth(S, k) = i
  BY <1>4, <1>6, <1>8
<1>9. ASSUME NEW i \in S PROVE \E k \in 1 .. N : Nth(S, k) = i
  BY <1>5, <1>8
<1> HIDE DEF R
<1> QED BY <1>1, <1>4, <1>7, <1>8, <1>9

(* What is taken at some places of a sequence is in order, and all of it.  *)
LEMMA Taken ==
  ASSUME NEW n \in Nat, NEW S \in SUBSET (1 .. n), NEW s
  PROVE  /\ IsFiniteSet(S) /\ Cardinality(S) \in Nat
         /\ DOMAIN At(s, S) = 1 .. Cardinality(S)
         /\ Len(At(s, S)) = Cardinality(S)
         /\ \A k \in 1 .. Cardinality(S) : At(s, S)[k] = s[Nth(S, k)] /\ Nth(S, k) \in S
         /\ \A k, l \in 1 .. Cardinality(S) : k < l => Nth(S, k) < Nth(S, l)
         /\ \A i \in S : \E k \in 1 .. Cardinality(S) : Nth(S, k) = i
<1>1. IsFiniteSet(S) /\ S \in SUBSET Nat
  <2>1. IsFiniteSet(1 .. n)
    BY FS_Interval
  <2>2. IsFiniteSet(S)
    BY <2>1, FS_Subset
  <2>3. 1 .. n \subseteq Nat
    OBVIOUS
  <2> QED BY <2>2, <2>3
<1>2. Cardinality(S) \in Nat
  BY <1>1, FS_CardinalityType
<1>3. /\ DOMAIN At(s, S) = 1 .. Cardinality(S)
      /\ \A k \in 1 .. Cardinality(S) : At(s, S)[k] = s[Nth(S, k)]
  BY DEF At
<1>4. Len(At(s, S)) = Cardinality(S)
  BY <1>2, <1>3
<1> QED BY <1>1, <1>2, <1>3, <1>4, PlacesInOrder

-----------------------------------------------------------------------------
(* Sums *)

Sums(f, w, n) == f[0] = 0 /\ \A i \in 1 .. n : f[i] = f[i - 1] + w[i]

Row(A, i) == {i} \X A[i]
All(A, n) == UNION {A[i] : i \in 1 .. n}
Apart(A, n) == \A i, j \in 1 .. n : i # j => A[i] \cap A[j] = {}

(* A set put in a row of its own keeps its size.                           *)
LEMMA RowSize ==
  ASSUME NEW A, NEW i, IsFiniteSet(A[i])
  PROVE  IsFiniteSet(Row(A, i)) /\ Cardinality(Row(A, i)) = Cardinality(A[i])
<1> DEFINE f == [j \in A[i] |-> <<i, j>>]
<1>1. f \in [A[i] -> Row(A, i)]
  BY DEF Row
<1>2. \A j, k \in A[i] : f[j] = f[k] => j = k
  OBVIOUS
<1>3. \A p \in Row(A, i) : \E j \in A[i] : f[j] = p
  BY DEF Row
<1>4. f \in Injection(A[i], Row(A, i)) /\ f \in Surjection(A[i], Row(A, i))
  <2> HIDE DEF f
  <2> QED BY <1>1, <1>2, <1>3 DEF Injection, IsInjective, Surjection
<1>5. ExistsBijection(A[i], Row(A, i))
  <2> HIDE DEF f
  <2> QED BY <1>4 DEF ExistsBijection, Bijection
<1> QED BY <1>5, FS_Bijection

(* A sum of numbers that are at most, or at least, the sizes of some sets. *)
LEMMA SumBounds ==
  ASSUME NEW n \in Nat, NEW w, \A i \in 1 .. n : w[i] \in Nat,
         NEW f, Sums(f, w, n), NEW A, \A i \in 1 .. n : IsFiniteSet(A[i]), Apart(A, n)
  PROVE  /\ IsFiniteSet(All(A, n)) /\ f[n] \in Nat
         /\ (\A i \in 1 .. n : w[i] <= Cardinality(A[i])) => f[n] <= Cardinality(All(A, n))
         /\ (\A i \in 1 .. n : w[i] >= Cardinality(A[i])) => f[n] >= Cardinality(All(A, n))
<1> DEFINE most == \A i \in 1 .. n : w[i] <= Cardinality(A[i])
           least == \A i \in 1 .. n : w[i] >= Cardinality(A[i])
           OK(m) == /\ IsFiniteSet(All(A, m)) /\ f[m] \in Nat
                    /\ most => f[m] <= Cardinality(All(A, m))
                    /\ least => f[m] >= Cardinality(All(A, m))
           Good == {m \in 0 .. n : OK(m)}
<1>1. 0 \in Good
  <2>1. All(A, 0) = {}
    BY DEF All
  <2>2. OK(0)
    BY <2>1, FS_EmptySet DEF Sums
  <2> QED BY <2>2
<1>2. ASSUME NEW m \in 0 .. n - 1, m \in Good PROVE m + 1 \in Good
  <2>1. All(A, m + 1) = All(A, m) \cup A[m + 1]
    <3>1. 1 .. m + 1 = (1 .. m) \cup {m + 1}
      OBVIOUS
    <3> QED BY <3>1 DEF All
  <2>2. All(A, m) \cap A[m + 1] = {}
    <3>1. \A i \in 1 .. m : i \in 1 .. n /\ i # m + 1 /\ m + 1 \in 1 .. n
      OBVIOUS
    <3> QED BY <3>1 DEF All, Apart
  <2>3. m + 1 \in 1 .. n
    OBVIOUS
  <2>4. IsFiniteSet(A[m + 1]) /\ Cardinality(A[m + 1]) \in Nat
    BY <2>3, FS_CardinalityType
  <2>5. IsFiniteSet(All(A, m)) /\ Cardinality(All(A, m)) \in Nat
    BY <1>2, FS_CardinalityType
  <2>6. /\ IsFiniteSet(All(A, m + 1))
        /\ Cardinality(All(A, m + 1)) = Cardinality(All(A, m)) + Cardinality(A[m + 1])
    <3>1. Cardinality(All(A, m) \cap A[m + 1]) = 0
      BY <2>2, FS_EmptySet
    <3>2. /\ IsFiniteSet(All(A, m) \cup A[m + 1])
          /\ Cardinality(All(A, m) \cup A[m + 1])
               = Cardinality(All(A, m)) + Cardinality(A[m + 1]) - Cardinality(All(A, m) \cap A[m + 1])
      BY <2>4, <2>5, FS_Union
    <3>3. /\ IsFiniteSet(All(A, m + 1))
          /\ Cardinality(All(A, m + 1))
               = Cardinality(All(A, m)) + Cardinality(A[m + 1]) - 0
      BY <2>1, <2>4, <3>1, <3>2
    <3> QED BY <2>4, <2>5, <3>3
  <2>7. f[m + 1] = f[m] + w[m + 1] /\ w[m + 1] \in Nat
    <3>1. f[m + 1] = f[(m + 1) - 1] + w[m + 1]
      BY <2>3 DEF Sums
    <3> QED BY <2>3, <3>1
  <2>8. /\ most => w[m + 1] <= Cardinality(A[m + 1])
        /\ least => w[m + 1] >= Cardinality(A[m + 1])
    BY <2>3
  <2>9. OK(m)
    BY <1>2
  <2> HIDE DEF most, least
  <2>10. OK(m + 1)
    BY <2>4, <2>5, <2>6, <2>7, <2>8, <2>9
  <2> QED BY <2>10
<1>3. n \in Good
  <2> HIDE DEF Good
  <2>1. 0 .. n \subseteq Good
    BY <1>1, <1>2, UpTo
  <2> QED BY <2>1
<1> QED BY <1>3

(* A total is such a sum.                                                  *)
LEMMA SumExists ==
  ASSUME NEW n \in Nat, NEW w, \A i \in 1 .. n : w[i] \in Nat
  PROVE  \E f : f = [i \in 0 .. n |-> IF i = 0 THEN 0 ELSE f[i - 1] + w[i]]
<1> DEFINE step == [i \in 1 .. n |-> [v \in Nat |-> v + w[i]]]
<1>1. step \in [1 .. n -> [Nat -> Nat]]
  OBVIOUS
<1>2. PICK f : Recursion(f, 0, step, n) /\ \A i \in 0 .. n : f[i] \in Nat
  <2> HIDE DEF step
  <2> QED BY <1>1, RecursionExists
<1>3. ASSUME NEW i \in 0 .. n, i # 0 PROVE step[i][f[i - 1]] = f[i - 1] + w[i]
  <2>1. f[i - 1] \in Nat /\ i \in 1 .. n
    BY <1>2, <1>3
  <2> QED BY <2>1
<1>4. f = [i \in 0 .. n |-> IF i = 0 THEN 0 ELSE f[i - 1] + w[i]]
  <2> HIDE DEF step
  <2> QED BY <1>2, <1>3 DEF Recursion
<1> QED BY <1>4

(* The total of lengths is the last of their running sums.                 *)
LEMMA TotalOfLengths ==
  ASSUME NEW s, NEW n \in Nat, DOMAIN s = 1 .. n, \A i \in 1 .. n : Len(s[i]) \in Nat
  PROVE  \E f : Sums(f, [i \in 1 .. n |-> Len(s[i])], n) /\ Total(s, Len) = f[n]
<1> DEFINE w == [i \in 1 .. n |-> Len(s[i])]
           Solution(f) == f = [i \in 0 .. n |-> IF i = 0 THEN 0 ELSE f[i - 1] + Len(s[i])]
           sum == CHOOSE f : Solution(f)
<1>1. \E f : f = [i \in 0 .. n |-> IF i = 0 THEN 0 ELSE f[i - 1] + w[i]]
  <2>1. \A i \in 1 .. n : w[i] \in Nat
    OBVIOUS
  <2> HIDE DEF w
  <2> QED BY <2>1, SumExists
<1>2. Solution(sum)
  <2>1. \E f : Solution(f)
    <3>1. PICK f : f = [i \in 0 .. n |-> IF i = 0 THEN 0 ELSE f[i - 1] + w[i]]
      BY <1>1
    <3>2. \A i \in 0 .. n : i # 0 => w[i] = Len(s[i])
      OBVIOUS
    <3> HIDE DEF w
    <3> QED BY <3>1, <3>2
  <2> HIDE DEF Solution
  <2> QED BY <2>1
<1>3. Len(s) = n
  OBVIOUS
<1>4. Total(s, Len) = sum[n]
  BY <1>3 DEF Total
<1>5. Sums(sum, w, n)
  <2> HIDE DEF sum
  <2>1. \A i \in 1 .. n : i \in 0 .. n /\ i # 0
    OBVIOUS
  <2> QED BY <1>2, <2>1 DEF Sums
<1> HIDE DEF sum
<1> QED BY <1>4, <1>5

-----------------------------------------------------------------------------
(* Lines and regions *)

(* Every shape has a kind of pair.                                         *)
LEMMA SamplesAreKnown ==
  ASSUME NEW shape \in Shapes
  PROVE  Vocabulary[shape].pair \in {"none", "full", "empty", "label"}
<1>1. Shapes = {"blank", "sep", "rule", "total", "notes", "due", "prose", "remark", "header", "row", "audit", "csv", "pipe", "log", "item", "node", "trail", "value", "leaf", "code", "json"}
  BY DEF Shapes, Vocabulary
<1>2. /\ Vocabulary.total.pair = "full"
      /\ Vocabulary.notes.pair = "empty"
      /\ Vocabulary.due.pair = "label"
      /\ \A s \in Shapes \ {"total", "notes", "due"} : Vocabulary[s].pair = "none"
  <2>1. /\ Vocabulary.blank.pair = "none"
        /\ Vocabulary.sep.pair = "none"
        /\ Vocabulary.rule.pair = "none"
        /\ Vocabulary.total.pair = "full"
        /\ Vocabulary.notes.pair = "empty"
        /\ Vocabulary.due.pair = "label"
        /\ Vocabulary.prose.pair = "none"
        /\ Vocabulary.remark.pair = "none"
        /\ Vocabulary.header.pair = "none"
        /\ Vocabulary.row.pair = "none"
        /\ Vocabulary.audit.pair = "none"
        /\ Vocabulary.csv.pair = "none"
        /\ Vocabulary.pipe.pair = "none"
        /\ Vocabulary.log.pair = "none"
        /\ Vocabulary.item.pair = "none"
        /\ Vocabulary.node.pair = "none"
        /\ Vocabulary.trail.pair = "none"
        /\ Vocabulary.value.pair = "none"
        /\ Vocabulary.leaf.pair = "none"
        /\ Vocabulary.code.pair = "none"
        /\ Vocabulary.json.pair = "none"
    BY DEF Vocabulary, Plain
  <2> QED BY <1>1, <2>1
<1> QED BY <1>2

(* A rounded quotient is an integer.                                       *)
LEMMA RoundedIsInt ==
  ASSUME NEW a \in Nat, NEW b \in Nat, NEW scale \in Nat
  PROVE  Rounded(a, b, scale) \in Int
<1>1. CASE b = 0
  BY <1>1 DEF Rounded
<1>2. CASE b # 0
  <2>1. 2 * scale * a + b \in Int /\ 2 * b \in Int /\ 2 * b > 0
    BY <1>2
  <2>2. \A x, y \in Int : y > 0 => x \div y \in Int
    OBVIOUS
  <2>3. (2 * scale * a + b) \div (2 * b) \in Int
    BY <2>1, <2>2
  <2> QED BY <1>2, <2>3 DEF Rounded
<1> QED BY <1>1, <1>2

IsNumbered(s) == \E n \in Nat : DOMAIN s = 1 .. n
IsList(s)     == IsNumbered(s) /\ s = [i \in DOMAIN s |-> s[i]]
Distinct(s)   == \A i, j \in DOMAIN s : s[i] = s[j] => i = j
Held(s)       == {s[i] : i \in DOMAIN s}

(* A numbered sequence has a length and its places.                        *)
LEMMA Numbered ==
  ASSUME NEW s, IsNumbered(s)
  PROVE  Len(s) \in Nat /\ DOMAIN s = 1 .. Len(s)
BY DEF IsNumbered

(* A sequence without repetition holds as many values as it is long.       *)
LEMMA HeldOnce ==
  ASSUME NEW s, IsNumbered(s), Distinct(s)
  PROVE  IsFiniteSet(Held(s)) /\ Cardinality(Held(s)) = Len(s)
<1> DEFINE n == Len(s)
           f == [i \in 1 .. n |-> s[i]]
<1>1. n \in Nat /\ DOMAIN s = 1 .. n
  BY Numbered
<1>2. f \in [1 .. n -> Held(s)] /\ (\A i, j \in 1 .. n : f[i] = f[j] => i = j)
      /\ \A x \in Held(s) : \E i \in 1 .. n : f[i] = x
  BY <1>1 DEF Held, Distinct
<1>3. ExistsBijection(1 .. n, Held(s))
  <2>1. f \in Injection(1 .. n, Held(s)) /\ f \in Surjection(1 .. n, Held(s))
    <3> HIDE DEF f
    <3> QED BY <1>2 DEF Injection, IsInjective, Surjection
  <2> HIDE DEF f
  <2> QED BY <2>1 DEF ExistsBijection, Bijection
<1>4. IsFiniteSet(1 .. n) /\ Cardinality(1 .. n) = n
  <2>1. n \in Nat
    BY <1>1
  <2> HIDE DEF n
  <2>2. CASE n = 0
    <3>1. 1 .. n = {}
      BY <2>2
    <3> QED BY <2>2, <3>1, FS_EmptySet
  <2>3. CASE n # 0
    <3>1. 1 \in Int /\ n \in Int /\ 1 <= n /\ n - 1 + 1 = n
      BY <2>1, <2>3
    <3> QED BY <3>1, FS_Interval
  <2> QED BY <2>2, <2>3
<1> QED BY <1>3, <1>4, FS_Bijection

(* Lines with their places: a part of a segment.                           *)
Placed(l) == l.shape \in Shapes /\ l.indent \in {0, 2, 4} /\ l.index \in Nat \ {0}

IsRegion(lines) ==
  /\ IsNumbered(lines)
  /\ \A i \in DOMAIN lines : Placed(lines[i])
  /\ \A i, j \in DOMAIN lines : lines[i].index = lines[j].index => i = j

(* The lines at some places of a region are a region of those places.      *)
LEMMA SubRegion ==
  ASSUME NEW lines, IsRegion(lines), NEW P \in SUBSET DOMAIN lines
  PROVE  /\ IsRegion(At(lines, P)) /\ DOMAIN At(lines, P) = 1 .. Cardinality(P) /\ Cardinality(P) \in Nat
         /\ Places(At(lines, P)) = {lines[i].index : i \in P}
         /\ Places(At(lines, P)) \subseteq Places(lines)
<1> DEFINE n == Len(lines)
           part == At(lines, P)
<1>1. n \in Nat /\ DOMAIN lines = 1 .. n
  BY Numbered DEF IsRegion
<1>2. /\ Cardinality(P) \in Nat /\ DOMAIN part = 1 .. Cardinality(P)
      /\ \A k \in 1 .. Cardinality(P) : part[k] = lines[Nth(P, k)] /\ Nth(P, k) \in P
      /\ \A k, l \in 1 .. Cardinality(P) : k < l => Nth(P, k) < Nth(P, l)
      /\ \A i \in P : \E k \in 1 .. Cardinality(P) : Nth(P, k) = i
  BY <1>1, Taken
<1> HIDE DEF part
<1>3. \A k \in DOMAIN part : Placed(part[k])
  BY <1>2 DEF IsRegion
<1>4. ASSUME NEW k \in DOMAIN part, NEW l \in DOMAIN part, part[k].index = part[l].index PROVE k = l
  <2>1. Nth(P, k) = Nth(P, l) /\ Nth(P, k) \in Nat
    BY <1>1, <1>2, <1>4 DEF IsRegion
  <2> QED BY <1>2, <1>4, <2>1
<1>5. Places(part) = {lines[i].index : i \in P}
  BY <1>2 DEF Places
<1>6. Places(part) \subseteq Places(lines)
  BY <1>5 DEF Places
<1>7. IsNumbered(part)
  BY <1>2 DEF IsNumbered
<1> QED BY <1>2, <1>3, <1>4, <1>5, <1>6, <1>7 DEF IsRegion, part

(* So are its lines that are not empty.                                    *)
LEMMA NonEmptyRegion ==
  ASSUME NEW lines, IsRegion(lines)
  PROVE  IsRegion(NonEmpty(lines)) /\ Places(NonEmpty(lines)) \subseteq Places(lines)
<1> DEFINE P == {i \in DOMAIN lines : ~ IsEmpty(lines[i])}
<1>1. NonEmpty(lines) = At(lines, P)
  BY DEF NonEmpty, Where
<1>2. P \in SUBSET DOMAIN lines
  OBVIOUS
<1> HIDE DEF P
<1> QED BY <1>1, <1>2, SubRegion

(* Places of lines that are taken each once from a set.                    *)
TakenFrom(s, S) == IsNumbered(s) /\ Distinct(s) /\ Held(s) \subseteq S

(* The places of a region stand in a sequence without repetition.          *)
LEMMA PlacesOfRegion ==
  ASSUME NEW lines, IsRegion(lines)
  PROVE  /\ DOMAIN PlacesOf(lines) = DOMAIN lines
         /\ IsNumbered(PlacesOf(lines)) /\ Distinct(PlacesOf(lines))
         /\ Held(PlacesOf(lines)) = Places(lines)
BY DEF IsRegion, PlacesOf, IsNumbered, Distinct, Held, Places

(* They are taken from any set that has them all.                          *)
LEMMA PlacesTaken ==
  ASSUME NEW lines, IsRegion(lines), NEW S, Places(lines) \subseteq S
  PROVE  TakenFrom(PlacesOf(lines), S)
BY PlacesOfRegion DEF TakenFrom

-----------------------------------------------------------------------------
(* Tables *)

IsTableOf(t, S) ==
  /\ TakenFrom(t.rows, S)
  /\ t.headers \in {0} \cup (S \ Held(t.rows))
  /\ t.confidence \in Int

(* Nothing is taken from any set.                                          *)
LEMMA EmptyIsTaken ==
  ASSUME NEW S
  PROVE  TakenFrom(<<>>, S)
BY DEF TakenFrom, IsNumbered, Distinct, Held

(* A region has a length.                                                  *)
LEMMA RegionLen ==
  ASSUME NEW lines, IsRegion(lines)
  PROVE  Len(lines) \in Nat /\ DOMAIN lines = 1 .. Len(lines)
BY Numbered DEF IsRegion

(* The rows of a comma-separated reading are lines of the region.          *)
LEMMA CsvTable ==
  ASSUME NEW lines, IsRegion(lines)
  PROVE  IsTableOf(CsvReading(lines), Places(lines))
<1> DEFINE ne == NonEmpty(lines)
           S == Places(lines)
<1>1. IsRegion(ne) /\ Places(ne) \subseteq S
  BY NonEmptyRegion
<1>2. TakenFrom(PlacesOf(ne), S) /\ TakenFrom(<<>>, S)
  <2> HIDE DEF ne, S
  <2> QED BY <1>1, PlacesTaken, EmptyIsTaken
<1>3. CsvReading(lines) = NoReading
      \/ \E n, k : CsvReading(lines) = Reading(0, PlacesOf(ne), n, Score(n, k, FALSE, 10))
  BY DEF CsvReading
<1> HIDE DEF ne, S
<1>4. CASE CsvReading(lines) = NoReading
  BY <1>2, <1>4 DEF IsTableOf, NoReading, Reading, S
<1>5. ASSUME NEW n, NEW k, CsvReading(lines) = Reading(0, PlacesOf(ne), n, Score(n, k, FALSE, 10))
      PROVE  IsTableOf(CsvReading(lines), S)
  <2> DEFINE score == Score(n, k, FALSE, 10)
  <2>1. score \in Int
    BY DEF Score
  <2> HIDE DEF score
  <2>2. IsTableOf(Reading(0, PlacesOf(ne), n, score), S)
    BY <1>2, <2>1 DEF IsTableOf, Reading
  <2> QED BY <1>5, <2>2 DEF score
<1> QED BY <1>3, <1>4, <1>5 DEF S

(* So are those of a reading by tokens.                                    *)
LEMMA TokenTable ==
  ASSUME NEW lines, IsRegion(lines)
  PROVE  IsTableOf(TokenReading(lines), Places(lines))
<1> DEFINE ne == NonEmpty(lines)
           S == Places(lines)
           rows == TokenRows(ne)
           least == IF Marked(ne[1], "labels") THEN 1 ELSE 2
           P == {i \in DOMAIN ne : IsRow(ne[i], least)}
           reading == RowsReading(ne[1], rows, TrailingNums(rows[1]) + 1)
<1>1. IsRegion(ne) /\ Places(ne) \subseteq S
  BY NonEmptyRegion
<1>2. rows = At(ne, P) /\ P \in SUBSET DOMAIN ne
  BY DEF TokenRows, Where
<1>3. TakenFrom(<<>>, S)
  BY EmptyIsTaken
<1>4. TokenReading(lines) \in {NoReading, reading}
      /\ (TokenReading(lines) # NoReading => Len(ne) >= 2 /\ rows # <<>>)
  BY DEF TokenReading, TokenReadingOf
<1>5. reading = NoReading
      \/ \E n : \/ reading = Reading(0, PlacesOf(rows), n, 72)
                \/ /\ ne[1].index # rows[1].index
                   /\ reading = Reading(ne[1].index, PlacesOf(rows), n, 72)
  BY DEF RowsReading
<1> HIDE DEF ne, S, rows, least, P, reading
<1>6. /\ IsRegion(rows) /\ Places(rows) \subseteq S
      /\ Places(rows) = {ne[i].index : i \in P}
      /\ DOMAIN rows = 1 .. Cardinality(P) /\ Cardinality(P) \in Nat
  BY <1>1, <1>2, SubRegion
<1>7. TakenFrom(PlacesOf(rows), S)
  BY <1>6, PlacesTaken
<1>8. CASE TokenReading(lines) = NoReading
  BY <1>3, <1>8 DEF IsTableOf, NoReading, Reading, S
<1>9. ASSUME TokenReading(lines) # NoReading, ne[1].index # rows[1].index
      PROVE  ne[1].index \in S \ Held(PlacesOf(rows))
  <2>1. 1 \in DOMAIN ne
    BY <1>1, <1>4, <1>9, RegionLen
  <2>2. ne[1].index \in S
    BY <1>1, <2>1 DEF Places
  <2>3. Held(PlacesOf(rows)) = {ne[i].index : i \in P}
    BY <1>6, PlacesOfRegion
  <2>4. 1 \notin P
    <3> SUFFICES ASSUME 1 \in P PROVE FALSE
      OBVIOUS
    <3>1. Len(ne) \in Nat /\ P \in SUBSET (1 .. Len(ne))
      BY <1>1, <1>2, RegionLen
    <3>2. PICK k \in 1 .. Cardinality(P) : Nth(P, k) = 1
      BY <3>1, Taken
    <3>3. 1 \in 1 .. Cardinality(P)
      BY <1>6, <3>2
    <3>4. Nth(P, 1) \in P /\ (1 < k => Nth(P, 1) < Nth(P, k))
      BY <3>1, <3>2, <3>3, Taken
    <3>5. Nth(P, 1) = 1
      <4>1. Nth(P, 1) \in Nat /\ Nth(P, 1) >= 1
        <5>1. Nth(P, 1) \in 1 .. Len(ne)
          BY <3>1, <3>4
        <5> QED BY <3>1, <5>1
      <4>2. k = 1 \/ 1 < k
        BY <1>6, <3>2
      <4> QED BY <3>2, <3>4, <4>1, <4>2
    <3>6. rows[1] = ne[Nth(P, 1)]
      BY <1>2, <3>1, <3>3, Taken
    <3>7. rows[1] = ne[1]
      BY <3>5, <3>6
    <3> QED BY <1>9, <3>7
  <2>5. \A i \in P : ne[i].index # ne[1].index
    BY <1>1, <1>2, <2>1, <2>4 DEF IsRegion
  <2> QED BY <2>2, <2>3, <2>5
<1>10. CASE TokenReading(lines) # NoReading
  <2>1. TokenReading(lines) = reading
    BY <1>4, <1>10
  <2>2. ASSUME NEW n, reading = Reading(0, PlacesOf(rows), n, 72)
        PROVE  IsTableOf(reading, S)
    BY <1>7, <2>2 DEF IsTableOf, Reading
  <2>3. ASSUME NEW n, ne[1].index # rows[1].index, reading = Reading(ne[1].index, PlacesOf(rows), n, 72)
        PROVE  IsTableOf(reading, S)
    BY <1>7, <1>9, <1>10, <2>3 DEF IsTableOf, Reading
  <2> QED BY <1>5, <1>10, <2>1, <2>2, <2>3 DEF S
<1> QED BY <1>8, <1>10

(* So are those of a reading by pipes.                                     *)
LEMMA PipeTable ==
  ASSUME NEW lines, IsRegion(lines)
  PROVE  IsTableOf(PipeReading(lines), Places(lines))
<1> DEFINE ne == NonEmpty(lines)
           S == Places(lines)
           P == {i \in DOMAIN ne : Marked(ne[i], "pipe")}
           rows == Where(ne, LAMBDA l : Marked(l, "pipe"))
           format == Rounded(Len(rows), Len(ne), 20)
           capped == IF format > 10 THEN 10 ELSE format
<1>1. IsRegion(ne) /\ Places(ne) \subseteq S
  BY NonEmptyRegion
<1>2. rows = At(ne, P) /\ P \in SUBSET DOMAIN ne
  BY DEF Where
<1>3. \E n : PipeReading(lines) = Reading(0, PlacesOf(rows), n, Score(n, Len(rows), FALSE, capped))
  BY DEF PipeReading
<1> HIDE DEF ne, S, rows, P
<1>4. IsRegion(rows) /\ Places(rows) \subseteq S
  BY <1>1, <1>2, SubRegion
<1>5. TakenFrom(PlacesOf(rows), S)
  BY <1>4, PlacesTaken
<1>6. format \in Int
  <2>1. Len(rows) \in Nat /\ Len(ne) \in Nat
    BY <1>1, <1>4, RegionLen
  <2> QED BY <2>1, RoundedIsInt
<1> HIDE DEF format
<1>7. capped \in Int
  BY <1>6
<1> HIDE DEF capped
<1>8. ASSUME NEW n
      PROVE  Score(n, Len(rows), FALSE, capped) \in Int
  BY <1>7 DEF Score
<1>9. PICK n : PipeReading(lines) = Reading(0, PlacesOf(rows), n, Score(n, Len(rows), FALSE, capped))
  BY <1>3
<1> DEFINE score == Score(n, Len(rows), FALSE, capped)
<1>10. score \in Int
  BY <1>8
<1> HIDE DEF score
<1>11. IsTableOf(Reading(0, PlacesOf(rows), n, score), S)
  BY <1>5, <1>10 DEF IsTableOf, Reading
<1> QED BY <1>9, <1>11 DEF S, score

(* So are those of an aligned reading.                                     *)
LEMMA AlignedTable ==
  ASSUME NEW lines, IsRegion(lines), NonEmpty(lines) # <<>>
  PROVE  IsTableOf(AlignedReading(lines), Places(lines))
<1> DEFINE ne == NonEmpty(lines)
           S == Places(lines)
           b == Boundaries(ne)
           cols == Cardinality(b)
<1>1. IsRegion(ne) /\ Places(ne) \subseteq S
  BY NonEmptyRegion
<1> DEFINE n == Len(ne)
<1>2. n \in Nat /\ DOMAIN ne = 1 .. n
  BY <1>1, RegionLen
<1>3. AlignedReading(lines) = AlignedReadingOf(ne, b)
  BY DEF AlignedReading
<1>4. 1 <= n
  <2>1. ne # <<>>
    OBVIOUS
  <2>2. CASE n = 0
    <3>1. DOMAIN ne = {}
      BY <1>2, <2>2
    <3>2. ne = <<>>
      <4>1. ne = [i \in DOMAIN ne |-> ne[i]]
        BY DEF NonEmpty, Where, At
      <4> HIDE DEF ne
      <4> QED BY <3>1, <4>1
    <3> QED BY <2>1, <3>2
  <2> HIDE DEF ne, n
  <2> QED BY <1>2, <2>2 DEF n
<1>5. CASE cols < MinColumns
  <2>1. AlignedReadingOf(ne, b) = Reading(0, <<>>, 0, Score(0, 0, FALSE, 0))
    BY <1>5 DEF AlignedReadingOf
  <2> DEFINE score == Score(0, 0, FALSE, 0)
  <2>2. score \in Int
    BY DEF Score
  <2>3. TakenFrom(<<>>, S)
    BY EmptyIsTaken
  <2> HIDE DEF ne, S, b, cols, score
  <2>4. IsTableOf(Reading(0, <<>>, 0, score), S)
    BY <2>2, <2>3 DEF IsTableOf, Reading
  <2> QED BY <1>3, <2>1, <2>4 DEF S, score
<1>6. CASE ~ cols < MinColumns
  <2>1. AlignedReadingOf(ne, b) = GridReading(ne, cols, InferHeader(ne, b))
    BY <1>6 DEF AlignedReadingOf
  <2> HIDE DEF ne, S, b
  <2>2. CASE ~ InferHeader(ne, b)
    <3>1. \E m : GridReading(ne, cols, InferHeader(ne, b)) = Reading(0, PlacesOf(ne), cols, Score(cols, m, FALSE, 10))
      BY <2>2 DEF GridReading, Score
    <3>2. TakenFrom(PlacesOf(ne), S)
      BY <1>1, PlacesTaken
    <3>3. PICK m : GridReading(ne, cols, InferHeader(ne, b)) = Reading(0, PlacesOf(ne), cols, Score(cols, m, FALSE, 10))
      BY <3>1
    <3> DEFINE score == Score(cols, m, FALSE, 10)
    <3>4. score \in Int
      BY DEF Score
    <3> HIDE DEF score
    <3>5. IsTableOf(Reading(0, PlacesOf(ne), cols, score), S)
      BY <3>2, <3>4 DEF IsTableOf, Reading
    <3> QED BY <1>3, <2>1, <3>3, <3>5 DEF S, score
  <2>3. CASE InferHeader(ne, b)
    <3> DEFINE rows == Tail(ne)
               f == PlacesOf(rows)
    <3>1. n >= 2
      BY <2>3 DEF InferHeader
    <3>2. DOMAIN rows = 1 .. n - 1 /\ \A i \in 1 .. n - 1 : rows[i] = ne[i + 1]
      BY <1>2, <3>1
    <3> HIDE DEF rows
    <3>3. DOMAIN f = 1 .. n - 1 /\ \A i \in 1 .. n - 1 : f[i] = ne[i + 1].index
      BY <3>2 DEF PlacesOf
    <3> HIDE DEF f
    <3>4. \A i \in 1 .. n - 1 : i + 1 \in 1 .. n /\ i + 1 # 1
      BY <1>2
    <3>5. TakenFrom(f, S)
      <4>1. IsNumbered(f)
        <5>1. n - 1 \in Nat
          BY <1>2, <3>1
        <5> QED BY <3>3, <5>1 DEF IsNumbered
      <4>2. Distinct(f)
        <5> SUFFICES ASSUME NEW i \in 1 .. n - 1, NEW j \in 1 .. n - 1, f[i] = f[j] PROVE i = j
          BY <3>3 DEF Distinct
        <5>1. i + 1 = j + 1
          BY <1>1, <1>2, <3>3, <3>4 DEF IsRegion
        <5> QED BY <1>2, <5>1
      <4>3. Held(f) \subseteq S
        BY <1>1, <1>2, <3>3, <3>4 DEF Held, Places
      <4> QED BY <4>1, <4>2, <4>3 DEF TakenFrom
    <3>6. ne[1].index \in S \ Held(f)
      <4>1. ne[1].index \in S
        BY <1>1, <1>2, <1>4 DEF Places
      <4>2. \A i \in 1 .. n - 1 : ne[i + 1].index # ne[1].index
        BY <1>1, <1>2, <1>4, <3>4 DEF IsRegion
      <4> QED BY <3>3, <4>1, <4>2 DEF Held
    <3>7. \E m : GridReading(ne, cols, InferHeader(ne, b)) = Reading(ne[1].index, f, cols, Score(cols, m, TRUE, 10))
      BY <2>3 DEF GridReading, Score, f, rows
    <3>8. PICK m : GridReading(ne, cols, InferHeader(ne, b)) = Reading(ne[1].index, f, cols, Score(cols, m, TRUE, 10))
      BY <3>7
    <3> DEFINE score == Score(cols, m, TRUE, 10)
    <3>9. score \in Int
      BY DEF Score
    <3> HIDE DEF score
    <3>10. IsTableOf(Reading(ne[1].index, f, cols, score), S)
      BY <3>5, <3>6, <3>9 DEF IsTableOf, Reading
    <3> QED BY <1>3, <2>1, <3>8, <3>10 DEF S, score
  <2> QED BY <2>2, <2>3
<1> QED BY <1>5, <1>6

(* Whichever reading is taken, header and rows of a table are different    *)
(* lines of the region.                                                    *)
LEMMA TableIsOfRegion ==
  ASSUME NEW lines, IsRegion(lines)
  PROVE  IsTableOf(DetectTable(lines), Places(lines))
<1> DEFINE S == Places(lines)
<1>1. IsTableOf(NoReading, S)
  BY EmptyIsTaken DEF IsTableOf, NoReading, Reading
<1>2. NonEmpty(lines) # <<>> =>
        DetectTable(lines) \in {CsvReading(lines), TokenReading(lines), PipeReading(lines), AlignedReading(lines)}
  BY DEF DetectTable, BestReading
<1>3. NonEmpty(lines) = <<>> => DetectTable(lines) = NoReading
  BY DEF DetectTable
<1> HIDE DEF S
<1> QED BY <1>1, <1>2, <1>3, CsvTable, TokenTable, PipeTable, AlignedTable DEF S

-----------------------------------------------------------------------------
(* Blocks *)

Sources == {"table", "tree_structure", "context", "kv"}

(* A block of a region of some lines of a segment.                         *)
IsBlockIn(b, S) ==
  /\ b.source \in Sources
  /\ b.start \in S /\ b.end \in S /\ b.start <= b.end
  /\ b.confidence \in Int

OneOfEach(B) == \A a, b \in B : a.source = b.source => a = b

AreBlocks(B, S) == IsFiniteSet(B) /\ OneOfEach(B) /\ \A b \in B : IsBlockIn(b, S)

(* A finite set of numbers has a least and a greatest.                     *)
LEMMA GreatestNatural ==
  ASSUME NEW P \in SUBSET Nat, IsFiniteSet(P), P # {}
  PROVE  \E g \in P : \A k \in P : k <= g
<1> DEFINE n == Cardinality(P)
<1>1. n \in Nat /\ n # 0
  BY FS_CardinalityType, FS_EmptySet
<1>2. n \in 1 .. n
  BY <1>1
<1>3. Nth(P, n) \in P
  BY <1>2, PlacesInOrder
<1>4. ASSUME NEW k \in P PROVE k <= Nth(P, n)
  <2>1. PICK l \in 1 .. n : Nth(P, l) = k
    BY PlacesInOrder
  <2>2. l < n => Nth(P, l) < Nth(P, n)
    BY <1>2, PlacesInOrder
  <2>3. l = n \/ l < n
    BY <1>1, <2>1
  <2>4. k \in Nat /\ Nth(P, n) \in Nat
    BY <1>3
  <2> HIDE DEF n
  <2> QED BY <2>1, <2>2, <2>3, <2>4
<1> QED BY <1>3, <1>4

(* A finite set of places has a least and a greatest.                      *)
LEMMA Extremes ==
  ASSUME NEW P \in SUBSET Nat, IsFiniteSet(P), P # {}
  PROVE  Least(P) \in P /\ Greatest(P) \in P /\ Least(P) <= Greatest(P)
<1>1. PICK m \in P : \A k \in P : m <= k
  BY LeastNatural
<1>2. Least(P) \in P /\ \A k \in P : Least(P) <= k
  BY <1>1 DEF Least
<1>3. Greatest(P) \in P
  BY GreatestNatural DEF Greatest
<1> QED BY <1>2, <1>3

(* A region has finitely many places.                                      *)
LEMMA PlacesAreFinite ==
  ASSUME NEW lines, IsRegion(lines)
  PROVE  IsFiniteSet(Places(lines)) /\ Places(lines) \in SUBSET Nat
<1>1. IsFiniteSet(Places(lines))
  <2>1. IsFiniteSet(Held(PlacesOf(lines)))
    BY PlacesOfRegion, HeldOnce
  <2> QED BY <2>1, PlacesOfRegion
<1>2. \A i \in DOMAIN lines : lines[i].index \in Nat
  BY DEF IsRegion, Placed
<1> QED BY <1>1, <1>2 DEF Places

(* A block made of a region lies in any set that has its places.           *)
LEMMA SpanOfPlaces ==
  ASSUME NEW source \in Sources, NEW confidence \in Int,
         NEW lines, IsRegion(lines), lines # <<>>, NEW S, Places(lines) \subseteq S
  PROVE  /\ IsBlockIn(Block(source, Places(lines), confidence), S)
         /\ Block(source, Places(lines), confidence).source = source
<1>1. Places(lines) # {}
  <2>1. DOMAIN lines # {}
    <3> SUFFICES ASSUME DOMAIN lines = {} PROVE FALSE
      OBVIOUS
    <3>1. Len(lines) = 0
      BY RegionLen
    <3> QED BY RegionLen, <3>1
  <2> QED BY <2>1 DEF Places
<1>2. Least(Places(lines)) \in S /\ Greatest(Places(lines)) \in S
      /\ Least(Places(lines)) <= Greatest(Places(lines))
  BY <1>1, PlacesAreFinite, Extremes
<1> QED BY <1>2 DEF Block, IsBlockIn

(* A set of places up to n has a size.                                     *)
LEMMA CountIsNat ==
  ASSUME NEW n \in Nat, NEW P \in SUBSET (1 .. n)
  PROVE  IsFiniteSet(P) /\ Cardinality(P) \in Nat
BY Taken

(* The confidence of a field is a number.                                  *)
LEMMA KvConfidenceIsNat ==
  ASSUME NEW l, l.shape \in Shapes, IsField(l)
  PROVE  KvConfidence(l) \in Nat
<1>1. Vocabulary[l.shape].pair \in {"full", "empty", "label"}
  BY SamplesAreKnown DEF IsField
<1>2. KvConfidence(l) \in {100, 80, 75}
  BY <1>1 DEF KvConfidence
<1> QED BY <1>2

(* The fields detected are lines of the region.                            *)
LEMMA FieldsAreRegion ==
  ASSUME NEW lines, IsRegion(lines)
  PROVE  /\ IsRegion(DetectAllKv(lines)) /\ Places(DetectAllKv(lines)) \subseteq Places(lines)
         /\ \A i \in DOMAIN DetectAllKv(lines) : IsField(DetectAllKv(lines)[i])
<1> DEFINE P == {i \in DOMAIN lines : IsField(lines[i])}
<1>1. DetectAllKv(lines) = At(lines, P) /\ P \in SUBSET (1 .. Len(lines)) /\ Len(lines) \in Nat
      /\ P \in SUBSET DOMAIN lines /\ \A i \in P : IsField(lines[i])
  BY RegionLen DEF DetectAllKv, Where
<1> HIDE DEF P
<1>2. IsRegion(At(lines, P)) /\ Places(At(lines, P)) \subseteq Places(lines)
  BY <1>1, SubRegion
<1>3. \A k \in DOMAIN At(lines, P) : IsField(At(lines, P)[k])
  <2>1. /\ DOMAIN At(lines, P) = 1 .. Cardinality(P)
        /\ \A k \in 1 .. Cardinality(P) : At(lines, P)[k] = lines[Nth(P, k)] /\ Nth(P, k) \in P
    BY <1>1, Taken
  <2> QED BY <1>1, <2>1
<1> QED BY <1>1, <1>2, <1>3

(* Their confidences add up to a number.                                   *)
LEMMA KvTotalIsNat ==
  ASSUME NEW fields, IsRegion(fields), \A i \in DOMAIN fields : IsField(fields[i])
  PROVE  Total(fields, KvConfidence) \in Nat
<1> DEFINE n == Len(fields)
           w == [i \in 1 .. n |-> KvConfidence(fields[i])]
           Solution(f) == f = [i \in 0 .. n |-> IF i = 0 THEN 0 ELSE f[i - 1] + KvConfidence(fields[i])]
           sum == CHOOSE f : Solution(f)
<1>1. n \in Nat /\ DOMAIN fields = 1 .. n
  BY RegionLen
<1>2. \A i \in 1 .. n : w[i] \in Nat
  BY <1>1, KvConfidenceIsNat DEF IsRegion, Placed
<1>3. Solution(sum)
  <2>1. \E f : f = [i \in 0 .. n |-> IF i = 0 THEN 0 ELSE f[i - 1] + w[i]]
    <3> HIDE DEF w, n
    <3> QED BY <1>1, <1>2, SumExists
  <2>2. PICK f : f = [i \in 0 .. n |-> IF i = 0 THEN 0 ELSE f[i - 1] + w[i]]
    BY <2>1
  <2>3. \A i \in 0 .. n : i # 0 => w[i] = KvConfidence(fields[i])
    BY <1>1
  <2>4. Solution(f)
    <3> HIDE DEF w, n
    <3> QED BY <2>2, <2>3
  <2> HIDE DEF Solution
  <2> QED BY <2>4
<1>4. Total(fields, KvConfidence) = sum[n]
  BY DEF Total
<1> DEFINE Good == {i \in 0 .. n : sum[i] \in Nat}
<1>5. n \in Good
  <2>0. /\ sum[0] = 0
        /\ \A i \in 1 .. n : sum[i] = sum[i - 1] + KvConfidence(fields[i])
    <3> HIDE DEF sum, n
    <3>1. \A i \in 1 .. n : i \in 0 .. n /\ i # 0
      BY <1>1
    <3>2. 0 \in 0 .. n
      BY <1>1
    <3> QED BY <1>3, <3>1, <3>2
  <2> HIDE DEF sum
  <2>1. 0 \in Good
    BY <1>1, <2>0
  <2>2. ASSUME NEW i \in 0 .. n - 1, i \in Good PROVE i + 1 \in Good
    <3>1. sum[i + 1] = sum[(i + 1) - 1] + KvConfidence(fields[i + 1])
      BY <1>1, <2>0
    <3>2. i + 1 \in 1 .. n /\ (i + 1) - 1 = i
      BY <1>1
    <3>3. KvConfidence(fields[i + 1]) \in Nat
      BY <1>2, <3>2
    <3> QED BY <2>2, <3>1, <3>2, <3>3
  <2> HIDE DEF Good
  <2>3. 0 .. n \subseteq Good
    BY <1>1, <2>1, <2>2, UpTo
  <2> QED BY <1>1, <2>3
<1> HIDE DEF sum
<1> QED BY <1>4, <1>5

(* The confidence of a context is an integer.                              *)
LEMMA ContextConfidenceIsInt ==
  ASSUME NEW lines, IsRegion(lines), lines # <<>>
  PROVE  ContextConfidence(lines) \in Int
<1> DEFINE n == Len(lines)
<1>1. n \in Nat /\ DOMAIN lines = 1 .. n /\ n # 0
  BY RegionLen
<1>2. \A type : OfType(lines, type) \in Nat
  BY <1>1, CountIsNat DEF OfType, Count
<1>3. Groups(lines) \in Nat
  <2>1. {i \in 2 .. n : LineType(lines[i]) # LineType(lines[i - 1])} \in SUBSET (1 .. n)
    BY <1>1
  <2>2. Cardinality({i \in 2 .. n : LineType(lines[i]) # LineType(lines[i - 1])}) \in Nat
    BY <1>1, <2>1, CountIsNat
  <2> QED BY <2>2 DEF Groups
<1> DEFINE type == DominantType(lines)
           pure == IF type = "mixed" THEN 30 * n ELSE 100 * OfType(lines, type)
           a == 7 * pure + 300 * (n - Groups(lines))
<1>4. pure \in Int
  BY <1>1, <1>2
<1>5. ContextConfidence(lines) = (2 * a + 10 * n - 1) \div (2 * (10 * n))
  BY DEF ContextConfidence, Hundredths
<1> HIDE DEF pure, n
<1>6. a \in Int
  BY <1>1, <1>3, <1>4
<1> HIDE DEF a
<1>7. \A x, y \in Int : y > 0 => x \div y \in Int
  OBVIOUS
<1>8. 2 * a + 10 * n - 1 \in Int /\ 2 * (10 * n) \in Int /\ 2 * (10 * n) > 0
  BY <1>1, <1>6
<1> QED BY <1>5, <1>7, <1>8

(* A region with a place is not empty.                                     *)
LEMMA NotNothing ==
  ASSUME NEW lines, IsRegion(lines), DOMAIN lines # {}
  PROVE  lines # <<>>
OBVIOUS

(* At most one block of fields is found, within the region.                *)
LEMMA KvBlocksAre ==
  ASSUME NEW lines, IsRegion(lines)
  PROVE  \A b \in KvBlocks(lines) :
           IsBlockIn(b, Places(lines)) /\ b.source = "kv" /\ KvBlocks(lines) = {b}
<1> DEFINE fields == DetectAllKv(lines)
           conf == Rounded(Total(fields, KvConfidence), Len(fields), 1)
<1> SUFFICES ASSUME fields # <<>>
             PROVE  IsBlockIn(KvBlock(lines), Places(lines)) /\ KvBlock(lines).source = "kv"
  BY DEF KvBlocks
<1>1. IsRegion(fields) /\ Places(fields) \subseteq Places(lines) /\ \A i \in DOMAIN fields : IsField(fields[i])
  BY FieldsAreRegion
<1>2. conf \in Int
  <2> HIDE DEF fields
  <2>1. Total(fields, KvConfidence) \in Nat /\ Len(fields) \in Nat
    BY <1>1, KvTotalIsNat, RegionLen
  <2> QED BY <2>1, RoundedIsInt
<1>3. KvBlock(lines) = Block("kv", Places(fields), conf)
  BY DEF KvBlock
<1> HIDE DEF fields, conf
<1> QED BY <1>1, <1>2, <1>3, SpanOfPlaces DEF Sources

(* The block of context lies within the region.                            *)
LEMMA ContextBlockIs ==
  ASSUME NEW lines, IsRegion(lines), lines # <<>>
  PROVE  IsBlockIn(ContextBlock(lines), Places(lines)) /\ ContextBlock(lines).source = "context"
BY ContextConfidenceIsInt, SpanOfPlaces DEF ContextBlock, Sources

(* At most one tree is found, within the region.                           *)
LEMMA TreeBlocksAre ==
  ASSUME NEW lines, IsRegion(lines)
  PROVE  \A b \in TreeBlocks(lines) :
           IsBlockIn(b, Places(lines)) /\ b.source = "tree_structure" /\ TreeBlocks(lines) = {b}
<1> SUFFICES ASSUME HasHierarchy(lines)
             PROVE  IsBlockIn(TreeBlock(lines), Places(lines)) /\ TreeBlock(lines).source = "tree_structure"
  BY DEF TreeBlocks
<1>1. IsRegion(NonEmpty(lines)) /\ Places(NonEmpty(lines)) \subseteq Places(lines)
  BY NonEmptyRegion
<1>2. NonEmpty(lines) # <<>>
  <2>1. DOMAIN NonEmpty(lines) # {}
    BY DEF HasHierarchy, Depths
  <2> QED BY <1>1, <2>1, NotNothing
<1> QED BY <1>1, <1>2, SpanOfPlaces DEF TreeBlock, Sources

(* At most one table is found, within the region.                          *)
LEMMA TableBlocksAre ==
  ASSUME NEW lines, IsRegion(lines), lines # <<>>
  PROVE  \A b \in TableBlocks(lines) :
           IsBlockIn(b, Places(lines)) /\ b.source = "table" /\ TableBlocks(lines) = {b}
<1> DEFINE t == DetectTable(lines)
<1>1. t.confidence \in Int
  BY TableIsOfRegion DEF IsTableOf
<1>2. TableBlocks(lines) = IF t.rows = <<>> THEN {} ELSE {Block("table", Places(lines), t.confidence)}
  BY DEF TableBlocks, TableBlock
<1> HIDE DEF t
<1> QED BY <1>1, <1>2, SpanOfPlaces DEF Sources

(* At most one block of each source is found.                              *)
LEMMA EngineBlocks ==
  ASSUME NEW lines, IsRegion(lines), lines # <<>>, NEW route
  PROVE  AreBlocks(EngineOf(route, lines), Places(lines))
<1> DEFINE S == Places(lines)
           K == KvBlocks(lines)
           C == {ContextBlock(lines)}
           T == TreeBlocks(lines)
           W == TableBlocks(lines)
<1>1. EngineOf(route, lines) \in {W, K \cup C \cup T, K \cup C}
  BY DEF EngineOf, BlockEngine, FallbackEngine
<1>2. /\ \A b \in K : IsBlockIn(b, S) /\ b.source = "kv" /\ K = {b}
      /\ \A b \in C : IsBlockIn(b, S) /\ b.source = "context"
      /\ \A b \in T : IsBlockIn(b, S) /\ b.source = "tree_structure" /\ T = {b}
      /\ \A b \in W : IsBlockIn(b, S) /\ b.source = "table" /\ W = {b}
  BY KvBlocksAre, ContextBlockIs, TreeBlocksAre, TableBlocksAre
<1>3. IsFiniteSet(K) /\ IsFiniteSet(C) /\ IsFiniteSet(T) /\ IsFiniteSet(W)
  <2>1. \A B : (\A b \in B : B = {b}) => IsFiniteSet(B)
    <3> SUFFICES ASSUME NEW B, \A b \in B : B = {b} PROVE IsFiniteSet(B)
      OBVIOUS
    <3>1. CASE B = {}
      BY <3>1, FS_EmptySet
    <3>2. CASE B # {}
      <4>1. PICK b \in B : B = {b}
        BY <3>2
      <4> QED BY <4>1, FS_Singleton
    <3> QED BY <3>1, <3>2
  <2>2. IsFiniteSet(C)
    BY FS_Singleton
  <2> HIDE DEF K, C, T, W
  <2> QED BY <1>2, <2>1, <2>2
<1>4. \A a, b \in C : a = b
  OBVIOUS
<1> HIDE DEF K, C, T, W, S
<1>5. AreBlocks(W, S)
  BY <1>2, <1>3 DEF AreBlocks, OneOfEach
<1>6. IsFiniteSet(K \cup C) /\ IsFiniteSet(K \cup C \cup T)
  BY <1>3, FS_Union
<1>7. AreBlocks(K \cup C, S)
  BY <1>2, <1>4, <1>6 DEF AreBlocks, OneOfEach
<1>8. AreBlocks(K \cup C \cup T, S)
  <2>1. OneOfEach(K \cup C \cup T)
    BY <1>2, <1>4 DEF OneOfEach
  <2> QED BY <1>2, <1>6, <2>1 DEF AreBlocks
<1> QED BY <1>1, <1>5, <1>7, <1>8 DEF S

-----------------------------------------------------------------------------
(* The sweep *)

(* Of a finite set that is ordered, some element is the first.             *)
LEMMA FirstExists ==
  ASSUME NEW S, IsFiniteSet(S), S # {}, NEW R, IsOrder(R, S)
  PROVE  \E x \in S : \A y \in S : <<y, x>> \notin R
<1>1. Cardinality(S) \in Nat /\ Cardinality(S) # 0
  BY FS_CardinalityType, FS_EmptySet
<1>2. 0 \in 0 .. Cardinality(S) - 1
  BY <1>1
<1>3. HasRank(R, S, 0)
  BY <1>2, Ranks
<1>4. PICK x \in S : Cardinality(BelowIn(R, S, x)) = 0
  BY <1>3 DEF HasRank
<1>5. BelowIn(R, S, x) = {}
  <2>1. BelowIn(R, S, x) \in SUBSET S
    BY DEF BelowIn
  <2>2. IsFiniteSet(BelowIn(R, S, x))
    BY <2>1, FS_Subset
  <2> QED BY <1>4, <2>2, FS_EmptySet
<1> QED BY <1>5 DEF BelowIn

SweepOrder(B) == {p \in B \X B : SweptBefore(p[1], p[2])}

(* The sweep goes through the blocks in an order.                          *)
LEMMA SweepIsOrder ==
  ASSUME NEW S \in SUBSET Nat, NEW B, AreBlocks(B, S)
  PROVE  IsOrder(SweepOrder(B), B)
<1> DEFINE prio(b) == SourcePriority[b.source]
<1>1. \A a, b \in B : prio(a) \in Nat /\ (prio(a) = prio(b) => a = b)
                      /\ a.start \in Nat /\ a.end \in Nat
  <2>1. /\ SourcePriority["table"] = 5 /\ SourcePriority["tree_structure"] = 4
        /\ SourcePriority["context"] = 3 /\ SourcePriority["kv"] = 2
    BY DEF SourcePriority
  <2>2. \A a \in B : a.source \in Sources /\ a.start \in Nat /\ a.end \in Nat
    BY DEF AreBlocks, IsBlockIn
  <2>3. \A s, r \in Sources : SourcePriority[s] \in Nat /\ (SourcePriority[s] = SourcePriority[r] => s = r)
    BY <2>1 DEF Sources
  <2> QED BY <2>2, <2>3 DEF AreBlocks, OneOfEach
<1>2. \A a, b \in B : SweptBefore(a, b) <=>
                        a.start < b.start \/ (a.start = b.start /\ prio(a) > prio(b))
  <2> SUFFICES ASSUME NEW a \in B, NEW b \in B
               PROVE  SweptBefore(a, b) <=> a.start < b.start \/ (a.start = b.start /\ prio(a) > prio(b))
    OBVIOUS
  <2>1. a.source = b.source => ~ a.end > b.end
    BY <1>1 DEF AreBlocks, OneOfEach
  <2> QED BY <2>1 DEF SweptBefore
<1>3. \A a, b : <<a, b>> \in SweepOrder(B) <=> a \in B /\ b \in B /\ SweptBefore(a, b)
  BY DEF SweepOrder
<1> HIDE DEF prio
<1> QED BY <1>1, <1>2, <1>3 DEF IsOrder

(* The sweep comes by every block, once.                                   *)
LEMMA SweptIsAll ==
  ASSUME NEW S \in SUBSET Nat, NEW B, AreBlocks(B, S)
  PROVE  /\ TakenFrom(Swept(B), B) /\ Held(Swept(B)) = B
         /\ Cardinality(B) \in Nat /\ DOMAIN Swept(B) = 1 .. Cardinality(B)
<1> DEFINE R == SweepOrder(B)
           N == Cardinality(B)
           rank(b) == Cardinality({c \in B : SweptBefore(c, b)})
           s == Swept(B)
<1>1. IsFiniteSet(B) /\ N \in Nat /\ IsOrder(R, B)
  BY SweepIsOrder, FS_CardinalityType DEF AreBlocks
<1>2. \A b \in B : BelowIn(R, B, b) = {c \in B : SweptBefore(c, b)}
  BY DEF BelowIn, SweepOrder
<1>3. \A k \in 0 .. N - 1 : \E b \in B : rank(b) = k
  <2>1. \A k \in 0 .. N - 1 : HasRank(R, B, k)
    BY <1>1, Ranks
  <2> HIDE DEF R
  <2> QED BY <1>2, <2>1 DEF HasRank
<1>4. \A b \in B : rank(b) \in 0 .. N - 1
  <2>1. \A b \in B : Cardinality(BelowIn(R, B, b)) \in 0 .. N - 1
    BY <1>1, Ranks
  <2> HIDE DEF R
  <2> QED BY <1>2, <2>1
<1>5. \A a, b \in B : rank(a) = rank(b) => a = b
  <2> SUFFICES ASSUME NEW a \in B, NEW b \in B, rank(a) = rank(b) PROVE a = b
    OBVIOUS
  <2>1. \A x, y \in B : <<x, y>> \in R => Cardinality(BelowIn(R, B, x)) < Cardinality(BelowIn(R, B, y))
    BY <1>1, Ranks
  <2>2. \A x, y \in B : <<x, y>> \in R => rank(x) < rank(y)
    <3> HIDE DEF R
    <3> QED BY <1>2, <2>1
  <2>3. rank(a) \in Nat /\ rank(b) \in Nat
    BY <1>1, <1>4
  <2> HIDE DEF R, rank
  <2>4. <<a, b>> \notin R /\ <<b, a>> \notin R
    BY <2>2, <2>3
  <2> QED BY <1>1, <2>4 DEF IsOrder
<1>6. DOMAIN s = 1 .. N /\ \A k \in 1 .. N : s[k] = CHOOSE b \in B : rank(b) = k - 1
  BY DEF Swept
<1> HIDE DEF R, rank, s
<1>7. ASSUME NEW k \in 1 .. N PROVE s[k] \in B /\ rank(s[k]) = k - 1
  <2>1. k - 1 \in 0 .. N - 1
    BY <1>1
  <2> QED BY <1>3, <1>6, <2>1
<1>8. IsNumbered(s)
  BY <1>1, <1>6 DEF IsNumbered
<1>9. Distinct(s)
  <2> SUFFICES ASSUME NEW i \in 1 .. N, NEW j \in 1 .. N, s[i] = s[j] PROVE i = j
    BY <1>6 DEF Distinct
  <2>1. i - 1 = j - 1
    BY <1>7
  <2> QED BY <1>1, <2>1
<1>10. Held(s) = B
  <2>1. Held(s) \subseteq B
    BY <1>6, <1>7 DEF Held
  <2>2. ASSUME NEW b \in B PROVE b \in Held(s)
    <3> DEFINE k == rank(b) + 1
    <3>1. k \in 1 .. N /\ k - 1 = rank(b)
      BY <1>1, <1>4
    <3>2. rank(s[k]) = rank(b) /\ s[k] \in B
      <4> HIDE DEF k
      <4> QED BY <1>7, <3>1
    <3>3. s[k] = b
      BY <1>5, <3>2
    <3> QED BY <1>6, <3>1, <3>3 DEF Held
  <2> QED BY <2>1, <2>2
<1> QED BY <1>1, <1>6, <1>8, <1>9, <1>10 DEF TakenFrom, s

(* Some of the blocks of a region are blocks of it.                        *)
LEMMA FewerBlocks ==
  ASSUME NEW S, NEW B, AreBlocks(B, S), NEW C \in SUBSET B
  PROVE  AreBlocks(C, S)
BY FS_Subset DEF AreBlocks, OneOfEach

(* Reconciling drops blocks and makes none.                                *)
LEMMA ReconcileDrops ==
  ASSUME NEW S \in SUBSET Nat, NEW B, AreBlocks(B, S), NEW total
  PROVE  Reconcile(B, total) \in SUBSET B
<1> DEFINE C == {b \in B : b.confidence >= MinConfidence}
           swept == Swept(C)
           n == Len(swept)
           V == SUBSET B
           step == [k \in 1 .. n |-> [a \in V |-> Sweep(a, swept[k], total)]]
           Solution(f) == f = [k \in 0 .. n |-> IF k = 0 THEN {} ELSE Sweep(f[k - 1], swept[k], total)]
           kept == CHOOSE f : Solution(f)
<1>1. AreBlocks(C, S)
  <2>1. C \in SUBSET B
    OBVIOUS
  <2> HIDE DEF C
  <2> QED BY <2>1, FewerBlocks
<1>2. n \in Nat /\ DOMAIN swept = 1 .. n /\ \A k \in 1 .. n : swept[k] \in B
  <2>1. TakenFrom(swept, C)
    <3> HIDE DEF C
    <3> QED BY <1>1, SweptIsAll
  <2>2. C \in SUBSET B
    OBVIOUS
  <2> HIDE DEF C
  <2>3. IsNumbered(swept) /\ Held(swept) \subseteq B
    BY <2>1, <2>2 DEF TakenFrom
  <2> HIDE DEF swept
  <2>4. n \in Nat /\ DOMAIN swept = 1 .. n
    BY <2>3, Numbered
  <2> QED BY <2>3, <2>4 DEF Held
<1>3. Reconcile(B, total) = kept[n]
  BY DEF Reconcile
<1> HIDE DEF C, swept, n
<1>4. \A k \in 1 .. n, a \in V : Sweep(a, swept[k], total) \in V
  BY <1>2 DEF Sweep
<1>5. step \in [1 .. n -> [V -> V]]
  BY <1>4
<1>6. PICK f : Recursion(f, {}, step, n) /\ \A i \in 0 .. n : f[i] \in V
  <2>1. {} \in V
    OBVIOUS
  <2> HIDE DEF step, V
  <2> QED BY <1>2, <1>5, <2>1, RecursionExists
<1>7. Solution(f)
  <2>1. \A k \in 0 .. n : k # 0 => k \in 1 .. n /\ f[k - 1] \in V
    BY <1>2, <1>6
  <2>2. \A k \in 0 .. n : k # 0 => step[k][f[k - 1]] = Sweep(f[k - 1], swept[k], total)
    BY <2>1
  <2>3. f = [k \in 0 .. n |-> IF k = 0 THEN {} ELSE step[k][f[k - 1]]]
    BY <1>6 DEF Recursion
  <2> HIDE DEF step, V
  <2> QED BY <2>2, <2>3
<1>8. Solution(kept)
  <2> HIDE DEF Solution
  <2> QED BY <1>7
<1> DEFINE Good == {k \in 0 .. n : kept[k] \in V}
<1>9. n \in Good
  <2>0. /\ kept[0] = {}
        /\ \A i \in 1 .. n : kept[i] = Sweep(kept[i - 1], swept[i], total)
    <3> HIDE DEF kept
    <3>1. \A i \in 1 .. n : i \in 0 .. n /\ i # 0
      BY <1>2
    <3>2. 0 \in 0 .. n
      BY <1>2
    <3> QED BY <1>8, <3>1, <3>2
  <2> HIDE DEF kept
  <2>1. 0 \in Good
    BY <1>2, <2>0
  <2>2. ASSUME NEW i \in 0 .. n - 1, i \in Good PROVE i + 1 \in Good
    <3>1. kept[i + 1] = Sweep(kept[i], swept[i + 1], total) /\ i + 1 \in 1 .. n
      BY <1>2, <2>0
    <3> HIDE DEF V
    <3> QED BY <1>2, <1>4, <2>2, <3>1
  <2> HIDE DEF Good
  <2>3. 0 .. n \subseteq Good
    BY <1>2, <2>1, <2>2, UpTo
  <2> QED BY <1>2, <2>3
<1> HIDE DEF kept
<1> QED BY <1>3, <1>9

-----------------------------------------------------------------------------
(* The name of a region *)

Labels == {"table", "hierarchy", "kv_block", "context"}

(* The score of a block is an integer.                                     *)
LEMMA BlockScoreIsInt ==
  ASSUME NEW S \in SUBSET Nat, NEW b, IsBlockIn(b, S), NEW total \in Nat
  PROVE  BlockScore(b, total) \in Int /\ LineCount(b) \in Nat
<1>1. b.start \in Nat /\ b.end \in Nat /\ b.start <= b.end /\ b.confidence \in Int
  BY DEF IsBlockIn
<1>2. LineCount(b) \in Nat
  BY <1>1 DEF LineCount
<1> DEFINE m == IF LineCount(b) < total THEN LineCount(b) ELSE total
<1>3. SpanShare(b, total, 250000) \in Int
  <2>1. m \in Nat
    BY <1>2
  <2>2. SpanShare(b, total, 250000) = Rounded(m, total, 250000)
    BY DEF SpanShare
  <2> HIDE DEF m
  <2> QED BY <2>1, <2>2, RoundedIsInt
<1>4. SourceWeight[b.source] \in Int
  <2>1. b.source \in Sources
    BY DEF IsBlockIn
  <2> QED BY <2>1 DEF Sources, SourceWeight
<1> QED BY <1>1, <1>2, <1>3, <1>4 DEF BlockScore

(* The lines of blocks add up to a number.                                 *)
LEMMA SumOfLinesIsNat ==
  ASSUME NEW S \in SUBSET Nat, NEW B, AreBlocks(B, S)
  PROVE  SumOf(B, LineCount) \in Nat
<1> DEFINE order == Swept(B)
           n == Len(order)
           w == [i \in 1 .. n |-> LineCount(order[i])]
           Solution(f) == f = [i \in 0 .. n |-> IF i = 0 THEN 0 ELSE f[i - 1] + LineCount(order[i])]
           sum == CHOOSE f : Solution(f)
<1>1. n \in Nat /\ DOMAIN order = 1 .. n /\ \A i \in 1 .. n : order[i] \in B
  <2>1. TakenFrom(order, B)
    BY SweptIsAll
  <2> HIDE DEF order
  <2>2. n \in Nat /\ DOMAIN order = 1 .. n
    BY <2>1, Numbered DEF TakenFrom
  <2> QED BY <2>1, <2>2 DEF TakenFrom, Held
<1>2. SumOf(B, LineCount) = sum[n]
  BY DEF SumOf
<1> HIDE DEF order
<1>3. \A i \in 1 .. n : w[i] \in Nat
  <2>1. \A b \in B : LineCount(b) \in Nat
    <3> SUFFICES ASSUME NEW b \in B PROVE LineCount(b) \in Nat
      OBVIOUS
    <3>1. b.start \in Nat /\ b.end \in Nat /\ b.start <= b.end
      BY DEF AreBlocks, IsBlockIn
    <3> QED BY <3>1 DEF LineCount
  <2> QED BY <1>1, <2>1
<1>4. Solution(sum)
  <2>1. PICK f : f = [i \in 0 .. n |-> IF i = 0 THEN 0 ELSE f[i - 1] + w[i]]
    <3> HIDE DEF w, n
    <3> QED BY <1>1, <1>3, SumExists
  <2>2. \A i \in 0 .. n : i # 0 => w[i] = LineCount(order[i])
    BY <1>1
  <2>3. Solution(f)
    <3> HIDE DEF w, n
    <3> QED BY <2>1, <2>2
  <2> HIDE DEF Solution
  <2> QED BY <2>3
<1>5. Sums(sum, w, n)
  <2>1. \A i \in 1 .. n : i \in 0 .. n /\ i # 0 /\ w[i] = LineCount(order[i])
    BY <1>1
  <2>2. 0 \in 0 .. n
    BY <1>1
  <2> HIDE DEF sum, w, n
  <2> QED BY <1>4, <2>1, <2>2 DEF Sums
<1> DEFINE none == [i \in 1 .. n |-> {}]
<1>6. sum[n] \in Nat
  <2>1. \A i \in 1 .. n : IsFiniteSet(none[i])
    BY FS_EmptySet
  <2>2. Apart(none, n)
    BY DEF Apart
  <2> HIDE DEF sum, w, n, none
  <2> QED BY <1>1, <1>3, <1>5, <2>1, <2>2, SumBounds
<1> QED BY <1>2, <1>6

(* A share in hundredths is an integer.                                    *)
LEMMA ScoreIsInt ==
  ASSUME NEW a \in Int, NEW b \in Int, b > 0
  PROVE  ToHundredths(a, b) \in Int
<1>1. a \div b \in Int
  OBVIOUS
<1>2. (a \div b) + 1 \in Int
  BY <1>1
<1>3. ToHundredths(a, b) \in {a \div b, (a \div b) + 1}
  BY DEF ToHundredths
<1> QED BY <1>1, <1>2, <1>3

(* Some block scores most, and of those that do is the first.              *)
LEMMA TopExists ==
  ASSUME NEW S \in SUBSET Nat, NEW B, AreBlocks(B, S), B # {}, NEW total \in Nat
  PROVE  \E b \in B : \A c \in B :
           \/ BlockScore(c, total) < BlockScore(b, total)
           \/ BlockScore(c, total) = BlockScore(b, total) /\ ~ SweptBefore(c, b)
<1> DEFINE score(b) == BlockScore(b, total)
           R == {p \in B \X B : \/ score(p[1]) > score(p[2])
                                \/ score(p[1]) = score(p[2]) /\ SweptBefore(p[1], p[2])}
<1>1. \A b \in B : score(b) \in Int
  BY BlockScoreIsInt DEF AreBlocks
<1>2. IsOrder(SweepOrder(B), B)
  BY SweepIsOrder
<1>3. \A a, b : <<a, b>> \in SweepOrder(B) <=> a \in B /\ b \in B /\ SweptBefore(a, b)
  BY DEF SweepOrder
<1>4. \A a, b : <<a, b>> \in R <=> /\ a \in B /\ b \in B
                                   /\ \/ score(a) > score(b)
                                      \/ score(a) = score(b) /\ SweptBefore(a, b)
  OBVIOUS
<1> HIDE DEF R, score
<1>5. IsOrder(R, B)
  BY <1>1, <1>2, <1>3, <1>4 DEF IsOrder
<1>6. PICK b \in B : \A c \in B : <<c, b>> \notin R
  BY <1>5, FirstExists DEF AreBlocks
<1>7. \A c \in B : score(c) < score(b) \/ (score(c) = score(b) /\ ~ SweptBefore(c, b))
  <2> SUFFICES ASSUME NEW c \in B
               PROVE  score(c) < score(b) \/ (score(c) = score(b) /\ ~ SweptBefore(c, b))
    OBVIOUS
  <2>1. ~ score(c) > score(b) /\ (score(c) = score(b) => ~ SweptBefore(c, b))
    BY <1>4, <1>6
  <2>2. score(c) \in Int /\ score(b) \in Int
    BY <1>1
  <2> QED BY <2>1, <2>2
<1> QED BY <1>7 DEF score

(* Suppressing redundant context leaves some block.                        *)
LEMMA SuppressingLeaves ==
  ASSUME NEW B, B # {}
  PROVE  SuppressRedundantContext(B) # {} /\ SuppressRedundantContext(B) \in SUBSET B
<1> DEFINE specific == {b \in B : b.source # "context"}
<1>1. \A b \in B : b \in specific \/ specific = {} => b \in SuppressRedundantContext(B)
  BY DEF SuppressRedundantContext
<1>2. SuppressRedundantContext(B) \in SUBSET B
  BY DEF SuppressRedundantContext
<1> QED BY <1>1, <1>2

(* A region is named after one of its blocks, or mixed; without blocks it  *)
(* is prose.                                                               *)
LEMMA RegionsAreNamed ==
  ASSUME NEW S \in SUBSET Nat, NEW B, AreBlocks(B, S), NEW total \in Nat, total > 0
  PROVE  /\ Classify(B, total).confidence \in Int
         /\ B = {} => Classify(B, total).type = "prose"
         /\ B # {} => \/ Classify(B, total).type = "mixed"
                      \/ \E b \in B : Classify(B, total).type = SourceLabel[b.source]
<1> DEFINE blocks == SuppressRedundantContext(B)
           score(b) == BlockScore(b, total)
           top  == CHOOSE b \in blocks : \A c \in blocks : score(c) < score(b) \/ (score(c) = score(b) /\ ~ SweptBefore(c, b))
           clear == ~ HighEntropy(blocks) /\ \A c \in blocks \ {top} : score(top) - score(c) >= 150000
           cover == IF clear THEN LineCount(top) ELSE SumOf(blocks, LineCount)
           damped == total + (IF cover < total THEN cover ELSE total)
           capped == IF score(top) > 1000000 THEN 1000000 ELSE score(top)
           label == Classify(B, total)
<1>1. label = IF blocks = {} THEN [type |-> "prose", confidence |-> 0]
              ELSE [type       |-> IF clear THEN SourceLabel[top.source] ELSE "mixed",
                    confidence |-> ToHundredths(capped * damped, 20000 * total)]
  BY DEF Classify
<1>2. CASE B = {}
  <2>1. blocks = {}
    BY <1>2 DEF SuppressRedundantContext
  <2> HIDE DEF blocks, clear, capped, damped, top
  <2> QED BY <1>1, <1>2, <2>1
<1>3. CASE B # {}
  <2>1. blocks # {} /\ blocks \in SUBSET B
    BY <1>3, SuppressingLeaves
  <2>2. AreBlocks(blocks, S)
    BY <2>1, FewerBlocks
  <2>3. top \in blocks
    <3> HIDE DEF blocks
    <3>1. \E b \in blocks : \A c \in blocks : score(c) < score(b) \/ (score(c) = score(b) /\ ~ SweptBefore(c, b))
      BY <2>1, <2>2, TopExists
    <3> HIDE DEF score
    <3> QED BY <3>1
  <2> HIDE DEF blocks
  <2>4. IsBlockIn(top, S)
    <3> HIDE DEF top
    <3> QED BY <2>2, <2>3 DEF AreBlocks
  <2>5. score(top) \in Int /\ LineCount(top) \in Nat
    <3> HIDE DEF top
    <3> QED BY <2>4, BlockScoreIsInt
  <2>6. SumOf(blocks, LineCount) \in Nat
    BY <2>2, SumOfLinesIsNat
  <2> HIDE DEF top, score, clear
  <2>7. cover \in Nat
    BY <2>5, <2>6
  <2> HIDE DEF cover
  <2>8. damped \in Int /\ capped \in Int /\ 20000 * total \in Int /\ 20000 * total > 0
    BY <2>5, <2>7
  <2> HIDE DEF damped, capped
  <2>9. capped * damped \in Int
    BY <2>8
  <2>10. ToHundredths(capped * damped, 20000 * total) \in Int
    BY <2>8, <2>9, ScoreIsInt
  <2>11. label = [type       |-> IF clear THEN SourceLabel[top.source] ELSE "mixed",
                  confidence |-> ToHundredths(capped * damped, 20000 * total)]
    BY <1>1, <2>1
  <2> HIDE DEF label
  <2>12. label.confidence \in Int
    BY <2>10, <2>11
  <2>13. label.type = "mixed" \/ label.type = SourceLabel[top.source]
    BY <2>11
  <2> QED BY <1>3, <2>1, <2>3, <2>12, <2>13 DEF label
<1> QED BY <1>2, <1>3

-----------------------------------------------------------------------------
(* The parts of a segment *)

(* What a block holds of the lines of its part.                            *)
HoldsOf(c, S) ==
  /\ c.source \in Sources
  /\ c.start \in S /\ c.end \in S
  /\ TakenFrom(c.items, S)
  /\ c.headers \in {0} \cup (S \ Held(c.items))

(* What the engine makes of a part.                                        *)
IsPartOf(r, S) ==
  /\ r.confidence \in Int
  /\ r.type \in Labels \cup {"mixed", "prose"}
  /\ IsList(r.blocks)
  /\ \A k \in DOMAIN r.blocks : HoldsOf(r.blocks[k], S)
  /\ \A k, l \in DOMAIN r.blocks : r.blocks[k].source = r.blocks[l].source => k = l
  /\ r.type \in Labels => \E k \in DOMAIN r.blocks : SourceLabel[r.blocks[k].source] = r.type
  /\ r.type = "prose" <=> DOMAIN r.blocks = {}

(* What a block holds are different lines within the region.               *)
LEMMA ContentIs ==
  ASSUME NEW lines, IsRegion(lines), NEW b, IsBlockIn(b, Places(lines))
  PROVE  /\ HoldsOf(Content(b, lines, DetectTable(lines)), Places(lines))
         /\ Content(b, lines, DetectTable(lines)).source = b.source
<1> DEFINE S == Places(lines)
           t == DetectTable(lines)
           c == Content(b, lines, t)
<1>1. IsTableOf(t, S)
  BY TableIsOfRegion
<1>2. TakenFrom(PlacesOf(DetectAllKv(lines)), S)
  BY FieldsAreRegion, PlacesTaken
<1>3. TakenFrom(PlacesOf(NonEmpty(lines)), S)
  BY NonEmptyRegion, PlacesTaken
<1>4. /\ b.source \in Sources /\ b.start \in S /\ b.end \in S
  BY DEF IsBlockIn
<1>5. /\ c.source = b.source /\ c.start = b.start /\ c.end = b.end
      /\ c.headers = IF b.source = "table" THEN t.headers ELSE 0
  BY DEF Content
<1>6. /\ b.source = "kv" => c.items = PlacesOf(DetectAllKv(lines))
      /\ b.source = "table" => c.items = t.rows
      /\ b.source = "tree_structure" => c.items = PlacesOf(NonEmpty(lines))
      /\ b.source = "context" => c.items = PlacesOf(NonEmpty(lines))
  BY DEF Content
<1> HIDE DEF S, t, c
<1>7. TakenFrom(c.items, S) /\ c.headers \in {0} \cup (S \ Held(c.items))
  BY <1>1, <1>2, <1>3, <1>4, <1>5, <1>6 DEF IsTableOf, Sources
<1> QED BY <1>4, <1>5, <1>7 DEF HoldsOf, S, t, c

(* Every detector has a label.                                             *)
LEMMA LabelsOfSources ==
  ASSUME NEW s \in Sources
  PROVE  SourceLabel[s] \in Labels
BY DEF Sources, SourceLabel, Labels

(* A part comes to blocks within its lines, each by a detector of its own. *)
LEMMA PartIs ==
  ASSUME NEW lines, IsRegion(lines), lines # <<>>, NEW total \in Nat, total > 0
  PROVE  /\ IsPartOf(ProcessSubSegment(lines, total), Places(lines))
         /\ ProcessSubSegment(lines, total).lines = lines
<1> DEFINE S == Places(lines)
           t == DetectTable(lines)
           found == EngineOf(Route(lines), lines)
           B == Reconcile(found, total)
           swept == Swept(B)
           r == ProcessSubSegment(lines, total)
           label == Classify(B, total)
<1>1. S \in SUBSET Nat
  BY PlacesAreFinite
<1>2. AreBlocks(B, S)
  <2>1. AreBlocks(found, S)
    BY EngineBlocks
  <2> HIDE DEF found
  <2>2. B \in SUBSET found
    BY <1>1, <2>1, ReconcileDrops
  <2> QED BY <2>1, <2>2, FewerBlocks
<1>3. r = [type |-> label.type, confidence |-> label.confidence, blocks |-> Filled(swept, lines, t), lines |-> lines]
  BY DEF ProcessSubSegment, PartResult
<1> HIDE DEF B, S, t
<1>4. /\ IsNumbered(swept) /\ Distinct(swept) /\ Held(swept) = B
  BY <1>1, <1>2, SweptIsAll DEF TakenFrom
<1> HIDE DEF swept, label, r
<1>5. /\ r.type = label.type /\ r.confidence = label.confidence
      /\ r.blocks = [k \in DOMAIN swept |-> Content(swept[k], lines, t)]
      /\ r.lines = lines
  BY <1>3 DEF Filled
<1>6. \A k \in DOMAIN swept : IsBlockIn(swept[k], S) /\ swept[k] \in B
  BY <1>2, <1>4 DEF Held, AreBlocks
<1>7. ASSUME NEW k \in DOMAIN r.blocks
      PROVE  HoldsOf(r.blocks[k], S) /\ r.blocks[k].source = swept[k].source
  <2>1. k \in DOMAIN swept /\ r.blocks[k] = Content(swept[k], lines, t)
    BY <1>5
  <2> QED BY <1>6, <2>1, ContentIs DEF S, t
<1>8. ASSUME NEW k \in DOMAIN r.blocks, NEW l \in DOMAIN r.blocks, r.blocks[k].source = r.blocks[l].source
      PROVE  k = l
  <2>1. swept[k].source = swept[l].source /\ k \in DOMAIN swept /\ l \in DOMAIN swept
    BY <1>5, <1>7, <1>8
  <2>2. swept[k] = swept[l]
    BY <1>2, <1>6, <2>1 DEF AreBlocks, OneOfEach
  <2> QED BY <1>4, <2>1, <2>2 DEF Distinct
<1>9. IsList(r.blocks)
  BY <1>4, <1>5 DEF IsNumbered, IsList
<1>10. /\ label.confidence \in Int
       /\ B = {} => label.type = "prose"
       /\ B # {} => label.type = "mixed" \/ \E b \in B : label.type = SourceLabel[b.source]
  BY <1>1, <1>2, RegionsAreNamed DEF label
<1>11. \A b \in B : SourceLabel[b.source] \in Labels
  BY <1>2, LabelsOfSources DEF AreBlocks, IsBlockIn
<1>12. label.type \in Labels \cup {"mixed", "prose"}
  BY <1>10, <1>11
<1>13. ASSUME r.type \in Labels PROVE \E k \in DOMAIN r.blocks : SourceLabel[r.blocks[k].source] = r.type
  <2>1. PICK b \in B : label.type = SourceLabel[b.source]
    BY <1>5, <1>10, <1>13 DEF Labels
  <2>2. PICK k \in DOMAIN swept : swept[k] = b
    BY <1>4 DEF Held
  <2>3. k \in DOMAIN r.blocks
    BY <1>5
  <2> QED BY <1>5, <1>7, <2>1, <2>2, <2>3
<1>14. r.type = "prose" <=> DOMAIN r.blocks = {}
  <2>1. DOMAIN r.blocks = {} <=> B = {}
    BY <1>4, <1>5 DEF Held
  <2>2. B # {} => label.type # "prose"
    BY <1>10, <1>11 DEF Labels
  <2> QED BY <1>5, <1>10, <2>1, <2>2
<1> QED BY <1>5, <1>7, <1>8, <1>9, <1>10, <1>12, <1>13, <1>14 DEF IsPartOf, S, r

-----------------------------------------------------------------------------
(* The parts a segment is taken apart into *)

IsSegment(s) == IsNumbered(s) /\ DOMAIN s # {} /\ \A i \in DOMAIN s : s[i] \in LineObject

(* The model of a segment is the region of all its lines.                  *)
LEMMA ModelIsRegion ==
  ASSUME NEW s, IsSegment(s)
  PROVE  /\ IsRegion(LineModel(s)) /\ DOMAIN LineModel(s) = 1 .. Len(s) /\ Len(LineModel(s)) = Len(s)
         /\ Len(s) \in Nat /\ Len(s) > 0 /\ DOMAIN s = 1 .. Len(s)
         /\ Places(LineModel(s)) = 1 .. Len(s)
         /\ \A i \in 1 .. Len(s) : LineModel(s)[i].index = i /\ LineModel(s)[i].shape = s[i].shape
<1> DEFINE m == LineModel(s)
           n == Len(s)
<1>1. n \in Nat /\ DOMAIN s = 1 .. n
  BY Numbered DEF IsSegment
<1>2. n > 0
  BY <1>1 DEF IsSegment
<1>3. m = [i \in 1 .. n |-> [index |-> i, shape |-> s[i].shape, indent |-> s[i].indent]]
  BY <1>1 DEF LineModel
<1> HIDE DEF m
<1>4. \A i \in 1 .. n : /\ m[i].index = i /\ m[i].shape = s[i].shape /\ m[i].indent = s[i].indent
                        /\ s[i].shape \in Shapes /\ s[i].indent \in {0, 2, 4}
  BY <1>1, <1>3 DEF IsSegment, LineObject
<1>5. DOMAIN m = 1 .. n
  BY <1>3
<1>6. IsRegion(m)
  <2>1. \A i \in 1 .. n : i \in Nat \ {0}
    BY <1>1
  <2>2. \A i \in 1 .. n : Placed(m[i])
    BY <1>4, <2>1 DEF Placed
  <2>3. \A i, j \in 1 .. n : m[i].index = m[j].index => i = j
    BY <1>4
  <2>4. IsNumbered(m)
    BY <1>1, <1>5 DEF IsNumbered
  <2> HIDE DEF n
  <2> QED BY <1>5, <2>2, <2>3, <2>4 DEF IsRegion
<1>7. Places(m) = 1 .. n
  BY <1>4, <1>5 DEF Places
<1>9. Len(m) = n
  BY <1>1, <1>5
<1> QED BY <1>1, <1>2, <1>4, <1>5, <1>6, <1>7, <1>9 DEF m

(* The lines between two places of a segment that the test holds of.       *)
LEMMA PartOfModel ==
  ASSUME NEW s, IsSegment(s), NEW a \in 1 .. Len(s), NEW e \in 1 .. Len(s), a <= e
  PROVE  LET part == Where(SubSeq(LineModel(s), a, e), LAMBDA l : ~ IsBoundary(l))
         IN  /\ IsRegion(part)
             /\ Places(part) = {i \in a .. e : ~ IsBoundary(LineModel(s)[i])}
<1> DEFINE m == LineModel(s)
           sub == SubSeq(m, a, e)
           n == e - a + 1
           P == {i \in DOMAIN sub : ~ IsBoundary(sub[i])}
<1>1. /\ IsRegion(m) /\ DOMAIN m = 1 .. Len(s) /\ Len(m) = Len(s) /\ Len(s) \in Nat
      /\ \A i \in 1 .. Len(s) : m[i].index = i
  BY ModelIsRegion
<1>2. n \in Nat /\ DOMAIN sub = 1 .. n /\ \A i \in 1 .. n : sub[i] = m[a + i - 1] /\ a + i - 1 \in 1 .. Len(s)
  <2>1. /\ sub \in Seq({m[i] : i \in a .. e}) /\ Len(sub) = n
        /\ \A i \in 1 .. n : sub[i] = m[a + i - 1]
    <3> HIDE DEF m
    <3>1. \A i \in a .. e : m[i] \in {m[j] : j \in a .. e}
      OBVIOUS
    <3>2. a \in Int /\ e \in Int
      BY <1>1
    <3> DEFINE X == {m[i] : i \in a .. e}
    <3> HIDE DEF X
    <3>3. \A i \in a .. e : m[i] \in X
      BY <3>1 DEF X
    <3> QED BY <3>2, <3>3, SubSeqProperties DEF X
  <2> HIDE DEF m, sub
  <2>2. DOMAIN sub = 1 .. n
    BY <2>1
  <2>3. \A i \in 1 .. n : a + i - 1 \in 1 .. Len(s)
    BY <1>1
  <2> QED BY <1>1, <2>1, <2>2, <2>3
<1> HIDE DEF m, sub
<1>3. IsRegion(sub)
  <2>1. \A i \in 1 .. n : sub[i].index = a + i - 1 /\ Placed(sub[i])
    <3>1. \A i \in 1 .. Len(s) : Placed(m[i])
      BY <1>1 DEF IsRegion
    <3> QED BY <1>1, <1>2, <3>1
  <2>2. \A i, j \in 1 .. n : a + i - 1 = a + j - 1 => i = j
    BY <1>1
  <2>3. \A i, j \in 1 .. n : sub[i].index = sub[j].index => i = j
    BY <2>1, <2>2
  <2>4. IsNumbered(sub)
    BY <1>2 DEF IsNumbered
  <2> HIDE DEF n
  <2> QED BY <1>2, <2>1, <2>3, <2>4 DEF IsRegion
<1>4. Where(sub, LAMBDA l : ~ IsBoundary(l)) = At(sub, P) /\ P \in SUBSET DOMAIN sub
  BY DEF Where
<1>5. IsRegion(At(sub, P)) /\ Places(At(sub, P)) = {sub[i].index : i \in P}
  BY <1>3, <1>4, SubRegion
<1>6. {sub[i].index : i \in P} = {i \in a .. e : ~ IsBoundary(m[i])}
  <2>1. \A i \in P : sub[i].index = a + i - 1 /\ a + i - 1 \in a .. e /\ ~ IsBoundary(m[a + i - 1])
    BY <1>1, <1>2
  <2>2. ASSUME NEW j \in a .. e, ~ IsBoundary(m[j]) PROVE j \in {sub[i].index : i \in P}
    <3> DEFINE i == j - a + 1
    <3>1. i \in 1 .. n /\ a + i - 1 = j
      BY <1>1
    <3>2. i \in P /\ sub[i].index = j
      <4> HIDE DEF i
      <4> QED BY <1>1, <1>2, <2>2, <3>1
    <3> HIDE DEF P
    <3> QED BY <3>2
  <2> QED BY <2>1, <2>2
<1> QED BY <1>4, <1>5, <1>6 DEF m, sub

Ends(s)     == {i \in DOMAIN LineModel(s) : Emits(LineModel(s), i)}
Start(s, e) == LET earlier == {d \in Ends(s) : d < e}
               IN  IF earlier = {} THEN 1 ELSE (CHOOSE d \in earlier : \A c \in earlier : c <= d) + 1
Parts(s)    == PartsOr(SubSegment(LineModel(s)), LineModel(s))

(* The parts of a segment follow one another without gap or overlap up to  *)
(* the last boundary.                                                      *)
LEMMA StartIs ==
  ASSUME NEW s, IsSegment(s), NEW e \in Ends(s)
  PROVE  /\ Ends(s) \in SUBSET (1 .. Len(s)) /\ Start(s, e) \in 1 .. e
         /\ \A d \in Ends(s) : d < e => d < Start(s, e)
         /\ \A i \in 1 .. e : \E d \in Ends(s) : i \in Start(s, d) .. d
<1>1. Ends(s) \in SUBSET (1 .. Len(s)) /\ Len(s) \in Nat
  BY ModelIsRegion DEF Ends
<1>2. ASSUME NEW x \in Ends(s)
      PROVE  LET earlier == {d \in Ends(s) : d < x}
             IN  \/ earlier = {} /\ Start(s, x) = 1
                 \/ \E m \in earlier : Start(s, x) = m + 1 /\ \A c \in earlier : c <= m
  <2> DEFINE earlier == {d \in Ends(s) : d < x}
             m == CHOOSE d \in earlier : \A c \in earlier : c <= d
  <2>1. CASE earlier = {}
    BY <2>1 DEF Start
  <2>2. CASE earlier # {}
    <3>1. earlier \in SUBSET (1 .. Len(s)) /\ 1 .. Len(s) \subseteq Nat
      BY <1>1
    <3>2. IsFiniteSet(earlier) /\ earlier \in SUBSET Nat
      <4> HIDE DEF earlier
      <4> QED BY <1>1, <3>1, Taken
    <3>3. Start(s, x) = m + 1
      BY <2>2 DEF Start
    <3> HIDE DEF earlier
    <3>4. m \in earlier /\ \A c \in earlier : c <= m
      BY <2>2, <3>2, GreatestNatural
    <3> HIDE DEF m
    <3> QED BY <3>3, <3>4 DEF earlier
  <2> QED BY <2>1, <2>2
<1>3. ASSUME NEW i \in 1 .. e PROVE \E d \in Ends(s) : i \in Start(s, d) .. d
  <2> DEFINE after == {d \in Ends(s) : i <= d}
  <2>1. after \in SUBSET Nat /\ after # {}
    BY <1>1
  <2>2. PICK d \in after : \A c \in after : d <= c
    <3> HIDE DEF after
    <3> QED BY <2>1, LeastNatural
  <2>3. d \in Ends(s) /\ i <= d /\ i \in Nat /\ i >= 1 /\ d \in Nat
    BY <1>1
  <2>4. CASE Start(s, d) = 1
    BY <2>3, <2>4
  <2>5. ASSUME NEW m \in Ends(s), m < d, Start(s, d) = m + 1 PROVE i \in Start(s, d) .. d
    <3>1. m \in Nat
      BY <1>1
    <3>2. ~ i <= m
      <4> SUFFICES ASSUME i <= m PROVE FALSE
        OBVIOUS
      <4>1. d <= m
        BY <2>2
      <4> QED BY <2>3, <2>5, <3>1, <4>1
    <3> QED BY <2>3, <2>5, <3>1, <3>2
  <2> QED BY <1>2, <2>3, <2>4, <2>5
<1>4. Start(s, e) \in 1 .. e /\ \A d \in Ends(s) : d < e => d < Start(s, e)
  <2>1. \A d \in Ends(s) : d \in Nat /\ d >= 1
    BY <1>1
  <2>2. CASE {d \in Ends(s) : d < e} = {} /\ Start(s, e) = 1
    BY <2>1, <2>2
  <2>3. ASSUME NEW m \in Ends(s), m < e, Start(s, e) = m + 1, \A c \in Ends(s) : c < e => c <= m
        PROVE  Start(s, e) \in 1 .. e /\ \A d \in Ends(s) : d < e => d < Start(s, e)
    BY <2>1, <2>3
  <2> QED BY <1>2, <2>2, <2>3
<1> QED BY <1>1, <1>3, <1>4

Open(s, i) == ~ IsBoundary(LineModel(s)[i])

(* The parts hold, in order and once, the lines up to the last emitted one *)
(* that are no boundaries; if none is emitted, all lines.                  *)
LEMMA PartsAre ==
  ASSUME NEW s, IsSegment(s)
  PROVE  /\ IsNumbered(Parts(s)) /\ DOMAIN Parts(s) # {}
         /\ \A k \in DOMAIN Parts(s) :
              /\ IsRegion(Parts(s)[k]) /\ Parts(s)[k] # <<>> /\ IsList(Parts(s)[k])
              /\ Places(Parts(s)[k]) \in SUBSET (1 .. Len(s))
         /\ \A k, l \in DOMAIN Parts(s) :
              k < l => \A i \in Places(Parts(s)[k]), j \in Places(Parts(s)[l]) : i < j
         /\ Ends(s) = {} => \A i \in 1 .. Len(s) : \E k \in DOMAIN Parts(s) : i \in Places(Parts(s)[k])
         /\ \A e \in Ends(s) : \A i \in 1 .. e :
              Open(s, i) => \E k \in DOMAIN Parts(s) : i \in Places(Parts(s)[k])
<1> DEFINE m == LineModel(s)
           ends == Ends(s)
           part(e) == Where(SubSeq(m, Start(s, e), e), LAMBDA l : ~ IsBoundary(l))
           parts == Parts(s)
           N == Cardinality(ends)
<1>1. /\ Len(s) \in Nat /\ Len(s) > 0 /\ IsRegion(m) /\ DOMAIN m = 1 .. Len(s)
      /\ Places(m) = 1 .. Len(s)
  BY ModelIsRegion
<1>2. ends \in SUBSET (1 .. Len(s))
  BY <1>1 DEF Ends
<1>3. /\ N \in Nat
      /\ \A k \in 1 .. N : Nth(ends, k) \in ends
      /\ \A k, l \in 1 .. N : k < l => Nth(ends, k) < Nth(ends, l)
      /\ \A i \in ends : \E k \in 1 .. N : Nth(ends, k) = i
  BY <1>1, <1>2, Taken
<1>4. /\ DOMAIN SubSegment(m) = 1 .. N
      /\ \A k \in 1 .. N : SubSegment(m)[k] = part(Nth(ends, k))
  <2> DEFINE g == [e \in ends |-> part(e)]
  <2>1. SubSegment(m) = At(g, ends)
    BY DEF SubSegment, Start, Ends
  <2>2. /\ DOMAIN At(g, ends) = 1 .. N
        /\ \A k \in 1 .. N : At(g, ends)[k] = g[Nth(ends, k)]
    BY DEF At
  <2>3. \A k \in 1 .. N : g[Nth(ends, k)] = part(Nth(ends, k))
    BY <1>3
  <2> HIDE DEF g, part, ends, m
  <2> QED BY <2>1, <2>2, <2>3
<1>5. ASSUME NEW e \in ends
      PROVE  /\ IsRegion(part(e)) /\ Start(s, e) \in 1 .. e /\ e \in 1 .. Len(s)
             /\ Places(part(e)) = {i \in Start(s, e) .. e : Open(s, i)}
             /\ e \in Places(part(e)) /\ part(e) # <<>> /\ IsList(part(e))
  <2>1. Start(s, e) \in 1 .. e /\ e \in 1 .. Len(s)
    BY <1>2, StartIs
  <2>2. Start(s, e) \in 1 .. Len(s) /\ Start(s, e) <= e
    BY <1>1, <2>1
  <2>3. IsRegion(part(e)) /\ Places(part(e)) = {i \in Start(s, e) .. e : Open(s, i)}
    BY <2>1, <2>2, PartOfModel DEF Open
  <2>4. Open(s, e)
    BY DEF Ends, Emits, Open
  <2>5. e \in Start(s, e) .. e
    BY <1>1, <2>1
  <2>6. e \in Places(part(e))
    BY <2>3, <2>4, <2>5
  <2>7. part(e) # <<>>
    <3> HIDE DEF part
    <3>1. DOMAIN part(e) # {}
      BY <2>6 DEF Places
    <3> QED BY <2>3, <3>1, NotNothing
  <2>8. IsList(part(e))
    <3> DEFINE sub == SubSeq(m, Start(s, e), e)
               P == {i \in DOMAIN sub : ~ IsBoundary(sub[i])}
    <3>1. part(e) = At(sub, P)
      BY DEF Where
    <3> HIDE DEF part, sub, P
    <3> QED BY <2>3, <3>1 DEF At, IsList, IsRegion
  <2> QED BY <2>1, <2>3, <2>6, <2>7, <2>8
<1>6. CASE ends = {}
  <2>1. N = 0
    BY <1>6, FS_EmptySet
  <2>2. SubSegment(m) = <<>>
    <3> DEFINE g == [e \in ends |-> part(e)]
    <3>1. SubSegment(m) = At(g, ends)
      BY DEF SubSegment, Start, Ends
    <3> HIDE DEF g
    <3> QED BY <2>1, <3>1 DEF At
  <2>3. parts = <<m>>
    BY <2>2 DEF Parts, PartsOr
  <2> HIDE DEF m, parts, part
  <2>4. m # <<>> /\ IsList(m)
    <3>1. m # <<>>
      BY <1>1, NotNothing
    <3>2. m = [i \in DOMAIN m |-> m[i]]
      BY DEF m, LineModel
    <3> QED BY <1>1, <3>1, <3>2 DEF IsList, IsRegion
  <2>5. IsNumbered(parts) /\ DOMAIN parts = {1} /\ parts[1] = m
    BY <2>3 DEF IsNumbered
  <2> QED BY <1>1, <1>6, <2>4, <2>5 DEF parts
<1>7. CASE ends # {}
  <2>1. N # 0
    BY <1>3, <1>7
  <2>2. SubSegment(m) # <<>>
    <3>1. 1 \in DOMAIN SubSegment(m)
      BY <1>3, <1>4, <2>1
    <3> HIDE DEF m
    <3> QED BY <3>1
  <2>3. parts = SubSegment(m)
    BY <2>2 DEF Parts, PartsOr
  <2>4. DOMAIN parts = 1 .. N /\ \A k \in 1 .. N : parts[k] = part(Nth(ends, k))
    BY <1>4, <2>3
  <2>5. IsNumbered(parts) /\ 1 \in DOMAIN parts
    BY <1>3, <2>1, <2>4 DEF IsNumbered
  <2> HIDE DEF m, parts, part, ends
  <2>6. ASSUME NEW k \in 1 .. N
        PROVE  /\ IsRegion(parts[k]) /\ parts[k] # <<>> /\ IsList(parts[k])
               /\ Places(parts[k]) \in SUBSET (1 .. Len(s))
               /\ Places(parts[k]) = {i \in Start(s, Nth(ends, k)) .. Nth(ends, k) : Open(s, i)}
    <3>1. Nth(ends, k) \in ends /\ parts[k] = part(Nth(ends, k))
      BY <1>3, <2>4
    <3>2. /\ IsRegion(parts[k]) /\ parts[k] # <<>> /\ IsList(parts[k])
          /\ Places(parts[k]) = {i \in Start(s, Nth(ends, k)) .. Nth(ends, k) : Open(s, i)}
          /\ Start(s, Nth(ends, k)) \in 1 .. Nth(ends, k) /\ Nth(ends, k) \in 1 .. Len(s)
      BY <1>5, <3>1
    <3>3. Places(parts[k]) \in SUBSET (1 .. Len(s))
      BY <1>1, <3>2
    <3> QED BY <3>2, <3>3
  <2>7. ASSUME NEW k \in 1 .. N, NEW l \in 1 .. N, k < l,
               NEW i \in Places(parts[k]), NEW j \in Places(parts[l])
        PROVE  i < j
    <3>1. Nth(ends, k) \in ends /\ Nth(ends, l) \in ends /\ Nth(ends, k) < Nth(ends, l)
      BY <1>3, <2>7
    <3>2. Nth(ends, k) < Start(s, Nth(ends, l))
      BY <3>1, StartIs DEF ends
    <3>3. Start(s, Nth(ends, k)) \in Nat /\ Start(s, Nth(ends, l)) \in Nat
          /\ Nth(ends, k) \in Nat /\ Nth(ends, l) \in Nat
      <4>1. \A e \in ends : e \in Nat /\ Start(s, e) \in Nat
        <5> SUFFICES ASSUME NEW e \in ends PROVE e \in Nat /\ Start(s, e) \in Nat
          OBVIOUS
        <5>1. Start(s, e) \in 1 .. e /\ e \in 1 .. Len(s)
          BY <1>5
        <5> QED BY <5>1
      <4> QED BY <3>1, <4>1
    <3>4. i \in Start(s, Nth(ends, k)) .. Nth(ends, k) /\ j \in Start(s, Nth(ends, l)) .. Nth(ends, l)
      BY <2>6
    <3> QED BY <3>2, <3>3, <3>4
  <2>8. ASSUME NEW e \in ends, NEW i \in 1 .. e, Open(s, i)
        PROVE  \E k \in 1 .. N : i \in Places(parts[k])
    <3>1. PICK d \in ends : i \in Start(s, d) .. d
      BY StartIs DEF ends
    <3>2. PICK k \in 1 .. N : Nth(ends, k) = d
      BY <1>3
    <3> QED BY <2>6, <2>8, <3>1, <3>2
  <2> QED BY <1>7, <2>4, <2>5, <2>6, <2>7, <2>8 DEF parts, ends
<1> QED BY <1>6, <1>7

-----------------------------------------------------------------------------
(* Sequences joined *)

Concat(f, p, n) == f[0] = <<>> /\ \A k \in 1 .. n : f[k] = f[k - 1] \o p[k]

(* The partial concatenations of n sequences exist.                        *)
LEMMA ConcatExists ==
  ASSUME NEW n \in Nat, NEW X, NEW p, \A k \in 1 .. n : p[k] \in Seq(X)
  PROVE  \E f : f = [k \in 0 .. n |-> IF k = 0 THEN <<>> ELSE f[k - 1] \o p[k]]
<1> DEFINE V == Seq(X)
           step == [k \in 1 .. n |-> [v \in V |-> v \o p[k]]]
<1>1. \A k \in 1 .. n, v \in V : v \o p[k] \in V
  BY ConcatProperties
<1>2. step \in [1 .. n -> [V -> V]] /\ <<>> \in V
  BY <1>1, EmptySeq
<1>3. PICK f : Recursion(f, <<>>, step, n) /\ \A k \in 0 .. n : f[k] \in V
  <2> HIDE DEF step, V
  <2> QED BY <1>2, RecursionExists
<1>4. ASSUME NEW k \in 0 .. n, k # 0 PROVE step[k][f[k - 1]] = f[k - 1] \o p[k]
  <2>1. f[k - 1] \in V /\ k \in 1 .. n
    BY <1>3, <1>4
  <2> HIDE DEF V
  <2> QED BY <2>1
<1>5. f = [k \in 0 .. n |-> IF k = 0 THEN <<>> ELSE f[k - 1] \o p[k]]
  <2> HIDE DEF step, V
  <2> QED BY <1>3, <1>4 DEF Recursion
<1> QED BY <1>5

(* What a sequence followed by another is.                                 *)
LEMMA Appended ==
  ASSUME NEW X, NEW s \in Seq(X), NEW t \in Seq(X)
  PROVE  /\ s \o t \in Seq(X) /\ Len(s) \in Nat /\ Len(t) \in Nat
         /\ Len(s \o t) = Len(s) + Len(t)
         /\ \A i \in 1 .. Len(s) : (s \o t)[i] = s[i]
         /\ \A j \in 1 .. Len(t) : (s \o t)[Len(s) + j] = t[j]
<1> DEFINE a == Len(s)
           b == Len(t)
           u == s \o t
<1>1. a \in Nat /\ b \in Nat
  BY LenProperties
<1>2. /\ u \in Seq(X) /\ Len(u) = a + b
      /\ \A i \in 1 .. a + b : u[i] = IF i <= a THEN s[i] ELSE t[i - a]
  BY ConcatProperties
<1> HIDE DEF a, b, u
<1>3. \A i \in 1 .. a : u[i] = s[i]
  BY <1>1, <1>2
<1>4. ASSUME NEW j \in 1 .. b PROVE u[a + j] = t[j]
  <2>1. a + j \in 1 .. a + b /\ ~ a + j <= a /\ (a + j) - a = j
    BY <1>1
  <2> QED BY <1>2, <2>1
<1> QED BY <1>1, <1>2, <1>3, <1>4 DEF a, b, u

(* Each of what is joined is found there, and nothing else is.             *)
Landed(f, p, n) ==
  \A k \in 1 .. n : \A j \in DOMAIN p[k] :
    Len(f[k - 1]) + j \in DOMAIN f[n] /\ f[n][Len(f[k - 1]) + j] = p[k][j]

Drawn(f, p, n) ==
  \A i \in DOMAIN f[n] : \E k \in 1 .. n : \E j \in DOMAIN p[k] :
    i = Len(f[k - 1]) + j /\ f[n][i] = p[k][j]

(* Each element of the concatenation is one of exactly one of the          *)
(* sequences.                                                              *)
LEMMA ConcatIs ==
  ASSUME NEW n \in Nat, NEW X, NEW p, \A k \in 1 .. n : p[k] \in Seq(X), NEW f, Concat(f, p, n)
  PROVE  /\ \A k \in 0 .. n : f[k] \in Seq(X) /\ Len(f[k]) \in Nat
         /\ \A k \in 1 .. n : Len(p[k]) \in Nat /\ Len(f[k]) = Len(f[k - 1]) + Len(p[k])
         /\ \A k, l \in 0 .. n : k <= l => Len(f[k]) <= Len(f[l])
         /\ Landed(f, p, n) /\ Drawn(f, p, n)
         /\ f[n] \in Seq(X) /\ Len(f[n]) \in Nat /\ DOMAIN f[n] = 1 .. Len(f[n])
<1> DEFINE OK(m) == /\ f[m] \in Seq(X)
                    /\ \A k \in 0 .. m : /\ Len(f[k]) \in Nat /\ Len(f[k]) <= Len(f[m])
                                         /\ \A i \in 1 .. Len(f[k]) : f[m][i] = f[k][i]
           Good == {m \in 0 .. n : OK(m)}
<1>1. 0 \in Good
  <2>1. OK(0)
    BY EmptySeq DEF Concat
  <2> QED BY <2>1
<1>2. ASSUME NEW m \in 0 .. n - 1, OK(m)
      PROVE  /\ OK(m + 1) /\ Len(p[m + 1]) \in Nat /\ Len(f[m + 1]) = Len(f[m]) + Len(p[m + 1])
             /\ \A j \in 1 .. Len(p[m + 1]) : f[m + 1][Len(f[m]) + j] = p[m + 1][j]
  <2>1. m + 1 \in 1 .. n /\ (m + 1) - 1 = m
    OBVIOUS
  <2>2. f[m + 1] = f[m] \o p[m + 1] /\ p[m + 1] \in Seq(X) /\ f[m] \in Seq(X)
    BY <1>2, <2>1 DEF Concat
  <2>3. /\ f[m + 1] \in Seq(X) /\ Len(f[m + 1]) = Len(f[m]) + Len(p[m + 1])
        /\ Len(f[m]) \in Nat /\ Len(p[m + 1]) \in Nat
        /\ \A i \in 1 .. Len(f[m]) : f[m + 1][i] = f[m][i]
        /\ \A j \in 1 .. Len(p[m + 1]) : f[m + 1][Len(f[m]) + j] = p[m + 1][j]
    <3> DEFINE u == f[m]
               v == p[m + 1]
               x == f[m + 1]
    <3>1. x = u \o v /\ v \in Seq(X) /\ u \in Seq(X)
      BY <2>2
    <3> HIDE DEF u, v, x
    <3>2. /\ x \in Seq(X) /\ Len(x) = Len(u) + Len(v)
          /\ Len(u) \in Nat /\ Len(v) \in Nat
          /\ \A i \in 1 .. Len(u) : x[i] = u[i]
          /\ \A j \in 1 .. Len(v) : x[Len(u) + j] = v[j]
      BY <3>1, Appended
    <3> QED BY <3>2 DEF u, v, x
  <2>4. Len(f[m + 1]) \in Nat /\ Len(f[m]) <= Len(f[m + 1])
    <3> DEFINE a == Len(f[m])
               b == Len(p[m + 1])
               c == Len(f[m + 1])
    <3>1. c = a + b /\ a \in Nat /\ b \in Nat
      BY <2>3
    <3> HIDE DEF a, b, c
    <3>2. c \in Nat /\ a <= c
      BY <3>1
    <3> QED BY <3>2 DEF a, b, c
  <2>7. OK(m + 1)
    <3> SUFFICES ASSUME NEW k \in 0 .. m + 1
                 PROVE  /\ Len(f[k]) \in Nat /\ Len(f[k]) <= Len(f[m + 1])
                        /\ \A i \in 1 .. Len(f[k]) : f[m + 1][i] = f[k][i]
      BY <2>3
    <3>1. CASE k = m + 1
      <4>1. Len(f[m + 1]) \in Nat /\ Len(f[m + 1]) <= Len(f[m + 1])
        BY <2>4
      <4> QED BY <3>1, <4>1
    <3>2. CASE k # m + 1
      <4>1. k \in 0 .. m
        BY <3>2
      <4>2. Len(f[k]) \in Nat /\ Len(f[k]) <= Len(f[m]) /\ \A i \in 1 .. Len(f[k]) : f[m][i] = f[k][i]
        BY <1>2, <4>1
      <4> DEFINE a == Len(f[k])
                 b == Len(f[m])
                 c == Len(f[m + 1])
      <4>3. a \in Nat /\ b \in Nat /\ c \in Nat /\ a <= b /\ b <= c
        BY <2>3, <2>4, <4>2
      <4> HIDE DEF a, b, c
      <4>4. a <= c /\ \A i \in 1 .. a : i \in 1 .. b
        BY <4>3
      <4> QED BY <2>3, <4>2, <4>3, <4>4 DEF a, b, c
    <3> QED BY <3>1, <3>2
  <2> QED BY <2>3, <2>7
<1>3. ASSUME NEW m \in 0 .. n PROVE OK(m)
  <2>1. ASSUME NEW k \in 0 .. n - 1, k \in Good PROVE k + 1 \in Good
    <3>1. OK(k)
      BY <2>1
    <3>2. OK(k + 1)
      BY <1>2, <3>1
    <3> HIDE DEF OK
    <3> QED BY <3>2
  <2> HIDE DEF Good
  <2>2. 0 .. n \subseteq Good
    BY <1>1, <2>1, UpTo
  <2>3. m \in Good
    BY <2>2
  <2> QED BY <2>3 DEF Good
<1>4. ASSUME NEW k \in 1 .. n
      PROVE  /\ Len(p[k]) \in Nat /\ Len(f[k]) = Len(f[k - 1]) + Len(p[k])
             /\ Len(f[k]) \in Nat /\ Len(f[k - 1]) \in Nat /\ Len(f[n]) \in Nat
             /\ \A j \in 1 .. Len(p[k]) : f[k][Len(f[k - 1]) + j] = p[k][j]
             /\ Len(f[k]) <= Len(f[n])
             /\ \A i \in 1 .. Len(f[k]) : f[n][i] = f[k][i]
  <2>1. k - 1 \in 0 .. n - 1 /\ (k - 1) + 1 = k /\ k \in 0 .. n /\ n \in 0 .. n /\ k - 1 \in 0 .. n
    OBVIOUS
  <2>2. OK(k - 1)
    BY <1>3, <2>1
  <2>3. OK(n) /\ OK(k)
    BY <1>3, <2>1
  <2>4. /\ Len(p[k]) \in Nat /\ Len(f[k]) = Len(f[k - 1]) + Len(p[k])
        /\ \A j \in 1 .. Len(p[k]) : f[k][Len(f[k - 1]) + j] = p[k][j]
    <3> HIDE DEF OK
    <3>1. /\ Len(p[(k - 1) + 1]) \in Nat /\ Len(f[(k - 1) + 1]) = Len(f[k - 1]) + Len(p[(k - 1) + 1])
          /\ \A j \in 1 .. Len(p[(k - 1) + 1]) : f[(k - 1) + 1][Len(f[k - 1]) + j] = p[(k - 1) + 1][j]
      BY <1>2, <2>1, <2>2
    <3> QED BY <2>1, <3>1
  <2>5. Len(f[k - 1]) \in Nat
    <3>1. k - 1 \in 0 .. k - 1
      OBVIOUS
    <3> QED BY <2>2, <3>1
  <2>6. Len(f[n]) \in Nat /\ Len(f[k]) \in Nat /\ Len(f[k]) <= Len(f[n]) /\ \A i \in 1 .. Len(f[k]) : f[n][i] = f[k][i]
    BY <2>1, <2>3
  <2> QED BY <2>4, <2>5, <2>6
<1>5. \A k \in 0 .. n : f[k] \in Seq(X) /\ Len(f[k]) \in Nat
  BY <1>3
<1>6. \A k, l \in 0 .. n : k <= l => Len(f[k]) <= Len(f[l])
  <2> SUFFICES ASSUME NEW k \in 0 .. n, NEW l \in 0 .. n, k <= l PROVE Len(f[k]) <= Len(f[l])
    OBVIOUS
  <2>1. k \in 0 .. l /\ OK(l)
    BY <1>3
  <2> QED BY <2>1
<1> HIDE DEF OK, Good
<1>7. ASSUME NEW k \in 1 .. n, NEW j \in 1 .. Len(p[k])
      PROVE  Len(f[k - 1]) + j \in 1 .. Len(f[n]) /\ f[n][Len(f[k - 1]) + j] = p[k][j]
  <2>1. Len(f[k - 1]) + j \in 1 .. Len(f[k]) /\ Len(f[k - 1]) + j \in 1 .. Len(f[n])
    <3> DEFINE a == Len(f[k - 1])
               b == Len(p[k])
               c == Len(f[k])
               d == Len(f[n])
    <3>1. c = a + b /\ a \in Nat /\ b \in Nat /\ c <= d /\ d \in Nat /\ j \in 1 .. b
      BY <1>4
    <3> HIDE DEF a, b, c, d
    <3>2. a + j \in 1 .. c /\ a + j \in 1 .. d
      BY <3>1
    <3> QED BY <3>2 DEF a, b, c, d
  <2> QED BY <1>4, <2>1
<1>8. ASSUME NEW i \in 1 .. Len(f[n])
      PROVE  \E k \in 1 .. n : \E j \in 1 .. Len(p[k]) : i = Len(f[k - 1]) + j /\ f[n][i] = p[k][j]
  <2> DEFINE reached == {k \in 0 .. n : i <= Len(f[k])}
  <2>1. n \in reached /\ reached \in SUBSET Nat
    BY <1>5
  <2>2. PICK k \in reached : \A l \in reached : k <= l
    <3> HIDE DEF reached
    <3> QED BY <2>1, LeastNatural
  <2>3. Len(f[0]) = 0
    BY EmptySeq DEF Concat
  <2>4. k \in 1 .. n /\ i <= Len(f[k])
    BY <2>2, <2>3
  <2>5. ~ i <= Len(f[k - 1])
    <3> SUFFICES ASSUME i <= Len(f[k - 1]) PROVE FALSE
      OBVIOUS
    <3>1. k - 1 \in reached
      BY <2>4
    <3>2. k <= k - 1
      BY <2>2, <3>1
    <3> QED BY <2>4, <3>2
  <2> DEFINE j == i - Len(f[k - 1])
  <2>6. j \in 1 .. Len(p[k]) /\ i = Len(f[k - 1]) + j
    <3> DEFINE a == Len(f[k - 1])
               b == Len(p[k])
               c == Len(f[k])
    <3>0. c = a + b /\ a \in Nat /\ b \in Nat
      BY <1>4, <2>4
    <3>4. j = i - a
      OBVIOUS
    <3>5. i <= c /\ ~ i <= a /\ i \in Int
      BY <2>4, <2>5, <1>5
    <3>1. c = a + b /\ a \in Nat /\ b \in Nat /\ i <= c /\ ~ i <= a /\ i \in Int /\ j = i - a
      BY <3>0, <3>4, <3>5
    <3> HIDE DEF a, b, c, j
    <3>2. j \in 1 .. b /\ i = a + j
      BY <3>1
    <3> QED BY <3>2 DEF a, b, c
  <2> HIDE DEF j
  <2>7. f[n][i] = p[k][j]
    BY <1>7, <2>4, <2>6
  <2> QED BY <2>4, <2>6, <2>7
<1>9. f[n] \in Seq(X) /\ DOMAIN f[n] = 1 .. Len(f[n]) /\ Len(f[n]) \in Nat
  <2>1. n \in 0 .. n
    OBVIOUS
  <2>2. f[n] \in Seq(X)
    BY <1>5, <2>1
  <2> QED BY <2>2, LenProperties
<1>10. \A k \in 1 .. n : DOMAIN p[k] = 1 .. Len(p[k])
  BY LenProperties
<1>11. Landed(f, p, n)
  <2> SUFFICES ASSUME NEW k \in 1 .. n, NEW j \in DOMAIN p[k]
               PROVE  Len(f[k - 1]) + j \in DOMAIN f[n] /\ f[n][Len(f[k - 1]) + j] = p[k][j]
    BY DEF Landed
  <2> QED BY <1>7, <1>9, <1>10
<1>12. Drawn(f, p, n)
  <2> SUFFICES ASSUME NEW i \in DOMAIN f[n]
               PROVE  \E k \in 1 .. n : \E j \in DOMAIN p[k] : i = Len(f[k - 1]) + j /\ f[n][i] = p[k][j]
    BY DEF Drawn
  <2>1. PICK k \in 1 .. n : \E j \in 1 .. Len(p[k]) : i = Len(f[k - 1]) + j /\ f[n][i] = p[k][j]
    BY <1>8, <1>9
  <2> QED BY <1>10, <2>1
<1> QED BY <1>4, <1>5, <1>6, <1>9, <1>11, <1>12

-----------------------------------------------------------------------------
(* The parts put together *)

(* A list of values is a sequence of them.                                 *)
LEMMA ListIsSeq ==
  ASSUME NEW s, IsList(s), NEW X, \A i \in DOMAIN s : s[i] \in X
  PROVE  s \in Seq(X)
<1>1. PICK n \in Nat : DOMAIN s = 1 .. n
  BY DEF IsList, IsNumbered
<1>2. s \in [1 .. n -> X]
  BY <1>1 DEF IsList
<1> QED BY <1>2, SeqDef

(* Joining the blocks of results is a concatenation.                       *)
LEMMA JoinedBlocks ==
  ASSUME NEW n \in Nat, NEW results, DOMAIN results = 1 .. n, NEW X,
         \A k \in 1 .. n : results[k].blocks \in Seq(X)
  PROVE  \E f : /\ Concat(f, [k \in 1 .. n |-> results[k].blocks], n)
                /\ Joined(results, LAMBDA r : r.blocks) = f[n]
<1> DEFINE p == [k \in 1 .. n |-> results[k].blocks]
           Solution(f) == f = [k \in 0 .. n |-> IF k = 0 THEN <<>> ELSE f[k - 1] \o results[k].blocks]
           join == CHOOSE f : Solution(f)
<1>1. \E f : f = [k \in 0 .. n |-> IF k = 0 THEN <<>> ELSE f[k - 1] \o p[k]]
  <2>1. \A k \in 1 .. n : p[k] \in Seq(X)
    OBVIOUS
  <2> HIDE DEF p
  <2> QED BY <2>1, ConcatExists
<1>2. Solution(join)
  <2>1. \E f : Solution(f)
    <3>1. PICK f : f = [k \in 0 .. n |-> IF k = 0 THEN <<>> ELSE f[k - 1] \o p[k]]
      BY <1>1
    <3>2. \A k \in 0 .. n : k # 0 => p[k] = results[k].blocks
      OBVIOUS
    <3> HIDE DEF p
    <3> QED BY <3>1, <3>2
  <2> HIDE DEF Solution
  <2> QED BY <2>1
<1>3. Len(results) = n
  OBVIOUS
<1>4. Joined(results, LAMBDA r : r.blocks) = join[n]
  BY <1>3 DEF Joined
<1>5. Concat(join, p, n)
  <2> HIDE DEF join
  <2>1. join = [k \in 0 .. n |-> IF k = 0 THEN <<>> ELSE join[k - 1] \o results[k].blocks]
    BY <1>2
  <2>2. join[0] = <<>>
    BY <2>1
  <2>3. ASSUME NEW k \in 1 .. n PROVE join[k] = join[k - 1] \o p[k]
    <3>1. k \in 0 .. n /\ k # 0 /\ p[k] = results[k].blocks
      OBVIOUS
    <3>2. join[k] = join[k - 1] \o results[k].blocks
      BY <2>1, <3>1
    <3> QED BY <3>1, <3>2
  <2> HIDE DEF p
  <2> QED BY <2>2, <2>3 DEF Concat
<1> HIDE DEF join
<1> QED BY <1>4, <1>5

(* Joining the lines of results is a concatenation.                        *)
LEMMA JoinedLines ==
  ASSUME NEW n \in Nat, NEW results, DOMAIN results = 1 .. n, NEW X,
         \A k \in 1 .. n : results[k].lines \in Seq(X)
  PROVE  \E f : /\ Concat(f, [k \in 1 .. n |-> results[k].lines], n)
                /\ Joined(results, LAMBDA r : r.lines) = f[n]
<1> DEFINE p == [k \in 1 .. n |-> results[k].lines]
           Solution(f) == f = [k \in 0 .. n |-> IF k = 0 THEN <<>> ELSE f[k - 1] \o results[k].lines]
           join == CHOOSE f : Solution(f)
<1>1. \E f : f = [k \in 0 .. n |-> IF k = 0 THEN <<>> ELSE f[k - 1] \o p[k]]
  <2>1. \A k \in 1 .. n : p[k] \in Seq(X)
    OBVIOUS
  <2> HIDE DEF p
  <2> QED BY <2>1, ConcatExists
<1>2. Solution(join)
  <2>1. \E f : Solution(f)
    <3>1. PICK f : f = [k \in 0 .. n |-> IF k = 0 THEN <<>> ELSE f[k - 1] \o p[k]]
      BY <1>1
    <3>2. \A k \in 0 .. n : k # 0 => p[k] = results[k].lines
      OBVIOUS
    <3> HIDE DEF p
    <3> QED BY <3>1, <3>2
  <2> HIDE DEF Solution
  <2> QED BY <2>1
<1>3. Len(results) = n
  OBVIOUS
<1>4. Joined(results, LAMBDA r : r.lines) = join[n]
  BY <1>3 DEF Joined
<1>5. Concat(join, p, n)
  <2> HIDE DEF join
  <2>1. join = [k \in 0 .. n |-> IF k = 0 THEN <<>> ELSE join[k - 1] \o results[k].lines]
    BY <1>2
  <2>2. join[0] = <<>>
    BY <2>1
  <2>3. ASSUME NEW k \in 1 .. n PROVE join[k] = join[k - 1] \o p[k]
    <3>1. k \in 0 .. n /\ k # 0 /\ p[k] = results[k].lines
      OBVIOUS
    <3>2. join[k] = join[k - 1] \o results[k].lines
      BY <2>1, <3>1
    <3> QED BY <3>1, <3>2
  <2> HIDE DEF p
  <2> QED BY <2>2, <2>3 DEF Concat
<1> HIDE DEF join
<1> QED BY <1>4, <1>5

(* Some part is named with most confidence, and of those that are is the   *)
(* first.                                                                  *)
LEMMA BestExists ==
  ASSUME NEW n \in Nat, n > 0, NEW results, DOMAIN results = 1 .. n,
         \A k \in 1 .. n : results[k].confidence \in Int
  PROVE  \E k \in DOMAIN results : \A j \in DOMAIN results :
           \/ results[j].confidence < results[k].confidence
           \/ results[j].confidence = results[k].confidence /\ k <= j
<1> DEFINE conf == [k \in 1 .. n |-> results[k].confidence]
           S == 1 .. n
           R == {p \in S \X S : \/ conf[p[1]] > conf[p[2]]
                                \/ conf[p[1]] = conf[p[2]] /\ p[1] < p[2]}
<1>1. \A k \in S : conf[k] \in Int /\ conf[k] = results[k].confidence
  OBVIOUS
<1> HIDE DEF conf
<1>2. \A j, k \in S : <<j, k>> \in R <=> conf[j] > conf[k] \/ (conf[j] = conf[k] /\ j < k)
  OBVIOUS
<1>3. IsFiniteSet(S) /\ S # {} /\ S \subseteq Int
  <2>1. 1 \in S /\ S \subseteq Int /\ 1 \in Int /\ n \in Int
    OBVIOUS
  <2>2. IsFiniteSet(S)
    BY <2>1, FS_Interval
  <2> QED BY <2>1, <2>2
<1> HIDE DEF R, S
<1>4. IsOrder(R, S)
  BY <1>1, <1>2, <1>3 DEF IsOrder
<1>5. PICK k \in S : \A j \in S : <<j, k>> \notin R
  BY <1>3, <1>4, FirstExists
<1>6. \A j \in S : conf[j] < conf[k] \/ (conf[j] = conf[k] /\ k <= j)
  <2> SUFFICES ASSUME NEW j \in S PROVE conf[j] < conf[k] \/ (conf[j] = conf[k] /\ k <= j)
    OBVIOUS
  <2>1. ~ (conf[j] > conf[k] \/ (conf[j] = conf[k] /\ j < k))
    BY <1>2, <1>5
  <2>2. conf[j] \in Int /\ conf[k] \in Int /\ j \in Int /\ k \in Int
    BY <1>1, <1>3
  <2> QED BY <2>1, <2>2
<1> QED BY <1>1, <1>6 DEF S

(* What the engine makes of a segment of n lines: blocks of one source     *)
(* share no line.                                                          *)
IsWholeOf(r, n) ==
  /\ r.type \in Labels \cup {"mixed", "prose"}
  /\ IsNumbered(r.blocks)
  /\ \A k \in DOMAIN r.blocks : HoldsOf(r.blocks[k], 1 .. n)
  /\ \A k, l \in DOMAIN r.blocks :
       k # l /\ r.blocks[k].source = r.blocks[l].source =>
         PlacesIn(r.blocks[k]) \cap PlacesIn(r.blocks[l]) = {}
  /\ IsRegion(r.lines) /\ Places(r.lines) \subseteq 1 .. n

(* What a block holds is in the set it holds of.                           *)
LEMMA PlacesOfHeld ==
  ASSUME NEW S, NEW b, HoldsOf(b, S)
  PROVE  PlacesIn(b) \subseteq S
BY DEF HoldsOf, PlacesIn, TakenFrom, Held

(* A block that holds lines of a set holds lines of any wider one.         *)
LEMMA WiderHold ==
  ASSUME NEW S, NEW T, S \subseteq T, NEW b, HoldsOf(b, S)
  PROVE  HoldsOf(b, T)
BY DEF HoldsOf, TakenFrom

(* The engine gives one result for each part of a segment.                 *)
LEMMA ResultsAre ==
  ASSUME NEW s, IsSegment(s)
  PROVE  LET results == RunStructureEngine(s)
         IN  /\ DOMAIN results = DOMAIN Parts(s)
             /\ \A k \in DOMAIN Parts(s) :
                  /\ IsPartOf(results[k], Places(Parts(s)[k]))
                  /\ results[k].lines = Parts(s)[k]
<1>1. RunStructureEngine(s) = [k \in DOMAIN Parts(s) |-> ProcessSubSegment(Parts(s)[k], Len(s))]
  BY DEF RunStructureEngine, RunParts, Parts
<1>2. Len(s) \in Nat /\ Len(s) > 0
  BY ModelIsRegion
<1>3. ASSUME NEW k \in DOMAIN Parts(s)
      PROVE  /\ IsPartOf(ProcessSubSegment(Parts(s)[k], Len(s)), Places(Parts(s)[k]))
             /\ ProcessSubSegment(Parts(s)[k], Len(s)).lines = Parts(s)[k]
  <2>1. IsRegion(Parts(s)[k]) /\ Parts(s)[k] # <<>>
    BY PartsAre
  <2> QED BY <1>2, <2>1, PartIs
<1> QED BY <1>1, <1>3

(* The results merged are blocks within the segment, those of one detector *)
(* without a line in common.                                               *)
LEMMA MergedIs ==
  ASSUME NEW s, IsSegment(s)
  PROVE  IsWholeOf(Structure(s), Len(s))
<1> DEFINE results == RunStructureEngine(s)
           N == Len(Parts(s))
           S(k) == Places(Parts(s)[k])
           r == Structure(s)
           p == [k \in 1 .. N |-> results[k].blocks]
           q == [k \in 1 .. N |-> results[k].lines]
           X == UNION {Held(results[k].blocks) : k \in 1 .. N}
           Y == UNION {Held(results[k].lines) : k \in 1 .. N}
<1>1. N \in Nat /\ DOMAIN Parts(s) = 1 .. N /\ N > 0
  <2>1. IsNumbered(Parts(s)) /\ DOMAIN Parts(s) # {}
    BY PartsAre
  <2> QED BY <2>1, Numbered
<1>2. DOMAIN results = 1 .. N
  BY <1>1, ResultsAre
<1>3. ASSUME NEW k \in 1 .. N
      PROVE  /\ IsPartOf(results[k], S(k)) /\ results[k].lines = Parts(s)[k]
             /\ IsRegion(Parts(s)[k]) /\ IsList(Parts(s)[k]) /\ S(k) \in SUBSET (1 .. Len(s))
  BY <1>1, ResultsAre, PartsAre
<1>5. Len(s) \in Nat
  BY ModelIsRegion
<1>4. \A k, l \in 1 .. N : k # l => S(k) \cap S(l) = {}
  <2> SUFFICES ASSUME NEW k \in 1 .. N, NEW l \in 1 .. N, k # l, NEW i \in S(k), i \in S(l) PROVE FALSE
    OBVIOUS
  <2>1. i \in Nat
    <3>1. i \in 1 .. Len(s)
      BY <1>3
    <3> QED BY <1>5, <3>1
  <2>2. k < l => i < i
    BY <1>1, PartsAre
  <2>3. l < k => i < i
    BY <1>1, PartsAre
  <2>4. k \in Int /\ l \in Int
    OBVIOUS
  <2> QED BY <2>1, <2>2, <2>3, <2>4
<1>6. r = MergeSubSegments(results)
  BY DEF Structure
<1> HIDE DEF results, N, S, r
<1>7. \A k \in 1 .. N : results[k].blocks \in Seq(X) /\ results[k].lines \in Seq(Y)
  <2> SUFFICES ASSUME NEW k \in 1 .. N PROVE results[k].blocks \in Seq(X) /\ results[k].lines \in Seq(Y)
    OBVIOUS
  <2>1. \A i \in DOMAIN results[k].blocks : results[k].blocks[i] \in X
    BY DEF Held
  <2>2. \A i \in DOMAIN results[k].lines : results[k].lines[i] \in Y
    BY DEF Held
  <2>3. IsList(results[k].blocks) /\ IsList(results[k].lines)
    BY <1>3 DEF IsPartOf
  <2> HIDE DEF X, Y
  <2> QED BY <2>1, <2>2, <2>3, ListIsSeq
<1> HIDE DEF X, Y
<1>8. PICK f : Concat(f, p, N) /\ Joined(results, LAMBDA x : x.blocks) = f[N]
  <2> HIDE DEF p
  <2> QED BY <1>1, <1>2, <1>7, JoinedBlocks DEF p
<1>9. PICK g : Concat(g, q, N) /\ Joined(results, LAMBDA x : x.lines) = g[N]
  <2> HIDE DEF q
  <2> QED BY <1>1, <1>2, <1>7, JoinedLines DEF q
<1> DEFINE best == CHOOSE k \in DOMAIN results :
                \A j \in DOMAIN results : \/ results[j].confidence < results[k].confidence
                                          \/ results[j].confidence = results[k].confidence /\ k <= j
<1>10. /\ r.type = results[best].type
       /\ r.blocks = Joined(results, LAMBDA x : x.blocks)
       /\ r.lines = Joined(results, LAMBDA x : x.lines)
  BY <1>6 DEF MergeSubSegments
<1>11. best \in DOMAIN results
  <2>1. \A k \in 1 .. N : results[k].confidence \in Int
    BY <1>3 DEF IsPartOf
  <2>2. \E k \in DOMAIN results :
                \A j \in DOMAIN results : \/ results[j].confidence < results[k].confidence
                                          \/ results[j].confidence = results[k].confidence /\ k <= j
    BY <1>1, <1>2, <2>1, BestExists
  <2> QED BY <2>2
<1> HIDE DEF best
<1>12. r.type \in Labels \cup {"mixed", "prose"} /\ r.blocks = f[N] /\ r.lines = g[N]
  BY <1>2, <1>3, <1>8, <1>9, <1>10, <1>11 DEF IsPartOf
<1>13. /\ r.blocks \in Seq(X) /\ DOMAIN r.blocks = 1 .. Len(r.blocks) /\ Len(r.blocks) \in Nat
       /\ \A i \in DOMAIN r.blocks : \E k \in 1 .. N : \E j \in DOMAIN results[k].blocks :
            i = Len(f[k - 1]) + j /\ r.blocks[i] = results[k].blocks[j]
  <2>1. \A k \in 1 .. N : p[k] \in Seq(X) /\ p[k] = results[k].blocks
    BY <1>7
  <2> HIDE DEF p
  <2>2. f[N] \in Seq(X) /\ Len(f[N]) \in Nat /\ DOMAIN f[N] = 1 .. Len(f[N]) /\ Drawn(f, p, N)
    BY <1>1, <1>8, <2>1, ConcatIs
  <2>6. r.blocks = f[N]
    BY <1>12
  <2>7. \A i \in DOMAIN r.blocks : \E k \in 1 .. N : \E j \in DOMAIN results[k].blocks :
          i = Len(f[k - 1]) + j /\ r.blocks[i] = results[k].blocks[j]
    <3> SUFFICES ASSUME NEW i \in DOMAIN f[N]
                 PROVE  \E k \in 1 .. N : \E j \in DOMAIN results[k].blocks :
                          i = Len(f[k - 1]) + j /\ f[N][i] = results[k].blocks[j]
      BY <2>6
    <3>1. PICK k \in 1 .. N : \E j \in DOMAIN p[k] : i = Len(f[k - 1]) + j /\ f[N][i] = p[k][j]
      BY <2>2 DEF Drawn
    <3>2. p[k] = results[k].blocks
      BY <2>1
    <3> QED BY <3>1, <3>2
  <2> QED BY <2>2, <2>6, <2>7
<1>14. /\ r.lines \in Seq(Y) /\ DOMAIN r.lines = 1 .. Len(r.lines) /\ Len(r.lines) \in Nat
       /\ \A i \in DOMAIN r.lines : \E k \in 1 .. N : \E j \in DOMAIN Parts(s)[k] :
            i = Len(g[k - 1]) + j /\ r.lines[i] = Parts(s)[k][j]
  <2>1. \A k \in 1 .. N : q[k] \in Seq(Y) /\ q[k] = Parts(s)[k]
    BY <1>3, <1>7
  <2> HIDE DEF q
  <2>2. g[N] \in Seq(Y) /\ Len(g[N]) \in Nat /\ DOMAIN g[N] = 1 .. Len(g[N]) /\ Drawn(g, q, N)
    BY <1>1, <1>9, <2>1, ConcatIs
  <2>6. r.lines = g[N]
    BY <1>12
  <2>7. \A i \in DOMAIN r.lines : \E k \in 1 .. N : \E j \in DOMAIN Parts(s)[k] :
          i = Len(g[k - 1]) + j /\ r.lines[i] = Parts(s)[k][j]
    <3> SUFFICES ASSUME NEW i \in DOMAIN g[N]
                 PROVE  \E k \in 1 .. N : \E j \in DOMAIN Parts(s)[k] :
                          i = Len(g[k - 1]) + j /\ g[N][i] = Parts(s)[k][j]
      BY <2>6
    <3>1. PICK k \in 1 .. N : \E j \in DOMAIN q[k] : i = Len(g[k - 1]) + j /\ g[N][i] = q[k][j]
      BY <2>2 DEF Drawn
    <3>2. q[k] = Parts(s)[k]
      BY <2>1
    <3> QED BY <3>1, <3>2
  <2> QED BY <2>2, <2>6, <2>7
<1> HIDE DEF p, q
<1>15. IsNumbered(r.blocks) /\ \A i \in DOMAIN r.blocks : HoldsOf(r.blocks[i], 1 .. Len(s))
  <2>1. IsNumbered(r.blocks)
    BY <1>13 DEF IsNumbered
  <2>2. ASSUME NEW i \in DOMAIN r.blocks PROVE HoldsOf(r.blocks[i], 1 .. Len(s))
    <3>1. PICK k \in 1 .. N : \E j \in DOMAIN results[k].blocks : r.blocks[i] = results[k].blocks[j]
      BY <1>13
    <3>2. HoldsOf(r.blocks[i], S(k)) /\ S(k) \subseteq 1 .. Len(s)
      BY <1>3, <3>1 DEF IsPartOf
    <3> QED BY <3>2, WiderHold
  <2> QED BY <2>1, <2>2
<1>16. ASSUME NEW i \in DOMAIN r.blocks, NEW l \in DOMAIN r.blocks, i # l,
              r.blocks[i].source = r.blocks[l].source
       PROVE  PlacesIn(r.blocks[i]) \cap PlacesIn(r.blocks[l]) = {}
  <2>1. PICK k \in 1 .. N : \E j \in DOMAIN results[k].blocks :
               i = Len(f[k - 1]) + j /\ r.blocks[i] = results[k].blocks[j]
    BY <1>13
  <2>2. PICK j \in DOMAIN results[k].blocks : i = Len(f[k - 1]) + j /\ r.blocks[i] = results[k].blocks[j]
    BY <2>1
  <2>3. PICK k2 \in 1 .. N : \E j2 \in DOMAIN results[k2].blocks :
               l = Len(f[k2 - 1]) + j2 /\ r.blocks[l] = results[k2].blocks[j2]
    BY <1>13
  <2>4. PICK j2 \in DOMAIN results[k2].blocks : l = Len(f[k2 - 1]) + j2 /\ r.blocks[l] = results[k2].blocks[j2]
    BY <2>3
  <2>5. k # k2
    <3> SUFFICES ASSUME k = k2 PROVE FALSE
      OBVIOUS
    <3>1. j = j2
      BY <1>3, <1>16, <2>2, <2>4 DEF IsPartOf
    <3> QED BY <1>16, <2>2, <2>4, <3>1
  <2>6. PlacesIn(r.blocks[i]) \subseteq S(k) /\ PlacesIn(r.blocks[l]) \subseteq S(k2)
    <3>1. HoldsOf(r.blocks[i], S(k)) /\ HoldsOf(r.blocks[l], S(k2))
      BY <1>3, <2>2, <2>4 DEF IsPartOf
    <3> QED BY <3>1, PlacesOfHeld
  <2> QED BY <1>4, <2>5, <2>6
<1>17. IsRegion(r.lines) /\ Places(r.lines) \subseteq 1 .. Len(s)
  <2>1. IsNumbered(r.lines)
    BY <1>14 DEF IsNumbered
  <2>2. ASSUME NEW i \in DOMAIN r.lines
        PROVE  Placed(r.lines[i]) /\ r.lines[i].index \in 1 .. Len(s)
    <3>1. PICK k \in 1 .. N : \E j \in DOMAIN Parts(s)[k] : r.lines[i] = Parts(s)[k][j]
      BY <1>14
    <3>2. PICK j \in DOMAIN Parts(s)[k] : r.lines[i] = Parts(s)[k][j]
      BY <3>1
    <3>3. r.lines[i].index \in S(k)
      BY <3>2 DEF S, Places
    <3>4. Placed(r.lines[i])
      BY <1>3, <3>2 DEF IsRegion
    <3> QED BY <1>3, <3>3, <3>4
  <2>3. ASSUME NEW i \in DOMAIN r.lines, NEW l \in DOMAIN r.lines, r.lines[i].index = r.lines[l].index
        PROVE  i = l
    <3>1. PICK k \in 1 .. N : \E j \in DOMAIN Parts(s)[k] :
                 i = Len(g[k - 1]) + j /\ r.lines[i] = Parts(s)[k][j]
      BY <1>14
    <3>2. PICK j \in DOMAIN Parts(s)[k] : i = Len(g[k - 1]) + j /\ r.lines[i] = Parts(s)[k][j]
      BY <3>1
    <3>3. PICK k2 \in 1 .. N : \E j2 \in DOMAIN Parts(s)[k2] :
                 l = Len(g[k2 - 1]) + j2 /\ r.lines[l] = Parts(s)[k2][j2]
      BY <1>14
    <3>4. PICK j2 \in DOMAIN Parts(s)[k2] : l = Len(g[k2 - 1]) + j2 /\ r.lines[l] = Parts(s)[k2][j2]
      BY <3>3
    <3>5. r.lines[i].index \in S(k) /\ r.lines[l].index \in S(k2)
      BY <3>2, <3>4 DEF S, Places
    <3>6. k = k2
      BY <1>4, <2>3, <3>5
    <3>7. j = j2
      BY <1>3, <2>3, <3>2, <3>4, <3>6 DEF IsRegion
    <3> QED BY <3>2, <3>4, <3>6, <3>7
  <2>4. Places(r.lines) \subseteq 1 .. Len(s)
    BY <2>2 DEF Places
  <2> QED BY <2>1, <2>2, <2>3, <2>4 DEF IsRegion
<1> QED BY <1>12, <1>15, <1>16, <1>17 DEF IsWholeOf, r

-----------------------------------------------------------------------------
(* The packaged segments *)

(* A part of a region is a region.                                         *)
LEMMA SubSeqRegion ==
  ASSUME NEW m, IsRegion(m), NEW a \in 1 .. Len(m), NEW e \in 1 .. Len(m), a <= e
  PROVE  /\ IsRegion(SubSeq(m, a, e)) /\ Places(SubSeq(m, a, e)) \subseteq Places(m)
         /\ Len(SubSeq(m, a, e)) = e - a + 1
         /\ \A i \in 1 .. e - a + 1 : SubSeq(m, a, e)[i] = m[a + i - 1]
<1> DEFINE sub == SubSeq(m, a, e)
           X == {m[j] : j \in a .. e}
           n == e - a + 1
<1>1. Len(m) \in Nat /\ DOMAIN m = 1 .. Len(m)
  BY RegionLen
<1>2. a \in Int /\ e \in Int /\ n \in Nat /\ a .. e \subseteq 1 .. Len(m)
  BY <1>1
<1>3. \A i \in a .. e : m[i] \in X
  OBVIOUS
<1>4. /\ sub \in Seq(X) /\ Len(sub) = n
      /\ \A i \in 1 .. n : sub[i] = m[a + i - 1]
  <2> HIDE DEF X
  <2> QED BY <1>2, <1>3, SubSeqProperties
<1> HIDE DEF sub
<1>5. DOMAIN sub = 1 .. n
  BY <1>4
<1>6. \A i \in 1 .. n : a + i - 1 \in 1 .. Len(m) /\ sub[i] = m[a + i - 1]
  BY <1>1, <1>4
<1>7. IsNumbered(sub)
  BY <1>2, <1>5 DEF IsNumbered
<1>8. ASSUME NEW i \in DOMAIN sub, NEW j \in DOMAIN sub, sub[i].index = sub[j].index PROVE i = j
  <2>0. i \in 1 .. n /\ j \in 1 .. n
    BY <1>5
  <2> DEFINE x == a + i - 1
             y == a + j - 1
  <2>1. /\ x \in DOMAIN m /\ y \in DOMAIN m
        /\ sub[i] = m[x] /\ sub[j] = m[y]
    BY <1>1, <1>6, <2>0
  <2>2. x = a + i - 1 /\ y = a + j - 1 /\ i \in Int /\ j \in Int
    BY <2>0
  <2> HIDE DEF n, x, y
  <2>3. x = y
    BY <1>8, <2>1 DEF IsRegion
  <2> QED BY <1>2, <2>2, <2>3
<1> HIDE DEF n
<1>9. Places(sub) \subseteq Places(m)
  BY <1>1, <1>5, <1>6 DEF Places
<1>10. \A i \in DOMAIN sub : Placed(sub[i])
  BY <1>1, <1>5, <1>6 DEF IsRegion
<1> QED BY <1>4, <1>7, <1>8, <1>9, <1>10 DEF IsRegion, sub, n

(* The text of a segment is some of its lines, each once.                  *)
LEMMA TextIs ==
  ASSUME NEW s, IsSegment(s)
  PROVE  TakenFrom(StripSeparators(s), 1 .. Len(s))
<1> DEFINE m == LineModel(s)
           P == {i \in DOMAIN m : ~ Marked(m[i], "ruled")}
           kept == Where(m, LAMBDA l : ~ Marked(l, "ruled"))
           full == {k \in DOMAIN kept : ~ IsEmpty(kept[k])}
<1>1. IsRegion(m) /\ Places(m) = 1 .. Len(s)
  BY ModelIsRegion
<1>2. kept = At(m, P) /\ P \in SUBSET DOMAIN m
  BY DEF Where
<1> HIDE DEF m, P
<1>3. IsRegion(kept) /\ Places(kept) \subseteq 1 .. Len(s)
  BY <1>1, <1>2, SubRegion
<1>4. StripSeparators(s) = IF full = {} THEN <<>> ELSE PlacesOf(SubSeq(kept, Least(full), Greatest(full)))
  BY DEF StripSeparators, m
<1> HIDE DEF kept
<1>5. Len(kept) \in Nat /\ DOMAIN kept = 1 .. Len(kept)
  BY <1>3, RegionLen
<1>6. full \in SUBSET (1 .. Len(kept)) /\ full \in SUBSET Nat
  BY <1>5
<1> HIDE DEF full
<1>7. CASE full = {}
  BY <1>4, <1>7, EmptyIsTaken
<1>8. CASE full # {}
  <2>1. IsFiniteSet(full)
    BY <1>5, <1>6, Taken
  <2>2. Least(full) \in full /\ Greatest(full) \in full /\ Least(full) <= Greatest(full)
    BY <1>6, <1>8, <2>1, Extremes
  <2> DEFINE sub == SubSeq(kept, Least(full), Greatest(full))
  <2>3. IsRegion(sub) /\ Places(sub) \subseteq Places(kept)
    BY <1>3, <1>6, <2>2, SubSeqRegion
  <2>4. StripSeparators(s) = PlacesOf(sub)
    BY <1>4, <1>8
  <2> HIDE DEF sub
  <2> QED BY <1>3, <2>3, <2>4, PlacesTaken
<1> QED BY <1>7, <1>8

(* A block accounts for as many lines as it holds.                         *)
BlockLines(b) == Len(b.items) + (IF b.headers # 0 THEN 1 ELSE 0)

(* A block counts as many lines as it holds.                               *)
LEMMA BlockSize ==
  ASSUME NEW S \in SUBSET (Nat \ {0}), NEW b, HoldsOf(b, S)
  PROVE  /\ BlockLines(b) \in Nat /\ IsFiniteSet(PlacesIn(b)) /\ Cardinality(PlacesIn(b)) = BlockLines(b)
         /\ PlacesIn(b) \subseteq S
<1>1. /\ IsNumbered(b.items) /\ Distinct(b.items) /\ Held(b.items) \subseteq S
      /\ b.headers \in {0} \cup (S \ Held(b.items))
  BY DEF HoldsOf, TakenFrom
<1>2. IsFiniteSet(Held(b.items)) /\ Cardinality(Held(b.items)) = Len(b.items) /\ Len(b.items) \in Nat
  BY <1>1, HeldOnce, Numbered
<1>3. PlacesIn(b) = Held(b.items) \cup ({b.headers} \ {0})
  BY DEF PlacesIn, Held
<1>4. CASE b.headers = 0
  <2>1. PlacesIn(b) = Held(b.items)
    BY <1>3, <1>4
  <2>2. BlockLines(b) = Len(b.items)
    BY <1>2, <1>4 DEF BlockLines
  <2> QED BY <1>1, <1>2, <2>1, <2>2
<1>5. CASE b.headers # 0
  <2>1. PlacesIn(b) = Held(b.items) \cup {b.headers} /\ b.headers \notin Held(b.items) /\ b.headers \in S
    BY <1>1, <1>3, <1>5
  <2>2. IsFiniteSet(PlacesIn(b)) /\ Cardinality(PlacesIn(b)) = Cardinality(Held(b.items)) + 1
    BY <1>2, <2>1, FS_AddElement
  <2>3. BlockLines(b) = Len(b.items) + 1
    BY <1>5 DEF BlockLines
  <2> QED BY <1>1, <1>2, <2>1, <2>2, <2>3
<1> QED BY <1>4, <1>5

(* The lines of blocks are the last of their running sums.                 *)
LEMMA TotalOfBlocks ==
  ASSUME NEW s, NEW n \in Nat, DOMAIN s = 1 .. n, \A i \in 1 .. n : BlockLines(s[i]) \in Nat
  PROVE  \E f : /\ Sums(f, [i \in 1 .. n |-> BlockLines(s[i])], n)
                /\ Total(s, LAMBDA b : Len(b.items) + (IF b.headers # 0 THEN 1 ELSE 0)) = f[n]
<1> DEFINE w == [i \in 1 .. n |-> BlockLines(s[i])]
           Solution(f) == f = [i \in 0 .. n |-> IF i = 0 THEN 0 ELSE f[i - 1] + BlockLines(s[i])]
           sum == CHOOSE f : Solution(f)
<1>1. \E f : f = [i \in 0 .. n |-> IF i = 0 THEN 0 ELSE f[i - 1] + w[i]]
  <2>1. \A i \in 1 .. n : w[i] \in Nat
    OBVIOUS
  <2> HIDE DEF w
  <2> QED BY <2>1, SumExists
<1>2. Solution(sum)
  <2>1. \E f : Solution(f)
    <3>1. PICK f : f = [i \in 0 .. n |-> IF i = 0 THEN 0 ELSE f[i - 1] + w[i]]
      BY <1>1
    <3>2. \A i \in 0 .. n : i # 0 => w[i] = BlockLines(s[i])
      OBVIOUS
    <3> HIDE DEF w
    <3> QED BY <3>1, <3>2
  <2> HIDE DEF Solution
  <2> QED BY <2>1
<1>3. Len(s) = n
  OBVIOUS
<1>4. Total(s, LAMBDA b : Len(b.items) + (IF b.headers # 0 THEN 1 ELSE 0)) = sum[n]
  BY <1>3 DEF Total, BlockLines
<1>5. Sums(sum, w, n)
  <2> HIDE DEF sum
  <2>1. \A i \in 1 .. n : i \in 0 .. n /\ i # 0
    OBVIOUS
  <2> QED BY <1>2, <2>1 DEF Sums
<1> HIDE DEF sum
<1> QED BY <1>4, <1>5

(* A segment named after its blocks is packaged from those of one source:  *)
(* they share no line.                                                     *)
LEMMA PackagedIs ==
  ASSUME NEW n \in Nat, NEW r, IsWholeOf(r, n), r.type \in Labels
  PROVE  LET q == Packaged(r.type, r.blocks)
         IN  /\ IsNumbered(q)
             /\ \A k \in DOMAIN q : HoldsOf(q[k], 1 .. n)
             /\ \A k, l \in DOMAIN q : k # l => PlacesIn(q[k]) \cap PlacesIn(q[l]) = {}
<1> DEFINE b == r.blocks
           all(x) == BlocksOf(b, x)
           Fine(q) == /\ IsNumbered(q)
                      /\ \A k \in DOMAIN q : HoldsOf(q[k], 1 .. n)
                      /\ \A k, l \in DOMAIN q : k # l => PlacesIn(q[k]) \cap PlacesIn(q[l]) = {}
<1>1. ASSUME NEW x PROVE Fine(all(x))
  <2> DEFINE P == {i \in DOMAIN b : b[i].source = x}
             q == all(x)
  <2>1. Len(b) \in Nat /\ DOMAIN b = 1 .. Len(b)
    BY Numbered DEF IsWholeOf
  <2>2. q = At(b, P) /\ P \in SUBSET (1 .. Len(b))
    BY <2>1 DEF BlocksOf, Where
  <2> HIDE DEF q
  <2>3. \A i \in P : i \in DOMAIN b /\ b[i].source = x
    OBVIOUS
  <2> HIDE DEF P
  <2>4. /\ Cardinality(P) \in Nat /\ DOMAIN q = 1 .. Cardinality(P)
        /\ \A k \in 1 .. Cardinality(P) : q[k] = b[Nth(P, k)] /\ Nth(P, k) \in P
        /\ \A k, l \in 1 .. Cardinality(P) : k < l => Nth(P, k) < Nth(P, l)
    BY <2>1, <2>2, Taken
  <2>5. IsNumbered(q) /\ \A k \in DOMAIN q : HoldsOf(q[k], 1 .. n)
    BY <2>3, <2>4 DEF IsNumbered, IsWholeOf
  <2>6. ASSUME NEW k \in DOMAIN q, NEW l \in DOMAIN q, k # l
        PROVE  PlacesIn(q[k]) \cap PlacesIn(q[l]) = {}
    <3>1. k \in Int /\ l \in Int
      BY <2>4
    <3>2. Nth(P, k) \in Int /\ Nth(P, l) \in Int
      BY <2>1, <2>3, <2>4
    <3>3. Nth(P, k) # Nth(P, l)
      BY <2>4, <2>6, <3>1, <3>2
    <3> QED BY <2>3, <2>4, <3>3 DEF IsWholeOf
  <2> QED BY <2>5, <2>6 DEF q
<1>2. ASSUME NEW x PROVE Fine(FirstOf(b, x))
  <2> DEFINE q == FirstOf(b, x)
             a == all(x)
  <2>1. q = [k \in {1} \cap DOMAIN a |-> a[k]]
    BY DEF FirstOf
  <2>2. Fine(a)
    BY <1>1
  <2> HIDE DEF q, a
  <2>3. \/ DOMAIN q = 1 .. 0
        \/ DOMAIN q = 1 .. 1
    BY <2>1
  <2>4. IsNumbered(q)
    BY <2>3 DEF IsNumbered
  <2> QED BY <2>1, <2>2, <2>4 DEF q
<1>3. \E x : Packaged(r.type, r.blocks) = all(x) \/ Packaged(r.type, r.blocks) = FirstOf(b, x)
  BY DEF Packaged, Labels
<1> HIDE DEF Fine, all
<1>4. Fine(Packaged(r.type, r.blocks))
  BY <1>1, <1>2, <1>3
<1> QED BY <1>4 DEF Fine

(* The gaps are lines of the segment, each once, that no block holds.      *)
LEMMA GapsAre ==
  ASSUME NEW n, NEW lines, IsRegion(lines), Places(lines) \subseteq 1 .. n, NEW q
  PROVE  /\ TakenFrom(DetectGaps(lines, q), 1 .. n)
         /\ \A k \in DOMAIN q : Held(DetectGaps(lines, q)) \cap PlacesIn(q[k]) = {}
<1> DEFINE ne == NonEmpty(lines)
           P == {i \in DOMAIN ne : ~ Represented(ne[i], lines, q)}
           missing == At(ne, P)
<1>1. IsRegion(ne) /\ Places(ne) \subseteq Places(lines)
  BY NonEmptyRegion
<1>2. DetectGaps(lines, q) = PlacesOf(missing) /\ P \in SUBSET DOMAIN ne
  BY DEF DetectGaps, Where
<1>3. \A i \in DOMAIN ne : \E m \in DOMAIN lines : ne[i] = lines[m]
  <2> DEFINE Q == {i \in DOMAIN lines : ~ IsEmpty(lines[i])}
  <2>1. ne = At(lines, Q) /\ Q \in SUBSET DOMAIN lines
    BY DEF NonEmpty, Where
  <2> HIDE DEF Q, ne
  <2>2. Len(lines) \in Nat /\ DOMAIN lines = 1 .. Len(lines)
    BY RegionLen
  <2>3. DOMAIN ne = 1 .. Cardinality(Q) /\ \A k \in 1 .. Cardinality(Q) : ne[k] = lines[Nth(Q, k)] /\ Nth(Q, k) \in Q
    BY <2>1, <2>2, Taken
  <2> QED BY <2>1, <2>3
<1>4. \A i \in P : ~ Represented(ne[i], lines, q)
  OBVIOUS
<1> HIDE DEF ne, P
<1>5. IsRegion(missing) /\ Places(missing) = {ne[i].index : i \in P} /\ Places(missing) \subseteq Places(ne)
  BY <1>1, <1>2, SubRegion
<1> HIDE DEF missing
<1>6. TakenFrom(PlacesOf(missing), 1 .. n) /\ Held(PlacesOf(missing)) = {ne[i].index : i \in P}
  BY <1>1, <1>5, PlacesTaken, PlacesOfRegion
<1>7. ASSUME NEW i \in P, NEW k \in DOMAIN q PROVE ne[i].index \notin PlacesIn(q[k])
  <2>1. PICK m \in DOMAIN lines : ne[i] = lines[m]
    BY <1>2, <1>3
  <2>2. ~ Represented(ne[i], lines, q)
    BY <1>4
  <2>3. lines[m].index \in PlacesIn(q[k]) => LongerWords(lines[m]) \subseteq Written(q, lines)
    BY DEF Written, LinesIn
  <2> QED BY <2>1, <2>2, <2>3 DEF Represented
<1> QED BY <1>2, <1>6, <1>7

(* The lines a segment can account for: those it holds, and those its      *)
(* blocks span if it is mixed.                                             *)
Accounted(seg) == KeptPlaces(seg) \cup (IF seg.type = "mixed" THEN Spanned(seg) ELSE {})

(* What the validation counts of a segment is some of those lines, each    *)
(* once.                                                                   *)
CountedIn(seg, n) ==
  /\ SegmentLines(seg) \in Nat
  /\ \E B \in SUBSET (1 .. n) : B \subseteq Accounted(seg) /\ SegmentLines(seg) <= Cardinality(B)

(* No blocks, no lines.                                                    *)
LEMMA EmptySum == ASSUME NEW s, s = <<>>
  PROVE  Total(s, LAMBDA b : Len(b.items) + (IF b.headers # 0 THEN 1 ELSE 0)) = 0
<1>1. PICK f : /\ Sums(f, [i \in 1 .. 0 |-> BlockLines(s[i])], 0)
               /\ Total(s, LAMBDA b : Len(b.items) + (IF b.headers # 0 THEN 1 ELSE 0)) = f[0]
  <2>1. DOMAIN s = 1 .. 0 /\ \A i \in 1 .. 0 : BlockLines(s[i]) \in Nat
    OBVIOUS
  <2> QED BY <2>1, TotalOfBlocks
<1> QED BY <1>1 DEF Sums

(* A segment kept as text counts no more lines than it accounts for.       *)
LEMMA PackagedText ==
  ASSUME NEW s, IsSegment(s), NEW seg, seg.text = StripSeparators(s), seg.blocks = <<>>, seg.gaps = <<>>
  PROVE  CountedIn(seg, Len(s))
<1>1. TakenFrom(seg.text, 1 .. Len(s))
  BY TextIs
<1>2. IsFiniteSet(Held(seg.text)) /\ Cardinality(Held(seg.text)) = Len(seg.text) /\ Len(seg.text) \in Nat
  BY <1>1, HeldOnce, Numbered DEF TakenFrom
<1>3. Held(seg.text) \in SUBSET (1 .. Len(s)) /\ Held(seg.text) \subseteq Accounted(seg)
  BY <1>1 DEF TakenFrom, Held, Accounted, KeptPlaces
<1>4. {} \in SUBSET (1 .. Len(s)) /\ {} \subseteq Accounted(seg) /\ Cardinality({}) = 0
  BY FS_EmptySet
<1>5. CASE seg.type = "prose"
  <2>1. SegmentLines(seg) = Len(seg.text)
    BY <1>5 DEF SegmentLines
  <2>2. SegmentLines(seg) \in Nat /\ SegmentLines(seg) <= Cardinality(Held(seg.text))
    BY <1>2, <2>1
  <2> QED BY <1>3, <2>2 DEF CountedIn
<1>6. CASE seg.type = "mixed"
  <2>1. Spanned(seg) \cup {seg.gaps[k] : k \in DOMAIN seg.gaps} = {}
    BY DEF Spanned
  <2>2. SegmentLines(seg) = 0
    BY <1>4, <1>6, <2>1 DEF SegmentLines
  <2>3. SegmentLines(seg) \in Nat /\ SegmentLines(seg) <= Cardinality({})
    BY <1>4, <2>2
  <2> QED BY <1>4, <2>3 DEF CountedIn
<1>7. CASE seg.type # "prose" /\ seg.type # "mixed"
  <2> DEFINE total == Total(seg.blocks, LAMBDA b : Len(b.items) + (IF b.headers # 0 THEN 1 ELSE 0))
  <2>1. SegmentLines(seg) = total + Len(seg.gaps)
    BY <1>7 DEF SegmentLines
  <2>2. total = 0
    BY EmptySum
  <2>3. SegmentLines(seg) = 0
    <3>1. Len(seg.gaps) = 0
      OBVIOUS
    <3> HIDE DEF total
    <3> QED BY <2>1, <2>2, <3>1
  <2>4. SegmentLines(seg) \in Nat /\ SegmentLines(seg) <= Cardinality({})
    BY <1>4, <2>3
  <2> QED BY <1>4, <2>4 DEF CountedIn
<1> QED BY <1>5, <1>6, <1>7

(* Nor does one kept as mixed, which counts the span of its blocks.        *)
LEMMA PackagedMixed ==
  ASSUME NEW n \in Nat, NEW seg, seg.type = "mixed",
         \A k \in DOMAIN seg.blocks : HoldsOf(seg.blocks[k], 1 .. n),
         TakenFrom(seg.gaps, 1 .. n)
  PROVE  CountedIn(seg, n)
<1> DEFINE B == Spanned(seg) \cup {seg.gaps[k] : k \in DOMAIN seg.gaps}
<1>1. SegmentLines(seg) = Cardinality(B)
  BY DEF SegmentLines
<1>2. B \in SUBSET (1 .. n)
  <2>1. Spanned(seg) \subseteq 1 .. n
    <3> SUFFICES ASSUME NEW k \in DOMAIN seg.blocks, NEW i \in seg.blocks[k].start .. seg.blocks[k].end
                 PROVE  i \in 1 .. n
      BY DEF Spanned
    <3>1. seg.blocks[k].start \in 1 .. n /\ seg.blocks[k].end \in 1 .. n
      BY DEF HoldsOf
    <3> QED BY <3>1
  <2>2. {seg.gaps[k] : k \in DOMAIN seg.gaps} \subseteq 1 .. n
    BY DEF TakenFrom, Held
  <2> QED BY <2>1, <2>2
<1>3. B \subseteq Accounted(seg)
  BY DEF Accounted, KeptPlaces
<1> HIDE DEF B
<1>4. Cardinality(B) \in Nat
  BY <1>2, Taken
<1>5. SegmentLines(seg) \in Nat /\ SegmentLines(seg) <= Cardinality(B)
  BY <1>1, <1>4
<1> QED BY <1>2, <1>3, <1>5 DEF CountedIn

(* Nor does one kept as blocks of a kind, whose blocks and gaps are        *)
(* disjoint.                                                               *)
LEMMA PackagedBlocks ==
  ASSUME NEW n \in Nat, NEW seg, seg.type \in Labels,
         IsNumbered(seg.blocks),
         \A k \in DOMAIN seg.blocks : HoldsOf(seg.blocks[k], 1 .. n),
         \A k, l \in DOMAIN seg.blocks :
           k # l => PlacesIn(seg.blocks[k]) \cap PlacesIn(seg.blocks[l]) = {},
         TakenFrom(seg.gaps, 1 .. n),
         \A k \in DOMAIN seg.blocks : Held(seg.gaps) \cap PlacesIn(seg.blocks[k]) = {}
  PROVE  CountedIn(seg, n)
<1> DEFINE q == seg.blocks
           m == Len(q)
           A == [k \in 1 .. m |-> PlacesIn(q[k])]
           w == [k \in 1 .. m |-> BlockLines(q[k])]
           held == All(A, m)
           gaps == Held(seg.gaps)
           B == held \cup gaps
           total == Total(q, LAMBDA b : Len(b.items) + (IF b.headers # 0 THEN 1 ELSE 0))
<1>1. m \in Nat /\ DOMAIN q = 1 .. m
  BY Numbered
<1>2. ASSUME NEW k \in 1 .. m
      PROVE  /\ BlockLines(q[k]) \in Nat /\ IsFiniteSet(PlacesIn(q[k]))
             /\ Cardinality(PlacesIn(q[k])) = BlockLines(q[k]) /\ PlacesIn(q[k]) \subseteq 1 .. n
  <2>1. HoldsOf(q[k], 1 .. n)
    BY <1>1
  <2>2. 1 .. n \in SUBSET (Nat \ {0})
    OBVIOUS
  <2> QED BY <2>1, <2>2, BlockSize
<1>3. SegmentLines(seg) = total + Len(seg.gaps)
  BY DEF SegmentLines, Labels
<1>4. PICK f : Sums(f, w, m) /\ total = f[m]
  <2>1. \A k \in 1 .. m : BlockLines(q[k]) \in Nat
    BY <1>2
  <2> HIDE DEF q, m
  <2> QED BY <1>1, <2>1, TotalOfBlocks
<1>5. held \subseteq 1 .. n /\ gaps \subseteq 1 .. n /\ held \cap gaps = {}
  <2>1. held = UNION {PlacesIn(q[k]) : k \in 1 .. m}
    BY DEF All
  <2>2. \A k \in 1 .. m : gaps \cap PlacesIn(q[k]) = {}
    BY <1>1
  <2>3. gaps \subseteq 1 .. n
    BY DEF TakenFrom
  <2> HIDE DEF held, gaps, q, m
  <2> QED BY <1>2, <2>1, <2>2, <2>3
<1>6. B \subseteq Accounted(seg)
  <2>1. held \subseteq KeptPlaces(seg)
    <3>1. held = UNION {PlacesIn(q[k]) : k \in DOMAIN q}
      BY <1>1 DEF All
    <3> QED BY <3>1 DEF KeptPlaces
  <2>2. gaps \subseteq KeptPlaces(seg)
    BY DEF KeptPlaces, Held
  <2> QED BY <2>1, <2>2 DEF Accounted
<1>7. IsFiniteSet(gaps) /\ Cardinality(gaps) = Len(seg.gaps) /\ Len(seg.gaps) \in Nat
  BY HeldOnce, Numbered DEF TakenFrom
<1>8. \A k \in 1 .. m : /\ w[k] \in Nat /\ IsFiniteSet(A[k]) /\ w[k] <= Cardinality(A[k])
  <2> SUFFICES ASSUME NEW k \in 1 .. m
               PROVE  w[k] \in Nat /\ IsFiniteSet(A[k]) /\ w[k] <= Cardinality(A[k])
    OBVIOUS
  <2>1. w[k] = BlockLines(q[k]) /\ A[k] = PlacesIn(q[k])
    OBVIOUS
  <2>2. w[k] \in Nat /\ IsFiniteSet(A[k]) /\ Cardinality(A[k]) = w[k]
    BY <1>2, <2>1
  <2> HIDE DEF w, A
  <2> QED BY <2>2
<1>9. Apart(A, m)
  <2> SUFFICES ASSUME NEW k \in 1 .. m, NEW l \in 1 .. m, k # l PROVE A[k] \cap A[l] = {}
    BY DEF Apart
  <2> QED BY <1>1
<1>10. IsFiniteSet(held) /\ f[m] \in Nat /\ f[m] <= Cardinality(held)
  <2> HIDE DEF A, w, m
  <2> QED BY <1>1, <1>4, <1>8, <1>9, SumBounds
<1> HIDE DEF held, gaps, total
<1>11. IsFiniteSet(B) /\ Cardinality(B) = Cardinality(held) + Cardinality(gaps)
       /\ Cardinality(held) \in Nat /\ Cardinality(gaps) \in Nat
  <2>1. Cardinality(held \cap gaps) = 0
    BY <1>5, FS_EmptySet
  <2>2. Cardinality(held) \in Nat /\ Cardinality(gaps) \in Nat
    BY <1>7, <1>10, FS_CardinalityType
  <2>3. IsFiniteSet(B) /\ Cardinality(B) = Cardinality(held) + Cardinality(gaps) - Cardinality(held \cap gaps)
    BY <1>7, <1>10, FS_Union
  <2> QED BY <2>1, <2>2, <2>3
<1>12. SegmentLines(seg) \in Nat /\ SegmentLines(seg) <= Cardinality(B)
  <2> DEFINE a == f[m]
             b == Len(seg.gaps)
             c == Cardinality(held)
             d == Cardinality(gaps)
             e == Cardinality(B)
  <2>1. SegmentLines(seg) = a + b /\ a \in Nat /\ b \in Nat /\ a <= c /\ d = b /\ e = c + d /\ c \in Nat
    BY <1>3, <1>4, <1>7, <1>10, <1>11
  <2> HIDE DEF a, b, c, d, e
  <2> QED BY <2>1 DEF e
<1>13. B \in SUBSET (1 .. n)
  BY <1>5
<1> HIDE DEF B
<1> QED BY <1>6, <1>12, <1>13 DEF CountedIn

(* Whatever a segment is packaged as, it counts no more lines than it      *)
(* accounts for, and keeps its place.                                      *)
LEMMA PackageIs ==
  ASSUME NEW s, IsSegment(s), NEW r, IsWholeOf(r, Len(s)), NEW place
  PROVE  CountedIn(Package(r, s, place), Len(s)) /\ Package(r, s, place).place = place
<1> DEFINE byText == r.blocks = <<>> \/ r.lines = <<>> \/ r.type = "prose"
           q == Packaged(r.type, r.blocks)
           seg == Package(r, s, place)
<1>1. /\ seg.place = place /\ seg.type = r.type
      /\ seg.text = IF byText THEN StripSeparators(s) ELSE <<>>
      /\ seg.blocks = IF byText THEN <<>> ELSE q
      /\ seg.gaps = IF byText THEN <<>> ELSE DetectGaps(r.lines, q)
  BY DEF Package
<1>2. Len(s) \in Nat
  BY ModelIsRegion
<1> HIDE DEF seg
<1>3. CASE byText
  <2>1. seg.text = StripSeparators(s) /\ seg.blocks = <<>> /\ seg.gaps = <<>>
    BY <1>1, <1>3
  <2> QED BY <1>1, <2>1, PackagedText DEF seg
<1>4. CASE ~ byText
  <2>1. seg.blocks = q /\ seg.gaps = DetectGaps(r.lines, q)
    BY <1>1, <1>4
  <2>2. IsRegion(r.lines) /\ Places(r.lines) \subseteq 1 .. Len(s)
    BY DEF IsWholeOf
  <2>3. /\ TakenFrom(seg.gaps, 1 .. Len(s))
        /\ \A k \in DOMAIN q : Held(seg.gaps) \cap PlacesIn(q[k]) = {}
    <3> HIDE DEF q
    <3> QED BY <1>2, <2>1, <2>2, GapsAre
  <2>4. CASE r.type = "mixed"
    <3>1. q = r.blocks
      BY <2>4 DEF Packaged
    <3>2. \A k \in DOMAIN seg.blocks : HoldsOf(seg.blocks[k], 1 .. Len(s))
      BY <2>1, <3>1 DEF IsWholeOf
    <3>3. seg.type = "mixed"
      BY <1>1, <2>4
    <3> QED BY <1>1, <1>2, <2>3, <3>2, <3>3, PackagedMixed DEF seg
  <2>5. CASE r.type \in Labels
    <3>1. /\ IsNumbered(q)
          /\ \A k \in DOMAIN q : HoldsOf(q[k], 1 .. Len(s))
          /\ \A k, l \in DOMAIN q : k # l => PlacesIn(q[k]) \cap PlacesIn(q[l]) = {}
      BY <1>2, <2>5, PackagedIs
    <3>2. seg.type \in Labels
      BY <1>1, <2>5
    <3>3. CountedIn(seg, Len(s))
      <4> HIDE DEF q
      <4> QED BY <1>2, <2>1, <2>3, <3>1, <3>2, PackagedBlocks
    <3> QED BY <1>1, <3>3 DEF seg
  <2>6. r.type = "mixed" \/ r.type \in Labels
    BY <1>4 DEF IsWholeOf
  <2> QED BY <2>4, <2>5, <2>6
<1> QED BY <1>3, <1>4

(* What is not looked at is whole, too.                                    *)
LEMMA BypassIs ==
  ASSUME NEW n, NEW type \in {"prose", "kv_block"}, NEW confidence
  PROVE  IsWholeOf(Bypass(type, confidence), n)
<1>1. IsRegion(<<>>) /\ Places(<<>>) \subseteq 1 .. n
  BY DEF IsRegion, IsNumbered, Places
<1>2. IsNumbered(<<>>)
  BY DEF IsNumbered
<1> QED BY <1>1, <1>2 DEF IsWholeOf, Bypass, Labels

-----------------------------------------------------------------------------
(* The lines of the document *)

(* The i-th segment of a document, by what became of it.                   *)
LEMMA OutcomeOf ==
  ASSUME NEW i, IsSegment(segments[i])
  PROVE  IsWholeOf(Alone(i), Len(segments[i]))
<1>1. \/ Alone(i) = ProseFallback
      \/ Alone(i) = Bypass("prose", 100)
      \/ Alone(i) = Bypass("kv_block", 100)
      \/ Alone(i) = Structure(segments[i])
  BY DEF Alone
<1>2. ProseFallback = Bypass("prose", 0)
  BY DEF ProseFallback
<1> QED BY <1>1, <1>2, BypassIs, MergedIs

(* The lines counted are the last of their running sums.                   *)
LEMMA TotalOfSegments ==
  ASSUME NEW s, NEW n \in Nat, DOMAIN s = 1 .. n, \A i \in 1 .. n : SegmentLines(s[i]) \in Nat
  PROVE  \E f : Sums(f, [i \in 1 .. n |-> SegmentLines(s[i])], n) /\ CountSegmentLines(s) = f[n]
<1> DEFINE w == [i \in 1 .. n |-> SegmentLines(s[i])]
           Solution(f) == f = [i \in 0 .. n |-> IF i = 0 THEN 0 ELSE f[i - 1] + SegmentLines(s[i])]
           sum == CHOOSE f : Solution(f)
<1>1. \E f : f = [i \in 0 .. n |-> IF i = 0 THEN 0 ELSE f[i - 1] + w[i]]
  <2>1. \A i \in 1 .. n : w[i] \in Nat
    OBVIOUS
  <2> HIDE DEF w
  <2> QED BY <2>1, SumExists
<1>2. Solution(sum)
  <2>1. \E f : Solution(f)
    <3>1. PICK f : f = [i \in 0 .. n |-> IF i = 0 THEN 0 ELSE f[i - 1] + w[i]]
      BY <1>1
    <3>2. \A i \in 0 .. n : i # 0 => w[i] = SegmentLines(s[i])
      OBVIOUS
    <3> HIDE DEF w
    <3> QED BY <3>1, <3>2
  <2> HIDE DEF Solution
  <2> QED BY <2>1
<1>3. Len(s) = n
  OBVIOUS
<1>4. CountSegmentLines(s) = sum[n]
  BY <1>3 DEF CountSegmentLines, Total
<1>5. Sums(sum, w, n)
  <2> HIDE DEF sum
  <2>1. \A i \in 1 .. n : i \in 0 .. n /\ i # 0
    OBVIOUS
  <2> QED BY <1>2, <2>1 DEF Sums
<1> HIDE DEF sum
<1> QED BY <1>4, <1>5

InOrder == [i \in DOMAIN segments |-> Alone(i)]

(* What is lost and what is counted are different lines of the segments.   *)
LEMMA LossIsNotCounted ==
  ASSUME IsNumbered(segments), \A i \in DOMAIN segments : IsSegment(segments[i]),
         output.segments = Cleanup(FormatSegments(InOrder, segments))
  PROVE  /\ CountSegmentLines(output.segments) \in Nat /\ Total(segments, Len) \in Nat
         /\ Cardinality(Lost) \in Nat
         /\ CountSegmentLines(output.segments) + Cardinality(Lost) <= Total(segments, Len)
<1> DEFINE n == Len(segments)
           F == FormatSegments(InOrder, segments)
           K == {i \in DOMAIN F : ~ IsEmptySegment(F[i])}
           out == output.segments
           m == Cardinality(K)
           Counts(B, i) == B \subseteq Accounted(F[i]) /\ SegmentLines(F[i]) <= Cardinality(B)
           A == [i \in 1 .. n |-> CHOOSE B \in SUBSET (1 .. Len(segments[i])) : Counts(B, i)]
           C == [k \in 1 .. m |-> Row(A, Nth(K, k))]
           D == [i \in 1 .. n |-> Row([j \in 1 .. n |-> 1 .. Len(segments[j])], i)]
           wc == [k \in 1 .. m |-> SegmentLines(out[k])]
           wd == [i \in 1 .. n |-> Len(segments[i])]
           U == All(C, m)
           W == All(D, n)
<1>1. n \in Nat /\ DOMAIN segments = 1 .. n
  BY Numbered
<1>2. ASSUME NEW i \in 1 .. n PROVE IsSegment(segments[i]) /\ Len(segments[i]) \in Nat
                                    /\ DOMAIN segments[i] = 1 .. Len(segments[i])
  BY <1>1, ModelIsRegion
<1>3. DOMAIN F = 1 .. n /\ \A i \in 1 .. n : F[i] = Package(Alone(i), segments[i], i)
  BY <1>1 DEF FormatSegments, InOrder
<1>4. out = At(F, K) /\ K \in SUBSET (1 .. n)
  BY <1>3 DEF Cleanup, Where
<1> HIDE DEF n, F, K, out
<1>5. ASSUME NEW i \in 1 .. n
      PROVE  CountedIn(F[i], Len(segments[i])) /\ F[i].place = i
  <2>1. IsWholeOf(Alone(i), Len(segments[i]))
    BY <1>2, OutcomeOf
  <2> QED BY <1>2, <1>3, <2>1, PackageIs
<1>6. ASSUME NEW i \in 1 .. n
      PROVE  /\ A[i] \subseteq 1 .. Len(segments[i]) /\ A[i] \subseteq Accounted(F[i])
             /\ SegmentLines(F[i]) \in Nat /\ SegmentLines(F[i]) <= Cardinality(A[i])
             /\ IsFiniteSet(A[i]) /\ Cardinality(A[i]) \in Nat
  <2>1. \E B \in SUBSET (1 .. Len(segments[i])) : Counts(B, i)
    BY <1>5 DEF CountedIn
  <2>2. A[i] = CHOOSE B \in SUBSET (1 .. Len(segments[i])) : Counts(B, i)
    OBVIOUS
  <2>3. A[i] \in SUBSET (1 .. Len(segments[i])) /\ Counts(A[i], i)
    <3> HIDE DEF A, Counts
    <3> QED BY <2>1, <2>2
  <2> HIDE DEF A
  <2>4. SegmentLines(F[i]) \in Nat
    BY <1>5 DEF CountedIn
  <2>5. IsFiniteSet(A[i]) /\ Cardinality(A[i]) \in Nat
    BY <1>2, <2>3, Taken
  <2> QED BY <2>3, <2>4, <2>5
<1>7. /\ m \in Nat /\ DOMAIN out = 1 .. m
      /\ \A k \in 1 .. m : out[k] = F[Nth(K, k)] /\ Nth(K, k) \in K
      /\ \A k, l \in 1 .. m : k < l => Nth(K, k) < Nth(K, l)
  BY <1>1, <1>4, Taken
<1> HIDE DEF A, m
<1>8. ASSUME NEW k \in 1 .. m
      PROVE  /\ C[k] = Row(A, Nth(K, k)) /\ IsFiniteSet(C[k]) /\ wc[k] \in Nat /\ wc[k] <= Cardinality(C[k])
             /\ wc[k] = SegmentLines(out[k]) /\ Nth(K, k) \in 1 .. n
  <2>1. Nth(K, k) \in 1 .. n /\ out[k] = F[Nth(K, k)]
    BY <1>4, <1>7
  <2>2. C[k] = Row(A, Nth(K, k)) /\ wc[k] = SegmentLines(out[k])
    OBVIOUS
  <2>3. IsFiniteSet(Row(A, Nth(K, k))) /\ Cardinality(Row(A, Nth(K, k))) = Cardinality(A[Nth(K, k)])
    BY <1>6, <2>1, RowSize
  <2> HIDE DEF C, wc
  <2> QED BY <1>6, <2>1, <2>2, <2>3
<1>9. Apart(C, m)
  <2> SUFFICES ASSUME NEW k \in 1 .. m, NEW l \in 1 .. m, k # l PROVE C[k] \cap C[l] = {}
    BY DEF Apart
  <2>1. Nth(K, k) # Nth(K, l)
    <3>1. Nth(K, k) \in Int /\ Nth(K, l) \in Int /\ k \in Int /\ l \in Int
      BY <1>8
    <3> QED BY <1>7, <3>1
  <2>2. C[k] = Row(A, Nth(K, k)) /\ C[l] = Row(A, Nth(K, l))
    OBVIOUS
  <2> HIDE DEF C
  <2> QED BY <2>1, <2>2 DEF Row
<1> HIDE DEF C
<1>10. PICK f : Sums(f, wc, m) /\ CountSegmentLines(out) = f[m]
  <2>1. \A k \in 1 .. m : SegmentLines(out[k]) \in Nat
    BY <1>8
  <2> QED BY <1>7, <2>1, TotalOfSegments
<1> HIDE DEF wc
<1>11. IsFiniteSet(U) /\ f[m] \in Nat /\ f[m] <= Cardinality(U)
  <2>1. \A k \in 1 .. m : wc[k] \in Nat /\ IsFiniteSet(C[k]) /\ wc[k] <= Cardinality(C[k])
    BY <1>8
  <2> QED BY <1>7, <1>9, <1>10, <2>1, SumBounds
<1>12. ASSUME NEW i \in 1 .. n
       PROVE  /\ D[i] = {i} \X (1 .. Len(segments[i])) /\ IsFiniteSet(D[i])
              /\ wd[i] \in Nat /\ wd[i] >= Cardinality(D[i])
  <2> DEFINE E == [j \in 1 .. n |-> 1 .. Len(segments[j])]
  <2>1. E[i] = 1 .. Len(segments[i]) /\ D[i] = Row(E, i) /\ wd[i] = Len(segments[i])
    OBVIOUS
  <2>2. IsFiniteSet(1 .. Len(segments[i])) /\ Cardinality(1 .. Len(segments[i])) = Len(segments[i])
    <3> DEFINE a == Len(segments[i])
    <3>1. a \in Nat
      BY <1>2
    <3> HIDE DEF a
    <3>2. 1 \in Int /\ a \in Int
      BY <3>1
    <3>3. IsFiniteSet(1 .. a) /\ Cardinality(1 .. a) = IF 1 > a THEN 0 ELSE a - 1 + 1
      BY <3>2, FS_Interval
    <3>4. Cardinality(1 .. a) = a
      BY <3>1, <3>3
    <3> QED BY <3>3, <3>4 DEF a
  <2> HIDE DEF E, D, wd
  <2>3. IsFiniteSet(Row(E, i)) /\ Cardinality(Row(E, i)) = Len(segments[i])
    BY <2>1, <2>2, RowSize
  <2>4. Row(E, i) = {i} \X (1 .. Len(segments[i]))
    BY <2>1 DEF Row
  <2> QED BY <1>2, <2>1, <2>3, <2>4
<1> HIDE DEF D
<1>13. Apart(D, n)
  <2> SUFFICES ASSUME NEW k \in 1 .. n, NEW l \in 1 .. n, k # l PROVE D[k] \cap D[l] = {}
    BY DEF Apart
  <2> QED BY <1>12
<1>14. PICK g : Sums(g, wd, n) /\ Total(segments, Len) = g[n]
  <2>1. \A i \in 1 .. n : Len(segments[i]) \in Nat
    BY <1>2
  <2> QED BY <1>1, <2>1, TotalOfLengths
<1> HIDE DEF wd
<1>15. IsFiniteSet(W) /\ g[n] \in Nat /\ g[n] >= Cardinality(W)
  BY <1>1, <1>12, <1>13, <1>14, SumBounds
<1>16. U \subseteq W
  <2> SUFFICES ASSUME NEW k \in 1 .. m, NEW x \in C[k] PROVE x \in W
    BY DEF All
  <2>1. Nth(K, k) \in 1 .. n /\ C[k] = Row(A, Nth(K, k))
    BY <1>8
  <2>2. x \in D[Nth(K, k)]
    BY <1>6, <1>12, <2>1 DEF Row
  <2> QED BY <2>1, <2>2 DEF All
<1>17. Lost \subseteq W
  <2> SUFFICES ASSUME NEW i \in DOMAIN segments, NEW j \in DOMAIN segments[i] PROVE <<i, j>> \in W
    BY DEF Lost
  <2>1. i \in 1 .. n /\ <<i, j>> \in D[i]
    BY <1>1, <1>2, <1>12
  <2> QED BY <2>1 DEF All
<1>18. U \cap Lost = {}
  <2> SUFFICES ASSUME NEW k \in 1 .. m, NEW x \in C[k], x \in Lost PROVE FALSE
    BY DEF All
  <2> DEFINE i == Nth(K, k)
             j == x[2]
  <2>1. i \in 1 .. n /\ out[k] = F[i] /\ out[k].place = i /\ k \in DOMAIN out
    BY <1>5, <1>7, <1>8
  <2>2. x[1] = i /\ j \in A[i]
    BY <1>8 DEF Row
  <2>3. j \in Accounted(out[k])
    BY <1>6, <2>1, <2>2
  <2>4. j \notin Surviving(i) \cup SpannedOver(i)
    BY <2>2 DEF Lost
  <2>5. KeptPlaces(out[k]) \subseteq Surviving(i)
    BY <2>1 DEF Surviving, out
  <2>6. out[k].type = "mixed" => Spanned(out[k]) \subseteq SpannedOver(i)
    BY <2>1 DEF SpannedOver, out
  <2> HIDE DEF i, j
  <2> QED BY <2>3, <2>4, <2>5, <2>6 DEF Accounted
<1> HIDE DEF U, W
<1>19. IsFiniteSet(Lost) /\ Cardinality(Lost) \in Nat /\ Cardinality(U) \in Nat /\ Cardinality(W) \in Nat
  BY <1>11, <1>15, <1>17, FS_Subset, FS_CardinalityType
<1>20. Cardinality(U \cup Lost) = Cardinality(U) + Cardinality(Lost) /\ Cardinality(U \cup Lost) <= Cardinality(W)
  <2>1. Cardinality(U \cap Lost) = 0
    BY <1>18, FS_EmptySet
  <2>2. Cardinality(U \cup Lost) = Cardinality(U) + Cardinality(Lost) - Cardinality(U \cap Lost)
    BY <1>11, <1>19, FS_Union
  <2>3. Cardinality(U \cup Lost) <= Cardinality(W)
    BY <1>15, <1>16, <1>17, FS_Subset
  <2> QED BY <1>19, <2>1, <2>2, <2>3
<1>21. f[m] + Cardinality(Lost) <= g[n]
  BY <1>11, <1>15, <1>19, <1>20
<1> QED BY <1>10, <1>11, <1>14, <1>15, <1>19, <1>21 DEF out

(* Of two disjoint shares one is less than half when the other is more.    *)
LEMMA LessThanHalf ==
  ASSUME NEW c \in Nat, NEW l \in Nat, NEW raw \in Nat, c + l <= raw, 2 * l > raw
  PROVE  ~ 2 * c >= raw
OBVIOUS

(* A cleaned document of segments, more than half of whose lines are lost, *)
(* fails the check.                                                        *)
LEMMA LossFailsTheCheck ==
  ASSUME IsNumbered(segments), \A i \in DOMAIN segments : IsSegment(segments[i]),
         output.segments = Cleanup(FormatSegments(InOrder, segments)),
         output.validation = Validate(output.segments, Total(segments, Len)),
         2 * Cardinality(Lost) > Total(segments, Len)
  PROVE  ~ output.validation.line_conservation
<1> DEFINE c == CountSegmentLines(output.segments)
           l == Cardinality(Lost)
           raw == Total(segments, Len)
<1>1. c \in Nat /\ raw \in Nat /\ l \in Nat /\ c + l <= raw
  BY LossIsNotCounted
<1>2. output.validation.line_conservation = LineConservation(output.segments, raw)
  <2> DEFINE v == Validate(output.segments, raw)
  <2>1. v.line_conservation = LineConservation(output.segments, raw)
    BY DEF Validate
  <2>2. output.validation = v
    OBVIOUS
  <2> HIDE DEF v, raw
  <2> QED BY <2>1, <2>2
<1>3. 2 * l > raw
  OBVIOUS
<1>4. LineConservation(output.segments, raw) => 2 * c >= raw
  BY DEF LineConservation
<1> HIDE DEF c, l, raw
<1>5. ~ 2 * c >= raw
  BY <1>1, <1>3, LessThanHalf
<1> QED BY <1>2, <1>4, <1>5

-----------------------------------------------------------------------------
(* The segments of a document *)

(* Lines are empty or not by their shape alone.                            *)
LEMMA LinesOfShapes ==
  /\ Blank \in LineObject
  /\ \A l \in LineObject : L(l.shape) \in LineObject /\ (IsEmpty(L(l.shape)) <=> IsEmpty(l))
<1>1. "blank" \in Shapes
  BY DEF Shapes, Vocabulary
<1> QED BY <1>1 DEF Blank, L, LineObject, IsEmpty

(* A normalized text that began with a line begins with a line.            *)
LEMMA NormalizedIs ==
  ASSUME NEW text \in Seq(LineObject), text # <<>>, ~ IsEmpty(text[1])
  PROVE  /\ IsSegment(Normalize(text)) /\ ~ IsEmpty(Normalize(text)[1])
<1> DEFINE blank(i) == i \in DOMAIN text /\ IsEmpty(text[i])
           squeezed == [i \in DOMAIN text |->
                     CASE blank(i) /\ blank(i + 1)                       -> Blank
                       [] ~ blank(i) /\ blank(i - 1) /\ blank(i - 2)     -> L(text[i].shape)
                       [] OTHER                                          -> text[i]]
           kept == {i \in DOMAIN text : ~ (blank(i) /\ blank(i - 1))}
           n == Len(text)
           lines == Normalize(text)
<1>1. n \in Nat /\ DOMAIN text = 1 .. n /\ n > 0 /\ \A i \in 1 .. n : text[i] \in LineObject
  OBVIOUS
<1>2. lines = At(squeezed, kept) /\ kept \in SUBSET (1 .. n)
  BY <1>1 DEF Normalize
<1>3. ~ blank(0) /\ ~ blank(1) /\ 1 \in kept
  BY <1>1
<1>4. squeezed[1] = text[1]
  BY <1>1, <1>3
<1>5. \A i \in 1 .. n : squeezed[i] \in LineObject
  BY <1>1, LinesOfShapes
<1> HIDE DEF squeezed, kept, n, blank, lines
<1>6. /\ Cardinality(kept) \in Nat /\ IsFiniteSet(kept) /\ DOMAIN lines = 1 .. Cardinality(kept)
      /\ \A k \in 1 .. Cardinality(kept) : lines[k] = squeezed[Nth(kept, k)] /\ Nth(kept, k) \in kept
      /\ \A i \in kept : \E k \in 1 .. Cardinality(kept) : Nth(kept, k) = i
  BY <1>1, <1>2, Taken
<1>7. 1 \in 1 .. Cardinality(kept)
  BY <1>3, <1>6
<1>8. Nth(kept, 1) = 1
  <2>1. {j \in kept : j <= 1} = {1}
    <3>1. \A j \in kept : j \in Int /\ j >= 1
      BY <1>1, <1>2
    <3>2. \A j \in kept : j <= 1 => j = 1
      BY <3>1
    <3> QED BY <1>3, <3>2
  <2>2. Cardinality({j \in kept : j <= 1}) = 1
    BY <2>1, FS_Singleton
  <2>3. kept \in SUBSET Nat
    BY <1>1, <1>2
  <2> QED BY <1>3, <1>6, <1>7, <2>2, <2>3, PlacesInOrder
<1>9. lines[1] = text[1]
  BY <1>4, <1>6, <1>7, <1>8
<1>10. \A k \in DOMAIN lines : lines[k] \in LineObject
  BY <1>2, <1>5, <1>6
<1>11. IsNumbered(lines) /\ DOMAIN lines # {}
  BY <1>6, <1>7 DEF IsNumbered
<1> QED BY <1>9, <1>10, <1>11 DEF IsSegment, lines

(* A segment with some line that is not empty is not empty when stripped.  *)
LEMMA StrippedIs ==
  ASSUME NEW s, IsSegment(s), NEW i \in DOMAIN s, ~ IsEmpty(s[i])
  PROVE  IsSegment(Strip(s))
<1> DEFINE full == {j \in DOMAIN s : ~ IsEmpty(s[j])}
           last == CHOOSE j \in DOMAIN s : ~ IsEmpty(s[j]) /\ \A k \in DOMAIN s : k > j => IsEmpty(s[k])
           r == Strip(s)
<1>1. Len(s) \in Nat /\ DOMAIN s = 1 .. Len(s)
  BY Numbered DEF IsSegment
<1>2. full \in SUBSET (1 .. Len(s)) /\ full \in SUBSET Nat /\ full # {}
  BY <1>1
<1>3. PICK g \in full : \A k \in full : k <= g
  <2>1. IsFiniteSet(full)
    <3> HIDE DEF full
    <3> QED BY <1>1, <1>2, Taken
  <2> HIDE DEF full
  <2> QED BY <1>2, <2>1, GreatestNatural
<1>4. ~ IsEmpty(s[g]) /\ g \in DOMAIN s /\ \A k \in DOMAIN s : k > g => IsEmpty(s[k])
  <2> SUFFICES ASSUME NEW k \in DOMAIN s, k > g, ~ IsEmpty(s[k]) PROVE FALSE
    OBVIOUS
  <2>1. k <= g /\ k \in Int /\ g \in Int
    BY <1>1, <1>3
  <2> QED BY <2>1
<1>5. last \in DOMAIN s
  BY <1>4
<1>6. r = [j \in 1 .. last |-> IF j = 1 THEN L(s[1].shape) ELSE s[j]]
  BY DEF Strip
<1> HIDE DEF last, r
<1>7. last \in Nat /\ last > 0 /\ 1 .. last \subseteq 1 .. Len(s)
  BY <1>1, <1>5
<1>8. \A j \in 1 .. last : r[j] \in LineObject
  <2>1. \A j \in 1 .. last : s[j] \in LineObject /\ L(s[j].shape) \in LineObject
    BY <1>1, <1>7, LinesOfShapes DEF IsSegment
  <2> QED BY <1>6, <2>1
<1> QED BY <1>6, <1>7, <1>8 DEF IsSegment, IsNumbered, r

(* A document is cut into segments that are not empty.                     *)
LEMMA SegmentsAre ==
  ASSUME NEW text \in Texts
  PROVE  /\ IsNumbered(RunCorePipeline(text))
         /\ \A k \in DOMAIN RunCorePipeline(text) : IsSegment(RunCorePipeline(text)[k])
<1> DEFINE lines == Normalize(text)
           n == Len(lines)
           splits == ComputeSplits(lines)
           later(i) == {j \in splits : j > i}
           next(i) == CHOOSE j \in later(i) : \A k \in later(i) : j <= k
           end(i) == IF later(i) = {} THEN Len(lines) ELSE next(i) - 1
           isTail(i) == end(i) = Len(lines) /\ ~ Marked(lines[i], "separator")
           kept == {i \in splits : isTail(i) \/ \E j \in i .. end(i) : IsAlnum(lines[j])}
           g == [i \in kept |-> Strip(SubSeq(lines, i, end(i)))]
           result == RunCorePipeline(text)
<1>1. IsSegment(lines) /\ ~ IsEmpty(lines[1])
  <2>1. text \in Seq(LineObject) /\ text # <<>> /\ ~ IsEmpty(text[1])
    BY TextAssumption
  <2> QED BY <2>1, NormalizedIs
<1>2. result = At(g, kept)
  BY DEF RunCorePipeline, SegmentText
<1>3. kept \subseteq splits
  OBVIOUS
<1> HIDE DEF lines, kept
<1>4. n \in Nat /\ n > 0 /\ DOMAIN lines = 1 .. n
  BY <1>1, Numbered DEF IsSegment
<1>5. splits \in SUBSET (1 .. n) /\ \A i \in splits : ~ IsEmpty(lines[i])
  BY <1>1, <1>4 DEF ComputeSplits
<1> HIDE DEF n, splits
<1>6. ASSUME NEW i \in splits PROVE end(i) \in i .. n
  <2>1. i \in 1 .. n
    BY <1>5
  <2>2. CASE later(i) = {}
    <3>1. end(i) = n
      BY <2>2 DEF n
    <3> QED BY <1>4, <2>1, <3>1
  <2>3. CASE later(i) # {}
    <3>1. later(i) \in SUBSET Nat
      <4>1. \A j \in splits : j \in Nat
        BY <1>4, <1>5
      <4> QED BY <4>1
    <3>2. \E j \in later(i) : \A k \in later(i) : j <= k
      <4> HIDE DEF later
      <4> QED BY <2>3, <3>1, LeastNatural
    <3>3. next(i) \in later(i)
      BY <3>2
    <3>4. next(i) \in 1 .. n /\ next(i) > i
      <4> HIDE DEF next
      <4> QED BY <1>5, <3>3
    <3>5. end(i) = next(i) - 1
      BY <2>3
    <3> HIDE DEF next, end
    <3> QED BY <1>4, <2>1, <3>4, <3>5
  <2> QED BY <2>2, <2>3
<1> HIDE DEF end
<1>7. ASSUME NEW i \in kept PROVE IsSegment(g[i])
  <2> DEFINE e == end(i)
             sub == SubSeq(lines, i, e)
             m == e - i + 1
  <2>1. i \in 1 .. n /\ e \in i .. n /\ i \in Int /\ e \in Int /\ m \in Nat /\ m > 0
    <3>1. i \in 1 .. n /\ e \in i .. n
      BY <1>3, <1>5, <1>6
    <3> HIDE DEF e
    <3> QED BY <1>4, <3>1
  <2>2. \A j \in i .. e : lines[j] \in LineObject
    <3> HIDE DEF e
    <3> QED BY <1>1, <1>4, <2>1 DEF IsSegment
  <2>3. sub \in Seq(LineObject) /\ Len(sub) = m /\ \A j \in 1 .. m : sub[j] = lines[i + j - 1]
    <3> HIDE DEF e
    <3> QED BY <2>1, <2>2, SubSeqProperties
  <2>4. g[i] = Strip(sub)
    OBVIOUS
  <2> HIDE DEF e, sub, m
  <2>5. 1 \in 1 .. m /\ i + 1 - 1 = i
    BY <2>1
  <2>6. sub[1] = lines[i] /\ ~ IsEmpty(lines[i])
    BY <1>3, <1>5, <2>3, <2>5
  <2>7. DOMAIN sub = 1 .. m /\ \A j \in 1 .. m : sub[j] \in LineObject
    BY <2>3
  <2>8. IsSegment(sub)
    BY <2>1, <2>5, <2>7 DEF IsSegment, IsNumbered
  <2> QED BY <2>4, <2>5, <2>6, <2>7, <2>8, StrippedIs
<1> HIDE DEF g, result
<1>8. /\ Cardinality(kept) \in Nat /\ DOMAIN result = 1 .. Cardinality(kept)
      /\ \A k \in 1 .. Cardinality(kept) : result[k] = g[Nth(kept, k)] /\ Nth(kept, k) \in kept
  <2>1. kept \in SUBSET (1 .. n)
    BY <1>3, <1>5
  <2> QED BY <1>2, <1>4, <2>1, Taken
<1> QED BY <1>7, <1>8 DEF IsNumbered, result

-----------------------------------------------------------------------------
(* The inductive invariant *)

Settled == {"done", "failed"}

(* What a segment comes to on its own, by how its thread ended.            *)
Outcome(payload, status) ==
  IF status = "failed" THEN ProseFallback
  ELSE CASE DecideRoute(payload) = "PASS_THROUGH" -> Bypass("prose", 100)
         [] DecideRoute(payload) = "JSON_NATIVE"  -> Bypass("kv_block", 100)
         [] OTHER                                 -> Structure(payload)

(* An envelope is that of its segment, routed as the segment is, and once  *)
(* it is settled holds what the segment comes to on its own.               *)
EnvelopeOK(e, payload, i) ==
  /\ DOMAIN e = {"sequence_index", "payload", "assigned_route", "status", "result"}
  /\ e.sequence_index = i
  /\ e.payload = payload
  /\ e.assigned_route = DecideRoute(payload)
  /\ e.status \in {"queued", "processing", "done", "failed"}
  /\ e.status = "processing" => ~ Bypasses(e)
  /\ e.status \in Settled => e.result = Outcome(payload, e.status)

EnvelopesOK ==
  /\ IsNumbered(segments)
  /\ envelopes = [i \in DOMAIN segments |-> envelopes[i]]
  /\ \A i \in DOMAIN segments : EnvelopeOK(envelopes[i], segments[i], i)

AllSettled == \A i \in DOMAIN segments : envelopes[i].status \in Settled

(* What is put out, checked against the lines of the segments.             *)
RawLines(payloads) == Total(payloads, Len)

Checked == output.validation = Validate(output.segments, RawLines(segments))

(* What each stage of the engine leaves behind. *)
PipelineInv ==
  /\ doc \in Texts
  /\ stage \in Stages
  /\ stage = "core" => segments = <<>> /\ envelopes = <<>>
  /\ stage # "core" => segments = RunCorePipeline(doc)
  /\ stage = "routing" => IsNumbered(segments) /\ envelopes = <<>>
  /\ stage = "processing" => EnvelopesOK
  /\ stage = "postprocess" => EnvelopesOK /\ AllSettled
  /\ stage = "done" =>
       \/ segments = <<>> /\ envelopes = <<>>
       \/ /\ EnvelopesOK /\ AllSettled
          /\ output.segments = Cleanup(FormatSegments(InOrder, segments))
          /\ Checked

(* What a segment comes to on its own depends on it and its thread alone.  *)
LEMMA AloneIsOutcome ==
  ASSUME NEW i
  PROVE  Alone(i) = Outcome(segments[i], envelopes[i].status)
BY DEF Alone, Outcome

-----------------------------------------------------------------------------
(* A fresh envelope waits for its thread.                                  *)
LEMMA RoutingStep ==
  ASSUME PipelineInv, RouteSegments
  PROVE  PipelineInv'
<1> DEFINE e(i) == Queued(PreClassifyDocument(segments)[i])
<1>1. /\ stage = "routing" /\ stage' = "processing"
      /\ envelopes' = [i \in DOMAIN segments |-> e(i)]
      /\ UNCHANGED <<doc, segments, completed, output>>
  BY DEF RouteSegments
<1>2. ASSUME NEW i \in DOMAIN segments PROVE EnvelopeOK(e(i), segments[i], i)
  BY <1>2 DEF PreClassifyDocument, PreClassify, Queued, EnvelopeOK, Settled
<1> HIDE DEF e
<1>3. EnvelopesOK'
  BY <1>1, <1>2 DEF PipelineInv, EnvelopesOK
<1> QED BY <1>1, <1>3 DEF PipelineInv, Stages

(* A thread that moves its own envelope to a proper one disturbs no other. *)
LEMMA ThreadStep ==
  ASSUME PipelineInv, stage = "processing", NEW i \in DOMAIN segments, NEW e,
         envelopes' = [envelopes EXCEPT ![i] = e], EnvelopeOK(e, segments[i], i),
         UNCHANGED <<doc, stage, segments, output>>
  PROVE  PipelineInv'
<1>1. EnvelopesOK
  BY DEF PipelineInv
<1>2. /\ DOMAIN envelopes = DOMAIN segments
      /\ \A j \in DOMAIN segments : envelopes'[j] = IF j = i THEN e ELSE envelopes[j]
      /\ envelopes' = [j \in DOMAIN segments |-> envelopes'[j]]
  BY <1>1 DEF EnvelopesOK
<1>3. EnvelopesOK'
  BY <1>1, <1>2 DEF EnvelopesOK
<1> QED BY <1>3 DEF PipelineInv

(* Threads finish or fail in any order without disturbing one another.     *)
LEMMA ThreadSteps ==
  ASSUME PipelineInv, NEW i \in DOMAIN envelopes,
         PassBy(i) \/ Submit(i) \/ Finish(i) \/ Fail(i)
  PROVE  PipelineInv'
<1> DEFINE old == envelopes[i]
<1>1. stage = "processing" /\ EnvelopesOK
  BY DEF PipelineInv, PassBy, Submit, Finish, Fail
<1>2. i \in DOMAIN segments /\ EnvelopeOK(old, segments[i], i)
  BY <1>1 DEF EnvelopesOK
<1>3. ASSUME NEW status \in Settled, NEW result, Complete(i, status, result),
             result = Outcome(segments[i], status)
      PROVE  PipelineInv'
  <2> DEFINE e == [old EXCEPT !.status = status, !.result = result]
  <2>1. envelopes' = [envelopes EXCEPT ![i] = e] /\ UNCHANGED <<doc, stage, segments, output>>
    BY <1>3, <1>1 DEF Complete, EnvelopesOK
  <2>2. EnvelopeOK(e, segments[i], i)
    BY <1>2, <1>3 DEF EnvelopeOK, Settled
  <2> HIDE DEF e
  <2> QED BY <1>1, <1>2, <2>1, <2>2, ThreadStep
<1>4. CASE PassBy(i)
  <2> DEFINE r == Bypass(IF old.assigned_route = "PASS_THROUGH" THEN "prose" ELSE "kv_block", 100)
  <2>1. Bypasses(old) /\ Complete(i, "done", r)
    BY <1>4 DEF PassBy
  <2>2. r = Outcome(segments[i], "done")
    BY <1>2, <2>1 DEF Outcome, EnvelopeOK, Bypasses
  <2> QED BY <1>3, <2>1, <2>2 DEF Settled
<1>5. CASE Submit(i)
  <2> DEFINE e == [old EXCEPT !.status = "processing"]
  <2>1. /\ envelopes' = [envelopes EXCEPT ![i] = e] /\ ~ Bypasses(old)
        /\ UNCHANGED <<doc, stage, segments, output>>
    BY <1>5 DEF Submit
  <2>2. EnvelopeOK(e, segments[i], i)
    BY <1>2, <2>1 DEF EnvelopeOK, Settled, Bypasses
  <2> HIDE DEF e
  <2> QED BY <1>1, <1>2, <2>1, <2>2, ThreadStep
<1>6. CASE Finish(i)
  <2>1. old.status = "processing" /\ Complete(i, "done", Structure(old.payload))
    BY <1>6 DEF Finish
  <2>2. ~ Bypasses(old) /\ old.payload = segments[i] /\ old.assigned_route = DecideRoute(segments[i])
    BY <1>2, <2>1 DEF EnvelopeOK
  <2>3. Structure(old.payload) = Outcome(segments[i], "done")
    BY <2>2 DEF Outcome, Bypasses
  <2> QED BY <1>3, <2>1, <2>3 DEF Settled
<1>7. CASE Fail(i)
  <2>1. Complete(i, "failed", ProseFallback) /\ ProseFallback = Outcome(segments[i], "failed")
    BY <1>7 DEF Fail, Outcome
  <2> QED BY <1>3, <2>1 DEF Settled
<1> QED BY <1>4, <1>5, <1>6, <1>7

(* Gathered by their places, the envelopes are as they were: whatever the  *)
(* order they were completed in.                                           *)
LEMMA GatheringKeeps ==
  ASSUME EnvelopesOK, NEW order
  PROVE  Reassemble(envelopes, order) = envelopes
<1> DEFINE all == {envelopes[i] : i \in DOMAIN envelopes}
<1>1. DOMAIN envelopes = DOMAIN segments
  BY DEF EnvelopesOK
<1>2. \A i \in DOMAIN envelopes : envelopes[i].sequence_index = i
  BY <1>1 DEF EnvelopesOK, EnvelopeOK
<1>3. ASSUME NEW k \in DOMAIN envelopes
      PROVE  (CHOOSE e \in all : e.sequence_index = k) = envelopes[k]
  <2>1. envelopes[k] \in all /\ envelopes[k].sequence_index = k
    BY <1>2
  <2>2. \A e \in all : e.sequence_index = k => e = envelopes[k]
    BY <1>2
  <2> HIDE DEF all
  <2> QED BY <2>1, <2>2
<1>4. Reassemble(envelopes, order) = [k \in DOMAIN envelopes |-> envelopes[k]]
  BY <1>3 DEF Reassemble
<1> QED BY <1>1, <1>4 DEF EnvelopesOK

(* Gathering by place gives the results in the order of the document.      *)
LEMMA GatherStep ==
  ASSUME PipelineInv, Gather
  PROVE  PipelineInv'
<1>1. /\ EnvelopesOK /\ stage = "processing" /\ stage' = "postprocess"
      /\ \A i \in DOMAIN envelopes : envelopes[i].status \in Settled
      /\ envelopes' = Reassemble(envelopes, completed)
      /\ UNCHANGED <<doc, segments, completed, output>>
  BY DEF PipelineInv, Gather, Settled
<1>2. envelopes' = envelopes
  BY <1>1, GatheringKeeps
<1>3. EnvelopesOK' /\ AllSettled'
  BY <1>1, <1>2 DEF EnvelopesOK, AllSettled
<1> QED BY <1>1, <1>3 DEF PipelineInv, Stages

(* What is put out is made of the outcomes, in the order of the segments.  *)
LEMMA PostprocessStep ==
  ASSUME PipelineInv, RunPostprocess
  PROVE  PipelineInv'
<1> DEFINE results == [i \in DOMAIN envelopes |-> envelopes[i].result]
           cleaned == Cleanup(FormatSegments(results, segments))
<1>1. /\ stage = "postprocess" /\ stage' = "done" /\ EnvelopesOK /\ AllSettled
      /\ output' = [segments |-> cleaned, validation |-> Validate(cleaned, RawLines(segments))]
      /\ UNCHANGED <<doc, segments, envelopes, completed>>
  BY DEF PipelineInv, RunPostprocess, RawLines
<1>2. \A i \in DOMAIN segments : envelopes[i].result = Alone(i)
  BY <1>1, AloneIsOutcome DEF EnvelopesOK, AllSettled, EnvelopeOK
<1>3. results = InOrder
  BY <1>1, <1>2 DEF EnvelopesOK, InOrder
<1>4. InOrder' = InOrder
  BY <1>1 DEF InOrder, Alone
<1> HIDE DEF results
<1>5. output'.segments = Cleanup(FormatSegments(InOrder', segments'))
  BY <1>1, <1>3, <1>4
<1>6. EnvelopesOK' /\ AllSettled'
  BY <1>1 DEF EnvelopesOK, AllSettled
<1>7. Checked'
  <2>1. output'.validation = Validate(output'.segments, RawLines(segments'))
    BY <1>1
  <2> QED BY <2>1 DEF Checked
<1>8. doc' \in Texts /\ stage' \in Stages /\ segments' = RunCorePipeline(doc')
  BY <1>1 DEF PipelineInv, Stages
<1> QED BY <1>1, <1>5, <1>6, <1>7, <1>8 DEF PipelineInv

(* Initially there are no envelopes.                                       *)
LEMMA PipelineInit == Init => PipelineInv
BY DEF Init, PipelineInv, Stages

(* Every step keeps the envelopes in place.                                *)
LEMMA PipelineStep == PipelineInv /\ [Next]_vars => PipelineInv'
<1> SUFFICES ASSUME PipelineInv, [Next]_vars PROVE PipelineInv'
  OBVIOUS
<1>1. CASE RunCore
  <2>1. /\ segments' = RunCorePipeline(doc) /\ UNCHANGED <<doc, envelopes, completed, output>>
        /\ stage' = IF segments' = <<>> THEN "done" ELSE "routing"
        /\ envelopes = <<>> /\ doc \in Texts
    BY <1>1 DEF RunCore, PipelineInv
  <2>2. IsNumbered(segments')
    BY <2>1, SegmentsAre
  <2>3. CASE segments' = <<>>
    BY <2>1, <2>3 DEF PipelineInv, Stages
  <2>4. CASE segments' # <<>>
    BY <2>1, <2>2, <2>4 DEF PipelineInv, Stages, IsNumbered
  <2> QED BY <2>3, <2>4
<1>2. CASE RouteSegments
  BY <1>2, RoutingStep
<1>3. ASSUME NEW i \in DOMAIN envelopes, PassBy(i) \/ Submit(i) \/ Finish(i) \/ Fail(i)
      PROVE  PipelineInv'
  BY <1>3, ThreadSteps
<1>4. CASE Gather
  BY <1>4, GatherStep
<1>5. CASE RunPostprocess
  BY <1>5, PostprocessStep
<1>6. CASE UNCHANGED vars
  <2>1. InOrder' = InOrder
    BY <1>6 DEF vars, InOrder, Alone
  <2>2. (EnvelopesOK' <=> EnvelopesOK) /\ (AllSettled' <=> AllSettled)
    BY <1>6 DEF vars, EnvelopesOK, AllSettled
  <2>3. Checked' <=> Checked
    BY <1>6 DEF vars, Checked
  <2> QED BY <1>6, <2>1, <2>2, <2>3 DEF vars, PipelineInv
<1> QED BY <1>1, <1>2, <1>3, <1>4, <1>5, <1>6 DEF Next

(* The inductive invariant holds in every state.                           *)
LEMMA PipelineAlways == Spec => []PipelineInv
BY PipelineInit, PipelineStep, PTL DEF Spec

-----------------------------------------------------------------------------
(* The routes are six. *)
LEMMA RoutesAreKnown ==
  ASSUME NEW lines
  PROVE  DecideRoute(lines) \in Routes
<1> DEFINE s == ExtractSignals(lines)
           candidates == EvaluateCandidates(s)
           clear == {c \in candidates : \A d \in candidates \ {c} : c.score - d.score >= 150000}
<1>1. \A c \in candidates : c.route \in {"TABLE", "TREE", "KV"}
  BY DEF EvaluateCandidates
<1>2. DecideRoute(lines) = RouteBy(lines, s, candidates)
  BY DEF DecideRoute, RouteWith
<1> HIDE DEF candidates, s
<1>3. clear # {} => (CHOOSE c \in clear : TRUE) \in candidates
  OBVIOUS
<1>4. RouteBy(lines, s, candidates) \in Routes
  BY <1>1, <1>3 DEF RouteBy, Routes
<1> QED BY <1>2, <1>4

(* The envelopes are those of the segments, in order.                      *)
THEOREM EnvelopesKeepTheirPlaces == Spec => []TypeOK
<1>1. PipelineInv => TypeOK
  <2> SUFFICES ASSUME PipelineInv PROVE TypeOK
    OBVIOUS
  <2>1. doc \in Texts \cap Seq(LineObject) /\ stage \in Stages
    BY TextAssumption DEF PipelineInv
  <2>2. ASSUME NEW i \in DOMAIN envelopes
        PROVE  /\ envelopes[i].sequence_index = i
               /\ envelopes[i].payload = segments[i]
               /\ envelopes[i].assigned_route \in Routes
               /\ envelopes[i].status \in {"queued", "processing", "done", "failed"}
    <3>1. DOMAIN <<>> = {}
      OBVIOUS
    <3>2. EnvelopesOK
      BY <2>1, <2>2, <3>1 DEF PipelineInv, Stages
    <3>3. EnvelopeOK(envelopes[i], segments[i], i)
      BY <3>2, <2>2 DEF EnvelopesOK
    <3>4. DecideRoute(segments[i]) \in Routes
      BY RoutesAreKnown
    <3> QED BY <3>3, <3>4 DEF EnvelopeOK
  <2> QED BY <2>1, <2>2 DEF TypeOK
<1> QED BY <1>1, PipelineAlways, PTL

(* What comes out does not depend on the order the threads finished in.    *)
THEOREM OutOfOrderIsSafe == Spec => []OrderDoesNotMatter
<1>1. PipelineInv => OrderDoesNotMatter
  <2> SUFFICES ASSUME PipelineInv, Done
               PROVE  /\ Len(envelopes) = Len(segments)
                      /\ output.segments = Cleanup(FormatSegments(InOrder, segments))
    BY DEF OrderDoesNotMatter, InOrder
  <2>1. EnvelopesOK /\ output.segments = Cleanup(FormatSegments(InOrder, segments))
    BY DEF PipelineInv, Done
  <2>2. PICK n \in Nat : DOMAIN segments = 1 .. n
    BY <2>1 DEF EnvelopesOK, IsNumbered
  <2>3. DOMAIN envelopes = 1 .. n
    BY <2>1, <2>2 DEF EnvelopesOK
  <2>4. \A s : DOMAIN s = 1 .. n => Len(s) = n
    OBVIOUS
  <2> QED BY <2>1, <2>2, <2>3, <2>4
<1> QED BY <1>1, PipelineAlways, PTL

(* A document that lost more than half of its lines fails the check.       *)
THEOREM GrossLossFailsTheCheck == Spec => []GrossLossIsSeen
<1>1. PipelineInv => GrossLossIsSeen
  <2> SUFFICES ASSUME PipelineInv, Done, 2 * Cardinality(Lost) > Total(segments, Len)
               PROVE  ~ output.validation.line_conservation
    BY DEF GrossLossIsSeen
  <2>1. /\ output.segments = Cleanup(FormatSegments(InOrder, segments))
        /\ Checked
        /\ doc \in Texts /\ segments = RunCorePipeline(doc)
    BY DEF PipelineInv, Done
  <2>2. IsNumbered(segments) /\ \A i \in DOMAIN segments : IsSegment(segments[i])
    BY <2>1, SegmentsAre
  <2> QED BY <2>1, <2>2, LossFailsTheCheck DEF Checked, RawLines
<1> QED BY <1>1, PipelineAlways, PTL

-----------------------------------------------------------------------------
(* The words of a text *)

Worded(s) == {i \in DOMAIN s : IsAlnum(s[i])}

(* The lines of one sequence that have a letter or digit are, in order,    *)
(* those of the other, by the places the map takes them to.                *)
InStep(g, s, t) ==
  /\ \A i \in Worded(s) : g[i] \in Worded(t) /\ t[g[i]].shape = s[i].shape
  /\ \A i, j \in Worded(s) : i < j => g[i] < g[j]
  /\ \A q \in Worded(t) : \E i \in Worded(s) : g[i] = q

(* What is moved without being joined keeps its number.                    *)
LEMMA MovedSize ==
  ASSUME NEW S, IsFiniteSet(S), NEW g, \A i, j \in S : g[i] = g[j] => i = j
  PROVE  Cardinality({g[i] : i \in S}) = Cardinality(S)
<1> DEFINE T == {g[i] : i \in S}
           f == [i \in S |-> g[i]]
<1>1. f \in [S -> T] /\ (\A i, j \in S : f[i] = f[j] => i = j) /\ \A p \in T : \E i \in S : f[i] = p
  OBVIOUS
<1>2. f \in Injection(S, T) /\ f \in Surjection(S, T)
  <2> HIDE DEF f, T
  <2> QED BY <1>1 DEF Injection, IsInjective, Surjection
<1>3. ExistsBijection(S, T)
  <2> HIDE DEF f, T
  <2> QED BY <1>2 DEF ExistsBijection, Bijection
<1> QED BY <1>3, FS_Bijection

(* The words of a sequence are the shapes of its worded lines.             *)
LEMMA WordsAre ==
  ASSUME NEW s, IsNumbered(s)
  PROVE  LET A == Worded(s)
         IN  /\ A \in SUBSET (1 .. Len(s)) /\ Len(s) \in Nat /\ DOMAIN s = 1 .. Len(s)
             /\ IsFiniteSet(A) /\ A \in SUBSET Nat
             /\ Words(s) = [k \in 1 .. Cardinality(A) |-> s[Nth(A, k)].shape]
<1> DEFINE A == Worded(s)
<1>1. Len(s) \in Nat /\ DOMAIN s = 1 .. Len(s)
  BY Numbered
<1>2. A \in SUBSET (1 .. Len(s))
  BY <1>1 DEF Worded
<1>3. Where(s, IsAlnum) = At(s, A)
  BY DEF Where, Worded
<1> HIDE DEF A
<1>4. /\ IsFiniteSet(A) /\ DOMAIN At(s, A) = 1 .. Cardinality(A)
      /\ \A k \in 1 .. Cardinality(A) : At(s, A)[k] = s[Nth(A, k)]
  BY <1>1, <1>2, Taken
<1>5. Words(s) = [k \in 1 .. Cardinality(A) |-> s[Nth(A, k)].shape]
  <2>1. Words(s) = [k \in DOMAIN At(s, A) |-> At(s, A)[k].shape]
    BY <1>3 DEF Words
  <2>2. \A k \in 1 .. Cardinality(A) : At(s, A)[k].shape = s[Nth(A, k)].shape
    BY <1>4
  <2>3. Words(s) = [k \in 1 .. Cardinality(A) |-> At(s, A)[k].shape]
    BY <1>4, <2>1
  <2> QED BY <2>2, <2>3
<1>6. A \in SUBSET Nat
  BY <1>1, <1>2
<1> QED BY <1>1, <1>2, <1>4, <1>5, <1>6 DEF A

(* Two sequences in step have the same words.                              *)
LEMMA WordsInStep ==
  ASSUME NEW s, IsNumbered(s), NEW t, IsNumbered(t), NEW g, InStep(g, s, t)
  PROVE  Words(s) = Words(t)
<1> DEFINE A == Worded(s)
           B == Worded(t)
           N == Cardinality(A)
<1>1. /\ A \in SUBSET Nat /\ IsFiniteSet(A)
      /\ Words(s) = [k \in 1 .. Cardinality(A) |-> s[Nth(A, k)].shape]
  BY WordsAre
<1>2. /\ B \in SUBSET Nat /\ IsFiniteSet(B)
      /\ Words(t) = [k \in 1 .. Cardinality(B) |-> t[Nth(B, k)].shape]
  BY WordsAre
<1>3. /\ \A i \in A : g[i] \in B /\ t[g[i]].shape = s[i].shape
      /\ \A i, j \in A : i < j => g[i] < g[j]
      /\ \A q \in B : \E i \in A : g[i] = q
  BY DEF InStep
<1> HIDE DEF A, B
<1>4. \A i \in A : i \in Int /\ g[i] \in Int
  <2>1. (\A i \in A : i \in Int) /\ \A q \in B : q \in Int
    BY <1>1, <1>2
  <2>2. \A i \in A : g[i] \in B
    BY <1>3
  <2> QED BY <2>1, <2>2
<1>5. \A i, j \in A : (g[i] = g[j] => i = j) /\ (g[i] <= g[j] <=> i <= j)
  <2> SUFFICES ASSUME NEW i \in A, NEW j \in A
               PROVE  (g[i] = g[j] => i = j) /\ (g[i] <= g[j] <=> i <= j)
    OBVIOUS
  <2>1. i \in Int /\ j \in Int /\ g[i] \in Int /\ g[j] \in Int
    BY <1>4
  <2>2. (i < j => g[i] < g[j]) /\ (j < i => g[j] < g[i])
    BY <1>3
  <2> QED BY <2>1, <2>2
<1>6. Cardinality(B) = N
  <2>1. B = {g[i] : i \in A}
    BY <1>3
  <2>2. \A i, j \in A : g[i] = g[j] => i = j
    BY <1>5
  <2>3. Cardinality({g[i] : i \in A}) = Cardinality(A)
    BY <1>1, <2>2, MovedSize
  <2> QED BY <2>1, <2>3
<1>7. ASSUME NEW k \in 1 .. N PROVE t[Nth(B, k)].shape = s[Nth(A, k)].shape
  <2> DEFINE i == Nth(A, k)
             below == {x \in A : x <= i}
  <2>1. i \in A /\ Cardinality(below) = k
    BY <1>1, PlacesInOrder
  <2> HIDE DEF i
  <2>2. {q \in B : q <= g[i]} = {g[x] : x \in below}
    <3>1. ASSUME NEW q \in B, q <= g[i] PROVE \E x \in below : g[x] = q
      <4>1. PICK x \in A : g[x] = q
        BY <1>3
      <4>2. x <= i
        BY <1>5, <2>1, <3>1, <4>1
      <4> QED BY <4>1, <4>2
    <3>2. \A x \in below : g[x] \in B /\ g[x] <= g[i]
      BY <1>3, <1>5, <2>1
    <3> HIDE DEF below
    <3> QED BY <3>1, <3>2
  <2>3. Cardinality({g[x] : x \in below}) = Cardinality(below)
    <3>1. below \in SUBSET A
      OBVIOUS
    <3> HIDE DEF below
    <3>2. IsFiniteSet(below)
      BY <1>1, <3>1, FS_Subset
    <3>3. \A x, y \in below : g[x] = g[y] => x = y
      BY <1>5, <3>1
    <3> QED BY <3>2, <3>3, MovedSize
  <2>4. Cardinality({q \in B : q <= g[i]}) = k
    BY <2>1, <2>2, <2>3
  <2>5. g[i] \in B /\ k \in 1 .. Cardinality(B)
    BY <1>3, <1>6, <2>1
  <2>6. Nth(B, k) = g[i]
    <3>1. \A x \in B, l \in 1 .. Cardinality(B) : Cardinality({j \in B : j <= x}) = l => Nth(B, l) = x
      BY <1>2, PlacesInOrder
    <3> QED BY <2>4, <2>5, <3>1
  <2> QED BY <1>3, <2>1, <2>6 DEF i
<1> QED BY <1>1, <1>2, <1>6, <1>7

KeptLines(text) ==
  {i \in DOMAIN text : ~ (IsEmpty(text[i]) /\ i - 1 \in DOMAIN text /\ IsEmpty(text[i - 1]))}

(* Normalizing drops all but the first of several empty lines, and moves   *)
(* no other line.                                                          *)
LEMMA NormalizedFrom ==
  ASSUME NEW text \in Seq(LineObject)
  PROVE  LET K == KeptLines(text)
             lines == Normalize(text)
         IN  /\ K \in SUBSET (1 .. Len(text)) /\ Len(text) \in Nat /\ DOMAIN text = 1 .. Len(text)
             /\ Cardinality(K) \in Nat /\ DOMAIN lines = 1 .. Cardinality(K)
             /\ \A k \in 1 .. Cardinality(K) : Nth(K, k) \in K /\ lines[k].shape = text[Nth(K, k)].shape
             /\ \A k, l \in 1 .. Cardinality(K) : k < l => Nth(K, k) < Nth(K, l)
             /\ \A i \in K : \E k \in 1 .. Cardinality(K) : Nth(K, k) = i
<1> DEFINE blank(i) == i \in DOMAIN text /\ IsEmpty(text[i])
           squeezed == [i \in DOMAIN text |->
                     CASE blank(i) /\ blank(i + 1)                       -> Blank
                       [] ~ blank(i) /\ blank(i - 1) /\ blank(i - 2)     -> L(text[i].shape)
                       [] OTHER                                          -> text[i]]
           kept == {i \in DOMAIN text : ~ (blank(i) /\ blank(i - 1))}
           n == Len(text)
           lines == Normalize(text)
<1>1. n \in Nat /\ DOMAIN text = 1 .. n /\ \A i \in 1 .. n : text[i] \in LineObject
  OBVIOUS
<1>2. lines = At(squeezed, kept)
  BY DEF Normalize
<1>3. kept = KeptLines(text)
  BY DEF KeptLines
<1>4. ASSUME NEW i \in DOMAIN text PROVE squeezed[i].shape = text[i].shape
  <2>1. CASE blank(i) /\ blank(i + 1)
    <3>1. squeezed[i] = Blank
      BY <2>1
    <3> QED BY <2>1, <3>1 DEF Blank, L, IsEmpty
  <2>2. CASE ~ blank(i) /\ blank(i - 1) /\ blank(i - 2)
    <3>1. squeezed[i] = L(text[i].shape)
      BY <2>2
    <3> QED BY <3>1 DEF L
  <2>3. CASE ~ (blank(i) /\ blank(i + 1)) /\ ~ (~ blank(i) /\ blank(i - 1) /\ blank(i - 2))
    <3>1. squeezed[i] = text[i]
      BY <2>3
    <3> QED BY <3>1
  <2> QED BY <2>1, <2>2, <2>3
<1>5. kept \in SUBSET (1 .. n)
  BY <1>1
<1> HIDE DEF squeezed, kept, n, blank, lines
<1>6. /\ Cardinality(kept) \in Nat /\ DOMAIN lines = 1 .. Cardinality(kept)
      /\ \A k \in 1 .. Cardinality(kept) : lines[k] = squeezed[Nth(kept, k)] /\ Nth(kept, k) \in kept
      /\ \A k, l \in 1 .. Cardinality(kept) : k < l => Nth(kept, k) < Nth(kept, l)
      /\ \A i \in kept : \E k \in 1 .. Cardinality(kept) : Nth(kept, k) = i
  BY <1>1, <1>2, <1>5, Taken
<1>7. \A k \in 1 .. Cardinality(kept) : lines[k].shape = text[Nth(kept, k)].shape
  BY <1>1, <1>4, <1>5, <1>6
<1> QED BY <1>1, <1>3, <1>5, <1>6, <1>7 DEF lines, n

(* A line with a letter or digit is neither empty nor a separator.         *)
LEMMA WordedLines ==
  ASSUME NEW l, l.shape \in Shapes, IsAlnum(l)
  PROVE  ~ IsEmpty(l) /\ ~ Marked(l, "ruled")
<1>1. Shapes = {"blank", "sep", "rule", "total", "notes", "due", "prose", "remark", "header", "row", "audit", "csv", "pipe", "log", "item", "node", "trail", "value", "leaf", "code", "json"}
  BY DEF Shapes, Vocabulary
<1>2. ~ Vocabulary.blank.alnum /\ ~ Vocabulary.sep.alnum /\ ~ Vocabulary.rule.alnum
  BY DEF Vocabulary, Plain
<1>3. /\ "ruled" \notin Vocabulary.total.marks
      /\ "ruled" \notin Vocabulary.notes.marks
      /\ "ruled" \notin Vocabulary.due.marks
      /\ "ruled" \notin Vocabulary.prose.marks
      /\ "ruled" \notin Vocabulary.remark.marks
      /\ "ruled" \notin Vocabulary.header.marks
      /\ "ruled" \notin Vocabulary.row.marks
      /\ "ruled" \notin Vocabulary.audit.marks
      /\ "ruled" \notin Vocabulary.csv.marks
      /\ "ruled" \notin Vocabulary.pipe.marks
      /\ "ruled" \notin Vocabulary.log.marks
      /\ "ruled" \notin Vocabulary.item.marks
      /\ "ruled" \notin Vocabulary.node.marks
      /\ "ruled" \notin Vocabulary.trail.marks
      /\ "ruled" \notin Vocabulary.value.marks
      /\ "ruled" \notin Vocabulary.leaf.marks
      /\ "ruled" \notin Vocabulary.code.marks
      /\ "ruled" \notin Vocabulary.json.marks
  BY DEF Vocabulary, Plain
<1>4. \A s \in Shapes \ {"blank", "sep", "rule"} : "ruled" \notin Vocabulary[s].marks /\ s # "blank"
  BY <1>1, <1>3
<1>5. l.shape \notin {"blank", "sep", "rule"}
  BY <1>2 DEF IsAlnum
<1> QED BY <1>4, <1>5 DEF IsEmpty, Marked

(* Normalizing a text keeps its words.                                     *)
LEMMA NormalizingKeepsWords ==
  ASSUME NEW text \in Seq(LineObject)
  PROVE  Words(Normalize(text)) = Words(text)
<1> DEFINE K == KeptLines(text)
           lines == Normalize(text)
           g == [k \in 1 .. Cardinality(K) |-> Nth(K, k)]
<1>1. /\ K \in SUBSET (1 .. Len(text)) /\ Len(text) \in Nat /\ DOMAIN text = 1 .. Len(text)
      /\ Cardinality(K) \in Nat /\ DOMAIN lines = 1 .. Cardinality(K)
      /\ \A k \in 1 .. Cardinality(K) : Nth(K, k) \in K /\ lines[k].shape = text[Nth(K, k)].shape
      /\ \A k, l \in 1 .. Cardinality(K) : k < l => Nth(K, k) < Nth(K, l)
      /\ \A i \in K : \E k \in 1 .. Cardinality(K) : Nth(K, k) = i
  BY NormalizedFrom
<1>2. \A i \in 1 .. Len(text) : text[i].shape \in Shapes
  <2>1. \A i \in 1 .. Len(text) : text[i] \in LineObject
    BY <1>1
  <2> QED BY <2>1 DEF LineObject
<1>3. \A i \in Worded(text) : i \in K
  BY <1>1, <1>2, WordedLines DEF Worded, KeptLines
<1>4. \A k \in 1 .. Cardinality(K) : g[k] = Nth(K, k)
  OBVIOUS
<1> HIDE DEF K, lines, g
<1>5. ASSUME NEW k \in Worded(lines) PROVE g[k] \in Worded(text) /\ text[g[k]].shape = lines[k].shape
  <2>1. k \in 1 .. Cardinality(K) /\ IsAlnum(lines[k])
    BY <1>1 DEF Worded
  <2>2. g[k] \in DOMAIN text /\ text[g[k]].shape = lines[k].shape
    BY <1>1, <1>4, <2>1
  <2> QED BY <2>1, <2>2 DEF Worded, IsAlnum
<1>6. \A k, l \in Worded(lines) : k < l => g[k] < g[l]
  BY <1>1, <1>4 DEF Worded
<1>7. ASSUME NEW i \in Worded(text) PROVE \E k \in Worded(lines) : g[k] = i
  <2>1. PICK k \in 1 .. Cardinality(K) : Nth(K, k) = i
    BY <1>1, <1>3
  <2>2. IsAlnum(lines[k])
    BY <1>1, <2>1 DEF Worded, IsAlnum
  <2> QED BY <1>1, <1>4, <2>1, <2>2 DEF Worded
<1>8. InStep(g, lines, text)
  BY <1>5, <1>6, <1>7 DEF InStep
<1>9. IsNumbered(lines) /\ IsNumbered(text)
  BY <1>1 DEF IsNumbered
<1> QED BY <1>8, <1>9, WordsInStep DEF lines

(* Nor do two empty lines follow one another then.                         *)
LEMMA NormalizedIsTight ==
  ASSUME NEW text \in Seq(LineObject), NEW k, k \in DOMAIN Normalize(text), k + 1 \in DOMAIN Normalize(text)
  PROVE  ~ (IsEmpty(Normalize(text)[k]) /\ IsEmpty(Normalize(text)[k + 1]))
<1> DEFINE K == KeptLines(text)
           lines == Normalize(text)
           N == Cardinality(K)
<1>1. /\ K \in SUBSET (1 .. Len(text)) /\ Len(text) \in Nat /\ DOMAIN text = 1 .. Len(text)
      /\ N \in Nat /\ DOMAIN lines = 1 .. N
      /\ \A l \in 1 .. N : Nth(K, l) \in K /\ lines[l].shape = text[Nth(K, l)].shape
      /\ \A l, m \in 1 .. N : l < m => Nth(K, l) < Nth(K, m)
      /\ \A i \in K : \E l \in 1 .. N : Nth(K, l) = i
  BY NormalizedFrom
<1> DEFINE i == Nth(K, k)
           j == Nth(K, k + 1)
<1> HIDE DEF N, lines
<1>2. k \in 1 .. N /\ k + 1 \in 1 .. N /\ k \in Int
  BY <1>1 DEF lines
<1> SUFFICES ASSUME IsEmpty(lines[k]), IsEmpty(lines[k + 1]) PROVE FALSE
  BY DEF lines
<1>3. i \in K /\ j \in K /\ i < j /\ IsEmpty(text[i]) /\ IsEmpty(text[j])
  BY <1>1, <1>2 DEF IsEmpty
<1>4. i \in 1 .. Len(text) /\ j \in 1 .. Len(text)
  BY <1>1, <1>3
<1>5. ~ (j - 1 \in DOMAIN text /\ IsEmpty(text[j - 1]))
  BY <1>3 DEF KeptLines
<1> HIDE DEF i, j
<1>6. j - 1 \in DOMAIN text /\ j - 1 # i /\ j - 1 > i
  BY <1>1, <1>3, <1>4, <1>5
<1>7. j - 1 \in K
  BY <1>5, <1>6 DEF KeptLines
<1>8. PICK l \in 1 .. N : Nth(K, l) = j - 1
  BY <1>1, <1>7
<1>9. ~ l <= k /\ ~ k + 1 <= l
  <2>1. ~ l < k /\ l # k
    BY <1>1, <1>2, <1>4, <1>6, <1>8 DEF i
  <2>2. ~ k + 1 < l /\ l # k + 1
    BY <1>1, <1>2, <1>4, <1>6, <1>8 DEF j
  <2> QED BY <1>2, <2>1, <2>2
<1> QED BY <1>2, <1>9

(* What lies between two cuts, and which of it is kept.                    *)
CutEnd(lines, i) ==
  LET later == {j \in ComputeSplits(lines) : j > i}
  IN  IF later = {} THEN Len(lines) ELSE (CHOOSE j \in later : \A k \in later : j <= k) - 1

Cuts(lines) ==
  {i \in ComputeSplits(lines) :
     \/ CutEnd(lines, i) = Len(lines) /\ ~ Marked(lines[i], "separator")
     \/ \E j \in i .. CutEnd(lines, i) : IsAlnum(lines[j])}

(* A cut ends before the next one begins.                                  *)
LEMMA CutEnds ==
  ASSUME NEW lines, IsSegment(lines), ~ IsEmpty(lines[1]), NEW i \in ComputeSplits(lines)
  PROVE  /\ ComputeSplits(lines) \in SUBSET (1 .. Len(lines)) /\ ~ IsEmpty(lines[i])
         /\ CutEnd(lines, i) \in i .. Len(lines)
         /\ \A j \in ComputeSplits(lines) : j > i => CutEnd(lines, i) < j
         /\ \/ CutEnd(lines, i) = Len(lines)
            \/ \E j \in ComputeSplits(lines) : j = CutEnd(lines, i) + 1
<1> DEFINE n == Len(lines)
           S == ComputeSplits(lines)
           later == {j \in S : j > i}
           next == CHOOSE j \in later : \A k \in later : j <= k
           end == CutEnd(lines, i)
<1>1. n \in Nat /\ n > 0 /\ DOMAIN lines = 1 .. n
  BY Numbered DEF IsSegment
<1>2. S \in SUBSET (1 .. n) /\ \A j \in S : ~ IsEmpty(lines[j])
  BY <1>1 DEF ComputeSplits
<1>3. end = IF later = {} THEN n ELSE next - 1
  BY DEF CutEnd
<1>4. i \in 1 .. n
  BY <1>2
<1> HIDE DEF n, S, end
<1>5. CASE later = {}
  <2>1. end = n
    BY <1>3, <1>5
  <2>2. end \in i .. n
    BY <1>1, <1>4, <2>1
  <2>3. \A j \in S : ~ j > i
    BY <1>5
  <2> QED BY <1>2, <2>1, <2>2, <2>3 DEF n, S, end
<1>6. CASE later # {}
  <2>1. later \in SUBSET Nat
    <3>1. \A j \in S : j \in Nat
      BY <1>1, <1>2
    <3> QED BY <3>1
  <2>2. \E j \in later : \A k \in later : j <= k
    <3> HIDE DEF later
    <3> QED BY <1>6, <2>1, LeastNatural
  <2>3. next \in later /\ \A k \in later : next <= k
    <3> HIDE DEF later
    <3> QED BY <2>2
  <2>4. end = next - 1
    BY <1>3, <1>6
  <2> HIDE DEF next
  <2>5. next \in S /\ next > i /\ next \in 1 .. n
    BY <1>2, <2>3
  <2>6. end \in i .. n
    BY <1>1, <1>4, <2>4, <2>5
  <2>7. ASSUME NEW j \in S, j > i PROVE end < j
    <3>1. next <= j /\ j \in 1 .. n
      BY <1>2, <2>3, <2>7
    <3> QED BY <1>1, <2>4, <2>5, <3>1
  <2>8. next = end + 1
    BY <1>1, <2>4, <2>5
  <2> QED BY <1>2, <2>5, <2>6, <2>7, <2>8 DEF n, S, end
<1> QED BY <1>5, <1>6

(* The cuts that are kept follow one another, and every line with a letter *)
(* or digit is in one.                                                     *)
LEMMA CutsAre ==
  ASSUME NEW lines, IsSegment(lines), ~ IsEmpty(lines[1])
  PROVE  /\ Cuts(lines) \in SUBSET (1 .. Len(lines))
         /\ \A i \in Cuts(lines) : ~ IsEmpty(lines[i]) /\ CutEnd(lines, i) \in i .. Len(lines)
         /\ \A i, j \in Cuts(lines) : i < j => CutEnd(lines, i) < j
         /\ \A q \in Worded(lines) : \E i \in Cuts(lines) : q \in i .. CutEnd(lines, i)
<1> DEFINE n == Len(lines)
           S == ComputeSplits(lines)
<1>1. n \in Nat /\ n > 0 /\ DOMAIN lines = 1 .. n
  BY Numbered DEF IsSegment
<1>2. S \in SUBSET (1 .. n) /\ 1 \in S
  BY <1>1 DEF ComputeSplits
<1>3. \A i \in S : /\ ~ IsEmpty(lines[i]) /\ CutEnd(lines, i) \in i .. n
                   /\ \A j \in S : j > i => CutEnd(lines, i) < j
                   /\ CutEnd(lines, i) = n \/ \E j \in S : j = CutEnd(lines, i) + 1
  BY CutEnds
<1>4. Cuts(lines) \subseteq S
  BY DEF Cuts
<1> HIDE DEF S, n
<1>5. ASSUME NEW q \in Worded(lines)
      PROVE  \E i \in Cuts(lines) : q \in i .. CutEnd(lines, i)
  <2> DEFINE before == {i \in S : i <= q}
  <2>1. q \in 1 .. n /\ IsAlnum(lines[q])
    BY <1>1 DEF Worded
  <2>2. before \in SUBSET (1 .. n) /\ 1 \in before
    <3>1. 1 \in S /\ 1 <= q
      BY <1>1, <1>2, <2>1
    <3> QED BY <1>2, <3>1
  <2>3. PICK i \in before : \A k \in before : k <= i
    <3>0. before # {}
      BY <2>2
    <3> HIDE DEF before
    <3>1. IsFiniteSet(before)
      BY <1>1, <2>2, Taken
    <3>2. before \in SUBSET Nat
      BY <1>1, <2>2
    <3> QED BY <3>0, <3>1, <3>2, GreatestNatural
  <2>4. i \in S /\ i <= q /\ i \in 1 .. n
    BY <2>2
  <2> DEFINE e == CutEnd(lines, i)
  <2>5. e \in i .. n /\ (e = n \/ \E j \in S : j = e + 1)
    BY <1>3, <2>4
  <2> HIDE DEF e
  <2>6. q <= e
    <3> SUFFICES ASSUME e < q PROVE FALSE
      BY <1>1, <2>1, <2>4, <2>5
    <3>1. e # n
      BY <1>1, <2>1, <2>5
    <3>2. PICK j \in S : j = e + 1
      BY <2>5, <3>1
    <3>3. j \in before
      BY <1>1, <2>1, <2>4, <2>5, <3>2
    <3>4. j <= i
      BY <2>3, <3>3
    <3> QED BY <1>1, <2>4, <2>5, <3>2, <3>4
  <2>7. q \in i .. e
    BY <1>1, <2>1, <2>4, <2>5, <2>6
  <2> QED BY <2>1, <2>4, <2>7 DEF Cuts, S, e
<1>6. \A i, j \in Cuts(lines) : i < j => CutEnd(lines, i) < j
  <2> SUFFICES ASSUME NEW i \in Cuts(lines), NEW j \in Cuts(lines), i < j
               PROVE  CutEnd(lines, i) < j
    OBVIOUS
  <2>0. i \in S /\ j \in S
    BY <1>4
  <2>1. i \in S /\ j \in S /\ i \in Int /\ j \in Int
    BY <1>1, <1>2, <2>0
  <2>2. j > i
    BY <2>1
  <2> QED BY <1>3, <2>1, <2>2
<1> QED BY <1>2, <1>3, <1>4, <1>5, <1>6 DEF n

(* Stripping takes nothing but the empty lines at the end, and the blanks  *)
(* before the first line.                                                  *)
LEMMA StrippedTo ==
  ASSUME NEW s, IsSegment(s), ~ IsEmpty(s[1])
  PROVE  LET r == Strip(s)
         IN  /\ IsSegment(r) /\ IsList(r) /\ Len(r) \in 1 .. Len(s) /\ DOMAIN r = 1 .. Len(r)
             /\ \A j \in 1 .. Len(r) : r[j].shape = s[j].shape
             /\ ~ IsEmpty(r[Len(r)])
             /\ \A j \in 1 .. Len(s) : j > Len(r) => IsEmpty(s[j])
<1> DEFINE full == {j \in DOMAIN s : ~ IsEmpty(s[j])}
           last == CHOOSE j \in DOMAIN s : ~ IsEmpty(s[j]) /\ \A k \in DOMAIN s : k > j => IsEmpty(s[k])
           r == Strip(s)
<1>1. Len(s) \in Nat /\ DOMAIN s = 1 .. Len(s) /\ 1 \in DOMAIN s
  <2>1. Len(s) \in Nat /\ DOMAIN s = 1 .. Len(s) /\ DOMAIN s # {}
    BY Numbered DEF IsSegment
  <2> QED BY <2>1
<1>2. full \in SUBSET (1 .. Len(s)) /\ full \in SUBSET Nat /\ full # {}
  BY <1>1
<1>3. PICK g \in full : \A k \in full : k <= g
  <2>1. IsFiniteSet(full)
    <3> HIDE DEF full
    <3> QED BY <1>1, <1>2, Taken
  <2> HIDE DEF full
  <2> QED BY <1>2, <2>1, GreatestNatural
<1>4. ~ IsEmpty(s[g]) /\ g \in DOMAIN s /\ \A k \in DOMAIN s : k > g => IsEmpty(s[k])
  <2> SUFFICES ASSUME NEW k \in DOMAIN s, k > g, ~ IsEmpty(s[k]) PROVE FALSE
    OBVIOUS
  <2>1. k <= g /\ k \in Int /\ g \in Int
    BY <1>1, <1>3
  <2> QED BY <2>1
<1>5. last \in DOMAIN s /\ ~ IsEmpty(s[last]) /\ \A k \in DOMAIN s : k > last => IsEmpty(s[k])
  BY <1>4
<1>6. r = [j \in 1 .. last |-> IF j = 1 THEN L(s[1].shape) ELSE s[j]]
  BY DEF Strip
<1>7. IsSegment(r)
  BY <1>1, StrippedIs
<1> HIDE DEF last, r
<1>8. last \in 1 .. Len(s) /\ last \in Nat /\ DOMAIN r = 1 .. last /\ Len(r) = last
  BY <1>1, <1>5, <1>6
<1>9. \A j \in 1 .. last : r[j].shape = s[j].shape
  BY <1>6 DEF L
<1>10. ~ IsEmpty(r[last])
  <2>1. last \in 1 .. last
    BY <1>8
  <2> QED BY <1>5, <1>9, <2>1 DEF IsEmpty
<1>11. IsList(r)
  BY <1>6, <1>7 DEF IsList, IsSegment
<1> QED BY <1>1, <1>5, <1>7, <1>8, <1>9, <1>10, <1>11 DEF r

(* A segment begins and ends with a line that is not empty, and no two     *)
(* empty lines follow one another in it.                                   *)
Tight(s) ==
  /\ IsSegment(s) /\ IsList(s) /\ ~ IsEmpty(s[1]) /\ ~ IsEmpty(s[Len(s)])
  /\ \A j \in 1 .. Len(s) - 1 : ~ (IsEmpty(s[j]) /\ IsEmpty(s[j + 1]))

(* The segment holds, from the first on, the lines from one place to       *)
(* another, all of them that have a letter or digit.                       *)
IsCutOf(s, lines, a, e) ==
  /\ Tight(s) /\ Len(s) \in 1 .. e - a + 1
  /\ \A j \in 1 .. Len(s) : s[j].shape = lines[a + j - 1].shape
  /\ \A q \in a .. e : IsAlnum(lines[q]) => q - a + 1 \in 1 .. Len(s)

(* What is cut out and stripped is such a segment.                         *)
LEMMA CutIs ==
  ASSUME NEW lines, IsSegment(lines), NEW a \in 1 .. Len(lines), NEW e \in a .. Len(lines), ~ IsEmpty(lines[a]),
         \A j \in 1 .. Len(lines) - 1 : ~ (IsEmpty(lines[j]) /\ IsEmpty(lines[j + 1]))
  PROVE  IsCutOf(Strip(SubSeq(lines, a, e)), lines, a, e)
<1> DEFINE n == Len(lines)
           sub == SubSeq(lines, a, e)
           m == e - a + 1
           r == Strip(sub)
<1>1. n \in Nat /\ DOMAIN lines = 1 .. n /\ \A j \in 1 .. n : lines[j] \in LineObject
  BY Numbered DEF IsSegment
<1> HIDE DEF n
<1>2. a \in 1 .. n /\ e \in a .. n /\ a \in Int /\ e \in Int
  BY <1>1 DEF n
<1>3. m \in Nat /\ m > 0 /\ \A j \in a .. e : j \in 1 .. n
  BY <1>1, <1>2
<1>4. sub \in Seq(LineObject) /\ Len(sub) = m /\ \A j \in 1 .. m : sub[j] = lines[a + j - 1]
  <2>1. \A j \in a .. e : lines[j] \in LineObject
    BY <1>1, <1>3
  <2> QED BY <1>2, <2>1, SubSeqProperties
<1> HIDE DEF sub
<1>5. IsSegment(sub) /\ DOMAIN sub = 1 .. m
  <2>1. DOMAIN sub = 1 .. m /\ \A j \in 1 .. m : sub[j] \in LineObject
    BY <1>4
  <2>2. 1 \in 1 .. m
    BY <1>3
  <2> HIDE DEF m
  <2> QED BY <1>3, <2>1, <2>2 DEF IsSegment, IsNumbered
<1>6. ~ IsEmpty(sub[1])
  <2>1. 1 \in 1 .. m /\ a + 1 - 1 = a
    BY <1>2, <1>3
  <2>2. sub[1] = lines[a]
    BY <1>4, <2>1
  <2> QED BY <2>2
<1>7. /\ IsSegment(r) /\ IsList(r) /\ Len(r) \in 1 .. m /\ DOMAIN r = 1 .. Len(r)
      /\ \A j \in 1 .. Len(r) : r[j].shape = sub[j].shape
      /\ ~ IsEmpty(r[Len(r)])
      /\ \A j \in 1 .. m : j > Len(r) => IsEmpty(sub[j])
  BY <1>4, <1>5, <1>6, StrippedTo
<1> HIDE DEF r
<1> DEFINE c == Len(r)
<1>8. c \in 1 .. m /\ c \in Nat /\ \A j \in 1 .. c : j \in 1 .. m /\ a + j - 1 \in 1 .. n
  BY <1>2, <1>3, <1>7
<1> HIDE DEF c
<1>9. \A j \in 1 .. c : r[j].shape = lines[a + j - 1].shape
  BY <1>4, <1>7, <1>8 DEF c
<1>10. ~ IsEmpty(r[1])
  <2>1. 1 \in 1 .. c
    BY <1>8
  <2>2. r[1].shape = sub[1].shape
    BY <1>7, <2>1 DEF c
  <2> QED BY <1>6, <2>2 DEF IsEmpty
<1>11. ASSUME NEW j \in 1 .. c - 1, IsEmpty(r[j]), IsEmpty(r[j + 1]) PROVE FALSE
  <2> DEFINE x == a + j - 1
  <2>1. j \in 1 .. c /\ j + 1 \in 1 .. c /\ a + (j + 1) - 1 = x + 1
    BY <1>2, <1>8
  <2>2. x \in 1 .. n /\ x + 1 \in 1 .. n
    BY <1>8, <2>1
  <2>3. r[j].shape = lines[x].shape /\ r[j + 1].shape = lines[x + 1].shape
    BY <1>9, <2>1
  <2>4. IsEmpty(lines[x]) /\ IsEmpty(lines[x + 1])
    BY <1>11, <2>3 DEF IsEmpty
  <2> HIDE DEF x
  <2>5. x \in 1 .. n - 1
    BY <1>1, <2>2
  <2> QED BY <2>4, <2>5 DEF n
<1>12. ASSUME NEW q \in a .. e, IsAlnum(lines[q]) PROVE q - a + 1 \in 1 .. c
  <2> DEFINE j == q - a + 1
  <2>1. j \in 1 .. m /\ a + j - 1 = q /\ q \in 1 .. n
    BY <1>2, <1>3
  <2> HIDE DEF j
  <2>2. sub[j] = lines[q]
    BY <1>4, <2>1
  <2>3. lines[q].shape \in Shapes
    BY <1>1, <2>1 DEF LineObject
  <2>4. ~ IsEmpty(sub[j])
    BY <1>12, <2>2, <2>3, WordedLines
  <2>5. ~ j > c
    BY <1>7, <2>1, <2>4 DEF c
  <2>6. j \in 1 .. c
    BY <1>3, <1>8, <2>1, <2>5
  <2> QED BY <2>6 DEF j
<1>13. Tight(r)
  BY <1>7, <1>10, <1>11 DEF Tight, c
<1> QED BY <1>7, <1>9, <1>12, <1>13 DEF IsCutOf, c, r, sub

(* The segments of a document are its kept cuts, in order.                 *)
LEMMA SegmentsAreCuts ==
  ASSUME NEW text \in Texts
  PROVE  LET lines == Normalize(text)
             segs == RunCorePipeline(text)
             K == Cuts(lines)
         IN  /\ IsSegment(lines) /\ ~ IsEmpty(lines[1])
             /\ Cardinality(K) \in Nat /\ DOMAIN segs = 1 .. Cardinality(K)
             /\ \A k \in 1 .. Cardinality(K) :
                  Nth(K, k) \in K /\ IsCutOf(segs[k], lines, Nth(K, k), CutEnd(lines, Nth(K, k)))
             /\ \A k, l \in 1 .. Cardinality(K) : k < l => Nth(K, k) < Nth(K, l)
             /\ \A i \in K : \E k \in 1 .. Cardinality(K) : Nth(K, k) = i
<1> DEFINE lines == Normalize(text)
           segs == RunCorePipeline(text)
           K == Cuts(lines)
           g == [i \in K |-> Strip(SubSeq(lines, i, CutEnd(lines, i)))]
<1>1. text \in Seq(LineObject) /\ text # <<>> /\ ~ IsEmpty(text[1])
  BY TextAssumption
<1>2. IsSegment(lines) /\ ~ IsEmpty(lines[1])
  BY <1>1, NormalizedIs
<1>3. \A j \in 1 .. Len(lines) - 1 : ~ (IsEmpty(lines[j]) /\ IsEmpty(lines[j + 1]))
  <2> SUFFICES ASSUME NEW j \in 1 .. Len(lines) - 1 PROVE ~ (IsEmpty(lines[j]) /\ IsEmpty(lines[j + 1]))
    OBVIOUS
  <2>1. Len(lines) \in Nat /\ DOMAIN lines = 1 .. Len(lines)
    BY <1>2, Numbered DEF IsSegment
  <2> HIDE DEF lines
  <2>2. j \in DOMAIN lines /\ j + 1 \in DOMAIN lines
    BY <2>1
  <2> QED BY <1>1, <2>2, NormalizedIsTight DEF lines
<1>4. segs = At(g, K)
  BY DEF RunCorePipeline, SegmentText, Cuts, CutEnd
<1>5. /\ K \in SUBSET (1 .. Len(lines)) /\ Len(lines) \in Nat
      /\ \A i \in K : ~ IsEmpty(lines[i]) /\ CutEnd(lines, i) \in i .. Len(lines)
  <2> HIDE DEF lines
  <2>1. Len(lines) \in Nat
    BY <1>2, Numbered DEF IsSegment
  <2> QED BY <1>2, <2>1, CutsAre
<1>6. \A i \in K : g[i] = Strip(SubSeq(lines, i, CutEnd(lines, i)))
  OBVIOUS
<1> HIDE DEF lines, segs, K, g
<1>7. /\ Cardinality(K) \in Nat /\ DOMAIN segs = 1 .. Cardinality(K)
      /\ \A k \in 1 .. Cardinality(K) : segs[k] = g[Nth(K, k)] /\ Nth(K, k) \in K
      /\ \A k, l \in 1 .. Cardinality(K) : k < l => Nth(K, k) < Nth(K, l)
      /\ \A i \in K : \E k \in 1 .. Cardinality(K) : Nth(K, k) = i
  BY <1>4, <1>5, Taken
<1>8. ASSUME NEW k \in 1 .. Cardinality(K)
      PROVE  IsCutOf(segs[k], lines, Nth(K, k), CutEnd(lines, Nth(K, k)))
  <2> DEFINE a == Nth(K, k)
             e == CutEnd(lines, a)
  <2>1. a \in K /\ segs[k] = Strip(SubSeq(lines, a, e))
    BY <1>6, <1>7
  <2>2. a \in 1 .. Len(lines) /\ e \in a .. Len(lines) /\ ~ IsEmpty(lines[a])
    BY <1>5, <2>1
  <2> HIDE DEF a, e
  <2>3. IsCutOf(Strip(SubSeq(lines, a, e)), lines, a, e)
    BY <1>2, <1>3, <2>2, CutIs
  <2> QED BY <2>1, <2>3 DEF a, e
<1> QED BY <1>2, <1>7, <1>8 DEF lines, segs, K

(* Joining sequences is a concatenation.                                   *)
LEMMA JoinedWhole ==
  ASSUME NEW n \in Nat, NEW segs, DOMAIN segs = 1 .. n, NEW X, \A k \in 1 .. n : segs[k] \in Seq(X)
  PROVE  \E f : Concat(f, segs, n) /\ Joined(segs, LAMBDA s : s) = f[n]
<1> DEFINE Solution(f) == f = [k \in 0 .. n |-> IF k = 0 THEN <<>> ELSE f[k - 1] \o segs[k]]
           join == CHOOSE f : Solution(f)
<1>1. \E f : f = [k \in 0 .. n |-> IF k = 0 THEN <<>> ELSE f[k - 1] \o segs[k]]
  BY ConcatExists
<1>2. Solution(join)
  <2>1. \E f : Solution(f)
    BY <1>1
  <2> HIDE DEF Solution
  <2> QED BY <2>1
<1>3. Len(segs) = n
  OBVIOUS
<1>4. Joined(segs, LAMBDA s : s) = join[n]
  BY <1>3 DEF Joined
<1>5. Concat(join, segs, n)
  <2> HIDE DEF join
  <2>1. join = [k \in 0 .. n |-> IF k = 0 THEN <<>> ELSE join[k - 1] \o segs[k]]
    BY <1>2
  <2>2. join[0] = <<>>
    BY <2>1
  <2>3. ASSUME NEW k \in 1 .. n PROVE join[k] = join[k - 1] \o segs[k]
    <3>1. k \in 0 .. n /\ k # 0
      OBVIOUS
    <3> QED BY <2>1, <3>1
  <2> QED BY <2>2, <2>3 DEF Concat
<1> HIDE DEF join
<1> QED BY <1>4, <1>5

(* Sequences that hold the lines of a text, one after the other, from the  *)
(* places where they start.                                                *)
HoldInOrder(segs, n, lines, a, e) ==
  /\ \A k \in 1 .. n : IsCutOf(segs[k], lines, a[k], e[k]) /\ a[k] \in 1 .. Len(lines) /\ e[k] \in a[k] .. Len(lines)
  /\ \A k, l \in 1 .. n : k < l => e[k] < a[l]
  /\ \A q \in Worded(lines) : \E k \in 1 .. n : q \in a[k] .. e[k]

(* The place in the text of the i-th line of all segments.                 *)
Origin(f, segs, n, a, i) ==
  CHOOSE q : \E k \in 1 .. n : \E j \in DOMAIN segs[k] : i = Len(f[k - 1]) + j /\ q = a[k] + j - 1

(* Such sequences joined have the words of the text.                       *)
LEMMA JoiningKeepsWords ==
  ASSUME NEW n \in Nat, NEW segs, DOMAIN segs = 1 .. n, NEW lines, IsSegment(lines), NEW a, NEW e,
         HoldInOrder(segs, n, lines, a, e), NEW f, Concat(f, segs, n)
  PROVE  Words(f[n]) = Words(lines)
<1> DEFINE len(k) == Len(f[k])
           N == Len(lines)
           g == [i \in 1 .. Len(f[n]) |-> Origin(f, segs, n, a, i)]
<1>1. N \in Nat /\ DOMAIN lines = 1 .. N /\ IsNumbered(lines)
  BY Numbered DEF IsSegment
<1>2. \A k \in 1 .. n : /\ IsSegment(segs[k]) /\ IsList(segs[k]) /\ segs[k] \in Seq(LineObject)
                        /\ Len(segs[k]) \in Nat /\ DOMAIN segs[k] = 1 .. Len(segs[k])
  <2> SUFFICES ASSUME NEW k \in 1 .. n
               PROVE  /\ IsSegment(segs[k]) /\ IsList(segs[k]) /\ segs[k] \in Seq(LineObject)
                      /\ Len(segs[k]) \in Nat /\ DOMAIN segs[k] = 1 .. Len(segs[k])
    OBVIOUS
  <2>1. IsSegment(segs[k]) /\ IsList(segs[k])
    BY DEF HoldInOrder, IsCutOf, Tight
  <2> QED BY <2>1, ListIsSeq, Numbered DEF IsSegment
<1>3. /\ \A k \in 0 .. n : len(k) \in Nat
      /\ \A k \in 1 .. n : len(k) = len(k - 1) + Len(segs[k])
      /\ \A k, l \in 0 .. n : k <= l => len(k) <= len(l)
      /\ Landed(f, segs, n) /\ Drawn(f, segs, n)
      /\ Len(f[n]) \in Nat /\ DOMAIN f[n] = 1 .. Len(f[n])
  <2>1. \A k \in 1 .. n : segs[k] \in Seq(LineObject)
    BY <1>2
  <2>2. /\ \A k \in 0 .. n : f[k] \in Seq(LineObject) /\ Len(f[k]) \in Nat
        /\ \A k \in 1 .. n : Len(segs[k]) \in Nat /\ Len(f[k]) = Len(f[k - 1]) + Len(segs[k])
        /\ \A k, l \in 0 .. n : k <= l => Len(f[k]) <= Len(f[l])
        /\ Landed(f, segs, n) /\ Drawn(f, segs, n)
        /\ f[n] \in Seq(LineObject) /\ Len(f[n]) \in Nat /\ DOMAIN f[n] = 1 .. Len(f[n])
    BY <2>1, ConcatIs
  <2> QED BY <2>2
<1>4. IsNumbered(f[n])
  BY <1>3 DEF IsNumbered
<1>5. ASSUME NEW k \in 1 .. n, NEW j \in DOMAIN segs[k]
      PROVE  /\ j \in Int /\ j >= 1 /\ len(k - 1) + j <= len(k)
             /\ a[k] + j - 1 \in a[k] .. e[k] /\ a[k] + j - 1 \in 1 .. N
             /\ segs[k][j].shape = lines[a[k] + j - 1].shape
             /\ len(k - 1) \in Nat /\ len(k) \in Nat
  <2> DEFINE b == a[k]
             c == e[k]
             m == Len(segs[k])
  <2>1. /\ IsCutOf(segs[k], lines, b, c) /\ b \in 1 .. N /\ c \in b .. N
    BY DEF HoldInOrder
  <2>2. m \in 1 .. c - b + 1 /\ \A x \in 1 .. m : segs[k][x].shape = lines[b + x - 1].shape
    BY <2>1 DEF IsCutOf
  <2>3. j \in 1 .. m
    BY <1>2
  <2>4. k - 1 \in 0 .. n /\ k \in 0 .. n
    OBVIOUS
  <2>5. len(k - 1) \in Nat /\ len(k) \in Nat /\ len(k) = len(k - 1) + m
    BY <1>3, <2>4
  <2> HIDE DEF b, c, m, len, N
  <2>6. j \in Int /\ j >= 1 /\ b + j - 1 \in b .. c /\ b + j - 1 \in 1 .. N
    BY <1>1, <2>1, <2>2, <2>3
  <2>7. len(k - 1) + j <= len(k)
    BY <2>2, <2>3, <2>5
  <2> QED BY <2>2, <2>3, <2>5, <2>6, <2>7 DEF b, c
<1>6. ASSUME NEW k \in 1 .. n, NEW j \in DOMAIN segs[k], NEW l \in 1 .. n, NEW m \in DOMAIN segs[l],
             k < l
      PROVE  len(k - 1) + j < len(l - 1) + m /\ a[k] + j - 1 < a[l] + m - 1
  <2>1. /\ j \in Int /\ len(k - 1) + j <= len(k) /\ len(k) \in Nat /\ len(k - 1) \in Nat
        /\ a[k] + j - 1 \in a[k] .. e[k]
    BY <1>5
  <2>2. m \in Int /\ m >= 1 /\ len(l - 1) \in Nat
    BY <1>5
  <2>3. k \in 0 .. n /\ l - 1 \in 0 .. n /\ k <= l - 1
    BY <1>6
  <2>4. len(k) <= len(l - 1)
    BY <1>3, <2>3
  <2>5. e[k] < a[l] /\ a[k] \in 1 .. N /\ e[k] \in a[k] .. N /\ a[l] \in 1 .. N
    BY <1>6 DEF HoldInOrder
  <2> HIDE DEF len, N
  <2>6. len(k - 1) + j < len(l - 1) + m
    BY <2>1, <2>2, <2>4
  <2>7. a[k] + j - 1 < a[l] + m - 1
    BY <1>1, <2>1, <2>2, <2>5
  <2> QED BY <2>6, <2>7
<1>7. ASSUME NEW k \in 1 .. n, NEW j \in DOMAIN segs[k], NEW l \in 1 .. n, NEW m \in DOMAIN segs[l],
             len(k - 1) + j = len(l - 1) + m
      PROVE  k = l /\ j = m
  <2>1. /\ j \in Int /\ m \in Int /\ k \in Int /\ l \in Int /\ len(k - 1) \in Nat /\ len(l - 1) \in Nat
    BY <1>5
  <2>2. ~ k < l
    <3> SUFFICES ASSUME k < l PROVE FALSE
      OBVIOUS
    <3>1. len(k - 1) + j < len(l - 1) + m
      BY <1>6
    <3> HIDE DEF len
    <3> QED BY <1>7, <2>1, <3>1
  <2>3. ~ l < k
    <3> SUFFICES ASSUME l < k PROVE FALSE
      OBVIOUS
    <3>1. len(l - 1) + m < len(k - 1) + j
      BY <1>6
    <3> HIDE DEF len
    <3> QED BY <1>7, <2>1, <3>1
  <2>4. k = l
    BY <2>1, <2>2, <2>3
  <2> HIDE DEF len
  <2> QED BY <1>7, <2>1, <2>4
<1>8. ASSUME NEW i \in 1 .. Len(f[n])
      PROVE  \E k \in 1 .. n : \E j \in DOMAIN segs[k] :
               i = len(k - 1) + j /\ g[i] = a[k] + j - 1 /\ f[n][i] = segs[k][j]
  <2>1. PICK k \in 1 .. n : \E j \in DOMAIN segs[k] : i = Len(f[k - 1]) + j /\ f[n][i] = segs[k][j]
    BY <1>3 DEF Drawn
  <2>2. PICK j \in DOMAIN segs[k] : i = Len(f[k - 1]) + j /\ f[n][i] = segs[k][j]
    BY <2>1
  <2>3. ASSUME NEW q, \E x \in 1 .. n : \E y \in DOMAIN segs[x] : i = Len(f[x - 1]) + y /\ q = a[x] + y - 1
        PROVE  q = a[k] + j - 1
    <3>1a. PICK x \in 1 .. n : \E y \in DOMAIN segs[x] : i = Len(f[x - 1]) + y /\ q = a[x] + y - 1
      BY <2>3
    <3>1. PICK y \in DOMAIN segs[x] : i = Len(f[x - 1]) + y /\ q = a[x] + y - 1
      BY <3>1a
    <3>2. x = k /\ y = j
      BY <1>7, <2>2, <3>1
    <3> QED BY <3>1, <3>2
  <2>4. Origin(f, segs, n, a, i) = a[k] + j - 1
    BY <2>2, <2>3 DEF Origin
  <2> QED BY <2>2, <2>4
<1> HIDE DEF g
<1>9. ASSUME NEW i \in Worded(f[n]) PROVE g[i] \in Worded(lines) /\ lines[g[i]].shape = f[n][i].shape
  <2>1. i \in 1 .. Len(f[n]) /\ IsAlnum(f[n][i])
    BY <1>3 DEF Worded
  <2>2a. PICK k \in 1 .. n : \E j \in DOMAIN segs[k] : g[i] = a[k] + j - 1 /\ f[n][i] = segs[k][j]
    BY <1>8, <2>1
  <2>2. PICK j \in DOMAIN segs[k] : g[i] = a[k] + j - 1 /\ f[n][i] = segs[k][j]
    BY <2>2a
  <2>3. g[i] \in 1 .. N /\ lines[g[i]].shape = f[n][i].shape
    BY <1>5, <2>2
  <2> QED BY <1>1, <2>1, <2>3 DEF Worded, IsAlnum
<1>10. ASSUME NEW i \in Worded(f[n]), NEW i2 \in Worded(f[n]), i < i2 PROVE g[i] < g[i2]
  <2>1. i \in 1 .. Len(f[n]) /\ i2 \in 1 .. Len(f[n])
    BY <1>3 DEF Worded
  <2>2a. PICK k \in 1 .. n : \E j \in DOMAIN segs[k] : i = len(k - 1) + j /\ g[i] = a[k] + j - 1
    BY <1>8, <2>1
  <2>2. PICK j \in DOMAIN segs[k] : i = len(k - 1) + j /\ g[i] = a[k] + j - 1
    BY <2>2a
  <2>3a. PICK l \in 1 .. n : \E m \in DOMAIN segs[l] : i2 = len(l - 1) + m /\ g[i2] = a[l] + m - 1
    BY <1>8, <2>1
  <2>3. PICK m \in DOMAIN segs[l] : i2 = len(l - 1) + m /\ g[i2] = a[l] + m - 1
    BY <2>3a
  <2>4. j \in Int /\ m \in Int /\ len(k - 1) \in Nat /\ len(l - 1) \in Nat /\ a[k] \in Int /\ a[l] \in Int
    <3>1. a[k] \in 1 .. N /\ a[l] \in 1 .. N
      BY DEF HoldInOrder
    <3>2. j \in Int /\ m \in Int /\ len(k - 1) \in Nat /\ len(l - 1) \in Nat
      BY <1>5
    <3> HIDE DEF len, N
    <3> QED BY <3>1, <3>2
  <2>5. CASE k < l
    BY <1>6, <2>2, <2>3, <2>5
  <2>6. CASE k = l
    <3> HIDE DEF len
    <3> QED BY <1>10, <2>2, <2>3, <2>4, <2>6
  <2>7. CASE l < k
    <3>1. len(l - 1) + m < len(k - 1) + j
      BY <1>6, <2>7
    <3> HIDE DEF len
    <3> QED BY <1>10, <2>2, <2>3, <2>4, <3>1
  <2> QED BY <2>5, <2>6, <2>7
<1>11. ASSUME NEW q \in Worded(lines) PROVE \E i \in Worded(f[n]) : g[i] = q
  <2>1. PICK k \in 1 .. n : q \in a[k] .. e[k]
    BY DEF HoldInOrder
  <2>2. IsCutOf(segs[k], lines, a[k], e[k]) /\ a[k] \in 1 .. N /\ e[k] \in a[k] .. N
    BY DEF HoldInOrder
  <2> DEFINE j == q - a[k] + 1
             i == len(k - 1) + j
  <2>3. j \in DOMAIN segs[k]
    BY <1>2, <2>1, <2>2 DEF IsCutOf, Worded
  <2>4. i \in 1 .. Len(f[n]) /\ f[n][i] = segs[k][j]
    BY <1>3, <2>3 DEF Landed
  <2>5a. PICK l \in 1 .. n : \E m \in DOMAIN segs[l] : i = len(l - 1) + m /\ g[i] = a[l] + m - 1
    BY <1>8, <2>4
  <2>5. PICK m \in DOMAIN segs[l] : i = len(l - 1) + m /\ g[i] = a[l] + m - 1
    BY <2>5a
  <2>6. k = l /\ j = m
    BY <1>7, <2>3, <2>5
  <2>7. a[k] + j - 1 = q
    <3>1. q \in Int /\ a[k] \in Int
      BY <1>1, <2>2 DEF Worded
    <3> QED BY <3>1
  <2>8. g[i] = q
    BY <2>5, <2>6, <2>7
  <2>9. segs[k][j].shape = lines[q].shape
    BY <1>5, <2>3, <2>7
  <2>10. IsAlnum(f[n][i])
    BY <2>4, <2>9 DEF Worded, IsAlnum
  <2>11. i \in Worded(f[n])
    <3> HIDE DEF i
    <3> QED BY <1>3, <2>4, <2>10 DEF Worded
  <2> QED BY <2>8, <2>11
<1>12. InStep(g, f[n], lines)
  BY <1>9, <1>10, <1>11 DEF InStep
<1> QED BY <1>1, <1>4, <1>12, WordsInStep

(* The segments of a document say, in order, what the document says.       *)
LEMMA SegmentingKeepsWords ==
  ASSUME NEW text \in Texts
  PROVE  Words(Joined(RunCorePipeline(text), LAMBDA s : s)) = Words(text)
<1> DEFINE lines == Normalize(text)
           segs == RunCorePipeline(text)
           K == Cuts(lines)
           n == Cardinality(K)
           a == [k \in 1 .. n |-> Nth(K, k)]
           e == [k \in 1 .. n |-> CutEnd(lines, Nth(K, k))]
<1>1. /\ IsSegment(lines) /\ ~ IsEmpty(lines[1])
      /\ n \in Nat /\ DOMAIN segs = 1 .. n
      /\ \A k \in 1 .. n : Nth(K, k) \in K /\ IsCutOf(segs[k], lines, Nth(K, k), CutEnd(lines, Nth(K, k)))
      /\ \A k, l \in 1 .. n : k < l => Nth(K, k) < Nth(K, l)
      /\ \A i \in K : \E k \in 1 .. n : Nth(K, k) = i
  BY SegmentsAreCuts
<1>2. /\ K \in SUBSET (1 .. Len(lines))
      /\ \A i \in K : CutEnd(lines, i) \in i .. Len(lines)
      /\ \A i, j \in K : i < j => CutEnd(lines, i) < j
      /\ \A q \in Worded(lines) : \E i \in K : q \in i .. CutEnd(lines, i)
  <2> HIDE DEF lines
  <2> QED BY <1>1, CutsAre
<1>3. \A k \in 1 .. n : a[k] = Nth(K, k) /\ e[k] = CutEnd(lines, Nth(K, k))
  OBVIOUS
<1> HIDE DEF a, e, n, K, segs, lines
<1>4. \A k \in 1 .. n : /\ IsCutOf(segs[k], lines, a[k], e[k])
                        /\ a[k] \in 1 .. Len(lines) /\ e[k] \in a[k] .. Len(lines)
  <2> SUFFICES ASSUME NEW k \in 1 .. n
               PROVE  /\ IsCutOf(segs[k], lines, a[k], e[k])
                      /\ a[k] \in 1 .. Len(lines) /\ e[k] \in a[k] .. Len(lines)
    OBVIOUS
  <2>1. a[k] \in K /\ e[k] = CutEnd(lines, a[k]) /\ IsCutOf(segs[k], lines, a[k], e[k])
    BY <1>1, <1>3
  <2>2. a[k] \in 1 .. Len(lines)
    BY <1>2, <2>1
  <2> QED BY <1>2, <2>1, <2>2
<1>5. \A k, l \in 1 .. n : k < l => e[k] < a[l]
  <2> SUFFICES ASSUME NEW k \in 1 .. n, NEW l \in 1 .. n, k < l PROVE e[k] < a[l]
    OBVIOUS
  <2>1. Nth(K, k) \in K /\ Nth(K, l) \in K /\ Nth(K, k) < Nth(K, l)
    BY <1>1
  <2>2. CutEnd(lines, Nth(K, k)) < Nth(K, l)
    BY <1>2, <2>1
  <2> QED BY <1>3, <2>2
<1>6. \A q \in Worded(lines) : \E k \in 1 .. n : q \in a[k] .. e[k]
  <2> SUFFICES ASSUME NEW q \in Worded(lines) PROVE \E k \in 1 .. n : q \in a[k] .. e[k]
    OBVIOUS
  <2>1. PICK i \in K : q \in i .. CutEnd(lines, i)
    BY <1>2
  <2>2. PICK k \in 1 .. n : Nth(K, k) = i
    BY <1>1
  <2> QED BY <1>3, <2>1, <2>2
<1>7. HoldInOrder(segs, n, lines, a, e)
  BY <1>4, <1>5, <1>6 DEF HoldInOrder
<1>8. \A k \in 1 .. n : segs[k] \in Seq(LineObject)
  <2> SUFFICES ASSUME NEW k \in 1 .. n PROVE segs[k] \in Seq(LineObject)
    OBVIOUS
  <2>1. IsSegment(segs[k]) /\ IsList(segs[k])
    BY <1>4 DEF IsCutOf, Tight
  <2> QED BY <2>1, ListIsSeq DEF IsSegment
<1>9. PICK f : Concat(f, segs, n) /\ Joined(segs, LAMBDA s : s) = f[n]
  BY <1>1, <1>8, JoinedWhole
<1>10. Words(f[n]) = Words(lines)
  BY <1>1, <1>7, <1>9, JoiningKeepsWords
<1>11. Words(lines) = Words(text)
  <2>1. text \in Seq(LineObject)
    BY TextAssumption
  <2> QED BY <2>1, NormalizingKeepsWords DEF lines
<1> QED BY <1>9, <1>10, <1>11 DEF segs

(* A part is made of the lines from the last boundary taken to its own.    *)
LEMMA PartsFrom ==
  ASSUME NEW s, IsSegment(s), NEW k \in DOMAIN Parts(s)
  PROVE  \/ Ends(s) = {} /\ Parts(s)[k] = LineModel(s)
         \/ \E e \in Ends(s) :
              Parts(s)[k] = Where(SubSeq(LineModel(s), Start(s, e), e), LAMBDA l : ~ IsBoundary(l))
<1> DEFINE m == LineModel(s)
           ends == Ends(s)
           part(e) == Where(SubSeq(m, Start(s, e), e), LAMBDA l : ~ IsBoundary(l))
           N == Cardinality(ends)
           g == [e \in ends |-> part(e)]
<1>1. Len(s) \in Nat /\ DOMAIN m = 1 .. Len(s)
  BY ModelIsRegion
<1>2. ends \in SUBSET (1 .. Len(s))
  BY <1>1 DEF Ends
<1>3. N \in Nat /\ \A l \in 1 .. N : Nth(ends, l) \in ends
  BY <1>1, <1>2, Taken
<1>4. SubSegment(m) = At(g, ends)
  BY DEF SubSegment, Start, Ends
<1>5. /\ DOMAIN At(g, ends) = 1 .. N
      /\ \A l \in 1 .. N : At(g, ends)[l] = g[Nth(ends, l)]
  BY DEF At
<1>6. \A l \in 1 .. N : g[Nth(ends, l)] = part(Nth(ends, l))
  BY <1>3
<1>7. CASE ends = {}
  <2>1. N = 0
    BY <1>7, FS_EmptySet
  <2>2. SubSegment(m) = <<>>
    <3> HIDE DEF g, m
    <3> QED BY <1>4, <2>1 DEF At
  <2>3. Parts(s) = <<m>>
    BY <2>2 DEF Parts, PartsOr
  <2> HIDE DEF m
  <2> QED BY <1>7, <2>3 DEF m
<1>8. CASE ends # {}
  <2>1. N # 0
    <3> HIDE DEF ends
    <3>1. IsFiniteSet(ends)
      BY <1>1, <1>2, Taken
    <3> QED BY <1>8, <3>1, FS_EmptySet
  <2> HIDE DEF g, part, m, ends
  <2>2. 1 \in DOMAIN SubSegment(m)
    BY <1>3, <1>4, <1>5, <2>1
  <2>3. Parts(s) = SubSegment(m)
    BY <2>2 DEF Parts, PartsOr, m
  <2>4. k \in 1 .. N /\ Parts(s)[k] = part(Nth(ends, k))
    BY <1>4, <1>5, <1>6, <2>3
  <2>5. Nth(ends, k) \in ends
    BY <1>3, <2>4
  <2> QED BY <2>4, <2>5 DEF part, ends, m
<1> QED BY <1>7, <1>8

(* Lines of a segment, under the places they have in it.                   *)
LinesOf(lines, s) ==
  \A i \in DOMAIN lines : lines[i].index \in 1 .. Len(s) /\ lines[i].shape = s[lines[i].index].shape

(* The lines a part has are those of the segment.                          *)
LEMMA PartLines ==
  ASSUME NEW s, IsSegment(s), NEW k \in DOMAIN Parts(s)
  PROVE  LinesOf(Parts(s)[k], s)
<1> DEFINE m == LineModel(s)
<1>1. /\ IsRegion(m) /\ DOMAIN m = 1 .. Len(s) /\ Len(m) = Len(s) /\ Len(s) \in Nat
      /\ \A i \in 1 .. Len(s) : m[i].index = i /\ m[i].shape = s[i].shape
  BY ModelIsRegion
<1>2. \/ Parts(s)[k] = m
      \/ \E e \in Ends(s) :
           Parts(s)[k] = Where(SubSeq(m, Start(s, e), e), LAMBDA l : ~ IsBoundary(l))
  BY PartsFrom
<1>3. CASE Parts(s)[k] = m
  <2> HIDE DEF m
  <2> QED BY <1>1, <1>3 DEF LinesOf
<1>4. ASSUME NEW e \in Ends(s), Parts(s)[k] = Where(SubSeq(m, Start(s, e), e), LAMBDA l : ~ IsBoundary(l))
      PROVE  LinesOf(Parts(s)[k], s)
  <2> DEFINE a == Start(s, e)
             sub == SubSeq(m, a, e)
             n == e - a + 1
             P == {i \in DOMAIN sub : ~ IsBoundary(sub[i])}
  <2>1. e \in 1 .. Len(s) /\ a \in 1 .. e
    BY StartIs
  <2> HIDE DEF a, m
  <2>2. a \in 1 .. Len(m) /\ e \in 1 .. Len(m) /\ a <= e
    BY <1>1, <2>1
  <2>3. IsRegion(sub) /\ Len(sub) = n /\ \A i \in 1 .. n : sub[i] = m[a + i - 1]
    BY <1>1, <2>2, SubSeqRegion
  <2>4. Parts(s)[k] = At(sub, P) /\ P \in SUBSET DOMAIN sub
    BY <1>4 DEF Where, a, m
  <2> HIDE DEF sub, P
  <2>5. DOMAIN sub = 1 .. n /\ n \in Nat
    <3>1. n \in Nat
      BY <1>1, <2>1
    <3> HIDE DEF n
    <3> QED BY <2>3, <3>1, RegionLen
  <2>6. \A i \in 1 .. n : a + i - 1 \in 1 .. Len(s)
    BY <1>1, <2>1
  <2> HIDE DEF n
  <2>7. /\ DOMAIN At(sub, P) = 1 .. Cardinality(P)
        /\ \A i \in 1 .. Cardinality(P) : At(sub, P)[i] = sub[Nth(P, i)] /\ Nth(P, i) \in P
    BY <2>4, <2>5, Taken
  <2>8. ASSUME NEW i \in DOMAIN Parts(s)[k]
        PROVE  Parts(s)[k][i].index \in 1 .. Len(s)
               /\ Parts(s)[k][i].shape = s[Parts(s)[k][i].index].shape
    <3>1. Parts(s)[k][i] = sub[Nth(P, i)] /\ Nth(P, i) \in 1 .. n
      BY <2>4, <2>5, <2>7
    <3> DEFINE x == a + Nth(P, i) - 1
    <3>2. x \in 1 .. Len(s) /\ Parts(s)[k][i] = m[x]
      BY <2>3, <2>6, <3>1
    <3> HIDE DEF x
    <3> QED BY <1>1, <3>2
  <2> QED BY <2>8 DEF LinesOf
<1> QED BY <1>2, <1>3, <1>4

(* A boundary that takes a run of lines along takes the one before it.     *)
LEMMA EndTakesTwo ==
  ASSUME NEW s, IsSegment(s), NEW e \in Ends(s), e # Len(s)
  PROVE  e - 1 \in Start(s, e) .. e /\ Open(s, e - 1) /\ e - 1 \in 1 .. Len(s) - 1
<1> DEFINE m == LineModel(s)
<1>1. Len(s) \in Nat /\ DOMAIN m = 1 .. Len(s) /\ Len(m) = Len(s)
  BY ModelIsRegion
<1>2. e \in 1 .. Len(s) /\ Emits(m, e)
  BY <1>1 DEF Ends
<1>3. Open(s, e) /\ e >= 2 /\ Open(s, e - 1)
  <2> HIDE DEF m
  <2>1. ~ IsBoundary(m[e]) /\ e >= 2 /\ ~ IsBoundary(m[e - 1])
    BY <1>1, <1>2 DEF Emits, MinSegmentLines
  <2> QED BY <2>1 DEF Open, m
<1>4. /\ e - 1 \in 1 .. Len(s) - 1 /\ e - 1 \in 1 .. e /\ e - 1 # Len(s)
      /\ (e - 1) + 1 = e /\ e \in Int
  <2> DEFINE n == Len(s)
  <2>1. n \in Nat /\ e \in 1 .. n /\ e >= 2
    BY <1>1, <1>2, <1>3
  <2> HIDE DEF n
  <2> QED BY <2>1 DEF n
<1>5. e - 1 \notin Ends(s)
  <2>1. ~ IsBoundary(m[e])
    BY <1>3 DEF Open
  <2> HIDE DEF m
  <2>3. ~ Emits(m, e - 1)
    BY <1>1, <1>4, <2>1 DEF Emits
  <2> QED BY <2>3 DEF Ends, m
<1>6. /\ Ends(s) \in SUBSET (1 .. Len(s))
      /\ \A i \in 1 .. e : \E d \in Ends(s) : i \in Start(s, d) .. d
  BY StartIs
<1>7. PICK d \in Ends(s) : e - 1 \in Start(s, d) .. d
  BY <1>4, <1>6
<1>8. Start(s, d) \in 1 .. d /\ (e < d => e < Start(s, d)) /\ d \in 1 .. Len(s)
  BY <1>6, StartIs
<1>9. d = e
  <2> DEFINE b == Start(s, d)
             n == Len(s)
  <2>1. n \in Nat /\ b \in 1 .. d /\ d \in 1 .. n /\ (e < d => e < b) /\ e - 1 \in b .. d
    BY <1>1, <1>7, <1>8
  <2>2. d # e - 1
    BY <1>5
  <2> HIDE DEF b, n
  <2> QED BY <1>4, <2>1, <2>2
<1> QED BY <1>3, <1>4, <1>7, <1>8, <1>9

(* No part of a segment is empty lines only.                               *)
LEMMA PartsSaySomething ==
  ASSUME NEW s, Tight(s), NEW k \in DOMAIN Parts(s)
  PROVE  \E i \in DOMAIN Parts(s)[k] : ~ IsEmpty(Parts(s)[k][i])
<1> DEFINE m == LineModel(s)
           part == Parts(s)[k]
<1>1. IsSegment(s)
  BY DEF Tight
<1>2. /\ Len(s) \in Nat /\ Len(s) > 0 /\ DOMAIN m = 1 .. Len(s)
      /\ \A i \in 1 .. Len(s) : m[i].index = i /\ m[i].shape = s[i].shape
  BY <1>1, ModelIsRegion
<1>3. \/ part = m
      \/ \E e \in Ends(s) : part = Where(SubSeq(m, Start(s, e), e), LAMBDA l : ~ IsBoundary(l))
  BY <1>1, PartsFrom
<1>4. CASE part = m
  <2>1. 1 \in DOMAIN m /\ m[1].shape = s[1].shape
    BY <1>2
  <2>2. ~ IsEmpty(m[1])
    BY <2>1 DEF Tight, IsEmpty
  <2> HIDE DEF m, part
  <2> QED BY <1>4, <2>1, <2>2 DEF part
<1>5. ASSUME NEW e \in Ends(s), part = Where(SubSeq(m, Start(s, e), e), LAMBDA l : ~ IsBoundary(l))
      PROVE  \E i \in DOMAIN part : ~ IsEmpty(part[i])
  <2>1. e \in 1 .. Len(s) /\ Start(s, e) \in 1 .. e
    BY <1>1, StartIs
  <2>2. Start(s, e) \in 1 .. Len(s) /\ Start(s, e) <= e
    BY <1>2, <2>1
  <2>3. Places(part) = {i \in Start(s, e) .. e : Open(s, i)}
    <3>1. LET p == Where(SubSeq(LineModel(s), Start(s, e), e), LAMBDA l : ~ IsBoundary(l))
          IN  Places(p) = {i \in Start(s, e) .. e : ~ IsBoundary(LineModel(s)[i])}
      BY <1>1, <2>1, <2>2, PartOfModel
    <3> QED BY <1>5, <3>1 DEF Open
  <2>4. Open(s, e) /\ e \in Start(s, e) .. e
    <3>1. Open(s, e)
      BY DEF Ends, Emits, Open
    <3> QED BY <1>2, <2>1, <3>1
  <2>5. \E x \in Places(part) : ~ IsEmpty(s[x])
    <3>1. CASE e = Len(s)
      BY <2>3, <2>4, <3>1 DEF Tight
    <3>2. CASE e # Len(s)
      <4>1. e - 1 \in Start(s, e) .. e /\ Open(s, e - 1) /\ e - 1 \in 1 .. Len(s) - 1
        BY <1>1, <3>2, EndTakesTwo
      <4>2. (e - 1) + 1 = e
        BY <1>2, <2>1
      <4>3. ~ (IsEmpty(s[e - 1]) /\ IsEmpty(s[e]))
        BY <4>1, <4>2 DEF Tight
      <4> QED BY <2>3, <2>4, <4>1, <4>3
    <3> QED BY <3>1, <3>2
  <2>6. PICK x \in Places(part) : ~ IsEmpty(s[x])
    BY <2>5
  <2>7. LinesOf(part, s)
    BY <1>1, PartLines
  <2> HIDE DEF part
  <2>8. PICK i \in DOMAIN part : part[i].index = x
    BY <2>6 DEF Places
  <2>9. part[i].shape = s[x].shape
    BY <2>7, <2>8 DEF LinesOf
  <2> QED BY <2>6, <2>8, <2>9 DEF IsEmpty
<1> QED BY <1>3, <1>4, <1>5

(* What is taken at some place is not nothing, and the other way round.    *)
LEMMA SomethingTaken ==
  ASSUME NEW n \in Nat, NEW s, NEW P \in SUBSET (1 .. n)
  PROVE  (At(s, P) = <<>> <=> P = {}) /\ (P # {} => DOMAIN At(s, P) # {})
<1>1. /\ Cardinality(P) \in Nat /\ IsFiniteSet(P) /\ DOMAIN At(s, P) = 1 .. Cardinality(P)
      /\ \A i \in P : \E k \in 1 .. Cardinality(P) : Nth(P, k) = i
  BY Taken
<1>2. CASE P = {}
  <2>1. Cardinality(P) = 0
    BY <1>2, FS_EmptySet
  <2>2. At(s, P) = <<>>
    BY <2>1 DEF At
  <2> QED BY <1>2, <2>2
<1>3. CASE P # {}
  <2>1. PICK i \in P : TRUE
    BY <1>3
  <2>2. PICK k \in 1 .. Cardinality(P) : Nth(P, k) = i
    BY <1>1, <2>1
  <2>3. k \in DOMAIN At(s, P)
    BY <1>1
  <2>4. DOMAIN <<>> = {}
    OBVIOUS
  <2> QED BY <1>3, <2>3, <2>4
<1> QED BY <1>2, <1>3

(* The detectors report no fields and no table where there are none.       *)
LEMMA FoundBlocksHold ==
  ASSUME NEW lines, NEW b \in EngineOf(Route(lines), lines)
  PROVE  /\ b.source = "kv" => DetectAllKv(lines) # <<>>
         /\ b.source = "table" => DetectTable(lines).rows # <<>>
<1>1. \A src, places, c : Block(src, places, c).source = src
  BY DEF Block
<1>2. ASSUME b \in KvBlocks(lines) PROVE b.source = "kv" /\ DetectAllKv(lines) # <<>>
  <2>1. DetectAllKv(lines) # <<>> /\ b = KvBlock(lines)
    BY <1>2 DEF KvBlocks
  <2>2. KvBlock(lines).source = "kv"
    BY <1>1 DEF KvBlock
  <2> QED BY <2>1, <2>2
<1>3. ASSUME b = ContextBlock(lines) PROVE b.source = "context"
  BY <1>1, <1>3 DEF ContextBlock
<1>4. ASSUME b \in TreeBlocks(lines) PROVE b.source = "tree_structure"
  <2>1. b = TreeBlock(lines)
    BY <1>4 DEF TreeBlocks
  <2> QED BY <1>1, <2>1 DEF TreeBlock
<1>5. ASSUME b \in TableBlocks(lines) PROVE b.source = "table" /\ DetectTable(lines).rows # <<>>
  <2> DEFINE t == DetectTable(lines)
  <2>1. b \in TableBlock(lines, t)
    BY <1>5 DEF TableBlocks
  <2> HIDE DEF t
  <2>2. t.rows # <<>> /\ b = Block("table", Places(lines), t.confidence)
    BY <2>1 DEF TableBlock
  <2> QED BY <1>1, <2>2 DEF t
<1>6. b \in KvBlocks(lines) \/ b = ContextBlock(lines) \/ b \in TreeBlocks(lines) \/ b \in TableBlocks(lines)
  BY DEF EngineOf, BlockEngine, FallbackEngine
<1> QED BY <1>2, <1>3, <1>4, <1>5, <1>6

(* The blocks of a part with a line that is not empty hold something.      *)
LEMMA PartBlocksHold ==
  ASSUME NEW lines, IsRegion(lines), lines # <<>>, NEW total \in Nat, total > 0,
         NEW i \in DOMAIN lines, ~ IsEmpty(lines[i]),
         NEW k \in DOMAIN ProcessSubSegment(lines, total).blocks
  PROVE  ProcessSubSegment(lines, total).blocks[k].items # <<>>
<1> DEFINE S == Places(lines)
           t == DetectTable(lines)
           found == EngineOf(Route(lines), lines)
           B == Reconcile(found, total)
           swept == Swept(B)
           r == ProcessSubSegment(lines, total)
<1>1. S \in SUBSET Nat
  BY PlacesAreFinite
<1>2. B \in SUBSET found /\ AreBlocks(B, S)
  <2>1. AreBlocks(found, S)
    BY EngineBlocks
  <2> HIDE DEF found
  <2>2. B \in SUBSET found
    BY <1>1, <2>1, ReconcileDrops
  <2> QED BY <2>1, <2>2, FewerBlocks
<1>3. r.blocks = [l \in DOMAIN swept |-> Content(swept[l], lines, t)]
  BY DEF ProcessSubSegment, PartResult, Filled
<1> HIDE DEF B, S, t, r
<1>4. Held(swept) = B
  BY <1>1, <1>2, SweptIsAll DEF TakenFrom
<1> HIDE DEF swept
<1>5. k \in DOMAIN swept /\ r.blocks[k] = Content(swept[k], lines, t)
  BY <1>3 DEF r
<1> DEFINE b == swept[k]
<1>6. b \in found /\ IsBlockIn(b, S)
  BY <1>2, <1>4, <1>5 DEF Held, AreBlocks
<1> HIDE DEF b
<1>7. (b.source = "kv" => DetectAllKv(lines) # <<>>) /\ (b.source = "table" => t.rows # <<>>)
  BY <1>6, FoundBlocksHold DEF t
<1>8. b.source \in {"table", "tree_structure", "context", "kv"}
  BY <1>6 DEF IsBlockIn, Sources
<1>9. Len(lines) \in Nat /\ DOMAIN lines = 1 .. Len(lines)
  BY RegionLen
<1>10. ASSUME NEW some, DOMAIN some # {} PROVE PlacesOf(some) # <<>>
  <2>1. DOMAIN PlacesOf(some) # {}
    BY <1>10 DEF PlacesOf
  <2> QED BY <2>1
<1>11. PlacesOf(NonEmpty(lines)) # <<>>
  <2> DEFINE P == {j \in DOMAIN lines : ~ IsEmpty(lines[j])}
  <2>1. NonEmpty(lines) = At(lines, P)
    BY DEF NonEmpty, Where
  <2>2. i \in P /\ P \in SUBSET (1 .. Len(lines))
    BY <1>9
  <2> HIDE DEF P
  <2>3. DOMAIN At(lines, P) # {}
    BY <1>9, <2>2, SomethingTaken
  <2> QED BY <1>10, <2>1, <2>3
<1>12. DetectAllKv(lines) # <<>> => PlacesOf(DetectAllKv(lines)) # <<>>
  <2> SUFFICES ASSUME DetectAllKv(lines) # <<>> PROVE PlacesOf(DetectAllKv(lines)) # <<>>
    OBVIOUS
  <2> DEFINE P == {j \in DOMAIN lines : IsField(lines[j])}
  <2>1. DetectAllKv(lines) = At(lines, P)
    BY DEF DetectAllKv, Where
  <2>2. P \in SUBSET (1 .. Len(lines))
    BY <1>9
  <2> HIDE DEF P
  <2>3. P # {}
    BY <1>9, <2>1, <2>2, SomethingTaken
  <2>4. DOMAIN At(lines, P) # {}
    BY <1>9, <2>2, <2>3, SomethingTaken
  <2> QED BY <1>10, <2>1, <2>4
<1> DEFINE c == Content(b, lines, t)
<1>13. /\ b.source = "kv" => c.items = PlacesOf(DetectAllKv(lines))
       /\ b.source = "table" => c.items = t.rows
       /\ b.source = "tree_structure" => c.items = PlacesOf(NonEmpty(lines))
       /\ b.source = "context" => c.items = PlacesOf(NonEmpty(lines))
  BY DEF Content
<1> HIDE DEF c
<1>14. c.items # <<>>
  BY <1>7, <1>8, <1>11, <1>12, <1>13
<1> QED BY <1>5, <1>14 DEF c, b, r

(* A concatenation holds what its sequences hold.                          *)
LEMMA HeldOfJoined ==
  ASSUME NEW n \in Nat, NEW X, NEW p, \A k \in 1 .. n : p[k] \in Seq(X), NEW f, Concat(f, p, n)
  PROVE  Held(f[n]) = UNION {Held(p[k]) : k \in 1 .. n}
<1>1. Landed(f, p, n) /\ Drawn(f, p, n)
  BY ConcatIs
<1>2. ASSUME NEW x \in Held(f[n]) PROVE \E k \in 1 .. n : x \in Held(p[k])
  <2>1. PICK i \in DOMAIN f[n] : x = f[n][i]
    BY DEF Held
  <2>2. PICK k \in 1 .. n : \E j \in DOMAIN p[k] : i = Len(f[k - 1]) + j /\ f[n][i] = p[k][j]
    BY <1>1 DEF Drawn
  <2> QED BY <2>1, <2>2 DEF Held
<1>3. ASSUME NEW k \in 1 .. n, NEW x \in Held(p[k]) PROVE x \in Held(f[n])
  <2>1. PICK j \in DOMAIN p[k] : x = p[k][j]
    BY DEF Held
  <2>2. Len(f[k - 1]) + j \in DOMAIN f[n] /\ f[n][Len(f[k - 1]) + j] = x
    BY <1>1, <2>1 DEF Landed
  <2> QED BY <2>2 DEF Held
<1> QED BY <1>2, <1>3

(* The merged result holds the blocks and the lines of all parts, and is   *)
(* named as one of them.                                                   *)
LEMMA MergedFrom ==
  ASSUME NEW s, IsSegment(s)
  PROVE  LET r == Structure(s)
             results == RunStructureEngine(s)
         IN  /\ Held(r.blocks) = UNION {Held(results[k].blocks) : k \in DOMAIN Parts(s)}
             /\ Held(r.lines) = UNION {Held(Parts(s)[k]) : k \in DOMAIN Parts(s)}
             /\ \E k \in DOMAIN Parts(s) : r.type = results[k].type
<1> DEFINE results == RunStructureEngine(s)
           N == Len(Parts(s))
           r == Structure(s)
           p == [k \in 1 .. N |-> results[k].blocks]
           q == [k \in 1 .. N |-> results[k].lines]
           X == UNION {Held(results[k].blocks) : k \in 1 .. N}
           Y == UNION {Held(results[k].lines) : k \in 1 .. N}
<1>1. N \in Nat /\ DOMAIN Parts(s) = 1 .. N /\ N > 0
  <2>1. IsNumbered(Parts(s)) /\ DOMAIN Parts(s) # {}
    BY PartsAre
  <2> QED BY <2>1, Numbered
<1>2. DOMAIN results = 1 .. N
  BY <1>1, ResultsAre
<1>3. ASSUME NEW k \in 1 .. N
      PROVE  /\ IsPartOf(results[k], Places(Parts(s)[k])) /\ results[k].lines = Parts(s)[k]
             /\ IsList(Parts(s)[k])
  BY <1>1, ResultsAre, PartsAre
<1>6. r = MergeSubSegments(results)
  BY DEF Structure
<1> HIDE DEF results, N, r
<1>7. \A k \in 1 .. N : results[k].blocks \in Seq(X) /\ results[k].lines \in Seq(Y)
  <2> SUFFICES ASSUME NEW k \in 1 .. N PROVE results[k].blocks \in Seq(X) /\ results[k].lines \in Seq(Y)
    OBVIOUS
  <2>1. \A i \in DOMAIN results[k].blocks : results[k].blocks[i] \in X
    BY DEF Held
  <2>2. \A i \in DOMAIN results[k].lines : results[k].lines[i] \in Y
    BY DEF Held
  <2>3. IsList(results[k].blocks) /\ IsList(results[k].lines)
    BY <1>3 DEF IsPartOf
  <2> HIDE DEF X, Y
  <2> QED BY <2>1, <2>2, <2>3, ListIsSeq
<1> HIDE DEF X, Y
<1>8. PICK f : Concat(f, p, N) /\ Joined(results, LAMBDA x : x.blocks) = f[N]
  <2> HIDE DEF p
  <2> QED BY <1>1, <1>2, <1>7, JoinedBlocks DEF p
<1>9. PICK g : Concat(g, q, N) /\ Joined(results, LAMBDA x : x.lines) = g[N]
  <2> HIDE DEF q
  <2> QED BY <1>1, <1>2, <1>7, JoinedLines DEF q
<1> DEFINE best == CHOOSE k \in DOMAIN results :
                \A j \in DOMAIN results : \/ results[j].confidence < results[k].confidence
                                          \/ results[j].confidence = results[k].confidence /\ k <= j
<1>10. /\ r.type = results[best].type
       /\ r.blocks = Joined(results, LAMBDA x : x.blocks)
       /\ r.lines = Joined(results, LAMBDA x : x.lines)
  BY <1>6 DEF MergeSubSegments
<1>11. best \in DOMAIN results
  <2>1. \A k \in 1 .. N : results[k].confidence \in Int
    BY <1>3 DEF IsPartOf
  <2>2. \E k \in DOMAIN results :
                \A j \in DOMAIN results : \/ results[j].confidence < results[k].confidence
                                          \/ results[j].confidence = results[k].confidence /\ k <= j
    BY <1>1, <1>2, <2>1, BestExists
  <2> QED BY <2>2
<1> HIDE DEF best
<1>12. r.blocks = f[N] /\ r.lines = g[N]
  BY <1>8, <1>9, <1>10
<1>13. \A k \in 1 .. N : p[k] = results[k].blocks /\ q[k] = Parts(s)[k]
  BY <1>3
<1>14. (\A k \in 1 .. N : p[k] \in Seq(X)) /\ \A k \in 1 .. N : q[k] \in Seq(Y)
  BY <1>7
<1> HIDE DEF p, q
<1>15. Held(f[N]) = UNION {Held(p[k]) : k \in 1 .. N}
  BY <1>1, <1>8, <1>14, HeldOfJoined
<1>16. Held(g[N]) = UNION {Held(q[k]) : k \in 1 .. N}
  BY <1>1, <1>9, <1>14, HeldOfJoined
<1>17. {Held(p[k]) : k \in 1 .. N} = {Held(results[k].blocks) : k \in DOMAIN Parts(s)}
  BY <1>1, <1>13
<1>18. {Held(q[k]) : k \in 1 .. N} = {Held(Parts(s)[k]) : k \in DOMAIN Parts(s)}
  BY <1>1, <1>13
<1> QED BY <1>1, <1>2, <1>10, <1>11, <1>12, <1>15, <1>16, <1>17, <1>18 DEF r, results

(* What the engine makes of a segment: its blocks hold something, one of   *)
(* them is what the segment is named after, and its lines are those of the *)
(* segment that some part took.                                            *)
SaysSomething(r, s) ==
  /\ r.lines # <<>> /\ LinesOf(r.lines, s)
  /\ \A k \in DOMAIN r.blocks : r.blocks[k].items # <<>>
  /\ r.type \in Labels => \E k \in DOMAIN r.blocks : SourceLabel[r.blocks[k].source] = r.type
  /\ r.type = "mixed" => DOMAIN r.blocks # {}
  /\ \A k \in DOMAIN Parts(s) : Places(Parts(s)[k]) \subseteq Places(r.lines)

(* The engine makes something of every segment, but text of what has no    *)
(* block.                                                                  *)
LEMMA MergedHolds ==
  ASSUME NEW s, Tight(s)
  PROVE  SaysSomething(Structure(s), s)
<1> DEFINE r == Structure(s)
           results == RunStructureEngine(s)
<1>1. IsSegment(s) /\ Len(s) \in Nat /\ Len(s) > 0
  <2>1. IsSegment(s)
    BY DEF Tight
  <2> QED BY <2>1, ModelIsRegion
<1>2. /\ Held(r.blocks) = UNION {Held(results[k].blocks) : k \in DOMAIN Parts(s)}
      /\ Held(r.lines) = UNION {Held(Parts(s)[k]) : k \in DOMAIN Parts(s)}
      /\ \E k \in DOMAIN Parts(s) : r.type = results[k].type
  BY <1>1, MergedFrom
<1>3. /\ DOMAIN Parts(s) # {}
      /\ \A k \in DOMAIN Parts(s) : /\ IsPartOf(results[k], Places(Parts(s)[k]))
                                    /\ IsRegion(Parts(s)[k]) /\ Parts(s)[k] # <<>> /\ IsList(Parts(s)[k])
                                    /\ LinesOf(Parts(s)[k], s)
  BY <1>1, ResultsAre, PartsAre, PartLines
<1>4. \A k \in DOMAIN Parts(s) : results[k] = ProcessSubSegment(Parts(s)[k], Len(s))
  BY DEF RunStructureEngine, RunParts, Parts
<1> HIDE DEF r, results
<1>5. ASSUME NEW i \in DOMAIN r.blocks PROVE r.blocks[i].items # <<>>
  <2>1. PICK k \in DOMAIN Parts(s) : r.blocks[i] \in Held(results[k].blocks)
    BY <1>2 DEF Held
  <2>2. PICK j \in DOMAIN results[k].blocks : r.blocks[i] = results[k].blocks[j]
    BY <2>1 DEF Held
  <2>3. PICK x \in DOMAIN Parts(s)[k] : ~ IsEmpty(Parts(s)[k][x])
    BY PartsSaySomething
  <2>4. results[k].blocks[j].items # <<>>
    BY <1>1, <1>3, <1>4, <2>3, PartBlocksHold
  <2> QED BY <2>2, <2>4
<1>6. PICK k \in DOMAIN Parts(s) : r.type = results[k].type
  BY <1>2
<1>7. IsPartOf(results[k], Places(Parts(s)[k]))
  BY <1>3
<1>8. \A j \in DOMAIN results[k].blocks : \E i \in DOMAIN r.blocks : r.blocks[i] = results[k].blocks[j]
  <2> SUFFICES ASSUME NEW j \in DOMAIN results[k].blocks
               PROVE  \E i \in DOMAIN r.blocks : r.blocks[i] = results[k].blocks[j]
    OBVIOUS
  <2>1. results[k].blocks[j] \in Held(r.blocks)
    <3>1. results[k].blocks[j] \in Held(results[k].blocks)
      BY DEF Held
    <3> QED BY <1>2, <3>1
  <2> QED BY <2>1 DEF Held
<1>9. ASSUME r.type \in Labels PROVE \E i \in DOMAIN r.blocks : SourceLabel[r.blocks[i].source] = r.type
  <2>1. PICK j \in DOMAIN results[k].blocks : SourceLabel[results[k].blocks[j].source] = r.type
    BY <1>6, <1>7, <1>9 DEF IsPartOf
  <2> QED BY <1>8, <2>1
<1>10. ASSUME r.type = "mixed" PROVE DOMAIN r.blocks # {}
  <2>1. DOMAIN results[k].blocks # {}
    BY <1>6, <1>7, <1>10 DEF IsPartOf
  <2> QED BY <1>8, <2>1
<1>11. ASSUME NEW l \in DOMAIN Parts(s) PROVE Places(Parts(s)[l]) \subseteq Places(r.lines)
  <2> SUFFICES ASSUME NEW x \in Places(Parts(s)[l]) PROVE x \in Places(r.lines)
    OBVIOUS
  <2>1. PICK i \in DOMAIN Parts(s)[l] : Parts(s)[l][i].index = x
    BY DEF Places
  <2>2. Parts(s)[l][i] \in Held(r.lines)
    <3>1. Parts(s)[l][i] \in Held(Parts(s)[l])
      BY DEF Held
    <3> QED BY <1>2, <3>1
  <2>3. PICK j \in DOMAIN r.lines : r.lines[j] = Parts(s)[l][i]
    BY <2>2 DEF Held
  <2> QED BY <2>1, <2>3 DEF Places
<1>12. LinesOf(r.lines, s)
  <2> SUFFICES ASSUME NEW i \in DOMAIN r.lines
               PROVE  r.lines[i].index \in 1 .. Len(s) /\ r.lines[i].shape = s[r.lines[i].index].shape
    BY DEF LinesOf
  <2>1. PICK l \in DOMAIN Parts(s) : r.lines[i] \in Held(Parts(s)[l])
    BY <1>2 DEF Held
  <2>2. PICK j \in DOMAIN Parts(s)[l] : r.lines[i] = Parts(s)[l][j]
    BY <2>1 DEF Held
  <2> QED BY <1>3, <2>2 DEF LinesOf
<1>13. r.lines # <<>>
  <2>1. PICK x \in DOMAIN Parts(s)[k] : TRUE
    BY PartsSaySomething
  <2>2. Parts(s)[k][x] \in Held(r.lines)
    <3>1. Parts(s)[k][x] \in Held(Parts(s)[k])
      BY <2>1 DEF Held
    <3> QED BY <1>2, <3>1
  <2>3. DOMAIN r.lines # {}
    BY <2>2 DEF Held
  <2> QED BY <2>3
<1> QED BY <1>5, <1>9, <1>10, <1>11, <1>12, <1>13 DEF SaysSomething, r

(* Two open lines in a row lie before some line that is emitted.           *)
LEMMA PairIsTaken ==
  ASSUME NEW s, IsSegment(s), NEW j \in 1 .. Len(s) - 1, Open(s, j), Open(s, j + 1)
  PROVE  \E e \in Ends(s) : j < e
<1> DEFINE m == LineModel(s)
           n == Len(s)
<1>1. n \in Nat /\ DOMAIN m = 1 .. n /\ Len(m) = n
  BY ModelIsRegion
<1>2. \A i \in 1 .. n : i \in Ends(s) <=>
        /\ Open(s, i)
        /\ i = n \/ (~ Open(s, i + 1) /\ i >= 2 /\ Open(s, i - 1))
  <2> SUFFICES ASSUME NEW i \in 1 .. n
               PROVE  i \in Ends(s) <=>
                        /\ Open(s, i)
                        /\ i = n \/ (~ Open(s, i + 1) /\ i >= 2 /\ Open(s, i - 1))
    OBVIOUS
  <2>1. i \in Ends(s) <=> Emits(m, i)
    BY <1>1 DEF Ends
  <2> HIDE DEF m, n
  <2>2. Emits(m, i) <=> /\ ~ IsBoundary(m[i])
                        /\ i = n \/ (IsBoundary(m[i + 1]) /\ i >= 2 /\ ~ IsBoundary(m[i - 1]))
    BY <1>1 DEF Emits, MinSegmentLines
  <2> QED BY <2>1, <2>2 DEF Open, m
<1> HIDE DEF m, n
<1>3. j \in 1 .. n - 1
  BY DEF n
<1>4. CASE Open(s, n)
  <2>1. n \in 1 .. n /\ j < n
    BY <1>1, <1>3
  <2> QED BY <1>2, <1>4, <2>1
<1>5. CASE ~ Open(s, n)
  <2> DEFINE T == {b \in Nat : j < b /\ b <= n /\ ~ Open(s, b)}
  <2>1. n \in T
    BY <1>1, <1>3, <1>5
  <2>2. PICK b \in T : \A c \in T : b <= c
    <3>1. T \in SUBSET Nat /\ T # {}
      BY <2>1
    <3> HIDE DEF T
    <3> QED BY <3>1, LeastNatural
  <2>3. b \in Nat /\ j < b /\ b <= n /\ ~ Open(s, b)
    OBVIOUS
  <2>4. \A c \in Nat : j < c /\ c < b => Open(s, c)
    <3> SUFFICES ASSUME NEW c \in Nat, j < c, c < b, ~ Open(s, c) PROVE FALSE
      OBVIOUS
    <3>1. c \in T
      BY <1>1, <2>3
    <3>2. b <= c
      BY <2>2, <3>1
    <3> HIDE DEF T
    <3> QED BY <2>3, <3>2
  <2> HIDE DEF T
  <2>5. b # j + 1
    BY <2>3
  <2> DEFINE e == b - 1
  <2>6. /\ e \in 1 .. n /\ e \in Nat /\ e - 1 \in Nat /\ j < e /\ e < b /\ e >= 2 /\ e # n /\ e + 1 = b
        /\ e - 1 = j \/ (j < e - 1 /\ e - 1 < b)
    BY <1>1, <1>3, <2>3, <2>5
  <2> HIDE DEF e
  <2>7. Open(s, e) /\ Open(s, e - 1) /\ ~ Open(s, e + 1)
    BY <2>3, <2>4, <2>6
  <2>8. e \in Ends(s)
    BY <1>2, <2>6, <2>7
  <2> QED BY <2>6, <2>8
<1> QED BY <1>4, <1>5

(* A line that is no boundary and in no part is stranded.                  *)
LEMMA NotTakenIsStranded ==
  ASSUME NEW s, IsSegment(s), NEW i \in 1 .. Len(s), Open(s, i),
         \A k \in DOMAIN Parts(s) : i \notin Places(Parts(s)[k])
  PROVE  Stranded(s, i)
<1> DEFINE m == LineModel(s)
           n == Len(s)
           wall(j) == j \notin DOMAIN m \/ IsBoundary(m[j])
<1>1. n \in Nat /\ DOMAIN m = 1 .. n /\ Len(m) = n
  BY ModelIsRegion
<1>2. Ends(s) # {}
  BY PartsAre
<1>3. \A e \in Ends(s) : e \in 1 .. n /\ ~ i <= e
  <2> SUFFICES ASSUME NEW e \in Ends(s) PROVE e \in 1 .. n /\ ~ i <= e
    OBVIOUS
  <2>1. e \in 1 .. n
    BY StartIs
  <2>2. i \notin 1 .. e
    BY PartsAre
  <2> HIDE DEF n
  <2> QED BY <1>1, <2>1, <2>2
<1>4. SubSegment(m) # <<>>
  <2> DEFINE N == Cardinality(Ends(s))
             part(e) == Where(SubSeq(m, Start(s, e), e), LAMBDA l : ~ IsBoundary(l))
             g == [e \in Ends(s) |-> part(e)]
  <2>1. SubSegment(m) = At(g, Ends(s))
    BY DEF SubSegment, Start, Ends
  <2>2. DOMAIN At(g, Ends(s)) = 1 .. N
    BY DEF At
  <2>3. N \in Nat /\ N # 0
    <3>1. Ends(s) \in SUBSET (1 .. n)
      BY <1>3
    <3>2. IsFiniteSet(Ends(s)) /\ N \in Nat
      BY <1>1, <3>1, Taken
    <3> QED BY <1>2, <3>2, FS_EmptySet
  <2> HIDE DEF g, N, m
  <2>4. 1 \in DOMAIN SubSegment(m)
    BY <2>1, <2>2, <2>3
  <2> QED BY <2>4
<1>5. \A j \in 1 .. n : wall(j) <=> ~ Open(s, j)
  BY <1>1 DEF Open
<1>6. \A j \in Int : j \notin 1 .. n => wall(j)
  BY <1>1
<1>7. wall(n)
  <2> SUFFICES ASSUME Open(s, n), n \in 1 .. n PROVE FALSE
    BY <1>5, <1>6, <1>1
  <2>1. Emits(m, n)
    BY <1>1 DEF Emits, Open
  <2>2. n \in Ends(s)
    BY <1>1, <2>1 DEF Ends
  <2> HIDE DEF n
  <2> QED BY <1>1, <1>3, <2>2 DEF n
<1> HIDE DEF wall
<1>8. \A j \in 1 .. n - 1 : i <= j + 1 => wall(j) \/ wall(j + 1)
  <2> SUFFICES ASSUME NEW j \in 1 .. n - 1, i <= j + 1, ~ wall(j), ~ wall(j + 1) PROVE FALSE
    OBVIOUS
  <2>1. j \in 1 .. n /\ j + 1 \in 1 .. n
    BY <1>1
  <2>2. Open(s, j) /\ Open(s, j + 1)
    BY <1>5, <2>1
  <2>3. PICK e \in Ends(s) : j < e
    BY <2>2, PairIsTaken
  <2> HIDE DEF n
  <2> QED BY <1>1, <1>3, <2>1, <2>3
<1>9. \A j \in i .. n : wall(j) \/ (wall(j - 1) /\ wall(j + 1))
  <2> SUFFICES ASSUME NEW j \in i .. n, ~ wall(j) PROVE wall(j - 1) /\ wall(j + 1)
    OBVIOUS
  <2>0. i \in 1 .. n
    OBVIOUS
  <2> HIDE DEF n
  <2>1. wall(j - 1)
    <3>1. CASE j - 1 \in 1 .. n - 1
      <4>1. (j - 1) + 1 = j /\ i <= (j - 1) + 1
        BY <1>1, <2>0
      <4> QED BY <1>8, <3>1, <4>1
    <3>2. CASE j - 1 \notin 1 .. n - 1
      <4>1. j - 1 \in Int /\ j - 1 \notin 1 .. n
        BY <1>1, <2>0, <3>2
      <4> QED BY <1>6, <4>1
    <3> QED BY <3>1, <3>2
  <2>2. wall(j + 1)
    <3>1. CASE j \in 1 .. n - 1
      <4>1. i <= j + 1
        BY <1>1, <2>0
      <4> QED BY <1>8, <3>1, <4>1
    <3>2. CASE j \notin 1 .. n - 1
      <4>1. j + 1 \in Int /\ j + 1 \notin 1 .. n
        BY <1>1, <2>0, <3>2
      <4> QED BY <1>6, <4>1
    <3> QED BY <3>1, <3>2
  <2> QED BY <2>1, <2>2
<1> QED BY <1>1, <1>4, <1>7, <1>9 DEF Stranded, wall

(* What is taken at a place of a set is among what is taken at the set.    *)
LEMMA TakenHas ==
  ASSUME NEW n \in Nat, NEW S \in SUBSET (1 .. n), NEW s, NEW i \in S
  PROVE  \E k \in DOMAIN At(s, S) : At(s, S)[k] = s[i]
<1>1. /\ DOMAIN At(s, S) = 1 .. Cardinality(S)
      /\ \A k \in 1 .. Cardinality(S) : At(s, S)[k] = s[Nth(S, k)]
      /\ \E k \in 1 .. Cardinality(S) : Nth(S, k) = i
  BY Taken
<1>2. PICK k \in 1 .. Cardinality(S) : Nth(S, k) = i
  BY <1>1
<1>3. k \in DOMAIN At(s, S) /\ At(s, S)[k] = s[i]
  BY <1>1, <1>2
<1> QED BY <1>3

(* The text of a segment has every line with a letter or digit.            *)
LEMMA TextKeepsWords ==
  ASSUME NEW s, IsSegment(s), NEW j \in 1 .. Len(s), IsAlnum(s[j])
  PROVE  j \in Held(StripSeparators(s))
<1> DEFINE m == LineModel(s)
           P == {i \in DOMAIN m : ~ Marked(m[i], "ruled")}
           kept == Where(m, LAMBDA l : ~ Marked(l, "ruled"))
           full == {k \in DOMAIN kept : ~ IsEmpty(kept[k])}
           a == Least(full)
           e == Greatest(full)
           sub == SubSeq(kept, a, e)
<1>1. /\ IsRegion(m) /\ DOMAIN m = 1 .. Len(s) /\ Len(s) \in Nat
      /\ m[j].index = j /\ m[j].shape = s[j].shape
  BY ModelIsRegion
<1>2. kept = At(m, P) /\ P \in SUBSET DOMAIN m
  BY DEF Where
<1>3. j \in P /\ ~ IsEmpty(m[j])
  <2>1. Placed(m[j])
    BY <1>1 DEF IsRegion
  <2>2. m[j].shape \in Shapes /\ IsAlnum(m[j])
    BY <1>1, <2>1 DEF Placed, IsAlnum
  <2>3. ~ IsEmpty(m[j]) /\ ~ Marked(m[j], "ruled")
    <3> HIDE DEF m
    <3> QED BY <2>2, WordedLines
  <2> QED BY <1>1, <2>3
<1> HIDE DEF m, P
<1>4. IsRegion(kept)
  BY <1>1, <1>2, SubRegion
<1>5. PICK k \in DOMAIN kept : kept[k] = m[j]
  <2> HIDE DEF kept
  <2>1. P \in SUBSET (1 .. Len(s)) /\ Len(s) \in Nat /\ j \in P
    BY <1>1, <1>2, <1>3
  <2>2. \E k \in DOMAIN At(m, P) : At(m, P)[k] = m[j]
    BY <2>1, TakenHas
  <2> QED BY <1>2, <2>2
<1>6. StripSeparators(s) = IF full = {} THEN <<>> ELSE PlacesOf(sub)
  BY DEF StripSeparators, m
<1> HIDE DEF kept
<1>7. Len(kept) \in Nat /\ DOMAIN kept = 1 .. Len(kept)
  BY <1>4, RegionLen
<1>8. k \in full /\ full \in SUBSET (1 .. Len(kept)) /\ full \in SUBSET Nat
  BY <1>3, <1>5, <1>7
<1> HIDE DEF full
<1>9. a \in full /\ e \in full /\ a <= k /\ k <= e
  <2>1. IsFiniteSet(full)
    BY <1>7, <1>8, Taken
  <2>2. \E x \in full : \A y \in full : x <= y
    BY <1>8, LeastNatural
  <2>3. \E x \in full : \A y \in full : y <= x
    BY <1>8, <2>1, GreatestNatural
  <2> QED BY <1>8, <2>2, <2>3 DEF Least, Greatest
<1> HIDE DEF a, e, sub
<1>10. a \in 1 .. Len(kept) /\ e \in 1 .. Len(kept) /\ a <= e /\ k \in a .. e
  BY <1>7, <1>8, <1>9
<1>11. /\ IsRegion(sub) /\ Len(sub) = e - a + 1
       /\ \A i \in 1 .. e - a + 1 : sub[i] = kept[a + i - 1]
  BY <1>4, <1>10, SubSeqRegion DEF sub
<1>12. k - a + 1 \in 1 .. e - a + 1 /\ a + (k - a + 1) - 1 = k
  BY <1>7, <1>10
<1>13. k - a + 1 \in DOMAIN sub /\ sub[k - a + 1] = m[j]
  <2>1. sub[k - a + 1] = kept[a + (k - a + 1) - 1]
    BY <1>11, <1>12
  <2>2. DOMAIN sub = 1 .. Len(sub)
    BY <1>11, RegionLen
  <2> QED BY <1>5, <1>11, <1>12, <2>1, <2>2
<1>14. j \in Places(sub)
  BY <1>1, <1>13 DEF Places
<1>15. Held(PlacesOf(sub)) = Places(sub)
  BY <1>11, PlacesOfRegion
<1> QED BY <1>6, <1>8, <1>14, <1>15

(* A segment packaged as prose keeps its words.                            *)
LEMMA ProseKeepsWords ==
  ASSUME NEW s, IsSegment(s), NEW j \in 1 .. Len(s), IsAlnum(s[j]),
         NEW r, r.type = "prose", NEW place
  PROVE  /\ ~ IsEmptySegment(Package(r, s, place))
         /\ j \in KeptPlaces(Package(r, s, place))
<1> DEFINE p == Package(r, s, place)
           t == StripSeparators(s)
<1>1. p.type = "prose" /\ p.text = t
  BY DEF Package
<1>2. PICK k \in DOMAIN t : t[k] = j
  BY TextKeepsWords DEF Held
<1> HIDE DEF t, p
<1>3. t # <<>>
  BY <1>2
<1>4. ~ IsEmptySegment(p)
  BY <1>1, <1>3 DEF IsEmptySegment
<1>5. j \in KeptPlaces(p)
  BY <1>1, <1>2 DEF KeptPlaces
<1> QED BY <1>4, <1>5 DEF p

(* Of the blocks of a sort, the first of them if there is any.             *)
LEMMA BlocksOfSort ==
  ASSUME NEW b, IsNumbered(b), NEW x, NEW i \in DOMAIN b, b[i].source = x
  PROVE  /\ 1 \in DOMAIN BlocksOf(b, x) /\ 1 \in DOMAIN FirstOf(b, x)
         /\ Held(BlocksOf(b, x)) \subseteq Held(b)
         /\ Held(FirstOf(b, x)) \subseteq Held(b)
<1> DEFINE P == {k \in DOMAIN b : b[k].source = x}
           q == BlocksOf(b, x)
           f == FirstOf(b, x)
<1>1. Len(b) \in Nat /\ DOMAIN b = 1 .. Len(b)
  BY Numbered
<1>2. q = At(b, P) /\ P \in SUBSET (1 .. Len(b)) /\ i \in P
  BY <1>1 DEF BlocksOf, Where
<1>3. f = [k \in {1} \cap DOMAIN q |-> q[k]]
  BY DEF FirstOf
<1> HIDE DEF P, q, f
<1>4. /\ Cardinality(P) \in Nat /\ DOMAIN q = 1 .. Cardinality(P)
      /\ \A k \in 1 .. Cardinality(P) : q[k] = b[Nth(P, k)] /\ Nth(P, k) \in P
      /\ \A d \in P : \E k \in 1 .. Cardinality(P) : Nth(P, k) = d
  BY <1>1, <1>2, Taken
<1>5. 1 \in DOMAIN q
  <2>1. PICK k \in 1 .. Cardinality(P) : Nth(P, k) = i
    BY <1>2, <1>4
  <2> DEFINE c == Cardinality(P)
  <2>2. c \in Nat /\ k \in 1 .. c /\ DOMAIN q = 1 .. c
    BY <1>4
  <2> HIDE DEF c
  <2> QED BY <2>2
<1>6. Held(q) \subseteq Held(b)
  BY <1>1, <1>2, <1>4 DEF Held
<1>7. 1 \in DOMAIN f /\ Held(f) \subseteq Held(q)
  BY <1>3, <1>5 DEF Held
<1> QED BY <1>5, <1>6, <1>7 DEF q, f

(* What a segment is packaged from are blocks the engine found, and there  *)
(* is one.                                                                 *)
LEMMA PackagedFrom ==
  ASSUME NEW s, NEW r, IsWholeOf(r, Len(s)), SaysSomething(r, s), r.type # "prose"
  PROVE  /\ 1 \in DOMAIN Packaged(r.type, r.blocks)
         /\ Held(Packaged(r.type, r.blocks)) \subseteq Held(r.blocks)
<1> DEFINE b == r.blocks
<1>1. IsNumbered(b)
  BY DEF IsWholeOf
<1>2. CASE r.type = "mixed"
  <2>1. Packaged(r.type, b) = b
    BY <1>2 DEF Packaged
  <2>2. DOMAIN b # {}
    BY <1>2 DEF SaysSomething
  <2>3. 1 \in DOMAIN b
    <3> HIDE DEF b
    <3> QED BY <1>1, <2>2 DEF IsNumbered
  <2> QED BY <2>1, <2>3
<1>3. CASE r.type \in Labels
  <2>1. PICK i \in DOMAIN b : SourceLabel[b[i].source] = r.type
    BY <1>3 DEF SaysSomething
  <2>2. b[i].source \in Sources
    BY DEF IsWholeOf, HoldsOf
  <2>3. /\ r.type = "kv_block"  => b[i].source = "kv"
        /\ r.type = "table"     => b[i].source = "table"
        /\ r.type = "hierarchy" => b[i].source = "tree_structure"
        /\ r.type = "context"   => b[i].source = "context"
    BY <2>1, <2>2 DEF Sources, SourceLabel
  <2>4. \/ Packaged(r.type, b) = BlocksOf(b, b[i].source)
        \/ Packaged(r.type, b) = FirstOf(b, b[i].source)
    BY <1>3, <2>3 DEF Packaged, Labels
  <2> DEFINE x == b[i].source
  <2>5. /\ 1 \in DOMAIN BlocksOf(b, x) /\ 1 \in DOMAIN FirstOf(b, x)
        /\ Held(BlocksOf(b, x)) \subseteq Held(b) /\ Held(FirstOf(b, x)) \subseteq Held(b)
    <3> HIDE DEF b
    <3> QED BY <1>1, BlocksOfSort
  <2> QED BY <2>4, <2>5
<1> QED BY <1>2, <1>3 DEF IsWholeOf

(* What is said of lines of a segment is said of its model.                *)
LEMMA WrittenOfModel ==
  ASSUME NEW s, IsSegment(s), NEW lines, LinesOf(lines, s), NEW q
  PROVE  Written(q, lines) \subseteq Written(q, LineModel(s))
<1> DEFINE model == LineModel(s)
<1>1. DOMAIN model = 1 .. Len(s) /\ \A i \in 1 .. Len(s) : model[i].index = i /\ model[i].shape = s[i].shape
  BY ModelIsRegion
<1> HIDE DEF model
<1>2. ASSUME NEW k \in DOMAIN q, NEW l \in LinesIn(q[k], lines)
      PROVE  \E m \in LinesIn(q[k], model) : LongerWords(m) = LongerWords(l)
  <2>1. PICK i \in DOMAIN lines : lines[i] = l /\ l.index \in PlacesIn(q[k])
    BY <1>2 DEF LinesIn
  <2>2. l.index \in DOMAIN model /\ model[l.index].index = l.index /\ model[l.index].shape = l.shape
    BY <1>1, <2>1 DEF LinesOf
  <2>3. model[l.index] \in LinesIn(q[k], model)
    BY <2>1, <2>2 DEF LinesIn
  <2>4. LongerWords(model[l.index]) = LongerWords(l)
    BY <2>2 DEF LongerWords
  <2> QED BY <2>3, <2>4
<1>3. ASSUME NEW w \in Written(q, lines) PROVE w \in Written(q, model)
  <2>1. PICK k \in DOMAIN q :
          w \in NamesIn[q[k].source] \/ \E l \in LinesIn(q[k], lines) : w \in LongerWords(l)
    BY DEF Written
  <2>2. w \in NamesIn[q[k].source] \/ \E m \in LinesIn(q[k], model) : w \in LongerWords(m)
    BY <1>2, <2>1
  <2> QED BY <2>2 DEF Written
<1> QED BY <1>3 DEF model

(* A line of what a part took is a gap, or the blocks are written with one *)
(* of its longer words, if it has any.                                     *)
LEMMA GapOrRepresented ==
  ASSUME NEW s, IsSegment(s), NEW lines, IsRegion(lines), LinesOf(lines, s),
         NEW j \in Places(lines), IsAlnum(s[j]), NEW q
  PROVE  \/ j \in Held(DetectGaps(lines, q))
         \/ Represented(s[j], LineModel(s), q)
<1> DEFINE ne == NonEmpty(lines)
           Q == {i \in DOMAIN lines : ~ IsEmpty(lines[i])}
           P == {i \in DOMAIN ne : ~ Represented(ne[i], lines, q)}
<1>1. PICK i \in DOMAIN lines : lines[i].index = j
  BY DEF Places
<1>2. lines[i].shape = s[j].shape /\ j \in 1 .. Len(s)
  BY <1>1 DEF LinesOf
<1>3. ~ IsEmpty(lines[i])
  <2>1. lines[i].shape \in Shapes
    BY DEF IsRegion, Placed
  <2>2. IsAlnum(lines[i])
    BY <1>2 DEF IsAlnum
  <2> QED BY <2>1, <2>2, WordedLines
<1>4. PICK k \in DOMAIN ne : ne[k] = lines[i]
  <2>1. ne = At(lines, Q) /\ Q \in SUBSET DOMAIN lines /\ i \in Q
    BY <1>3 DEF NonEmpty, Where
  <2> HIDE DEF Q, ne
  <2>2. Len(lines) \in Nat /\ DOMAIN lines = 1 .. Len(lines)
    BY RegionLen
  <2>3. \E k \in DOMAIN At(lines, Q) : At(lines, Q)[k] = lines[i]
    <3> DEFINE n == Len(lines)
    <3>1. n \in Nat /\ Q \in SUBSET (1 .. n) /\ i \in Q
      BY <2>1, <2>2
    <3> HIDE DEF n
    <3> QED BY <3>1, TakenHas
  <2> QED BY <2>1, <2>3
<1>5. DetectGaps(lines, q) = PlacesOf(At(ne, P)) /\ P \in SUBSET DOMAIN ne
  BY DEF DetectGaps, Where
<1>6. IsRegion(ne)
  BY NonEmptyRegion
<1>7. CASE ~ Represented(ne[k], lines, q)
  <2>1. k \in P
    BY <1>7
  <2> HIDE DEF ne, P
  <2>2. IsRegion(At(ne, P)) /\ Places(At(ne, P)) = {ne[x].index : x \in P}
    BY <1>5, <1>6, SubRegion
  <2>3. Held(PlacesOf(At(ne, P))) = Places(At(ne, P))
    BY <2>2, PlacesOfRegion
  <2>4. j \in Places(At(ne, P))
    BY <1>1, <1>4, <2>1, <2>2
  <2> QED BY <1>5, <2>3, <2>4
<1>8. CASE Represented(ne[k], lines, q)
  <2>1. LongerWords(ne[k]) = LongerWords(s[j])
    BY <1>2, <1>4 DEF LongerWords
  <2>2. Written(q, lines) \subseteq Written(q, LineModel(s))
    BY WrittenOfModel
  <2> QED BY <1>8, <2>1, <2>2 DEF Represented
<1> QED BY <1>7, <1>8

(* A segment the engine made something of keeps its words, save for the    *)
(* stranded lines and those taken to be represented.                       *)
LEMMA StructureKeepsWords ==
  ASSUME NEW s, Tight(s), NEW j \in 1 .. Len(s), IsAlnum(s[j]), NEW place,
         Structure(s).type # "prose"
  PROVE  LET p == Package(Structure(s), s, place)
         IN  /\ ~ IsEmptySegment(p)
             /\ j \in KeptPlaces(p) \/ Stranded(s, j) \/ Represented(s[j], LineModel(s), p.blocks)
<1> DEFINE r == Structure(s)
           q == Packaged(r.type, r.blocks)
           p == Package(r, s, place)
<1>1. IsSegment(s) /\ IsWholeOf(r, Len(s)) /\ SaysSomething(r, s) /\ r.type # "prose"
  BY MergedIs, MergedHolds DEF Tight
<1> HIDE DEF r
<1>2. 1 \in DOMAIN q /\ Held(q) \subseteq Held(r.blocks)
  BY <1>1, PackagedFrom
<1>3. q[1].items # <<>> /\ r.blocks # <<>> /\ r.lines # <<>>
  <2>1. q[1] \in Held(q)
    BY <1>2 DEF Held
  <2>2. PICK i \in DOMAIN r.blocks : q[1] = r.blocks[i]
    BY <1>2, <2>1 DEF Held
  <2>3. q[1].items # <<>> /\ r.lines # <<>>
    BY <1>1, <2>2 DEF SaysSomething
  <2>4. r.blocks # <<>>
    BY <2>2
  <2> QED BY <2>3, <2>4
<1>4. p.type = r.type /\ p.blocks = q /\ p.gaps = DetectGaps(r.lines, q)
  BY <1>1, <1>3 DEF Package
<1> HIDE DEF q, p
<1>5. ~ IsEmptySegment(p)
  <2>1. q # <<>>
    BY <1>2
  <2> QED BY <1>1, <1>2, <1>3, <1>4, <2>1 DEF IsEmptySegment
<1>6. Held(DetectGaps(r.lines, q)) \subseteq KeptPlaces(p)
  BY <1>4 DEF KeptPlaces, Held
<1>7. IsRegion(r.lines) /\ LinesOf(r.lines, s)
  BY <1>1 DEF IsWholeOf, SaysSomething
<1>8. CASE j \in Places(r.lines)
  <2>1. j \in Held(DetectGaps(r.lines, q)) \/ Represented(s[j], LineModel(s), q)
    BY <1>1, <1>7, <1>8, GapOrRepresented
  <2> QED BY <1>4, <1>5, <1>6, <2>1 DEF p, r
<1>9. CASE j \notin Places(r.lines)
  <2>1. \A k \in DOMAIN Parts(s) : j \notin Places(Parts(s)[k])
    BY <1>1, <1>9 DEF SaysSomething
  <2>2. Open(s, j)
    <3> DEFINE l == LineModel(s)[j]
    <3>1. IsRegion(LineModel(s)) /\ j \in DOMAIN LineModel(s) /\ l.shape = s[j].shape
      BY <1>1, ModelIsRegion
    <3>2. l.shape \in Shapes
      BY <3>1 DEF IsRegion, Placed
    <3> HIDE DEF l
    <3>3. IsAlnum(l)
      BY <3>1 DEF IsAlnum
    <3>4. ~ IsEmpty(l) /\ ~ Marked(l, "ruled")
      BY <3>2, <3>3, WordedLines
    <3> QED BY <3>4 DEF Open, IsBoundary, IsSeparator, IsStructuralEmpty, l
  <2>3. Stranded(s, j)
    BY <1>1, <2>1, <2>2, NotTakenIsStranded
  <2> QED BY <1>5, <2>3 DEF p, r
<1> QED BY <1>8, <1>9

(* What a packaged segment holds survives if the cleanup does not find it  *)
(* empty.                                                                  *)
LEMMA SurvivesCleanup ==
  ASSUME IsNumbered(segments), output.segments = Cleanup(FormatSegments(InOrder, segments)),
         NEW i \in DOMAIN segments, ~ IsEmptySegment(Package(Alone(i), segments[i], i))
  PROVE  /\ KeptPlaces(Package(Alone(i), segments[i], i)) \subseteq Surviving(i)
         /\ Written(Package(Alone(i), segments[i], i).blocks, LineModel(segments[i])) \subseteq WordsWritten(i)
<1> DEFINE n == Len(segments)
           F == FormatSegments(InOrder, segments)
           K == {k \in DOMAIN F : ~ IsEmptySegment(F[k])}
           p == Package(Alone(i), segments[i], i)
<1>1. n \in Nat /\ DOMAIN segments = 1 .. n
  BY Numbered
<1>2. DOMAIN F = 1 .. n /\ F[i] = p
  BY <1>1 DEF FormatSegments, InOrder
<1>3. output.segments = At(F, K) /\ K \in SUBSET (1 .. n)
  BY <1>2 DEF Cleanup, Where
<1>4. p.place = i
  BY DEF Package
<1> HIDE DEF p
<1>5. i \in K
  BY <1>1, <1>2 DEF p
<1> HIDE DEF n, F, K
<1>6. PICK k \in DOMAIN At(F, K) : At(F, K)[k] = F[i]
  BY <1>1, <1>3, <1>5, TakenHas
<1>7. k \in DOMAIN output.segments /\ output.segments[k] = p
  BY <1>2, <1>3, <1>6
<1>8. KeptPlaces(p) \subseteq Surviving(i)
  BY <1>4, <1>7 DEF Surviving
<1>9. Written(p.blocks, LineModel(segments[i])) \subseteq WordsWritten(i)
  BY <1>4, <1>7 DEF WordsWritten
<1> QED BY <1>8, <1>9 DEF p

(* Only JSON is routed as such.                                            *)
LEMMA OnlyJsonIsNative ==
  ASSUME NEW lines, DecideRoute(lines) = "JSON_NATIVE"
  PROVE  IsJson(lines)
<1> DEFINE s == ExtractSignals(lines)
           candidates == EvaluateCandidates(s)
           clear == {c \in candidates : \A d \in candidates \ {c} : c.score - d.score >= 150000}
<1>1. \A c \in candidates : c.route \in {"TABLE", "TREE", "KV"}
  BY DEF EvaluateCandidates
<1>2. DecideRoute(lines) = RouteBy(lines, s, candidates)
  BY DEF DecideRoute, RouteWith
<1> HIDE DEF candidates, s
<1>3. clear # {} => (CHOOSE c \in clear : TRUE) \in candidates
  OBVIOUS
<1>4. ~ IsJson(lines) => RouteBy(lines, s, candidates) # "JSON_NATIVE"
  BY <1>1, <1>3 DEF RouteBy
<1> QED BY <1>2, <1>4

(* A line with a letter or digit is in the output, or is of one of the     *)
(* kinds that are not.                                                     *)
LEMMA WordsSurvive ==
  ASSUME IsNumbered(segments), output.segments = Cleanup(FormatSegments(InOrder, segments)),
         NEW i \in DOMAIN segments, Tight(segments[i]),
         NEW j \in DOMAIN segments[i], IsAlnum(segments[i][j])
  PROVE  \/ j \in Surviving(i)
         \/ PrunedJson(segments[i])
         \/ Stranded(segments[i], j)
         \/ Repeated(i, j)
<1> DEFINE s == segments[i]
           p == Package(Alone(i), s, i)
<1>1. IsSegment(s) /\ j \in 1 .. Len(s)
  <2>1. IsSegment(s)
    BY DEF Tight
  <2> QED BY <2>1, ModelIsRegion
<1>2. ~ IsEmptySegment(p) => /\ KeptPlaces(p) \subseteq Surviving(i)
                             /\ Written(p.blocks, LineModel(s)) \subseteq WordsWritten(i)
  BY SurvivesCleanup
<1>3. CASE Alone(i).type = "prose"
  <2>1. ~ IsEmptySegment(p) /\ j \in KeptPlaces(p)
    <3> DEFINE r == Alone(i)
    <3>1. r.type = "prose"
      BY <1>3
    <3> HIDE DEF r
    <3>2. ~ IsEmptySegment(Package(r, s, i)) /\ j \in KeptPlaces(Package(r, s, i))
      BY <1>1, <3>1, ProseKeepsWords
    <3> QED BY <3>2 DEF r
  <2> QED BY <1>2, <2>1
<1>4. CASE DecideRoute(s) = "JSON_NATIVE"
  <2>1. IsJson(s)
    BY <1>4, OnlyJsonIsNative
  <2> QED BY <2>1 DEF PrunedJson
<1>5. CASE Alone(i) = Structure(s) /\ Structure(s).type # "prose"
  <2> DEFINE q == Package(Structure(s), s, i)
  <2>1. /\ ~ IsEmptySegment(q)
        /\ j \in KeptPlaces(q) \/ Stranded(s, j) \/ Represented(s[j], LineModel(s), q.blocks)
    BY <1>1, <1>5, StructureKeepsWords
  <2>2. q = p
    BY <1>5
  <2> HIDE DEF q, p
  <2>3. KeptPlaces(q) \subseteq Surviving(i) /\ Written(q.blocks, LineModel(s)) \subseteq WordsWritten(i)
    BY <1>2, <2>1, <2>2
  <2>4. Represented(s[j], LineModel(s), q.blocks) => Repeated(i, j)
    BY <2>3 DEF Represented, Repeated
  <2> QED BY <2>1, <2>3, <2>4
<1>6. \/ Alone(i).type = "prose" \/ DecideRoute(s) = "JSON_NATIVE" \/ Alone(i) = Structure(s)
  <2>1. ProseFallback.type = "prose" /\ Bypass("prose", 100).type = "prose"
    BY DEF ProseFallback, Bypass
  <2> QED BY <2>1 DEF Alone
<1> QED BY <1>3, <1>4, <1>5, <1>6

(* Every line with a letter or digit is in a segment, in order, and in the *)
(* output, unless it is JSON, is stranded, has no longer word, or shares   *)
(* one with a line or a name its segment is packaged with.                 *)
THEOREM NothingElseVanishes == Spec => []NoLineVanishes
<1>1. PipelineInv => NoLineVanishes
  <2> SUFFICES ASSUME PipelineInv, Done
               PROVE  /\ Words(Joined(segments, LAMBDA s : s)) = Words(doc)
                      /\ \A i \in DOMAIN segments, j \in 1 .. Len(doc) :
                           j \in DOMAIN segments[i] /\ IsAlnum(segments[i][j]) =>
                             \/ j \in Surviving(i)
                             \/ PrunedJson(segments[i])
                             \/ Stranded(segments[i], j)
                             \/ Repeated(i, j)
    BY DEF NoLineVanishes
  <2>1. /\ output.segments = Cleanup(FormatSegments(InOrder, segments))
        /\ doc \in Texts /\ segments = RunCorePipeline(doc)
    BY DEF PipelineInv, Done
  <2>2. Words(Joined(segments, LAMBDA s : s)) = Words(doc)
    BY <2>1, SegmentingKeepsWords
  <2>3. IsNumbered(segments)
    BY <2>1, SegmentsAre
  <2>4. \A i \in DOMAIN segments : Tight(segments[i])
    BY <2>1, SegmentsAreCuts DEF IsCutOf
  <2> QED BY <2>1, <2>2, <2>3, <2>4, WordsSurvive
<1> QED BY <1>1, PipelineAlways, PTL
=============================================================================
