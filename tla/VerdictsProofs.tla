---------------------------- MODULE VerdictsProofs ----------------------------
(***************************************************************************)
(* Proofs about Analysis and Verdicts, for any cohorts, conditions,        *)
(* timeout and threshold of samples: what is scored, how a replicate is    *)
(* read off rank counts, how targets are ranked, what a run tells and what *)
(* a passing condition rests on.                                           *)
(***************************************************************************)
EXTENDS Verdicts, FiniteSetTheorems, TLAPS

-----------------------------------------------------------------------------
(***************************************************************************)
(* Places in a finite ordered set.                                         *)
(***************************************************************************)
IsOrder(S, R) ==
    /\ \A x \in S : <<x, x>> \notin R
    /\ \A x, y, z \in S : <<x, y>> \in R /\ <<y, z>> \in R => <<x, z>> \in R
    /\ \A x, y \in S : x = y \/ <<x, y>> \in R \/ <<y, x>> \in R

Under(S, R, x) == {y \in S : <<y, x>> \in R}
Place(S, R, x) == Cardinality(Under(S, R, x))

\* The elements of a finite ordered set have the places 0, 1, 2, ..., in order.
LEMMA Places ==
    ASSUME NEW S, IsFiniteSet(S), NEW R, IsOrder(S, R)
    PROVE  /\ \A x \in S : Place(S, R, x) \in 0 .. Cardinality(S) - 1
           /\ \A x, y \in S : <<x, y>> \in R <=> Place(S, R, x) < Place(S, R, y)
           /\ \A k \in 0 .. Cardinality(S) - 1 : \E x \in S : Place(S, R, x) = k
<1> DEFINE n == Cardinality(S)
           f == [x \in S |-> Place(S, R, x)]
<1>1. n \in Nat
  BY FS_CardinalityType
<1>2. ASSUME NEW x \in S
      PROVE  IsFiniteSet(Under(S, R, x)) /\ Place(S, R, x) \in 0 .. n - 1
  <2>1. Under(S, R, x) \in SUBSET (S \ {x})
    BY DEF Under, IsOrder
  <2>2. IsFiniteSet(S \ {x}) /\ Cardinality(S \ {x}) = n - 1
    BY FS_RemoveElement
  <2>3. IsFiniteSet(Under(S, R, x)) /\ Cardinality(Under(S, R, x)) <= n - 1
    BY <2>1, <2>2, FS_Subset
  <2>4. Cardinality(Under(S, R, x)) \in Nat
    BY <2>3, FS_CardinalityType
  <2>5. QED
    BY <1>1, <2>3, <2>4 DEF Place
<1>3. ASSUME NEW x \in S, NEW y \in S, <<x, y>> \in R
      PROVE  Place(S, R, x) < Place(S, R, y)
  <2>1. Under(S, R, x) \cup {x} \in SUBSET Under(S, R, y) /\ x \notin Under(S, R, x)
    BY <1>3 DEF Under, IsOrder
  <2>2. IsFiniteSet(Under(S, R, x) \cup {x})
        /\ Cardinality(Under(S, R, x) \cup {x}) = Cardinality(Under(S, R, x)) + 1
    BY <1>2, <2>1, FS_AddElement
  <2>3. Cardinality(Under(S, R, x) \cup {x}) <= Cardinality(Under(S, R, y))
    BY <1>2, <2>1, FS_Subset
  <2>4. QED
    BY <1>1, <1>2, <2>2, <2>3 DEF Place
<1>4. ASSUME NEW x \in S, NEW y \in S, Place(S, R, x) < Place(S, R, y)
      PROVE  <<x, y>> \in R
  <2>1. x # y /\ ~(Place(S, R, y) < Place(S, R, x))
    BY <1>1, <1>2, <1>4
  <2>2. <<y, x>> \notin R
    BY <1>3, <2>1
  <2>3. QED
    BY <2>1, <2>2 DEF IsOrder
<1>5. f \in Injection(S, 0 .. n - 1)
  <2>1. f \in [S -> 0 .. n - 1]
    BY <1>2
  <2>2. ASSUME NEW x \in S, NEW y \in S, f[x] = f[y] PROVE x = y
    <3>1. ~(Place(S, R, x) < Place(S, R, y)) /\ ~(Place(S, R, y) < Place(S, R, x))
      BY <1>1, <1>2, <2>2
    <3>2. <<x, y>> \notin R /\ <<y, x>> \notin R
      BY <1>3, <3>1
    <3>3. QED
      BY <3>2 DEF IsOrder
  <2>3. QED
    BY <2>1, <2>2 DEF Injection, IsInjective
<1>6. IsFiniteSet(0 .. n - 1) /\ Cardinality(0 .. n - 1) = n
  <2>1. 0 \in Int /\ n - 1 \in Int
    BY <1>1
  <2>2. IsFiniteSet(0 .. n - 1) /\ Cardinality(0 .. n - 1) = IF 0 > n - 1 THEN 0 ELSE n - 1 - 0 + 1
    BY ONLY <2>1, FS_Interval
  <2>3. QED
    BY <1>1, <2>2
<1>7. f \in Surjection(S, 0 .. n - 1)
  BY <1>5, <1>6, FS_Injection
<1>8. \A k \in 0 .. n - 1 : \E x \in S : Place(S, R, x) = k
  BY <1>7 DEF Surjection
<1>9. QED
  BY <1>2, <1>3, <1>4, <1>8

\* The integers of S in ascending order.
Ascending(S) == {x \in S \X S : x[1] < x[2]}

LEMMA AscendingOrder ==
    ASSUME NEW S \in SUBSET Int
    PROVE  /\ IsOrder(S, Ascending(S))
           /\ \A x, y \in S : <<x, y>> \in Ascending(S) <=> x < y
<1>1. \A x, y \in S : <<x, y>> \in Ascending(S) <=> x < y
  BY DEF Ascending
<1>2. QED
  BY <1>1 DEF IsOrder

\* A finite set of integers has a least and a greatest member.
LEMMA Extremes ==
    ASSUME NEW S \in SUBSET Int, IsFiniteSet(S), S # {}
    PROVE  /\ Min(S) \in S /\ \A y \in S : Min(S) <= y
           /\ Max(S) \in S /\ \A y \in S : y <= Max(S)
<1> DEFINE n == Cardinality(S)
           P(x) == Place(S, Ascending(S), x)
<1>1. n \in Nat /\ n # 0
  BY FS_CardinalityType, FS_EmptySet
<1>2. /\ \A x \in S : P(x) \in 0 .. n - 1
      /\ \A x, y \in S : x < y <=> P(x) < P(y)
      /\ \A k \in 0 .. n - 1 : \E x \in S : P(x) = k
  BY AscendingOrder, Places
<1> HIDE DEF P, n
<1>3. PICK x \in S : P(x) = 0
  BY <1>1, <1>2
<1>4. \A y \in S : x <= y
  BY <1>1, <1>2, <1>3
<1>5. PICK z \in S : P(z) = n - 1
  BY <1>1, <1>2
<1>6. \A y \in S : y <= z
  BY <1>1, <1>2, <1>5
<1>7. QED
  BY <1>4, <1>6 DEF Min, Max

-----------------------------------------------------------------------------
(***************************************************************************)
(* Sorted samples and percentiles.                                         *)
(***************************************************************************)
IsSample(s) ==
    /\ DOMAIN s \in SUBSET Int /\ IsFiniteSet(DOMAIN s)
    /\ \A i \in DOMAIN s : s[i] \in Int

\* The order in which Position counts.
Precedes(s) ==
    {x \in (DOMAIN s) \X (DOMAIN s) :
        s[x[1]] < s[x[2]] \/ (s[x[1]] = s[x[2]] /\ x[1] < x[2])}

LEMMA Positions ==
    ASSUME NEW s, IsSample(s)
    PROVE  /\ Size(s) \in Nat
           /\ \A i \in DOMAIN s : Position(s, i) \in 0 .. Size(s) - 1
           /\ \A i, j \in DOMAIN s :
                 Position(s, i) < Position(s, j) <=> s[i] < s[j] \/ (s[i] = s[j] /\ i < j)
           /\ \A k \in 0 .. Size(s) - 1 : \E i \in DOMAIN s : Position(s, i) = k
<1> DEFINE D == DOMAIN s
<1>1. \A i, j \in D : <<j, i>> \in Precedes(s) <=> s[j] < s[i] \/ (s[j] = s[i] /\ j < i)
  BY DEF Precedes
<1>2. IsOrder(D, Precedes(s))
  <2>1. D \subseteq Int /\ \A i \in D : s[i] \in Int
    BY DEF IsSample
  <2> HIDE DEF D
  <2>2. QED
    BY <1>1, <2>1 DEF IsOrder
<1>3. \A i \in D : Position(s, i) = Place(D, Precedes(s), i)
  <2> SUFFICES ASSUME NEW i \in D PROVE Position(s, i) = Place(D, Precedes(s), i)
    OBVIOUS
  <2>1. {j \in D : s[j] < s[i] \/ (s[j] = s[i] /\ j < i)} = Under(D, Precedes(s), i)
    BY <1>1 DEF Under
  <2>2. QED
    BY <2>1 DEF Position, Place
<1>4. IsFiniteSet(D) /\ Size(s) = Cardinality(D) /\ Size(s) \in Nat
  BY FS_CardinalityType DEF IsSample, Size
<1>5. /\ \A x \in D : Place(D, Precedes(s), x) \in 0 .. Cardinality(D) - 1
      /\ \A x, y \in D : <<x, y>> \in Precedes(s)
                           <=> Place(D, Precedes(s), x) < Place(D, Precedes(s), y)
      /\ \A k \in 0 .. Cardinality(D) - 1 : \E x \in D : Place(D, Precedes(s), x) = k
  <2> HIDE DEF D
  <2>1. QED
    BY <1>2, <1>4, Places
<1> HIDE DEF D
<1>6. ASSUME NEW i \in D, NEW j \in D
      PROVE  Position(s, i) < Position(s, j) <=> s[i] < s[j] \/ (s[i] = s[j] /\ i < j)
  <2>1. <<i, j>> \in Precedes(s) <=> s[i] < s[j] \/ (s[i] = s[j] /\ i < j)
    BY <1>1
  <2>2. <<i, j>> \in Precedes(s) <=> Position(s, i) < Position(s, j)
    BY <1>3, <1>5
  <2>3. QED
    BY <2>1, <2>2
<1>7. /\ \A i \in D : Position(s, i) \in 0 .. Size(s) - 1
      /\ \A k \in 0 .. Size(s) - 1 : \E i \in D : Position(s, i) = k
  BY <1>3, <1>4, <1>5
<1>8. QED
  BY <1>4, <1>6, <1>7 DEF D

\* The sorted sample: its value k is that of the index with position k, so it
\* ascends.
LEMMA SortedSample ==
    ASSUME NEW s, IsSample(s)
    PROVE  /\ Sorted(s) \in [0 .. Size(s) - 1 -> Int]
           /\ \A i \in DOMAIN s : Sorted(s)[Position(s, i)] = s[i]
           /\ \A k, l \in 0 .. Size(s) - 1 : k <= l => Sorted(s)[k] <= Sorted(s)[l]
<1> DEFINE At(k) == CHOOSE i \in DOMAIN s : Position(s, i) = k
           n == Size(s)
<1>1. /\ n \in Nat
      /\ \A i \in DOMAIN s : Position(s, i) \in 0 .. n - 1
      /\ \A i, j \in DOMAIN s :
            Position(s, i) < Position(s, j) <=> s[i] < s[j] \/ (s[i] = s[j] /\ i < j)
      /\ \A k \in 0 .. n - 1 : \E i \in DOMAIN s : Position(s, i) = k
  BY Positions
<1>2. DOMAIN s \subseteq Int /\ \A i \in DOMAIN s : s[i] \in Int
  BY DEF IsSample
<1>3. Sorted(s) = [k \in 0 .. n - 1 |-> s[At(k)]]
  BY DEF Sorted
<1>4. \A k \in 0 .. n - 1 : At(k) \in DOMAIN s /\ Position(s, At(k)) = k
  BY <1>1
<1> HIDE DEF At, n
<1>5. \A i, j \in DOMAIN s : Position(s, i) = Position(s, j) => i = j
  BY <1>1, <1>2
<1>6. \A i \in DOMAIN s : At(Position(s, i)) = i
  BY <1>1, <1>4, <1>5
<1>7. \A i \in DOMAIN s : Sorted(s)[Position(s, i)] = s[i]
  BY <1>1, <1>3, <1>6
<1>8. ASSUME NEW k \in 0 .. n - 1, NEW l \in 0 .. n - 1, k <= l
      PROVE  Sorted(s)[k] <= Sorted(s)[l]
  <2>1. Sorted(s)[k] = s[At(k)] /\ Sorted(s)[l] = s[At(l)]
    BY <1>3
  <2>2. CASE k = l
    BY <2>1, <2>2, <1>2, <1>4
  <2>3. CASE k < l
    <3>1. s[At(k)] < s[At(l)] \/ s[At(k)] = s[At(l)]
      BY <1>1, <1>4, <2>3
    <3>2. QED
      BY <1>2, <1>4, <2>1, <3>1
  <2>4. QED
    BY <1>8, <2>2, <2>3
<1>9. Sorted(s) \in [0 .. n - 1 -> Int]
  BY <1>2, <1>3, <1>4
<1>10. QED
  BY <1>7, <1>8, <1>9 DEF n

\* A median or 95th percentile is an integer.
LEMMA InterpolatedInteger ==
    ASSUME NEW n \in Nat \ {0}, NEW value \in [0 .. n - 1 -> Int], NEW p \in {10, 19}
    PROVE  Interpolated(value, n, p) \in Int
<1> DEFINE position == p * (n - 1)
           weight == position % 20
<1>1. position \in Nat /\ (n = 1 => position = 0) /\ (n # 1 => position < 20 * (n - 1))
  OBVIOUS
<1>2. position \div 20 \in 0 .. n - 1 /\ weight \in 0 .. 19
      /\ position = 20 * (position \div 20) + weight
  <2>1. /\ position \div 20 \in Nat /\ weight \in 0 .. 19
        /\ position = 20 * (position \div 20) + weight
    BY <1>1
  <2> HIDE DEF position, weight
  <2>2. QED
    BY <1>1, <2>1
<1>3. weight # 0 => position \div 20 + 1 \in 0 .. n - 1
  <2>1. weight # 0 => n # 1
    BY <1>1, <1>2
  <2> HIDE DEF position, weight
  <2>2. QED
    BY <1>1, <1>2, <2>1
<1>4. Interpolated(value, n, p) =
        (20 - weight) * value[position \div 20]
          + (IF weight = 0 THEN 0 ELSE weight * value[position \div 20 + 1])
  BY DEF Interpolated
<1> HIDE DEF position, weight
<1>5. value[position \div 20] \in Int /\ 20 - weight \in Int /\ weight \in Int
      /\ (weight # 0 => value[position \div 20 + 1] \in Int)
  BY <1>2, <1>3
<1> DEFINE u == value[position \div 20]
           v == value[position \div 20 + 1]
<1>6. /\ Interpolated(value, n, p) = (20 - weight) * u + (IF weight = 0 THEN 0 ELSE weight * v)
      /\ u \in Int /\ (weight # 0 => v \in Int) /\ 20 - weight \in Int /\ weight \in Int
  BY <1>4, <1>5
<1> HIDE DEF u, v
<1>7. \A x, y \in Int : x * y \in Int /\ x + y \in Int
  OBVIOUS
<1>8. (20 - weight) * u \in Int /\ (weight # 0 => weight * v \in Int)
  BY ONLY <1>6, <1>7
<1>9. QED
  BY ONLY <1>6, <1>7, <1>8

-----------------------------------------------------------------------------
(***************************************************************************)
(* Rank counts. The draws that hit a latency are counted by its rank, and  *)
(* countedValues walks the counts instead of sorting the values drawn.     *)
(***************************************************************************)
Hit(hits, rank, r)  == {i \in hits : rank[i] = r}
UpTo(hits, rank, r) == {i \in hits : rank[i] <= r}

RankCounts(hits, rank, m) == [r \in 0 .. m - 1 |-> Cardinality(Hit(hits, rank, r))]

\* The running total of the counts is the number of hits of no higher rank.
LEMMA RunningTotal ==
    ASSUME NEW hits \in SUBSET Int, IsFiniteSet(hits), NEW m \in Nat,
           NEW rank \in [hits -> 0 .. m - 1], NEW r \in 0 .. m - 1
    PROVE  Total(RankCounts(hits, rank, m), r) = Cardinality(UpTo(hits, rank, r))
<1> DEFINE counts == RankCounts(hits, rank, m)
           H(s) == Hit(hits, rank, s)
           P(s, i) == Place(H(s), Ascending(H(s)), i)
           U == UpTo(hits, rank, r)
           V == UNION {{s} \X (1 .. counts[s]) : s \in 0 .. r}
           g == [i \in U |-> <<rank[i], P(rank[i], i) + 1>>]
<1>1. \A s \in 0 .. m - 1 : counts[s] = Cardinality(H(s))
  BY DEF RankCounts
<1>2. ASSUME NEW s \in 0 .. m - 1
      PROVE  /\ Cardinality(H(s)) \in Nat
             /\ \A i \in H(s) : P(s, i) \in 0 .. Cardinality(H(s)) - 1
             /\ \A i, j \in H(s) : i < j <=> P(s, i) < P(s, j)
             /\ \A k \in 0 .. Cardinality(H(s)) - 1 : \E i \in H(s) : P(s, i) = k
  <2>1. H(s) \in SUBSET Int /\ IsFiniteSet(H(s))
    BY FS_Subset DEF Hit
  <2>2. Cardinality(H(s)) \in Nat
    BY <2>1, FS_CardinalityType
  <2> HIDE DEF H
  <2>3. QED
    BY <2>1, <2>2, AscendingOrder, Places
<1>3. IsFiniteSet(U)
  BY FS_Subset DEF UpTo
<1>4. \A i \in U : rank[i] \in 0 .. r /\ rank[i] \in 0 .. m - 1 /\ i \in H(rank[i])
  BY DEF UpTo, Hit
<1>5. \A s \in 0 .. r : s \in 0 .. m - 1 /\ H(s) \subseteq U /\ \A i \in H(s) : rank[i] = s
  BY DEF UpTo, Hit
<1>6. \A v : v \in V <=> \E s \in 0 .. r : \E k \in 1 .. counts[s] : v = <<s, k>>
  OBVIOUS
<1> U \subseteq Int
  BY DEF UpTo
<1> HIDE DEF counts, H, P, U, V
<1>7. g \in [U -> V]
  <2> SUFFICES ASSUME NEW i \in U PROVE <<rank[i], P(rank[i], i) + 1>> \in V
    OBVIOUS
  <2>1. P(rank[i], i) + 1 \in 1 .. counts[rank[i]]
    BY <1>1, <1>2, <1>4
  <2>2. QED
    BY <1>4, <1>6, <2>1
<1>8. \A i, j \in U : g[i] = g[j] => i = j
  <2> SUFFICES ASSUME NEW i \in U, NEW j \in U, g[i] = g[j] PROVE i = j
    OBVIOUS
  <2>1. rank[i] = rank[j] /\ P(rank[i], i) + 1 = P(rank[j], j) + 1
    OBVIOUS
  <2>2. i \in H(rank[i]) /\ j \in H(rank[i]) /\ rank[i] \in 0 .. m - 1
    BY <1>4, <2>1
  <2>3. P(rank[i], i) = P(rank[i], j)
    BY <1>2, <2>1, <2>2
  <2>4. ~(i < j) /\ ~(j < i)
    BY <1>2, <2>2, <2>3
  <2>5. QED
    BY <2>4
<1>9. \A v \in V : \E i \in U : g[i] = v
  <2> SUFFICES ASSUME NEW v \in V PROVE \E i \in U : g[i] = v
    OBVIOUS
  <2>1. PICK s \in 0 .. r : \E k \in 1 .. counts[s] : v = <<s, k>>
    BY <1>6
  <2>2. PICK k \in 1 .. counts[s] : v = <<s, k>>
    BY <2>1
  <2>3. s \in 0 .. m - 1 /\ k - 1 \in 0 .. Cardinality(H(s)) - 1
    BY <1>1, <1>2, <1>5, <2>2
  <2>4. PICK i \in H(s) : P(s, i) = k - 1
    BY <1>2, <2>3
  <2>5. i \in U /\ rank[i] = s
    BY <1>5, <2>4
  <2>6. g[i] = <<s, k - 1 + 1>>
    BY <2>4, <2>5
  <2>7. QED
    BY <2>2, <2>5, <2>6
<1>10. g \in Bijection(U, V)
  <2> HIDE DEF g
  <2>1. QED
    BY <1>7, <1>8, <1>9 DEF Bijection, Injection, Surjection, IsInjective
<1>11. Cardinality(V) = Cardinality(U)
  BY <1>3, <1>10, FS_Bijection DEF ExistsBijection
<1>12. QED
  BY <1>11 DEF Total, U, V, counts

\* The walk finds the value that the sorted hits have at the same position.
LEMMA CountedValueIsSorted ==
    ASSUME NEW s, IsSample(s), NEW m \in Nat, NEW sorted \in [0 .. m - 1 -> Int],
           \A a, b \in 0 .. m - 1 : a <= b => sorted[a] <= sorted[b],
           NEW rank \in [DOMAIN s -> 0 .. m - 1],
           \A i \in DOMAIN s : sorted[rank[i]] = s[i],
           NEW k \in 0 .. Size(s) - 1
    PROVE  CountedValue(sorted, RankCounts(DOMAIN s, rank, m), k) = Sorted(s)[k]
<1> DEFINE D == DOMAIN s
           counts == RankCounts(D, rank, m)
           T(r) == Total(counts, r)
           C(r) == Cardinality(UpTo(D, rank, r))
           Enough == {r \in 0 .. m - 1 : T(r) > k}
           Stops(r) == r \in DOMAIN sorted /\ T(r) > k /\ \A a \in 0 .. r - 1 : T(a) <= k
<1>1. D \in SUBSET Int /\ IsFiniteSet(D) /\ (\A i \in D : s[i] \in Int)
  BY DEF IsSample
<1>2. \A r \in 0 .. m - 1 : T(r) = C(r)
  BY <1>1, RunningTotal
<1>3. \A r : UpTo(D, rank, r) \in SUBSET D /\ IsFiniteSet(UpTo(D, rank, r)) /\ C(r) \in Nat
  BY <1>1, FS_Subset, FS_CardinalityType DEF UpTo
<1>4. Size(s) = Cardinality(D) /\ Size(s) \in Nat /\ k \in Nat /\ k < Size(s)
  BY <1>1, FS_CardinalityType DEF Size
<1>5. m - 1 \in Enough
  <2>1. D # {}
    <3>1. Cardinality(D) # 0
      BY <1>4
    <3> HIDE DEF D
    <3>2. QED
      BY <3>1, FS_EmptySet
  <2>2. m - 1 \in 0 .. m - 1
    BY <2>1
  <2>3. UpTo(D, rank, m - 1) = D
    <3>1. \A i \in D : rank[i] <= m - 1
      OBVIOUS
    <3> HIDE DEF D
    <3>2. QED
      BY <3>1 DEF UpTo
  <2>4. QED
    BY <1>2, <1>4, <2>2, <2>3
<1>6. IsFiniteSet(Enough) /\ Enough \in SUBSET Int
  <2>1. 0 \in Int /\ m - 1 \in Int
    OBVIOUS
  <2>2. IsFiniteSet(0 .. m - 1)
    BY ONLY <2>1, FS_Interval
  <2>3. Enough \in SUBSET (0 .. m - 1)
    OBVIOUS
  <2>4. IsFiniteSet(Enough)
    BY ONLY <2>2, <2>3, FS_Subset
  <2>5. QED
    BY <2>3, <2>4
<1>7. Stops(Min(Enough))
  <2>1. Min(Enough) \in Enough /\ \A a \in Enough : Min(Enough) <= a
    BY <1>5, <1>6, Extremes
  <2>2. \A a \in 0 .. m - 1 : T(a) \in Nat
    BY <1>2, <1>3
  <2> DEFINE first == Min(Enough)
  <2>3. first \in 0 .. m - 1 /\ T(first) > k /\ \A a \in 0 .. m - 1 : T(a) > k => first <= a
    BY <2>1
  <2> HIDE DEF first, T, Enough
  <2>4. first \in DOMAIN sorted /\ T(first) > k
    BY <2>3
  <2>5. \A a \in 0 .. first - 1 : T(a) <= k
    BY <1>4, <2>2, <2>3
  <2>6. QED
    BY <2>4, <2>5 DEF first
<1> DEFINE r == CHOOSE x \in DOMAIN sorted : T(x) > k /\ \A a \in 0 .. x - 1 : T(a) <= k
<1>8. r \in 0 .. m - 1 /\ C(r) > k /\ \A a \in 0 .. r - 1 : C(a) <= k
  <2>1. Stops(r)
    BY <1>7
  <2>2. QED
    BY <1>2, <2>1
<1>9. CountedValue(sorted, counts, k) = sorted[r]
  BY DEF CountedValue
<1>10. PICK i \in D : Position(s, i) = k
  BY Positions
<1>11. Sorted(s)[k] = s[i]
  BY <1>10, SortedSample
<1> HIDE DEF counts, T, C, Enough, Stops, r, D
<1>12. s[i] \in Int /\ sorted[r] \in Int
  BY <1>1, <1>8
<1> DEFINE Earlier(j) == s[j] < s[i] \/ (s[j] = s[i] /\ j < i)
           B == {j \in D : Earlier(j)}
<1>13. B \in SUBSET D /\ IsFiniteSet(B) /\ Cardinality(B) = k /\ i \notin B
  <2>1. B \in SUBSET D /\ i \notin B
    BY <1>1, <1>12
  <2>2. Cardinality(B) = k
    BY <1>10 DEF Position, D
  <2>3. IsFiniteSet(B)
    BY <1>1, <2>1, FS_Subset
  <2>4. QED
    BY <2>1, <2>2, <2>3
<1>14. \A j \in D : rank[j] \in 0 .. m - 1 /\ sorted[rank[j]] = s[j]
  BY DEF D
<1>15. ~(s[i] > sorted[r])
  <2> SUFFICES ASSUME s[i] > sorted[r] PROVE FALSE
    OBVIOUS
  <2>1. ASSUME NEW j \in UpTo(D, rank, r) PROVE j \in B
    <3>1. j \in D /\ rank[j] <= r /\ rank[j] \in 0 .. m - 1
      BY <1>14 DEF UpTo
    <3>2. s[j] <= sorted[r]
      BY <1>8, <1>14, <3>1
    <3>3. s[j] < s[i]
      BY <1>1, <1>12, <3>1, <3>2
    <3>4. QED
      BY <3>1, <3>3
  <2>2. C(r) <= k
    <3>1. UpTo(D, rank, r) \in SUBSET B
      BY <2>1
    <3> HIDE DEF B
    <3>2. Cardinality(UpTo(D, rank, r)) <= Cardinality(B)
      BY <1>13, <3>1, FS_Subset
    <3>3. QED
      BY <1>13, <3>2 DEF C
  <2>3. QED
    BY <1>3, <1>4, <1>8, <2>2
<1>16. ~(s[i] < sorted[r])
  <2> SUFFICES ASSUME s[i] < sorted[r] PROVE FALSE
    OBVIOUS
  <2>1. ASSUME NEW j \in B \cup {i} PROVE j \in D /\ rank[j] <= r - 1
    <3>1. j \in D /\ s[j] <= s[i]
      BY <1>1, <1>12, <1>13
    <3>2. s[j] < sorted[r]
      BY <1>1, <1>12, <3>1
    <3>3. ~(r <= rank[j])
      BY <1>8, <1>12, <1>14, <3>1, <3>2
    <3>4. QED
      BY <1>8, <1>14, <3>1, <3>3
  <2>2. r - 1 \in 0 .. r - 1
    BY <1>8, <1>14, <2>1
  <2>3. B \cup {i} \in SUBSET UpTo(D, rank, r - 1)
    BY <2>1 DEF UpTo
  <2>4. Cardinality(B \cup {i}) = k + 1
    <3> HIDE DEF B
    <3>1. QED
      BY <1>13, FS_AddElement
  <2>5. k + 1 <= C(r - 1)
    <3> HIDE DEF B
    <3>1. Cardinality(B \cup {i}) <= Cardinality(UpTo(D, rank, r - 1))
      BY <1>3, <2>3, FS_Subset
    <3>2. QED
      BY <2>4, <3>1 DEF C
  <2>6. QED
    BY <1>3, <1>4, <1>8, <2>2, <2>5
<1>17. s[i] = sorted[r]
  BY <1>12, <1>15, <1>16
<1>18. QED
  BY <1>9, <1>11, <1>17 DEF counts, D

\* The samples a draw stands for.
Resample(samples, draw) == [i \in DOMAIN draw |-> samples[draw[i]]]

LEMMA LatencySample ==
    ASSUME NEW samples, IsSample(samples)
    PROVE  /\ IsSample(Latencies(samples))
           /\ DOMAIN Latencies(samples) = {i \in DOMAIN samples : samples[i] >= 0}
           /\ \A i \in DOMAIN Latencies(samples) : Latencies(samples)[i] = samples[i]
           /\ Size(samples) \in Nat /\ Size(Latencies(samples)) \in 0 .. Size(samples)
<1>1. /\ DOMAIN Latencies(samples) = {i \in DOMAIN samples : samples[i] >= 0}
      /\ \A i \in DOMAIN Latencies(samples) : Latencies(samples)[i] = samples[i]
  BY DEF Latencies, Restrict
<1>2. DOMAIN Latencies(samples) \in SUBSET DOMAIN samples
  BY <1>1
<1>3. /\ IsFiniteSet(DOMAIN Latencies(samples))
      /\ Cardinality(DOMAIN Latencies(samples)) <= Cardinality(DOMAIN samples)
  BY <1>2, FS_Subset DEF IsSample
<1>4. Cardinality(DOMAIN samples) \in Nat /\ Cardinality(DOMAIN Latencies(samples)) \in Nat
  BY <1>3, FS_CardinalityType DEF IsSample
<1>5. IsSample(Latencies(samples))
  BY <1>1, <1>2, <1>3 DEF IsSample
<1>6. QED
  BY <1>1, <1>3, <1>4, <1>5 DEF Size

\* A replicate read off rank counts is the score of the resample.
LEMMA ReplicateScore ==
    ASSUME NEW samples, IsSample(samples), NEW draw \in Draws(samples)
    PROVE  /\ IsSample(Resample(samples, draw))
           /\ Size(Resample(samples, draw)) = Size(samples)
           /\ Replicate(samples, draw) = ScoreOf(Resample(samples, draw))
<1> DEFINE S == DOMAIN samples
           lat == Latencies(samples)
           re == Resample(samples, draw)
           hits == {i \in DOMAIN draw : draw[i] \in DOMAIN lat}
           m == Size(lat)
           rank == [i \in hits |-> Position(lat, draw[i])]
           counts == [r \in 0 .. m - 1 |-> Cardinality({i \in hits : Position(lat, draw[i]) = r})]
           drawn == Cardinality(hits)
<1>1. draw \in [S -> S] /\ DOMAIN re = S /\ \A i \in S : re[i] = samples[draw[i]]
  BY DEF Draws, Resample
<1>2. IsSample(re) /\ Size(re) = Size(samples)
  BY <1>1 DEF IsSample, Size
<1>3. /\ IsSample(lat) /\ DOMAIN lat = {i \in S : samples[i] >= 0}
      /\ \A i \in DOMAIN lat : lat[i] = samples[i]
      /\ m \in Nat
  BY LatencySample
<1>4. /\ IsSample(Latencies(re)) /\ DOMAIN Latencies(re) = {i \in S : re[i] >= 0}
      /\ \A i \in DOMAIN Latencies(re) : Latencies(re)[i] = re[i]
  BY <1>1, <1>2, LatencySample
<1> HIDE DEF S, lat, re, m
<1>5. DOMAIN Latencies(re) = hits /\ \A i \in hits : Latencies(re)[i] = lat[draw[i]]
  BY <1>1, <1>3, <1>4
<1>6. drawn = Size(Latencies(re))
  BY <1>5 DEF Size
<1>7. rank \in [hits -> 0 .. m - 1]
  BY <1>3, Positions DEF m
<1>8. counts = RankCounts(hits, rank, m)
  <2>1. \A r : {i \in hits : Position(lat, draw[i]) = r} = Hit(hits, rank, r)
    BY DEF Hit
  <2> HIDE DEF hits, rank
  <2>2. QED
    BY <2>1 DEF RankCounts
<1>9. /\ Sorted(lat) \in [0 .. m - 1 -> Int]
      /\ \A i \in DOMAIN lat : Sorted(lat)[Position(lat, i)] = lat[i]
      /\ \A k, l \in 0 .. m - 1 : k <= l => Sorted(lat)[k] <= Sorted(lat)[l]
  BY <1>3, SortedSample DEF m
<1>10. \A i \in hits : Sorted(lat)[rank[i]] = Latencies(re)[i]
  BY <1>5, <1>9
<1> HIDE DEF hits, rank, counts, drawn
<1>11. ASSUME NEW k \in 0 .. drawn - 1
       PROVE  CountedValue(Sorted(lat), counts, k) = Sorted(Latencies(re))[k]
  BY <1>3, <1>4, <1>5, <1>6, <1>7, <1>8, <1>9, <1>10, CountedValueIsSorted
<1>12. [k \in 0 .. drawn - 1 |-> CountedValue(Sorted(lat), counts, k)] = Sorted(Latencies(re))
  <2>1. Sorted(Latencies(re)) \in [0 .. drawn - 1 -> Int]
    BY <1>4, <1>6, SortedSample
  <2>2. QED
    BY <1>11, <2>1
<1>13. \A p : CountedPercentile(Sorted(lat), counts, drawn, p) = Percentile(Latencies(re), p)
  BY <1>6, <1>12 DEF CountedPercentile, Percentile
<1>14. Replicate(samples, draw) = Score(CountedPercentile(Sorted(lat), counts, drawn, 10),
                                        CountedPercentile(Sorted(lat), counts, drawn, 19),
                                        Size(samples) - drawn, Size(samples))
  BY DEF Replicate, lat, hits, counts, drawn, m
<1>15. Replicate(samples, draw) = ScoreOf(re)
  BY <1>2, <1>6, <1>13, <1>14 DEF ScoreOf
<1>16. QED
  BY <1>2, <1>15 DEF re

\* Percentiles, penalties and scores are integers.
LEMMA PercentileInteger ==
    ASSUME NEW s, IsSample(s), NEW p \in {10, 19}
    PROVE  Percentile(s, p) \in Int
<1>1. Sorted(s) \in [0 .. Size(s) - 1 -> Int] /\ Size(s) \in Nat
  BY SortedSample, Positions
<1>2. CASE Size(s) = 0
  BY <1>2 DEF Percentile
<1>3. CASE Size(s) # 0
  <2>1. Size(s) \in Nat \ {0}
    BY <1>1, <1>3
  <2>2. Interpolated(Sorted(s), Size(s), p) \in Int
    BY <1>1, <2>1, InterpolatedInteger
  <2>3. QED
    BY <1>3, <2>2 DEF Percentile
<1>4. QED
  BY <1>2, <1>3

LEMMA PenaltyInteger ==
    ASSUME NEW failed \in Nat, NEW n \in Nat \ {0}
    PROVE  Penalty(failed, n) \in Int
<1>1. Scale \in Int /\ Timeout \in Int
  BY AnalysisAssumption
<1>2. \A x, y \in Int : x * y \in Int
  OBVIOUS
<1>3. 100 * Scale * Timeout * failed \in Int
  BY <1>1, <1>2
<1>4. \A x \in Int : x \div n \in Int
  OBVIOUS
<1>5. QED
  BY <1>3, <1>4 DEF Penalty

LEMMA ScoreInteger ==
    ASSUME NEW samples, IsSample(samples), Size(samples) # 0
    PROVE  ScoreOf(samples) \in Int
<1> DEFINE lat == Latencies(samples)
           median == Percentile(lat, 10)
           p95 == Percentile(lat, 19)
           failed == Size(samples) - Size(lat)
           n == Size(samples)
<1>1. IsSample(lat) /\ n \in Nat \ {0} /\ Size(lat) \in 0 .. n
  BY LatencySample
<1>2. median \in Int /\ p95 \in Int
  <2> HIDE DEF lat
  <2>1. QED
    BY <1>1, PercentileInteger
<1>3. failed \in Nat
  BY <1>1
<1>4. ScoreOf(samples) = Scale * 3 * median + Scale * 2 * p95 + Penalty(failed, n)
  BY DEF ScoreOf, Score, MedianTerm
<1> HIDE DEF median, p95, failed, n
<1>5. Penalty(failed, n) \in Int
  BY <1>1, <1>3, PenaltyInteger
<1>6. \A x, y \in Int : x * y \in Int /\ x + y \in Int
  OBVIOUS
<1>7. Scale \in Int
  BY AnalysisAssumption
<1>8. QED
  BY <1>2, <1>4, <1>5, <1>6, <1>7

-----------------------------------------------------------------------------
(***************************************************************************)
(* The inductive invariant: what each step of Run's tail, of the table and *)
(* of the assertions leaves is what it was computed to be, in terms of the *)
(* state later steps see. The hard part is the divergence flags, which are *)
(* computed from the observations and then written into them.              *)
(***************************************************************************)
Outcomes == [seen : cohort.kinds \cup {Failure}, divergent : BOOLEAN]

Group(t, q) == Compared(cohort.protocol[t], cohort.policy[t], q)

Measured ==
    /\ cohort \in Cohorts /\ unopened \subseteq Targets
    /\ DOMAIN results = Targets
    /\ \A t \in Targets : results[t] \in Seq(Outcomes) /\ Len(results[t]) <= cohort.queries
    /\ \A t \in Targets : Incomplete(t) \/ Len(results[t]) = cohort.queries
    /\ \A t \in unopened : \A q \in DOMAIN results[t] : results[t][q].seen = Failure
    /\ stage \in {"divergence", "statistics", "rankings", "effects", "analysed", "told", "judged"}

Marked ==
    IF stage = "divergence"
    THEN \A t \in Targets : \A q \in DOMAIN results[t] : results[t][q].divergent = FALSE
    ELSE /\ details = Details
         /\ \A t \in Targets : \A q \in DOMAIN results[t] :
               results[t][q].divergent <=> t \in Excluded(Group(t, q), q)

Counted == stage \notin {"divergence", "statistics"} => stats = [t \in Targets |-> Statistics(t)]

Placed ==
    stage \notin {"divergence", "statistics", "rankings"} =>
        rankings = [p \in Ranked |-> Ranking(p)] /\ tied = Ties

Paired == stage \in {"analysed", "told", "judged"} => effects = Effects

Told == stage \in {"told", "judged"} => lines = Lines

Judged ==
    /\ stage # "judged" => condition = {}
    /\ \A c \in condition : c \in Conditions(cohort) /\ reasons = Reasons(c)

VInv == Measured /\ Marked /\ Counted /\ Placed /\ Paired /\ Told /\ Judged

\* A cohort has finitely many targets, and what they observe is what measure
\* can make of a message.
LEMMA CohortFacts ==
    ASSUME Measured
    PROVE  /\ IsFiniteSet(Targets) /\ Targets \in SUBSET Int
           /\ DOMAIN cohort.policy = Targets /\ cohort.queries \in Nat
           /\ \A k \in cohort.kinds \cup {Failure} :
                 /\ k \in Observed /\ k.success = (k.class # "")
                 /\ k.truncated => ~k.success
<1>1. IsCohort(cohort)
  BY AnalysisAssumption DEF Measured
<1>2. Len(cohort.protocol) \in Nat /\ Targets = 1 .. Len(cohort.protocol)
  BY <1>1 DEF IsCohort, Targets
<1>3. IsFiniteSet(1 .. Len(cohort.protocol))
  <2>1. 1 \in Int /\ Len(cohort.protocol) \in Int
    BY <1>2
  <2>2. QED
    BY ONLY <2>1, FS_Interval
<1>4. Failure \in Observed /\ Failure.success = (Failure.class # "") /\ ~Failure.truncated
  <2>1. 0 \in 0 .. Timeout
    BY AnalysisAssumption
  <2>2. QED
    BY ONLY <2>1 DEF Failure, Observed
<1>5. DOMAIN cohort.policy = Targets /\ cohort.queries \in Nat
  <2>1. cohort.queries \in 1 .. Scale /\ DOMAIN cohort.policy = Targets
    BY <1>1 DEF IsCohort, Targets
  <2>2. Scale \in Nat
    BY AnalysisAssumption
  <2>3. QED
    BY ONLY <2>1, <2>2
<1>6. \A k \in cohort.kinds :
          /\ k \in Observed /\ k.success = (k.class # "")
          /\ k.truncated => ~k.success
  BY <1>1 DEF IsCohort
<1>7. \A k \in cohort.kinds \cup {Failure} :
          /\ k \in Observed /\ k.success = (k.class # "")
          /\ k.truncated => ~k.success
  <2> SUFFICES ASSUME NEW k \in cohort.kinds \cup {Failure}
               PROVE  k \in Observed /\ k.success = (k.class # "") /\ (k.truncated => ~k.success)
    OBVIOUS
  <2>1. CASE k \in cohort.kinds
    BY <1>6, <2>1
  <2>2. CASE k = Failure
    BY ONLY <1>4, <2>2
  <2>3. QED
    BY <2>1, <2>2
<1>8. IsFiniteSet(Targets) /\ Targets \in SUBSET Int
  BY <1>2, <1>3
<1>9. QED
  BY <1>5, <1>7, <1>8

LEMMA ResultFacts ==
    ASSUME Measured, NEW t \in Targets
    PROVE  /\ Len(results[t]) \in Nat /\ DOMAIN results[t] = 1 .. Len(results[t])
           /\ DOMAIN results[t] \in SUBSET (1 .. cohort.queries)
           /\ DOMAIN results[t] \in SUBSET Int
           /\ IsFiniteSet(DOMAIN results[t])
           /\ Cardinality(DOMAIN results[t]) = Len(results[t])
           /\ \A q \in DOMAIN results[t] : results[t][q] \in Outcomes
<1>1. results[t] \in Seq(Outcomes) /\ Len(results[t]) <= cohort.queries
  BY DEF Measured
<1>2. /\ Len(results[t]) \in Nat /\ DOMAIN results[t] = 1 .. Len(results[t])
      /\ \A q \in DOMAIN results[t] : results[t][q] \in Outcomes
  BY <1>1
<1>3. cohort.queries \in Nat
  BY CohortFacts
<1>4. /\ IsFiniteSet(1 .. Len(results[t]))
      /\ Cardinality(1 .. Len(results[t])) = IF 1 > Len(results[t]) THEN 0 ELSE Len(results[t]) - 1 + 1
  <2>1. 1 \in Int /\ Len(results[t]) \in Int
    BY <1>2
  <2>2. QED
    BY ONLY <2>1, FS_Interval
<1>5. QED
  BY <1>1, <1>2, <1>3, <1>4

LEMMA InitVInv == Start => VInv
<1> SUFFICES ASSUME Start PROVE VInv
  OBVIOUS
<1> /\ cohort \in Cohorts /\ unopened \subseteq Targets /\ stage = "divergence"
    /\ condition = {}
  BY DEF Start, Init
<1>1. cohort.queries \in Nat
  <2>1. Scale \in Nat /\ IsCohort(cohort)
    BY AnalysisAssumption
  <2>2. cohort.queries \in 1 .. Scale
    BY <2>1 DEF IsCohort
  <2>3. QED
    BY ONLY <2>1, <2>2
<1>2. PICK made \in [Targets -> 0 .. cohort.queries],
           seen \in [Targets -> [1 .. cohort.queries -> cohort.kinds]] :
             /\ results = [t \in Targets |->
                  IF t \in unopened THEN [q \in 1 .. cohort.queries |-> Fresh(Failure)]
                  ELSE [q \in 1 .. made[t] |-> Fresh(seen[t][q])]]
             /\ \A t \in Targets : cohort.protocol[t] \notin cut => made[t] = cohort.queries
  BY DEF Start, Init
<1>3. ASSUME NEW t \in Targets
      PROVE  /\ results[t] \in Seq(Outcomes) /\ Len(results[t]) <= cohort.queries
             /\ Incomplete(t) \/ Len(results[t]) = cohort.queries
             /\ t \in unopened => \A q \in DOMAIN results[t] : results[t][q].seen = Failure
             /\ \A q \in DOMAIN results[t] : results[t][q].divergent = FALSE
  <2>1. \A k \in cohort.kinds \cup {Failure} :
           Fresh(k) \in Outcomes /\ Fresh(k).seen = k /\ Fresh(k).divergent = FALSE
    BY DEF Fresh, Outcomes
  <2>2. CASE t \in unopened
    <3> DEFINE N == cohort.queries
    <3>1. results[t] = [q \in 1 .. N |-> Fresh(Failure)] /\ N \in Nat
      BY <1>1, <1>2, <2>2
    <3>2. Fresh(Failure) \in Outcomes /\ Fresh(Failure).seen = Failure
          /\ Fresh(Failure).divergent = FALSE
      BY <2>1
    <3> HIDE DEF N
    <3>3. results[t] \in Seq(Outcomes) /\ Len(results[t]) = N /\ DOMAIN results[t] = 1 .. N
      BY <3>1, <3>2
    <3>4. \A q \in 1 .. N : results[t][q] = Fresh(Failure)
      BY <3>1
    <3>5. \A q \in DOMAIN results[t] : results[t][q].seen = Failure /\ results[t][q].divergent = FALSE
      BY <3>2, <3>3, <3>4
    <3>6. Len(results[t]) <= N
      BY <3>1, <3>3
    <3>7. QED
      BY <3>3, <3>5, <3>6 DEF N
  <2>3. CASE t \notin unopened
    <3> DEFINE n == made[t]
    <3>1. results[t] = [q \in 1 .. n |-> Fresh(seen[t][q])]
      BY <1>2, <2>3
    <3>3. n \in Nat /\ n <= cohort.queries /\ (Incomplete(t) \/ n = cohort.queries)
      BY <1>1, <1>2, <2>3 DEF Incomplete
    <3>4. \A q \in 1 .. n : seen[t][q] \in cohort.kinds
      <4>1. \A q \in 1 .. n : q \in 1 .. cohort.queries
        BY <1>1, <3>3
      <4>2. seen[t] \in [1 .. cohort.queries -> cohort.kinds]
        OBVIOUS
      <4> HIDE DEF n
      <4>3. QED
        BY <4>1, <4>2
    <3>5. \A q \in 1 .. n : Fresh(seen[t][q]) \in Outcomes /\ Fresh(seen[t][q]).divergent = FALSE
      <4> SUFFICES ASSUME NEW q \in 1 .. n
                   PROVE  Fresh(seen[t][q]) \in Outcomes /\ Fresh(seen[t][q]).divergent = FALSE
        OBVIOUS
      <4> DEFINE k == seen[t][q]
      <4>1. k \in cohort.kinds \cup {Failure}
        BY <3>4
      <4> HIDE DEF k
      <4>2. QED
        BY <2>1, <4>1 DEF k
    <3> HIDE DEF n
    <3>6. results[t] \in Seq(Outcomes) /\ Len(results[t]) = n /\ DOMAIN results[t] = 1 .. n
      BY <3>1, <3>3, <3>5
    <3>7. \A q \in 1 .. n : results[t][q] = Fresh(seen[t][q])
      BY <3>1
    <3>8. QED
      BY <2>3, <3>3, <3>5, <3>6, <3>7
  <2>4. QED
    BY <2>2, <2>3
<1>4. Measured
  BY <1>2, <1>3 DEF Measured
<1>5. Marked
  BY <1>3 DEF Marked
<1>6. Counted /\ Placed /\ Paired /\ Told /\ Judged
  BY DEF Counted, Placed, Paired, Told, Judged
<1>7. QED
  BY <1>4, <1>5, <1>6 DEF VInv

\* An observation is marked exactly if its target is excluded from the group
\* of its own protocol and policy.
LEMMA MarkedTargets ==
    ASSUME Measured, NEW t \in Targets, NEW q \in DOMAIN results[t]
    PROVE  (\E d \in Details : d.query = q /\ \E x \in d.excluded : x.target = t)
              <=> t \in Excluded(Group(t, q), q)
<1>1. \A G, u : u \in Excluded(G, q) => u \in G
  BY DEF Excluded
<1>2. ASSUME NEW d \in Details, d.query = q, NEW x \in d.excluded, x.target = t
      PROVE  t \in Excluded(Group(t, q), q)
  <2>1. PICK p \in Protocols, policy \in Range(cohort.policy), r \in 1 .. cohort.queries :
           d = Detail(p, policy, r)
    BY DEF Details
  <2>2. r = q /\ t \in Excluded(Compared(p, policy, q), q)
    BY <1>2, <2>1 DEF Detail
  <2>3. t \in Compared(p, policy, q)
    BY <1>1, <2>2
  <2>4. cohort.protocol[t] = p /\ cohort.policy[t] = policy
    BY <2>3 DEF Compared, Members
  <2>5. QED
    BY <2>2, <2>4 DEF Group
<1>3. ASSUME t \in Excluded(Group(t, q), q)
      PROVE  \E d \in Details : d.query = q /\ \E x \in d.excluded : x.target = t
  <2> DEFINE p == cohort.protocol[t]
             policy == cohort.policy[t]
             d == Detail(p, policy, q)
             x == [target |-> t, treatment |-> Treatment(results[t][q].seen)]
  <2>1. p \in Protocols /\ policy \in Range(cohort.policy) /\ q \in 1 .. cohort.queries
    <3>1. DOMAIN cohort.policy = Targets /\ q \in 1 .. cohort.queries
      BY CohortFacts, ResultFacts
    <3>2. QED
      BY <3>1 DEF Protocols, Range, Targets
  <2>2. x \in d.excluded /\ d.query = q /\ x.target = t
    BY <1>3 DEF Detail, Group
  <2>3. d \in Details
    BY <2>1, <2>2 DEF Details
  <2>4. QED
    BY <2>2, <2>3
<1>4. QED
  BY <1>2, <1>3

\* Marking an observation changes nothing the comparison looks at.
LEMMA MarkDivergenceVInv ==
    ASSUME VInv, MarkDivergence, UNCHANGED <<lines, condition, reasons>>
    PROVE  VInv'
<1> USE DEF given
<1>1. Measured
  BY DEF VInv
<1> DEFINE flag(t, q) == \E d \in details' : d.query = q /\ \E x \in d.excluded : x.target = t
<1>2. /\ stage = "divergence" /\ stage' = "statistics" /\ details' = Details
      /\ results' = [t \in Targets |-> [q \in DOMAIN results[t] |->
                       [results[t][q] EXCEPT !.divergent = flag(t, q)]]]
      /\ UNCHANGED <<given, stats, rankings, tied, effects>>
  BY DEF MarkDivergence
<1>3. Targets' = Targets /\ Outcomes' = Outcomes /\ Protocols' = Protocols
      /\ (\A p : Members(p)' = Members(p))
  BY <1>2 DEF Targets, Outcomes, Protocols, Members
<1>4. ASSUME NEW t \in Targets
      PROVE  /\ DOMAIN results'[t] = DOMAIN results[t]
             /\ results'[t] \in Seq(Outcomes) /\ Len(results'[t]) = Len(results[t])
             /\ \A q \in DOMAIN results[t] : /\ results'[t][q].seen = results[t][q].seen
                                             /\ results'[t][q].divergent = flag(t, q)
  <2>1. /\ DOMAIN results[t] = 1 .. Len(results[t]) /\ Len(results[t]) \in Nat
        /\ \A q \in DOMAIN results[t] : results[t][q] \in Outcomes
    BY <1>1, ResultFacts
  <2> HIDE DEF flag
  <2>2. results'[t] = [q \in DOMAIN results[t] |->
                         [results[t][q] EXCEPT !.divergent = flag(t, q)]]
    BY <1>2
  <2>3. ASSUME NEW q \in DOMAIN results[t]
        PROVE  /\ results'[t][q] \in Outcomes
               /\ results'[t][q].seen = results[t][q].seen
               /\ results'[t][q].divergent = flag(t, q)
    <3>1. results'[t][q] = [results[t][q] EXCEPT !.divergent = flag(t, q)]
      BY <2>2
    <3>2. flag(t, q) \in BOOLEAN
      BY DEF flag
    <3>3. results[t][q] \in [seen : cohort.kinds \cup {Failure}, divergent : BOOLEAN]
      BY <2>1 DEF Outcomes
    <3>4. QED
      BY <3>1, <3>2, <3>3 DEF Outcomes
  <2>4. DOMAIN results'[t] = 1 .. Len(results[t])
    BY <2>1, <2>2
  <2>5. results'[t] = [q \in 1 .. Len(results[t]) |-> results'[t][q]]
    BY <2>1, <2>2
  <2>6. results'[t] \in Seq(Outcomes) /\ Len(results'[t]) = Len(results[t])
    <3>1. \A q \in 1 .. Len(results[t]) : results'[t][q] \in Outcomes
      BY <2>1, <2>3
    <3>2. Len(results[t]) \in Nat
      BY <2>1
    <3>3. QED
      BY ONLY <2>5, <3>1, <3>2
  <2>7. QED
    BY <2>1, <2>3, <2>4, <2>6
<1>5. ASSUME NEW p, NEW policy, NEW q PROVE Compared(p, policy, q)' = Compared(p, policy, q)
  <2>1. \A t \in Members(p) : t \in Targets
    BY DEF Members
  <2>2. \A t \in Members(p) :
          (q \in DOMAIN results[t] /\ results[t][q].seen.success)
            <=> (q \in DOMAIN results'[t] /\ results'[t][q].seen.success)
    BY <1>4, <2>1
  <2> HIDE DEF flag
  <2>3. QED
    BY <1>2, <1>3, <2>2 DEF Compared
<1>6. \A p, policy, q : \A t \in Compared(p, policy, q) :
         t \in Targets /\ q \in DOMAIN results[t] /\ ClassOf(t, q)' = ClassOf(t, q)
  <2>1. \A p, policy, q : \A t \in Compared(p, policy, q) : t \in Targets /\ q \in DOMAIN results[t]
    BY DEF Compared, Members
  <2> HIDE DEF flag
  <2>2. QED
    BY <1>4, <2>1 DEF ClassOf
<1>7. ASSUME NEW p, NEW policy, NEW q
      PROVE  Excluded(Compared(p, policy, q), q)' = Excluded(Compared(p, policy, q), q)
  <2> DEFINE G == Compared(p, policy, q)
  <2>1. G' = G /\ \A t \in G : ClassOf(t, q)' = ClassOf(t, q)
    BY <1>5, <1>6
  <2> HIDE DEF G, flag
  <2>2. {ClassOf(t, q) : t \in G}' = {ClassOf(t, q) : t \in G}
    BY <2>1
  <2>3. \A c : {t \in G : ClassOf(t, q) = c}' = {t \in G : ClassOf(t, q) = c}
    BY <2>1
  <2>4. Baselines(G, q)' = Baselines(G, q)
    BY <2>2, <2>3 DEF Baselines
  <2>5. Excluded(G, q)' = Excluded(G, q)
    BY <2>1, <2>2, <2>4 DEF Excluded
  <2>6. QED
    BY <2>5 DEF G
<1>8. ASSUME NEW p, NEW policy, NEW q PROVE Detail(p, policy, q)' = Detail(p, policy, q)
  <2>1. \A t \in Excluded(Compared(p, policy, q), q) :
          results'[t][q].seen = results[t][q].seen
    <3>1. \A t \in Excluded(Compared(p, policy, q), q) : t \in Compared(p, policy, q)
      BY DEF Excluded
    <3> HIDE DEF flag
    <3>2. QED
      BY <1>4, <1>6, <3>1
  <2> HIDE DEF flag
  <2>2. \A t \in Excluded(Compared(p, policy, q), q) :
          Treatment(results'[t][q].seen) = Treatment(results[t][q].seen)
    BY <2>1
  <2>3. QED
    BY <1>7, <2>2 DEF Detail
<1>9. Details' = Details
  BY <1>2, <1>3, <1>8 DEF Details
<1>10. ASSUME NEW t \in Targets, NEW q \in DOMAIN results[t]
       PROVE  results'[t][q].divergent <=> t \in Excluded(Group(t, q), q)'
  <2>1. Excluded(Group(t, q), q)' = Excluded(Group(t, q), q)
    BY <1>2, <1>7 DEF Group
  <2>2. flag(t, q) <=> t \in Excluded(Group(t, q), q)
    BY <1>1, <1>2, MarkedTargets
  <2>3. QED
    BY <1>4, <2>1, <2>2
<1> HIDE DEF flag
<1>11. Measured'
  <2>1. \A t \in unopened : \A q \in DOMAIN results'[t] : results'[t][q].seen = Failure
    BY <1>1, <1>4 DEF Measured
  <2>2. DOMAIN results' = Targets
    BY <1>2
  <2>3. \A t \in Targets : Incomplete(t)' = Incomplete(t)
    BY <1>2 DEF Incomplete
  <2>4. QED
    BY <1>1, <1>2, <1>3, <1>4, <2>1, <2>2, <2>3 DEF Measured
<1>12. Marked'
  BY <1>2, <1>3, <1>4, <1>9, <1>10 DEF Marked
<1>13. (Counted /\ Placed /\ Paired /\ Told /\ Judged)'
  BY <1>2 DEF VInv, Counted, Placed, Paired, Told, Judged
<1>14. QED
  BY <1>11, <1>12, <1>13 DEF VInv

\* What a later step leaves alone keeps its value.
LEMMA MeasuredKept ==
    ASSUME Measured, Marked, stage # "divergence", UNCHANGED <<given, results, details>>,
           stage' \in {"statistics", "rankings", "effects", "analysed", "told", "judged"}
    PROVE  Measured' /\ Marked'
<1>1. Measured'
  BY DEF Measured, given, Targets, Outcomes, Failure, Incomplete
<1>2. Details' = Details
  BY DEF Details, Detail, Excluded, Compared, Members, Baselines, ClassOf, Targets, Protocols,
         Treatment, Usable, Classes, Range, given
<1>3. \A t, q : Excluded(Group(t, q), q)' = Excluded(Group(t, q), q)
  BY DEF Group, Excluded, Compared, Members, Baselines, ClassOf, Targets, given
<1>4. Marked'
  BY <1>2, <1>3 DEF Marked, Targets, given
<1>5. QED
  BY <1>1, <1>4

LEMMA SameStatistics ==
    ASSUME UNCHANGED <<given, results>>
    PROVE  [t \in Targets |-> Statistics(t)]' = [t \in Targets |-> Statistics(t)]
BY DEF Statistics, LeftOut, Usable, Targets, given, Scored, Samples, Classes

LEMMA SameRankings ==
    ASSUME UNCHANGED <<given, stats>>
    PROVE  /\ Ties' = Ties
           /\ [p \in Ranked |-> Ranking(p)]' = [p \in Ranked |-> Ranking(p)]
<1>1. Ties' = Ties
  BY DEF Ties, TieGroup, Competing, Members, Targets, given, Ranked, Protocols, Comparable, Local,
         Incomplete, Overlap, Bounds, Leader, InOrder, Scores
<1>2. [p \in Ranked |-> Ranking(p)]' = [p \in Ranked |-> Ranking(p)]
  BY DEF Ranking, TieOrderKey, Medians, TieGroup, Competing, Members, Targets, given, Ranked,
         Protocols, Comparable, Local, Incomplete, Overlap, Bounds, Leader, InOrder, Scores
<1>3. QED
  BY <1>1, <1>2

LEMMA SameEffects == ASSUME UNCHANGED <<given, results, stats, rankings>> PROVE Effects' = Effects
BY DEF Effects, Effect, Reference, RankIn, Contains, Deltas, Pairs, ClassOf, Scored, LeftOut, Usable,
       Competing, Members, Targets, given, Protocols, Comparable, Local, Incomplete, InOrder, Scores

LEMMA SameLines == ASSUME UNCHANGED <<given, stats>> PROVE Lines' = Lines
BY DEF Lines, ByFamily, ByProtocol, Rest, Members, Targets, NeverAnswered, Warnings, Incomplete,
       OpenError, Local, Recommended, given, Protocols

LEMMA SameReasons ==
    ASSUME UNCHANGED <<given, stats, rankings, tied>>, NEW c
    PROVE  Reasons(c)' = Reasons(c)
BY DEF Reasons, Dead, SubjectReasons, ProtocolReasons, Winners, Holds, MetricValue, Members,
       Targets, Protocols, Local, given

LEMMA CountedKept ==
    ASSUME Counted, stage \notin {"divergence", "statistics"}, UNCHANGED <<given, results, stats>>
    PROVE  Counted'
BY SameStatistics DEF Counted

LEMMA PlacedKept ==
    ASSUME Placed, stage \notin {"divergence", "statistics", "rankings"},
           UNCHANGED <<given, stats, rankings, tied>>
    PROVE  Placed'
BY SameRankings DEF Placed

LEMMA PairedKept ==
    ASSUME Paired, stage \in {"analysed", "told", "judged"},
           UNCHANGED <<given, results, stats, rankings, effects>>
    PROVE  Paired'
BY SameEffects DEF Paired

LEMMA ToldKept ==
    ASSUME Told, stage \in {"told", "judged"}, UNCHANGED <<given, stats, lines>>
    PROVE  Told'
BY SameLines DEF Told

LEMMA JudgedKept ==
    ASSUME Judged, UNCHANGED <<given, stats, rankings, tied, condition, reasons>>,
           stage' # "judged" => condition = {}
    PROVE  Judged'
BY SameReasons DEF Judged, given

LEMMA AnalyseVInv ==
    ASSUME VInv, CalculateStatistics \/ MakeRankings \/ CalculatePairedEffects,
           UNCHANGED <<lines, condition, reasons>>
    PROVE  VInv'
<1> /\ Measured /\ Marked /\ Counted /\ Placed /\ Paired /\ Told /\ Judged
  BY DEF VInv
<1>1. CASE CalculateStatistics
  <2>1. /\ stage = "statistics" /\ stage' = "rankings"
        /\ stats' = [t \in Targets |-> Statistics(t)]
        /\ UNCHANGED <<given, results, details, rankings, tied, effects>>
    BY <1>1 DEF CalculateStatistics
  <2>2. Measured' /\ Marked'
    BY <2>1, MeasuredKept
  <2>3. [t \in Targets |-> Statistics(t)]' = [t \in Targets |-> Statistics(t)]
    BY <2>1, SameStatistics
  <2>4. Counted' /\ Placed' /\ Paired' /\ Told'
    BY <2>1, <2>3 DEF Counted, Placed, Paired, Told
  <2>5. Judged'
    BY <2>1 DEF Judged
  <2>6. QED
    BY <2>2, <2>4, <2>5 DEF VInv
<1>2. CASE MakeRankings
  <2>1. /\ stage = "rankings" /\ stage' = "effects"
        /\ rankings' = [p \in Ranked |-> Ranking(p)] /\ tied' = Ties
        /\ UNCHANGED <<given, results, details, stats, effects>>
    BY <1>2 DEF MakeRankings
  <2>2. Measured' /\ Marked' /\ Counted'
    BY <2>1, MeasuredKept, CountedKept
  <2>3. Ties' = Ties
    BY <2>1, SameRankings
  <2>4. [p \in Ranked |-> Ranking(p)]' = [p \in Ranked |-> Ranking(p)]
    BY <2>1, SameRankings
  <2>5. Placed' /\ Paired' /\ Told' /\ Judged'
    BY <2>1, <2>3, <2>4 DEF Placed, Paired, Told, Judged
  <2>6. QED
    BY <2>2, <2>5 DEF VInv
<1>3. CASE CalculatePairedEffects
  <2>1. /\ stage = "effects" /\ stage' = "analysed" /\ effects' = Effects
        /\ UNCHANGED <<given, results, details, stats, rankings, tied>>
    BY <1>3 DEF CalculatePairedEffects
  <2>2. Measured' /\ Marked' /\ Counted' /\ Placed'
    BY <2>1, MeasuredKept, CountedKept, PlacedKept
  <2>3. Effects' = Effects
    BY <2>1, SameEffects
  <2>4. Paired' /\ Told' /\ Judged'
    BY <2>1, <2>3 DEF Paired, Told, Judged
  <2>5. QED
    BY <2>2, <2>4 DEF VInv
<1>4. QED
  BY <1>1, <1>2, <1>3

LEMMA TellVInv == VInv /\ (CompactWarnings \/ Judge) => VInv'
<1> SUFFICES ASSUME VInv, CompactWarnings \/ Judge PROVE VInv'
  OBVIOUS
<1> /\ Measured /\ Marked /\ Counted /\ Placed /\ Paired /\ Told /\ Judged
  BY DEF VInv
<1>1. CASE CompactWarnings
  <2>1. /\ stage = "analysed" /\ stage' = "told" /\ lines' = Lines
        /\ UNCHANGED <<given, results, details, stats, rankings, tied, effects, condition, reasons>>
    BY <1>1 DEF CompactWarnings
  <2>2. Measured' /\ Marked' /\ Counted' /\ Placed' /\ Paired'
    BY <2>1, MeasuredKept, CountedKept, PlacedKept, PairedKept
  <2>3. Lines' = Lines
    BY <2>1, SameLines
  <2>4. Told'
    BY <2>1, <2>3 DEF Told
  <2>5. Judged'
    BY <2>1 DEF Judged
  <2>6. QED
    BY <2>2, <2>4, <2>5 DEF VInv
<1>2. CASE Judge
  <2>1. /\ stage = "told" /\ stage' = "judged"
        /\ UNCHANGED <<given, results, details, stats, rankings, tied, effects, lines>>
    BY <1>2 DEF Judge
  <2>2. PICK c \in Conditions(cohort) : condition' = {c} /\ reasons' = Reasons(c)
    BY <1>2 DEF Judge
  <2>3. Measured' /\ Marked' /\ Counted' /\ Placed' /\ Paired' /\ Told'
    BY <2>1, MeasuredKept, CountedKept, PlacedKept, PairedKept, ToldKept
  <2>4. Reasons(c)' = Reasons(c)
    BY <2>1, SameReasons
  <2>5. Judged'
    BY <2>1, <2>2, <2>4 DEF Judged, given
  <2>6. QED
    BY <2>3, <2>5 DEF VInv
<1>3. QED
  BY <1>1, <1>2

LEMMA StepVInv == VInv /\ [Next]_allVars => VInv'
<1> SUFFICES ASSUME VInv, [Next]_allVars PROVE VInv'
  OBVIOUS
<1>1. CASE MarkDivergence /\ UNCHANGED <<lines, condition, reasons>>
  BY <1>1, MarkDivergenceVInv
<1>2. CASE (CalculateStatistics \/ MakeRankings \/ CalculatePairedEffects)
           /\ UNCHANGED <<lines, condition, reasons>>
  BY <1>2, AnalyseVInv
<1>3. CASE CompactWarnings \/ Judge
  BY <1>3, TellVInv
<1>4. CASE UNCHANGED allVars
  <2> /\ Measured /\ Marked /\ Counted /\ Placed /\ Paired /\ Told /\ Judged
    BY DEF VInv
  <2>1. UNCHANGED <<given, stage, results, details, stats, rankings, tied, effects, lines,
                    condition, reasons>>
    BY <1>4 DEF allVars
  <2>2. Measured' /\ Marked'
    <3>1. CASE stage = "divergence"
      BY <2>1, <3>1 DEF Measured, Marked, given, Targets, Outcomes, Failure, Incomplete
    <3>2. CASE stage # "divergence"
      <4>1. stage' \in {"statistics", "rankings", "effects", "analysed", "told", "judged"}
        BY <2>1, <3>2 DEF Measured
      <4>2. QED
        BY <2>1, <3>2, <4>1, MeasuredKept
    <3>3. QED
      BY <3>1, <3>2
  <2>3. Counted'
    BY <2>1, CountedKept DEF Counted
  <2>4. Placed'
    BY <2>1, PlacedKept DEF Placed
  <2>5. Paired'
    BY <2>1, PairedKept DEF Paired
  <2>6. Told'
    BY <2>1, ToldKept DEF Told
  <2>7. Judged'
    <3>1. stage' # "judged" => condition = {}
      BY <2>1 DEF Judged
    <3>2. QED
      BY <2>1, <3>1, JudgedKept
  <2>8. QED
    BY <2>2, <2>3, <2>4, <2>5, <2>6, <2>7 DEF VInv
<1>5. QED
  BY <1>1, <1>2, <1>3, <1>4 DEF Next, Analyse

\* The invariant holds throughout (Run's tail, the table and the assertions).
THEOREM VerdictsInvariant == Spec => []VInv
<1>1. Start => VInv
  BY InitVInv
<1>2. VInv /\ [Next]_allVars => VInv'
  BY StepVInv
<1>3. QED
  BY <1>1, <1>2, PTL DEF Spec

-----------------------------------------------------------------------------
(***************************************************************************)
(* What the statistics count, and the fairness of the sample.              *)
(***************************************************************************)
Queries(t)         == DOMAIN results[t]
ScoredAt(t)        == {q \in Queries(t) : Scored(results[t][q])}
PenalisedAt(t)     == {q \in Queries(t) : Penalised(results[t][q])}
LeftOutAt(t)       == {q \in Queries(t) : LeftOut(results[t][q])}
UsableAt(t)        == {q \in Queries(t) : Usable(results[t][q].seen)}
FailedAt(t)        == {q \in Queries(t) : ~results[t][q].seen.success}
DivergentAt(t)     == {q \in Queries(t) : results[t][q].divergent}
TruncatedAt(t)     == {q \in Queries(t) : results[t][q].seen.truncated}
ResolverFailedAt(t) ==
    {q \in Queries(t) : results[t][q].seen.success /\ ~Usable(results[t][q].seen)}

\* Every observation is scored, penalised or left out, and only one of them.
LEMMA Partition ==
    ASSUME Measured, NEW t \in Targets
    PROVE  /\ IsFiniteSet(ScoredAt(t)) /\ IsFiniteSet(PenalisedAt(t)) /\ IsFiniteSet(LeftOutAt(t))
           /\ Cardinality(ScoredAt(t)) \in Nat
           /\ Cardinality(PenalisedAt(t)) \in Nat
           /\ Cardinality(LeftOutAt(t)) \in Nat
           /\ Cardinality(ScoredAt(t) \cup PenalisedAt(t))
                = Cardinality(ScoredAt(t)) + Cardinality(PenalisedAt(t))
           /\ Len(results[t]) =
                Cardinality(ScoredAt(t)) + Cardinality(PenalisedAt(t)) + Cardinality(LeftOutAt(t))
<1> DEFINE A == ScoredAt(t)
           B == PenalisedAt(t)
           C == LeftOutAt(t)
<1>1. IsFiniteSet(Queries(t)) /\ Cardinality(Queries(t)) = Len(results[t])
  BY ResultFacts DEF Queries
<1>2. A \cup B \cup C = Queries(t) /\ A \cap B = {} /\ (A \cup B) \cap C = {}
  BY DEF ScoredAt, PenalisedAt, LeftOutAt, Scored, Penalised, LeftOut
<1>3. A \in SUBSET Queries(t) /\ B \in SUBSET Queries(t) /\ C \in SUBSET Queries(t)
      /\ A \cup B \in SUBSET Queries(t)
  BY <1>2
<1> HIDE DEF A, B, C
<1>4. IsFiniteSet(A) /\ IsFiniteSet(B) /\ IsFiniteSet(C) /\ IsFiniteSet(A \cup B)
  BY <1>1, <1>3, FS_Subset
<1>5. Cardinality(A) \in Nat /\ Cardinality(B) \in Nat /\ Cardinality(C) \in Nat
  BY <1>4, FS_CardinalityType
<1>6. Cardinality({}) = 0
  BY FS_EmptySet
<1>7. Cardinality(A \cup B) = Cardinality(A) + Cardinality(B) - 0
  BY <1>2, <1>4, <1>6, FS_Union
<1>8. Cardinality(A \cup B \cup C) = Cardinality(A \cup B) + Cardinality(C) - 0
  BY <1>2, <1>4, <1>6, FS_Union
<1>9. Len(results[t]) = Cardinality(A) + Cardinality(B) + Cardinality(C)
      /\ Cardinality(A \cup B) = Cardinality(A) + Cardinality(B)
  <2>1. Len(results[t]) = Cardinality(A \cup B \cup C)
    BY <1>1, <1>2
  <2>2. QED
    BY <2>1, <1>5, <1>7, <1>8
<1>10. QED
  BY <1>4, <1>5, <1>9 DEF A, B, C

LEMMA SamplesOfTarget ==
    ASSUME Measured, NEW t \in Targets
    PROVE  /\ IsSample(Samples(t))
           /\ DOMAIN Samples(t) = ScoredAt(t) \cup PenalisedAt(t)
           /\ DOMAIN Latencies(Samples(t)) = ScoredAt(t)
<1> DEFINE s == Samples(t)
<1>1. DOMAIN s = {q \in Queries(t) : ~LeftOut(results[t][q])}
      /\ \A q \in DOMAIN s : s[q] = IF Scored(results[t][q]) THEN results[t][q].seen.latency ELSE -1
  BY DEF Samples, Queries
<1>2. DOMAIN s = ScoredAt(t) \cup PenalisedAt(t)
  BY <1>1 DEF ScoredAt, PenalisedAt, Scored, Penalised, LeftOut
<1>3. ASSUME NEW q \in Queries(t) PROVE results[t][q].seen.latency \in Nat
  <2>1. results[t][q] \in Outcomes
    BY ResultFacts DEF Queries
  <2>2. results[t][q].seen \in cohort.kinds \cup {Failure}
    BY <2>1 DEF Outcomes
  <2>3. results[t][q].seen \in Observed
    BY <2>2, CohortFacts
  <2>4. results[t][q].seen.latency \in 0 .. Timeout
    BY <2>3 DEF Observed
  <2>5. QED
    BY <2>4
<1>4. Queries(t) \in SUBSET Int /\ IsFiniteSet(Queries(t))
  BY ResultFacts DEF Queries
<1> HIDE DEF s
<1>5. DOMAIN s \in SUBSET Queries(t) /\ \A q \in DOMAIN s : s[q] \in Int
  BY <1>1, <1>3
<1>6. IsSample(s)
  BY <1>4, <1>5, FS_Subset DEF IsSample
<1>7. DOMAIN Latencies(s) = {q \in DOMAIN s : s[q] >= 0}
  BY <1>6, LatencySample
<1>8. {q \in DOMAIN s : s[q] >= 0} = ScoredAt(t)
  <2>1. \A q \in DOMAIN s : s[q] >= 0 <=> Scored(results[t][q])
    BY <1>1, <1>3
  <2>2. ScoredAt(t) \subseteq DOMAIN s
    BY <1>2
  <2>3. QED
    BY <1>5, <2>1, <2>2 DEF ScoredAt
<1>9. QED
  BY <1>2, <1>6, <1>7, <1>8 DEF s

\* The counts of a target's statistics.
LEMMA StatisticsCount ==
    ASSUME Measured, NEW t \in Targets
    PROVE  /\ Statistics(t).total = Len(results[t])
           /\ Statistics(t).failures = Cardinality(FailedAt(t))
           /\ Statistics(t).truncated = Cardinality(TruncatedAt(t))
           /\ Statistics(t).usable = Cardinality(UsableAt(t))
           /\ Statistics(t).resolverFailures = Cardinality(ResolverFailedAt(t))
           /\ Statistics(t).divergent = Cardinality(DivergentAt(t))
           /\ Statistics(t).scored = Cardinality(ScoredAt(t))
           /\ Statistics(t).penalised = Cardinality(PenalisedAt(t))
<1>1. /\ Statistics(t).total = Len(results[t])
      /\ Statistics(t).failures = Cardinality(FailedAt(t))
      /\ Statistics(t).truncated = Cardinality(TruncatedAt(t))
      /\ Statistics(t).usable = Cardinality(UsableAt(t))
      /\ Statistics(t).resolverFailures = Cardinality(ResolverFailedAt(t))
      /\ Statistics(t).divergent = Cardinality(DivergentAt(t))
  BY DEF Statistics, FailedAt, TruncatedAt, UsableAt, ResolverFailedAt, DivergentAt, Queries
<1>2. /\ Statistics(t).scored = Size(Latencies(Samples(t)))
      /\ Statistics(t).penalised = Size(Samples(t)) - Size(Latencies(Samples(t)))
  BY DEF Statistics
<1>3. /\ Size(Latencies(Samples(t))) = Cardinality(ScoredAt(t))
      /\ Size(Samples(t)) = Cardinality(ScoredAt(t)) + Cardinality(PenalisedAt(t))
  BY SamplesOfTarget, Partition DEF Size
<1>4. Statistics(t).penalised = Cardinality(PenalisedAt(t))
  <2>1. Cardinality(ScoredAt(t)) \in Nat /\ Cardinality(PenalisedAt(t)) \in Nat
    BY Partition
  <2>2. QED
    BY ONLY <1>2, <1>3, <2>1
<1>5. QED
  BY <1>1, <1>2, <1>3, <1>4

\* A query counts if and only if its set is not empty.
LEMMA CountZero ==
    ASSUME Measured, NEW t \in Targets, NEW S \in SUBSET Queries(t)
    PROVE  /\ Cardinality(S) \in Nat /\ Cardinality(S) <= Len(results[t])
           /\ Cardinality(S) = 0 <=> S = {}
           /\ Cardinality(S) = Len(results[t]) => S = Queries(t)
<1>1. IsFiniteSet(Queries(t)) /\ Cardinality(Queries(t)) = Len(results[t])
  BY ResultFacts DEF Queries
<1>2. /\ IsFiniteSet(S) /\ Cardinality(S) <= Cardinality(Queries(t))
      /\ Cardinality(Queries(t)) = Cardinality(S) => Queries(t) = S
  BY <1>1, FS_Subset
<1>3. Cardinality(S) \in Nat
  BY <1>2, FS_CardinalityType
<1>4. Cardinality(S) = 0 <=> S = {}
  BY <1>2, FS_EmptySet
<1>5. QED
  BY <1>1, <1>2, <1>3, <1>4

\* A scored response's class has a strict majority over every other of the
\* group it was compared in.
LEMMA StrictMajority ==
    ASSUME Measured, Marked, stage # "divergence", NEW t \in Targets, NEW q \in Queries(t),
           Scored(results[t][q]), NEW u \in Group(t, q), ClassOf(u, q) # ClassOf(t, q)
    PROVE  Cardinality({v \in Group(t, q) : ClassOf(v, q) = ClassOf(t, q)})
             > Cardinality({v \in Group(t, q) : ClassOf(v, q) = ClassOf(u, q)})
<1> DEFINE G == Group(t, q)
           classes == {ClassOf(v, q) : v \in G}
           Count(c) == Cardinality({v \in G : ClassOf(v, q) = c})
<1>1. t \in G
  <2>1. results[t][q].seen.success
    BY DEF Scored, Usable
  <2>2. QED
    BY <2>1 DEF Group, Compared, Members, Queries
<1>2. t \notin Excluded(G, q)
  <2>1. ~LeftOut(results[t][q]) /\ Usable(results[t][q].seen)
    BY DEF Scored
  <2>2. ~results[t][q].divergent
    BY <2>1 DEF LeftOut
  <2>3. QED
    BY <2>2 DEF Marked, Queries
<1>3. IsFiniteSet(G)
  <2>1. G \in SUBSET Targets
    BY DEF Group, Compared, Members
  <2>2. QED
    BY <2>1, CohortFacts, FS_Subset
<1>4. \A c : Count(c) \in Nat
  <2> SUFFICES ASSUME NEW c PROVE Count(c) \in Nat
    OBVIOUS
  <2>1. {v \in G : ClassOf(v, q) = c} \in SUBSET G
    OBVIOUS
  <2> HIDE DEF G
  <2>2. IsFiniteSet({v \in G : ClassOf(v, q) = c})
    BY <1>3, <2>1, FS_Subset
  <2>3. QED
    BY <2>2, FS_CardinalityType
<1> HIDE DEF G
<1>5. ~(Cardinality(classes) <= 1)
  <2>1. {ClassOf(t, q), ClassOf(u, q)} \in SUBSET classes
    BY <1>1 DEF G
  <2>2. IsFiniteSet(classes)
    <3> DEFINE f == [v \in G |-> ClassOf(v, q)]
    <3>1. f \in Surjection(G, classes)
      BY DEF Surjection
    <3> HIDE DEF f, classes
    <3>2. QED
      BY <1>3, <3>1, FS_Surjection
  <2>3. Cardinality({ClassOf(t, q), ClassOf(u, q)}) = 2
    <3> DEFINE a == ClassOf(t, q)
               b == ClassOf(u, q)
    <3>1. a # b
      OBVIOUS
    <3> HIDE DEF a, b
    <3>2. IsFiniteSet({a}) /\ Cardinality({a}) = 1
      BY FS_Singleton
    <3>3. Cardinality({a} \cup {b}) = 1 + 1
      BY <3>1, <3>2, FS_AddElement
    <3>4. {a} \cup {b} = {a, b}
      OBVIOUS
    <3>5. QED
      BY <3>3, <3>4 DEF a, b
  <2>4. 2 <= Cardinality(classes)
    BY <2>1, <2>2, <2>3, FS_Subset
  <2>5. Cardinality(classes) \in Nat
    BY <2>2, FS_CardinalityType
  <2>6. QED
    BY <2>4, <2>5
<1>6. Baselines(G, q) = {ClassOf(t, q)}
  BY <1>1, <1>2, <1>5 DEF Excluded
<1>7. \A c \in classes : Count(ClassOf(t, q)) >= Count(c)
  BY <1>6 DEF Baselines
<1>8. ClassOf(u, q) \in classes /\ ClassOf(u, q) \notin Baselines(G, q)
  BY <1>6 DEF G
<1>9. PICK c \in classes : ~(Count(ClassOf(u, q)) >= Count(c))
  BY <1>8 DEF Baselines
<1>10. Count(ClassOf(t, q)) >= Count(c)
  BY <1>7
<1> HIDE DEF classes, Count
<1>11. Count(ClassOf(t, q)) > Count(ClassOf(u, q))
  BY <1>4, <1>9, <1>10
<1>12. QED
  BY <1>11 DEF Count, G

LEMMA Treated ==
    ASSUME Measured, Marked, stage # "divergence", NEW d \in details, NEW x \in d.excluded,
           NEW t \in Targets, x.target = t
    PROVE  x.treatment = IF Penalised(results[t][d.query])
                         THEN "failure-penalized" ELSE "latency-excluded"
<1>1. details = Details
  BY DEF Marked
<1>2. PICK p \in Protocols, policy \in Range(cohort.policy), q \in 1 .. cohort.queries :
         d = Detail(p, policy, q)
  BY <1>1 DEF Details
<1>3. d.query = q /\ \E u : x = [target |-> u, treatment |-> Treatment(results[u][q].seen)]
  BY <1>2 DEF Detail
<1>4. x.treatment = Treatment(results[t][q].seen)
  BY <1>3
<1>5. QED
  BY <1>3, <1>4 DEF Treatment, Penalised

LEMMA FairSampleHolds == VInv => FairSample
<1> SUFFICES ASSUME VInv, stage \notin {"divergence", "statistics"}, NEW t \in Targets
             PROVE  /\ stats[t].scored + stats[t].penalised + Cardinality(LeftOutAt(t)) = stats[t].total
                    /\ stats[t].penalised = Cardinality(PenalisedAt(t))
                    /\ \A q \in Queries(t) : Scored(results[t][q]) =>
                          \A u \in Group(t, q) : ClassOf(u, q) # ClassOf(t, q) =>
                            Cardinality({v \in Group(t, q) : ClassOf(v, q) = ClassOf(t, q)})
                              > Cardinality({v \in Group(t, q) : ClassOf(v, q) = ClassOf(u, q)})
                    /\ \A d \in details : \A x \in d.excluded : x.target = t =>
                          x.treatment = IF Penalised(results[t][d.query])
                                        THEN "failure-penalized" ELSE "latency-excluded"
  BY DEF FairSample, LeftOutAt, PenalisedAt, Queries, Group
<1> Measured /\ Marked /\ Counted
  BY DEF VInv
<1>1. stats[t] = Statistics(t)
  BY DEF Counted
<1>2. /\ stats[t].total = Len(results[t])
      /\ stats[t].scored = Cardinality(ScoredAt(t))
      /\ stats[t].penalised = Cardinality(PenalisedAt(t))
  BY <1>1, StatisticsCount
<1>3. stats[t].scored + stats[t].penalised + Cardinality(LeftOutAt(t)) = stats[t].total
  BY <1>2, Partition
<1>4. QED
  BY <1>2, <1>3, StrictMajority, Treated

\* Only like is compared with like, and every observation is accounted for
\* (markDivergence, calculateStatistics).
THEOREM SampleIsFair == Spec => []FairSample
<1>1. VInv => FairSample
  BY FairSampleHolds
<1>2. QED
  BY <1>1, VerdictsInvariant, PTL

-----------------------------------------------------------------------------
(***************************************************************************)
(* The table's warnings.                                                   *)
(***************************************************************************)
Joint == ByFamily \cup ByProtocol

\* The set has at most one member.
AtMostOne(S) == \A a, b \in S : a = b

LEMMA OneMember ==
    ASSUME NEW S, AtMostOne(S)
    PROVE  /\ Cardinality(S) <= 1
           /\ S # {} => Cardinality(S) = 1
           /\ S = {} => Cardinality(S) = 0
<1>1. CASE S = {}
  BY <1>1, FS_EmptySet
<1>2. CASE S # {}
  <2>1. PICK a : S = {a}
    BY <1>2 DEF AtMostOne
  <2>2. Cardinality({a}) = 1
    BY FS_Singleton
  <2>3. QED
    BY <1>2, <2>1, <2>2
<1>3. QED
  BY <1>1, <1>2

\* The summaries of the IPv6 endpoints and of the protocols share no endpoint.
LEMMA JointOnce ==
    ASSUME NEW t PROVE AtMostOne({l \in Joint : t \in l.about})
<1> SUFFICES ASSUME NEW a \in Joint, NEW b \in Joint, t \in a.about, t \in b.about
             PROVE  a = b
  BY DEF AtMostOne
<1>1. ASSUME NEW l \in ByProtocol, t \in l.about
      PROVE  /\ ~\E f \in ByFamily : t \in f.about
             /\ t \in Members(cohort.protocol[t])
             /\ \A m \in ByProtocol : t \in m.about => m = l
  <2> DEFINE line(p) == [about |-> Rest(p),
                         kind  |-> CASE \A u \in Rest(p) : stats[u].failures = stats[u].total -> "transport failed"
                                     [] \E u \in Rest(p) : stats[u].failures < stats[u].total
                                        /\ \A v \in Rest(p) : stats[v].usable = 0 -> "responses unusable"
                                     [] OTHER -> "nothing comparable"]
  <2>1. \A m \in ByProtocol : \E p \in Protocols : m = line(p)
    BY DEF ByProtocol
  <2>2. \A p : line(p).about = Rest(p)
    OBVIOUS
  <2> HIDE DEF line
  <2>3. \A p : t \in Rest(p) => /\ ~\E f \in ByFamily : t \in f.about
                                /\ t \in Members(p) /\ p = cohort.protocol[t]
    BY DEF Rest, Members
  <2>4. PICK p \in Protocols : l = line(p)
    BY <2>1
  <2>5. t \in Rest(p)
    BY <1>1, <2>2, <2>4
  <2>6. ASSUME NEW m \in ByProtocol, t \in m.about PROVE m = l
    <3>1. PICK r \in Protocols : m = line(r)
      BY <2>1
    <3>2. t \in Rest(r)
      BY <2>2, <2>6, <3>1
    <3>3. r = p
      BY <2>3, <2>5, <3>2
    <3>4. QED
      BY <2>4, <3>1, <3>3
  <2>7. QED
    BY <2>3, <2>5, <2>6
<1>2. \A f, g \in ByFamily : f = g
  BY DEF ByFamily
<1>3. CASE a \in ByFamily /\ b \in ByFamily
  BY <1>2, <1>3
<1>4. CASE a \in ByProtocol
  BY <1>1, <1>4 DEF Joint
<1>5. CASE b \in ByProtocol
  BY <1>1, <1>5 DEF Joint
<1>6. QED
  BY <1>3, <1>4, <1>5 DEF Joint

\* An endpoint has one line at most: a summary's or its own.
LEMMA LinesOnce ==
    ASSUME NEW t \in Targets
    PROVE  /\ AtMostOne({l \in Lines : t \in l.about})
           /\ (\E l \in Joint : t \in l.about) => {l \in Lines : t \in l.about} # {}
           /\ ~(\E l \in Joint : t \in l.about) =>
                 ({l \in Lines : t \in l.about} # {} <=> Warnings(t) # {})
<1> DEFINE alone == Targets \ UNION {l.about : l \in Joint}
           own(u) == [about |-> {u}, kind |-> "own"]
           Own == {own(u) : u \in {v \in alone : Warnings(v) # {}}}
<1>1. Lines = Joint \cup Own
  BY DEF Lines, Joint
<1>2. \A l \in Own : t \in l.about => l = own(t) /\ t \in alone /\ Warnings(t) # {}
  OBVIOUS
<1>3. t \in alone <=> ~\E l \in Joint : t \in l.about
  OBVIOUS
<1>4. t \in alone /\ Warnings(t) # {} => own(t) \in Own /\ t \in own(t).about
  OBVIOUS
<1>5. \A a, b \in Joint : t \in a.about /\ t \in b.about => a = b
  BY JointOnce DEF AtMostOne
<1> HIDE DEF alone, own, Own
<1>6. AtMostOne({l \in Lines : t \in l.about})
  BY <1>1, <1>2, <1>3, <1>5 DEF AtMostOne
<1>7. QED
  BY <1>1, <1>2, <1>3, <1>4, <1>6

LEMMA CountedStats ==
    ASSUME Measured, Counted, stage \notin {"divergence", "statistics"}, NEW t \in Targets
    PROVE  /\ stats[t] = Statistics(t)
           /\ stats[t].total = Len(results[t])
           /\ stats[t].failures = Cardinality(FailedAt(t))
           /\ stats[t].truncated = Cardinality(TruncatedAt(t))
           /\ stats[t].usable = Cardinality(UsableAt(t))
           /\ stats[t].resolverFailures = Cardinality(ResolverFailedAt(t))
           /\ stats[t].divergent = Cardinality(DivergentAt(t))
           /\ stats[t].scored = Cardinality(ScoredAt(t))
           /\ stats[t].penalised = Cardinality(PenalisedAt(t))
           /\ FailedAt(t) \in SUBSET Queries(t) /\ TruncatedAt(t) \in SUBSET Queries(t)
           /\ UsableAt(t) \in SUBSET Queries(t) /\ ResolverFailedAt(t) \in SUBSET Queries(t)
           /\ DivergentAt(t) \in SUBSET Queries(t) /\ ScoredAt(t) \in SUBSET Queries(t)
           /\ PenalisedAt(t) \in SUBSET Queries(t)
<1>1. stats[t] = Statistics(t)
  BY DEF Counted
<1>2. /\ FailedAt(t) \in SUBSET Queries(t) /\ TruncatedAt(t) \in SUBSET Queries(t)
      /\ UsableAt(t) \in SUBSET Queries(t) /\ ResolverFailedAt(t) \in SUBSET Queries(t)
      /\ DivergentAt(t) \in SUBSET Queries(t) /\ ScoredAt(t) \in SUBSET Queries(t)
      /\ PenalisedAt(t) \in SUBSET Queries(t)
  BY DEF FailedAt, TruncatedAt, UsableAt, ResolverFailedAt, DivergentAt, ScoredAt, PenalisedAt
<1>3. QED
  BY <1>1, <1>2, StatisticsCount

\* What an endpoint lost is among its diagnoses.
LEMMA LossDiagnosed ==
    ASSUME Measured, Counted, stage \notin {"divergence", "statistics"}, NEW t \in Targets,
           \/ Incomplete(t)
           \/ \E q \in Queries(t) : ~Usable(results[t][q].seen) \/ results[t][q].divergent
    PROVE  Warnings(t) # {}
<1>1. CASE Incomplete(t)
  <2>1. "incomplete" \in Warnings(t)
    BY <1>1 DEF Warnings
  <2>2. QED
    BY <2>1
<1>2. CASE \E q \in Queries(t) : ~Usable(results[t][q].seen) \/ results[t][q].divergent
  <2>1. PICK q \in Queries(t) : ~Usable(results[t][q].seen) \/ results[t][q].divergent
    BY <1>2
  <2>2. FailedAt(t) # {} \/ ResolverFailedAt(t) # {} \/ DivergentAt(t) # {}
    BY <2>1 DEF FailedAt, ResolverFailedAt, DivergentAt
  <2>3. stats[t].failures > 0 \/ stats[t].resolverFailures > 0 \/ stats[t].divergent > 0
    <3>1. /\ Cardinality(FailedAt(t)) \in Nat /\ (Cardinality(FailedAt(t)) = 0 <=> FailedAt(t) = {})
          /\ Cardinality(ResolverFailedAt(t)) \in Nat
          /\ (Cardinality(ResolverFailedAt(t)) = 0 <=> ResolverFailedAt(t) = {})
          /\ Cardinality(DivergentAt(t)) \in Nat
          /\ (Cardinality(DivergentAt(t)) = 0 <=> DivergentAt(t) = {})
      BY CountedStats, CountZero
    <3>2. /\ stats[t].failures = Cardinality(FailedAt(t))
          /\ stats[t].resolverFailures = Cardinality(ResolverFailedAt(t))
          /\ stats[t].divergent = Cardinality(DivergentAt(t))
      BY CountedStats
    <3>3. QED
      BY <2>2, <3>1, <3>2
  <2>4. CASE stats[t].failures > 0
    <3>1. "failed" \in Warnings(t)
      BY <2>4 DEF Warnings
    <3>2. QED
      BY <3>1
  <2>5. CASE stats[t].resolverFailures > 0
    <3>1. "unusable" \in Warnings(t)
      BY <2>5 DEF Warnings
    <3>2. QED
      BY <3>1
  <2>6. CASE stats[t].divergent > 0
    <3>1. "divergent" \in Warnings(t)
      BY <2>6 DEF Warnings
    <3>2. QED
      BY <3>1
  <2>7. QED
    BY <2>3, <2>4, <2>5, <2>6
<1>3. QED
  BY <1>1, <1>2

\* A recommended endpoint whose observations are all scored has nothing to tell.
LEMMA NothingToTell ==
    ASSUME Measured, Counted, stage \notin {"divergence", "statistics"}, NEW t \in Targets,
           \A q \in Queries(t) : Scored(results[t][q]), Recommended(t)
    PROVE  Warnings(t) = {} /\ ~\E l \in Joint : t \in l.about
<1>1. /\ ~Local(t) /\ ~Incomplete(t) /\ stats[t].scored >= MinimumSamples /\ stats[t].total > 0
  BY DEF Recommended
<1>2. \A q \in Queries(t) : /\ results[t][q].seen.success /\ ~results[t][q].divergent
                            /\ Usable(results[t][q].seen) /\ ~results[t][q].seen.truncated
  <2> SUFFICES ASSUME NEW q \in Queries(t)
               PROVE  /\ results[t][q].seen.success /\ ~results[t][q].divergent
                      /\ Usable(results[t][q].seen) /\ ~results[t][q].seen.truncated
    OBVIOUS
  <2>1. /\ Usable(results[t][q].seen) /\ ~results[t][q].divergent
        /\ results[t][q].seen.success
    BY DEF Scored, LeftOut, Usable
  <2>2. results[t][q].seen \in cohort.kinds \cup {Failure}
    BY ResultFacts DEF Queries, Outcomes
  <2>3. results[t][q].seen.truncated => ~results[t][q].seen.success
    BY <2>2, CohortFacts
  <2>4. QED
    BY <2>1, <2>3
<1>3. FailedAt(t) = {} /\ TruncatedAt(t) = {} /\ ResolverFailedAt(t) = {} /\ DivergentAt(t) = {}
  BY <1>2 DEF FailedAt, TruncatedAt, ResolverFailedAt, DivergentAt
<1>4. /\ stats[t].failures = 0 /\ stats[t].truncated = 0
      /\ stats[t].resolverFailures = 0 /\ stats[t].divergent = 0
  BY <1>3, CountedStats, FS_EmptySet
<1>5. stats[t].total \in Nat /\ stats[t].scored \in Nat /\ stats[t].scored # 0
  <2>1. stats[t].total = Len(results[t]) /\ Len(results[t]) \in Nat
    BY CountedStats, ResultFacts
  <2>2. stats[t].scored = Cardinality(ScoredAt(t)) /\ Cardinality(ScoredAt(t)) \in Nat
    BY CountedStats, Partition
  <2>3. MinimumSamples \in Nat \ {0}
    BY AnalysisAssumption
  <2>4. QED
    BY <1>1, <2>1, <2>2, <2>3
<1>6. ~OpenError(t)
  <2>1. t \notin unopened
    <3> SUFFICES ASSUME t \in unopened PROVE FALSE
      OBVIOUS
    <3>1. \A q \in Queries(t) : results[t][q].seen = Failure
      BY DEF Measured, Queries
    <3>2. Queries(t) # {}
      <4>1. /\ stats[t].total = Len(results[t]) /\ Len(results[t]) \in Nat
            /\ Queries(t) = 1 .. Len(results[t])
        BY CountedStats, ResultFacts DEF Queries
      <4>2. 1 \in Queries(t)
        BY ONLY <1>1, <4>1
      <4>3. QED
        BY <4>2
    <3>3. PICK q \in Queries(t) : results[t][q].seen = Failure
      BY <3>1, <3>2
    <3>4. Failure.success = FALSE
      BY DEF Failure
    <3>5. results[t][q].seen.success
      BY <1>2
    <3>6. QED
      BY <3>3, <3>4, <3>5
  <2>2. QED
    BY <1>1, <2>1 DEF OpenError, Incomplete
<1>7. Warnings(t) = {}
  <2> SUFFICES ASSUME NEW w \in Warnings(t) PROVE FALSE
    OBVIOUS
  <2>1. w \in {"incomplete", "unopened", "failed", "divergent", "truncated", "unusable", "local",
               "ineligible"}
    BY DEF Warnings
  <2>2. CASE w \in {"incomplete", "unopened", "local"}
    BY <1>1, <1>6, <2>2 DEF Warnings
  <2>3. CASE w = "failed" \/ w = "divergent"
    <3>1. stats[t].failures > 0 \/ stats[t].divergent > 0
      BY <2>3 DEF Warnings
    <3>2. QED
      BY <1>4, <3>1
  <2>4. CASE w = "truncated" \/ w = "unusable"
    <3>1. stats[t].truncated > 0 \/ stats[t].resolverFailures > 0
      BY <2>4 DEF Warnings
    <3>2. QED
      BY <1>4, <3>1
  <2>5. CASE w = "ineligible"
    BY <2>5 DEF Warnings
  <2>6. QED
    BY <2>1, <2>2, <2>3, <2>4, <2>5
<1>8. ~NeverAnswered(t)
  BY <1>1, <1>4, <1>5 DEF NeverAnswered
<1>9. ~\E l \in ByFamily : t \in l.about
  <2> SUFFICES ASSUME NEW l \in ByFamily, t \in l.about PROVE FALSE
    OBVIOUS
  <2>1. l.about = cohort.ipv6 /\ \A u \in cohort.ipv6 : NeverAnswered(u)
    <3>1. CASE Cardinality(cohort.ipv6) >= 2 /\ \A u \in cohort.ipv6 : NeverAnswered(u)
      <4>1. l = [about |-> cohort.ipv6, kind |-> "no IPv6 path"]
        BY <3>1 DEF ByFamily
      <4>2. QED
        BY <3>1, <4>1
    <3>2. CASE ~(Cardinality(cohort.ipv6) >= 2 /\ \A u \in cohort.ipv6 : NeverAnswered(u))
      BY <3>2 DEF ByFamily
    <3>3. QED
      BY <3>1, <3>2
  <2>2. QED
    BY <1>8, <2>1
<1>10. ~\E l \in ByProtocol : t \in l.about
  <2>1. \A l \in ByProtocol : \A u \in l.about : stats[u].scored = 0
    <3> SUFFICES ASSUME NEW l \in ByProtocol PROVE \A u \in l.about : stats[u].scored = 0
      OBVIOUS
    <3> DEFINE kind(p) ==
                 CASE \A u \in Rest(p) : stats[u].failures = stats[u].total -> "transport failed"
                   [] \E u \in Rest(p) : stats[u].failures < stats[u].total
                      /\ \A v \in Rest(p) : stats[v].usable = 0 -> "responses unusable"
                   [] OTHER -> "nothing comparable"
               Dropped == {p \in Protocols :
                             /\ Rest(p) # {}
                             /\ \A u \in Rest(p) : ~Incomplete(u) /\ stats[u].total > 0 /\ stats[u].scored = 0}
    <3>1. ByProtocol = {[about |-> Rest(p), kind |-> kind(p)] : p \in Dropped}
      BY DEF ByProtocol
    <3>2. \A p \in Dropped : \A u \in Rest(p) : stats[u].scored = 0
      OBVIOUS
    <3> HIDE DEF kind, Dropped
    <3>3. PICK p \in Dropped : l = [about |-> Rest(p), kind |-> kind(p)]
      BY <3>1
    <3>4. l.about = Rest(p)
      BY <3>3
    <3>5. QED
      BY <3>2, <3>4
  <2>2. QED
    BY <1>5, <2>1
<1>11. QED
  BY <1>7, <1>9, <1>10 DEF Joint

LEMMA ToldOnceHolds == VInv => ToldOnce
<1> SUFFICES ASSUME VInv, stage \in {"told", "judged"}, NEW t \in Targets
             PROVE  /\ Cardinality({l \in lines : t \in l.about}) <= 1
                    /\ Incomplete(t) \/ (\E o \in Range(results[t]) : ~Usable(o.seen) \/ o.divergent)
                         => Cardinality({l \in lines : t \in l.about}) = 1
                    /\ (\A o \in Range(results[t]) : Scored(o)) /\ Recommended(t)
                         => Cardinality({l \in lines : t \in l.about}) = 0
  BY DEF ToldOnce
<1> DEFINE about == {l \in lines : t \in l.about}
<1> Measured /\ Counted /\ Told /\ stage \notin {"divergence", "statistics"}
  BY DEF VInv
<1>1. lines = Lines
  BY DEF Told
<1>2. /\ AtMostOne(about)
      /\ (\E l \in Joint : t \in l.about) => about # {}
      /\ ~(\E l \in Joint : t \in l.about) => (about # {} <=> Warnings(t) # {})
  BY <1>1, LinesOnce
<1> HIDE DEF about
<1>3. /\ Cardinality(about) <= 1 /\ (about # {} => Cardinality(about) = 1)
      /\ (about = {} => Cardinality(about) = 0)
  BY <1>2, OneMember
<1>4. ASSUME Incomplete(t) \/ (\E o \in Range(results[t]) : ~Usable(o.seen) \/ o.divergent)
      PROVE  about # {}
  <2>1. Incomplete(t) \/ \E q \in Queries(t) : ~Usable(results[t][q].seen) \/ results[t][q].divergent
    BY <1>4 DEF Range, Queries
  <2>2. Warnings(t) # {}
    BY <2>1, LossDiagnosed
  <2>3. QED
    BY <1>2, <2>2
<1>5. ASSUME \A o \in Range(results[t]) : Scored(o), Recommended(t)
      PROVE  about = {}
  <2>1. \A q \in Queries(t) : Scored(results[t][q])
    BY <1>5 DEF Range, Queries
  <2>2. Warnings(t) = {} /\ ~\E l \in Joint : t \in l.about
    BY <1>5, <2>1, NothingToTell
  <2>3. QED
    BY <1>2, <2>2
<1>6. QED
  BY <1>3, <1>4, <1>5 DEF about

\* What an endpoint lost is told, once; what it did not lose is not
\* (collectWarnings, compactWarnings).
THEOREM LossesToldOnce == Spec => []ToldOnce
<1>1. VInv => ToldOnce
  BY ToldOnceHolds
<1>2. QED
  BY <1>1, VerdictsInvariant, PTL

-----------------------------------------------------------------------------
(***************************************************************************)
(* The order of a ranking.                                                 *)
(***************************************************************************)
IsKeys(keys, members) ==
    /\ Len(keys) \in Nat /\ DOMAIN keys = 1 .. Len(keys)
    /\ \A i \in DOMAIN keys : \A t \in members : keys[i][t] \in Int

BeforeOrder(members, keys) == {x \in members \X members : Before(x[1], x[2], keys)}

LEMMA BeforeIsOrder ==
    ASSUME NEW members \in SUBSET Int, NEW keys, IsKeys(keys, members)
    PROVE  IsOrder(members, BeforeOrder(members, keys))
<1> DEFINE m == Len(keys)
           Less(i, a, b) == keys[i][a] < keys[i][b]
           Same(i, a, b) == keys[i][a] = keys[i][b]
           AllSame(a, b) == \A i \in 1 .. m : Same(i, a, b)
           First(i, a, b) == Less(i, a, b) /\ \A j \in 1 .. i - 1 : Same(j, a, b)
<1>1. m \in Nat /\ \A i \in 1 .. m : \A t \in members : keys[i][t] \in Int
  BY DEF IsKeys
<1>2. \A a, b : Before(a, b, keys) <=> (\E i \in 1 .. m : First(i, a, b)) \/ (a < b /\ AllSame(a, b))
  BY DEF Before, IsKeys
<1>3. \A a, b \in members : <<a, b>> \in BeforeOrder(members, keys) <=> Before(a, b, keys)
  BY DEF BeforeOrder
<1>4. ASSUME NEW i \in 1 .. m, NEW a \in members, NEW b \in members, NEW c \in members
      PROVE  /\ Less(i, a, b) /\ Less(i, b, c) => Less(i, a, c)
             /\ Less(i, a, b) /\ Same(i, b, c) => Less(i, a, c)
             /\ Same(i, a, b) /\ Less(i, b, c) => Less(i, a, c)
             /\ Same(i, a, b) /\ Same(i, b, c) => Same(i, a, c)
             /\ Less(i, a, b) \/ Same(i, a, b) \/ Less(i, b, a)
             /\ Same(i, a, b) => ~Less(i, a, b) /\ Same(i, b, a)
             /\ ~Less(i, a, a)
  <2>1. keys[i][a] \in Int /\ keys[i][b] \in Int /\ keys[i][c] \in Int
    BY <1>1
  <2>2. QED
    BY <2>1
<1> HIDE DEF m, Less, Same
<1>5. \A a \in members : ~Before(a, a, keys)
  <2> SUFFICES ASSUME NEW a \in members, Before(a, a, keys) PROVE FALSE
    OBVIOUS
  <2>1. ~(a < a)
    OBVIOUS
  <2>2. QED
    BY <1>2, <1>4, <2>1
<1>6. ASSUME NEW a \in members, NEW b \in members, NEW c \in members,
             Before(a, b, keys), Before(b, c, keys)
      PROVE  Before(a, c, keys)
  <2>1. CASE AllSame(a, b) /\ AllSame(b, c)
    <3>1. AllSame(a, c)
      BY <1>4, <2>1
    <3>2. a < b /\ b < c
      <4>1. \A i \in 1 .. m : ~Less(i, a, b) /\ ~Less(i, b, c)
        <5>1. \A i \in 1 .. m : Same(i, a, b) /\ Same(i, b, c)
          BY <2>1
        <5>2. QED
          BY <1>4, <5>1
      <4>2. QED
        BY <1>2, <1>6, <4>1
    <3>3. QED
      BY <1>2, <3>1, <3>2
  <2>2. CASE AllSame(a, b) /\ ~AllSame(b, c)
    <3>1. PICK j \in 1 .. m : First(j, b, c)
      BY <1>2, <1>6, <2>2
    <3>2. \A k \in 1 .. j - 1 : k \in 1 .. m
      BY <1>1
    <3>3. First(j, a, c)
      BY <1>4, <2>2, <3>1, <3>2
    <3>4. QED
      BY <1>2, <3>3
  <2>3. CASE ~AllSame(a, b) /\ AllSame(b, c)
    <3>1. PICK j \in 1 .. m : First(j, a, b)
      BY <1>2, <1>6, <2>3
    <3>2. \A k \in 1 .. j - 1 : k \in 1 .. m
      BY <1>1
    <3>3. First(j, a, c)
      BY <1>4, <2>3, <3>1, <3>2
    <3>4. QED
      BY <1>2, <3>3
  <2>4. CASE ~AllSame(a, b) /\ ~AllSame(b, c)
    <3>1. PICK i \in 1 .. m : First(i, a, b)
      BY <1>2, <1>6, <2>4
    <3>2. PICK j \in 1 .. m : First(j, b, c)
      BY <1>2, <1>6, <2>4
    <3>3. CASE i < j
      <4>1. i \in 1 .. j - 1 /\ \A k \in 1 .. i - 1 : k \in 1 .. j - 1 /\ k \in 1 .. m
        BY <1>1, <3>3
      <4>2. First(i, a, c)
        BY <1>4, <3>1, <3>2, <4>1
      <4>3. QED
        BY <1>2, <4>2
    <3>4. CASE j < i
      <4>1. j \in 1 .. i - 1 /\ \A k \in 1 .. j - 1 : k \in 1 .. i - 1 /\ k \in 1 .. m
        BY <1>1, <3>4
      <4>2. First(j, a, c)
        BY <1>4, <3>1, <3>2, <4>1
      <4>3. QED
        BY <1>2, <4>2
    <3>5. CASE i = j
      <4>1. \A k \in 1 .. i - 1 : k \in 1 .. m
        BY <1>1
      <4>2. First(i, a, c)
        BY <1>4, <3>1, <3>2, <3>5, <4>1
      <4>3. QED
        BY <1>2, <4>2
    <3>6. QED
      BY <1>1, <3>3, <3>4, <3>5
  <2>5. QED
    BY <2>1, <2>2, <2>3, <2>4
<1>7. ASSUME NEW a \in members, NEW b \in members, a # b
      PROVE  Before(a, b, keys) \/ Before(b, a, keys)
  <2>1. CASE AllSame(a, b)
    <3>1. AllSame(b, a)
      BY <1>4, <2>1
    <3>2. a < b \/ b < a
      BY <1>7
    <3>3. QED
      BY <1>2, <2>1, <3>1, <3>2
  <2>2. CASE ~AllSame(a, b)
    <3> DEFINE D == {i \in 1 .. m : ~Same(i, a, b)}
    <3>1. D # {} /\ D \in SUBSET (1 .. m) /\ D \in SUBSET Int
      BY <2>2
    <3>2. IsFiniteSet(1 .. m)
      <4>1. 1 \in Int /\ m \in Int
        BY <1>1
      <4>2. QED
        BY ONLY <4>1, FS_Interval
    <3>3. IsFiniteSet(D)
      BY ONLY <3>1, <3>2, FS_Subset
    <3>4. Min(D) \in D /\ \A y \in D : Min(D) <= y
      BY <3>1, <3>3, Extremes
    <3> DEFINE i == Min(D)
    <3>5. i \in 1 .. m /\ ~Same(i, a, b) /\ \A j \in 1 .. m : ~Same(j, a, b) => i <= j
      BY <3>4
    <3> HIDE DEF i, D
    <3>6. ASSUME NEW j \in 1 .. i - 1 PROVE Same(j, a, b) /\ Same(j, b, a)
      <4>1. j \in 1 .. m /\ ~(i <= j)
        BY <1>1, <3>5
      <4>2. Same(j, a, b)
        BY <3>5, <4>1
      <4>3. QED
        BY <1>4, <4>1, <4>2
    <3>7. Less(i, a, b) \/ Less(i, b, a)
      BY <1>4, <3>5
    <3>8. QED
      BY <1>2, <3>5, <3>6, <3>7
  <2>3. QED
    BY <2>1, <2>2
<1>8. QED
  BY <1>3, <1>5, <1>6, <1>7 DEF IsOrder

\* InOrder lists the members, each once and in order.
LEMMA InOrderLists ==
    ASSUME NEW members \in SUBSET Int, IsFiniteSet(members), NEW keys, IsKeys(keys, members)
    PROVE  /\ InOrder(members, keys) \in Seq(members)
           /\ Len(InOrder(members, keys)) = Cardinality(members)
           /\ Cardinality(members) \in Nat
           /\ \A t \in members : \E i \in 1 .. Cardinality(members) : InOrder(members, keys)[i] = t
           /\ \A i, j \in 1 .. Cardinality(members) : i < j =>
                 /\ Before(InOrder(members, keys)[i], InOrder(members, keys)[j], keys)
                 /\ ~Before(InOrder(members, keys)[j], InOrder(members, keys)[i], keys)
                 /\ InOrder(members, keys)[i] # InOrder(members, keys)[j]
<1> DEFINE n == Cardinality(members)
           R == BeforeOrder(members, keys)
           P(t) == Place(members, R, t)
           At(k) == CHOOSE t \in members : Cardinality({u \in members : Before(u, t, keys)}) = k - 1
           order == InOrder(members, keys)
<1>1. IsOrder(members, R)
  BY BeforeIsOrder
<1>2. \A a, b \in members : <<a, b>> \in R <=> Before(a, b, keys)
  BY DEF BeforeOrder
<1>3. /\ \A t \in members : P(t) \in 0 .. n - 1
      /\ \A a, b \in members : <<a, b>> \in R <=> P(a) < P(b)
      /\ \A k \in 0 .. n - 1 : \E t \in members : P(t) = k
  <2> HIDE DEF R
  <2>1. QED
    BY <1>1, Places
<1>4. n \in Nat
  BY FS_CardinalityType
<1>5. \A t \in members : Cardinality({u \in members : Before(u, t, keys)}) = P(t)
  <2> SUFFICES ASSUME NEW t \in members
               PROVE  Cardinality({u \in members : Before(u, t, keys)}) = P(t)
    OBVIOUS
  <2>1. {u \in members : Before(u, t, keys)} = Under(members, R, t)
    BY <1>2 DEF Under
  <2>2. QED
    BY <2>1 DEF Place
<1>6. order = [k \in 1 .. n |-> At(k)]
  BY DEF InOrder
<1> HIDE DEF P, R, n
<1>7. ASSUME NEW k \in 1 .. n PROVE At(k) \in members /\ P(At(k)) = k - 1
  <2>1. k - 1 \in 0 .. n - 1
    BY <1>4
  <2>2. \E t \in members : P(t) = k - 1
    BY <1>3, <2>1
  <2>3. \E t \in members : Cardinality({u \in members : Before(u, t, keys)}) = k - 1
    BY <1>5, <2>2
  <2>4. At(k) \in members /\ Cardinality({u \in members : Before(u, At(k), keys)}) = k - 1
    BY <2>3
  <2> HIDE DEF At
  <2>5. QED
    BY <1>5, <2>4
<1> HIDE DEF At, order
<1>8. order \in Seq(members) /\ Len(order) = n /\ \A k \in 1 .. n : order[k] = At(k)
  BY <1>4, <1>6, <1>7
<1>9. \A a, b \in members : P(a) = P(b) => a = b
  BY <1>1, <1>3, <1>4 DEF IsOrder
<1>10. ASSUME NEW t \in members PROVE \E i \in 1 .. n : order[i] = t
  <2> DEFINE k == P(t) + 1
  <2>1. P(t) \in Int /\ k = P(t) + 1 /\ k \in 1 .. n
    BY <1>3, <1>4
  <2> HIDE DEF k
  <2>2. At(k) \in members /\ P(At(k)) = k - 1
    BY <1>7, <2>1
  <2>3. P(At(k)) = P(t)
    BY ONLY <2>1, <2>2
  <2>4. At(k) = t
    BY <1>9, <2>2, <2>3
  <2>5. QED
    BY <1>8, <2>1, <2>4
<1>11. ASSUME NEW i \in 1 .. n, NEW j \in 1 .. n, i < j
       PROVE  /\ Before(order[i], order[j], keys) /\ ~Before(order[j], order[i], keys)
              /\ order[i] # order[j]
  <2>1. P(order[i]) = i - 1 /\ P(order[j]) = j - 1 /\ order[i] \in members /\ order[j] \in members
    BY <1>7, <1>8
  <2>2. P(order[i]) < P(order[j]) /\ ~(P(order[j]) < P(order[i])) /\ P(order[i]) # P(order[j])
    BY <1>4, <1>11, <2>1
  <2>3. QED
    BY <1>2, <1>3, <2>1, <2>2
<1>12. QED
  BY <1>4, <1>8, <1>10, <1>11 DEF n, order


-----------------------------------------------------------------------------
(***************************************************************************)
(* The bootstrap reads each replicate correctly.                           *)
(***************************************************************************)
LEMMA ReplicateIsResampleHolds == Measured => ReplicateIsResample
<1> SUFFICES ASSUME Measured, NEW t \in Targets, NEW d \in Draws(Samples(t))
             PROVE  Replicate(Samples(t), d) = ScoreOf([i \in DOMAIN d |-> Samples(t)[d[i]]])
  BY DEF ReplicateIsResample
<1>1. IsSample(Samples(t))
  BY SamplesOfTarget
<1> DEFINE samples == Samples(t)
<1> HIDE DEF samples
<1>2. IsSample(samples) /\ d \in Draws(samples)
  BY <1>1 DEF samples
<1>3. Replicate(samples, d) = ScoreOf(Resample(samples, d))
  BY <1>2, ReplicateScore
<1>4. QED
  BY <1>3 DEF samples, Resample

\* In every reachable state a replicate read off rank counts is the score of
\* the resample it stands for (bootstrapCI against scoreFromSamples).
THEOREM ReplicatesAreResamples == Spec => []ReplicateIsResample
<1>1. VInv => ReplicateIsResample
  BY ReplicateIsResampleHolds DEF VInv
<1>2. QED
  BY <1>1, VerdictsInvariant, PTL

-----------------------------------------------------------------------------
(***************************************************************************)
(* What a passing condition rests on.                                      *)
(***************************************************************************)
\* A comparable target has a scored observation.
LEMMA CompetingScored ==
    ASSUME Measured, Counted, stage \notin {"divergence", "statistics"},
           NEW p, NEW t \in Competing(p)
    PROVE  /\ t \in Targets /\ cohort.protocol[t] = p /\ t \in Int
           /\ \E o \in Range(results[t]) : Scored(o)
<1>1. t \in Targets /\ cohort.protocol[t] = p /\ stats[t].scored > 0
  BY DEF Competing, Members, Comparable
<1>2. ScoredAt(t) # {}
  <2>1. stats[t].scored = Cardinality(ScoredAt(t)) /\ ScoredAt(t) \in SUBSET Queries(t)
    BY <1>1, CountedStats
  <2>2. Cardinality(ScoredAt(t)) # 0
    BY <1>1, <2>1
  <2>3. QED
    BY <1>1, <2>1, <2>2, CountZero
<1>3. \E o \in Range(results[t]) : Scored(o)
  BY <1>2 DEF ScoredAt, Queries, Range
<1>4. QED
  BY <1>1, <1>3, CohortFacts

-----------------------------------------------------------------------------
(***************************************************************************)
(* The ranking of a protocol.                                              *)
(***************************************************************************)
\* An interval is not empty.
LEMMA IntervalOrdered ==
    ASSUME NEW samples, IsSample(samples), Size(samples) # 0
    PROVE  /\ Interval(samples).low \in Int /\ Interval(samples).high \in Int
           /\ Interval(samples).low <= Interval(samples).high
<1> DEFINE D == DOMAIN samples
           drawn == {Replicate(samples, d) : d \in Draws(samples)}
           scores == IF Size(samples) < 2 THEN {ScoreOf(samples)} ELSE drawn
<1>1. IsFiniteSet(Draws(samples))
  <2> DEFINE graph == [d \in Draws(samples) |-> {<<x, d[x]>> : x \in D}]
  <2>1. IsFiniteSet(SUBSET (D \X D))
    BY FS_Product, FS_SUBSET DEF IsSample
  <2>2. graph \in [Draws(samples) -> SUBSET (D \X D)]
    BY DEF Draws
  <2>3. ASSUME NEW d \in Draws(samples), NEW e \in Draws(samples), graph[d] = graph[e]
        PROVE  d = e
    <3>1. ASSUME NEW x \in D PROVE d[x] = e[x]
      <4>1. <<x, d[x]>> \in graph[e]
        BY <2>3
      <4>2. PICK y \in D : <<x, d[x]>> = <<y, e[y]>>
        BY <4>1
      <4>3. QED
        BY <4>2
    <3>2. QED
      BY <3>1 DEF Draws
  <2> HIDE DEF graph
  <2>4. graph \in Injection(Draws(samples), SUBSET (D \X D))
    BY <2>2, <2>3 DEF Injection, IsInjective
  <2>5. QED
    BY <2>1, <2>4, FS_Injection
<1>2. ASSUME NEW d \in Draws(samples) PROVE Replicate(samples, d) \in Int
  <2>1. /\ IsSample(Resample(samples, d))
        /\ Size(Resample(samples, d)) # 0
        /\ Replicate(samples, d) = ScoreOf(Resample(samples, d))
    BY ReplicateScore
  <2>2. QED
    BY <2>1, ScoreInteger
<1>3. IsFiniteSet(drawn)
  <2> DEFINE f == [d \in Draws(samples) |-> Replicate(samples, d)]
  <2>1. f \in Surjection(Draws(samples), drawn)
    BY DEF Surjection
  <2>2. QED
    BY <1>1, <2>1, FS_Surjection
<1>4. drawn \in SUBSET Int /\ drawn # {}
  <2>1. [i \in D |-> i] \in Draws(samples)
    BY DEF Draws
  <2>2. QED
    BY <1>2, <2>1
<1>5. ScoreOf(samples) \in Int /\ IsFiniteSet({ScoreOf(samples)})
  BY ScoreInteger, FS_Singleton
<1>6. scores \in SUBSET Int /\ IsFiniteSet(scores) /\ scores # {}
  BY <1>3, <1>4, <1>5
<1>7. Interval(samples) = [low |-> Min(scores), high |-> Max(scores)]
  BY DEF Interval
<1> HIDE DEF scores
<1>8. Min(scores) \in scores /\ Max(scores) \in scores /\ \A y \in scores : Min(scores) <= y
  BY <1>6, Extremes
<1> DEFINE low == Min(scores)
           high == Max(scores)
<1>9. low \in Int /\ high \in Int /\ low <= high
  BY <1>6, <1>8
<1>10. Interval(samples) = [low |-> low, high |-> high]
  BY <1>7
<1> HIDE DEF low, high
<1>11. QED
  BY <1>9, <1>10

\* The figures a ranking is made of.
LEMMA RankFigures ==
    ASSUME Measured, Counted, stage \notin {"divergence", "statistics"}, NEW t \in Targets
    PROVE  /\ stats[t].score \in Int /\ stats[t].median \in Int
           /\ stats[t].scored \in Nat /\ stats[t].penalised \in Nat
           /\ stats[t].scored > 0 =>
                Penalty(stats[t].penalised, stats[t].scored + stats[t].penalised) \in Int
           /\ Bounds(t).low \in Int /\ Bounds(t).high \in Int /\ Bounds(t).low <= Bounds(t).high
           /\ Scores[t] = stats[t].score /\ Medians[t] = stats[t].median
           /\ TieOrderKey[t] \in Int
<1> DEFINE samples == Samples(t)
           lat == Latencies(samples)
           ci == IF Size(lat) = 0 THEN [low |-> 0, high |-> 0] ELSE Interval(samples)
<1>1. stats[t] = Statistics(t)
  BY CountedStats
<1>2. IsSample(samples)
  BY SamplesOfTarget
<1>3. /\ Statistics(t).scored = Size(lat)
      /\ Statistics(t).penalised = Size(samples) - Size(lat)
      /\ Statistics(t).median = Percentile(lat, 10)
      /\ Statistics(t).score = IF Size(lat) = 0 THEN 0 ELSE ScoreOf(samples)
      /\ Statistics(t).low = ci.low /\ Statistics(t).high = ci.high
  BY DEF Statistics
<1> HIDE DEF samples
<1>4. IsSample(lat) /\ Size(samples) \in Nat /\ Size(lat) \in 0 .. Size(samples)
  BY <1>2, LatencySample
<1>5. Size(lat) # 0 => Size(samples) # 0
  BY <1>4
<1>6. /\ ci.low \in Int /\ ci.high \in Int /\ ci.low <= ci.high
      /\ Size(lat) # 0 => ScoreOf(samples) \in Int
  BY <1>2, <1>5, IntervalOrdered, ScoreInteger
<1> HIDE DEF lat, ci
<1>7. Percentile(lat, 10) \in Int
  BY <1>4, PercentileInteger
<1>8. stats[t].scored \in Nat /\ stats[t].penalised \in Nat
  BY <1>1, <1>3, <1>4
<1>9. stats[t].score \in Int /\ stats[t].median \in Int
  BY <1>1, <1>3, <1>6, <1>7
<1>10. stats[t].scored > 0 =>
          Penalty(stats[t].penalised, stats[t].scored + stats[t].penalised) \in Int
  <2> DEFINE n == stats[t].scored + stats[t].penalised
  <2>1. stats[t].scored > 0 => n \in Nat \ {0}
    BY <1>8
  <2> HIDE DEF n
  <2>2. stats[t].scored > 0 => Penalty(stats[t].penalised, n) \in Int
    BY <1>8, <2>1, PenaltyInteger
  <2>3. QED
    BY <2>2 DEF n
<1>11. Bounds(t).low \in Int /\ Bounds(t).high \in Int /\ Bounds(t).low <= Bounds(t).high
  <2>1. stats[t].low \in Int /\ stats[t].high \in Int /\ stats[t].low <= stats[t].high
    BY <1>1, <1>3, <1>6
  <2>2. QED
    BY <1>9, <2>1 DEF Bounds
<1>12. Scores[t] = stats[t].score /\ Medians[t] = stats[t].median
  BY DEF Scores, Medians
<1>13. TieOrderKey[t] \in Int
  <2> DEFINE rate == Penalty(stats[t].penalised, stats[t].scored + stats[t].penalised)
             m == stats[t].median
  <2>1. TieOrderKey[t] = IF stats[t].scored = 0 THEN 0 ELSE Scale * 3 * m + rate
    BY DEF TieOrderKey, MedianTerm
  <2>2. stats[t].scored # 0 => rate \in Int
    BY <1>8, <1>10
  <2>3. m \in Int /\ Scale \in Int
    BY <1>9, AnalysisAssumption
  <2> HIDE DEF rate, m
  <2>4. Scale * 3 * m \in Int
    BY <2>3
  <2>5. QED
    BY <2>1, <2>2, <2>4
<1>14. QED
  BY <1>8, <1>9, <1>10, <1>11, <1>12, <1>13

\* The first in order is not beaten in the first key.
LEMMA FirstInOrder ==
    ASSUME NEW members \in SUBSET Int, IsFiniteSet(members), members # {},
           NEW keys, IsKeys(keys, members), Len(keys) > 0
    PROVE  /\ InOrder(members, keys)[1] \in members
           /\ \A t \in members : keys[1][InOrder(members, keys)[1]] <= keys[1][t]
<1> DEFINE order == InOrder(members, keys)
           n == Cardinality(members)
           a == order[1]
<1>1. /\ order \in Seq(members) /\ Len(order) = n /\ n \in Nat
      /\ \A t \in members : \E i \in 1 .. n : order[i] = t
      /\ \A i, j \in 1 .. n : i < j => ~Before(order[j], order[i], keys)
  BY InOrderLists
<1> HIDE DEF order, n
<1>2. 1 \in 1 .. n /\ a \in members
  <2>1. PICK t \in members : TRUE
    OBVIOUS
  <2>2. PICK i \in 1 .. n : order[i] = t
    BY <1>1
  <2>3. 1 \in 1 .. n
    BY ONLY <1>1, <2>2
  <2>4. QED
    BY <1>1, <2>3
<1>3. 1 \in DOMAIN keys /\ \A t \in members : keys[1][t] \in Int
  <2>1. Len(keys) \in Nat /\ DOMAIN keys = 1 .. Len(keys) /\ Len(keys) > 0
    BY DEF IsKeys
  <2>2. 1 \in 1 .. Len(keys)
    <3> DEFINE m == Len(keys)
    <3> HIDE DEF m
    <3>1. m \in Nat /\ m > 0
      BY <2>1 DEF m
    <3>2. 1 \in 1 .. m
      BY ONLY <3>1
    <3>3. QED
      BY <3>2 DEF m
  <2>3. QED
    BY <2>1, <2>2 DEF IsKeys
<1>4. ASSUME NEW t \in members PROVE keys[1][a] <= keys[1][t]
  <2>1. PICK i \in 1 .. n : order[i] = t
    BY <1>1
  <2>2. CASE i = 1
    <3>1. a = t
      BY <2>1, <2>2
    <3> HIDE DEF a
    <3>2. keys[1][t] \in Int
      BY <1>3
    <3>3. QED
      BY <3>1, <3>2
  <2>3. CASE i # 1
    <3>1. ~Before(t, a, keys)
      <4>1. 1 < i
        BY <1>1, <2>3
      <4>2. QED
        BY <1>1, <1>2, <2>1, <4>1
    <3> HIDE DEF a
    <3>2. ~(keys[1][t] < keys[1][a])
      BY <1>3, <3>1 DEF Before
    <3>3. QED
      BY <1>2, <1>3, <3>2
  <2>4. QED
    BY <2>2, <2>3
<1>5. QED
  BY <1>2, <1>4 DEF order

\* The leader has the best score, and is in the group that ties with it.
LEMMA LeaderBest ==
    ASSUME Measured, Counted, stage \notin {"divergence", "statistics"}, NEW p, Competing(p) # {}
    PROVE  /\ Leader(p) \in TieGroup(p)
           /\ \A t \in Competing(p) : stats[t].score >= stats[Leader(p)].score
<1> DEFINE members == Competing(p)
           keys == <<Scores>>
           a == InOrder(members, keys)[1]
<1>1. members \in SUBSET Targets /\ members # {}
  BY DEF Competing, Members
<1>2. members \in SUBSET Int /\ IsFiniteSet(members)
  BY <1>1, CohortFacts, FS_Subset
<1>3. \A t \in members : Scores[t] \in Int /\ Scores[t] = stats[t].score
  BY <1>1, RankFigures
<1>4. Len(keys) = 1 /\ DOMAIN keys = 1 .. 1 /\ keys[1] = Scores
  OBVIOUS
<1>5. Leader(p) = a
  BY DEF Leader
<1> HIDE DEF members, keys
<1>6. IsKeys(keys, members)
  BY <1>3, <1>4 DEF IsKeys
<1>7. a \in members /\ \A t \in members : Scores[a] <= Scores[t]
  BY <1>1, <1>2, <1>4, <1>6, FirstInOrder
<1> HIDE DEF a
<1>8. Overlap(a, a)
  BY <1>1, <1>7, RankFigures DEF Overlap
<1>9. QED
  BY <1>3, <1>5, <1>7, <1>8 DEF TieGroup, members

\* A list of one thing after another.
LEMMA Joined ==
    ASSUME NEW S, NEW a \in Seq(S), NEW b \in Seq(S)
    PROVE  /\ a \o b \in Seq(S) /\ Len(a \o b) = Len(a) + Len(b)
           /\ \A i \in 1 .. Len(a) : (a \o b)[i] = a[i]
           /\ \A i \in Len(a) + 1 .. Len(a) + Len(b) :
                 i - Len(a) \in 1 .. Len(b) /\ (a \o b)[i] = b[i - Len(a)]
OBVIOUS

\* A ranking lists the comparable targets of a protocol, each once: first those
\* that tie with the leader in the order of their key and median, then the
\* others in the order of their scores.
IsRanking(p, order) ==
    LET first == Cardinality(TieGroup(p))
        n     == Cardinality(Competing(p))
    IN  /\ n \in Nat /\ first \in 1 .. n
        /\ order \in Seq(Competing(p)) /\ Len(order) = n
        /\ \A i \in 1 .. n : order[i] \in TieGroup(p) <=> i <= first
        /\ \A t \in Competing(p) : \E i \in 1 .. n : order[i] = t
        /\ \A i, j \in 1 .. n : i < j =>
              /\ order[i] # order[j]
              /\ j <= first => ~Before(order[j], order[i], <<TieOrderKey, Medians>>)
              /\ i > first => ~Before(order[j], order[i], <<Scores>>)

LEMMA RankingLists ==
    ASSUME Measured, Counted, stage \notin {"divergence", "statistics"}, NEW p, Competing(p) # {}
    PROVE  IsRanking(p, Ranking(p))
<1> DEFINE all == Competing(p)
           tie == TieGroup(p)
           rest == all \ tie
           keys == <<TieOrderKey, Medians>>
           a == InOrder(tie, keys)
           b == InOrder(rest, <<Scores>>)
           k == Cardinality(tie)
           m == Cardinality(rest)
           n == Cardinality(all)
           order == a \o b
<1>1. all \in SUBSET Targets /\ tie \in SUBSET all /\ Leader(p) \in tie
  BY LeaderBest DEF Competing, Members, TieGroup
<1>2. /\ all \in SUBSET Int /\ tie \in SUBSET Int /\ rest \in SUBSET Int
      /\ IsFiniteSet(all) /\ IsFiniteSet(tie) /\ IsFiniteSet(rest)
  BY <1>1, CohortFacts, FS_Subset
<1>3. \A t \in all : Scores[t] \in Int /\ Medians[t] \in Int /\ TieOrderKey[t] \in Int
  BY <1>1, RankFigures
<1>4. Ranking(p) = order
  BY DEF Ranking
<1> HIDE DEF all, tie
<1>5. IsKeys(<<Scores>>, rest)
  <2>1. Len(<<Scores>>) = 1 /\ DOMAIN <<Scores>> = 1 .. 1 /\ <<Scores>>[1] = Scores
    OBVIOUS
  <2>2. QED
    BY <1>3, <2>1 DEF IsKeys
<1>6. IsKeys(keys, tie)
  <2>1. /\ Len(keys) = 2 /\ DOMAIN keys = 1 .. 2
        /\ keys[1] = TieOrderKey /\ keys[2] = Medians
    OBVIOUS
  <2> HIDE DEF keys
  <2>2. \A i \in 1 .. 2 : i = 1 \/ i = 2
    OBVIOUS
  <2>3. QED
    BY <1>1, <1>3, <2>1, <2>2 DEF IsKeys
<1> HIDE DEF keys, rest
<1>7. /\ a \in Seq(tie) /\ Len(a) = k /\ k \in Nat
      /\ \A t \in tie : \E i \in 1 .. k : a[i] = t
      /\ \A i, j \in 1 .. k : i < j => ~Before(a[j], a[i], keys) /\ a[i] # a[j]
  BY <1>2, <1>6, InOrderLists
<1>8. /\ b \in Seq(rest) /\ Len(b) = m /\ m \in Nat
      /\ \A t \in rest : \E i \in 1 .. m : b[i] = t
      /\ \A i, j \in 1 .. m : i < j => ~Before(b[j], b[i], <<Scores>>) /\ b[i] # b[j]
  BY <1>2, <1>5, InOrderLists
<1>9. n \in Nat /\ n = k + m /\ k # 0
  <2>1. tie \cap rest = {} /\ tie \cup rest = all
    BY <1>1 DEF rest
  <2>2. n = k + m
    <3>1. Cardinality({}) = 0
      BY FS_EmptySet
    <3>2. n = k + m - 0
      BY <1>2, <2>1, <3>1, FS_Union
    <3>3. QED
      BY <1>7, <1>8, <3>2
  <2>3. k # 0
    BY <1>1, <1>2, FS_EmptySet
  <2>4. QED
    BY <1>7, <1>8, <2>2, <2>3
<1>10. a \in Seq(all) /\ b \in Seq(all)
  <2>1. tie \in SUBSET all /\ rest \in SUBSET all
    BY <1>1 DEF rest
  <2>2. QED
    BY <1>7, <1>8, <2>1
<1> HIDE DEF a, b, k, m, n
<1>11. /\ order \in Seq(all) /\ Len(order) = n
       /\ \A i \in 1 .. k : order[i] = a[i]
       /\ \A i \in k + 1 .. n : i - k \in 1 .. m /\ order[i] = b[i - k]
  <2>1. Len(a) = k /\ Len(b) = m /\ Len(a) + Len(b) = n
    BY <1>7, <1>8, <1>9
  <2>2. /\ a \o b \in Seq(all) /\ Len(a \o b) = Len(a) + Len(b)
        /\ \A i \in 1 .. Len(a) : (a \o b)[i] = a[i]
        /\ \A i \in Len(a) + 1 .. Len(a) + Len(b) :
              i - Len(a) \in 1 .. Len(b) /\ (a \o b)[i] = b[i - Len(a)]
    BY ONLY <1>10, Joined
  <2>3. QED
    BY <2>1, <2>2
<1> HIDE DEF order
<1>12. \A i \in 1 .. k : order[i] \in tie /\ order[i] = a[i] /\ i \in 1 .. n
  BY <1>7, <1>9, <1>8, <1>11
<1>13. \A i \in k + 1 .. n : order[i] \in rest /\ order[i] = b[i - k] /\ order[i] \notin tie
  <2> SUFFICES ASSUME NEW i \in k + 1 .. n
               PROVE  order[i] \in rest /\ order[i] = b[i - k] /\ order[i] \notin tie
    OBVIOUS
  <2>1. i - k \in 1 .. m /\ order[i] = b[i - k]
    BY <1>11
  <2>2. b[i - k] \in rest
    <3> DEFINE j == i - k
    <3> HIDE DEF j
    <3>1. b[j] \in rest
      BY <1>8, <2>1 DEF j
    <3>2. QED
      BY <3>1 DEF j
  <2>3. QED
    BY <2>1, <2>2 DEF rest
<1>14. \A i \in 1 .. n : IF i <= k THEN i \in 1 .. k ELSE i \in k + 1 .. n
  BY <1>7, <1>9
<1>15. ASSUME NEW t \in all PROVE \E i \in 1 .. n : order[i] = t
  <2>1. CASE t \in tie
    BY <1>7, <1>12, <2>1
  <2>2. CASE t \in rest
    <3>1. PICK j \in 1 .. m : b[j] = t
      BY <1>8, <2>2
    <3> DEFINE i == j + k
    <3>2. i \in k + 1 .. n /\ i \in 1 .. n /\ i - k = j
      BY <1>7, <1>8, <1>9
    <3> HIDE DEF i
    <3>3. order[i] = t
      BY <1>13, <3>1, <3>2
    <3>4. QED
      BY <3>2, <3>3
  <2>3. QED
    BY <2>1, <2>2 DEF rest
<1>16. ASSUME NEW i \in 1 .. n, NEW j \in 1 .. n, i < j
       PROVE  /\ order[i] # order[j]
              /\ j <= k => ~Before(order[j], order[i], keys)
              /\ i > k => ~Before(order[j], order[i], <<Scores>>)
  <2>1. CASE j <= k
    <3>1. i \in 1 .. k /\ j \in 1 .. k /\ ~(i > k)
      BY <1>7, <1>9, <1>16, <2>1
    <3>2. QED
      BY <1>7, <1>12, <1>16, <3>1
  <2>2. CASE i > k
    <3> DEFINE x == i - k
               y == j - k
    <3>1. i \in k + 1 .. n /\ j \in k + 1 .. n /\ ~(j <= k) /\ x < y
      BY <1>7, <1>9, <1>16, <2>2
    <3>2. x \in 1 .. m /\ y \in 1 .. m /\ order[i] = b[x] /\ order[j] = b[y]
      BY <1>11, <3>1
    <3> HIDE DEF x, y
    <3>3. QED
      BY <1>8, <3>1, <3>2
  <2>3. CASE i <= k /\ ~(j <= k)
    <3>1. order[i] \in tie /\ order[j] \notin tie
      BY <1>12, <1>13, <1>14, <2>3
    <3>2. ~(i > k)
      BY <1>7, <2>3
    <3>3. QED
      BY <2>3, <3>1, <3>2
  <2>4. QED
    BY <1>7, <1>9, <2>1, <2>2, <2>3
<1>17. \A i \in 1 .. n : order[i] \in tie <=> i <= k
  BY <1>12, <1>13, <1>14
<1>18. k \in 1 .. n
  BY <1>7, <1>8, <1>9
<1>19. QED
  BY <1>4, <1>9, <1>11, <1>15, <1>16, <1>17, <1>18 DEF IsRanking, all, tie, k, n, keys

\* The rankings that MakeRankings has left.
LEMMA PlacedRankings ==
    ASSUME Measured, Counted, Placed,
           stage \notin {"divergence", "statistics", "rankings"}, NEW p \in DOMAIN rankings
    PROVE  /\ DOMAIN rankings = Ranked /\ p \in Protocols /\ Competing(p) # {}
           /\ IsRanking(p, rankings[p])
           /\ rankings[p][1] \in TieGroup(p)
           /\ Range(rankings[p]) \in SUBSET Competing(p)
           /\ rankings[p][1] \in Range(rankings[p])
<1>1. rankings = [r \in Ranked |-> Ranking(r)]
  BY DEF Placed
<1>2. DOMAIN rankings = Ranked /\ rankings[p] = Ranking(p)
  BY <1>1
<1>3. p \in Protocols /\ Competing(p) # {}
  BY <1>2 DEF Ranked
<1>4. IsRanking(p, rankings[p])
  BY <1>2, <1>3, RankingLists
<1> DEFINE order == rankings[p]
           n == Cardinality(Competing(p))
           first == Cardinality(TieGroup(p))
<1>5. /\ n \in Nat /\ first \in 1 .. n /\ order \in Seq(Competing(p)) /\ Len(order) = n
      /\ \A i \in 1 .. n : order[i] \in TieGroup(p) <=> i <= first
  BY <1>4 DEF IsRanking
<1> HIDE DEF order, n, first
<1>6. 1 \in 1 .. n /\ 1 <= first /\ DOMAIN order = 1 .. n /\ \A i \in 1 .. n : order[i] \in Competing(p)
  BY <1>5
<1>7. order[1] \in TieGroup(p) /\ order[1] \in Range(order) /\ Range(order) \in SUBSET Competing(p)
  BY <1>5, <1>6 DEF Range
<1>8. QED
  BY <1>2, <1>3, <1>4, <1>7 DEF order

\* The winners of a protocol are among those that tie with its leader, or first.
LEMMA WinnersOfProtocol ==
    ASSUME Measured, Counted, Placed,
           stage \notin {"divergence", "statistics", "rankings"}, NEW p \in DOMAIN rankings
    PROVE  /\ rankings[p][1] \in Winners(p)
           /\ \A t \in Winners(p) :
                 /\ t \in Competing(p)
                 /\ t \in TieGroup(p) \cup {rankings[p][1]}
<1>1. /\ Range(rankings[p]) \in SUBSET Competing(p)
      /\ rankings[p][1] \in Range(rankings[p])
  BY PlacedRankings
<1>2. ASSUME NEW t \in Winners(p), t # rankings[p][1]
      PROVE  t \in TieGroup(p)
  <2>1. t \in Competing(p) /\ t \in Ties
    BY <1>1, <1>2 DEF Winners, Placed
  <2>2. PICK r \in Protocols : t \in TieGroup(r)
    BY <2>1 DEF Ties, Ranked
  <2>3. r = p
    BY <2>1, <2>2 DEF TieGroup, Competing, Members
  <2>4. QED
    BY <2>2, <2>3
<1>3. QED
  BY <1>1, <1>2 DEF Winners

\* A count of zero and a set that is empty, of scored and of usable responses.
LEMMA EvidenceCounts ==
    ASSUME Measured, Counted, stage \notin {"divergence", "statistics"}, NEW t \in Targets
    PROVE  /\ stats[t].scored # 0 => \E o \in Range(results[t]) : Scored(o)
           /\ stats[t].usable # 0 => \E o \in Range(results[t]) : Usable(o.seen)
           /\ results[t] # <<>> => stats[t].total > 0
<1>1. /\ stats[t].scored = Cardinality(ScoredAt(t)) /\ ScoredAt(t) \in SUBSET Queries(t)
      /\ stats[t].usable = Cardinality(UsableAt(t)) /\ UsableAt(t) \in SUBSET Queries(t)
      /\ stats[t].total = Len(results[t])
  BY CountedStats
<1>2. stats[t].scored # 0 => ScoredAt(t) # {}
  BY <1>1, CountZero
<1>3. stats[t].usable # 0 => UsableAt(t) # {}
  BY <1>1, CountZero
<1>4. results[t] # <<>> => Len(results[t]) > 0
  <2>1. results[t] \in Seq(Outcomes)
    BY DEF Measured
  <2>2. QED
    BY <2>1
<1>5. QED
  BY <1>1, <1>2, <1>3, <1>4 DEF ScoredAt, UsableAt, Queries, Range

LEMMA PassNeedsEvidenceHolds == VInv => PassNeedsEvidence
<1> SUFFICES ASSUME VInv, NEW c \in condition, reasons = {}
             PROVE  LET remote(p) == {t \in Members(p) : ~Local(t)}
                        judged    == IF c.kind = "numeric" /\ c.subject # {} THEN c.subject
                                     ELSE UNION {Winners(p) : p \in DOMAIN rankings}
                    IN  /\ \A p \in Protocols :
                              remote(p) # {} /\ (\A t \in remote(p) : results[t] # <<>>)
                                => \E t \in remote(p) : \E o \in Range(results[t]) : Usable(o.seen)
                        /\ judged # {}
                        /\ (c.kind = "numeric" /\ IsLatencyMetric(c.metric)) \/ c.kind = "winner"
                             => \A t \in judged : \E o \in Range(results[t]) : Scored(o)
                        /\ c.kind = "winner" =>
                             \A p \in DOMAIN rankings :
                                c.winner \cap (TieGroup(p) \cup {rankings[p][1]}) # {}
  BY DEF PassNeedsEvidence
<1> DEFINE remote(p) == {t \in Members(p) : ~Local(t)}
           named  == c.kind = "numeric" /\ c.subject # {}
           judged == IF named THEN c.subject ELSE UNION {Winners(p) : p \in DOMAIN rankings}
<1>1. /\ Measured /\ Counted /\ Placed
      /\ stage \notin {"divergence", "statistics", "rankings"}
      /\ stage \notin {"divergence", "statistics"}
      /\ c \in Conditions(cohort) /\ Reasons(c) = {}
  BY DEF VInv, Judged
<1>2. c.kind = "numeric" => c.subject \in SUBSET Targets
  BY <1>1, ConditionAssumption DEF IsCondition, Measured, Targets
<1>3. /\ Dead = {}
      /\ named => SubjectReasons(c) = {}
      /\ ~named => ProtocolReasons(c) = {}
  BY <1>1 DEF Reasons
<1>4. ASSUME NEW p \in Protocols, remote(p) # {}, \A t \in remote(p) : results[t] # <<>>
      PROVE  \E t \in remote(p) : \E o \in Range(results[t]) : Usable(o.seen)
  <2>1. PICK t \in remote(p) : ~(stats[t].total > 0 /\ stats[t].usable = 0)
    BY <1>3, <1>4 DEF Dead
  <2>2. t \in Targets
    BY DEF Members
  <2>3. QED
    BY <1>1, <1>4, <2>1, <2>2, EvidenceCounts
<1>5. ASSUME ~named
      PROVE  /\ judged # {}
             /\ \A t \in judged : \E o \in Range(results[t]) : Scored(o)
             /\ c.kind = "winner" => \A p \in DOMAIN rankings : Winners(p) \cap c.winner # {}
  <2>1. DOMAIN rankings # {}
    BY <1>3, <1>5 DEF ProtocolReasons
  <2>2. judged # {}
    BY <1>1, <1>5, <2>1, WinnersOfProtocol
  <2>3. ASSUME NEW t \in judged PROVE \E o \in Range(results[t]) : Scored(o)
    <3>1. PICK p \in DOMAIN rankings : t \in Winners(p)
      BY <1>5
    <3>2. t \in Competing(p)
      BY <1>1, <3>1, WinnersOfProtocol
    <3>3. QED
      BY <1>1, <3>2, CompetingScored
  <2>4. c.kind = "winner" => \A p \in DOMAIN rankings : Winners(p) \cap c.winner # {}
    BY <1>3, <1>5, <2>1 DEF ProtocolReasons
  <2>5. QED
    BY <2>2, <2>3, <2>4
<1>6. ASSUME named, IsLatencyMetric(c.metric), NEW t \in c.subject
      PROVE  \E o \in Range(results[t]) : Scored(o)
  <2>1. t \in Targets /\ stats[t].scored # 0
    BY <1>2, <1>3, <1>6 DEF SubjectReasons
  <2>2. QED
    BY <1>1, <2>1, EvidenceCounts
<1>7. c.kind = "winner" => \A p \in DOMAIN rankings :
                              c.winner \cap (TieGroup(p) \cup {rankings[p][1]}) # {}
  <2> SUFFICES ASSUME c.kind = "winner", NEW p \in DOMAIN rankings
               PROVE  c.winner \cap (TieGroup(p) \cup {rankings[p][1]}) # {}
    OBVIOUS
  <2>1. Winners(p) \cap c.winner # {}
    BY <1>5
  <2>2. \A t \in Winners(p) : t \in TieGroup(p) \cup {rankings[p][1]}
    BY <1>1, WinnersOfProtocol
  <2>3. QED
    BY <2>1, <2>2
<1>8. \A p \in Protocols :
         remote(p) # {} /\ (\A t \in remote(p) : results[t] # <<>>)
           => \E t \in remote(p) : \E o \in Range(results[t]) : Usable(o.seen)
  BY <1>4
<1>9. judged # {}
  BY <1>5
<1>10. (c.kind = "numeric" /\ IsLatencyMetric(c.metric)) \/ c.kind = "winner"
         => \A t \in judged : \E o \in Range(results[t]) : Scored(o)
  BY <1>5, <1>6
<1>11. QED
  BY <1>7, <1>8, <1>9, <1>10

\* In every reachable state a condition that passes rests on evidence: on usable
\* responses from the network, on scored samples where a latency is compared,
\* and on the winners of every ranked protocol (evaluateAssertionsWithOptions).
THEOREM PassesOnEvidence == Spec => []PassNeedsEvidence
<1>1. VInv => PassNeedsEvidence
  BY PassNeedsEvidenceHolds
<1>2. QED
  BY <1>1, VerdictsInvariant, PTL

-----------------------------------------------------------------------------
(***************************************************************************)
(* The ranking is fair.                                                    *)
(***************************************************************************)
Rate(t)      == Penalty(stats[t].penalised, stats[t].scored + stats[t].penalised)
Better(a, b) == /\ stats[a].median <= stats[b].median /\ Rate(a) <= Rate(b)
                /\ stats[a].median < stats[b].median \/ Rate(a) < Rate(b)

\* A better target has the smaller key.
LEMMA BetterKey ==
    ASSUME Measured, Counted, stage \notin {"divergence", "statistics"},
           NEW p, NEW a \in Competing(p), NEW b \in Competing(p), Better(a, b)
    PROVE  TieOrderKey[a] < TieOrderKey[b]
<1>1. /\ a \in Targets /\ stats[a].scored > 0 /\ b \in Targets /\ stats[b].scored > 0
  BY DEF Competing, Members, Comparable
<1>2. /\ stats[a].median \in Int /\ Rate(a) \in Int /\ stats[b].median \in Int /\ Rate(b) \in Int
      /\ stats[a].scored \in Nat /\ stats[b].scored \in Nat
  BY <1>1, RankFigures DEF Rate
<1>3. /\ TieOrderKey[a] = Scale * 3 * stats[a].median + Rate(a)
      /\ TieOrderKey[b] = Scale * 3 * stats[b].median + Rate(b)
  BY <1>1, <1>2 DEF TieOrderKey, MedianTerm, Rate
<1> DEFINE k == Scale * 3
           x == stats[a].median
           y == stats[b].median
           r == Rate(a)
           s == Rate(b)
<1>4. /\ x \in Int /\ y \in Int /\ r \in Int /\ s \in Int /\ k \in Nat \ {0}
      /\ x <= y /\ r <= s /\ (x < y \/ r < s)
  BY <1>2, AnalysisAssumption DEF Better
<1>5. TieOrderKey[a] = k * x + r /\ TieOrderKey[b] = k * y + s
  BY <1>3
<1> HIDE DEF k, x, y, r, s
<1>6. k * x <= k * y /\ (x < y => k * x < k * y) /\ k * x \in Int /\ k * y \in Int
  BY <1>4
<1>7. k * x + r < k * y + s
  <2> DEFINE u == k * x
             v == k * y
  <2>1. u <= v /\ (x < y => u < v) /\ u \in Int /\ v \in Int
    BY <1>6
  <2> HIDE DEF u, v
  <2>2. u + r < v + s
    BY <1>4, <2>1
  <2>3. QED
    BY <2>2 DEF u, v
<1>8. QED
  BY <1>5, <1>7

\* The order of a ranking: better targets first among those that tie, the
\* scores after them, and none of those better than the leader's.
LEMMA RankingFair ==
    ASSUME Measured, Counted, Placed,
           stage \notin {"divergence", "statistics", "rankings"}, NEW p \in DOMAIN rankings,
           NEW i \in DOMAIN rankings[p], NEW j \in DOMAIN rankings[p], i < j
    PROVE  IF j <= Cardinality(TieGroup(p)) THEN ~Better(rankings[p][j], rankings[p][i])
           ELSE /\ i > Cardinality(TieGroup(p)) =>
                      stats[rankings[p][i]].score <= stats[rankings[p][j]].score
                /\ stats[rankings[p][j]].score >= stats[Leader(p)].score
<1> DEFINE order == rankings[p]
           n == Cardinality(Competing(p))
           first == Cardinality(TieGroup(p))
           keys == <<TieOrderKey, Medians>>
<1>1. /\ n \in Nat /\ order \in Seq(Competing(p)) /\ Len(order) = n
      /\ \A x, y \in 1 .. n : x < y =>
            /\ y <= first => ~Before(order[y], order[x], keys)
            /\ x > first => ~Before(order[y], order[x], <<Scores>>)
  BY PlacedRankings DEF IsRanking
<1> HIDE DEF order, n, first
<1>2. i \in 1 .. n /\ j \in 1 .. n /\ order[i] \in Competing(p) /\ order[j] \in Competing(p)
  BY <1>1 DEF order
<1> DEFINE a == order[i]
           b == order[j]
<1>3. /\ j <= first => ~Before(b, a, keys)
      /\ i > first => ~Before(b, a, <<Scores>>)
  BY <1>1, <1>2
<1>4. a \in Competing(p) /\ b \in Competing(p) /\ a \in Targets /\ b \in Targets /\ Competing(p) # {}
  BY <1>2 DEF Competing, Members
<1> HIDE DEF a, b
<1>5. ASSUME j <= first PROVE ~Better(b, a)
  <2>1. ~Before(b, a, keys) /\ DOMAIN keys = 1 .. 2 /\ keys[1] = TieOrderKey
    BY <1>3, <1>5
  <2> HIDE DEF keys
  <2>2. ~(TieOrderKey[b] < TieOrderKey[a])
    BY <2>1 DEF Before
  <2>3. QED
    BY <1>4, <2>2, BetterKey
<1>6. ASSUME i > first PROVE stats[a].score <= stats[b].score
  <2>1. ~(Scores[b] < Scores[a])
    BY <1>3, <1>6 DEF Before
  <2>2. QED
    BY <1>4, <2>1, RankFigures
<1>7. stats[b].score >= stats[Leader(p)].score
  BY <1>4, LeaderBest
<1>8. QED
  BY <1>5, <1>6, <1>7 DEF a, b, order, first

\* The reference of a protocol is the target that is ranked first.
LEMMA ReferenceFirst ==
    ASSUME Measured, Counted, Placed,
           stage \notin {"divergence", "statistics", "rankings"}, NEW p \in DOMAIN rankings
    PROVE  Reference(p) = rankings[p][1]
<1> DEFINE members == Competing(p)
           order == rankings[p]
           n == Cardinality(members)
           ranks == [t \in Targets |-> RankIn(p, t)]
           keys == <<ranks, Scores>>
           a == InOrder(members, keys)[1]
<1>1. /\ n \in Nat /\ order \in Seq(members) /\ Len(order) = n
      /\ \A t \in members : \E i \in 1 .. n : order[i] = t
      /\ \A i, j \in 1 .. n : i < j => order[i] # order[j]
      /\ members # {}
  BY PlacedRankings DEF IsRanking
<1>2. members \in SUBSET Targets /\ members \in SUBSET Int /\ IsFiniteSet(members)
  <2>1. members \in SUBSET Targets
    BY DEF Competing, Members
  <2>2. QED
    BY <2>1, CohortFacts, FS_Subset
<1>3. \A t \in members : Scores[t] \in Int
  BY <1>2, RankFigures
<1>4. Reference(p) = a
  BY DEF Reference
<1> HIDE DEF members, n
<1>5. ASSUME NEW i \in 1 .. n PROVE order[i] \in members /\ ranks[order[i]] = i
  <2>1. order[i] \in members /\ order[i] \in Targets /\ Contains(order, order[i])
    <3>1. i \in 1 .. Len(order)
      BY <1>1
    <3>2. order[i] \in members
      BY <1>1, <3>1
    <3>3. Contains(order, order[i])
      BY <3>1 DEF Contains
    <3>4. QED
      BY <1>2, <3>2, <3>3
  <2>2. RankIn(p, order[i]) = CHOOSE j \in DOMAIN order : order[j] = order[i]
    BY <2>1 DEF RankIn
  <2>3. \A j \in DOMAIN order : order[j] = order[i] => j = i
    BY <1>1
  <2>4. i \in DOMAIN order
    BY <1>1
  <2> DEFINE x == CHOOSE j \in DOMAIN order : order[j] = order[i]
  <2>5. x \in DOMAIN order /\ order[x] = order[i]
    BY <2>4
  <2> HIDE DEF x
  <2>6. x = i
    BY <2>3, <2>5
  <2>7. QED
    BY <2>1, <2>2, <2>6 DEF x
<1> HIDE DEF order, ranks
<1>6. \A t \in members : ranks[t] \in Int
  BY <1>1, <1>5
<1>7. Len(keys) = 2 /\ DOMAIN keys = 1 .. 2 /\ keys[1] = ranks /\ keys[2] = Scores
  OBVIOUS
<1> HIDE DEF keys
<1>8. IsKeys(keys, members)
  <2>1. \A i \in 1 .. 2 : i = 1 \/ i = 2
    OBVIOUS
  <2>2. QED
    BY <1>3, <1>6, <1>7, <2>1 DEF IsKeys
<1>9. a \in members /\ \A t \in members : ranks[a] <= ranks[t]
  BY <1>1, <1>2, <1>7, <1>8, FirstInOrder
<1> HIDE DEF a
<1>10. PICK i \in 1 .. n : order[i] = a
  BY <1>1, <1>9
<1>11. 1 \in 1 .. n /\ i <= 1
  <2>1. 1 \in 1 .. n
    BY <1>1, <1>10
  <2>2. ranks[order[1]] = 1 /\ order[1] \in members /\ ranks[a] = i
    BY <1>5, <1>10, <2>1
  <2>3. QED
    BY <1>9, <2>1, <2>2
<1>12. i = 1
  BY <1>1, <1>11
<1>13. QED
  BY <1>4, <1>10, <1>12 DEF order

\* The targets compared with the first of a ranking are the comparable ones.
LEMMA EffectsOfProtocol ==
    ASSUME Measured, Counted, Placed, Paired, stage = "analysed", NEW p \in DOMAIN rankings
    PROVE  {e.target : e \in {f \in effects : f.reference = rankings[p][1]}} = Competing(p)
<1> DEFINE first == rankings[p][1]
<1>1. effects = UNION {{Effect(t, Reference(r)) : t \in Competing(r)} : r \in Protocols}
  BY DEF Paired, Effects
<1>2. \A t, u : Effect(t, u).target = t /\ Effect(t, u).reference = u
  BY DEF Effect
<1>3. DOMAIN rankings = Ranked /\ p \in Protocols /\ first \in Competing(p)
  BY PlacedRankings DEF TieGroup
<1>4. Reference(p) = first
  BY ReferenceFirst
<1>5. ASSUME NEW r \in Protocols, NEW t \in Competing(r), Reference(r) = first
      PROVE  r = p
  <2>1. r \in DOMAIN rankings
    BY <1>3 DEF Ranked
  <2>2. Reference(r) \in Competing(r)
    <3>1. rankings[r][1] \in TieGroup(r)
      BY <2>1, PlacedRankings
    <3>2. Reference(r) = rankings[r][1]
      BY <2>1, ReferenceFirst
    <3>3. QED
      BY <3>1, <3>2 DEF TieGroup
  <2>3. QED
    BY <1>3, <1>5, <2>2 DEF Competing, Members
<1> HIDE DEF first
<1>6. ASSUME NEW f \in effects, f.reference = first PROVE f.target \in Competing(p)
  <2>1. PICK r \in Protocols : \E t \in Competing(r) : f = Effect(t, Reference(r))
    BY <1>1
  <2>2. PICK t \in Competing(r) : f = Effect(t, Reference(r))
    BY <2>1
  <2>3. f.target = t /\ Reference(r) = first
    BY <1>2, <1>6, <2>2
  <2>4. QED
    BY <1>5, <2>2, <2>3
<1>7. ASSUME NEW t \in Competing(p)
      PROVE  Effect(t, first) \in effects /\ Effect(t, first).reference = first
                /\ Effect(t, first).target = t
  BY <1>1, <1>2, <1>3, <1>4
<1>8. QED
  BY <1>6, <1>7 DEF first

LEMMA FairRankingHolds == VInv => FairRanking
<1> SUFFICES ASSUME VInv, stage = "analysed", NEW p \in DOMAIN rankings
             PROVE  LET order     == rankings[p]
                        first     == Cardinality(TieGroup(p))
                    IN  /\ \A i, j \in DOMAIN order : i < j =>
                              IF j <= first THEN ~Better(order[j], order[i])
                              ELSE /\ i > first => stats[order[i]].score <= stats[order[j]].score
                                   /\ stats[order[j]].score >= stats[Leader(p)].score
                        /\ \A t \in Competing(p) : stats[t].score >= stats[Leader(p)].score
                        /\ Leader(p) \in {order[i] : i \in 1 .. first}
                        /\ {e.target : e \in {f \in effects : f.reference = order[1]}} = Competing(p)
  BY DEF FairRanking, Better, Rate
<1> DEFINE order == rankings[p]
           first == Cardinality(TieGroup(p))
<1>1. /\ Measured /\ Counted /\ Placed /\ Paired
      /\ stage \notin {"divergence", "statistics", "rankings"}
      /\ stage \notin {"divergence", "statistics"}
  BY DEF VInv
<1>2. \A i, j \in DOMAIN order : i < j =>
         IF j <= first THEN ~Better(order[j], order[i])
         ELSE /\ i > first => stats[order[i]].score <= stats[order[j]].score
              /\ stats[order[j]].score >= stats[Leader(p)].score
  BY <1>1, RankingFair
<1>3. Competing(p) # {} /\ IsRanking(p, order)
  BY <1>1, PlacedRankings
<1>4. /\ \A t \in Competing(p) : stats[t].score >= stats[Leader(p)].score
      /\ Leader(p) \in TieGroup(p) /\ Leader(p) \in Competing(p)
  BY <1>1, <1>3, LeaderBest DEF TieGroup
<1>5. Leader(p) \in {order[i] : i \in 1 .. first}
  <2> DEFINE n == Cardinality(Competing(p))
  <2>1. /\ n \in Nat /\ first \in 1 .. n
        /\ \A i \in 1 .. n : order[i] \in TieGroup(p) <=> i <= first
        /\ \A t \in Competing(p) : \E i \in 1 .. n : order[i] = t
    BY <1>3 DEF IsRanking
  <2> HIDE DEF n, order, first
  <2>2. PICK i \in 1 .. n : order[i] = Leader(p)
    BY <1>4, <2>1
  <2>3. i \in 1 .. first
    BY <1>4, <2>1, <2>2
  <2>4. QED
    BY <2>2, <2>3
<1>6. {e.target : e \in {f \in effects : f.reference = order[1]}} = Competing(p)
  BY <1>1, EffectsOfProtocol
<1>7. QED
  BY <1>2, <1>4, <1>5, <1>6

\* In every reachable state a ranking is fair: by median and failures where
\* intervals overlap, by score after them, with the best score among the first
\* and every other target compared with the one ranked first (makeRankings,
\* calculatePairedEffects).
THEOREM RankingIsFair == Spec => []FairRanking
<1>1. VInv => FairRanking
  BY FairRankingHolds
<1>2. QED
  BY <1>1, VerdictsInvariant, PTL

-----------------------------------------------------------------------------
(***************************************************************************)
(* What a report says of a target is what Diff assumes of a result.        *)
(***************************************************************************)
\* The counts of a target fit together: a success is usable or not, a truncated
\* response is a failure, what is scored is usable, and what was neither cut
\* off nor left unopened has an observation of every query.
CountsFit ==
    stage \notin {"divergence", "statistics"} =>
        \A t \in Targets :
            LET s == stats[t]
            IN  /\ {s.usable, s.resolverFailures, s.truncated, s.scored} \subseteq Nat
                /\ s.total \in 0 .. cohort.queries
                /\ ~Incomplete(t) => s.total = cohort.queries
                /\ s.successes = s.usable + s.resolverFailures
                /\ s.successes + s.failures = s.total
                /\ s.usable + s.resolverFailures + s.truncated <= s.total
                /\ s.scored <= s.usable
                /\ OpenError(t) /\ ~Incomplete(t) =>
                     s.usable + s.resolverFailures + s.truncated = 0

\* Two disjoint sets of queries.
LEMMA DisjointQueries ==
    ASSUME Measured, NEW t \in Targets,
           NEW A \in SUBSET Queries(t), NEW B \in SUBSET Queries(t), A \cap B = {}
    PROVE  /\ Cardinality(A) \in Nat /\ Cardinality(B) \in Nat
           /\ Cardinality(A \cup B) = Cardinality(A) + Cardinality(B)
<1>1. IsFiniteSet(A) /\ IsFiniteSet(B) /\ Cardinality(A) \in Nat /\ Cardinality(B) \in Nat
  BY ResultFacts, CountZero, FS_Subset DEF Queries
<1>2. Cardinality(A \cap B) = 0
  BY FS_EmptySet
<1>3. Cardinality(A \cup B) = Cardinality(A) + Cardinality(B) - Cardinality(A \cap B)
  BY <1>1, FS_Union
<1>4. QED
  BY <1>1, <1>2, <1>3

LEMMA CountsFitHolds == VInv => CountsFit
<1> SUFFICES ASSUME VInv, stage \notin {"divergence", "statistics"}, NEW t \in Targets
             PROVE  LET s == stats[t]
                    IN  /\ {s.usable, s.resolverFailures, s.truncated, s.scored} \subseteq Nat
                        /\ s.total \in 0 .. cohort.queries
                        /\ ~Incomplete(t) => s.total = cohort.queries
                        /\ s.successes = s.usable + s.resolverFailures
                        /\ s.successes + s.failures = s.total
                        /\ s.usable + s.resolverFailures + s.truncated <= s.total
                        /\ s.scored <= s.usable
                        /\ OpenError(t) /\ ~Incomplete(t) =>
                             s.usable + s.resolverFailures + s.truncated = 0
  BY DEF CountsFit
<1>1. Measured /\ Counted
  BY DEF VInv
<1> DEFINE Succeeded == {q \in Queries(t) : results[t][q].seen.success}
           U == UsableAt(t)
           R == ResolverFailedAt(t)
           F == FailedAt(t)
           C == TruncatedAt(t)
           S == ScoredAt(t)
<1>2. /\ stats[t].total = Len(results[t]) /\ stats[t].failures = Cardinality(F)
      /\ stats[t].truncated = Cardinality(C) /\ stats[t].usable = Cardinality(U)
      /\ stats[t].resolverFailures = Cardinality(R) /\ stats[t].scored = Cardinality(S)
      /\ F \in SUBSET Queries(t) /\ C \in SUBSET Queries(t) /\ U \in SUBSET Queries(t)
      /\ R \in SUBSET Queries(t) /\ S \in SUBSET Queries(t)
  BY <1>1, CountedStats
<1>3. stats[t].successes = Cardinality(Succeeded)
  <2>1. stats[t] = Statistics(t)
    BY <1>1, CountedStats
  <2>2. QED
    BY <2>1 DEF Statistics, Queries
<1>4. ASSUME NEW q \in Queries(t)
      PROVE  /\ results[t][q].seen.truncated => ~results[t][q].seen.success
             /\ Usable(results[t][q].seen) => results[t][q].seen.success
  <2>1. results[t][q].seen \in cohort.kinds \cup {Failure}
    BY <1>1, ResultFacts DEF Queries, Outcomes
  <2>2. QED
    BY <1>1, <2>1, CohortFacts DEF Usable
<1>5. Succeeded = U \cup R /\ U \cap R = {} /\ Succeeded \in SUBSET Queries(t)
  BY <1>4 DEF UsableAt, ResolverFailedAt
<1>6. Queries(t) = Succeeded \cup F /\ Succeeded \cap F = {} /\ Succeeded \cap C = {}
  BY <1>4 DEF FailedAt, TruncatedAt
<1>7. S \subseteq U
  BY DEF ScoredAt, UsableAt, Scored
<1>8. Len(results[t]) \in Nat /\ Cardinality(Queries(t)) = Len(results[t]) /\ cohort.queries \in Nat
      /\ IsFiniteSet(Queries(t))
  BY <1>1, ResultFacts, CohortFacts DEF Queries
<1>9. OpenError(t) /\ ~Incomplete(t) => Succeeded = {} /\ C = {}
  <2>1. OpenError(t) /\ ~Incomplete(t) => t \in unopened
    BY DEF OpenError, Incomplete
  <2>2. t \in unopened => \A q \in Queries(t) : results[t][q].seen = Failure
    BY <1>1 DEF Measured, Queries
  <2>3. Failure.success = FALSE /\ Failure.truncated = FALSE
    BY DEF Failure
  <2>4. QED
    BY <2>1, <2>2, <2>3 DEF TruncatedAt
<1> HIDE DEF Succeeded, U, R, F, C, S
<1>10. /\ Cardinality(U) \in Nat /\ Cardinality(R) \in Nat
       /\ Cardinality(Succeeded) = Cardinality(U) + Cardinality(R)
  BY <1>1, <1>2, <1>5, DisjointQueries
<1>11. /\ Cardinality(F) \in Nat
       /\ Len(results[t]) = Cardinality(Succeeded) + Cardinality(F)
  <2>1. F \in SUBSET Queries(t) /\ Succeeded \in SUBSET Queries(t) /\ Succeeded \cap F = {}
    BY <1>2, <1>5, <1>6
  <2>2. /\ Cardinality(F) \in Nat
        /\ Cardinality(Succeeded \cup F) = Cardinality(Succeeded) + Cardinality(F)
    BY <1>1, <2>1, DisjointQueries
  <2>3. QED
    BY <1>6, <1>8, <2>2
<1>12. /\ Cardinality(C) \in Nat
       /\ Cardinality(Succeeded) + Cardinality(C) <= Len(results[t])
  <2>1. /\ Cardinality(C) \in Nat
        /\ Cardinality(Succeeded \cup C) = Cardinality(Succeeded) + Cardinality(C)
    <3>1. C \in SUBSET Queries(t) /\ Succeeded \in SUBSET Queries(t) /\ Succeeded \cap C = {}
      BY <1>2, <1>5, <1>6
    <3>2. QED
      BY <1>1, <3>1, DisjointQueries
  <2>2. Cardinality(Succeeded \cup C) <= Len(results[t])
    BY <1>2, <1>5, <1>8, FS_Subset
  <2>3. QED
    BY <2>1, <2>2
<1>13. Cardinality(S) \in Nat /\ Cardinality(S) <= Cardinality(U)
  <2>1. IsFiniteSet(U)
    BY <1>2, <1>8, FS_Subset
  <2>2. QED
    BY <1>7, <2>1, FS_Subset, FS_CardinalityType
<1>14. OpenError(t) /\ ~Incomplete(t) => Cardinality(Succeeded) = 0 /\ Cardinality(C) = 0
  BY <1>9, FS_EmptySet
<1>15. Len(results[t]) <= cohort.queries /\ (Incomplete(t) \/ Len(results[t]) = cohort.queries)
  BY <1>1 DEF Measured
<1> DEFINE u == Cardinality(U)
           r == Cardinality(R)
           f == Cardinality(F)
           c == Cardinality(C)
           s == Cardinality(S)
           n == Len(results[t])
<1>16. /\ u \in Nat /\ r \in Nat /\ f \in Nat /\ c \in Nat /\ s \in Nat /\ n \in Nat
       /\ n \in 0 .. cohort.queries /\ (Incomplete(t) \/ n = cohort.queries)
       /\ n = u + r + f /\ u + r + c <= n /\ s <= u
       /\ OpenError(t) /\ ~Incomplete(t) => u + r = 0 /\ c = 0
  BY <1>8, <1>10, <1>11, <1>12, <1>13, <1>14, <1>15
<1>17. /\ stats[t].total = n /\ stats[t].failures = f /\ stats[t].truncated = c
       /\ stats[t].usable = u /\ stats[t].resolverFailures = r /\ stats[t].scored = s
       /\ stats[t].successes = u + r
  BY <1>2, <1>3, <1>10
<1> HIDE DEF u, r, f, c, s, n
<1>18. QED
  BY <1>16, <1>17

\* In every reachable state the statistics of a target fit together as Diff
\* assumes of the results it reads (calculateStatistics; resultStatus, compare).
THEOREM StatisticsFit == Spec => []CountsFit
<1>1. VInv => CountsFit
  BY CountsFitHolds
<1>2. QED
  BY <1>1, VerdictsInvariant, PTL
=============================================================================
