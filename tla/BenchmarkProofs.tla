-------------------------- MODULE BenchmarkProofs --------------------------
(***************************************************************************)
(* The benchmark runner, for any number of requests, workers and loads,    *)
(* any buckets and quantiles: the error channel never fills up, a          *)
(* transport is reported by its nearest ranks, and a load from its own     *)
(* samples alone.                                                          *)
(***************************************************************************)
EXTENDS Benchmark, FiniteSetTheorems, TLAPS

-----------------------------------------------------------------------------
\* Products

\* A product of naturals is one.
LEMMA NaturalProduct == \A x, y \in Nat : x * y \in Nat
  OBVIOUS

\* Multiplying by a natural keeps the order.
LEMMA ProductBounds ==
    /\ \A x, y, z \in Nat : x <= y => z * x <= z * y /\ x * z <= y * z
    /\ \A x, y \in Nat \ {0} : x * y \in Nat \ {0}
  OBVIOUS

-----------------------------------------------------------------------------
\* percentile

\* Where element i of s comes when equal elements keep their order.
Ahead(s, i) == {j \in DOMAIN s : s[j] < s[i] \/ (s[j] = s[i] /\ j < i)}
Place(s, i) == Cardinality(Ahead(s, i)) + 1

\* Elements that come earlier in this order have a smaller place.
LEMMA PlacesDiffer ==
    ASSUME NEW n \in Nat \ {0}, NEW s \in [1 .. n -> Nat], NEW i \in 1 .. n, NEW j \in 1 .. n,
           i \in Ahead(s, j)
    PROVE  Place(s, i) < Place(s, j)
  <1>1. IsFiniteSet(1 .. n) /\ Cardinality(1 .. n) = n
    BY FS_Interval
  <1>2. Ahead(s, j) \subseteq 1 .. n /\ Ahead(s, i) \subseteq Ahead(s, j) \ {i}
    BY DEF Ahead
  <1>3. IsFiniteSet(Ahead(s, j)) /\ Cardinality(Ahead(s, j)) \in Nat
    BY Zenon, <1>1, <1>2, FS_Subset, FS_CardinalityType
  <1>4. /\ IsFiniteSet(Ahead(s, j) \ {i})
        /\ Cardinality(Ahead(s, j) \ {i}) = Cardinality(Ahead(s, j)) - 1
    BY Zenon, <1>3, FS_RemoveElement
  <1>5. Cardinality(Ahead(s, i)) <= Cardinality(Ahead(s, j)) - 1
    BY <1>2, <1>4, FS_Subset
  <1>6. Cardinality(Ahead(s, i)) \in Nat
    BY Zenon, <1>2, <1>4, FS_Subset, FS_CardinalityType
  <1> QED
    BY <1>3, <1>5, <1>6 DEF Place

\* Each element has a place of its own.
LEMMA PlacesFill ==
    ASSUME NEW n \in Nat \ {0}, NEW s \in [1 .. n -> Nat]
    PROVE  [i \in 1 .. n |-> Place(s, i)] \in Bijection(1 .. n, 1 .. n)
  <1> DEFINE f == [i \in 1 .. n |-> Place(s, i)]
  <1>1. IsFiniteSet(1 .. n) /\ Cardinality(1 .. n) = n
    BY FS_Interval
  <1>2. ASSUME NEW i \in 1 .. n PROVE Place(s, i) \in 1 .. n
    <2>1. Ahead(s, i) \subseteq (1 .. n) \ {i}
      BY DEF Ahead
    <2>2. IsFiniteSet((1 .. n) \ {i}) /\ Cardinality((1 .. n) \ {i}) = n - 1
      BY ZenonT(40), <1>1, FS_RemoveElement
    <2>3. Cardinality(Ahead(s, i)) \in Nat /\ Cardinality(Ahead(s, i)) <= n - 1
      BY <2>1, <2>2, FS_Subset, FS_CardinalityType
    <2> QED
      BY <2>3 DEF Place
  <1>3. f \in [1 .. n -> 1 .. n]
    BY Zenon, <1>2
  <1>4. ASSUME NEW i \in 1 .. n, NEW j \in 1 .. n, i # j PROVE f[i] # f[j]
    <2>1. i \in Ahead(s, j) \/ j \in Ahead(s, i)
      BY <1>4 DEF Ahead
    <2>2. Place(s, i) < Place(s, j) \/ Place(s, j) < Place(s, i)
      BY Zenon, <2>1, PlacesDiffer
    <2> QED
      BY <1>2, <2>2
  <1>5. f \in Injection(1 .. n, 1 .. n)
    BY Zenon, <1>3, <1>4 DEF Injection, IsInjective
  <1>6. f \in Surjection(1 .. n, 1 .. n)
    BY <1>1, <1>5, FS_Injection
  <1> QED
    BY Zenon, <1>5, <1>6 DEF Bijection

\* What sort.Slice leaves in the slice: its elements, permuted, in ascending order.
IsSorted(s, t) ==
    /\ t \in [DOMAIN s -> {s[i] : i \in DOMAIN s}]
    /\ \A i, j \in DOMAIN s : i < j => t[i] <= t[j]
    /\ \E p \in Bijection(DOMAIN s, DOMAIN s) : \A i \in DOMAIN s : t[i] = s[p[i]]

\* Every slice can be sorted.
LEMMA SortedIsSorted ==
    ASSUME NEW n \in Nat \ {0}, NEW s \in [1 .. n -> Nat]
    PROVE  IsSorted(s, Sorted(s))
  <1> DEFINE f == [i \in 1 .. n |-> Place(s, i)]
             p == [k \in 1 .. n |-> CHOOSE i \in 1 .. n : f[i] = k]
             t == [k \in 1 .. n |-> s[p[k]]]
  <1>1. f \in Bijection(1 .. n, 1 .. n)
    BY Zenon, PlacesFill
  <1>2. /\ \A i \in 1 .. n : f[i] \in 1 .. n
        /\ \A i, j \in 1 .. n : f[i] = f[j] => i = j
        /\ \A k \in 1 .. n : \E i \in 1 .. n : f[i] = k
    <2> HIDE DEF f
    <2> QED
      BY Zenon, <1>1 DEF Bijection, Injection, Surjection, IsInjective
  <1>3. \A k \in 1 .. n : p[k] \in 1 .. n /\ f[p[k]] = k
    <2> HIDE DEF f
    <2> QED
      BY Zenon, <1>2
  <1>4. \A i \in 1 .. n : p[f[i]] = i
    <2> HIDE DEF f, p
    <2> QED
      BY Zenon, <1>2, <1>3
  <1>5. p \in Bijection(1 .. n, 1 .. n)
    <2>1. p \in [1 .. n -> 1 .. n]
      BY Zenon, <1>3
    <2> HIDE DEF f, p
    <2>2. \A k, l \in 1 .. n : p[k] = p[l] => k = l
      BY Zenon, <1>3
    <2>3. \A i \in 1 .. n : \E k \in 1 .. n : p[k] = i
      BY Zenon, <1>2, <1>4
    <2> QED
      BY Zenon, <2>1, <2>2, <2>3 DEF Bijection, Injection, Surjection, IsInjective
  <1>6. ASSUME NEW k \in 1 .. n, NEW l \in 1 .. n, k < l PROVE t[k] <= t[l]
    <2>1. p[k] \in 1 .. n /\ p[l] \in 1 .. n /\ Place(s, p[k]) = k /\ Place(s, p[l]) = l
      BY Zenon, <1>3
    <2> HIDE DEF f, p
    <2>2. p[l] \notin Ahead(s, p[k])
      <3>1. p[l] \in Ahead(s, p[k]) => l < k
        BY Zenon, <2>1, PlacesDiffer
      <3> QED
        BY <1>6, <3>1
    <2>3. ~(s[p[l]] < s[p[k]])
      BY Zenon, <2>1, <2>2 DEF Ahead
    <2> QED
      BY <2>1, <2>3
  <1>7. IsSorted(s, t)
    <2>1. \A k \in 1 .. n : t[k] = s[p[k]]
      BY Zenon
    <2>2. t \in [1 .. n -> {s[i] : i \in 1 .. n}]
      <3>1. \A k \in 1 .. n : p[k] \in 1 .. n
        BY Zenon, <1>3
      <3> HIDE DEF p
      <3>2. \A k \in 1 .. n : s[p[k]] \in {s[i] : i \in 1 .. n}
        BY Zenon, <3>1
      <3> QED
        BY Zenon, <3>2
    <2> HIDE DEF f, p, t
    <2> QED
      BY Zenon, <1>5, <1>6, <2>1, <2>2 DEF IsSorted
  <1> HIDE DEF t
  <1> QED
    BY <1>7, Zenon DEF IsSorted, Sorted

\* The positions of s whose elements are in V.
Within(n, s, V) == {i \in 1 .. n : s[i] \in V}

\* As many elements satisfy a bound before sorting as after.
LEMMA SortingKeepsCounts ==
    ASSUME NEW n \in Nat \ {0}, NEW s \in [1 .. n -> Nat], NEW t, IsSorted(s, t)
    PROVE  \A V : Cardinality(Within(n, s, V)) = Cardinality(Within(n, t, V))
  <1> TAKE V
  <1> DEFINE S == {i \in 1 .. n : s[i] \in V}
             T == {i \in 1 .. n : t[i] \in V}
  <1>1. PICK p \in Bijection(1 .. n, 1 .. n) : \A i \in 1 .. n : t[i] = s[p[i]]
    BY Zenon DEF IsSorted
  <1>2. /\ \A i \in 1 .. n : p[i] \in 1 .. n
        /\ \A i, j \in 1 .. n : p[i] = p[j] => i = j
        /\ \A k \in 1 .. n : \E i \in 1 .. n : p[i] = k
    <2>1. p \in [1 .. n -> 1 .. n] /\ IsInjective(p)
      BY Zenon, <1>1 DEF Bijection, Injection
    <2>2. \A k \in 1 .. n : \E i \in 1 .. n : p[i] = k
      BY Zenon, <1>1 DEF Bijection, Surjection
    <2> QED
      BY Zenon, <2>1, <2>2 DEF IsInjective
  <1> DEFINE g == [i \in T |-> p[i]]
  <1>3. g \in [T -> S]
    BY Zenon, <1>1, <1>2
  <1>4. \A i, j \in T : g[i] = g[j] => i = j
    BY Zenon, <1>2
  <1>5. ASSUME NEW k \in S PROVE \E i \in T : g[i] = k
    <2>1. PICK i \in 1 .. n : p[i] = k
      BY Zenon, <1>2
    <2>2. i \in T /\ g[i] = k
      BY Zenon, <1>1, <2>1
    <2> QED
      BY Zenon, <2>2
  <1>6. g \in Bijection(T, S)
    <2> HIDE DEF g, T, S
    <2> QED
      BY Zenon, <1>3, <1>4, <1>5 DEF Bijection, Injection, Surjection, IsInjective
  <1>7. IsFiniteSet(T)
    <2>1. IsFiniteSet(1 .. n) /\ T \in SUBSET (1 .. n)
      BY FS_Interval
    <2> QED
      BY Zenon, <2>1, FS_Subset
  <1> HIDE DEF g, T, S
  <1>8. Cardinality(S) = Cardinality(T)
    BY Zenon, <1>6, <1>7, FS_Bijection DEF ExistsBijection
  <1> QED
    BY Zenon, <1>8 DEF S, T, Within

\* A subset of an interval has a cardinality, which its bounds limit.
LEMMA CountsInInterval ==
    ASSUME NEW m \in Nat, NEW S, S \subseteq 1 .. m
    PROVE  Cardinality(S) \in Nat /\ Cardinality(S) <= m
  <1>1. IsFiniteSet(1 .. m) /\ Cardinality(1 .. m) = m
    BY FS_Interval
  <1>2. IsFiniteSet(S) /\ Cardinality(S) <= m
    BY Zenon, <1>1, FS_Subset
  <1> QED
    BY Zenon, <1>2, FS_CardinalityType

\* The index that percentile computes is in range, and is the nearest rank.
LEMMA RankInRange ==
    ASSUME NEW n \in Nat \ {0}, NEW q \in 1 .. 100, NEW r, r = (q * n + 99) \div 100
    PROVE  r \in 1 .. n /\ 100 * r >= q * n /\ 100 * (r - 1) < q * n
  <1>0. q \in Nat \ {0} /\ q <= 100 /\ 100 \in Nat
    OBVIOUS
  <1>a. q * n \in Nat \ {0} /\ q * n <= 100 * n
    BY Zenon, <1>0, ProductBounds
  <1>1. PICK x \in Nat \ {0} : x = q * n
    BY Zenon, <1>a
  <1>2. x >= 1 /\ x <= 100 * n
    BY <1>1, <1>a
  <1> QED
    BY <1>1, <1>2

\* v is the smallest element of s that at least q percent of them do not exceed.
NearestRank(n, s, q, v) ==
    /\ \E i \in 1 .. n : s[i] = v
    /\ 100 * Cardinality(Within(n, s, 0 .. v)) >= q * n
    /\ 100 * Cardinality(Within(n, s, 0 .. (v - 1))) < q * n

\* percentile returns the smallest element that at least q percent do not exceed.
LEMMA PercentileIsNearestRank ==
    ASSUME NEW n \in Nat \ {0}, NEW s \in [1 .. n -> Nat], NEW q \in 1 .. 100,
           NEW v, v = Percentile(s, q)
    PROVE  NearestRank(n, s, q, v)
  <1> DEFINE AtMostOf(u, w) == {i \in 1 .. n : u[i] \in 0 .. w}
  <1>0. PICK r : r = (q * n + 99) \div 100
    BY Zenon
  <1>1. PICK t : t = Sorted(s)
    BY Zenon
  <1>2. IsSorted(s, t)
    BY Zenon, <1>1, SortedIsSorted
  <1>3. r \in 1 .. n /\ 100 * r >= q * n /\ 100 * (r - 1) < q * n
    BY ZenonT(40), <1>0, RankInRange
  <1>r. r \in 1 .. n
    BY Zenon, <1>3
  <1>4. Len(s) = n
    OBVIOUS
  <1>5. v = t[r]
    BY Zenon, <1>0, <1>1, <1>4 DEF Percentile
  <1>6. \A i \in 1 .. n : \E j \in 1 .. n : t[i] = s[j]
    BY <1>2 DEF IsSorted
  <1>n. \A i \in 1 .. n : t[i] \in Nat
    BY Zenon, <1>6
  <1>7. \A i, j \in 1 .. n : i < j => t[i] <= t[j]
    BY Zenon, <1>2 DEF IsSorted
  <1>8. Cardinality(AtMostOf(t, v)) \in Nat /\ Cardinality(AtMostOf(t, v)) >= r
    <2>0. ASSUME NEW i \in 1 .. r PROVE i \in 1 .. n /\ t[i] \in 0 .. v
      BY <1>r, <1>5, <1>n, <1>7
    <2>1. 1 .. r \subseteq AtMostOf(t, v) /\ AtMostOf(t, v) \subseteq 1 .. n
      BY Zenon, <2>0
    <2>2. IsFiniteSet(1 .. n) /\ Cardinality(1 .. r) = r
      BY <1>3, FS_Interval
    <2> HIDE DEF AtMostOf
    <2>3. IsFiniteSet(AtMostOf(t, v))
      BY Zenon, <2>1, <2>2, FS_Subset
    <2>4. Cardinality(1 .. r) <= Cardinality(AtMostOf(t, v))
      BY Zenon, <2>1, <2>3, FS_Subset
    <2> QED
      BY Zenon, <1>3, <2>2, <2>3, <2>4, FS_CardinalityType
  <1>9. Cardinality(AtMostOf(t, v - 1)) \in Nat /\ Cardinality(AtMostOf(t, v - 1)) <= r - 1
    <2>0. ASSUME NEW i \in 1 .. n, t[i] \in 0 .. (v - 1) PROVE i \in 1 .. (r - 1)
      BY <1>r, <1>5, <1>n, <1>7, <2>0
    <2>1. AtMostOf(t, v - 1) \subseteq 1 .. (r - 1)
      BY Zenon, <2>0
    <2> QED
      BY <1>3, <2>1, CountsInInterval
  <1>10. \A w : Cardinality(AtMostOf(s, w)) = Cardinality(AtMostOf(t, w))
    <2>1. \A V : Cardinality(Within(n, s, V)) = Cardinality(Within(n, t, V))
      BY Zenon, <1>2, SortingKeepsCounts
    <2> QED
      BY Zenon, <2>1 DEF Within
  <1>11. PICK x \in Nat : x = q * n
    <2>1. q \in Nat
      OBVIOUS
    <2> QED
      BY Zenon, <2>1, NaturalProduct
  <1> HIDE DEF AtMostOf
  <1>12. /\ 100 * Cardinality(AtMostOf(s, v)) >= q * n
         /\ 100 * Cardinality(AtMostOf(s, v - 1)) < q * n
    BY <1>3, <1>8, <1>9, <1>10, <1>11
  <1> QED
    BY Zenon, <1>r, <1>5, <1>6, <1>12 DEF NearestRank, AtMostOf, Within

-----------------------------------------------------------------------------
\* histogramQuantile

\* The natural numbers are well-founded, so a set of them has a least element.
LEMMA LeastIsMin ==
    ASSUME NEW S \in SUBSET Nat, S # {}
    PROVE  Min(S) \in S /\ \A y \in S : Min(S) <= y
  <1> DEFINE R == {ss \in Nat \X Nat : ss[1] < ss[2]}
  <1>1. IsWellFoundedOn(R, Nat)
    BY Zenon, NatLessThanWellFounded DEF OpToRel
  <1>2. PICK x \in S : \A y \in S : <<y, x>> \notin R
    BY Zenon, <1>1, WFMin
  <1>3. \A y \in S : ~(y < x)
    BY Zenon, <1>2
  <1>4. \A y \in S : x <= y
    BY <1>3
  <1> QED
    BY Zenon, <1>4 DEF Min

\* A point a / w of the way from lo to hi.
LEMMA Interpolation ==
    ASSUME NEW lo \in Nat, NEW hi \in Nat, NEW a \in Nat, NEW w \in Nat, lo <= hi, a <= w
    PROVE  /\ lo * w + (hi - lo) * a \in Nat
           /\ lo * w <= lo * w + (hi - lo) * a
           /\ lo * w + (hi - lo) * a <= hi * w
  <1>1. PICK d \in Nat : hi = lo + d /\ d = hi - lo
    OBVIOUS
  <1>2. d * a \in Nat /\ d * w \in Nat /\ lo * w \in Nat /\ d * a <= d * w
    BY Zenon, NaturalProduct, ProductBounds
  <1>3. hi * w = lo * w + d * w
    BY <1>1
  <1>4. PICK x \in Nat, y \in Nat, z \in Nat : x = d * a /\ y = d * w /\ z = lo * w
    BY Zenon, <1>2
  <1>5. z + x \in Nat /\ z <= z + x /\ z + x <= z + y
    BY <1>2, <1>4
  <1> QED
    BY Zenon, <1>1, <1>3, <1>4, <1>5

\* The buckets, and the bounds between them.
LEMMA BucketsBounds ==
    /\ Inf \in Nat /\ Inf >= 2 /\ Buckets = 1 .. Inf
    /\ \A b \in Buckets : BoundBelow(b) \in Nat
    /\ \A b \in Buckets \ {Inf} : Bounds[b] \in Nat /\ BoundBelow(b) <= Bounds[b]
  <1>1. /\ Len(Bounds) \in Nat \ {0} /\ \A b \in 1 .. Len(Bounds) : Bounds[b] \in Nat \ {0}
        /\ \A b \in 2 .. Len(Bounds) : Bounds[b - 1] < Bounds[b]
    BY BenchmarkAssumption
  <1> QED
    BY <1>1 DEF Inf, Buckets, BoundBelow

\* histogramQuantile returns a fraction, with denominator zero if there are no samples.
LEMMA QuantileTyped ==
    ASSUME NEW h \in [Buckets -> Nat], NEW q \in 1 .. 100
    PROVE  HistogramQuantile(h, q) \in [num : Int, den : Int]
  <1> DEFINE S == {x \in Buckets : 100 * h[x] >= q * h[Inf]}
  <1>1. Inf \in Buckets /\ Buckets \subseteq Nat /\ h[Inf] \in Nat /\ q \in Nat /\ q <= 100
    BY BucketsBounds
  <1>2. q * h[Inf] \in Nat /\ 100 * h[Inf] >= q * h[Inf]
    BY <1>1, ProductBounds
  <1>3. S # {} /\ S \in SUBSET Nat
    BY Zenon, <1>1, <1>2
  <1>4. PICK b \in Buckets : b = Min(S)
    BY Zenon, <1>3, LeastIsMin
  <1>5. PICK c \in Int : c = CountBelow(h, b)
    BY <1>1, BucketsBounds DEF CountBelow
  <1>6. PICK lo \in Int : lo = BoundBelow(b)
    BY BucketsBounds
  <1>7. PICK w \in Int : w = 100 * (h[b] - c)
    OBVIOUS
  <1>8. PICK a \in Int : a = q * h[Inf] - 100 * c
    BY <1>2
  <1>9. CASE b = Inf
    <2>1. HistogramQuantile(h, q) = [num |-> lo, den |-> 1]
      BY Zenon, <1>4, <1>6, <1>9 DEF HistogramQuantile
    <2> QED
      BY <2>1
  <1>10. CASE b # Inf
    <2>1. PICK hi \in Int : hi = Bounds[b]
      BY <1>10, BucketsBounds
    <2>2. HistogramQuantile(h, q) = [num |-> lo * w + (hi - lo) * a, den |-> w]
      BY ZenonT(40), <1>4, <1>5, <1>6, <1>7, <1>8, <1>10, <2>1 DEF HistogramQuantile
    <2> QED
      BY <2>2
  <1> QED
    BY Zenon, <1>9, <1>10

\* histogramQuantile returns a point of the bucket that holds the sample of rank q.
LEMMA QuantileInBucket ==
    ASSUME NEW h \in [Buckets -> Nat], h[Inf] > 0, NEW q \in 1 .. 100
    PROVE  InBucketOfRank(HistogramQuantile(h, q), h, q)
  <1> DEFINE S == {x \in Buckets : 100 * h[x] >= q * h[Inf]}
  <1>0. Inf \in Buckets /\ Buckets \subseteq Nat /\ h[Inf] \in Nat \ {0} /\ q \in Nat \ {0}
    BY BucketsBounds
  <1>1. PICK k \in Nat \ {0} : k = q * h[Inf]
    BY Zenon, <1>0, ProductBounds
  <1>2. k <= 100 * h[Inf]
    BY <1>0, <1>1, ProductBounds
  <1>3. S # {} /\ S \in SUBSET Nat
    BY Zenon, <1>0, <1>1, <1>2
  <1>4. PICK b : b = Min(S)
    BY Zenon
  <1>5. b \in Buckets /\ 100 * h[b] >= k /\ \A y \in Buckets : 100 * h[y] >= k => b <= y
    <2>1. b \in S /\ \A y \in S : b <= y
      BY Zenon, <1>3, <1>4, LeastIsMin
    <2> QED
      BY Zenon, <1>1, <2>1
  <1>6. PICK c \in Nat : c = CountBelow(h, b) /\ 100 * c < k
    <2>1. CASE b = 1
      BY <2>1 DEF CountBelow
    <2>2. CASE b # 1
      <3>1. b - 1 \in Buckets /\ ~(b <= b - 1)
        BY <1>5, <2>2, BucketsBounds
      <3>2. h[b - 1] \in Nat /\ ~(100 * h[b - 1] >= k)
        BY Zenon, <1>5, <3>1
      <3>3. 100 * h[b - 1] < k
        BY <3>2
      <3> QED
        BY Zenon, <2>2, <3>2, <3>3 DEF CountBelow
    <2> QED
      BY Zenon, <2>1, <2>2
  <1>7. PICK w \in Nat \ {0} : w = 100 * (h[b] - c)
    BY <1>5, <1>6
  <1>8. PICK a \in Nat : a = k - 100 * c /\ a <= w
    BY <1>5, <1>6, <1>7
  <1>9. PICK lo \in Nat : lo = BoundBelow(b)
    BY Zenon, <1>5, BucketsBounds
  <1>10. PICK f : f = HistogramQuantile(h, q)
    BY Zenon
  <1>11. CASE b = Inf
    <2>1. f = [num |-> lo, den |-> 1]
      BY Zenon, <1>4, <1>9, <1>10, <1>11 DEF HistogramQuantile
    <2>2. lo * 1 <= lo
      BY <1>9
    <2>3. f.den > 0 /\ lo * f.den <= f.num
      BY <2>1, <2>2
    <2> QED
      BY Zenon, <1>1, <1>5, <1>6, <1>9, <1>10, <1>11, <2>3 DEF InBucketOfRank
  <1>12. CASE b # Inf
    <2>1. PICK hi \in Nat : hi = Bounds[b] /\ lo <= hi
      BY Zenon, <1>5, <1>9, <1>12, BucketsBounds
    <2>2. f = [num |-> lo * w + (hi - lo) * a, den |-> w]
      BY ZenonT(40), <1>1, <1>4, <1>6, <1>7, <1>8, <1>9, <1>10, <1>12, <2>1 DEF HistogramQuantile
    <2>3. PICK x \in Nat : x = lo * w + (hi - lo) * a /\ lo * w <= x /\ x <= hi * w
      <3>1. w \in Nat
        BY Zenon
      <3>2. /\ lo * w + (hi - lo) * a \in Nat
            /\ lo * w <= lo * w + (hi - lo) * a /\ lo * w + (hi - lo) * a <= hi * w
        BY ZenonT(40), <1>8, <2>1, <3>1, Interpolation
      <3> QED
        BY Zenon, <3>2
    <2>4. f.den = w /\ f.num = x /\ f.den > 0
      BY <2>2, <2>3
    <2> QED
      BY Zenon, <1>1, <1>5, <1>6, <1>9, <1>10, <2>1, <2>3, <2>4 DEF InBucketOfRank
  <1> QED
    BY Zenon, <1>11, <1>12

-----------------------------------------------------------------------------
\* The inductive invariant

Busy == {w \in Workers : job[w] # 0}

Early == {"warm", "dispatch", "join"}

PoolTypes ==
    /\ pc \in Early \cup {"scrape", "send", "drain", "report", "done", "failed"}
    /\ warmed \in 0 .. WarmUps /\ (pc = "warm" => warmed < WarmUps)
    /\ index \in 1 .. Requests + 1
    /\ job \in [Workers -> 0 .. Requests]
    /\ failing \subseteq Workers
    /\ latencies \in [1 .. Requests -> Durations \cup {-1}]

\* An error in the channel, one about to be put there and a request under way each
\* belong to a request of their own.
Places ==
    /\ IsFiniteSet(failing) /\ IsFiniteSet(Busy) /\ errs \in Nat
    /\ errs + Cardinality(failing) + Cardinality(Busy) < index

\* A request that was dispatched is under way or measured.  The pool is at work while
\* main dispatches and joins, and the report comes afterwards.
Measured ==
    /\ \A i \in 1 .. index - 1 : latencies[i] \in Durations \/ \E w \in Workers : job[w] = i
    /\ pc = "join" => index = Requests + 1
    /\ pc \notin {"dispatch", "join"} => \A w \in Workers : job[w] = 0
    /\ pc \in Early => percentiles = [q \in {} |-> 0]

PoolInv == PoolTypes /\ Places /\ Measured /\ TransportIsNearestRank

Cumulative(h) == \A b, c \in Buckets : b <= c => h[b] <= h[c]

LoadTypes ==
    /\ load \in 1 .. Len(Loads) + 1
    /\ sent \in Nat /\ transit \in [DOMAIN Loads -> Nat] /\ strangers \in Nat /\ resets \in Nat
    /\ before \in [Buckets -> Nat] /\ after \in [Buckets -> Nat]
    /\ hist \in [Buckets -> Nat] /\ own \in [Buckets -> Nat]
    /\ results \in Seq([Quantiles -> [num : Int, den : Int]])

\* A load is under way until the last one is reported, and its events are sent before
\* the wait for samples begins.
Loading ==
    /\ pc \notin {"done", "failed"} => load \in 1 .. Len(Loads)
    /\ pc = "send" => sent <= Loads[load]
    /\ pc \in {"drain", "report"} => sent = Loads[load]

\* The histogram has grown by the samples of this load, or was reset since: then it
\* lacks some of them.
Grown == \A b \in Buckets : hist[b] = before[b] + own[b]
Lacking ==
    /\ \A b \in Buckets : hist[b] <= own[b]
    /\ \A b, c \in Buckets : b <= c => own[b] - hist[b] <= own[c] - hist[c]

NoneInTransit == \A l \in DOMAIN Loads : transit[l] = 0

\* The events in transit are of the current load, which has sent what was sampled too.
OwnInTransit ==
    /\ \A l \in DOMAIN Loads : l # load => transit[l] = 0
    /\ own[Inf] + transit[load] <= sent

\* When nobody else feeds the pipeline, a load begins with no event in transit, and
\* every sample is of one of its events.
Window ==
    /\ Cumulative(before) /\ Cumulative(hist) /\ Cumulative(own)
    /\ strangers = 0 /\ pc \in Early \cup {"scrape"} => NoneInTransit
    /\ strangers = 0 /\ pc \in {"send", "drain"} =>
           OwnInTransit /\ (Grown \/ Lacking)
    /\ strangers = 0 /\ pc = "report" =>
           NoneInTransit /\ \A b \in Buckets : after[b] - before[b] = own[b]

LoadInv == LoadTypes /\ Loading /\ Window

-----------------------------------------------------------------------------
\* The kinds of steps

\* Steps of benchmarkTransport, of benchmarkPipeline, and of the pipeline itself.
PoolStep ==
    /\ UNCHANGED <<pipeline, transit, own, strangers, resets>>
    /\ \/ hist' = hist
       \/ (pc = "warm" \/ Busy # {}) /\ \E b \in Buckets : hist' = Observe(hist, b)
    /\ pc' = pc \/ (pc \in Early /\ pc' \in {"dispatch", "join", "scrape", "failed"})
    /\ \/ /\ UNCHANGED <<index, job, failing, errs, latencies, percentiles>>
          /\ pc = "warm" /\ pc' \in {"warm", "dispatch", "failed"}
          /\ \/ UNCHANGED warmed
             \/ warmed' = warmed + 1 /\ pc' = IF warmed' = WarmUps THEN "dispatch" ELSE "warm"
       \/ CloseJobs \/ Join \/ \E w \in Workers : Dispatch(w) \/ Worker(w)

LoadStep ==
    /\ UNCHANGED transport
    /\ pc \notin Early /\ pc' \in {"scrape", "send", "drain", "report", "done", "failed"}
    /\ \/ ScrapeBefore \/ SendEvent \/ SendEnds \/ ScrapeAfter \/ Report
       \/ pc' = "failed" /\ UNCHANGED <<pipeline, world>>

WorldStep == World /\ UNCHANGED <<pc, transport, pipeline>>

\* Every step is of one of these kinds.
LEMMA StepKinds ==
    ASSUME [Next]_vars
    PROVE  PoolStep \/ LoadStep \/ WorldStep \/ UNCHANGED vars
  <1>1. ASSUME NEW w \in Workers, Dispatch(w) \/ PushError(w) PROVE PoolStep
    BY Zenon, <1>1 DEF PoolStep, Dispatch, Worker, PushError, world
  <1>1a. ASSUME NEW w \in Workers, NEW d \in Durations, NEW ok \in BOOLEAN,
                NEW b \in SampledIn(d), Send(w, d, b, ok)
         PROVE  PoolStep
    <2>1. /\ UNCHANGED <<pc, pipeline, transit, own, strangers, resets>> /\ job[w] # 0
          /\ hist' = hist \/ hist' = Observe(hist, b)
      BY Zenon, <1>1a DEF Send
    <2>2. Busy # {} /\ b \in Buckets /\ Worker(w)
      BY Zenon, <1>1a, <2>1 DEF Busy, SampledIn, Worker
    <2> QED
      BY Zenon, <2>1, <2>2 DEF PoolStep
  <1>2. CASE CloseJobs
    BY Zenon, <1>2 DEF PoolStep, CloseJobs, Early, world
  <1>3. CASE Join
    BY Zenon, <1>3 DEF PoolStep, Join, Early, world
  <1>4. CASE Fail("warm")
    BY Zenon, <1>4 DEF PoolStep, Fail, Early, transport, world
  <1>4a. ASSUME NEW d \in Durations, NEW b \in SampledIn(d), WarmUp(b) PROVE PoolStep
    <2>1. /\ UNCHANGED <<index, job, failing, errs, latencies, percentiles>>
          /\ UNCHANGED <<pipeline, transit, own, strangers, resets>>
          /\ pc = "warm" /\ warmed' = warmed + 1 /\ hist' = Observe(hist, b)
          /\ pc' = IF warmed' = WarmUps THEN "dispatch" ELSE "warm"
      BY Zenon, <1>4a DEF WarmUp
    <2>2. b \in Buckets
      BY Zenon DEF SampledIn
    <2> QED
      BY Zenon, <2>1, <2>2 DEF PoolStep, Early
  <1>5. CASE ScrapeBefore
    BY Zenon, <1>5 DEF LoadStep, ScrapeBefore, Early
  <1>6. CASE SendEvent
    BY Zenon, <1>6 DEF LoadStep, SendEvent, Early
  <1>7. CASE SendEnds
    BY Zenon, <1>7 DEF LoadStep, SendEnds, Early
  <1>8. CASE ScrapeAfter
    BY Zenon, <1>8 DEF LoadStep, ScrapeAfter, Early
  <1>9. CASE Report
    BY Zenon, <1>9 DEF LoadStep, Report, Early
  <1>10. CASE Fail("scrape") \/ Fail("send") \/ DrainTimesOut
    BY Zenon, <1>10 DEF LoadStep, Fail, DrainTimesOut, Early
  <1>11. CASE World
    BY Zenon, <1>11 DEF WorldStep, World, LoseEvent, AggregatorRestart, Sample, StrangerSample
  <1>12. CASE Exited
    BY Zenon, <1>12 DEF Exited
  <1> QED
    BY Zenon, <1>1, <1>1a, <1>2, <1>3, <1>4, <1>4a, <1>5, <1>6, <1>7, <1>8, <1>9, <1>10,
       <1>11, <1>12 DEF Next, Runner, Worker

-----------------------------------------------------------------------------
\* benchmarkTransport

\* The pool is idle when the runner starts.
LEMMA PoolInit == Init => PoolInv
  <1> SUFFICES ASSUME Init PROVE PoolInv
    BY Zenon
  <1>1. PoolTypes /\ Measured /\ failing = {} /\ Busy = {} /\ errs = 0 /\ index = 1
    BY BenchmarkAssumption DEF Init, PoolTypes, Early, Measured, Busy
  <1>2. Places
    BY <1>1, FS_EmptySet DEF Places
  <1>3. TransportIsNearestRank
    BY Zenon DEF Init, TransportIsNearestRank
  <1> QED
    BY Zenon, <1>1, <1>2, <1>3 DEF PoolInv

\* Steps of the pool keep the types.
LEMMA PoolTypesStep ==
    ASSUME PoolTypes, PoolStep
    PROVE  PoolTypes'
  <1>1. CASE UNCHANGED <<warmed, index, job, failing, latencies>>
    BY Zenon, <1>1 DEF PoolStep, PoolTypes, Early
  <1>1a. CASE /\ UNCHANGED <<index, job, failing, latencies>> /\ pc = "warm"
              /\ warmed' = warmed + 1 /\ pc' = IF warmed' = WarmUps THEN "dispatch" ELSE "warm"
    <2>1. warmed' \in 0 .. WarmUps /\ (pc' = "warm" => warmed' < WarmUps)
      BY <1>1a, BenchmarkAssumption DEF PoolTypes
    <2> QED
      BY Zenon, <1>1a, <2>1 DEF PoolTypes, Early
  <1>2. ASSUME NEW w \in Workers, Dispatch(w) PROVE PoolTypes'
    BY <1>2, BenchmarkAssumption DEF Dispatch, PoolTypes
  <1>3. ASSUME NEW w \in Workers, NEW d \in Durations, NEW ok \in BOOLEAN, NEW b,
               Send(w, d, b, ok)
        PROVE  PoolTypes'
    <2>1. UNCHANGED <<pc, warmed, index>> /\ failing' \in {failing, failing \cup {w}}
      BY Zenon, <1>3 DEF Send
    <2>2. job' \in [Workers -> 0 .. Requests]
      BY <1>3, BenchmarkAssumption DEF Send, PoolTypes
    <2>3. latencies' \in [1 .. Requests -> Durations \cup {-1}]
      BY Zenon, <1>3 DEF Send, PoolTypes
    <2> QED
      BY Zenon, <2>1, <2>2, <2>3 DEF PoolTypes
  <1>4. ASSUME NEW w \in Workers, PushError(w) PROVE PoolTypes'
    BY Zenon, <1>4 DEF PushError, PoolTypes
  <1> QED
    BY Zenon, <1>1, <1>1a, <1>2, <1>3, <1>4 DEF PoolStep, transport, CloseJobs, Join, Worker

\* Steps of the pool leave a place in the error channel for every error to come.
LEMMA PlacesStep ==
    ASSUME PoolTypes, Places, PoolStep
    PROVE  Places'
  <1>0. /\ IsFiniteSet(failing) /\ IsFiniteSet(Busy) /\ errs \in Nat /\ index \in Nat
        /\ Cardinality(failing) \in Nat /\ Cardinality(Busy) \in Nat
        /\ errs + Cardinality(failing) + Cardinality(Busy) < index
    BY FS_CardinalityType DEF Places, PoolTypes
  <1>1. CASE UNCHANGED <<index, job, failing, errs>>
    BY Zenon, <1>1 DEF Places, Busy
  <1>2. ASSUME NEW w \in Workers, Dispatch(w) PROVE Places'
    <2>1. /\ index' = index + 1 /\ UNCHANGED <<failing, errs>>
          /\ job' = [job EXCEPT ![w] = index] /\ job[w] = 0 /\ index # 0
      BY <1>2 DEF Dispatch, PoolTypes
    <2>2. Busy' = Busy \cup {w} /\ w \notin Busy
      BY Zenon, <2>1 DEF Busy, PoolTypes
    <2>3. IsFiniteSet(Busy') /\ Cardinality(Busy') = Cardinality(Busy) + 1
      BY Zenon, <1>0, <2>2, FS_AddElement
    <2> QED
      BY <1>0, <2>1, <2>3 DEF Places
  <1>3. ASSUME NEW w \in Workers, NEW d \in Durations, NEW ok \in BOOLEAN, NEW b,
               Send(w, d, b, ok)
        PROVE  Places'
    <2>1. /\ UNCHANGED <<index, errs>> /\ failing' \in {failing, failing \cup {w}}
          /\ job' = [job EXCEPT ![w] = 0] /\ job[w] # 0
      BY Zenon, <1>3 DEF Send
    <2>2. Busy' = Busy \ {w} /\ w \in Busy
      BY Zenon, <2>1 DEF Busy, PoolTypes
    <2>3. IsFiniteSet(Busy') /\ Cardinality(Busy') = Cardinality(Busy) - 1
      BY Zenon, <1>0, <2>2, FS_RemoveElement
    <2>4. /\ IsFiniteSet(failing') /\ Cardinality(failing') \in Nat
          /\ Cardinality(failing') <= Cardinality(failing) + 1
      <3>1. /\ IsFiniteSet(failing \cup {w})
            /\ Cardinality(failing \cup {w}) = IF w \in failing THEN Cardinality(failing)
                                               ELSE Cardinality(failing) + 1
        BY Zenon, <1>0, FS_AddElement
      <3>2. CASE failing' = failing
        BY <1>0, <3>2
      <3>3. CASE failing' = failing \cup {w}
        BY <1>0, <3>1, <3>3
      <3> QED
        BY Zenon, <2>1, <3>2, <3>3
    <2> QED
      BY <1>0, <2>1, <2>3, <2>4 DEF Places
  <1>4. ASSUME NEW w \in Workers, PushError(w) PROVE Places'
    <2>1. /\ UNCHANGED <<index, job>> /\ errs' = errs + 1 /\ failing' = failing \ {w}
          /\ w \in failing
      BY Zenon, <1>4 DEF PushError
    <2>2. Busy' = Busy
      BY Zenon, <2>1 DEF Busy
    <2>3. IsFiniteSet(failing') /\ Cardinality(failing') = Cardinality(failing) - 1
      BY Zenon, <1>0, <2>1, FS_RemoveElement
    <2> QED
      BY <1>0, <2>1, <2>2, <2>3 DEF Places
  <1> QED
    BY Zenon, <1>1, <1>2, <1>3, <1>4 DEF PoolStep, transport, CloseJobs, Join, Worker

\* Steps of the pool lose no request.
LEMMA MeasuredStep ==
    ASSUME PoolTypes, Measured, PoolStep
    PROVE  Measured'
  <1>1. ASSUME NEW w \in Workers, Dispatch(w) PROVE Measured'
    <2>1. /\ pc = "dispatch" /\ index' = index + 1 /\ UNCHANGED <<pc, latencies, percentiles>>
          /\ job' = [job EXCEPT ![w] = index] /\ job[w] = 0
      BY Zenon, <1>1 DEF Dispatch
    <2>2. ASSUME NEW i \in 1 .. index' - 1
          PROVE  latencies'[i] \in Durations \/ \E u \in Workers : job'[u] = i
      <3>1. CASE i = index
        BY Zenon, <2>1, <3>1 DEF PoolTypes
      <3>2. CASE i # index
        <4>1. i \in 1 .. index - 1 /\ i # 0
          BY <2>1, <3>2 DEF PoolTypes
        <4>2. CASE latencies[i] \in Durations
          BY Zenon, <2>1, <4>2
        <4>3. CASE latencies[i] \notin Durations
          <5>1. PICK u \in Workers : job[u] = i
            BY Zenon, <4>1, <4>3 DEF Measured
          <5>2. job'[u] = i
            BY Zenon, <2>1, <4>1, <5>1 DEF PoolTypes
          <5> QED
            BY Zenon, <5>2
        <4> QED
          BY Zenon, <4>2, <4>3
      <3> QED
        BY Zenon, <3>1, <3>2
    <2> QED
      BY Zenon, <2>1, <2>2 DEF Measured, Early
  <1>2. ASSUME NEW w \in Workers, NEW d \in Durations, NEW ok \in BOOLEAN, NEW b,
               Send(w, d, b, ok)
        PROVE  Measured'
    <2>1. /\ job[w] # 0 /\ latencies' = [latencies EXCEPT ![job[w]] = d]
          /\ job' = [job EXCEPT ![w] = 0] /\ UNCHANGED <<pc, index, percentiles>>
      BY Zenon, <1>2 DEF Send
    <2>2. ASSUME NEW i \in 1 .. index - 1
          PROVE  latencies'[i] \in Durations \/ \E u \in Workers : job'[u] = i
      <3>0. i \in 1 .. Requests
        BY BenchmarkAssumption DEF PoolTypes
      <3>1. CASE job[w] = i
        BY Zenon, <2>1, <3>0, <3>1 DEF PoolTypes
      <3>2. CASE job[w] # i
        <4>1. latencies'[i] = latencies[i]
          BY Zenon, <2>1, <3>0, <3>2 DEF PoolTypes
        <4>2. CASE latencies[i] \in Durations
          BY Zenon, <4>1, <4>2
        <4>3. CASE latencies[i] \notin Durations
          <5>1. PICK u \in Workers : job[u] = i
            BY Zenon, <4>3 DEF Measured
          <5>2. job'[u] = i
            BY Zenon, <2>1, <3>2, <5>1 DEF PoolTypes
          <5> QED
            BY Zenon, <5>2
        <4> QED
          BY Zenon, <4>2, <4>3
      <3> QED
        BY Zenon, <3>1, <3>2
    <2>3. pc \notin {"dispatch", "join"} => \A u \in Workers : job'[u] = 0
      BY Zenon, <2>1 DEF Measured
    <2> QED
      BY Zenon, <2>1, <2>2, <2>3 DEF Measured
  <1>3. ASSUME NEW w \in Workers, PushError(w) PROVE Measured'
    BY Zenon, <1>3 DEF PushError, Measured
  <1>4. CASE CloseJobs
    <2>1. /\ UNCHANGED <<index, job, latencies, percentiles>>
          /\ index > Requests /\ pc = "dispatch" /\ pc' = "join"
      BY Zenon, <1>4 DEF CloseJobs, transport
    <2>2. index = Requests + 1
      BY <2>1, BenchmarkAssumption DEF PoolTypes
    <2> QED
      BY Zenon, <2>1, <2>2 DEF Measured, Early
  <1>5. CASE Join
    BY Zenon, <1>5 DEF Join, Measured, Early
  <1>6. CASE /\ UNCHANGED <<index, job, failing, errs, latencies, percentiles>>
             /\ pc = "warm" /\ pc' \in {"warm", "dispatch", "failed"}
    BY Zenon, <1>6 DEF Measured, Early
  <1> QED
    BY Zenon, <1>1, <1>2, <1>3, <1>4, <1>5, <1>6 DEF PoolStep, Worker

\* The percentiles that Join computes are nearest ranks, and nothing is measured
\* afterwards.
LEMMA RanksStep ==
    ASSUME PoolTypes, Measured, TransportIsNearestRank, PoolStep
    PROVE  TransportIsNearestRank'
  <1>1. CASE UNCHANGED <<latencies, percentiles>>
    BY ZenonT(40), <1>1 DEF TransportIsNearestRank, AtMost
  <1>2. ASSUME NEW w \in Workers, NEW d \in Durations, NEW ok \in BOOLEAN, NEW b,
               Send(w, d, b, ok)
        PROVE  TransportIsNearestRank'
    <2>1. pc \in Early /\ percentiles' = percentiles
      BY Zenon, <1>2 DEF Send, Measured, Early, PoolTypes
    <2>2. DOMAIN percentiles' = {}
      BY Zenon, <2>1 DEF Measured
    <2> QED
      BY Zenon, <2>2 DEF TransportIsNearestRank
  <1>3. CASE Join /\ ~UNCHANGED percentiles
    <2>1. /\ percentiles' = [q \in Quantiles |-> Percentile(latencies, q)]
          /\ latencies' = latencies /\ pc = "join" /\ \A w \in Workers : job[w] = 0
      BY Zenon, <1>3 DEF Join
    <2>2. \A i \in 1 .. Requests : latencies[i] \in Durations
      BY <2>1, BenchmarkAssumption DEF Measured
    <2>3. Requests \in Nat \ {0} /\ latencies \in [1 .. Requests -> Nat]
      BY Zenon, <2>2, BenchmarkAssumption DEF PoolTypes
    <2>4. ASSUME NEW q \in Quantiles, NEW v, v = Percentile(latencies, q)
          PROVE  /\ \E i \in 1 .. Requests : latencies[i] = v
                 /\ 100 * AtMost(v) >= q * Requests /\ 100 * AtMost(v - 1) < q * Requests
      <3>1. q \in 1 .. 100
        BY Zenon, BenchmarkAssumption
      <3>2. \A x : AtMost(x) = Cardinality(Within(Requests, latencies, 0 .. x))
        BY Zenon DEF AtMost, Within
      <3>3. NearestRank(Requests, latencies, q, v)
        BY Zenon, <2>3, <2>4, <3>1, PercentileIsNearestRank
      <3> QED
        BY Zenon, <3>2, <3>3 DEF NearestRank
    <2>5. \A v : AtMost(v)' = AtMost(v)
      BY Zenon, <2>1 DEF AtMost
    <2>6. ASSUME NEW q \in DOMAIN percentiles', NEW v, v = percentiles'[q]
          PROVE  /\ \E i \in 1 .. Requests : latencies'[i] = v
                 /\ 100 * AtMost(v)' >= q * Requests /\ 100 * AtMost(v - 1)' < q * Requests
      <3>1. q \in Quantiles /\ v = Percentile(latencies, q)
        BY Zenon, <2>1, <2>6
      <3> QED
        BY Zenon, <2>1, <2>4, <2>5, <3>1
    <2> QED
      BY ZenonT(40), <2>1, <2>2, <2>6 DEF TransportIsNearestRank, AtMost
  <1> QED
    BY Zenon, <1>1, <1>2, <1>3
       DEF PoolStep, transport, CloseJobs, Join, Dispatch, Worker, PushError

\* Every step keeps the invariant of the pool.
LEMMA PoolNext ==
    ASSUME PoolInv, [Next]_vars
    PROVE  PoolInv'
  <1>1. CASE PoolStep
    BY Zenon, <1>1, PoolTypesStep, PlacesStep, MeasuredStep, RanksStep DEF PoolInv
  <1>2. ASSUME UNCHANGED transport, pc' = pc \/ LoadStep PROVE PoolInv'
    <2>1. PoolTypes' /\ Measured'
      BY Zenon, <1>2 DEF transport, LoadStep, PoolInv, PoolTypes, Measured, Early
    <2>2. Places' /\ TransportIsNearestRank'
      BY ZenonT(40), <1>2 DEF transport, PoolInv, Places, Busy, TransportIsNearestRank, AtMost
    <2> QED
      BY Zenon, <2>1, <2>2 DEF PoolInv
  <1> QED
    BY Zenon, <1>1, <1>2, StepKinds DEF LoadStep, WorldStep, vars

-----------------------------------------------------------------------------
\* benchmarkPipeline

\* Nothing has been sent when the runner starts.
LEMMA LoadInit == Init => LoadInv
  <1> SUFFICES ASSUME Init PROVE LoadInv
    BY Zenon
  <1>1. Len(Loads) \in Nat \ {0} /\ Inf \in Buckets
    BY BenchmarkAssumption, BucketsBounds
  <1>2. Empty \in [Buckets -> Nat] /\ Cumulative(Empty)
    BY DEF Empty, Cumulative
  <1>3. LoadTypes /\ Loading
    BY <1>1, <1>2, BenchmarkAssumption DEF Init, LoadTypes, Loading
  <1>4. Window
    BY Zenon, <1>2 DEF Init, Window, NoneInTransit
  <1> QED
    BY Zenon, <1>3, <1>4 DEF LoadInv

\* Observe adds one sample to a cumulative histogram.
LEMMA ObserveAdds ==
    ASSUME NEW h \in [Buckets -> Nat], NEW b \in Buckets
    PROVE  /\ Observe(h, b) \in [Buckets -> Nat]
           /\ Cumulative(h) => Cumulative(Observe(h, b))
           /\ Observe(h, b)[Inf] = h[Inf] + 1
           /\ \A x \in Buckets : Observe(h, b)[x] = IF x >= b THEN h[x] + 1 ELSE h[x]
  <1>1. Inf \in Buckets /\ Inf >= b /\ Buckets \subseteq Nat
    BY BucketsBounds
  <1>2. \A x \in Buckets : Observe(h, b)[x] = IF x >= b THEN h[x] + 1 ELSE h[x]
    BY Zenon DEF Observe
  <1>3. Observe(h, b) \in [Buckets -> Nat]
    BY DEF Observe
  <1>4. ASSUME Cumulative(h), NEW x \in Buckets, NEW y \in Buckets, x <= y
        PROVE  Observe(h, b)[x] <= Observe(h, b)[y]
    <2>1. h[x] <= h[y] /\ h[x] \in Nat /\ h[y] \in Nat
      BY Zenon, <1>4 DEF Cumulative
    <2> QED
      BY <1>1, <1>2, <1>4, <2>1
  <1> QED
    BY Zenon, <1>1, <1>2, <1>3, <1>4 DEF Cumulative

\* The pool leaves the pipeline alone.  Its requests are sampled before the first load.
LEMMA LoadFrame ==
    ASSUME PoolInv, LoadInv, PoolStep
    PROVE  LoadInv'
  <1>1. /\ UNCHANGED <<load, sent, before, after, results, transit, own, strangers, resets>>
        /\ pc' = pc \/ (pc \in Early /\ pc' \in {"dispatch", "join", "scrape", "failed"})
    BY Zenon DEF PoolStep, pipeline
  <1>2. Loading' /\ (NoneInTransit' <=> NoneInTransit)
    BY Zenon, <1>1 DEF LoadInv, Loading, Early, NoneInTransit
  <1>3. CASE hist' = hist
    <2>1. LoadTypes'
      BY Zenon, <1>1, <1>3 DEF LoadInv, LoadTypes
    <2>2. Cumulative(before)' /\ Cumulative(hist)' /\ Cumulative(own)'
      BY Zenon, <1>1, <1>3 DEF LoadInv, Window, Cumulative
    <2>3. (Grown' <=> Grown) /\ (Lacking' <=> Lacking) /\ (OwnInTransit' <=> OwnInTransit)
      BY Zenon, <1>1, <1>3 DEF Grown, Lacking, OwnInTransit
    <2>4. Window'
      BY Zenon, <1>1, <1>2, <2>2, <2>3 DEF LoadInv, Window, Early
    <2> QED
      BY Zenon, <1>2, <2>1, <2>4 DEF LoadInv
  <1>4. CASE hist' # hist
    <2>1. PICK b \in Buckets : hist' = Observe(hist, b)
      BY Zenon, <1>4 DEF PoolStep
    <2>2. pc \in Early /\ pc' \in Early \cup {"scrape", "failed"}
      BY Zenon, <1>1, <1>4 DEF PoolStep, PoolInv, Measured, Busy, Early
    <2>3. Observe(hist, b) \in [Buckets -> Nat] /\ Cumulative(Observe(hist, b))
      BY Zenon, ObserveAdds DEF LoadInv, LoadTypes, Window
    <2>4. LoadTypes'
      BY Zenon, <1>1, <2>1, <2>3 DEF LoadInv, LoadTypes
    <2>5. Cumulative(before)' /\ Cumulative(hist)' /\ Cumulative(own)'
      BY Zenon, <1>1, <2>1, <2>3 DEF LoadInv, Window, Cumulative
    <2>6. Window'
      BY Zenon, <1>1, <1>2, <2>2, <2>5 DEF LoadInv, Window, Early
    <2> QED
      BY Zenon, <1>2, <2>4, <2>6 DEF LoadInv
  <1> QED
    BY Zenon, <1>3, <1>4

\* Samples, lost events, samples of others and a restart of the aggregator.
LEMMA LoadWorld ==
    ASSUME LoadInv, WorldStep
    PROVE  LoadInv'
  <1>0. /\ UNCHANGED <<pc, load, sent, before, after, results>>
        /\ LoadTypes /\ Loading /\ Window
    BY Zenon DEF WorldStep, pipeline, LoadInv
  <1>1. Loading'
    BY Zenon, <1>0 DEF Loading
  <1>2. Inf \in Buckets
    BY BucketsBounds
  <1>3. Cumulative(before)'
    BY Zenon, <1>0 DEF Window, Cumulative
  <1>l. pc \in {"send", "drain"} => load \in DOMAIN Loads
    BY <1>0, BenchmarkAssumption DEF Loading
  <1>4. ASSUME NEW l \in DOMAIN Loads, LoseEvent(l) PROVE LoadInv'
    <2>1. /\ transit[l] > 0 /\ transit' = [transit EXCEPT ![l] = @ - 1]
          /\ UNCHANGED <<hist, own, strangers, resets>>
      BY Zenon, <1>4 DEF LoseEvent
    <2>2. /\ transit' \in [DOMAIN Loads -> Nat]
          /\ \A x \in DOMAIN Loads : transit'[x] <= transit[x] /\ (transit[x] = 0 => transit'[x] = 0)
      BY <1>0, <2>1 DEF LoadTypes
    <2>3. LoadTypes'
      BY Zenon, <1>0, <2>1, <2>2 DEF LoadTypes
    <2>4. (Grown' <=> Grown) /\ (Lacking' <=> Lacking)
      BY Zenon, <1>0, <2>1 DEF Grown, Lacking
    <2>5. Cumulative(hist)' /\ Cumulative(own)'
      BY Zenon, <2>1, <1>0 DEF Window, Cumulative
    <2>6. NoneInTransit => NoneInTransit'
      BY Zenon, <2>2 DEF NoneInTransit
    <2>7. ASSUME OwnInTransit, load \in DOMAIN Loads PROVE OwnInTransit'
      <3>1. \A x \in DOMAIN Loads : x # load' => transit'[x] = 0
        BY Zenon, <1>0, <2>2, <2>7 DEF OwnInTransit
      <3>2. /\ own[Inf] \in Nat /\ transit[load] \in Nat /\ transit'[load] \in Nat /\ sent \in Nat
            /\ transit'[load] <= transit[load] /\ own[Inf] + transit[load] <= sent
        BY Zenon, <1>0, <1>2, <2>2, <2>7 DEF LoadTypes, OwnInTransit
      <3>3. own[Inf] + transit'[load] <= sent
        BY <3>2
      <3> QED
        BY Zenon, <1>0, <2>1, <3>1, <3>3 DEF OwnInTransit
    <2>8. Window'
      BY Zenon, <1>0, <1>3, <1>l, <2>1, <2>4, <2>5, <2>6, <2>7 DEF Window
    <2> QED
      BY Zenon, <1>1, <2>3, <2>8 DEF LoadInv
  <1>5. CASE AggregatorRestart
    <2>1. /\ resets' = resets + 1 /\ hist' = Empty /\ UNCHANGED <<transit, own, strangers>>
      BY Zenon, <1>5 DEF AggregatorRestart
    <2>2. Empty \in [Buckets -> Nat] /\ \A b \in Buckets : Empty[b] = 0
      BY Zenon DEF Empty
    <2>3. LoadTypes'
      BY <1>0, <2>1, <2>2 DEF LoadTypes
    <2>4. Cumulative(hist)' /\ Cumulative(own)'
      BY <2>1, <2>2, <1>0 DEF Window, Cumulative
    <2>5. Lacking'
      BY <1>0, <2>1, <2>2 DEF Lacking, Window, Cumulative, LoadTypes
    <2>6. (NoneInTransit' <=> NoneInTransit) /\ (OwnInTransit' <=> OwnInTransit)
      BY Zenon, <1>0, <2>1 DEF NoneInTransit, OwnInTransit
    <2>7. Window'
      BY Zenon, <1>0, <1>3, <2>1, <2>4, <2>5, <2>6 DEF Window
    <2> QED
      BY Zenon, <1>1, <2>3, <2>7 DEF LoadInv
  <1>6. ASSUME NEW l \in DOMAIN Loads, NEW b \in Buckets, Sample(l, b), l = load PROVE LoadInv'
    <2>1. /\ transit[l] > 0 /\ transit' = [transit EXCEPT ![l] = @ - 1]
          /\ UNCHANGED <<strangers, resets>>
          /\ hist' = Observe(hist, b) /\ own' = Observe(own, b)
      BY Zenon, <1>6 DEF Sample
    <2>2. /\ LoadTypes' /\ Cumulative(hist)' /\ Cumulative(own)' /\ own'[Inf] = own[Inf] + 1
          /\ \A x \in Buckets : hist'[x] = IF x >= b THEN hist[x] + 1 ELSE hist[x]
          /\ \A x \in Buckets : own'[x] = IF x >= b THEN own[x] + 1 ELSE own[x]
      <3>1. /\ Observe(hist, b) \in [Buckets -> Nat] /\ Cumulative(Observe(hist, b))
            /\ Observe(own, b) \in [Buckets -> Nat] /\ Cumulative(Observe(own, b))
            /\ Observe(own, b)[Inf] = own[Inf] + 1
            /\ \A x \in Buckets : Observe(hist, b)[x] = IF x >= b THEN hist[x] + 1 ELSE hist[x]
            /\ \A x \in Buckets : Observe(own, b)[x] = IF x >= b THEN own[x] + 1 ELSE own[x]
        BY Zenon, <1>0, ObserveAdds DEF LoadTypes, Window
      <3>2. Cumulative(hist)' /\ Cumulative(own)'
        BY Zenon, <2>1, <3>1 DEF Cumulative
      <3>3. transit' \in [DOMAIN Loads -> Nat]
        BY <1>0, <2>1 DEF LoadTypes
      <3>4. LoadTypes'
        BY Zenon, <1>0, <2>1, <3>1, <3>3 DEF LoadTypes
      <3> QED
        BY Zenon, <2>1, <3>1, <3>2, <3>4
    <2>t. \A x \in Buckets :
            /\ hist[x] \in Nat /\ own[x] \in Nat /\ before[x] \in Nat /\ before'[x] = before[x]
            /\ hist'[x] = IF x >= b THEN hist[x] + 1 ELSE hist[x]
            /\ own'[x] = IF x >= b THEN own[x] + 1 ELSE own[x]
      BY Zenon, <1>0, <2>2 DEF LoadTypes
    <2>3. ASSUME Grown PROVE Grown'
      <3>1. ASSUME NEW x \in Buckets PROVE hist'[x] = before'[x] + own'[x]
        <4>1. hist[x] = before[x] + own[x]
          BY Zenon, <2>3 DEF Grown
        <4> QED
          BY <2>t, <4>1
      <3> QED
        BY Zenon, <3>1 DEF Grown
    <2>4. ASSUME Lacking PROVE Lacking'
      <3>1. ASSUME NEW x \in Buckets
            PROVE  hist'[x] <= own'[x] /\ own'[x] - hist'[x] = own[x] - hist[x]
        <4>1. hist[x] <= own[x]
          BY Zenon, <2>4 DEF Lacking
        <4> QED
          BY <2>t, <4>1
      <3> QED
        BY Zenon, <2>4, <3>1 DEF Lacking
    <2>5. ~NoneInTransit /\ (OwnInTransit => OwnInTransit')
      <3>1. /\ own[Inf] \in Nat /\ transit[load] \in Nat /\ sent \in Nat
            /\ own'[Inf] = own[Inf] + 1 /\ transit'[load] = transit[load] - 1
            /\ \A x \in DOMAIN Loads : x # load => transit'[x] = transit[x]
        BY Zenon, <1>0, <1>2, <1>6, <2>1, <2>2, <2>t DEF LoadTypes
      <3>2. transit[load] # 0
        BY <1>6, <2>1, <3>1
      <3>3. own[Inf] + transit[load] <= sent => own'[Inf] + transit'[load] <= sent
        BY <3>1
      <3> QED
        BY Zenon, <1>0, <1>6, <3>1, <3>2, <3>3 DEF NoneInTransit, OwnInTransit
    <2>6. Window'
      BY Zenon, <1>0, <1>3, <2>1, <2>2, <2>3, <2>4, <2>5 DEF Window
    <2> QED
      BY Zenon, <1>1, <2>2, <2>6 DEF LoadInv
  <1>6a. ASSUME NEW l \in DOMAIN Loads, NEW b \in Buckets, Sample(l, b), l # load PROVE LoadInv'
    <2>1. /\ transit[l] > 0 /\ transit' = [transit EXCEPT ![l] = @ - 1]
          /\ UNCHANGED <<own, strangers, resets>> /\ hist' = Observe(hist, b)
      BY Zenon, <1>6a DEF Sample
    <2>2. Observe(hist, b) \in [Buckets -> Nat] /\ Cumulative(Observe(hist, b))
      BY Zenon, <1>0, ObserveAdds DEF LoadTypes, Window
    <2>3. transit' \in [DOMAIN Loads -> Nat] /\ transit[l] # 0
      BY <1>0, <2>1 DEF LoadTypes
    <2>4. LoadTypes'
      BY Zenon, <1>0, <2>1, <2>2, <2>3 DEF LoadTypes
    <2>5. Cumulative(hist)' /\ Cumulative(own)'
      BY Zenon, <1>0, <2>1, <2>2 DEF Window, Cumulative
    <2>6. ~NoneInTransit /\ ~OwnInTransit
      BY Zenon, <1>6a, <2>3 DEF NoneInTransit, OwnInTransit
    <2>7. Window'
      BY Zenon, <1>0, <1>3, <2>1, <2>5, <2>6 DEF Window
    <2> QED
      BY Zenon, <1>1, <2>4, <2>7 DEF LoadInv
  <1>7. ASSUME NEW b \in Buckets, StrangerSample(b) PROVE LoadInv'
    <2>1. /\ strangers' = strangers + 1 /\ hist' = Observe(hist, b)
          /\ UNCHANGED <<transit, own, resets>>
      BY Zenon, <1>7 DEF StrangerSample
    <2>2. Observe(hist, b) \in [Buckets -> Nat] /\ Cumulative(Observe(hist, b))
      BY Zenon, <1>0, ObserveAdds DEF LoadTypes, Window
    <2>3. LoadTypes'
      BY <1>0, <2>1, <2>2 DEF LoadTypes
    <2>4. Cumulative(hist)' /\ Cumulative(own)' /\ strangers' # 0
      BY <1>0, <2>1, <2>2 DEF Window, Cumulative, LoadTypes
    <2>5. Window'
      BY Zenon, <1>3, <2>4 DEF Window
    <2> QED
      BY Zenon, <1>1, <2>3, <2>5 DEF LoadInv
  <1> QED
    BY Zenon, <1>4, <1>5, <1>6, <1>6a, <1>7 DEF WorldStep, World

\* A load is a number of events.
LEMMA LoadsAreNumbers == DOMAIN Loads = 1 .. Len(Loads) /\ \A l \in DOMAIN Loads : Loads[l] \in Nat
  BY BenchmarkAssumption

\* A scrape that has seen as many samples as were sent has seen exactly those: if the
\* histogram was reset since the load began, it was empty then and has lost nothing.
LEMMA ScrapeIsComplete ==
    ASSUME LoadTypes, Cumulative(before), Grown \/ Lacking, load \in DOMAIN Loads,
           OwnInTransit, hist[Inf] >= before[Inf] + sent
    PROVE  NoneInTransit /\ \A b \in Buckets : hist[b] - before[b] = own[b]
  <1>1. /\ Inf \in Buckets /\ Inf \in Nat /\ transit[load] \in Nat /\ sent \in Nat
        /\ own[Inf] + transit[load] <= sent
        /\ \A b \in Buckets : /\ hist[b] \in Nat /\ own[b] \in Nat /\ before[b] \in Nat
                              /\ b <= Inf
    <2>1. /\ Inf \in Buckets /\ Inf \in Nat /\ \A b \in Buckets : b <= Inf
      BY BucketsBounds
    <2> QED
      BY Zenon, <2>1 DEF LoadTypes, OwnInTransit
  <1>n. transit[load] = 0 => NoneInTransit
    BY Zenon DEF NoneInTransit, OwnInTransit
  <1>2. CASE Grown
    <2>1. \A b \in Buckets : hist[b] = before[b] + own[b]
      BY Zenon, <1>2 DEF Grown
    <2>2. hist[Inf] = before[Inf] + own[Inf] /\ {hist[Inf], before[Inf], own[Inf]} \subseteq Nat
      BY Zenon, <1>1, <2>1
    <2>3. transit[load] = 0
      BY <1>1, <2>2
    <2>4. \A b \in Buckets : hist[b] - before[b] = own[b]
      BY <1>1, <2>1
    <2> QED
      BY Zenon, <1>n, <2>3, <2>4
  <1>3. CASE Lacking
    <2>1. hist[Inf] <= own[Inf]
      BY Zenon, <1>1, <1>3 DEF Lacking
    <2>2. transit[load] = 0 /\ before[Inf] = 0 /\ own[Inf] = hist[Inf]
      BY <1>1, <2>1
    <2>3. ASSUME NEW b \in Buckets PROVE hist[b] - before[b] = own[b]
      <3>1. /\ before[b] <= before[Inf] /\ hist[b] <= own[b]
            /\ own[b] - hist[b] <= own[Inf] - hist[Inf]
        BY Zenon, <1>1, <1>3 DEF Lacking, Cumulative
      <3> QED
        BY <1>1, <2>2, <3>1
    <2> QED
      BY Zenon, <1>n, <2>2, <2>3
  <1> QED
    BY Zenon, <1>2, <1>3

\* What Report appends when it does not fail: quantiles of the samples of the load.
LEMMA ReportAppends ==
    ASSUME LoadInv, Report, pc' # "failed", load # 1
    PROVE  /\ Delta \in [Buckets -> Nat] /\ Delta[Inf] = sent
           /\ strangers = 0 => Delta = own
           /\ results' = Append(results, [q \in Quantiles |-> HistogramQuantile(Delta, q)])
           /\ \A q \in Quantiles :
                 /\ sent > 0 => InBucketOfRank(HistogramQuantile(Delta, q), Delta, q)
                 /\ HistogramQuantile(Delta, q) \in [num : Int, den : Int]
  <1>1. LoadTypes /\ Loading /\ Window /\ pc = "report"
    BY Zenon DEF LoadInv, Report
  <1>2. load \in 1 .. Len(Loads) /\ sent = Loads[load]
    BY Zenon, <1>1 DEF Loading
  <1>3. load > 1
    BY <1>2
  <1>4. /\ ~HistogramReset /\ Delta[Inf] = Loads[load]
        /\ results' = Append(results, [q \in Quantiles |-> HistogramQuantile(Delta, q)])
    BY Zenon, <1>3 DEF Report
  <1>5. \A b \in Buckets : after[b] \in Nat /\ before[b] \in Nat /\ Delta[b] = after[b] - before[b]
    BY Zenon, <1>1 DEF LoadTypes, Delta
  <1>6. \A b \in Buckets : ~(after[b] < before[b])
    BY Zenon, <1>4 DEF HistogramReset
  <1>7. \A b \in Buckets : Delta[b] \in Nat
    BY <1>5, <1>6
  <1>8. Delta \in [Buckets -> Nat]
    BY Zenon, <1>7 DEF Delta
  <1>9. ASSUME strangers = 0 PROVE Delta = own
    <2>1. \A b \in Buckets : after[b] - before[b] = own[b]
      BY Zenon, <1>1, <1>9 DEF Window
    <2>2. own \in [Buckets -> Nat]
      BY Zenon, <1>1 DEF LoadTypes
    <2> QED
      BY Zenon, <2>1, <2>2 DEF Delta
  <1>10. Delta[Inf] = sent
    BY Zenon, <1>2, <1>4
  <1>11. Quantiles \subseteq 1 .. 100
    BY Zenon, BenchmarkAssumption
  <1>12. ASSUME NEW q \in Quantiles
         PROVE  /\ sent > 0 => InBucketOfRank(HistogramQuantile(Delta, q), Delta, q)
                /\ HistogramQuantile(Delta, q) \in [num : Int, den : Int]
    BY Zenon, <1>8, <1>10, <1>11, QuantileInBucket, QuantileTyped
  <1> QED
    BY Zenon, <1>4, <1>8, <1>9, <1>10, <1>12

\* The steps of benchmarkPipeline.
LEMMA LoadSteps ==
    ASSUME LoadInv, LoadStep
    PROVE  LoadInv'
  <1>0. LoadTypes /\ Loading /\ Window /\ Inf \in Buckets
    BY BucketsBounds DEF LoadInv
  <1>1. CASE pc' = "failed" /\ UNCHANGED <<pipeline, world>>
    <2>1. UNCHANGED <<load, sent, before, after, results, hist, transit, own, strangers, resets>>
      BY Zenon, <1>1 DEF pipeline, world
    <2>2. LoadTypes' /\ Loading'
      BY Zenon, <1>0, <1>1, <2>1 DEF LoadTypes, Loading
    <2>3. Window'
      BY Zenon, <1>0, <1>1, <2>1 DEF Window, Cumulative, Early
    <2> QED
      BY Zenon, <2>2, <2>3 DEF LoadInv
  <1>2. CASE ScrapeBefore
    <2>1. /\ pc = "scrape" /\ pc' = "send" /\ before' = hist /\ own' = Empty /\ sent' = 0
          /\ UNCHANGED <<load, after, results, hist, transit, strangers, resets>>
      BY Zenon, <1>2 DEF ScrapeBefore
    <2>2. /\ Empty \in [Buckets -> Nat] /\ Cumulative(Empty) /\ Empty[Inf] = 0
          /\ \A b \in Buckets : Empty[b] = 0
      BY <1>0 DEF Empty, Cumulative
    <2>3. LoadTypes'
      BY Zenon, <1>0, <2>1, <2>2 DEF LoadTypes
    <2>4. load \in 1 .. Len(Loads) /\ Loads[load] \in Nat
      BY Zenon, <1>0, <2>1, LoadsAreNumbers DEF Loading
    <2>5. Loading'
      BY <2>1, <2>4 DEF Loading
    <2>6. Cumulative(before)' /\ Cumulative(hist)' /\ Cumulative(own)'
      BY Zenon, <1>0, <2>1, <2>2 DEF Window, Cumulative
    <2>7. Grown'
      <3>1. ASSUME NEW b \in Buckets PROVE hist[b] = hist[b] + Empty[b]
        BY <1>0, <2>2 DEF LoadTypes
      <3> QED
        BY Zenon, <2>1, <3>1 DEF Grown
    <2>8. strangers = 0 => OwnInTransit'
      <3>1. ASSUME strangers = 0 PROVE NoneInTransit /\ load \in DOMAIN Loads
        BY Zenon, <1>0, <2>1, <2>4, <3>1, LoadsAreNumbers DEF Window
      <3>2. ASSUME NoneInTransit, load \in DOMAIN Loads PROVE Empty[Inf] + transit[load] <= 0
        BY <2>2, <3>2 DEF NoneInTransit
      <3> QED
        BY Zenon, <2>1, <3>1, <3>2 DEF NoneInTransit, OwnInTransit
    <2>9. Window'
      BY Zenon, <2>1, <2>6, <2>7, <2>8 DEF Window, Early
    <2> QED
      BY Zenon, <2>3, <2>5, <2>9 DEF LoadInv
  <1>3. CASE SendEvent \/ SendEnds
    <2>1. /\ pc = "send" /\ UNCHANGED <<load, before, after, results, hist, own, strangers, resets>>
          /\ \/ /\ pc' = "send" /\ sent < Loads[load]
                /\ sent' = sent + 1 /\ transit' = [transit EXCEPT ![load] = @ + 1]
             \/ pc' = "drain" /\ sent = Loads[load] /\ UNCHANGED <<sent, transit>>
      BY Zenon, <1>3 DEF SendEvent, SendEnds, pipeline, world
    <2>2. /\ load \in 1 .. Len(Loads) /\ load \in DOMAIN Loads /\ Loads[load] \in Nat
          /\ sent \in Nat /\ transit \in [DOMAIN Loads -> Nat]
      BY Zenon, <1>0, <2>1, LoadsAreNumbers DEF Loading, LoadTypes
    <2>3. LoadTypes'
      <3>1. sent' \in Nat /\ transit' \in [DOMAIN Loads -> Nat]
        BY SMTT(20), <2>1, <2>2
      <3> QED
        BY Zenon, <1>0, <2>1, <3>1 DEF LoadTypes
    <2>4. Loading'
      BY <2>1, <2>2 DEF Loading
    <2>5. Cumulative(before)' /\ Cumulative(hist)' /\ Cumulative(own)'
      BY Zenon, <1>0, <2>1 DEF Window, Cumulative
    <2>6. (Grown' <=> Grown) /\ (Lacking' <=> Lacking)
      BY Zenon, <2>1 DEF Grown, Lacking
    <2>7. own[Inf] \in Nat
      BY Zenon, <1>0 DEF LoadTypes
    <2>8. OwnInTransit => OwnInTransit'
      <3>1. \A x \in DOMAIN Loads : x # load => transit'[x] = transit[x]
        BY Zenon, <2>1, <2>2
      <3>2. own[Inf] + transit[load] <= sent => own[Inf] + transit'[load] <= sent'
        BY <2>1, <2>2, <2>7
      <3> QED
        BY Zenon, <2>1, <3>1, <3>2 DEF OwnInTransit
    <2>9. Window'
      BY Zenon, <1>0, <2>1, <2>5, <2>6, <2>8 DEF Window, Early
    <2> QED
      BY Zenon, <2>3, <2>4, <2>9 DEF LoadInv
  <1>4. CASE ScrapeAfter
    <2>1. /\ pc = "drain" /\ after' = hist
          /\ UNCHANGED <<load, sent, before, results, hist, transit, own, strangers, resets>>
          /\ pc' = IF hist[Inf] >= before[Inf] + Loads[load] THEN "report" ELSE "drain"
      BY Zenon, <1>4 DEF ScrapeAfter, world
    <2>2. LoadTypes'
      BY Zenon, <1>0, <2>1 DEF LoadTypes
    <2>3. Loading'
      BY Zenon, <1>0, <2>1 DEF Loading
    <2>4. Cumulative(before)' /\ Cumulative(hist)' /\ Cumulative(own)'
      BY Zenon, <1>0, <2>1 DEF Window, Cumulative
    <2>5. /\ (Grown' <=> Grown) /\ (Lacking' <=> Lacking)
          /\ (NoneInTransit' <=> NoneInTransit) /\ (OwnInTransit' <=> OwnInTransit)
      BY Zenon, <2>1 DEF Grown, Lacking, NoneInTransit, OwnInTransit
    <2>6. sent = Loads[load] /\ Cumulative(before) /\ load \in DOMAIN Loads
      BY Zenon, <1>0, <2>1, LoadsAreNumbers DEF Loading, Window
    <2>7. ASSUME pc' = "drain" PROVE Window'
      BY Zenon, <1>0, <2>1, <2>4, <2>5, <2>7 DEF Window, Early
    <2>8. ASSUME pc' = "report" PROVE Window'
      <3>1. hist[Inf] >= before[Inf] + sent
        BY Zenon, <2>1, <2>6, <2>8
      <3>2. strangers = 0 => OwnInTransit /\ (Grown \/ Lacking)
        BY Zenon, <1>0, <2>1 DEF Window
      <3>3. strangers = 0 => NoneInTransit /\ \A b \in Buckets : hist[b] - before[b] = own[b]
        BY Zenon, <1>0, <2>6, <3>1, <3>2, ScrapeIsComplete
      <3> QED
        BY Zenon, <2>1, <2>4, <2>5, <2>8, <3>3 DEF Window, Early
    <2> QED
      BY Zenon, <2>1, <2>2, <2>3, <2>7, <2>8 DEF LoadInv
  <1>5. CASE Report /\ pc' # "failed"
    <2>1. /\ pc = "report" /\ pc' \in {"scrape", "done"} /\ load' = load + 1
          /\ load = Len(Loads) => pc' = "done"
          /\ UNCHANGED <<sent, before, after, hist, transit, own, strangers, resets>>
      BY Zenon, <1>5 DEF Report, world
    <2>2. load \in 1 .. Len(Loads) /\ Len(Loads) \in Nat
      BY <1>0, <2>1, BenchmarkAssumption DEF Loading
    <2>3. results' \in Seq([Quantiles -> [num : Int, den : Int]])
      <3>1. CASE load = 1
        BY Zenon, <1>0, <1>5, <3>1 DEF Report, LoadTypes
      <3>2. CASE load # 1
        <4>1. /\ results' = Append(results, [q \in Quantiles |-> HistogramQuantile(Delta, q)])
              /\ \A q \in Quantiles : HistogramQuantile(Delta, q) \in [num : Int, den : Int]
          BY Zenon, <1>5, <3>2, ReportAppends
        <4>2. PICK f \in [Quantiles -> [num : Int, den : Int]] :
                f = [q \in Quantiles |-> HistogramQuantile(Delta, q)]
          BY Zenon, <4>1
        <4> QED
          BY <1>0, <4>1, <4>2 DEF LoadTypes
      <3> QED
        BY Zenon, <3>1, <3>2
    <2>4. LoadTypes'
      BY <1>0, <2>1, <2>2, <2>3 DEF LoadTypes
    <2>5. Loading'
      BY <2>1, <2>2 DEF Loading
    <2>6. Cumulative(before)' /\ Cumulative(hist)' /\ Cumulative(own)'
      BY Zenon, <1>0, <2>1 DEF Window, Cumulative
    <2>7. strangers = 0 => NoneInTransit'
      BY Zenon, <1>0, <2>1 DEF Window, NoneInTransit
    <2>8. Window'
      BY Zenon, <2>1, <2>6, <2>7 DEF Window
    <2> QED
      BY Zenon, <2>4, <2>5, <2>8 DEF LoadInv
  <1>6. CASE Report /\ pc' = "failed"
    <2>1. UNCHANGED <<pipeline, world>>
      BY Zenon, <1>6 DEF Report, pipeline, world
    <2> QED
      BY Zenon, <1>1, <1>6, <2>1
  <1> QED
    BY Zenon, <1>1, <1>2, <1>3, <1>4, <1>5, <1>6 DEF LoadStep

\* Every step keeps the invariant of the loads.
LEMMA LoadNext ==
    ASSUME PoolInv, LoadInv, [Next]_vars
    PROVE  LoadInv'
  <1>1. CASE UNCHANGED vars
    <2>1. UNCHANGED <<pipeline, world, pc>>
      BY Zenon, <1>1 DEF vars
    <2> QED
      BY Zenon, <2>1 DEF pipeline, world, LoadInv, LoadTypes, Loading, Window, Cumulative, Grown,
                         Lacking, NoneInTransit, OwnInTransit
  <1> QED
    BY Zenon, <1>1, StepKinds, LoadFrame, LoadSteps, LoadWorld

-----------------------------------------------------------------------------
\* The theorems

\* The inductive invariant of the benchmark runner.
THEOREM BenchmarkInvariance == Spec => [](PoolInv /\ LoadInv)
  <1>1. Init => PoolInv /\ LoadInv
    BY Zenon, PoolInit, LoadInit
  <1>2. PoolInv /\ LoadInv /\ [Next]_vars => (PoolInv /\ LoadInv)'
    BY Zenon, PoolNext, LoadNext
  <1> QED
    BY <1>1, <1>2, PTL DEF Spec

\* RunnerTypeOK: workers only handle requests that exist, and the error channel of
\* benchmarkTransport never fills up, whatever the number of workers and of failures.
THEOREM BenchmarkTypeCorrect == Spec => []RunnerTypeOK
  <1>1. PoolInv /\ LoadInv => RunnerTypeOK
    <2> SUFFICES ASSUME PoolInv, LoadInv PROVE RunnerTypeOK
      BY Zenon
    <2>1. /\ Cardinality(failing) \in Nat /\ Cardinality(Busy) \in Nat /\ errs \in Nat
          /\ errs + Cardinality(failing) + Cardinality(Busy) < index
          /\ index \in 1 .. Requests + 1
      BY Zenon, FS_CardinalityType DEF PoolInv, Places, PoolTypes
    <2>2. errs + Cardinality(failing) \in 0 .. Requests
      BY SMTT(20), <2>1, BenchmarkAssumption
    <2>3. /\ pc \in {"warm", "dispatch", "join", "scrape", "send", "drain", "report", "done",
                     "failed"}
          /\ warmed \in 0 .. WarmUps /\ index \in 1 .. Requests + 1 /\ job \in [Workers -> 0 .. Requests]
          /\ failing \subseteq Workers
          /\ latencies \in [1 .. Requests -> Durations \cup {-1}]
      BY Zenon DEF PoolInv, PoolTypes, Early
    <2>4. /\ load \in 1 .. Len(Loads) + 1
          /\ {sent, strangers, resets} \subseteq Nat /\ transit \in [DOMAIN Loads -> Nat]
          /\ {before, after, hist, own} \subseteq [Buckets -> Nat]
      BY Zenon DEF LoadInv, LoadTypes
    <2> QED
      BY Zenon, <2>2, <2>3, <2>4 DEF RunnerTypeOK
  <1> QED
    BY <1>1, BenchmarkInvariance, PTL

\* TransportIsNearestRank: benchmarkTransport reports nearest ranks of the latencies of
\* all requests, whichever worker measured them.
THEOREM TransportReported == Spec => []TransportIsNearestRank
  <1>1. PoolInv => TransportIsNearestRank
    BY Zenon DEF PoolInv
  <1> QED
    BY <1>1, BenchmarkInvariance, PTL

\* LoadsReportedExactly: benchmarkPipeline reports a load from as many samples as it
\* has sent, from its own alone when nobody else sends, with quantiles in the right
\* buckets if it has sent any event.
THEOREM LoadsReported == Spec => LoadsReportedExactly
  <1> DEFINE A == Len(results') > Len(results) =>
                    /\ Delta[Inf] = sent
                    /\ strangers = 0 => Delta = own
                    /\ sent > 0 => \A q \in Quantiles :
                          InBucketOfRank(results'[Len(results')][q], Delta, q)
  <1>1. ASSUME LoadInv, [Next]_vars PROVE A
    <2>1. CASE results' = results
      <3>1. Len(results) \in Nat
        BY DEF LoadInv, LoadTypes
      <3> QED
        BY <2>1, <3>1
    <2>2. CASE results' # results
      <3>1. Report /\ pc' # "failed" /\ load # 1
        BY Zenon, <1>1, <2>2, StepKinds
           DEF PoolStep, LoadStep, WorldStep, vars, pipeline, world, ScrapeBefore, SendEvent,
               SendEnds, ScrapeAfter, Report
      <3>2. /\ Delta[Inf] = sent
            /\ strangers = 0 => Delta = own
            /\ results' = Append(results, [q \in Quantiles |-> HistogramQuantile(Delta, q)])
            /\ \A q \in Quantiles :
                  /\ sent > 0 => InBucketOfRank(HistogramQuantile(Delta, q), Delta, q)
                  /\ HistogramQuantile(Delta, q) \in [num : Int, den : Int]
        BY Zenon, <1>1, <3>1, ReportAppends
      <3>3. PICK f \in [Quantiles -> [num : Int, den : Int]] :
              f = [q \in Quantiles |-> HistogramQuantile(Delta, q)]
        BY Zenon, <3>2
      <3>4. results'[Len(results')] = f
        BY <1>1, <3>2, <3>3 DEF LoadInv, LoadTypes
      <3>5. \A q \in Quantiles : results'[Len(results')][q] = HistogramQuantile(Delta, q)
        BY Zenon, <3>3, <3>4
      <3> QED
        BY Zenon, <3>2, <3>5
    <2> QED
      BY Zenon, <2>1, <2>2
  <1> HIDE DEF A
  <1>2. Spec => [][A]_vars
    BY <1>1, BenchmarkInvariance, PTL DEF Spec
  <1> QED
    BY Zenon, <1>2 DEF A, LoadsReportedExactly
=============================================================================
