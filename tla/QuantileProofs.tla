--------------------------- MODULE QuantileProofs ---------------------------
(***************************************************************************)
(* Where histogramQuantile's interpolation can end up, for every histogram *)
(* and every percentile.                                                   *)
(***************************************************************************)
EXTENDS Quantile, FiniteSetTheorems, WellFoundedInduction, TLAPS

\* Multiplication keeps an order.
LEMMA TimesKeepsOrder ==
    ASSUME NEW a \in Int, NEW b \in Int, NEW c \in Nat, a <= b
    PROVE  a * c <= b * c
  BY SMTT(30)

\* The quotient of an integer by a positive one.
LEMMA Quotient ==
    ASSUME NEW a \in Int, NEW d \in Nat, d # 0
    PROVE  /\ a \div d \in Int
           /\ (a \div d) * d <= a
           /\ a < (a \div d + 1) * d
  BY SMTT(30)

\* Rounding a fraction between 0 and w gives an integer between 0 and w.
LEMMA RoundedInRange ==
    ASSUME NEW num \in Nat, NEW den \in Nat, den # 0, NEW w \in Nat, num <= w * den
    PROVE  Rounded(num, den) \in 0..w
<1> DEFINE r == (2 * num + den) \div (2 * den)
<1>1. /\ 2 * num + den \in Int /\ 2 * den \in Nat /\ 2 * den # 0
      /\ w * den \in Nat
  BY SMT
<1>2. r \in Int /\ r * (2 * den) <= 2 * num + den /\ 2 * num + den < (r + 1) * (2 * den)
  BY <1>1, Quotient
<1>3. r >= 0
  <2> SUFFICES ASSUME r + 1 <= 0 PROVE FALSE
    BY <1>2, SMT
  <2> HIDE DEF r
  <2>1. (r + 1) * (2 * den) <= 0 * (2 * den)
    BY <1>1, <1>2, TimesKeepsOrder
  <2> QED
    BY <1>2, <2>1, SMT
<1>4. r <= w
  <2> SUFFICES ASSUME w + 1 <= r PROVE FALSE
    BY <1>2, SMT
  <2> HIDE DEF r
  <2>1. (w + 1) * (2 * den) <= r * (2 * den)
    BY <1>1, <1>2, TimesKeepsOrder
  <2>2. (w + 1) * (2 * den) = 2 * (w * den) + 2 * den
    BY SMT
  <2> QED
    BY <1>1, <1>2, <2>1, <2>2, SMT
<1> QED
  BY <1>2, <1>3, <1>4 DEF Rounded

LEMMA RoundedIsInt ==
    ASSUME NEW num \in Nat, NEW den \in Nat, den # 0
    PROVE  Rounded(num, den) \in Int
<1>1. 2 * num + den \in Int /\ 2 * den \in Nat /\ 2 * den # 0
  BY SMT
<1>2. (2 * num + den) \div (2 * den) \in Int
  BY <1>1, Quotient
<1> QED
  BY <1>2 DEF Rounded

\* A larger numerator does not round to a smaller integer.
LEMMA RoundedKeepsOrder ==
    ASSUME NEW a \in Nat, NEW b \in Nat, NEW den \in Nat, den # 0, a <= b
    PROVE  Rounded(a, den) <= Rounded(b, den)
<1> DEFINE d == 2 * den
           r == (2 * a + den) \div d
           s == (2 * b + den) \div d
<1>1. d \in Nat /\ d # 0 /\ 2 * a + den \in Int /\ 2 * b + den \in Int
  BY SMT
<1> HIDE DEF d
<1>2. r \in Int /\ r * d <= 2 * a + den
  BY <1>1, Quotient
<1>3. s \in Int /\ 2 * b + den < (s + 1) * d
  BY <1>1, Quotient
<1> HIDE DEF r, s
<1>4. r <= s
  <2> SUFFICES ASSUME s + 1 <= r PROVE FALSE
    BY <1>2, <1>3, SMT
  <2>1. (s + 1) * d <= r * d
    BY <1>1, <1>2, <1>3, TimesKeepsOrder
  <2> DEFINE x == (s + 1) * d
             y == r * d
  <2>2. x \in Int /\ y \in Int
    BY <1>1, <1>2, <1>3, SMT
  <2> QED
    BY <1>2, <1>3, <2>1, <2>2, SMT
<1> QED
  BY <1>4 DEF r, s, d, Rounded

-----------------------------------------------------------------------------
\* A histogram of n buckets: their bounds and cumulative counts do not decrease.
IsHistogram(n, bounds, cum, count) ==
    /\ n \in Nat \ {0}
    /\ bounds \in [1..n -> Nat]
    /\ cum \in [1..n -> Nat]
    /\ count \in Nat
    /\ \A i, j \in 1..n : i <= j => bounds[i] <= bounds[j] /\ cum[i] <= cum[j]

\* The loop over the buckets stops at the first that reaches the rank.
LEMMA FirstIsSmallest ==
    ASSUME NEW T, T \subseteq Nat, T # {}
    PROVE  First(T) \in T /\ \A j \in T : First(T) <= j
<1>1. IsWellFoundedOn(OpToRel(<, Nat), Nat)
  BY NatLessThanWellFounded
<1>2. PICK x \in T : \A y \in T : ~(<<y, x>> \in OpToRel(<, Nat))
  BY <1>1, WFMin
<1>3. \A y \in T : ~(y < x)
  BY <1>2 DEF OpToRel
<1>4. \A y \in T : x <= y
  BY <1>3, SMT
<1> QED
  BY <1>4, Zenon DEF First

\* prevCount and prevBound never exceed what the bucket itself has.
LEMMA BeforeIsBelow ==
    ASSUME NEW n, NEW bounds, NEW cum, NEW count, IsHistogram(n, bounds, cum, count),
           NEW i \in 1..n
    PROVE  /\ Before(bounds, i) \in Nat /\ Before(bounds, i) <= bounds[i]
           /\ Before(cum, i) \in Nat /\ Before(cum, i) <= cum[i]
           /\ bounds[i] \in Nat /\ cum[i] \in Nat
<1> USE DEF IsHistogram, Before
<1>1. bounds[i] \in Nat /\ cum[i] \in Nat
  BY SMT
<1>2. CASE i = 1
  BY <1>1, <1>2, SMT
<1>3. CASE i # 1
  <2>1. i - 1 \in 1..n /\ i - 1 <= i
    BY <1>3, SMT
  <2>2. bounds[i - 1] \in Nat /\ cum[i - 1] \in Nat
    BY <2>1, SMT
  <2>3. bounds[i - 1] <= bounds[i] /\ cum[i - 1] <= cum[i]
    BY <2>1, Zenon
  <2> QED
    BY <1>1, <1>3, <2>2, <2>3, Zenon
<1> QED
  BY <1>2, <1>3

\* What is interpolated lies between the bounds of the bucket the rank falls into.
LEMMA InterpolatedInRange ==
    ASSUME NEW n, NEW bounds, NEW cum, NEW count, IsHistogram(n, bounds, cum, count),
           NEW q \in Nat, NEW i \in 1..n,
           100 * Before(cum, i) <= q * count, q * count <= 100 * cum[i]
    PROVE  /\ Interpolated(q, bounds, cum, count, i) \in Int
           /\ Before(bounds, i) <= Interpolated(q, bounds, cum, count, i)
           /\ Interpolated(q, bounds, cum, count, i) <= bounds[i]
<1> DEFINE prev == Before(cum, i)
           low == Before(bounds, i)
           inBucket == cum[i] - prev
           width == bounds[i] - low
           rank == q * count
           share == rank - 100 * prev
<1>1. /\ low \in Nat /\ low <= bounds[i] /\ prev \in Nat /\ prev <= cum[i]
      /\ bounds[i] \in Nat /\ cum[i] \in Nat
  BY BeforeIsBelow
<1>2. rank \in Nat /\ 100 * prev <= rank /\ rank <= 100 * cum[i]
  <2>1. count \in Nat
    BY DEF IsHistogram
  <2> QED
    BY <2>1, SMT
<1>3. CASE inBucket = 0
  BY <1>1, <1>3, SMT DEF Interpolated
<1>4. CASE inBucket # 0
  <2>1. /\ width \in Nat /\ share \in Nat /\ 100 * inBucket \in Nat /\ 100 * inBucket # 0
        /\ share <= 100 * inBucket
    <3> HIDE DEF rank, prev, low
    <3> QED
      BY <1>1, <1>2, <1>4, SMT
  <2>2. share * width <= (100 * inBucket) * width
    BY <2>1, TimesKeepsOrder
  <2>3. share * width \in Nat /\ (100 * inBucket) * width = width * (100 * inBucket)
    BY <2>1, SMT
  <2>4. Rounded(share * width, 100 * inBucket) \in 0..width
    BY <2>1, <2>2, <2>3, RoundedInRange
  <2>5. Interpolated(q, bounds, cum, count, i)
          = low + Rounded(share * width, 100 * inBucket)
    BY <1>4, Zenon DEF Interpolated
  <2> HIDE DEF low, prev, share, inBucket
  <2>6. Rounded(share * width, 100 * inBucket) \in Int
    BY <2>1, <2>4, SMT
  <2> QED
    BY <1>1, <2>1, <2>4, <2>5, SMT DEF low
<1> QED
  BY <1>3, <1>4

\* What the loop returns when a bucket reaches the rank.
LEMMA QuantileReached ==
    ASSUME NEW n, NEW bounds, NEW cum, NEW count, IsHistogram(n, bounds, cum, count),
           count # 0, NEW q \in Nat, Reached(q, cum, count) # {}
    PROVE  LET i == First(Reached(q, cum, count))
               e == histogramQuantile(q, bounds, cum, count)
           IN  /\ i \in 1..n
               /\ i \in Reached(q, cum, count)
               /\ \A j \in Reached(q, cum, count) : i <= j
               /\ 100 * Before(cum, i) <= q * count /\ q * count <= 100 * cum[i]
               /\ i # 1 => 100 * Before(cum, i) < q * count
               /\ e = Interpolated(q, bounds, cum, count, i)
               /\ e \in Int /\ Before(bounds, i) <= e /\ e <= bounds[i]
<1> DEFINE R == Reached(q, cum, count)
           i == First(R)
           rank == q * count
<1>1. DOMAIN cum = 1..n /\ DOMAIN bounds = 1..n /\ n \in Nat \ {0} /\ count \in Nat
  BY SMT DEF IsHistogram
<1>2. R \subseteq Nat /\ R # {}
  BY <1>1, SMT DEF Reached
<1>3. i \in R /\ \A j \in R : i <= j
  BY <1>2, FirstIsSmallest
<1>4. i \in 1..n
  BY <1>1, <1>3, SMT DEF Reached
<1>5. rank \in Nat /\ cum[i] \in Nat /\ rank <= 100 * cum[i]
  <2>1. cum[i] \in Nat
    BY <1>4, BeforeIsBelow
  <2>2. 100 * cum[i] >= q * count
    BY <1>3, Zenon DEF Reached
  <2> QED
    BY <1>1, <2>1, <2>2, SMT
<1>6. 100 * Before(cum, i) <= rank /\ (i # 1 => 100 * Before(cum, i) < rank)
  <2>1. CASE i = 1
    BY <1>5, <2>1, SMT DEF Before
  <2>2. CASE i # 1
    <3> HIDE DEF i
    <3>1. i - 1 \in 1..n /\ ~(i <= i - 1) /\ i - 1 \in DOMAIN cum
      BY <1>1, <1>4, <2>2, SMT
    <3>2. i - 1 \notin R
      BY <1>3, <3>1, Zenon
    <3>3. ~(100 * cum[i - 1] >= rank)
      BY <3>1, <3>2, Zenon DEF Reached
    <3>4. cum[i - 1] \in Nat
      BY <3>1, SMT DEF IsHistogram
    <3>5. Before(cum, i) = cum[i - 1]
      BY <2>2, Zenon DEF Before
    <3> HIDE DEF rank
    <3> QED
      BY <1>5, <3>3, <3>4, <3>5, SMT
  <2> QED
    BY <2>1, <2>2
<1>7. histogramQuantile(q, bounds, cum, count) = Interpolated(q, bounds, cum, count, i)
  <2>1. DOMAIN bounds # {}
    BY <1>1, <1>4, Zenon
  <2> QED
    BY <1>2, <2>1, Zenon DEF histogramQuantile
<1>8. /\ Interpolated(q, bounds, cum, count, i) \in Int
      /\ Before(bounds, i) <= Interpolated(q, bounds, cum, count, i)
      /\ Interpolated(q, bounds, cum, count, i) <= bounds[i]
  BY <1>4, <1>5, <1>6, InterpolatedInRange
<1> QED
  BY <1>3, <1>4, <1>5, <1>6, <1>7, <1>8, Zenon

\* And when none does: the last bound.
LEMMA QuantileBeyond ==
    ASSUME NEW n, NEW bounds, NEW cum, NEW count, IsHistogram(n, bounds, cum, count),
           count # 0, NEW q \in Nat, Reached(q, cum, count) = {}
    PROVE  histogramQuantile(q, bounds, cum, count) = bounds[n]
<1>1. DOMAIN bounds = 1..n /\ n \in Nat \ {0}
  BY SMT DEF IsHistogram
<1>2. 1 \in Int /\ n \in Int /\ n - 1 + 1 = n /\ ~(1 > n) /\ 1 \in 1..n
  BY <1>1, SMT
<1>3. Cardinality(1..n) = n
  <2>1. Cardinality(1..n) = IF 1 > n THEN 0 ELSE n - 1 + 1
    BY <1>2, FS_Interval, Zenon
  <2> QED
    BY <1>2, <2>1, Zenon
<1>4. Cardinality(DOMAIN bounds) = n /\ DOMAIN bounds # {}
  BY <1>1, <1>2, <1>3, Zenon
<1> QED
  BY <1>4, Zenon DEF histogramQuantile

\* Of every histogram a higher percentile is never estimated below a lower one
\* (metrics.go:113-146).
THEOREM QuantileIsMonotone ==
    ASSUME NEW n, NEW bounds, NEW cum, NEW count, IsHistogram(n, bounds, cum, count),
           NEW p \in Nat, NEW q \in Nat, p <= q
    PROVE  histogramQuantile(p, bounds, cum, count) <= histogramQuantile(q, bounds, cum, count)
<1> DEFINE P == Reached(p, cum, count)
           Q == Reached(q, cum, count)
           i == First(P)
           j == First(Q)
           E(r) == histogramQuantile(r, bounds, cum, count)
<1>1. /\ count \in Nat /\ n \in Nat \ {0} /\ n \in 1..n
      /\ DOMAIN cum = 1..n /\ \A k \in 1..n : cum[k] \in Nat /\ bounds[k] \in Nat
  BY SMT DEF IsHistogram
<1>2. \A a, b \in 1..n : a <= b => bounds[a] <= bounds[b]
  BY Zenon DEF IsHistogram
<1>3. p * count \in Nat /\ q * count \in Nat /\ p * count <= q * count
  BY <1>1, TimesKeepsOrder, SMT
<1>4. Q \subseteq P
  <2> SUFFICES ASSUME NEW k \in DOMAIN cum, 100 * cum[k] >= q * count
               PROVE  100 * cum[k] >= p * count
    BY Zenon DEF Reached
  <2> DEFINE a == p * count
             b == q * count
  <2>1. a \in Nat /\ b \in Nat /\ a <= b /\ 100 * cum[k] >= b /\ cum[k] \in Nat
    BY <1>1, <1>3, Zenon
  <2> HIDE DEF a, b
  <2>2. 100 * cum[k] >= a
    BY <2>1, SMT
  <2> QED
    BY <2>2 DEF a
<1>5. CASE count = 0
  <2>1. E(p) = 0 /\ E(q) = 0
    BY <1>5, Zenon DEF histogramQuantile
  <2> QED
    BY <2>1, SMT
<1>6. CASE count # 0 /\ P = {}
  <2>1. E(p) = bounds[n] /\ E(q) = bounds[n]
    BY <1>4, <1>6, QuantileBeyond
  <2> QED
    BY <1>1, <2>1, SMT
<1>7. CASE count # 0 /\ P # {} /\ Q = {}
  <2>1. /\ i \in 1..n /\ E(p) \in Int /\ E(p) <= bounds[i]
        /\ E(q) = bounds[n]
    BY <1>7, QuantileReached, QuantileBeyond
  <2>2. bounds[i] <= bounds[n] /\ bounds[i] \in Nat /\ bounds[n] \in Nat
    <3> HIDE DEF i
    <3>1. i <= n
      BY <1>1, <2>1, SMT
    <3> QED
      BY <1>1, <1>2, <2>1, <3>1, Zenon
  <2> HIDE DEF i, E
  <2>3. E(p) <= E(q)
    BY <2>1, <2>2, SMT
  <2> QED
    BY <2>3 DEF E
<1>8. CASE count # 0 /\ P # {} /\ Q # {}
  <2>1. /\ i \in 1..n /\ E(p) \in Int /\ E(p) <= bounds[i]
        /\ \A k \in P : i <= k
        /\ E(p) = Interpolated(p, bounds, cum, count, i)
        /\ 100 * Before(cum, i) <= p * count
    BY <1>8, QuantileReached
  <2>2. /\ j \in 1..n /\ j \in Q /\ E(q) \in Int /\ Before(bounds, j) <= E(q)
        /\ E(q) = Interpolated(q, bounds, cum, count, j)
    BY <1>8, QuantileReached
  <2>3. i <= j
    BY <1>4, <2>1, <2>2, Zenon
  <2> HIDE DEF i, j
  <2>4. CASE i # j
    <3>1. i <= j - 1 /\ j - 1 \in 1..n /\ j # 1
      BY <1>1, <2>1, <2>2, <2>3, <2>4, SMT
    <3>2. bounds[i] <= bounds[j - 1] /\ Before(bounds, j) = bounds[j - 1]
      BY <1>2, <2>1, <3>1, Zenon DEF Before
    <3>3. bounds[i] \in Nat /\ bounds[j - 1] \in Nat
      BY <1>1, <2>1, <3>1, Zenon
    <3> HIDE DEF E
    <3>4. E(p) <= E(q)
      BY <2>1, <2>2, <3>2, <3>3, SMT
    <3> QED
      BY <3>4 DEF E
  <2>5. CASE i = j
    <3> DEFINE prev == Before(cum, i)
               width == bounds[i] - Before(bounds, i)
               inBucket == cum[i] - prev
               a == p * count - 100 * prev
               b == q * count - 100 * prev
    <3>1. /\ prev \in Nat /\ prev <= cum[i] /\ cum[i] \in Nat
          /\ Before(bounds, i) \in Nat /\ Before(bounds, i) <= bounds[i] /\ bounds[i] \in Nat
      BY <2>1, BeforeIsBelow
    <3>2. CASE inBucket = 0
      <4>1. E(p) = bounds[i] /\ E(q) = bounds[i]
        BY <2>1, <2>2, <2>5, <3>2, Zenon DEF Interpolated
      <4> QED
        BY <3>1, <4>1, SMT
    <3>3. CASE inBucket # 0
      <4>1. a \in Nat /\ b \in Nat /\ a <= b
        BY <1>3, <2>1, <3>1, SMT
      <4>2. width \in Nat /\ 100 * inBucket \in Nat /\ 100 * inBucket # 0
        BY <3>1, <3>3, SMT
      <4>3. a * width <= b * width
        BY <4>1, <4>2, TimesKeepsOrder
      <4>4. a * width \in Nat /\ b * width \in Nat
        BY <4>1, <4>2, SMT
      <4>5. Rounded(a * width, 100 * inBucket) <= Rounded(b * width, 100 * inBucket)
        BY <4>2, <4>3, <4>4, RoundedKeepsOrder
      <4>6. /\ E(p) = Before(bounds, i) + Rounded(a * width, 100 * inBucket)
            /\ E(q) = Before(bounds, i) + Rounded(b * width, 100 * inBucket)
        BY <2>1, <2>2, <2>5, <3>3, Zenon DEF Interpolated
      <4>7. /\ Rounded(a * width, 100 * inBucket) \in Int
            /\ Rounded(b * width, 100 * inBucket) \in Int
        BY <4>2, <4>4, RoundedIsInt
      <4> QED
        BY <3>1, <4>5, <4>6, <4>7, SMT
    <3> QED
      BY <3>2, <3>3
  <2> QED
    BY <2>4, <2>5
<1> QED
  BY <1>5, <1>6, <1>7, <1>8

-----------------------------------------------------------------------------
\* Only values are ever observed.
LEMMA ObservationsAreValues == QuantileSpec => [](obs \in Seq(Values))
<1>1. QuantileInit => obs \in Seq(Values)
  BY SMT DEF QuantileInit
<1>2. obs \in Seq(Values) /\ [QuantileNext]_obs => (obs \in Seq(Values))'
  <2> SUFFICES ASSUME obs \in Seq(Values), [QuantileNext]_obs
               PROVE  obs' \in Seq(Values)
    OBVIOUS
  <2>1. ASSUME NEW v \in Values, Observe(v) PROVE obs' \in Seq(Values)
    BY <2>1, SMT DEF Observe
  <2>2. CASE Replace
    BY <2>2, SMT DEF Replace
  <2>3. CASE UNCHANGED obs
    BY <2>3
  <2> QED
    BY <2>1, <2>2, <2>3 DEF QuantileNext
<1> QED
  BY <1>1, <1>2, PTL DEF QuantileSpec

LEMMA SamplesAreFinite ==
    ASSUME NEW s \in Seq(Values)
    PROVE  /\ IsFiniteSet(DOMAIN s)
           /\ \A T \in SUBSET DOMAIN s : IsFiniteSet(T) /\ Cardinality(T) \in Nat
           /\ \A k \in DOMAIN s : s[k] \in Nat
<1>1. DOMAIN s = 1..Len(s) /\ \A k \in DOMAIN s : s[k] \in Values
  BY SMT
<1>2. \A k \in DOMAIN s : s[k] \in Nat
  BY <1>1, ValuesAssumption, Zenon
<1>3. 1 \in Int /\ Len(s) \in Int /\ DOMAIN s = 1..Len(s)
  BY SMT
<1>4. IsFiniteSet(DOMAIN s)
  BY <1>3, FS_Interval, Zenon
<1>5. \A T \in SUBSET DOMAIN s : IsFiniteSet(T) /\ Cardinality(T) \in Nat
  BY <1>4, FS_Subset, FS_CardinalityType, Zenon
<1> QED
  BY <1>2, <1>4, <1>5

\* The buckets of observations are a histogram.
LEMMA SamplesAreHistograms ==
    ASSUME NEW s \in Seq(Values)
    PROVE  IsHistogram(NumBounds, Bounds, CumOf(s), CountOf(s))
<1> DEFINE Upto(b) == {k \in DOMAIN s : s[k] <= b}
<1>2. \A k \in DOMAIN s : s[k] \in Nat
  BY SamplesAreFinite
<1>3. IsFiniteSet(DOMAIN s)
  BY SamplesAreFinite
<1>4. CountOf(s) \in Nat
  BY <1>3, FS_CardinalityType, Zenon DEF CountOf
<1>5. \A b \in Nat : IsFiniteSet(Upto(b)) /\ Cardinality(Upto(b)) \in Nat
  <2> TAKE b \in Nat
  <2>1. Upto(b) \subseteq DOMAIN s
    BY Zenon
  <2> QED
    BY <1>3, <2>1, FS_Subset, FS_CardinalityType, Zenon
<1>6. \A b, c \in Nat : b <= c => Cardinality(Upto(b)) <= Cardinality(Upto(c))
  <2> SUFFICES ASSUME NEW b \in Nat, NEW c \in Nat, b <= c
               PROVE  Cardinality(Upto(b)) <= Cardinality(Upto(c))
    BY Zenon
  <2>1. Upto(b) \subseteq Upto(c)
    <3> SUFFICES ASSUME NEW k \in DOMAIN s, s[k] <= b PROVE s[k] <= c
      BY Zenon
    <3> QED
      BY <1>2, SMT
  <2> QED
    BY <1>5, <2>1, FS_Subset, Zenon
<1>7. /\ NumBounds \in Nat \ {0} /\ DOMAIN Bounds = 1..NumBounds
      /\ \A i \in 1..NumBounds : Bounds[i] \in Nat
  BY BucketsAssumption, Zenon
<1> HIDE DEF Upto
<1>8. CumOf(s) = [i \in 1..NumBounds |-> Cardinality(Upto(Bounds[i]))]
  BY <1>7, Zenon DEF CumOf, Upto
<1>9. CumOf(s) \in [1..NumBounds -> Nat]
  BY <1>5, <1>7, <1>8, Zenon
<1>10. \A i, j \in 1..NumBounds : i <= j => CumOf(s)[i] <= CumOf(s)[j]
  BY <1>6, <1>7, <1>8, BucketsAssumption, Zenon
<1> QED
  BY <1>4, <1>9, <1>10, BucketsAssumption, Zenon DEF IsHistogram

\* P50 <= P95 <= P99 for all buckets and observations (metrics.go:113-146).
THEOREM PercentilesAreOrdered == QuantileSpec => []PercentilesOrdered
<1>1. ASSUME obs \in Seq(Values) PROVE PercentilesOrdered
  <2>1. IsHistogram(NumBounds, Bounds, CumOf(obs), CountOf(obs))
    BY <1>1, SamplesAreHistograms
  <2>2. 50 \in Nat /\ 95 \in Nat /\ 99 \in Nat /\ 50 <= 95 /\ 95 <= 99
    BY SMT
  <2>3. Estimate(50, obs) <= Estimate(95, obs)
    BY <2>1, <2>2, QuantileIsMonotone DEF Estimate
  <2>4. Estimate(95, obs) <= Estimate(99, obs)
    BY <2>1, <2>2, QuantileIsMonotone DEF Estimate
  <2> QED
    BY <2>3, <2>4 DEF PercentilesOrdered
<1> QED
  BY <1>1, ObservationsAreValues, PTL

\* The observation of rank q% against the buckets: one below it holds less than
\* the rank, one at or above it holds the rank.
LEMMA QuantileAgainstBuckets ==
    ASSUME NEW s \in Seq(Values), NEW q \in Nat, NEW v \in Values, IsQuantile(v, q, s),
           NEW i \in 1..NumBounds
    PROVE  IF Bounds[i] < v THEN i \notin Reached(q, CumOf(s), CountOf(s))
                            ELSE i \in Reached(q, CumOf(s), CountOf(s))
<1> DEFINE Upto(b) == {k \in DOMAIN s : s[k] <= b}
           Below == {k \in DOMAIN s : s[k] < v}
           rank == q * CountOf(s)
<1>1. IsHistogram(NumBounds, Bounds, CumOf(s), CountOf(s))
  BY SamplesAreHistograms
<1>3. (\A k \in DOMAIN s : s[k] \in Nat) /\ v \in Nat /\ Bounds[i] \in Nat
  BY SamplesAreFinite, ValuesAssumption, BucketsAssumption, Zenon
<1>4. IsFiniteSet(DOMAIN s)
  BY SamplesAreFinite
<1>5. /\ \A b \in Nat : IsFiniteSet(Upto(b)) /\ Cardinality(Upto(b)) \in Nat
      /\ IsFiniteSet(Below) /\ Cardinality(Below) \in Nat
  <2>1. Below \subseteq DOMAIN s /\ \A b \in Nat : Upto(b) \subseteq DOMAIN s
    BY Zenon
  <2> QED
    BY <1>4, <2>1, FS_Subset, FS_CardinalityType, Zenon
<1>6. /\ DOMAIN CumOf(s) = 1..NumBounds
      /\ CumOf(s)[i] = Cardinality(Upto(Bounds[i]))
  BY BucketsAssumption, Zenon DEF CumOf
<1>7. rank \in Nat
  BY <1>1, SMT DEF IsHistogram
<1>8. 100 * Cardinality(Below) < rank /\ 100 * Cardinality(Upto(v)) >= rank
  BY Zenon DEF IsQuantile
<1>9. i \in Reached(q, CumOf(s), CountOf(s)) <=> 100 * Cardinality(Upto(Bounds[i])) >= rank
  BY <1>6, Zenon DEF Reached
<1>10. CASE Bounds[i] < v
  <2>1. Upto(Bounds[i]) \subseteq Below
    <3> SUFFICES ASSUME NEW k \in DOMAIN s, s[k] <= Bounds[i] PROVE s[k] < v
      BY Zenon
    <3> QED
      BY <1>3, <1>10, SMT
  <2>2. Cardinality(Upto(Bounds[i])) <= Cardinality(Below)
    BY <1>5, <2>1, FS_Subset, Zenon
  <2>3. Cardinality(Upto(Bounds[i])) \in Nat
    BY <1>3, <1>5, Zenon
  <2> HIDE DEF Upto, Below, rank
  <2>4. ~(100 * Cardinality(Upto(Bounds[i])) >= rank)
    BY <1>5, <1>7, <1>8, <2>2, <2>3, SMT
  <2> QED
    BY <1>9, <1>10, <2>4, Zenon
<1>11. CASE ~(Bounds[i] < v)
  <2>1. Upto(v) \subseteq Upto(Bounds[i])
    <3> SUFFICES ASSUME NEW k \in DOMAIN s, s[k] <= v PROVE s[k] <= Bounds[i]
      BY Zenon
    <3> QED
      BY <1>3, <1>11, SMT
  <2>2. Cardinality(Upto(v)) <= Cardinality(Upto(Bounds[i]))
    BY <1>3, <1>5, <2>1, FS_Subset, Zenon
  <2>3. Cardinality(Upto(Bounds[i])) \in Nat /\ Cardinality(Upto(v)) \in Nat
    BY <1>3, <1>5, Zenon
  <2> HIDE DEF Upto, Below, rank
  <2>4. 100 * Cardinality(Upto(Bounds[i])) >= rank
    BY <1>7, <1>8, <2>2, <2>3, SMT
  <2> QED
    BY <1>9, <1>11, <2>4, Zenon
<1> QED
  BY <1>10, <1>11

LEMMA EstimateInBucket ==
    ASSUME NEW s \in Seq(Values), NEW q \in {50, 95, 99}, NEW v \in Values,
           IsQuantile(v, q, s)
    PROVE  \/ v > Bounds[NumBounds] /\ Estimate(q, s) = Bounds[NumBounds]
           \/ \E i \in DOMAIN Bounds :
                /\ Before(Bounds, i) < v \/ v = 0
                /\ v <= Bounds[i]
                /\ Before(Bounds, i) <= Estimate(q, s)
                /\ Estimate(q, s) <= Bounds[i]
<1> DEFINE R == Reached(q, CumOf(s), CountOf(s))
           i == First(R)
<1>1. IsHistogram(NumBounds, Bounds, CumOf(s), CountOf(s))
  BY SamplesAreHistograms
<1>2. q \in Nat
  BY SMT
<1>3. /\ NumBounds \in 1..NumBounds /\ DOMAIN Bounds = 1..NumBounds /\ v \in Nat
      /\ \A j \in 1..NumBounds : Bounds[j] \in Nat
  BY BucketsAssumption, ValuesAssumption, SMT
<1>4. \A j \in 1..NumBounds : (Bounds[j] < v) => j \notin R
  BY <1>2, QuantileAgainstBuckets
<1>5. \A j \in 1..NumBounds : ~(Bounds[j] < v) => j \in R
  BY <1>2, QuantileAgainstBuckets
<1>6. CountOf(s) # 0
  <2>1. 100 * Cardinality({k \in DOMAIN s : s[k] < v}) < q * CountOf(s)
    BY Zenon DEF IsQuantile
  <2>2. Cardinality({k \in DOMAIN s : s[k] < v}) \in Nat
    BY SamplesAreFinite, Zenon
  <2> QED
    BY <1>2, <2>1, <2>2, SMT
<1>7. CASE R = {}
  <2>1. Bounds[NumBounds] < v
    BY <1>3, <1>5, <1>7, Zenon
  <2>2. v > Bounds[NumBounds]
    BY <1>3, <2>1, SMT
  <2>3. Estimate(q, s) = Bounds[NumBounds]
    BY <1>1, <1>2, <1>6, <1>7, QuantileBeyond DEF Estimate
  <2> QED
    BY <2>2, <2>3
<1>8. CASE R # {}
  <2>1. /\ i \in 1..NumBounds /\ i \in R /\ \A j \in R : i <= j
        /\ Before(Bounds, i) <= Estimate(q, s) /\ Estimate(q, s) <= Bounds[i]
    BY <1>1, <1>2, <1>6, <1>8, QuantileReached DEF Estimate
  <2> HIDE DEF i
  <2>2. v <= Bounds[i]
    <3>1. ~(Bounds[i] < v)
      BY <1>4, <2>1, Zenon
    <3> QED
      BY <1>3, <2>1, <3>1, SMT
  <2>3. Before(Bounds, i) < v \/ v = 0
    <3>1. CASE i = 1
      BY <1>3, <3>1, SMT DEF Before
    <3>2. CASE i # 1
      <4>1. i - 1 \in 1..NumBounds /\ ~(i <= i - 1)
        BY <1>3, <2>1, <3>2, SMT
      <4>2. Bounds[i - 1] < v
        BY <1>5, <2>1, <4>1, Zenon
      <4> QED
        BY <3>2, <4>2, Zenon DEF Before
    <3> QED
      BY <3>1, <3>2
  <2>4. i \in DOMAIN Bounds
    BY <1>3, <2>1, Zenon
  <2> QED
    BY <2>1, <2>2, <2>3, <2>4, Zenon
<1> QED
  BY <1>7, <1>8

\* The estimate is in the bucket of the observation it estimates, or is the
\* last bound for one beyond it (metrics.go:113-146).
THEOREM QuantileIsInBucket == QuantileSpec => []QuantileInBucket
<1>1. ASSUME obs \in Seq(Values) PROVE QuantileInBucket
  BY <1>1, EstimateInBucket, Zenon DEF QuantileInBucket
<1> QED
  BY <1>1, ObservationsAreValues, PTL
=============================================================================
