------------------------------ MODULE Quantile ------------------------------
(***************************************************************************)
(* histogramQuantile (controller/metrics.go): a percentile estimated from  *)
(* the buckets of a histogram, by linear interpolation inside the bucket   *)
(* the rank falls into.                                                    *)
(*                                                                         *)
(* bounds[i] is the upper bound of bucket i in hundredths of a second,     *)
(* cum[i] the number of observations up to it, count the number of all;    *)
(* q is in percent.  Floating-point error is not modelled, the rounding to *)
(* hundredths is.                                                          *)
(***************************************************************************)
EXTENDS Integers, Sequences, FiniteSets

\* Mutant: strictly more observations than the rank.
ReachedStrictly(q, cum, count) == {i \in DOMAIN cum : 100 * cum[i] > q * count}

\* The buckets whose cumulative count is at least the rank, q% of the count.
Reached(q, cum, count) == {i \in DOMAIN cum : 100 * cum[i] >= q * count}

\* Where the loop over the buckets stops.
First(S) == CHOOSE i \in S : \A j \in S : i <= j

\* prevCount and prevBound.
Before(f, i) == IF i = 1 THEN 0 ELSE f[i - 1]

\* math.Round of num/den, neither of them negative.
Rounded(num, den) == (2 * num + den) \div (2 * den)

\* Mutant: the share of the upper bound is added, not that of the width.
InterpolatedTooFar(q, bounds, cum, count, i) ==
    LET inBucket == cum[i] - Before(cum, i)
    IN  IF inBucket = 0 THEN bounds[i]
        ELSE Before(bounds, i)
                + Rounded((q * count - 100 * Before(cum, i)) * bounds[i], 100 * inBucket)

\* Inside bucket i, in proportion to the rank; its bound if it is empty.
Interpolated(q, bounds, cum, count, i) ==
    LET inBucket == cum[i] - Before(cum, i)
        width == bounds[i] - Before(bounds, i)
    IN  IF inBucket = 0 THEN bounds[i]
        ELSE Before(bounds, i)
                + Rounded((q * count - 100 * Before(cum, i)) * width, 100 * inBucket)

histogramQuantile(q, bounds, cum, count) ==
    IF DOMAIN bounds = {} \/ count = 0 THEN 0
    ELSE IF Reached(q, cum, count) = {} THEN bounds[Cardinality(DOMAIN bounds)]
    ELSE Interpolated(q, bounds, cum, count, First(Reached(q, cum, count)))

-----------------------------------------------------------------------------
(***************************************************************************)
(* A histogram: what is observed into it, and, the reference, the          *)
(* observations themselves.                                                *)
(***************************************************************************)
CONSTANTS
    Bounds,    \* the upper bounds of the buckets
    Values,    \* what may be observed
    MaxCount   \* bound: how many observations a histogram gets

NumBounds == Cardinality(DOMAIN Bounds)

ASSUME BucketsAssumption ==
    /\ NumBounds \in Nat \ {0}
    /\ Bounds \in [1..NumBounds -> Nat]
    /\ \A i, j \in 1..NumBounds : i <= j => Bounds[i] <= Bounds[j]
ASSUME ValuesAssumption == Values \subseteq Nat

VARIABLE obs   \* the observations, in their order

QuantileInit == obs = <<>>

Observe(v) == Len(obs) < MaxCount /\ obs' = Append(obs, v)

\* A new, empty histogram takes the place of this one.
Replace == obs # <<>> /\ obs' = <<>>

QuantileNext == Replace \/ \E v \in Values : Observe(v)

QuantileSpec == QuantileInit /\ [][QuantileNext]_obs

\* What Write reports: the number of observations, and of those up to a bound.
CountOf(s) == Cardinality(DOMAIN s)
CumOf(s) == [i \in DOMAIN Bounds |-> Cardinality({k \in DOMAIN s : s[k] <= Bounds[i]})]

\* A percentile of extractHistogramSummary.
Estimate(q, s) == histogramQuantile(q, Bounds, CumOf(s), CountOf(s))

\* v is the observation of rank q% of s.
IsQuantile(v, q, s) ==
    /\ 100 * Cardinality({k \in DOMAIN s : s[k] < v}) < q * CountOf(s)
    /\ 100 * Cardinality({k \in DOMAIN s : s[k] <= v}) >= q * CountOf(s)

\* The estimate is in the bucket of the observation it estimates, and is the
\* last bound for one beyond it (histogramQuantile).
QuantileInBucket ==
    \A q \in {50, 95, 99} : \A v \in Values :
        IsQuantile(v, q, obs) =>
            \/ v > Bounds[NumBounds] /\ Estimate(q, obs) = Bounds[NumBounds]
            \/ \E i \in DOMAIN Bounds :
                 /\ Before(Bounds, i) < v \/ v = 0
                 /\ v <= Bounds[i]
                 /\ Before(Bounds, i) <= Estimate(q, obs)
                 /\ Estimate(q, obs) <= Bounds[i]

\* The summary never shows a P50 above its P95, or a P95 above its P99
\* (extractHistogramSummary).
PercentilesOrdered ==
    /\ Estimate(50, obs) <= Estimate(95, obs)
    /\ Estimate(95, obs) <= Estimate(99, obs)
=============================================================================
