-------------------------------- MODULE Stats -------------------------------
(***************************************************************************)
(* Package stats: what it computes from the samples of one side.           *)
(*                                                                         *)
(* A float64 is an exact rational here, <<numerator, denominator>> with a  *)
(* positive denominator, and a sample is a natural number.  A standard     *)
(* deviation is known by its square.                                       *)
(***************************************************************************)
EXTENDS Integers, Sequences, FiniteSets, SequencesExt

Less(p, q) == p[1] * q[2] < q[1] * p[2]
Positive(p) == p[1] > 0
Whole(n) == <<n, 1>>

(* slices.Sort: the k-th value has fewer than k below it, and k up to it.  *)
Sorted(samples) ==
  [k \in DOMAIN samples |->
     CHOOSE v \in Range(samples) :
       /\ Cardinality({i \in DOMAIN samples : samples[i] < v}) < k
       /\ Cardinality({i \in DOMAIN samples : samples[i] <= v}) >= k]

Total(samples) ==
  LET sum[n \in 0..Len(samples)] == IF n = 0 THEN 0 ELSE sum[n - 1] + samples[n]
  IN  sum[Len(samples)]
Squares(samples) == Total([i \in DOMAIN samples |-> samples[i] * samples[i]])

MeanFloat(samples) == <<Total(samples), Len(samples)>>

(* percentile: the n/d quantile, interpolated between the closest ranks.   *)
Percentile(sorted, n, d) ==
  LET pos  == n * (Len(sorted) - 1)
      lo   == pos \div d
      frac == pos % d
      hi   == IF frac = 0 THEN lo ELSE lo + 1
  IN <<sorted[lo + 1] * (d - frac) + sorted[hi + 1] * frac, d>>

MedianSorted(sorted) ==
  LET n == Len(sorted)
  IN IF n % 2 = 1 THEN Whole(sorted[n \div 2 + 1])
     ELSE <<sorted[n \div 2] + sorted[n \div 2 + 1], 2>>

(* The square of the coefficient of variation, and the robust one.  Both   *)
(* are 0 with a single sample and where they would divide by zero.         *)
SquaredCV(samples) ==
  LET n == Len(samples)
      s == Total(samples)
  IN IF n < 2 \/ s = 0 THEN Whole(0)
     ELSE <<n * (n * Squares(samples) - s * s), (n - 1) * s * s>>

RobustCV(sorted) ==
  LET median == MedianSorted(sorted)
      high   == Percentile(sorted, 3, 4)
      low    == Percentile(sorted, 1, 4)
  IN IF Len(sorted) < 2 \/ ~Positive(median) THEN Whole(0)
     ELSE <<(high[1] - low[1]) * median[2] * 1000, 4 * median[1] * 1349>>

Summarize(samples) ==
  LET sorted == Sorted(samples)
  IN IF samples = <<>> THEN [count |-> 0]
     ELSE [count |-> Len(samples), mean |-> MeanFloat(samples),
           median |-> MedianSorted(sorted), min |-> sorted[1], max |-> Last(sorted),
           cv2 |-> SquaredCV(samples), robust |-> RobustCV(sorted)]

(* Summary.Value.                                                          *)
Value(s, statistic) == IF statistic = "mean" THEN s.mean ELSE s.median

(* Summary.Dispersion against max_cv, in percent.                          *)
Noisier(s, statistic, maxCV) ==
  IF statistic = "mean" THEN Less(<<maxCV * maxCV, 10000>>, s.cv2)
  ELSE Less(<<maxCV, 100>>, s.robust)

(* Aggregation.Percentile.                                                 *)
PercentOf == [p5 |-> 5, p90 |-> 90, p95 |-> 95, p99 |-> 99]

(* Aggregate: the value a budget is on.                                    *)
Aggregate(samples, agg) ==
  LET sorted == Sorted(samples)
  IN CASE agg = "min" -> Whole(sorted[1])
       [] agg = "max" -> Whole(Last(sorted))
       [] agg = "mean" -> MeanFloat(samples)
       [] agg = "median" -> MedianSorted(sorted)
       [] OTHER -> Percentile(sorted, PercentOf[agg], 100)
=============================================================================
