--------------------------------- MODULE Stats ---------------------------------
(***************************************************************************)
(* solbench_core's statistics (stats.rs): nearest-rank percentiles and the *)
(* summary of a LatencyRecorder, whose samples are a sequence.             *)
(*                                                                         *)
(* A quantile is a fraction.  The code multiplies in f64: for the          *)
(* quantiles it uses, and any number of samples a run can hold, the        *)
(* product is whole exactly when the fraction's is, so that ceil() agrees. *)
(* Mean and deviation are cut to whole nanoseconds, as the code does.      *)
(***************************************************************************)
EXTENDS Integers, Sequences, SequencesExt, Sorting

Q(num, den) == [num |-> num, den |-> den]

P50  == Q(1, 2)
P90  == Q(9, 10)
P95  == Q(19, 20)
P99  == Q(99, 100)
P999 == Q(999, 1000)

\* The least whole number that is not below a / b.
Ceiling(a, b) == (a + b - 1) \div b

\* Mutant: floor for ceil.
RankFloor(q, n) == LET rank == (q.num * n) \div q.den
                   IN  IF rank < 1 THEN 1 ELSE IF rank > n THEN n ELSE rank

\* The rank the code takes, counted from 1, of n samples.
Rank(q, n) == LET rank == Ceiling(q.num * n, q.den)
              IN  IF rank < 1 THEN 1 ELSE IF rank > n THEN n ELSE rank

NearestRank(sorted, q) ==
    IF sorted = <<>> THEN 0
    ELSE IF q.num <= 0 THEN sorted[1] ELSE sorted[Rank(q, Len(sorted))]

\* floor(sqrt(v) / n): the root of the mean square distance, for v of n samples.
RootMean(v, n) == CHOOSE r \in 0..v : /\ (r * n) * (r * n) <= v
                                      /\ ((r + 1) * n) * ((r + 1) * n) > v

Summary(samples) ==
    LET s       == Ascending(samples)
        n       == Len(s)
        sum     == SumFunction(s)
        squares == SumFunction([i \in DOMAIN s |-> s[i] * s[i]])
    IN  [count |-> n, min |-> s[1], max |-> s[n], mean |-> sum \div n,
         stddev |-> RootMean(n * squares - sum * sum, n),
         p50 |-> NearestRank(s, P50), p90 |-> NearestRank(s, P90),
         p95 |-> NearestRank(s, P95), p99 |-> NearestRank(s, P99),
         p999 |-> NearestRank(s, P999)]

-------------------------------------------------------------------------------
\* What a percentile means, without sorting: of the values of f, the share q is
\* at or below x, and less than that share is below it.
IsQuantile(x, f, q) ==
    LET n == Cardinality(DOMAIN f)
    IN  /\ Cardinality({i \in DOMAIN f : f[i] <= x}) * q.den >= q.num * n
        /\ Cardinality({i \in DOMAIN f : f[i] < x}) * q.den < q.num * n
================================================================================
