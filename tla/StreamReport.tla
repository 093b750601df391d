------------------------------ MODULE StreamReport ------------------------------
(***************************************************************************)
(* The figures of `stream report` (stream/report.rs): what build() makes   *)
(* of the matched events, which are the book's entries that reached the    *)
(* minimum.  A source is its place in the alphabet of the names, as that   *)
(* is the order of the arrivals map; Listed is the order of the manifest.  *)
(* Lags and deltas are in units of the offset; the rate stays a fraction.  *)
(***************************************************************************)
EXTENDS MatchBook, Stats

CONSTANT Listed         \* the sources, in the order of the configuration

ASSUME ReportAssumption == /\ Source \subseteq Nat /\ Offset \subseteq Nat
                           /\ Listed \in Seq(Source) /\ Range(Listed) = Source
                           /\ Len(Listed) = Cardinality(Source)

Arrived(s) == {sig \in IntoEvents : events[sig][s] # Absent}

Earliest(sig) == Min({events[sig][s] : s \in Arrivers(sig)})

\* Mutant: every source of a tie is counted as the first.
LeadersAll(sig) == {s \in Arrivers(sig) : events[sig][s] = Earliest(sig)}

\* min_by_key keeps the first of equals: a tie goes to the first in the alphabet.
Leaders(sig) == {Min({s \in Arrivers(sig) : events[sig][s] = Earliest(sig)})}

FirstShare   == [s \in Source |-> Cardinality({sig \in IntoEvents : s \in Leaders(sig)})]
Completeness == [s \in Source |-> Cardinality(Arrived(s))]

\* The values of f, ascending.
Sorted(f) == LET keys == SetToSeq(DOMAIN f)
             IN  Ascending([i \in DOMAIN keys |-> f[keys[i]]])

Lags(s) == [sig \in Arrived(s) |-> events[sig][s] - Earliest(sig)]

EndpointPerformance(s) ==
    LET lags == Sorted(Lags(s))
    IN  [name |-> s, observations |-> Len(lags), first |-> FirstShare[s],
         rate |-> Q(FirstShare[s], IF lags = <<>> THEN 1 ELSE Len(lags)),
         p50 |-> NearestRank(lags, P50), p95 |-> NearestRank(lags, P95),
         p99 |-> NearestRank(lags, P99)]

Abs(x) == IF x < 0 THEN -x ELSE x

\* Negative where a came first.
Deltas(a, b) == [sig \in Arrived(a) \cap Arrived(b) |-> events[sig][a] - events[sig][b]]

\* pair()'s own quantile, which repeats the rank but not the sign of the type.
DeltaAt(d, q) == IF d = <<>> THEN 0
                 ELSE LET n == Len(d) IN d[Min({Max({Ceiling(q.num * n, q.den), 1}), n})]

Wins(a, b) ==
    LET d == Deltas(a, b)
    IN  [a    |-> Cardinality({sig \in DOMAIN d : d[sig] < 0}),
         b    |-> Cardinality({sig \in DOMAIN d : d[sig] > 0}),
         ties |-> Cardinality({sig \in DOMAIN d : d[sig] = 0})]

Pairwise(a, b) ==
    LET d == Sorted(Deltas(a, b))
    IN  [a |-> a, b |-> b, comparable |-> Len(d), wins |-> Wins(a, b),
         p50 |-> DeltaAt(d, P50), p90 |-> DeltaAt(d, P90), p95 |-> DeltaAt(d, P95),
         p99 |-> DeltaAt(d, P99), p999 |-> DeltaAt(d, P999),
         maxAbs |-> Max({0} \cup {Abs(d[i]) : i \in DOMAIN d})]

\* Each pair once, the source listed first as a.
Pairs == {p \in (1..Len(Listed)) \X (1..Len(Listed)) : p[1] < p[2]}

Build == [endpoints |-> [i \in DOMAIN Listed |-> EndpointPerformance(Listed[i])],
          firstShare |-> FirstShare, completeness |-> Completeness,
          pairwise |-> [p \in Pairs |-> Pairwise(Listed[p[1]], Listed[p[2]])]]

\* html(): max_by keeps the last of equals.
Fastest ==
    LET top == Max({FirstShare[s] : s \in Source})
    IN  Listed[Max({i \in DOMAIN Listed : FirstShare[Listed[i]] = top})]

-------------------------------------------------------------------------------
\* The percentiles shown, computed by two pieces of code from sorted lists, are
\* quantiles of the unsorted lags and of the unsorted signed deltas.
PercentilesAreRanks ==
    LET r == Build
    IN  /\ \A i \in DOMAIN Listed :
             LET e == r.endpoints[i]  lags == Lags(e.name)
             IN  e.observations > 0 =>
                   /\ IsQuantile(e.p50, lags, P50) /\ IsQuantile(e.p95, lags, P95)
                   /\ IsQuantile(e.p99, lags, P99)
        /\ \A p \in Pairs :
             LET w == r.pairwise[p]  d == Deltas(w.a, w.b)
             IN  w.comparable > 0 =>
                   /\ IsQuantile(w.p50, d, P50) /\ IsQuantile(w.p90, d, P90)
                   /\ IsQuantile(w.p95, d, P95) /\ IsQuantile(w.p99, d, P99)
                   /\ IsQuantile(w.p999, d, P999)

\* Every matched event is one source's first detection, ties included, and what
\* the tables say of the same events agrees although each is computed in its own
\* pass: a source is never first where another strictly beats it, the pairs add
\* up and are as many as the completeness demands, a source that is first in a
\* share q of its observations shows no lag up to the q-th percentile, and the
\* headline's median advantage goes with winning at least half of the pairs.
TablesAgree ==
    LET r == Build
    IN  /\ SumFunction(r.firstShare) = matched
        /\ \A s \in Source : r.firstShare[s] <= r.firstShare[Fastest]
        /\ \A i \in DOMAIN Listed :
             LET e == r.endpoints[i]
             IN  /\ e.observations = r.completeness[e.name]
                 /\ e.first > 0 =>
                      /\ 2 * e.rate.num >= e.rate.den => e.p50 = 0
                      /\ 20 * e.rate.num >= 19 * e.rate.den => e.p95 = 0
        /\ \A p \in Pairs :
             LET w == r.pairwise[p]
             IN  /\ w.comparable = w.wins.a + w.wins.b + w.wins.ties
                 /\ w.comparable + matched >= r.completeness[w.a] + r.completeness[w.b]
                 /\ r.firstShare[w.a] + w.wins.b <= r.completeness[w.a]
                 /\ r.firstShare[w.b] + w.wins.a <= r.completeness[w.b]
                 /\ w.p50 < 0 <=> w.comparable > 0 /\ 2 * w.wins.a >= w.comparable
                 /\ Abs(w.p999) <= w.maxAbs
================================================================================
