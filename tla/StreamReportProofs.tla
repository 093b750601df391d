--------------------------- MODULE StreamReportProofs ---------------------------
(***************************************************************************)
(* Theorems about the figures of `stream report`, for every number of      *)
(* sources and events and all offsets.  The figures are functions of the   *)
(* book's entries: they are right in every state in which the book's own   *)
(* invariant holds.                                                        *)
(***************************************************************************)
EXTENDS StreamReport, MatchBookProofs, AlgorithmProofs

Shown == {P50, P90, P95, P99, P999}

\* The quantiles are proper fractions.
LEMMA ShownFacts ==
    \A q \in Shown : q.num \in Nat /\ q.den \in Nat /\ 0 < q.num /\ q.num <= q.den
BY DEF Shown, P50, P90, P95, P99, P999, Q

\* A matched event has an arrival.
LEMMA EventFacts ==
    ASSUME Inv
    PROVE  /\ IntoEvents \subseteq Sig
           /\ \A sig \in IntoEvents : Arrivers(sig) # {}
           /\ \A sig \in Sig : \A s \in Arrivers(sig) :
                s \in Source /\ s \in Nat /\ events[sig][s] \in Nat
<1>1. \A sig \in IntoEvents : Arrivers(sig) # {}
  BY FS_EmptySet, MinSourcesAssumption DEF IntoEvents
<1>2. \A sig \in Sig : \A s \in Arrivers(sig) :
        s \in Source /\ s \in Nat /\ events[sig][s] \in Nat
  <2>1. Source \subseteq Nat /\ Offset \subseteq Nat
    BY ReportAssumption
  <2>2. ASSUME NEW sig \in Sig, NEW s \in Arrivers(sig)
        PROVE  s \in Source /\ events[sig][s] \in Offset
    <3>1. events \in [Sig -> [Source -> Offset \cup {Absent}]]
      BY DEF Inv, TypeOK
    <3>2. s \in Source /\ events[sig][s] # Absent
      BY DEF Arrivers
    <3>3. QED
      BY <3>1, <3>2
  <2>3. QED
    BY <2>1, <2>2
<1>3. QED
  BY <1>1, <1>2 DEF IntoEvents

\* No arrival of an event is before its earliest.
LEMMA EarliestFacts ==
    ASSUME Inv, NEW sig \in IntoEvents
    PROVE  /\ Earliest(sig) \in Nat
           /\ \E s \in Arrivers(sig) : events[sig][s] = Earliest(sig)
           /\ \A s \in Arrivers(sig) : Earliest(sig) <= events[sig][s]
<1> DEFINE T == {events[sig][s] : s \in Arrivers(sig)}
<1>1. T \subseteq Nat /\ T # {}
  BY EventFacts
<1>2. Earliest(sig) = Min(T)
  BY DEF Earliest
<1>3. Min(T) \in T /\ \A y \in T : Min(T) <= y
  <2> HIDE DEF T
  <2>1. QED
    BY <1>1, MinFacts
<1> HIDE DEF Earliest
<1>4. QED
  BY <1>1, <1>2, <1>3

\* One of the sources that saw the event first is its leader.
LEMMA LeaderFacts ==
    ASSUME Inv, NEW sig \in IntoEvents
    PROVE  \E s \in Arrivers(sig) : Leaders(sig) = {s} /\ events[sig][s] = Earliest(sig)
<1> DEFINE T == {s \in Arrivers(sig) : events[sig][s] = Earliest(sig)}
<1>1. T \subseteq Nat /\ T # {}
  BY EventFacts, EarliestFacts
<1>2. Leaders(sig) = {Min(T)}
  BY DEF Leaders
<1>3. Min(T) \in T
  <2> HIDE DEF T
  <2>1. QED
    BY <1>1, MinFacts
<1>4. QED
  BY <1>2, <1>3

\* The lags of a source and the deltas of a pair, over finitely many events.
LEMMA FigureTypes ==
    ASSUME Inv, NEW s \in Source, NEW t \in Source
    PROVE  /\ IsFiniteSet(Arrived(s)) /\ Arrived(s) \subseteq IntoEvents
           /\ Lags(s) \in [Arrived(s) -> Int] /\ \A sig \in Arrived(s) : Lags(s)[sig] >= 0
           /\ IsFiniteSet(Arrived(s) \cap Arrived(t))
           /\ Deltas(s, t) \in [Arrived(s) \cap Arrived(t) -> Int]
<1>1. Arrived(s) \subseteq IntoEvents /\ IsFiniteSet(IntoEvents)
  BY DEF Arrived, Inv
<1>2. IsFiniteSet(Arrived(s))
  BY <1>1, FS_Subset
<1>3. \A u \in {s, t} : \A sig \in Arrived(u) :
        u \in Arrivers(sig) /\ sig \in IntoEvents /\ events[sig][u] \in Nat
  BY EventFacts DEF Arrived, Arrivers
<1>4. \A sig \in Arrived(s) : Earliest(sig) \in Nat /\ Earliest(sig) <= events[sig][s]
  BY <1>3, EarliestFacts
<1>5. Lags(s) \in [Arrived(s) -> Int] /\ \A sig \in Arrived(s) : Lags(s)[sig] >= 0
  BY <1>3, <1>4 DEF Lags
<1>6. Deltas(s, t) \in [Arrived(s) \cap Arrived(t) -> Int]
  BY <1>3 DEF Deltas
<1>7. IsFiniteSet(Arrived(s) \cap Arrived(t))
  BY <1>2, FS_Intersection
<1>8. QED
  BY <1>1, <1>2, <1>5, <1>6, <1>7

-------------------------------------------------------------------------------
\* Sorted puts the values of a finite function in order: some bijection leads from
\* the places of the sequence to where its values come from.
LEMMA SortedFacts ==
    ASSUME NEW D, IsFiniteSet(D), NEW f \in [D -> Int]
    PROVE  /\ Cardinality(D) \in Nat
           /\ Sorted(f) \in Seq(Int) /\ Len(Sorted(f)) = Cardinality(D)
           /\ \A k \in 1..Len(Sorted(f)) : \E x \in D : Sorted(f)[k] = f[x]
           /\ Cardinality(D) >= 1 => \A q \in Shown : IsQuantile(NearestRank(Sorted(f), q), f, q)
<1> DEFINE n == Cardinality(D)
<1>1. n \in Nat
  BY FS_CardinalityType
<1>2. PICK p \in Bijection(1..n, D) : /\ Sorted(f) = [k \in 1..n |-> f[p[k]]]
                                      /\ \A i, j \in 1..n : i <= j => f[p[i]] <= f[p[j]]
  <2>1. DOMAIN f = D
    OBVIOUS
  <2>2. QED
    BY <2>1, SortedValues DEF Sorted
<1> HIDE DEF n
<1>3. \A k \in 1..n : p[k] \in D /\ f[p[k]] \in Int
  BY <1>2 DEF Bijection, Injection
<1>4. Sorted(f) \in Seq(Int) /\ Len(Sorted(f)) = n
  BY <1>1, <1>2, <1>3
<1>5. \A k \in 1..n : Sorted(f)[k] = f[p[k]]
  BY <1>2
<1>6. ASSUME n >= 1, NEW q \in Shown PROVE IsQuantile(NearestRank(Sorted(f), q), f, q)
  <2>1. q.num \in Nat /\ q.den \in Nat /\ 0 < q.num /\ q.num <= q.den
    BY ShownFacts
  <2>2. QED
    BY <1>1, <1>2, <1>6, <2>1, RankOfSorted, SMTT(20)
<1>7. QED
  BY <1>1, <1>3, <1>4, <1>5, <1>6 DEF n

\* A percentile of at least one value is one of the values.
LEMMA RankIsAValue ==
    ASSUME NEW s \in Seq(Int), Len(s) >= 1, NEW q \in Shown
    PROVE  \E k \in 1..Len(s) : NearestRank(s, q) = s[k]
<1>1. PICK n \in Nat : n = Len(s) /\ n >= 1
  OBVIOUS
<1>2. Rank(q, n) \in 1..n
  BY <1>1, ShownFacts, RankFacts
<1>3. NearestRank(s, q) = s[Rank(q, n)]
  <2>1. s # <<>> /\ ~(q.num <= 0)
    BY <1>1, ShownFacts
  <2>2. QED
    BY <1>1, <2>1 DEF NearestRank
<1>4. QED
  BY <1>1, <1>2, <1>3

\* pair()'s own quantile is that of the summaries.
LEMMA DeltaAtIsRank ==
    ASSUME NEW d \in Seq(Int), Len(d) >= 1, NEW q \in Shown
    PROVE  DeltaAt(d, q) = NearestRank(d, q)
<1>1. PICK n \in Nat : n = Len(d) /\ n >= 1
  OBVIOUS
<1>2. PICK k, e \in Nat : q.num = k /\ q.den = e /\ 0 < k /\ k <= e
  BY ShownFacts
<1>3. PICK c \in Nat : c = Ceiling(k * n, e)
  <2>1. k * n \in Nat /\ e > 0
    BY <1>1, <1>2
  <2>2. QED
    BY <1>2, <2>1, CeilingFacts
<1>4. PICK m \in Nat : m = Max({c, 1}) /\ m \in {c, 1} /\ m >= c /\ m >= 1
  <2>1. {c, 1} \in SUBSET Int /\ {c, 1} # {}
    BY <1>3
  <2>2. IsFiniteSet({c, 1})
    <3>1. IsFiniteSet({c}) /\ {c, 1} = {c} \cup {1}
      BY FS_Singleton
    <3>2. QED
      BY <3>1, FS_AddElement, ZenonT(30)
  <2>3. Max({c, 1}) \in {c, 1} /\ \A y \in {c, 1} : Max({c, 1}) >= y
    BY <2>1, <2>2, MaxFacts
  <2>4. QED
    BY <1>3, <2>3
<1>5. PICK r \in Nat : r = Min({m, n}) /\ r \in {m, n} /\ r <= m /\ r <= n
  <2>1. {m, n} \in SUBSET Nat /\ {m, n} # {}
    BY <1>1, <1>4
  <2>2. Min({m, n}) \in {m, n} /\ \A y \in {m, n} : Min({m, n}) <= y
    BY <2>1, MinFacts
  <2>3. QED
    BY <2>1, <2>2
<1>6. Rank(q, n) = r
  <2>1. Rank(q, n) = IF c < 1 THEN 1 ELSE IF c > n THEN n ELSE c
    BY <1>2, <1>3 DEF Rank
  <2>2. QED
    BY <1>1, <1>3, <1>4, <1>5, <2>1
<1>7. d # <<>> /\ ~(k <= 0)
  BY <1>1, <1>2
<1>8. DeltaAt(d, q) = d[r]
  BY <1>1, <1>2, <1>3, <1>4, <1>5, <1>7 DEF DeltaAt
<1>9. NearestRank(d, q) = d[Rank(q, n)]
  BY <1>1, <1>2, <1>7 DEF NearestRank
<1>10. QED
  BY <1>6, <1>8, <1>9

-------------------------------------------------------------------------------
\* The sequence a percentile of a pair's table is taken of, and what it is.
LEMMA PairFacts ==
    ASSUME Inv, NEW a \in Source, NEW b \in Source
    PROVE  LET w == Pairwise(a, b)
               n == Cardinality(Arrived(a) \cap Arrived(b))
               d == Sorted(Deltas(a, b))
           IN  /\ n \in Nat /\ w.comparable = n /\ DOMAIN Deltas(a, b) = Arrived(a) \cap Arrived(b)
               /\ d \in Seq(Int) /\ Len(d) = n
               /\ n = 0 => w.p50 = 0 /\ w.p999 = 0
               /\ n >= 1 => /\ IsQuantile(w.p50, Deltas(a, b), P50)
                            /\ IsQuantile(w.p90, Deltas(a, b), P90)
                            /\ IsQuantile(w.p95, Deltas(a, b), P95)
                            /\ IsQuantile(w.p99, Deltas(a, b), P99)
                            /\ IsQuantile(w.p999, Deltas(a, b), P999)
                            /\ \E k \in 1..n : w.p50 = d[k]
                            /\ \E k \in 1..n : w.p999 = d[k]
<1> DEFINE w == Pairwise(a, b)
           D == Arrived(a) \cap Arrived(b)
           n == Cardinality(D)
           d == Sorted(Deltas(a, b))
<1>1. IsFiniteSet(D) /\ Deltas(a, b) \in [D -> Int]
  BY FigureTypes
<1>2. /\ n \in Nat /\ d \in Seq(Int) /\ Len(d) = n
      /\ n >= 1 => \A q \in Shown : IsQuantile(NearestRank(d, q), Deltas(a, b), q)
  BY <1>1, SortedFacts
<1>3. DOMAIN Deltas(a, b) = D
  BY <1>1
<1> HIDE DEF d, n, D
<1>4. /\ w.comparable = Len(d)
      /\ w.p50 = DeltaAt(d, P50) /\ w.p90 = DeltaAt(d, P90) /\ w.p95 = DeltaAt(d, P95)
      /\ w.p99 = DeltaAt(d, P99) /\ w.p999 = DeltaAt(d, P999)
  BY DEF Pairwise, d
<1> HIDE DEF w
<1>5. {P50, P90, P95, P99, P999} \subseteq Shown
  BY DEF Shown
<1>6. ASSUME n = 0 PROVE w.p50 = 0 /\ w.p999 = 0
  <2>1. d = <<>>
    BY <1>2, <1>6
  <2>2. QED
    BY <1>4, <2>1 DEF DeltaAt
<1>7. ASSUME n >= 1 PROVE \A q \in Shown : /\ IsQuantile(DeltaAt(d, q), Deltas(a, b), q)
                                           /\ \E k \in 1..n : DeltaAt(d, q) = d[k]
  <2> TAKE q \in Shown
  <2>1. DeltaAt(d, q) = NearestRank(d, q)
    BY <1>2, <1>7, DeltaAtIsRank
  <2>2. \E k \in 1..Len(d) : NearestRank(d, q) = d[k]
    BY <1>2, <1>7, RankIsAValue
  <2>3. QED
    BY <1>2, <1>7, <2>1, <2>2
<1>8. QED
  BY <1>2, <1>3, <1>4, <1>5, <1>6, <1>7 DEF d, n, w, D

\* The same of a source's row.
LEMMA RowFacts ==
    ASSUME Inv, NEW s \in Source
    PROVE  LET e == EndpointPerformance(s)
               n == Cardinality(Arrived(s))
           IN  /\ n \in Nat /\ e.observations = n /\ DOMAIN Lags(s) = Arrived(s)
               /\ e.first = FirstShare[s]
               /\ n >= 1 => /\ IsQuantile(e.p50, Lags(s), P50)
                            /\ IsQuantile(e.p95, Lags(s), P95)
                            /\ IsQuantile(e.p99, Lags(s), P99)
                            /\ e.rate.num = FirstShare[s] /\ e.rate.den = n
                            /\ \E sig \in Arrived(s) : e.p50 = Lags(s)[sig]
                            /\ \E sig \in Arrived(s) : e.p95 = Lags(s)[sig]
<1> DEFINE e == EndpointPerformance(s)
           D == Arrived(s)
           n == Cardinality(D)
           d == Sorted(Lags(s))
<1>1. IsFiniteSet(D) /\ Lags(s) \in [D -> Int]
  BY FigureTypes
<1>2. /\ n \in Nat /\ d \in Seq(Int) /\ Len(d) = n
      /\ \A k \in 1..Len(d) : \E sig \in D : d[k] = Lags(s)[sig]
      /\ n >= 1 => \A q \in Shown : IsQuantile(NearestRank(d, q), Lags(s), q)
  BY <1>1, SortedFacts
<1>3. DOMAIN Lags(s) = D
  BY <1>1
<1> HIDE DEF d, n, D
<1>4. /\ e.observations = Len(d) /\ e.first = FirstShare[s]
      /\ e.rate = Q(FirstShare[s], IF d = <<>> THEN 1 ELSE Len(d))
      /\ e.p50 = NearestRank(d, P50) /\ e.p95 = NearestRank(d, P95) /\ e.p99 = NearestRank(d, P99)
  BY DEF EndpointPerformance, d
<1> HIDE DEF e
<1>5. {P50, P95, P99} \subseteq Shown
  BY DEF Shown
<1>6. ASSUME n >= 1 PROVE \A q \in Shown : \E sig \in D : NearestRank(d, q) = Lags(s)[sig]
  <2> TAKE q \in Shown
  <2>1. PICK k \in 1..Len(d) : NearestRank(d, q) = d[k]
    BY <1>2, <1>6, RankIsAValue
  <2>2. QED
    BY <1>2, <2>1
<1>7. ASSUME n >= 1 PROVE e.rate.num = FirstShare[s] /\ e.rate.den = n
  <2>1. d # <<>>
    BY <1>2, <1>7
  <2>2. QED
    BY <1>2, <1>4, <2>1 DEF Q
<1>8. QED
  BY <1>2, <1>3, <1>4, <1>5, <1>6, <1>7 DEF d, n, e, D

\* The rows of the endpoints' table and the pairs, as build() leaves them.
LEMMA BuildFacts ==
    /\ \A i \in DOMAIN Listed : /\ Listed[i] \in Source
                                /\ Build.endpoints[i] = EndpointPerformance(Listed[i])
                                /\ Build.endpoints[i].name = Listed[i]
    /\ Build.firstShare = FirstShare /\ Build.completeness = Completeness
    /\ \A p \in Pairs : /\ Listed[p[1]] \in Source /\ Listed[p[2]] \in Source
                        /\ Build.pairwise[p] = Pairwise(Listed[p[1]], Listed[p[2]])
                        /\ Build.pairwise[p].a = Listed[p[1]]
                        /\ Build.pairwise[p].b = Listed[p[2]]
<1>1. \A i \in DOMAIN Listed : Listed[i] \in Source
  BY ReportAssumption
<1>2. \A s : EndpointPerformance(s).name = s
  BY DEF EndpointPerformance
<1>3. \A a, b : Pairwise(a, b).a = a /\ Pairwise(a, b).b = b
  BY DEF Pairwise
<1>4. /\ Build.firstShare = FirstShare /\ Build.completeness = Completeness
      /\ Build.endpoints = [i \in DOMAIN Listed |-> EndpointPerformance(Listed[i])]
      /\ Build.pairwise = [p \in Pairs |-> Pairwise(Listed[p[1]], Listed[p[2]])]
  BY DEF Build
<1>5. \A p \in Pairs : p[1] \in DOMAIN Listed /\ p[2] \in DOMAIN Listed
  BY ReportAssumption DEF Pairs
<1>6. QED
  BY <1>1, <1>2, <1>3, <1>4, <1>5

\* The percentiles are right for every book.
LEMMA PercentilesInv == Inv => PercentilesAreRanks
<1> SUFFICES ASSUME Inv PROVE PercentilesAreRanks
  OBVIOUS
<1>1. ASSUME NEW i \in DOMAIN Listed
      PROVE  LET e == Build.endpoints[i]  lags == Lags(e.name)
             IN  e.observations > 0 =>
                   /\ IsQuantile(e.p50, lags, P50) /\ IsQuantile(e.p95, lags, P95)
                   /\ IsQuantile(e.p99, lags, P99)
  <2>1. PICK s \in Source : s = Listed[i]
    BY BuildFacts
  <2>2. Build.endpoints[i] = EndpointPerformance(s) /\ Build.endpoints[i].name = s
    BY <2>1, BuildFacts
  <2>3. LET e == EndpointPerformance(s)
        IN  e.observations > 0 => /\ IsQuantile(e.p50, Lags(s), P50)
                                  /\ IsQuantile(e.p95, Lags(s), P95)
                                  /\ IsQuantile(e.p99, Lags(s), P99)
    BY RowFacts
  <2>4. QED
    BY <2>2, <2>3
<1>2. ASSUME NEW p \in Pairs
      PROVE  LET w == Build.pairwise[p]  d == Deltas(w.a, w.b)
             IN  w.comparable > 0 =>
                   /\ IsQuantile(w.p50, d, P50) /\ IsQuantile(w.p90, d, P90)
                   /\ IsQuantile(w.p95, d, P95) /\ IsQuantile(w.p99, d, P99)
                   /\ IsQuantile(w.p999, d, P999)
  <2>1. PICK a, b \in Source : a = Listed[p[1]] /\ b = Listed[p[2]]
    BY BuildFacts
  <2>2. Build.pairwise[p] = Pairwise(a, b) /\ Build.pairwise[p].a = a /\ Build.pairwise[p].b = b
    BY <2>1, BuildFacts
  <2>3. LET w == Pairwise(a, b)  d == Deltas(a, b)
        IN  w.comparable > 0 =>
              /\ IsQuantile(w.p50, d, P50) /\ IsQuantile(w.p90, d, P90)
              /\ IsQuantile(w.p95, d, P95) /\ IsQuantile(w.p99, d, P99)
              /\ IsQuantile(w.p999, d, P999)
    <3> DEFINE n == Cardinality(Arrived(a) \cap Arrived(b))
    <3>1. n \in Nat /\ Pairwise(a, b).comparable = n
      BY PairFacts
    <3>2. n >= 1 => /\ IsQuantile(Pairwise(a, b).p50, Deltas(a, b), P50)
                    /\ IsQuantile(Pairwise(a, b).p90, Deltas(a, b), P90)
                    /\ IsQuantile(Pairwise(a, b).p95, Deltas(a, b), P95)
                    /\ IsQuantile(Pairwise(a, b).p99, Deltas(a, b), P99)
                    /\ IsQuantile(Pairwise(a, b).p999, Deltas(a, b), P999)
      BY PairFacts
    <3> HIDE DEF n
    <3>3. QED
      BY <3>1, <3>2
  <2>4. QED
    BY <2>2, <2>3
<1>3. QED
  BY <1>1, <1>2 DEF PercentilesAreRanks

\* Whatever the offsets, the percentiles of both tables are quantiles of the
\* unsorted lags and deltas.
THEOREM ReportPercentilesAreRanks == Spec => []PercentilesAreRanks
<1>1. QED
  BY PercentilesInv, BookInv, PTL

-------------------------------------------------------------------------------
Firsts(s) == {sig \in IntoEvents : s \in Leaders(sig)}

\* Finite sets of events and their numbers.
LEMMA EventCounts ==
    ASSUME Inv
    PROVE  \A E \in SUBSET IntoEvents : IsFiniteSet(E) /\ Cardinality(E) \in Nat
BY FS_Subset, FS_CardinalityType DEF Inv

\* Every event has one leader, so the shares add up to the events.
LEMMA SharesSum ==
    ASSUME Inv
    PROVE  SumFunction(FirstShare) = matched
<1> DEFINE lead(sig) == CHOOSE s \in Source : Leaders(sig) = {s}
           g == [sig \in IntoEvents |-> lead(sig)]
<1>1. \A sig \in IntoEvents : lead(sig) \in Source /\ Leaders(sig) = {lead(sig)}
  <2> SUFFICES ASSUME NEW sig \in IntoEvents PROVE \E s \in Source : Leaders(sig) = {s}
    OBVIOUS
  <2>1. QED
    BY LeaderFacts DEF Arrivers
<1> HIDE DEF lead
<1>2. g \in [IntoEvents -> Source]
  BY <1>1
<1>3. \A s \in Source : FirstShare[s] = Cardinality({sig \in IntoEvents : g[sig] = s})
  <2> TAKE s \in Source
  <2>1. {sig \in IntoEvents : s \in Leaders(sig)} = {sig \in IntoEvents : g[sig] = s}
    BY <1>1
  <2>2. FirstShare[s] = Cardinality({sig \in IntoEvents : s \in Leaders(sig)})
    BY DEF FirstShare
  <2>3. QED
    BY <2>1, <2>2
<1> HIDE DEF g
<1>4. SumFunctionOnSet(FirstShare, Source) = Cardinality(IntoEvents)
  <2>1. IsFiniteSet(IntoEvents) /\ IsFiniteSet(Source)
    BY SourceAssumption DEF Inv
  <2>2. QED
    BY <1>2, <1>3, <2>1, SumOfCounts
<1>5. DOMAIN FirstShare = Source
  BY DEF FirstShare
<1>6. QED
  BY <1>4, <1>5 DEF SumFunction, Inv, MatchedAgrees

\* The source of the headline has the greatest share.
LEMMA FastestLeads ==
    ASSUME Inv, NEW s \in Source
    PROVE  FirstShare[s] <= FirstShare[Fastest]
<1> DEFINE T == {FirstShare[t] : t \in Source}
           top == Max(T)
           P == {i \in DOMAIN Listed : FirstShare[Listed[i]] = top}
<1>1. FirstShare \in [Source -> Nat]
  <2>1. \A t \in Source : {sig \in IntoEvents : t \in Leaders(sig)} \in SUBSET IntoEvents
    OBVIOUS
  <2>2. QED
    BY <2>1, EventCounts DEF FirstShare
<1>2. T \subseteq Int /\ T # {} /\ IsFiniteSet(T)
  <2>1. FirstShare \in Surjection(Source, T)
    BY <1>1 DEF Surjection
  <2>2. IsFiniteSet(T)
    <3> HIDE DEF T
    <3>1. QED
      BY <2>1, SourceAssumption, FS_Surjection
  <2>3. QED
    BY <1>1, <2>2
<1>3. top \in T /\ \A y \in T : top >= y
  <2> HIDE DEF T
  <2>1. QED
    BY <1>2, MaxFacts
<1> HIDE DEF top
<1>4. PICK t \in Source : FirstShare[t] = top
  BY <1>3
<1>5. Listed \in Seq(Source) /\ \E i \in DOMAIN Listed : Listed[i] = t
  BY ReportAssumption DEF Range
<1>6. P # {} /\ P \in SUBSET (1..Len(Listed))
  BY <1>4, <1>5
<1>7. P \in SUBSET Int /\ IsFiniteSet(P)
  <2>1. IsFiniteSet(1..Len(Listed))
    BY <1>5, Interval
  <2> HIDE DEF P
  <2>2. IsFiniteSet(P)
    BY <1>6, <2>1, FS_Subset
  <2>3. P \in SUBSET Int
    BY <1>6
  <2>4. QED
    BY <2>2, <2>3
<1>8. Max(P) \in P
  <2> HIDE DEF P
  <2>1. QED
    BY <1>6, <1>7, MaxFacts
<1>9. Fastest = Listed[Max(P)]
  BY DEF Fastest, top
<1>10. FirstShare[Fastest] = top
  BY <1>8, <1>9
<1>11. QED
  BY <1>1, <1>3, <1>10

\* Where a source is first it has arrived, and with no lag.
LEMMA FirstsFacts ==
    ASSUME Inv, NEW s \in Source
    PROVE  /\ Firsts(s) \in SUBSET Arrived(s)
           /\ FirstShare[s] = Cardinality(Firsts(s))
           /\ \A sig \in Firsts(s) : Lags(s)[sig] = 0
<1>1. ASSUME NEW sig \in Firsts(s)
      PROVE  sig \in Arrived(s) /\ events[sig][s] = Earliest(sig) /\ Earliest(sig) \in Nat
  <2>1. sig \in IntoEvents /\ s \in Leaders(sig)
    BY DEF Firsts
  <2>2. s \in Arrivers(sig) /\ events[sig][s] = Earliest(sig)
    BY <2>1, LeaderFacts
  <2>3. Earliest(sig) \in Nat
    BY <2>1, EarliestFacts
  <2>4. QED
    BY <2>1, <2>2, <2>3 DEF Arrived, Arrivers
<1>2. \A sig \in Firsts(s) : Lags(s)[sig] = 0
  BY <1>1 DEF Lags
<1>3. FirstShare[s] = Cardinality(Firsts(s))
  BY DEF FirstShare, Firsts
<1>4. QED
  BY <1>1, <1>2, <1>3

\* A source that is first in the share q of its events has no lag at the quantile q.
LEMMA NoLagUpTo ==
    ASSUME Inv, NEW s \in Source, NEW q \in Shown, NEW x, \E sig \in Arrived(s) : x = Lags(s)[sig],
           IsQuantile(x, Lags(s), q),
           q.den * FirstShare[s] >= q.num * Cardinality(Arrived(s))
    PROVE  x = 0
<1> DEFINE Below == {sig \in Arrived(s) : Lags(s)[sig] < x}
<1>1. Arrived(s) \subseteq IntoEvents /\ DOMAIN Lags(s) = Arrived(s) /\ x \in Int /\ x >= 0
  <2>1. /\ Arrived(s) \subseteq IntoEvents /\ Lags(s) \in [Arrived(s) -> Int]
        /\ \A sig \in Arrived(s) : Lags(s)[sig] >= 0
    BY FigureTypes
  <2>2. QED
    BY <2>1
<1>2. SUFFICES ASSUME x > 0 PROVE FALSE
  BY <1>1
<1>3. Firsts(s) \subseteq Below
  BY <1>2, FirstsFacts
<1>4. Cardinality(Below) * q.den < q.num * Cardinality(Arrived(s))
  BY <1>1 DEF IsQuantile
<1>5. Below \in SUBSET IntoEvents
  BY <1>1
<1> HIDE DEF Below
<1>6. FirstShare[s] = Cardinality(Firsts(s)) /\ Cardinality(Firsts(s)) <= Cardinality(Below)
  BY <1>3, <1>5, EventCounts, FirstsFacts, FS_Subset
<1>7. PICK f, b, n \in Nat : /\ f = FirstShare[s] /\ b = Cardinality(Below) /\ f <= b
                             /\ n = Cardinality(Arrived(s))
  <2>1. Firsts(s) \in SUBSET IntoEvents
    BY DEF Firsts
  <2>2. Cardinality(Firsts(s)) \in Nat /\ Cardinality(Below) \in Nat
        /\ Cardinality(Arrived(s)) \in Nat
    BY <1>1, <1>5, <2>1, EventCounts
  <2>3. QED
    BY <1>6, <2>2
<1>8. PICK k, e \in Nat : k = q.num /\ e = q.den
  BY ShownFacts
<1>9. b * e < k * n /\ e * f >= k * n
  BY <1>4, <1>7, <1>8
<1>10. f * e <= b * e
  BY <1>7, <1>8, Monotone
<1>11. e * f = f * e /\ e * f \in Int /\ b * e \in Int /\ k * n \in Int
  BY <1>7, <1>8, Product
<1>12. PICK u, v, w \in Int : u = e * f /\ v = b * e /\ w = k * n
  BY <1>11
<1>13. v < w /\ u >= w /\ u <= v
  BY <1>9, <1>10, <1>11, <1>12
<1>14. QED
  BY <1>13

\* The columns of the endpoints' table agree.
LEMMA RowAgrees ==
    ASSUME Inv, NEW s \in Source
    PROVE  LET e == EndpointPerformance(s)
           IN  /\ e.observations = Completeness[s]
               /\ e.first > 0 =>
                    /\ 2 * e.rate.num >= e.rate.den => e.p50 = 0
                    /\ 20 * e.rate.num >= 19 * e.rate.den => e.p95 = 0
<1> DEFINE e == EndpointPerformance(s)
           n == Cardinality(Arrived(s))
           f == FirstShare[s]
<1>1. /\ n \in Nat /\ e.observations = n /\ e.first = f
      /\ n >= 1 => /\ IsQuantile(e.p50, Lags(s), P50) /\ IsQuantile(e.p95, Lags(s), P95)
                   /\ e.rate.num = f /\ e.rate.den = n
                   /\ \E sig \in Arrived(s) : e.p50 = Lags(s)[sig]
                   /\ \E sig \in Arrived(s) : e.p95 = Lags(s)[sig]
  BY RowFacts
<1>2. e.observations = Completeness[s]
  BY <1>1 DEF Completeness
<1>3. f \in Nat /\ f <= n
  <2>1. Firsts(s) \in SUBSET Arrived(s) /\ f = Cardinality(Firsts(s))
    BY FirstsFacts
  <2>2. IsFiniteSet(Arrived(s)) /\ IsFiniteSet(Firsts(s))
    BY <2>1, FigureTypes, FS_Subset
  <2>3. QED
    BY <2>1, <2>2, FS_Subset, FS_CardinalityType
<1> HIDE DEF e, n, f
<1>4. P50 \in Shown /\ P95 \in Shown /\ P50.num = 1 /\ P50.den = 2 /\ P95.num = 19 /\ P95.den = 20
  BY DEF Shown, P50, P95, Q
<1>5. ASSUME e.first > 0, 2 * e.rate.num >= e.rate.den PROVE e.p50 = 0
  <2>1. n >= 1
    BY <1>1, <1>3, <1>5
  <2>2. P50.den * f >= P50.num * n
    BY <1>1, <1>3, <1>4, <1>5, <2>1
  <2>3. QED
    BY <1>1, <1>4, <2>1, <2>2, NoLagUpTo DEF f, n
<1>6. ASSUME e.first > 0, 20 * e.rate.num >= 19 * e.rate.den PROVE e.p95 = 0
  <2>1. n >= 1
    BY <1>1, <1>3, <1>6
  <2>2. P95.den * f >= P95.num * n
    BY <1>1, <1>3, <1>4, <1>6, <2>1
  <2>3. QED
    BY <1>1, <1>4, <2>1, <2>2, NoLagUpTo DEF f, n
<1>7. QED
  BY <1>2, <1>5, <1>6 DEF e

\* Two disjoint sets of events have together as many as their union.
LEMMA DisjointCounts ==
    ASSUME Inv, NEW E \in SUBSET IntoEvents, NEW F \in SUBSET IntoEvents, E \cap F = {}
    PROVE  Cardinality(E \cup F) = Cardinality(E) + Cardinality(F)
<1>1. /\ IsFiniteSet(E) /\ IsFiniteSet(F)
      /\ Cardinality(E) \in Nat /\ Cardinality(F) \in Nat /\ Cardinality({}) = 0
  BY EventCounts, FS_EmptySet
<1>2. Cardinality(E \cup F) = Cardinality(E) + Cardinality(F) - Cardinality(E \cap F)
  BY <1>1, FS_Union
<1>3. Cardinality(E \cap F) = 0
  BY <1>1
<1>4. PICK x, y, z \in Int : /\ x = Cardinality(E) /\ y = Cardinality(F)
                             /\ z = Cardinality(E \cap F) /\ z = 0
  BY <1>1, <1>3
<1>5. Cardinality(E \cup F) = x + y - z
  BY <1>2, <1>4, Zenon
<1>6. x + y - z = x + y
  BY <1>4
<1>7. QED
  BY <1>4, <1>5, <1>6, Zenon

\* More events are not fewer.
LEMMA CountsGrow ==
    ASSUME Inv, NEW F \in SUBSET IntoEvents, NEW E \in SUBSET F
    PROVE  /\ Cardinality(E) \in Nat /\ Cardinality(F) \in Nat
           /\ Cardinality(E) <= Cardinality(F)
<1>1. E \in SUBSET IntoEvents /\ IsFiniteSet(F)
  BY EventCounts
<1>2. QED
  BY <1>1, EventCounts, FS_Subset

\* The columns of a pair agree with each other and with the endpoints' shares.
LEMMA PairCounts ==
    ASSUME Inv, NEW a \in Source, NEW b \in Source
    PROVE  LET w == Wins(a, b)
               n == Cardinality(Arrived(a) \cap Arrived(b))
           IN  /\ n = w.a + w.b + w.ties
               /\ {w.a, w.b, w.ties} \subseteq Nat
               /\ n + matched >= Completeness[a] + Completeness[b]
               /\ FirstShare[a] + w.b <= Completeness[a]
               /\ FirstShare[b] + w.a <= Completeness[b]
<1> DEFINE d == Deltas(a, b)
           D == Arrived(a) \cap Arrived(b)
           A == {sig \in D : d[sig] < 0}
           B == {sig \in D : d[sig] > 0}
           T == {sig \in D : d[sig] = 0}
<1>1. /\ Arrived(a) \in SUBSET IntoEvents /\ Arrived(b) \in SUBSET IntoEvents
      /\ d \in [D -> Int]
  BY FigureTypes
<1>2. DOMAIN d = D
  BY <1>1
<1>3. Wins(a, b).a = Cardinality(A) /\ Wins(a, b).b = Cardinality(B)
      /\ Wins(a, b).ties = Cardinality(T)
  BY <1>2 DEF Wins
<1>4. /\ A \cap B = {} /\ (A \cup B) \cap T = {} /\ (A \cup B) \cup T = D
      /\ A \subseteq D /\ B \subseteq D /\ T \subseteq D
  <2>1. \A sig \in D : d[sig] \in Int
    BY <1>1
  <2> HIDE DEF d
  <2>2. QED
    BY <2>1
<1>5. \A sig \in D : /\ d[sig] = events[sig][a] - events[sig][b]
                     /\ events[sig][a] \in Nat /\ events[sig][b] \in Nat
                     /\ a \in Arrivers(sig) /\ b \in Arrivers(sig)
  <2>1. \A sig \in D : d[sig] = events[sig][a] - events[sig][b]
    BY DEF Deltas
  <2>2. \A sig \in D : a \in Arrivers(sig) /\ b \in Arrivers(sig) /\ sig \in IntoEvents
    BY DEF Arrived, Arrivers
  <2>3. \A sig \in D : events[sig][a] \in Nat /\ events[sig][b] \in Nat
    BY <2>2, EventFacts
  <2> HIDE DEF d, D
  <2>4. QED
    BY <2>1, <2>2, <2>3
<1>6. ASSUME NEW s \in Source, NEW sig \in Firsts(s)
      PROVE  \A t \in Arrivers(sig) : events[sig][s] <= events[sig][t]
  <2>1. sig \in IntoEvents /\ s \in Leaders(sig)
    BY DEF Firsts
  <2>2. events[sig][s] = Earliest(sig)
    BY <2>1, LeaderFacts
  <2>3. QED
    BY <2>1, <2>2, EarliestFacts
<1>7. Firsts(a) \cap B = {} /\ Firsts(b) \cap A = {}
  <2>1. ASSUME NEW sig \in D, sig \in Firsts(a), d[sig] > 0 PROVE FALSE
    <3>1. events[sig][a] <= events[sig][b]
      BY <1>5, <1>6, <2>1
    <3> HIDE DEF d, D
    <3>2. QED
      BY <1>5, <2>1, <3>1
  <2>2. ASSUME NEW sig \in D, sig \in Firsts(b), d[sig] < 0 PROVE FALSE
    <3>1. events[sig][b] <= events[sig][a]
      BY <1>5, <1>6, <2>2
    <3> HIDE DEF d, D
    <3>2. QED
      BY <1>5, <2>2, <3>1
  <2> HIDE DEF d, D
  <2>3. QED
    BY <2>1, <2>2
<1>8. D \subseteq Arrived(a) /\ D \subseteq Arrived(b) /\ D = Arrived(a) \cap Arrived(b)
  OBVIOUS
<1> HIDE DEF d, A, B, T, D
<1>9. D \in SUBSET IntoEvents /\ A \in SUBSET IntoEvents /\ B \in SUBSET IntoEvents
      /\ T \in SUBSET IntoEvents
  BY <1>1, <1>4, <1>8
<1>10. Cardinality(D) = Cardinality(A) + Cardinality(B) + Cardinality(T)
  <2>1. Cardinality(A \cup B) = Cardinality(A) + Cardinality(B)
    BY <1>4, <1>9, DisjointCounts
  <2>2. Cardinality((A \cup B) \cup T) = Cardinality(A \cup B) + Cardinality(T)
    <3>1. A \cup B \in SUBSET IntoEvents
      BY <1>9
    <3>2. QED
      BY <1>4, <1>9, <3>1, DisjointCounts
  <2>3. QED
    BY <1>4, <2>1, <2>2
<1>11. Cardinality(D) + matched >= Completeness[a] + Completeness[b]
  <2> DEFINE U == Arrived(a) \cup Arrived(b)
  <2>1. U \in SUBSET IntoEvents
    BY <1>1
  <2>2. Cardinality(U) = Cardinality(Arrived(a)) + Cardinality(Arrived(b)) - Cardinality(D)
    BY <1>1, <1>8, EventCounts, FS_Union
  <2> HIDE DEF U
  <2>3. Cardinality(U) <= Cardinality(IntoEvents) /\ Cardinality(U) \in Nat
    BY <2>1, CountsGrow
  <2>4. matched = Cardinality(IntoEvents)
    BY DEF Inv, MatchedAgrees
  <2>5. /\ Cardinality(Arrived(a)) \in Nat /\ Cardinality(Arrived(b)) \in Nat
        /\ Cardinality(D) \in Nat /\ Cardinality(IntoEvents) \in Nat
    BY <1>1, <1>9, EventCounts
  <2>6. Completeness[a] = Cardinality(Arrived(a)) /\ Completeness[b] = Cardinality(Arrived(b))
    BY DEF Completeness
  <2>7. QED
    BY <2>2, <2>3, <2>4, <2>5, <2>6
<1>12. ASSUME NEW s \in Source, NEW E \in SUBSET Arrived(s), Firsts(s) \cap E = {},
              Arrived(s) \in SUBSET IntoEvents
       PROVE  FirstShare[s] + Cardinality(E) <= Completeness[s]
  <2>1. Firsts(s) \in SUBSET Arrived(s) /\ FirstShare[s] = Cardinality(Firsts(s))
    BY FirstsFacts
  <2>2. Cardinality(Firsts(s) \cup E) = Cardinality(Firsts(s)) + Cardinality(E)
    BY <1>12, <2>1, DisjointCounts
  <2>3. Cardinality(Firsts(s) \cup E) <= Cardinality(Arrived(s))
    BY <1>12, <2>1, CountsGrow
  <2>4. Completeness[s] = Cardinality(Arrived(s))
    BY DEF Completeness
  <2>5. QED
    BY <2>1, <2>2, <2>3, <2>4
<1>13. FirstShare[a] + Cardinality(B) <= Completeness[a]
  <2>1. B \in SUBSET Arrived(a)
    BY <1>4, <1>8
  <2>2. QED
    BY <1>1, <1>7, <1>12, <2>1
<1>14. FirstShare[b] + Cardinality(A) <= Completeness[b]
  <2>1. A \in SUBSET Arrived(b)
    BY <1>4, <1>8
  <2>2. QED
    BY <1>1, <1>7, <1>12, <2>1
<1>15. {Cardinality(A), Cardinality(B), Cardinality(T)} \subseteq Nat
  BY <1>9, EventCounts
<1>16. QED
  BY <1>3, <1>10, <1>11, <1>13, <1>14, <1>15 DEF D

\* The median of the deltas is negative exactly if a won at least half of them.
LEMMA MedianSide ==
    ASSUME Inv, NEW a \in Source, NEW b \in Source
    PROVE  LET w == Pairwise(a, b)
           IN  w.p50 < 0 <=> w.comparable > 0 /\ 2 * w.wins.a >= w.comparable
<1> DEFINE w == Pairwise(a, b)
           d == Deltas(a, b)
           D == Arrived(a) \cap Arrived(b)
           n == Cardinality(D)
           A == {sig \in D : d[sig] < 0}
           x == w.p50
<1>1. /\ n \in Nat /\ w.comparable = n /\ DOMAIN d = D
      /\ n = 0 => x = 0
      /\ n >= 1 => IsQuantile(x, d, P50) /\ \E k \in 1..n : x = Sorted(d)[k]
      /\ Sorted(d) \in Seq(Int) /\ Len(Sorted(d)) = n
  BY PairFacts
<1>2. D \in SUBSET IntoEvents /\ d \in [D -> Int]
  BY FigureTypes
<1>3. w.wins.a = Cardinality(A)
  <2>1. w.wins = Wins(a, b)
    BY DEF Pairwise
  <2>2. QED
    BY <1>1, <2>1 DEF Wins
<1> HIDE DEF w, d, D, n
<1>4. n = 0 => ~(x < 0) /\ ~(w.comparable > 0)
  BY <1>1
<1>5. ASSUME n >= 1 PROVE x < 0 <=> 2 * Cardinality(A) >= n
  <2>1. x \in Int
    BY <1>1, <1>5
  <2> HIDE DEF x
  <2> DEFINE Below   == {sig \in D : d[sig] < x}
             AtBelow == {sig \in D : d[sig] <= x}
  <2>2. Cardinality(AtBelow) * 2 >= n /\ Cardinality(Below) * 2 < n
    <3>1. P50.num = 1 /\ P50.den = 2
      BY DEF P50, Q
    <3>2. Cardinality(AtBelow) * P50.den >= P50.num * n
          /\ Cardinality(Below) * P50.den < P50.num * n
      BY <1>1, <1>5 DEF IsQuantile, n
    <3> HIDE DEF AtBelow, Below
    <3>3. QED
      BY <1>1, <3>1, <3>2
  <2>3. /\ A \in SUBSET IntoEvents /\ AtBelow \in SUBSET IntoEvents /\ Below \in SUBSET IntoEvents
    BY <1>2
  <2>4. \A sig \in D : d[sig] \in Int
    BY <1>2
  <2>5. x < 0 => AtBelow \subseteq A
    BY <2>1, <2>4
  <2>6. ~(x < 0) => A \subseteq Below
    BY <2>1, <2>4
  <2> HIDE DEF A, AtBelow, Below
  <2>7. /\ Cardinality(A) \in Nat /\ Cardinality(AtBelow) \in Nat /\ Cardinality(Below) \in Nat
        /\ x < 0 => Cardinality(AtBelow) <= Cardinality(A)
        /\ ~(x < 0) => Cardinality(A) <= Cardinality(Below)
    BY <2>3, <2>5, <2>6, CountsGrow
  <2>8. QED
    BY <1>1, <2>2, <2>7
<1>6. QED
  BY <1>1, <1>3, <1>4, <1>5 DEF w

\* No percentile is farther from zero than the greatest distance.
LEMMA WithinMax ==
    ASSUME Inv, NEW a \in Source, NEW b \in Source
    PROVE  Abs(Pairwise(a, b).p999) <= Pairwise(a, b).maxAbs
<1> DEFINE d == Sorted(Deltas(a, b))
           n == Cardinality(Arrived(a) \cap Arrived(b))
           x == Pairwise(a, b).p999
           I == {Abs(d[i]) : i \in DOMAIN d}
           T == {0} \cup I
<1>1. /\ n \in Nat /\ d \in Seq(Int) /\ Len(d) = n
      /\ n = 0 => x = 0
      /\ n >= 1 => \E k \in 1..n : x = d[k]
  BY PairFacts
<1>2. Pairwise(a, b).maxAbs = Max(T)
  BY DEF Pairwise
<1> HIDE DEF d, n, x
<1>3. \A i \in DOMAIN d : d[i] \in Int /\ Abs(d[i]) \in Int
  <2>1. \A y \in Int : Abs(y) \in Int
    BY DEF Abs
  <2>2. QED
    BY <1>1, <2>1
<1>4. T \subseteq Int /\ T # {}
  BY <1>3
<1>5. IsFiniteSet(T)
  <2> DEFINE g == [i \in DOMAIN d |-> Abs(d[i])]
  <2>1. g \in Surjection(DOMAIN d, I)
    BY DEF Surjection
  <2>2. IsFiniteSet(DOMAIN d)
    <3>1. DOMAIN d = 1..n
      BY <1>1
    <3>2. QED
      BY <1>1, <3>1, Interval
  <2> HIDE DEF g, I
  <2>3. IsFiniteSet(I)
    BY <2>1, <2>2, FS_Surjection
  <2>4. T = I \cup {0}
    OBVIOUS
  <2>5. QED
    BY <2>3, <2>4, FS_AddElement
<1>6. \A y \in T : Max(T) >= y /\ Max(T) \in Int
  <2> HIDE DEF T
  <2>1. QED
    BY <1>4, <1>5, MaxFacts
<1>7. Abs(x) \in T
  <2>1. CASE n = 0
    <3>1. Abs(x) = 0
      BY <1>1, <2>1 DEF Abs
    <3>2. QED
      BY <3>1
  <2>2. CASE n # 0
    <3>1. PICK k \in 1..n : x = d[k]
      BY <1>1, <2>2
    <3>2. k \in DOMAIN d
      BY <1>1, <3>1
    <3>3. QED
      BY <3>1, <3>2
  <2>3. QED
    BY <2>1, <2>2
<1>8. T \subseteq Int
  BY <1>4
<1> HIDE DEF T
<1>9. QED
  BY <1>2, <1>6, <1>7, <1>8 DEF x

\* The tables agree for every book.
LEMMA TablesInv == Inv => TablesAgree
<1> SUFFICES ASSUME Inv PROVE TablesAgree
  OBVIOUS
<1>1. SumFunction(Build.firstShare) = matched
  BY BuildFacts, SharesSum
<1>2. \A s \in Source : Build.firstShare[s] <= Build.firstShare[Fastest]
  BY BuildFacts, FastestLeads
<1>3. ASSUME NEW i \in DOMAIN Listed
      PROVE  LET e == Build.endpoints[i]
             IN  /\ e.observations = Build.completeness[e.name]
                 /\ e.first > 0 =>
                      /\ 2 * e.rate.num >= e.rate.den => e.p50 = 0
                      /\ 20 * e.rate.num >= 19 * e.rate.den => e.p95 = 0
  <2>1. PICK s \in Source : s = Listed[i]
    BY BuildFacts
  <2>2. /\ Build.endpoints[i] = EndpointPerformance(s) /\ Build.endpoints[i].name = s
        /\ Build.completeness = Completeness
    BY <2>1, BuildFacts
  <2>3. QED
    BY <2>2, RowAgrees
<1>4. ASSUME NEW p \in Pairs
      PROVE  LET w == Build.pairwise[p]
             IN  /\ w.comparable = w.wins.a + w.wins.b + w.wins.ties
                 /\ w.comparable + matched >= Build.completeness[w.a] + Build.completeness[w.b]
                 /\ Build.firstShare[w.a] + w.wins.b <= Build.completeness[w.a]
                 /\ Build.firstShare[w.b] + w.wins.a <= Build.completeness[w.b]
                 /\ w.p50 < 0 <=> w.comparable > 0 /\ 2 * w.wins.a >= w.comparable
                 /\ Abs(w.p999) <= w.maxAbs
  <2>1. PICK a, b \in Source : a = Listed[p[1]] /\ b = Listed[p[2]]
    BY BuildFacts
  <2>2. /\ Build.pairwise[p] = Pairwise(a, b)
        /\ Build.pairwise[p].a = a /\ Build.pairwise[p].b = b
        /\ Build.firstShare = FirstShare /\ Build.completeness = Completeness
    BY <2>1, BuildFacts
  <2> DEFINE n == Cardinality(Arrived(a) \cap Arrived(b))
  <2>3. Pairwise(a, b).comparable = n
    BY PairFacts
  <2>4. Pairwise(a, b).wins = Wins(a, b)
    BY DEF Pairwise
  <2>5. /\ n = Wins(a, b).a + Wins(a, b).b + Wins(a, b).ties
        /\ n + matched >= Completeness[a] + Completeness[b]
        /\ FirstShare[a] + Wins(a, b).b <= Completeness[a]
        /\ FirstShare[b] + Wins(a, b).a <= Completeness[b]
    BY PairCounts
  <2>6. LET w == Pairwise(a, b)
        IN  w.p50 < 0 <=> w.comparable > 0 /\ 2 * w.wins.a >= w.comparable
    BY MedianSide
  <2>7. Abs(Pairwise(a, b).p999) <= Pairwise(a, b).maxAbs
    BY WithinMax
  <2> HIDE DEF n
  <2>8. QED
    BY <2>2, <2>3, <2>4, <2>5, <2>6, <2>7, Zenon
<1>5. QED
  BY <1>1, <1>2, <1>3, <1>4 DEF TablesAgree

\* The tables of the report agree with each other and with the matched count.
THEOREM ReportTablesAgree == Spec => []TablesAgree
<1>1. QED
  BY TablesInv, BookInv, PTL
================================================================================
