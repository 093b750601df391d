------------------------------- MODULE MatchBook -------------------------------
(***************************************************************************)
(* solbench_core::StreamMatchBook (crates/solbench-core/src/stream.rs):    *)
(* the table that pairs the observations of one signature made by several  *)
(* streams.  An arrival's slot, unix time and created_at travel with its   *)
(* receive offset and are never looked at by the book: an arrival is its   *)
(* offset.  A signature without an entry and an entry without arrivals are *)
(* the same here, as observe() never leaves an empty entry behind.         *)
(***************************************************************************)
EXTENDS Naturals, FiniteSets

CONSTANTS Source,       \* the configured streams
          Sig,          \* transaction signatures
          Offset,       \* values of receive_offset_ns
          MinSources,   \* minimum_sources
          Absent        \* "this source has not reported this signature"

\* StreamConfig::validate demands at least 2; the book only needs it not to be 0.
ASSUME MinSourcesAssumption == MinSources \in Nat \ {0}
ASSUME SourceAssumption     == IsFiniteSet(Source)
ASSUME AbsentAssumption     == Absent \notin Offset

VARIABLES events,       \* events[sig][s]: s's arrival of sig, or Absent
          duplicates,   \* duplicates[s]: repeated reports by s
          matched       \* the running count

vars == <<events, duplicates, matched>>

Observation == [sig : Sig, source : Source, at : Offset]

\* The keys of one entry's `arrivals` map.
Arrivers(sig) == {s \in Source : events[sig][s] # Absent}

\* into_events(): the entries that reach the minimum.
IntoEvents == {sig \in Sig : Cardinality(Arrivers(sig)) >= MinSources}

\* matched_count()
MatchedCount == matched

-------------------------------------------------------------------------------
New == /\ events = [sig \in Sig |-> [s \in Source |-> Absent]]
       /\ duplicates = [s \in Source |-> 0]
       /\ matched = 0

\* Mutant: `before` is not consulted, so later sources count the signature again.
NewlyEveryTime(o) ==
    /\ events[o.sig][o.source] = Absent
    /\ Cardinality(Arrivers(o.sig)) + 1 >= MinSources

\* Mutant: off by one, the signature counts when it exceeds the minimum.
NewlyAboveMinimum(o) ==
    /\ events[o.sig][o.source] = Absent
    /\ Cardinality(Arrivers(o.sig)) = MinSources

\* What observe() returns: this arrival lifts its signature to the minimum.
Newly(o) ==
    LET before == Cardinality(Arrivers(o.sig))
    IN  /\ events[o.sig][o.source] = Absent
        /\ before < MinSources
        /\ before + 1 >= MinSources

\* Mutant: the early return is lost and a repetition overwrites the arrival.
DuplicateOverwrites(o) ==
    /\ events[o.sig][o.source] # Absent
    /\ events' = [events EXCEPT ![o.sig][o.source] = o.at]
    /\ duplicates' = [duplicates EXCEPT ![o.source] = @ + 1]
    /\ UNCHANGED matched

Duplicate(o) ==
    /\ events[o.sig][o.source] # Absent
    /\ duplicates' = [duplicates EXCEPT ![o.source] = @ + 1]
    /\ UNCHANGED <<events, matched>>

\* Mutant: the offset is recorded in a coarser unit.
FirstArrivalCoarse(o) ==
    /\ events[o.sig][o.source] = Absent
    /\ events' = [events EXCEPT ![o.sig][o.source] = o.at \div 2]
    /\ matched' = IF Newly(o) THEN matched + 1 ELSE matched
    /\ UNCHANGED duplicates

FirstArrival(o) ==
    /\ events[o.sig][o.source] = Absent
    /\ events' = [events EXCEPT ![o.sig][o.source] = o.at]
    /\ matched' = IF Newly(o) THEN matched + 1 ELSE matched
    /\ UNCHANGED duplicates

Observe(o) == Duplicate(o) \/ FirstArrival(o)

Next == \E o \in Observation : Observe(o)

Spec == New /\ [][Next]_vars

-------------------------------------------------------------------------------
\* The book keeps one offset or nothing for each signature and source.
TypeOK == /\ events \in [Sig -> [Source -> Offset \cup {Absent}]]
          /\ duplicates \in [Source -> Nat]
          /\ matched \in Nat

\* The counter observe() maintains is the number of entries into_events()
\* will return: the runner stops on the counter (matched_count) and the
\* evidence file is written from the entries, and they must not disagree.
MatchedAgrees == matched = Cardinality(IntoEvents)

\* The first offset a source reports for a signature stays: a repetition, even
\* one with a smaller offset, never replaces it (the early return of observe).
FirstArrivalKept ==
    [][\A sig \in Sig, s \in Source :
         events[sig][s] # Absent => events'[sig][s] = events[sig][s]]_vars

\* The book implements the abstract matching count.
Count == INSTANCE MatchCount
           WITH seen  <- [sig \in Sig |-> Arrivers(sig)],
                count <- matched

ImplementsCount == Count!Spec
===============================================================================
