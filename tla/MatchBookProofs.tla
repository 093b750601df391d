---------------------------- MODULE MatchBookProofs ----------------------------
(***************************************************************************)
(* Theorems about StreamMatchBook for every set of sources and signatures  *)
(* and every minimum.  The invariant that is inductive is Inv: besides the *)
(* types it carries that only finitely many signatures are matched, as     *)
(* Cardinality says nothing of an infinite set and Sig may be infinite.    *)
(***************************************************************************)
EXTENDS MatchBook, FiniteSetTheorems, TLAPS

Inv == /\ TypeOK
       /\ IsFiniteSet(IntoEvents)
       /\ MatchedAgrees

-------------------------------------------------------------------------------
\* Every entry has finitely many arrivals, so their number is a natural number.
LEMMA ArriversFinite ==
    ASSUME NEW sig \in Sig
    PROVE  IsFiniteSet(Arrivers(sig)) /\ Cardinality(Arrivers(sig)) \in Nat
<1>1. IsFiniteSet(Arrivers(sig))
  BY SourceAssumption, FS_Subset DEF Arrivers
<1>2. QED
  BY <1>1, FS_CardinalityType

\* A first arrival adds its source to its own signature's entry and touches no
\* other entry.
LEMMA FirstArrivalAdds ==
    ASSUME TypeOK, NEW o \in Observation, FirstArrival(o)
    PROVE  /\ o.source \notin Arrivers(o.sig)
           /\ Arrivers(o.sig)' = Arrivers(o.sig) \cup {o.source}
           /\ \A sig \in Sig \ {o.sig} : Arrivers(sig)' = Arrivers(sig)
<1>1. o.sig \in Sig /\ o.source \in Source /\ o.at \in Offset /\ o.at # Absent
  BY AbsentAssumption DEF Observation
<1>2. events' = [events EXCEPT ![o.sig][o.source] = o.at]
  BY DEF FirstArrival
<1>3. \A sig \in Sig, s \in Source :
        events'[sig][s] = IF sig = o.sig /\ s = o.source
                          THEN o.at ELSE events[sig][s]
  BY <1>1, <1>2 DEF TypeOK
<1>4. o.source \notin Arrivers(o.sig)
  BY DEF FirstArrival, Arrivers
<1>5. Arrivers(o.sig)' = Arrivers(o.sig) \cup {o.source}
  BY <1>1, <1>3 DEF Arrivers
<1>6. \A sig \in Sig \ {o.sig} : Arrivers(sig)' = Arrivers(sig)
  BY <1>3 DEF Arrivers
<1>7. QED
  BY <1>4, <1>5, <1>6

\* The number of arrivals of the reported signature grows by one, and with it
\* the matched signatures gain the reported one exactly when observe() says so.
LEMMA FirstArrivalMatches ==
    ASSUME TypeOK, NEW o \in Observation, FirstArrival(o)
    PROVE  /\ Newly(o)  => /\ o.sig \notin IntoEvents
                           /\ IntoEvents' = IntoEvents \cup {o.sig}
           /\ ~Newly(o) => IntoEvents' = IntoEvents
<1>0. o.sig \in Sig /\ MinSources \in Nat
  BY MinSourcesAssumption DEF Observation
<1> DEFINE n == Cardinality(Arrivers(o.sig))
<1>1. IsFiniteSet(Arrivers(o.sig)) /\ n \in Nat
  BY <1>0, ArriversFinite
<1>2. Cardinality(Arrivers(o.sig)') = n + 1
  <2>1. /\ o.source \notin Arrivers(o.sig)
        /\ Arrivers(o.sig)' = Arrivers(o.sig) \cup {o.source}
    BY FirstArrivalAdds
  <2>2. QED
    BY <1>1, <2>1, FS_AddElement
<1>3. \A sig \in Sig \ {o.sig} : sig \in IntoEvents' <=> sig \in IntoEvents
  BY FirstArrivalAdds DEF IntoEvents
<1>4. o.sig \in IntoEvents' <=> n + 1 >= MinSources
  BY <1>0, <1>2 DEF IntoEvents
<1>5. o.sig \in IntoEvents <=> n >= MinSources
  BY <1>0 DEF IntoEvents
<1>6. Newly(o) <=> n < MinSources /\ n + 1 >= MinSources
  BY DEF Newly, FirstArrival
<1>7. IntoEvents \subseteq Sig /\ IntoEvents' \subseteq Sig
  BY DEF IntoEvents
<1> HIDE DEF n
<1>8. CASE Newly(o)
  <2>1. o.sig \notin IntoEvents /\ o.sig \in IntoEvents'
    BY <1>0, <1>1, <1>4, <1>5, <1>6, <1>8
  <2>2. QED
    BY <1>3, <1>7, <1>8, <2>1
<1>9. CASE ~Newly(o)
  <2>1. o.sig \in IntoEvents <=> o.sig \in IntoEvents'
    BY <1>0, <1>1, <1>4, <1>5, <1>6, <1>9
  <2>2. QED
    BY <1>3, <1>7, <1>9, <2>1
<1>10. QED
  BY <1>8, <1>9

-------------------------------------------------------------------------------
LEMMA NewInv == New => Inv
<1> SUFFICES ASSUME New PROVE Inv
  OBVIOUS
<1>1. TypeOK
  BY DEF New, TypeOK
<1>2. \A sig \in Sig : Arrivers(sig) = {}
  BY DEF New, Arrivers
<1>3. IntoEvents = {}
  BY <1>2, FS_EmptySet, MinSourcesAssumption DEF IntoEvents
<1>4. QED
  BY <1>1, <1>3, FS_EmptySet DEF Inv, MatchedAgrees, New

LEMMA NextInv == Inv /\ [Next]_vars => Inv'
<1> SUFFICES ASSUME Inv, [Next]_vars PROVE Inv'
  OBVIOUS
<1> USE DEF Inv
<1>1. CASE UNCHANGED vars
  BY <1>1 DEF vars, TypeOK, MatchedAgrees, IntoEvents, Arrivers
<1>2. ASSUME NEW o \in Observation, Duplicate(o) PROVE Inv'
  BY <1>2 DEF Duplicate, Observation, TypeOK, MatchedAgrees, IntoEvents, Arrivers
<1>3. ASSUME NEW o \in Observation, FirstArrival(o) PROVE Inv'
  <2>1. TypeOK'
    BY <1>3 DEF FirstArrival, Observation, TypeOK
  <2>2. CASE Newly(o)
    <3>1. IntoEvents' = IntoEvents \cup {o.sig} /\ o.sig \notin IntoEvents
      BY <1>3, <2>2, FirstArrivalMatches
    <3>2. /\ IsFiniteSet(IntoEvents')
          /\ Cardinality(IntoEvents') = Cardinality(IntoEvents) + 1
      BY <3>1, FS_AddElement
    <3>3. matched' = matched + 1
      BY <1>3, <2>2 DEF FirstArrival
    <3>4. QED
      BY <2>1, <3>2, <3>3 DEF MatchedAgrees
  <2>3. CASE ~Newly(o)
    <3>1. IntoEvents' = IntoEvents
      BY <1>3, <2>3, FirstArrivalMatches
    <3>2. matched' = matched
      BY <1>3, <2>3 DEF FirstArrival
    <3>3. QED
      BY <2>1, <3>1, <3>2 DEF MatchedAgrees
  <2>4. QED
    BY <2>2, <2>3
<1>4. QED
  BY <1>1, <1>2, <1>3 DEF Next, Observe

\* The inductive invariant holds throughout.
THEOREM BookInv == Spec => []Inv
<1>1. QED
  BY NewInv, NextInv, PTL DEF Spec

\* The book's fields keep their types.
THEOREM BookTypeOK == Spec => []TypeOK
<1>1. Inv => TypeOK
  BY DEF Inv
<1>2. QED
  BY <1>1, BookInv, PTL

\* matched_count() is the number of events into_events() returns, for every
\* minimum and however many sources report a signature, how often, in which order.
THEOREM BookMatchedAgrees == Spec => []MatchedAgrees
<1>1. Inv => MatchedAgrees
  BY DEF Inv
<1>2. QED
  BY <1>1, BookInv, PTL

\* A recorded arrival is never replaced, nor forgotten.
THEOREM BookFirstArrivalKept == Spec => FirstArrivalKept
<1> DEFINE Kept == \A sig \in Sig, s \in Source :
                     events[sig][s] # Absent => events'[sig][s] = events[sig][s]
<1>1. TypeOK /\ [Next]_vars => [Kept]_vars
  <2> SUFFICES ASSUME TypeOK, Next PROVE Kept
    OBVIOUS
  <2>1. PICK o \in Observation : Observe(o)
    BY DEF Next
  <2>2. CASE Duplicate(o)
    BY <2>2 DEF Duplicate
  <2>3. CASE FirstArrival(o)
    BY <2>3 DEF FirstArrival, TypeOK, Observation
  <2>4. QED
    BY <2>1, <2>2, <2>3 DEF Observe
<1>2. QED
  BY <1>1, BookTypeOK, PTL DEF Spec, FirstArrivalKept

-------------------------------------------------------------------------------
\* The instance has its own copy of Cardinality.
LEMMA SameCardinality == \A S : Count!Cardinality(S) = Cardinality(S)
BY DEF Count!Cardinality, Cardinality

\* Every step of the book is a report, or nothing, to one who sees only which
\* sources reported a signature and how many signatures are matched.
LEMMA StepImplementsCount ==
    ASSUME Inv, Inv', [Next]_vars
    PROVE  [Count!Next]_(Count!vars)
<1> DEFINE sn == [sig \in Sig |-> Arrivers(sig)]
<1>0. Count!MatchedIn(sn) = IntoEvents
  BY SameCardinality DEF Count!MatchedIn, IntoEvents
<1>1. CASE UNCHANGED vars
  BY <1>1 DEF vars, Count!vars, Arrivers
<1>2. ASSUME NEW o \in Observation, Duplicate(o) PROVE UNCHANGED Count!vars
  BY <1>2 DEF Duplicate, Count!vars, Arrivers
<1>3. ASSUME NEW o \in Observation, FirstArrival(o)
      PROVE  Count!Report(o.sig, o.source)
  <2>1. o.sig \in Sig /\ o.source \in Source
    BY DEF Observation
  <2>2. sn' = [sn EXCEPT ![o.sig] = @ \cup {o.source}]
    BY <1>3, <2>1, FirstArrivalAdds DEF Inv
  <2>3. matched' = Cardinality(IntoEvents')
    BY DEF Inv, MatchedAgrees
  <2>4. Count!MatchedIn(sn') = IntoEvents'
    BY SameCardinality DEF Count!MatchedIn, IntoEvents
  <2>5. QED
    BY <2>2, <2>3, <2>4, SameCardinality DEF Count!Report
<1>4. QED
  BY <1>1, <1>2, <1>3 DEF Next, Observe, Count!Next, Observation

\* The book implements the abstract matching count.
THEOREM BookImplementsCount == Spec => ImplementsCount
<1>1. Inv /\ New => Count!Init
  <2> SUFFICES ASSUME Inv, New PROVE Count!Init
    OBVIOUS
  <2>1. \A sig \in Sig : Arrivers(sig) = {}
    BY DEF New, Arrivers
  <2>2. QED
    BY <2>1 DEF Count!Init, New
<1>2. Inv /\ Inv' /\ [Next]_vars => [Count!Next]_(Count!vars)
  BY StepImplementsCount
<1>3. QED
  BY <1>1, <1>2, BookInv, PTL DEF Spec, ImplementsCount, Count!Spec
===============================================================================
