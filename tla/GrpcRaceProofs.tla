----------------------------- MODULE GrpcRaceProofs -----------------------------
(***************************************************************************)
(* Theorems about the slot race for every set of events, every target,     *)
(* channel capacity and backlog limit.                                     *)
(*                                                                         *)
(* A stamp is made once and is then in one place: being sent, queued,      *)
(* waiting as first[ev], or used by one pairing.  What it says about its   *)
(* endpoint and event never changes, so two places hold different stamps   *)
(* whenever their endpoints or events differ; Inv has to say so only of    *)
(* the others.                                                             *)
(***************************************************************************)
EXTENDS GrpcRace, FiniteSetTheorems, SequenceTheorems, TLAPS

\* The stamp is one that the endpoint made of the event.
Stamped(id, ev, at) == at \in ReportsOf(id, ev)

Queued(k) == Stamped(channel[k].id, channel[k].event, channel[k].at)

\* What is on its way or waiting was really reported.
Real ==
    /\ \A e \in Endpoint : pending[e] # None =>
         pending[e].id = e /\ Stamped(e, pending[e].event, pending[e].at)
    /\ \A k \in 1..Len(channel) : Queued(k)
    /\ \A ev \in Event : first[ev] # None => Stamped(first[ev].id, ev, first[ev].at)
    /\ \A p \in pairs : /\ p.winner # p.loser
                        /\ Stamped(p.winner, p.event, p.won)
                        /\ Stamped(p.loser, p.event, p.lost)

\* A stamp race() has taken.
Taken(i) == \/ \E ev \in Event : first[ev] # None /\ first[ev].at = i
            \/ \E p \in pairs : i \in {p.won, p.lost}

\* No stamp is in two places.
OnePlace ==
    /\ \A j, k \in 1..Len(channel) : channel[j].at = channel[k].at => j = k
    /\ \A e \in Endpoint, k \in 1..Len(channel) :
         pending[e] # None => pending[e].at # channel[k].at
    /\ \A i \in Nat : Taken(i) => ~InFlight(i)
    /\ \A p \in pairs : first[p.event] # None => first[p.event].at \notin {p.won, p.lost}
    /\ \A p, q \in pairs : p # q => {p.won, p.lost} \cap {q.won, q.lost} = {}

\* The counts are those of the pairings.
Counted ==
    /\ IsFiniteSet(pairs)
    /\ raced = Cardinality(pairs) /\ raced = Len(deltas)
    /\ \A e \in Endpoint : wins[e] = Cardinality({p \in pairs : p.winner = e})

Inv == TypeOK /\ IsFiniteSet(Unpaired) /\ Real /\ OnePlace /\ Counted

-------------------------------------------------------------------------------
\* The limits are numbers, and there is room for one report and one event.
LEMMA ConstantTypes ==
    /\ Target \in Nat /\ Capacity \in Nat /\ MaxUnpaired \in Nat
    /\ Capacity > 0 /\ MaxUnpaired > 0
BY LimitAssumption

\* The head of the channel is a report, and the rest a shorter channel.
LEMMA TakeTypes ==
    ASSUME TypeOK, Take
    PROVE  /\ Msg \in Report /\ Msg = channel[1] /\ 1 \in 1..Len(channel)
           /\ channel' \in Seq(Report) /\ Len(channel') = Len(channel) - 1
           /\ \A k \in 1..Len(channel') : k + 1 \in 1..Len(channel)
                                          /\ channel'[k] = channel[k + 1]
<1>1. channel \in Seq(Report) /\ channel # <<>> /\ channel' = Tail(channel)
  BY DEF TypeOK, Take
<1>2. Msg = channel[1] /\ Len(channel) \in Nat /\ Len(channel) > 0
  BY <1>1 DEF Msg
<1>3. channel[1] \in Report
  BY <1>1, <1>2, ElementOfSeq
<1>4. QED
  BY <1>1, <1>2, <1>3

\* A new report is a report.
LEMMA SeeSlotType ==
    ASSUME TypeOK, NEW e \in Endpoint, NEW ev \in Event, SeeSlot(e, ev)
    PROVE  TypeOK'
<1>1. reports \in Seq([id : Endpoint, event : Event]) /\ Len(reports) \in Nat
  BY DEF TypeOK
<1>2. reports' \in Seq([id : Endpoint, event : Event])
  BY <1>1 DEF SeeSlot
<1>3. [id |-> e, event |-> ev, at |-> Len(reports) + 1] \in Report
  BY <1>1 DEF Report
<1>4. pending' \in [Endpoint -> Report \cup {None}]
  BY <1>3 DEF SeeSlot, TypeOK
<1>5. QED
  BY <1>2, <1>4 DEF SeeSlot, TypeOK, raceVars, Unpaired

\* A task sends only while the channel has room.
LEMMA SendType ==
    ASSUME TypeOK, NEW e \in Endpoint, Send(e)
    PROVE  TypeOK'
<1>1. /\ channel \in Seq(Report) /\ pending[e] \in Report
      /\ Len(channel) < Capacity /\ channel' = Append(channel, pending[e])
  BY DEF TypeOK, Send
<1>2. channel' \in Seq(Report) /\ Len(channel') <= Capacity
  BY <1>1, ConstantTypes
<1>3. pending' \in [Endpoint -> Report \cup {None}]
  BY DEF Send, TypeOK
<1>4. QED
  BY <1>2, <1>3 DEF Send, TypeOK, raceVars, Unpaired

\* The tasks keep the types, and touch nothing of the race.
LEMMA TaskType ==
    ASSUME TypeOK, NEW e \in Endpoint, TaskStep(e)
    PROVE  TypeOK' /\ UNCHANGED raceVars
<1>1. CASE Connect(e) \/ End(e)
  BY <1>1 DEF Connect, End, TypeOK, raceVars, Unpaired
<1>2. CASE Send(e)
  BY <1>2, SendType DEF Send
<1>3. ASSUME NEW ev \in Event, SeeSlot(e, ev)
      PROVE  TypeOK' /\ UNCHANGED raceVars
  BY <1>3, SeeSlotType DEF SeeSlot
<1>4. QED
  BY <1>1, <1>2, <1>3 DEF TaskStep

\* A full backlog is emptied before the new event enters it.
LEMMA BacklogBounded ==
    ASSUME TypeOK, IsFiniteSet(Unpaired), TakeFirst
    PROVE  IsFiniteSet(Unpaired') /\ Cardinality(Unpaired') <= MaxUnpaired
<1> DEFINE full == Cardinality(Unpaired) >= MaxUnpaired
<1>1. first' = [ev \in Event |->
                  IF ev = Msg.event THEN [id |-> Msg.id, at |-> Msg.at]
                  ELSE IF full THEN None ELSE first[ev]]
  BY DEF TakeFirst
<1>2. Cardinality(Unpaired) \in Nat /\ Cardinality(Unpaired) <= MaxUnpaired
  BY FS_CardinalityType DEF TypeOK
<1>3. CASE full
  <2>1. Unpaired' \subseteq {Msg.event}
    BY <1>1, <1>3 DEF Unpaired
  <2>2. IsFiniteSet({Msg.event}) /\ Cardinality({Msg.event}) = 1
    BY FS_Singleton
  <2>3. /\ IsFiniteSet(Unpaired')
        /\ Cardinality(Unpaired') <= Cardinality({Msg.event})
    BY <2>1, <2>2, FS_Subset
  <2>4. Cardinality(Unpaired') \in Nat
    BY <2>3, FS_CardinalityType
  <2>5. QED
    BY <2>2, <2>3, <2>4, ConstantTypes
<1>4. CASE ~full
  <2>1. Unpaired' \subseteq Unpaired \cup {Msg.event}
    BY <1>1, <1>4 DEF Unpaired
  <2>2. /\ IsFiniteSet(Unpaired \cup {Msg.event})
        /\ Cardinality(Unpaired \cup {Msg.event}) <= Cardinality(Unpaired) + 1
    BY <1>2, FS_AddElement
  <2>3. /\ IsFiniteSet(Unpaired')
        /\ Cardinality(Unpaired') <= Cardinality(Unpaired \cup {Msg.event})
    BY <2>1, <2>2, FS_Subset
  <2>4. Cardinality(Unpaired') \in Nat /\ Cardinality(Unpaired \cup {Msg.event}) \in Nat
    BY <2>2, <2>3, FS_CardinalityType
  <2>5. QED
    BY <1>2, <1>4, <2>2, <2>3, <2>4, ConstantTypes
<1>5. QED
  BY <1>1, <1>3, <1>4

\* A first report keeps the types, and the unpaired map within its limit.
LEMMA TakeFirstType ==
    ASSUME TypeOK, IsFiniteSet(Unpaired), TakeFirst
    PROVE  TypeOK' /\ IsFiniteSet(Unpaired')
<1>1. /\ Msg \in Report /\ channel' \in Seq(Report) /\ Len(channel') <= Capacity
      /\ UNCHANGED <<taskVars, phase>>
  BY TakeTypes, ConstantTypes DEF TakeFirst, Take, TypeOK
<1>2. [id |-> Msg.id, at |-> Msg.at] \in [id : Endpoint, at : Nat]
  BY <1>1 DEF Report
<1>3. first' \in [Event -> [id : Endpoint, at : Nat] \cup {None}]
  BY <1>2 DEF TakeFirst, TypeOK
<1>4. cleared' \in BOOLEAN
  BY DEF TakeFirst, TypeOK
<1>5. IsFiniteSet(Unpaired') /\ Cardinality(Unpaired') <= MaxUnpaired
  BY BacklogBounded
<1>6. QED
  BY <1>1, <1>3, <1>4, <1>5 DEF TakeFirst, TypeOK, taskVars

\* The pairing a report makes with the one that waits for it.
Pairing == [event |-> Msg.event, winner |-> first[Msg.event].id, loser |-> Msg.id,
            won |-> first[Msg.event].at, lost |-> Msg.at]

\* What a pairing is made of, and what it changes.
LEMMA PairingTypes ==
    ASSUME TypeOK, TakePair
    PROVE  /\ Msg \in Report /\ first[Msg.event] \in [id : Endpoint, at : Nat]
           /\ Msg.event \in Event /\ first[Msg.event] # None
           /\ first[Msg.event].id \in Endpoint /\ Msg.id \in Endpoint
           /\ first[Msg.event].at \in Nat /\ Msg.at \in Nat
           /\ Pairing \in [event : Event, winner : Endpoint, loser : Endpoint,
                           won : Nat, lost : Nat]
           /\ pairs' = pairs \cup {Pairing}
           /\ wins' = [wins EXCEPT ![first[Msg.event].id] = wins[first[Msg.event].id] + 1]
           /\ deltas' = Append(deltas, Since(Msg.at, first[Msg.event].at))
<1>1. Msg \in Report
  BY TakeTypes DEF TakePair
<1>2. Msg.event \in Event /\ Msg.id \in Endpoint /\ Msg.at \in Nat
  BY <1>1 DEF Report
<1>3. first[Msg.event] \in [id : Endpoint, at : Nat] /\ first[Msg.event] # None
  BY <1>2 DEF TakePair, TypeOK
<1>4. first[Msg.event].id \in Endpoint /\ first[Msg.event].at \in Nat
  BY <1>3
<1>5. QED
  BY <1>1, <1>2, <1>3, <1>4 DEF TakePair, Pairing

\* A pairing keeps the types, and goes up to the target only.
LEMMA TakePairType ==
    ASSUME TypeOK, IsFiniteSet(Unpaired), TakePair
    PROVE  TypeOK' /\ IsFiniteSet(Unpaired')
<1>1. /\ channel' \in Seq(Report) /\ Len(channel') <= Capacity
      /\ UNCHANGED <<taskVars, phase, cleared>> /\ raced < Target
      /\ raced' = raced + 1 /\ first' = [first EXCEPT ![Msg.event] = None]
  BY TakeTypes, ConstantTypes DEF TakePair, Take, TypeOK
<1>2. first' \in [Event -> [id : Endpoint, at : Nat] \cup {None}]
  BY <1>1 DEF TypeOK
<1>3. Unpaired' \subseteq Unpaired
  BY <1>1, PairingTypes DEF Unpaired, TypeOK
<1>4. /\ IsFiniteSet(Unpaired') /\ Cardinality(Unpaired') <= Cardinality(Unpaired)
  BY <1>3, FS_Subset
<1>5. Cardinality(Unpaired') <= MaxUnpaired
  BY <1>4, FS_CardinalityType, ConstantTypes DEF TypeOK
<1>6. wins' \in [Endpoint -> Nat]
  <2>1. wins \in [Endpoint -> Nat]
    BY DEF TypeOK
  <2>2. /\ wins' = [wins EXCEPT ![first[Msg.event].id] = wins[first[Msg.event].id] + 1]
        /\ first[Msg.event].id \in Endpoint
    BY PairingTypes
  <2>3. QED
    BY <2>1, <2>2
<1>7. Since(Msg.at, first[Msg.event].at) \in Nat
  BY PairingTypes DEF Since
<1>8. deltas' \in Seq(Nat)
  <2>1. deltas \in Seq(Nat)
    BY DEF TypeOK
  <2>2. deltas' = Append(deltas, Since(Msg.at, first[Msg.event].at))
    BY PairingTypes
  <2>3. QED
    BY <1>7, <2>1, <2>2
<1>9. pairs' \subseteq [event : Event, winner : Endpoint, loser : Endpoint,
                        won : Nat, lost : Nat]
  BY PairingTypes DEF TypeOK
<1>10. raced' \in 0..Target
  BY <1>1, ConstantTypes DEF TypeOK
<1>11. QED
  BY <1>1, <1>2, <1>4, <1>5, <1>6, <1>8, <1>9, <1>10 DEF TypeOK, taskVars

\* Repetitions, the verdict and stuttering keep the types.
LEMMA OtherType ==
    ASSUME TypeOK, IsFiniteSet(Unpaired),
           TakeRepeat \/ TargetMet \/ BothEnded \/ Finished \/ UNCHANGED vars
    PROVE  TypeOK' /\ UNCHANGED raceVars
<1>1. CASE TakeRepeat
  <2>1. channel' \in Seq(Report) /\ Len(channel') <= Capacity
        /\ UNCHANGED <<taskVars, phase, raceVars>>
    BY <1>1, TakeTypes, ConstantTypes DEF TakeRepeat, Take, TypeOK
  <2>2. QED
    BY <2>1 DEF TypeOK, taskVars, raceVars, Unpaired
<1>2. CASE TargetMet \/ BothEnded
  BY <1>2 DEF TargetMet, BothEnded, Verdict, TypeOK, taskVars, raceVars, Unpaired
<1>3. CASE Finished \/ UNCHANGED vars
  BY <1>3 DEF Finished, vars, TypeOK, taskVars, raceVars, Unpaired
<1>4. QED
  BY <1>1, <1>2, <1>3

-------------------------------------------------------------------------------
(* Stamps.                                                                   *)

\* A stamp tells its endpoint and its event.
LEMMA StampSays ==
    ASSUME NEW a, NEW x, NEW b, NEW y, NEW i, Stamped(a, x, i), Stamped(b, y, i)
    PROVE  a = b /\ x = y
BY DEF Stamped, ReportsOf

\* Stamps are kept, and the next one is new.
LEMMA StampStays ==
    ASSUME TypeOK, NEW e \in Endpoint, NEW ev \in Event, SeeSlot(e, ev)
    PROVE  /\ \A a, x, i : Stamped(a, x, i) => Stamped(a, x, i)' /\ i # Len(reports) + 1
           /\ \A n \in Nat : n = Len(reports) + 1 => Stamped(e, ev, n)'
<1>1. /\ reports \in Seq([id : Endpoint, event : Event]) /\ Len(reports) \in Nat
      /\ reports' = Append(reports, [id |-> e, event |-> ev])
  BY DEF TypeOK, SeeSlot
<1>2. /\ Len(reports') = Len(reports) + 1
      /\ \A i \in 1..Len(reports) : reports'[i] = reports[i] /\ i \in 1..Len(reports')
                                    /\ i # Len(reports) + 1
      /\ reports'[Len(reports) + 1] = [id |-> e, event |-> ev]
      /\ Len(reports) + 1 \in 1..Len(reports')
  BY <1>1
<1>3. ASSUME NEW a, NEW x, NEW i, Stamped(a, x, i)
      PROVE  Stamped(a, x, i)' /\ i # Len(reports) + 1
  <2>1. i \in 1..Len(reports) /\ reports[i] = [id |-> a, event |-> x]
    BY <1>3 DEF Stamped, ReportsOf
  <2>2. i \in 1..Len(reports') /\ reports'[i] = [id |-> a, event |-> x]
    BY <1>2, <2>1
  <2>3. QED
    BY <1>2, <2>1, <2>2 DEF Stamped, ReportsOf
<1>4. ASSUME NEW n \in Nat, n = Len(reports) + 1
      PROVE  Stamped(e, ev, n)'
  BY <1>2, <1>4 DEF Stamped, ReportsOf
<1>5. QED
  BY <1>3, <1>4

\* A new stamp is in one place: its task is sending it.
LEMMA SeeSlotPlaces ==
    ASSUME Inv, NEW e \in Endpoint, NEW ev \in Event, SeeSlot(e, ev)
    PROVE  Real' /\ OnePlace'
<1> PICK n \in Nat : n = Len(reports) + 1
  BY DEF Inv, TypeOK
<1>1. /\ TypeOK /\ Real /\ OnePlace
      /\ pending \in [Endpoint -> Report \cup {None}]
  BY DEF Inv, TypeOK
<1>2. /\ channel' = channel /\ first' = first /\ pairs' = pairs
      /\ pending' = [pending EXCEPT ![e] = [id |-> e, event |-> ev, at |-> n]]
      /\ pending[e] = None
  BY DEF SeeSlot, Free, raceVars
<1>3. /\ \A a, x, i : Stamped(a, x, i) => Stamped(a, x, i)' /\ i # n
      /\ Stamped(e, ev, n)'
  BY <1>1, StampStays
<1>4. /\ pending'[e].id = e /\ pending'[e].event = ev /\ pending'[e].at = n
      /\ \A f \in Endpoint : f # e => pending'[f] = pending[f]
  BY <1>1, <1>2
<1>5. Real'
  <2>1. \A f \in Endpoint : pending'[f] # None =>
          pending'[f].id = f /\ Stamped(f, pending[f].event, pending[f].at)'
    <3> SUFFICES ASSUME NEW f \in Endpoint, pending'[f] # None
                 PROVE  pending'[f].id = f /\ Stamped(f, pending[f].event, pending[f].at)'
      OBVIOUS
    <3>1. CASE f = e
      BY <1>3, <1>4, <3>1
    <3>2. CASE f # e
      BY <1>1, <1>3, <1>4, <3>2 DEF Real
    <3>3. QED
      BY <3>1, <3>2
  <2>2. \A k \in 1..Len(channel') : Queued(k)'
    BY <1>1, <1>2, <1>3 DEF Real, Queued
  <2>3. \A x \in Event : first'[x] # None => Stamped(first[x].id, x, first[x].at)'
    BY <1>1, <1>2, <1>3 DEF Real
  <2>4. \A p \in pairs' : /\ p.winner # p.loser
                          /\ Stamped(p.winner, p.event, p.won)'
                          /\ Stamped(p.loser, p.event, p.lost)'
    BY <1>1, <1>2, <1>3 DEF Real
  <2>5. QED
    BY <2>1, <2>2, <2>3, <2>4 DEF Real
<1>6. \A k \in 1..Len(channel) : channel[k].at # n
  BY <1>1, <1>3 DEF Real, Queued
<1>7. \A i : Taken(i) => i # n
  BY <1>1, <1>3 DEF Real, Taken, TypeOK
<1>8. \A i : Taken(i)' => Taken(i)
  BY <1>2 DEF Taken
<1>9. \A i : InFlight(i)' => InFlight(i) \/ i = n
  BY <1>2, <1>4 DEF InFlight
<1>10. QED
  BY <1>1, <1>2, <1>4, <1>5, <1>6, <1>7, <1>8, <1>9 DEF OnePlace

\* A stamp that is sent moves from its task to the channel.
LEMMA SendPlaces ==
    ASSUME Inv, NEW e \in Endpoint, Send(e)
    PROVE  Real' /\ OnePlace'
<1>1. /\ TypeOK /\ Real /\ OnePlace
      /\ pending \in [Endpoint -> Report \cup {None}]
      /\ channel \in Seq(Report) /\ Len(channel) \in Nat
  BY DEF Inv, TypeOK
<1>2. /\ reports' = reports /\ first' = first /\ pairs' = pairs
      /\ pending' = [pending EXCEPT ![e] = None]
      /\ pending[e] # None /\ channel' = Append(channel, pending[e])
  BY DEF Send, raceVars
<1>3. \A a, x, i : Stamped(a, x, i)' <=> Stamped(a, x, i)
  BY <1>2 DEF Stamped, ReportsOf
<1>4. /\ pending'[e] = None
      /\ \A f \in Endpoint : f # e => pending'[f] = pending[f]
  BY <1>1, <1>2
<1>5. /\ 1..Len(channel') = (1..Len(channel)) \cup {Len(channel) + 1}
      /\ Len(channel) + 1 \notin 1..Len(channel)
      /\ \A k \in 1..Len(channel) : channel'[k] = channel[k]
      /\ channel'[Len(channel) + 1] = pending[e]
  BY <1>1, <1>2
<1>6. pending[e].id = e /\ Stamped(e, pending[e].event, pending[e].at)
  BY <1>1, <1>2 DEF Real
<1>7. Real'
  <2>1. \A k \in 1..Len(channel') : Queued(k)'
    BY <1>1, <1>3, <1>5, <1>6 DEF Real, Queued
  <2>2. \A f \in Endpoint : pending'[f] # None =>
          pending'[f].id = f /\ Stamped(f, pending[f].event, pending[f].at)'
    BY <1>1, <1>3, <1>4 DEF Real
  <2>3. QED
    BY <1>1, <1>2, <1>3, <2>1, <2>2 DEF Real
<1>8. \A f \in Endpoint : f # e /\ pending[f] # None => pending[f].at # pending[e].at
  BY <1>1, <1>6, StampSays DEF Real
<1>9. \A k \in 1..Len(channel) : channel[k].at # pending[e].at
  BY <1>1, <1>2 DEF OnePlace
<1>10. \A i : InFlight(i)' => InFlight(i)
  BY <1>2, <1>4, <1>5 DEF InFlight
<1>11. \A i : Taken(i)' <=> Taken(i)
  BY <1>2 DEF Taken
<1>12. \A j, k \in 1..Len(channel') : channel'[j].at = channel'[k].at => j = k
  BY <1>1, <1>5, <1>9 DEF OnePlace
<1>13. \A f \in Endpoint, k \in 1..Len(channel') :
         pending'[f] # None => pending'[f].at # channel'[k].at
  BY <1>1, <1>4, <1>5, <1>8 DEF OnePlace
<1>14. QED
  BY <1>1, <1>2, <1>7, <1>10, <1>11, <1>12, <1>13 DEF OnePlace

\* The report that is taken leaves its place; the others stay where they are.
LEMMA TakeLeaves ==
    ASSUME Inv, Take
    PROVE  /\ Stamped(Msg.id, Msg.event, Msg.at) /\ InFlight(Msg.at) /\ ~Taken(Msg.at)
           /\ \A i : InFlight(i)' => InFlight(i) /\ i # Msg.at
           /\ \A k \in 1..Len(channel') : Queued(k)'
           /\ \A j, k \in 1..Len(channel') : channel'[j].at = channel'[k].at => j = k
           /\ \A e \in Endpoint, k \in 1..Len(channel') :
                pending[e] # None => pending[e].at # channel'[k].at
           /\ \A a, x, i : Stamped(a, x, i)' <=> Stamped(a, x, i)
           /\ pending' = pending
<1>1. TypeOK /\ Real /\ OnePlace
  BY DEF Inv
<1>2. pending' = pending /\ reports' = reports
  BY DEF Take, taskVars
<1>3. /\ Msg = channel[1] /\ 1 \in 1..Len(channel) /\ Len(channel') = Len(channel) - 1
      /\ \A k \in 1..Len(channel') : k + 1 \in 1..Len(channel)
                                     /\ channel'[k] = channel[k + 1]
      /\ Len(channel) \in Nat /\ Msg \in Report
  BY <1>1, TakeTypes DEF TypeOK
<1>4. Msg.at \in Nat
  BY <1>3 DEF Report
<1>5. \A a, x, i : Stamped(a, x, i)' <=> Stamped(a, x, i)
  BY <1>2 DEF Stamped, ReportsOf
<1>6. Stamped(Msg.id, Msg.event, Msg.at)
  BY <1>1, <1>3 DEF Real, Queued
<1>7. InFlight(Msg.at)
  BY <1>3 DEF InFlight
<1>8. ~Taken(Msg.at)
  BY <1>1, <1>4, <1>7 DEF OnePlace
<1>9. \A k \in 1..Len(channel') : Queued(k)'
  BY <1>1, <1>3, <1>5 DEF Real, Queued
<1>10. \A k \in 1..Len(channel') : channel'[k].at # Msg.at
  BY <1>1, <1>3 DEF OnePlace
<1>11. \A e \in Endpoint : pending[e] # None => pending[e].at # Msg.at
  BY <1>1, <1>3 DEF OnePlace
<1>12. \A i : InFlight(i)' => InFlight(i) /\ i # Msg.at
  BY <1>2, <1>3, <1>10, <1>11 DEF InFlight
<1>13. \A j, k \in 1..Len(channel') : channel'[j].at = channel'[k].at => j = k
  BY <1>1, <1>3 DEF OnePlace
<1>14. \A e \in Endpoint, k \in 1..Len(channel') :
         pending[e] # None => pending[e].at # channel'[k].at
  BY <1>1, <1>3 DEF OnePlace
<1>15. QED
  BY <1>2, <1>5, <1>6, <1>7, <1>8, <1>9, <1>12, <1>13, <1>14

\* A report that only waits, or is ignored, disturbs no pairing.
LEMMA WaitPlaces ==
    ASSUME Inv, Take, pairs' = pairs,
           \A ev \in Event : \/ first'[ev] = first[ev]
                             \/ first'[ev] = None
                             \/ /\ ev = Msg.event /\ first'[ev].at = Msg.at
                                /\ first'[ev].id = Msg.id
    PROVE  Real' /\ OnePlace'
<1>1. TypeOK /\ Real /\ OnePlace
  BY DEF Inv
<1>2. \A i : Taken(i)' => Taken(i) \/ i = Msg.at
  BY DEF Taken
<1>3. \A p \in pairs, x \in Event : first'[x] # None /\ first'[x].at = Msg.at
        => Msg.at \notin {p.won, p.lost}
  BY TakeLeaves DEF Taken
<1>4. \A p \in pairs : p.event \in Event
  BY <1>1 DEF TypeOK
<1>5. \A p \in pairs : first'[p.event] # None => first'[p.event].at \notin {p.won, p.lost}
  BY <1>1, <1>3, <1>4 DEF OnePlace
<1>6. \A i \in Nat : Taken(i)' => ~InFlight(i)'
  BY <1>1, <1>2, TakeLeaves DEF OnePlace
<1>7. OnePlace'
  BY <1>1, <1>5, <1>6, TakeLeaves DEF OnePlace
<1>8. \A ev \in Event : first'[ev] # None => Stamped(first[ev].id, ev, first[ev].at)'
  <2> SUFFICES ASSUME NEW ev \in Event, first'[ev] # None
               PROVE  Stamped(first[ev].id, ev, first[ev].at)'
    OBVIOUS
  <2>1. CASE first'[ev] = first[ev]
    BY <1>1, <2>1, TakeLeaves DEF Real
  <2>2. CASE ev = Msg.event /\ first'[ev].at = Msg.at /\ first'[ev].id = Msg.id
    BY <2>2, TakeLeaves
  <2>3. QED
    BY <2>1, <2>2
<1>9. Real'
  BY <1>1, <1>8, TakeLeaves DEF Real
<1>10. QED
  BY <1>7, <1>9

\* The stamps that are paired were in no pairing, and one is used for each side.
LEMMA PairPlaces ==
    ASSUME Inv, TakePair
    PROVE  Real' /\ OnePlace' /\ Pairing \notin pairs
<1> DEFINE f == first[Msg.event]
<1>1. TypeOK /\ Real /\ OnePlace /\ Take /\ f.id # Msg.id
  BY DEF Inv, TakePair
<1>2. /\ Msg.event \in Event /\ f # None
      /\ f.at \in Nat /\ Msg.at \in Nat
      /\ pairs' = pairs \cup {Pairing}
      /\ first' = [first EXCEPT ![Msg.event] = None]
  BY <1>1, PairingTypes DEF TakePair
<1>3. /\ Pairing.event = Msg.event /\ Pairing.winner = f.id /\ Pairing.loser = Msg.id
      /\ Pairing.won = f.at /\ Pairing.lost = Msg.at
  BY DEF Pairing
<1>4. /\ first'[Msg.event] = None
      /\ \A ev \in Event : ev # Msg.event => first'[ev] = first[ev]
  BY <1>1, <1>2 DEF TypeOK
<1>5. Stamped(f.id, Msg.event, f.at) /\ Stamped(Msg.id, Msg.event, Msg.at)
  BY <1>1, <1>2, TakeLeaves DEF Real
<1> HIDE DEF f
<1>6. \A q \in pairs : q.event \in Event
  BY <1>1 DEF TypeOK
<1>7. \A q \in pairs : Msg.at \notin {q.won, q.lost}
  BY <1>1, TakeLeaves DEF Taken
<1>8. \A q \in pairs : f.at \notin {q.won, q.lost}
  <2> SUFFICES ASSUME NEW q \in pairs PROVE f.at \notin {q.won, q.lost}
    OBVIOUS
  <2>1. Stamped(q.winner, q.event, q.won) /\ Stamped(q.loser, q.event, q.lost)
    BY <1>1 DEF Real
  <2>2. CASE q.event = Msg.event
    BY <1>1, <1>2, <2>2 DEF OnePlace, f
  <2>3. CASE q.event # Msg.event
    BY <1>5, <2>1, <2>3, StampSays
  <2>4. QED
    BY <2>2, <2>3
<1>9. Pairing \notin pairs
  BY <1>3, <1>7
<1>10. f.at # Msg.at
  BY <1>1, <1>5, StampSays
<1>11. \A i : Taken(i)' => Taken(i) \/ i = Msg.at
  <2> SUFFICES ASSUME NEW i, Taken(i)' PROVE Taken(i) \/ i = Msg.at
    OBVIOUS
  <2>1. CASE \E ev \in Event : first'[ev] # None /\ first'[ev].at = i
    BY <1>4, <2>1 DEF Taken
  <2>2. CASE \E p \in pairs : i \in {p.won, p.lost}
    BY <2>2 DEF Taken
  <2>3. CASE i = f.at
    BY <1>2, <2>3 DEF Taken, f
  <2>4. QED
    BY <1>2, <1>3, <2>1, <2>2, <2>3 DEF Taken
<1>12. \A i \in Nat : Taken(i)' => ~InFlight(i)'
  BY <1>1, <1>11, TakeLeaves DEF OnePlace
<1>13. \A p \in pairs' : first'[p.event] # None => first'[p.event].at \notin {p.won, p.lost}
  BY <1>1, <1>2, <1>3, <1>4, <1>6 DEF OnePlace
<1>14. \A p, q \in pairs' : p # q => {p.won, p.lost} \cap {q.won, q.lost} = {}
  <2>1. \A q \in pairs : {Pairing.won, Pairing.lost} \cap {q.won, q.lost} = {}
    BY <1>3, <1>7, <1>8
  <2>2. QED
    BY <1>1, <1>2, <2>1 DEF OnePlace
<1>15. OnePlace'
  BY <1>1, <1>12, <1>13, <1>14, TakeLeaves DEF OnePlace
<1>16. \A ev \in Event : first'[ev] # None => Stamped(first[ev].id, ev, first[ev].at)'
  BY <1>1, <1>4, TakeLeaves DEF Real
<1>17. \A p \in pairs' : /\ p.winner # p.loser
                         /\ Stamped(p.winner, p.event, p.won)'
                         /\ Stamped(p.loser, p.event, p.lost)'
  BY <1>1, <1>2, <1>3, <1>5, TakeLeaves DEF Real
<1>18. Real'
  BY <1>1, <1>16, <1>17, TakeLeaves DEF Real
<1>19. QED
  BY <1>9, <1>15, <1>18

\* A pairing is one win, one sample and one more event raced.
LEMMA PairCounted ==
    ASSUME Inv, TakePair
    PROVE  Counted'
<1>1. TypeOK /\ Counted /\ Pairing \notin pairs
  BY PairPlaces DEF Inv
<1>2. /\ pairs' = pairs \cup {Pairing} /\ raced' = raced + 1
      /\ Pairing.winner = first[Msg.event].id
      /\ first[Msg.event].id \in Endpoint
      /\ wins' = [wins EXCEPT ![first[Msg.event].id] = wins[first[Msg.event].id] + 1]
      /\ deltas' = Append(deltas, Since(Msg.at, first[Msg.event].at))
  BY <1>1, PairingTypes DEF TakePair, Pairing
<1>3. IsFiniteSet(pairs') /\ Cardinality(pairs') = Cardinality(pairs) + 1
  BY <1>1, <1>2, FS_AddElement DEF Counted
<1>4. Len(deltas') = Len(deltas) + 1
  BY <1>1, <1>2 DEF TypeOK
<1>5. ASSUME NEW e \in Endpoint
      PROVE  wins'[e] = Cardinality({p \in pairs' : p.winner = e})
  <2> DEFINE W == {p \in pairs : p.winner = e}
  <2>1. IsFiniteSet(W) /\ wins[e] = Cardinality(W) /\ Pairing \notin W
    BY <1>1, FS_Subset DEF Counted
  <2>2. CASE e = Pairing.winner
    <3>1. {p \in pairs' : p.winner = e} = W \cup {Pairing}
      BY <1>2, <2>2
    <3>2. Cardinality(W \cup {Pairing}) = Cardinality(W) + 1
      BY <2>1, FS_AddElement
    <3>3. wins'[e] = wins[e] + 1
      BY <1>1, <1>2, <2>2 DEF TypeOK
    <3>4. QED
      BY <2>1, <3>1, <3>2, <3>3
  <2>3. CASE e # Pairing.winner
    <3>1. {p \in pairs' : p.winner = e} = W
      BY <1>2, <2>3
    <3>2. wins'[e] = wins[e]
      BY <1>1, <1>2, <2>3 DEF TypeOK
    <3>3. QED
      BY <2>1, <3>1, <3>2
  <2>4. QED
    BY <2>2, <2>3
<1>6. QED
  BY <1>1, <1>2, <1>3, <1>4, <1>5 DEF Counted

-------------------------------------------------------------------------------
\* Init has no stamps.
LEMMA InitInv == Init => Inv
<1> SUFFICES ASSUME Init PROVE Inv
  OBVIOUS
<1>1. /\ Unpaired = {} /\ pairs = {} /\ channel = <<>> /\ deltas = <<>>
      /\ wins = [e \in Endpoint |-> 0] /\ raced = 0
      /\ \A e \in Endpoint : pending[e] = None
      /\ \A ev \in Event : first[ev] = None
  BY DEF Init, Unpaired
<1>2. TypeOK
  <2>1. Cardinality(Unpaired) <= MaxUnpaired
    BY <1>1, ConstantTypes, FS_EmptySet
  <2>2. raced \in 0..Target /\ Len(channel) <= Capacity
    BY <1>1, ConstantTypes
  <2>3. channel \in Seq(Report) /\ deltas \in Seq(Nat)
        /\ reports \in Seq([id : Endpoint, event : Event])
    BY <1>1 DEF Init
  <2>4. /\ pc \in [Endpoint -> {"connecting", "streaming", "ended"}]
        /\ pending \in [Endpoint -> Report \cup {None}]
        /\ first \in [Event -> [id : Endpoint, at : Nat] \cup {None}]
        /\ wins \in [Endpoint -> Nat]
    BY <1>1 DEF Init
  <2>5. pairs \subseteq [event : Event, winner : Endpoint, loser : Endpoint,
                         won : Nat, lost : Nat]
    BY <1>1
  <2>6. QED
    BY <2>1, <2>2, <2>3, <2>4, <2>5 DEF Init, TypeOK
<1>3. 1..Len(channel) = {}
  BY <1>1
<1>4. Real
  BY <1>1, <1>3 DEF Real
<1>5. OnePlace
  BY <1>1, <1>3 DEF OnePlace, Taken
<1>6. \A e \in Endpoint : {p \in pairs : p.winner = e} = {}
  BY <1>1
<1>7. Counted
  BY <1>1, <1>6, FS_EmptySet DEF Counted
<1>8. QED
  BY <1>1, <1>2, <1>4, <1>5, <1>7, FS_EmptySet DEF Inv

\* The tasks keep the invariant.
LEMMA TaskInv ==
    ASSUME Inv, NEW e \in Endpoint, TaskStep(e)
    PROVE  Inv'
<1>1. /\ TypeOK' /\ UNCHANGED raceVars
      /\ IsFiniteSet(Unpaired)' /\ Counted'
  BY TaskType DEF Inv, raceVars, Unpaired, Counted
<1>2. CASE Connect(e) \/ End(e)
  <2>1. UNCHANGED <<pending, reports, channel, first, pairs>>
    BY <1>2 DEF Connect, End, raceVars
  <2>2. Real' /\ OnePlace'
    BY <2>1 DEF Inv, Real, OnePlace, Queued, Stamped, ReportsOf, Taken, InFlight
  <2>3. QED
    BY <1>1, <2>2 DEF Inv
<1>3. CASE Send(e)
  BY <1>1, <1>3, SendPlaces DEF Inv
<1>4. ASSUME NEW ev \in Event, SeeSlot(e, ev)
      PROVE  Inv'
  BY <1>1, <1>4, SeeSlotPlaces DEF Inv
<1>5. QED
  BY <1>2, <1>3, <1>4 DEF TaskStep

\* Every step keeps the invariant.
LEMMA NextInv == Inv /\ [Next]_vars => Inv'
<1> SUFFICES ASSUME Inv, [Next]_vars PROVE Inv'
  OBVIOUS
<1>1. CASE \E e \in Endpoint : TaskStep(e)
  BY <1>1, TaskInv
<1>2. CASE TakeFirst
  <2>1. TypeOK' /\ IsFiniteSet(Unpaired)'
    BY <1>2, TakeFirstType DEF Inv
  <2>2. Take /\ pairs' = pairs /\ Counted'
    BY <1>2 DEF TakeFirst, Inv, Counted
  <2>3. \A ev \in Event : \/ first'[ev] = first[ev]
                          \/ first'[ev] = None
                          \/ /\ ev = Msg.event /\ first'[ev].at = Msg.at
                             /\ first'[ev].id = Msg.id
    BY <1>2 DEF TakeFirst
  <2>4. QED
    BY <2>1, <2>2, <2>3, WaitPlaces DEF Inv
<1>3. CASE TakePair
  <2>1. TypeOK' /\ IsFiniteSet(Unpaired)'
    BY <1>3, TakePairType DEF Inv
  <2>2. QED
    BY <1>3, <2>1, PairPlaces, PairCounted DEF Inv
<1>4. CASE TakeRepeat
  <2>1. TypeOK' /\ UNCHANGED raceVars /\ Take
    BY <1>4, OtherType DEF Inv, TakeRepeat
  <2>2. IsFiniteSet(Unpaired)' /\ Counted' /\ pairs' = pairs /\ first' = first
    BY <2>1 DEF Inv, raceVars, Unpaired, Counted
  <2>3. QED
    BY <2>1, <2>2, WaitPlaces DEF Inv
<1>5. CASE TargetMet \/ BothEnded \/ Finished \/ UNCHANGED vars
  <2>1. TypeOK' /\ UNCHANGED raceVars
    BY <1>5, OtherType DEF Inv
  <2>2. UNCHANGED <<pending, reports, channel>>
    BY <1>5 DEF TargetMet, BothEnded, Finished, vars, taskVars
  <2>3. IsFiniteSet(Unpaired)' /\ Counted'
    BY <2>1 DEF Inv, raceVars, Unpaired, Counted
  <2>4. Real' /\ OnePlace'
    BY <2>1, <2>2 DEF Inv, raceVars, Real, OnePlace, Queued, Stamped, ReportsOf, Taken,
                      InFlight
  <2>5. QED
    BY <2>1, <2>3, <2>4 DEF Inv
<1>6. QED
  BY <1>1, <1>2, <1>3, <1>4, <1>5 DEF Next, RaceStep

\* The invariant, for every set of events, target, capacity and backlog limit.
THEOREM RaceInv == Spec => []Inv
<1>1. QED
  BY InitInv, NextInv, PTL DEF Spec

\* Whatever the endpoints send and however fast, the channel and the map of
\* unpaired events stay within their limits, and no race goes beyond its target.
THEOREM RaceTypeOK == Spec => []TypeOK
<1>1. Inv => TypeOK
  BY DEF Inv
<1>2. QED
  BY <1>1, RaceInv, PTL

\* For any number of events, repetitions and emptied backlogs: a win stands for
\* two real reports, no report serves two wins, and the counts add up.
THEOREM RaceWinsAreReal == Spec => []WinsAreReal
<1>1. Inv => WinsAreReal
  BY DEF Inv, Real, OnePlace, Counted, WinsAreReal, Stamped
<1>2. QED
  BY <1>1, RaceInv, PTL

-------------------------------------------------------------------------------
(* First reports.                                                            *)

\* An endpoint's reports are taken in the order of their stamps.
InOrder ==
    /\ \A e \in Endpoint, x, y \in Event :
         \A i \in ReportsOf(e, x), j \in ReportsOf(e, y) :
           ~InFlight(i) /\ InFlight(j) => i < j
    /\ \A j, k \in 1..Len(channel) :
         j < k /\ channel[j].id = channel[k].id => channel[j].at < channel[k].at
    /\ \A e \in Endpoint, k \in 1..Len(channel) :
         pending[e] # None /\ channel[k].id = e => channel[k].at < pending[e].at

Unraced(ev) == \A p \in pairs : p.event # ev

\* What race() has taken of an event that is not raced yet came from one endpoint,
\* and the first of it is the one that waits.
FirstKept ==
    ~cleared =>
      \A ev \in Event : Unraced(ev) =>
        \A e \in Endpoint : \A i \in ReportsOf(e, ev) :
          ~InFlight(i) => first[ev] # None /\ first[ev].id = e /\ first[ev].at <= i

\* A new stamp is the latest of all, and is on its way.
LEMMA SeeSlotOrder ==
    ASSUME Inv, InOrder, FirstKept, PairedFromFirstReports,
           NEW e \in Endpoint, NEW ev \in Event, SeeSlot(e, ev)
    PROVE  InOrder' /\ FirstKept' /\ PairedFromFirstReports'
<1> PICK n \in Nat : n = Len(reports) + 1
  BY DEF Inv, TypeOK
<1>1. TypeOK /\ Real
  BY DEF Inv
<1>2. /\ UNCHANGED <<channel, first, pairs, cleared>>
      /\ reports' = Append(reports, [id |-> e, event |-> ev])
      /\ pending' = [pending EXCEPT ![e] = [id |-> e, event |-> ev, at |-> n]]
      /\ pending[e] = None
  BY DEF SeeSlot, Free, raceVars
<1>3. /\ reports \in Seq([id : Endpoint, event : Event]) /\ Len(reports) \in Nat
      /\ pending \in [Endpoint -> Report \cup {None}]
  BY <1>1 DEF TypeOK
<1>4. /\ pending'[e].at = n /\ pending'[e] # None
      /\ \A f \in Endpoint : f # e => pending'[f] = pending[f]
  <2>1. [id |-> e, event |-> ev, at |-> n] \in Report
    BY DEF Report
  <2>2. pending'[e] = [id |-> e, event |-> ev, at |-> n]
    BY <1>2, <1>3
  <2>3. [id |-> e, event |-> ev, at |-> n] # None
    BY <2>1, NoneAssumption
  <2>4. QED
    BY <1>2, <1>3, <2>2, <2>3
<1>5. \A a, x, i : i \in ReportsOf(a, x)' /\ i # n => i \in ReportsOf(a, x)
  <2> SUFFICES ASSUME NEW a, NEW x, NEW i, i \in ReportsOf(a, x)', i # n
               PROVE  i \in ReportsOf(a, x)
    OBVIOUS
  <2>1. i \in 1..Len(reports') /\ reports'[i] = [id |-> a, event |-> x]
    BY DEF ReportsOf
  <2>2. i \in 1..Len(reports) /\ reports'[i] = reports[i]
    BY <1>2, <1>3, <2>1
  <2>3. QED
    BY <2>1, <2>2 DEF ReportsOf
<1>6. \A a, x : \A i \in ReportsOf(a, x) : i \in Nat /\ i < n
  BY <1>3 DEF ReportsOf
<1>7. \A i : InFlight(i)' <=> InFlight(i) \/ i = n
  BY <1>2, <1>4 DEF InFlight
<1>8. InOrder'
  <2>1. \A a \in Endpoint, x, y \in Event :
          \A i \in ReportsOf(a, x)', j \in ReportsOf(a, y)' :
            ~InFlight(i)' /\ InFlight(j)' => i < j
    <3> SUFFICES ASSUME NEW a \in Endpoint, NEW x \in Event, NEW y \in Event,
                        NEW i \in ReportsOf(a, x)', NEW j \in ReportsOf(a, y)',
                        ~InFlight(i)', InFlight(j)'
                 PROVE  i < j
      OBVIOUS
    <3>1. i # n /\ ~InFlight(i) /\ i \in ReportsOf(a, x)
      BY <1>5, <1>7
    <3>2. CASE j = n
      BY <1>6, <3>1, <3>2
    <3>3. CASE j # n
      BY <1>5, <1>7, <3>1, <3>3 DEF InOrder
    <3>4. QED
      BY <3>2, <3>3
  <2>2. \A k \in 1..Len(channel) : channel[k].at < n
    BY <1>1, <1>6 DEF Real, Queued, Stamped
  <2>3. \A f \in Endpoint, k \in 1..Len(channel') :
          pending'[f] # None /\ channel'[k].id = f => channel'[k].at < pending'[f].at
    BY <1>2, <1>4, <2>2 DEF InOrder
  <2>4. QED
    BY <1>2, <2>1, <2>3 DEF InOrder
<1>9. \A a, x, i : i \in ReportsOf(a, x)' /\ ~InFlight(i)' =>
                   i \in ReportsOf(a, x) /\ ~InFlight(i)
  BY <1>5, <1>7
<1>10. FirstKept'
  BY <1>2, <1>9 DEF FirstKept, Unraced
<1>11. \A p \in pairs : p.won \in Nat /\ p.lost \in Nat /\ p.won < n /\ p.lost < n
  BY <1>1, <1>6 DEF Real, Stamped
<1>12. PairedFromFirstReports'
  <2> SUFFICES ASSUME ~cleared, NEW p \in pairs, \A q \in pairs \ {p} : q.event # p.event
               PROVE  /\ \A i \in ReportsOf(p.winner, p.event)' : p.won <= i
                      /\ \A i \in ReportsOf(p.loser, p.event)' : p.lost <= i
    BY <1>2 DEF PairedFromFirstReports
  <2>1. /\ \A i \in ReportsOf(p.winner, p.event) : p.won <= i
        /\ \A i \in ReportsOf(p.loser, p.event) : p.lost <= i
    BY DEF PairedFromFirstReports
  <2>2. QED
    BY <1>5, <1>11, <2>1
<1>13. QED
  BY <1>8, <1>10, <1>12

\* A stamp that is sent comes after its endpoint's others in the channel.
LEMMA SendOrder ==
    ASSUME Inv, InOrder, FirstKept, PairedFromFirstReports, NEW e \in Endpoint, Send(e)
    PROVE  InOrder' /\ FirstKept' /\ PairedFromFirstReports'
<1>1. /\ TypeOK /\ Real
      /\ pending \in [Endpoint -> Report \cup {None}]
      /\ channel \in Seq(Report) /\ Len(channel) \in Nat
  BY DEF Inv, TypeOK
<1>2. /\ UNCHANGED <<reports, first, pairs, cleared>>
      /\ pending' = [pending EXCEPT ![e] = None]
      /\ pending[e] # None /\ channel' = Append(channel, pending[e])
  BY DEF Send, raceVars
<1>3. /\ pending'[e] = None
      /\ \A f \in Endpoint : f # e => pending'[f] = pending[f]
  BY <1>1, <1>2
<1>4. /\ Len(channel') = Len(channel) + 1
      /\ \A k \in 1..Len(channel) : channel'[k] = channel[k] /\ k \in 1..Len(channel')
      /\ channel'[Len(channel) + 1] = pending[e] /\ Len(channel) + 1 \in 1..Len(channel')
  BY <1>1, <1>2
<1>5. 1..Len(channel') = (1..Len(channel)) \cup {Len(channel) + 1}
  BY <1>1, <1>4
<1>6. pending[e].id = e
  BY <1>1, <1>2 DEF Real
<1>7. \A i : InFlight(i)' <=> InFlight(i)
  <2>1. \A i : InFlight(i)' => InFlight(i)
    BY <1>2, <1>3, <1>4, <1>5 DEF InFlight
  <2>2. \A i : InFlight(i) => InFlight(i)'
    BY <1>2, <1>3, <1>4 DEF InFlight
  <2>3. QED
    BY <2>1, <2>2
<1>8. \A a, x : ReportsOf(a, x)' = ReportsOf(a, x)
  BY <1>2 DEF ReportsOf
<1>9. \A j, k \in 1..Len(channel') :
        j < k /\ channel'[j].id = channel'[k].id => channel'[j].at < channel'[k].at
  <2> SUFFICES ASSUME NEW j \in 1..Len(channel'), NEW k \in 1..Len(channel'), j < k,
                      channel'[j].id = channel'[k].id
               PROVE  channel'[j].at < channel'[k].at
    OBVIOUS
  <2>1. j \in 1..Len(channel) /\ channel'[j] = channel[j]
    BY <1>1, <1>4
  <2>2. CASE k \in 1..Len(channel)
    BY <1>4, <2>1, <2>2 DEF InOrder
  <2>3. CASE k = Len(channel) + 1
    BY <1>2, <1>4, <1>6, <2>1, <2>3 DEF InOrder
  <2>4. QED
    BY <1>5, <2>2, <2>3
<1>10. \A f \in Endpoint, k \in 1..Len(channel') :
         pending'[f] # None /\ channel'[k].id = f => channel'[k].at < pending'[f].at
  BY <1>3, <1>4, <1>5, <1>6 DEF InOrder
<1>11. InOrder'
  BY <1>7, <1>8, <1>9, <1>10 DEF InOrder
<1>12. FirstKept' /\ PairedFromFirstReports'
  BY <1>2, <1>7, <1>8 DEF FirstKept, Unraced, PairedFromFirstReports
<1>13. QED
  BY <1>11, <1>12

\* The report race() takes is the endpoint's first that is still on its way.
LEMMA HeadIsLeast ==
    ASSUME Inv, InOrder, Take, NEW y \in Event,
           NEW j \in ReportsOf(Msg.id, y), InFlight(j), j # Msg.at
    PROVE  Msg.at < j
<1>1. TypeOK /\ Real
  BY DEF Inv
<1>2. Msg = channel[1] /\ 1 \in 1..Len(channel) /\ Msg \in Report /\ Msg.id \in Endpoint
  BY <1>1, TakeTypes DEF Report
<1>3. Stamped(Msg.id, y, j)
  BY DEF Stamped
<1>4. CASE \E k \in 1..Len(channel) : channel[k].at = j
  <2>1. PICK k \in 1..Len(channel) : channel[k].at = j
    BY <1>4
  <2>2. channel[k].id = Msg.id
    BY <1>1, <1>3, <2>1, StampSays DEF Real, Queued
  <2>3. 1 < k
    BY <1>2, <2>1
  <2>4. QED
    BY <1>2, <2>1, <2>2, <2>3 DEF InOrder
<1>5. CASE \E e \in Endpoint : pending[e] # None /\ pending[e].at = j
  <2>1. PICK e \in Endpoint : pending[e] # None /\ pending[e].at = j
    BY <1>5
  <2>2. e = Msg.id
    BY <1>1, <1>3, <2>1, StampSays DEF Real
  <2>3. QED
    BY <1>2, <2>1, <2>2 DEF InOrder
<1>6. QED
  BY <1>4, <1>5 DEF InFlight

\* What is taken is no longer on its way; nothing else changes its place.
LEMMA TakeOrder ==
    ASSUME Inv, InOrder, Take
    PROVE  /\ InOrder'
           /\ \A i : InFlight(i)' <=> InFlight(i) /\ i # Msg.at
           /\ \A a, x : ReportsOf(a, x)' = ReportsOf(a, x)
           /\ Msg.at \in ReportsOf(Msg.id, Msg.event) /\ InFlight(Msg.at)
<1>1. TypeOK
  BY DEF Inv
<1>2. /\ Msg = channel[1] /\ 1 \in 1..Len(channel) /\ Len(channel') = Len(channel) - 1
      /\ \A k \in 1..Len(channel') : k + 1 \in 1..Len(channel)
                                     /\ channel'[k] = channel[k + 1]
      /\ Len(channel) \in Nat
  BY <1>1, TakeTypes DEF TypeOK
<1>3. /\ pending' = pending /\ InFlight(Msg.at)
      /\ \A i : InFlight(i)' => InFlight(i) /\ i # Msg.at
      /\ Msg.at \in ReportsOf(Msg.id, Msg.event)
  BY TakeLeaves DEF Stamped
<1>4. ASSUME NEW i, InFlight(i), i # Msg.at
      PROVE  InFlight(i)'
  <2>1. CASE \E k \in 1..Len(channel) : channel[k].at = i
    <3>1. PICK k \in 1..Len(channel) : channel[k].at = i
      BY <2>1
    <3>2. PICK l \in 1..Len(channel') : k = l + 1
      <4>1. k # 1
        BY <1>2, <1>4, <3>1
      <4>2. k - 1 \in 1..Len(channel') /\ k = (k - 1) + 1
        BY <1>2, <4>1
      <4>3. QED
        BY <4>2
    <3>3. channel'[l].at = i
      BY <1>2, <3>1, <3>2
    <3>4. QED
      BY <3>3 DEF InFlight
  <2>2. CASE \E e \in Endpoint : pending[e] # None /\ pending[e].at = i
    BY <1>3, <2>2 DEF InFlight
  <2>3. QED
    BY <1>4, <2>1, <2>2 DEF InFlight
<1>5. \A i : InFlight(i)' <=> InFlight(i) /\ i # Msg.at
  BY <1>3, <1>4
<1>6. \A a, x : ReportsOf(a, x)' = ReportsOf(a, x)
  BY DEF Take, taskVars, ReportsOf
<1>7. ASSUME NEW a \in Endpoint, NEW x \in Event, NEW y \in Event,
             NEW i \in ReportsOf(a, x), NEW j \in ReportsOf(a, y),
             ~InFlight(i)', InFlight(j)'
      PROVE  i < j
  <2>1. InFlight(j) /\ j # Msg.at
    BY <1>5, <1>7
  <2>2. CASE ~InFlight(i)
    BY <2>1, <2>2 DEF InOrder
  <2>3. CASE i = Msg.at
    <3>1. Stamped(a, x, i) /\ Stamped(Msg.id, Msg.event, i)
      BY <1>3, <2>3 DEF Stamped
    <3>2. a = Msg.id
      BY <3>1, StampSays
    <3>3. QED
      BY <2>1, <2>3, <3>2, HeadIsLeast
  <2>4. QED
    BY <1>5, <1>7, <2>2, <2>3
<1>8. \A j, k \in 1..Len(channel') :
        j < k /\ channel'[j].id = channel'[k].id => channel'[j].at < channel'[k].at
  <2> SUFFICES ASSUME NEW j \in 1..Len(channel'), NEW k \in 1..Len(channel'), j < k,
                      channel'[j].id = channel'[k].id
               PROVE  channel'[j].at < channel'[k].at
    OBVIOUS
  <2>1. /\ j + 1 \in 1..Len(channel) /\ k + 1 \in 1..Len(channel) /\ j + 1 < k + 1
        /\ channel'[j] = channel[j + 1] /\ channel'[k] = channel[k + 1]
    BY <1>2
  <2>2. QED
    BY <2>1 DEF InOrder
<1>9. \A e \in Endpoint, k \in 1..Len(channel') :
        pending'[e] # None /\ channel'[k].id = e => channel'[k].at < pending'[e].at
  BY <1>2, <1>3 DEF InOrder
<1>10. InOrder'
  BY <1>6, <1>7, <1>8, <1>9 DEF InOrder
<1>11. QED
  BY <1>3, <1>5, <1>6, <1>10

\* The first report of an event waits; a repetition changes nothing.
LEMMA WaitKept ==
    ASSUME Inv, InOrder, FirstKept, PairedFromFirstReports, TakeFirst \/ TakeRepeat
    PROVE  FirstKept' /\ PairedFromFirstReports'
<1>1. Take /\ pairs' = pairs
  BY DEF TakeFirst, TakeRepeat, raceVars
<1>2. /\ \A i : InFlight(i)' <=> InFlight(i) /\ i # Msg.at
      /\ \A a, x : ReportsOf(a, x)' = ReportsOf(a, x)
      /\ Msg.at \in ReportsOf(Msg.id, Msg.event) /\ InFlight(Msg.at)
  BY <1>1, TakeOrder
<1>3. TypeOK /\ Real /\ OnePlace
  BY DEF Inv
<1>4. Msg \in Report /\ Msg.at \in Nat /\ Msg.event \in Event /\ Msg.id \in Endpoint
  BY <1>1, <1>3, TakeTypes DEF Report
<1>5. cleared \in BOOLEAN /\ (cleared => cleared')
  BY <1>3 DEF TypeOK, TakeFirst, TakeRepeat, raceVars
<1>6. ASSUME ~cleared'
      PROVE  \A ev \in Event : first'[ev] # first[ev] =>
               /\ ev = Msg.event /\ first[ev] = None
               /\ first'[ev].id = Msg.id /\ first'[ev].at = Msg.at
  <2>1. CASE TakeFirst
    <3>1. first' = [ev \in Event |-> IF ev = Msg.event THEN [id |-> Msg.id, at |-> Msg.at]
                                    ELSE first[ev]]
      BY <1>6, <2>1 DEF TakeFirst
    <3>2. first[Msg.event] = None
      BY <2>1 DEF TakeFirst
    <3>3. QED
      BY <3>1, <3>2
  <2>2. CASE TakeRepeat
    BY <2>2 DEF TakeRepeat, raceVars
  <2>3. QED
    BY <2>1, <2>2
<1>7. ASSUME ~cleared'
      PROVE  first'[Msg.event] # None /\ first'[Msg.event].id = Msg.id
             /\ first'[Msg.event].at <= Msg.at
  <2>1. CASE TakeFirst
    <3>1. first'[Msg.event] = [id |-> Msg.id, at |-> Msg.at]
      BY <1>4, <2>1 DEF TakeFirst
    <3>2. [id |-> Msg.id, at |-> Msg.at] # None
      BY <1>4, NoneAssumption
    <3>3. QED
      BY <1>4, <3>1, <3>2
  <2>2. CASE TakeRepeat
    <3>1. /\ first' = first /\ first[Msg.event] # None /\ first[Msg.event].id = Msg.id
      BY <2>2 DEF TakeRepeat, raceVars
    <3>2. first[Msg.event].at \in ReportsOf(Msg.id, Msg.event) /\ first[Msg.event].at \in Nat
      <4>1. first[Msg.event].at \in ReportsOf(Msg.id, Msg.event)
        BY <1>3, <1>4, <3>1 DEF Real, Stamped
      <4>2. QED
        BY <4>1 DEF ReportsOf
    <3>3. ~InFlight(first[Msg.event].at)
      BY <1>3, <1>4, <3>1, <3>2 DEF OnePlace, Taken
    <3>4. first[Msg.event].at < Msg.at
      BY <1>2, <1>4, <3>2, <3>3 DEF InOrder
    <3>5. QED
      BY <1>4, <3>1, <3>2, <3>4
  <2>3. QED
    BY <2>1, <2>2
<1>8. FirstKept'
  <2> SUFFICES ASSUME ~cleared', NEW ev \in Event, Unraced(ev)', NEW e \in Endpoint,
                      NEW i \in ReportsOf(e, ev)', ~InFlight(i)'
               PROVE  first'[ev] # None /\ first'[ev].id = e /\ first'[ev].at <= i
    BY DEF FirstKept
  <2>1. i \in ReportsOf(e, ev) /\ Unraced(ev)
    BY <1>1, <1>2 DEF Unraced
  <2>2. CASE i = Msg.at
    <3>1. Stamped(e, ev, i) /\ Stamped(Msg.id, Msg.event, i)
      BY <1>2, <2>1, <2>2 DEF Stamped
    <3>2. e = Msg.id /\ ev = Msg.event
      BY <3>1, StampSays
    <3>3. QED
      BY <1>7, <2>2, <3>2
  <2>3. CASE ~InFlight(i)
    <3>1. first[ev] # None /\ first[ev].id = e /\ first[ev].at <= i
      BY <1>5, <2>1, <2>3 DEF FirstKept
    <3>2. first'[ev] = first[ev]
      BY <1>6, <3>1
    <3>3. QED
      BY <3>1, <3>2
  <2>4. QED
    BY <1>2, <2>2, <2>3
<1>9. PairedFromFirstReports'
  BY <1>1, <1>2, <1>5 DEF PairedFromFirstReports
<1>10. QED
  BY <1>8, <1>9

\* The first pairing of an event uses the first report of each endpoint.
LEMMA PairKept ==
    ASSUME Inv, InOrder, FirstKept, PairedFromFirstReports, TakePair
    PROVE  FirstKept' /\ PairedFromFirstReports'
<1> DEFINE f == first[Msg.event]
<1>1. TypeOK /\ Real /\ OnePlace /\ Take
  BY DEF Inv, TakePair
<1>2. /\ \A i : InFlight(i)' <=> InFlight(i) /\ i # Msg.at
      /\ \A a, x : ReportsOf(a, x)' = ReportsOf(a, x)
      /\ Msg.at \in ReportsOf(Msg.id, Msg.event) /\ InFlight(Msg.at)
  BY <1>1, TakeOrder
<1>3. /\ Msg \in Report /\ Msg.at \in Nat /\ Msg.event \in Event /\ Msg.id \in Endpoint
      /\ f \in [id : Endpoint, at : Nat] /\ f # None /\ f.id # Msg.id
  BY <1>1, PairingTypes DEF Report, TakePair
<1>4. /\ cleared' = cleared /\ pairs' = pairs \cup {Pairing} /\ Pairing \notin pairs
      /\ first' = [first EXCEPT ![Msg.event] = None]
  BY PairPlaces DEF TakePair, Pairing
<1>5. /\ Pairing.event = Msg.event /\ Pairing.winner = f.id /\ Pairing.won = f.at
      /\ Pairing.loser = Msg.id /\ Pairing.lost = Msg.at
  BY DEF Pairing
<1>6. f.at \in ReportsOf(f.id, Msg.event) /\ ~InFlight(f.at) /\ f.at \in Nat /\ f.id \in Endpoint
  <2>1. f.at \in ReportsOf(f.id, Msg.event)
    BY <1>1, <1>3 DEF Real, Stamped
  <2>2. f.at \in Nat /\ f.id \in Endpoint
    BY <1>3
  <2>3. ~InFlight(f.at)
    BY <1>1, <1>3, <2>2 DEF OnePlace, Taken
  <2>4. QED
    BY <2>1, <2>2, <2>3
<1> HIDE DEF f
<1>7. FirstKept'
  <2> SUFFICES ASSUME ~cleared, NEW ev \in Event, Unraced(ev)', NEW e \in Endpoint,
                      NEW i \in ReportsOf(e, ev), ~InFlight(i)'
               PROVE  first'[ev] # None /\ first'[ev].id = e /\ first'[ev].at <= i
    BY <1>2, <1>4 DEF FirstKept
  <2>1. Unraced(ev) /\ ev # Msg.event
    BY <1>4, <1>5 DEF Unraced
  <2>2. first'[ev] = first[ev]
    BY <1>1, <1>4, <2>1 DEF TypeOK
  <2>3. i # Msg.at
    <3>1. ASSUME i = Msg.at PROVE FALSE
      <4>1. Stamped(e, ev, i) /\ Stamped(Msg.id, Msg.event, i)
        BY <1>2, <3>1 DEF Stamped
      <4>2. QED
        BY <2>1, <4>1, StampSays
    <3>2. QED
      BY <3>1
  <2>4. ~InFlight(i)
    BY <1>2, <2>3
  <2>5. QED
    BY <2>1, <2>2, <2>4 DEF FirstKept
<1>8. PairedFromFirstReports'
  <2> SUFFICES ASSUME ~cleared, NEW p \in pairs',
                      \A q \in pairs' \ {p} : q.event # p.event
               PROVE  /\ \A i \in ReportsOf(p.winner, p.event) : p.won <= i
                      /\ \A i \in ReportsOf(p.loser, p.event) : p.lost <= i
    BY <1>2, <1>4 DEF PairedFromFirstReports
  <2>1. CASE p \in pairs
    BY <1>4, <2>1 DEF PairedFromFirstReports
  <2>2. CASE p = Pairing
    <3>1. Unraced(Msg.event)
      BY <1>4, <1>5, <2>2 DEF Unraced
    <3>2. \A e \in Endpoint : \A i \in ReportsOf(e, Msg.event) :
            ~InFlight(i) => f.id = e /\ f.at <= i
      BY <1>3, <3>1 DEF FirstKept, f
    <3>3. ASSUME NEW i \in ReportsOf(f.id, Msg.event) PROVE f.at <= i
      <4>1. i \in Nat
        BY DEF ReportsOf
      <4>2. CASE InFlight(i)
        <5>1. f.at < i
          BY <1>3, <1>6, <4>2 DEF InOrder
        <5>2. QED
          BY <1>6, <4>1, <5>1
      <4>3. CASE ~InFlight(i)
        BY <1>6, <3>2, <4>3
      <4>4. QED
        BY <4>2, <4>3
    <3>4. ASSUME NEW i \in ReportsOf(Msg.id, Msg.event) PROVE Msg.at <= i
      <4>1. i \in Nat
        BY DEF ReportsOf
      <4>2. InFlight(i)
        BY <1>3, <3>2
      <4>3. CASE i # Msg.at
        <5>1. Msg.at < i
          BY <1>1, <1>3, <4>2, <4>3, HeadIsLeast
        <5>2. QED
          BY <1>3, <4>1, <5>1
      <4>4. QED
        BY <1>3, <4>3
    <3>5. QED
      BY <1>5, <2>2, <3>3, <3>4
  <2>3. QED
    BY <1>4, <2>1, <2>2
<1>9. QED
  BY <1>7, <1>8

Kept == InOrder /\ FirstKept /\ PairedFromFirstReports

LEMMA InitKept == Init => Kept
<1> SUFFICES ASSUME Init PROVE Kept
  OBVIOUS
<1>1. \A a, x : ReportsOf(a, x) = {}
  BY DEF Init, ReportsOf
<1>2. 1..Len(channel) = {} /\ pairs = {}
  BY DEF Init
<1>3. QED
  BY <1>1, <1>2 DEF Kept, InOrder, FirstKept, PairedFromFirstReports

LEMMA NextKept == Inv /\ Kept /\ [Next]_vars => Kept'
<1> SUFFICES ASSUME Inv, Kept, [Next]_vars PROVE Kept'
  OBVIOUS
<1>1. InOrder /\ FirstKept /\ PairedFromFirstReports
  BY DEF Kept
<1>2. ASSUME NEW e \in Endpoint, Send(e) \/ \E ev \in Event : SeeSlot(e, ev)
      PROVE  Kept'
  BY <1>1, <1>2, SeeSlotOrder, SendOrder DEF Kept
<1>3. CASE TakeFirst \/ TakeRepeat
  <2>1. InOrder'
    BY <1>1, <1>3, TakeOrder DEF TakeFirst, TakeRepeat
  <2>2. QED
    BY <1>1, <1>3, <2>1, WaitKept DEF Kept
<1>4. CASE TakePair
  <2>1. InOrder'
    BY <1>1, <1>4, TakeOrder DEF TakePair
  <2>2. QED
    BY <1>1, <1>4, <2>1, PairKept DEF Kept
<1>5. ASSUME \/ \E e \in Endpoint : Connect(e) \/ End(e)
             \/ TargetMet \/ BothEnded \/ Finished \/ UNCHANGED vars
      PROVE  Kept'
  <2>1. UNCHANGED <<reports, pending, channel, first, pairs, cleared>>
    BY <1>5 DEF Connect, End, TargetMet, BothEnded, Finished, vars, taskVars, raceVars
  <2>2. \A i : InFlight(i)' <=> InFlight(i)
    BY <2>1 DEF InFlight
  <2>3. \A a, x : ReportsOf(a, x)' = ReportsOf(a, x)
    BY <2>1 DEF ReportsOf
  <2>4. InOrder'
    BY <1>1, <2>1, <2>2, <2>3 DEF InOrder
  <2>5. FirstKept' /\ PairedFromFirstReports'
    BY <1>1, <2>1, <2>2, <2>3 DEF FirstKept, Unraced, PairedFromFirstReports
  <2>6. QED
    BY <2>4, <2>5 DEF Kept
<1>6. QED
  BY <1>2, <1>3, <1>4, <1>5 DEF Next, TaskStep, RaceStep

LEMMA SpecKept == Spec => [](Inv /\ Kept)
<1>1. Inv /\ Kept /\ [Next]_vars => (Inv /\ Kept)'
  BY NextInv, NextKept
<1>2. QED
  BY InitInv, InitKept, <1>1, PTL DEF Spec

\* Repetitions before or after the rival's report do not shift a lead: an event that
\* was paired once was paired from each endpoint's first report (race(), grpc.rs).
THEOREM RacePairsFirstReports == Spec => []PairedFromFirstReports
<1>1. Inv /\ Kept => PairedFromFirstReports
  BY DEF Kept
<1>2. QED
  BY <1>1, SpecKept, PTL

\* No event that both endpoints reported is forgotten as long as the backlog was
\* never dropped (race(), grpc.rs).
THEOREM RaceSharesEvents == Spec => []SharedEventsRaced
<1>1. Inv /\ Kept => SharedEventsRaced
  <2> SUFFICES ASSUME Inv, Kept, ~cleared, NEW ev \in Event,
                      \A e \in Endpoint : \E i \in ReportsOf(e, ev) : ~InFlight(i)
               PROVE  \E p \in pairs : p.event = ev
    BY DEF SharedEventsRaced
  <2>1. PICK a, b \in Endpoint : a # b
    <3>1. SUFFICES ASSUME \A a, b \in Endpoint : a = b PROVE FALSE
      OBVIOUS
    <3>2. Endpoint = {} \/ \E a \in Endpoint : Endpoint = {a}
      BY <3>1
    <3>3. Cardinality(Endpoint) \in {0, 1}
      BY <3>2, FS_EmptySet, FS_Singleton
    <3>4. QED
      BY <3>3, EndpointAssumption
  <2>2. Unraced(ev) => first[ev].id = a /\ first[ev].id = b
    BY <2>1 DEF Kept, FirstKept
  <2>3. QED
    BY <2>1, <2>2 DEF Unraced
<1>2. QED
  BY <1>1, SpecKept, PTL
================================================================================
