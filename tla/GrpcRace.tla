-------------------------------- MODULE GrpcRace --------------------------------
(***************************************************************************)
(* `solbench grpc` (grpc.rs): two subscriptions race on slot updates.  A   *)
(* task per endpoint stamps an update and sends it through one bounded     *)
(* channel; race() takes the messages, keeps the first report of each      *)
(* (slot, status) and pairs it with the other endpoint's.  There is no     *)
(* timer: the race ends at the target or when both tasks have ended.       *)
(*                                                                         *)
(* A stamp is the report's place in the order of all reports, as Instants  *)
(* are read far apart next to their resolution.                            *)
(***************************************************************************)
EXTENDS Naturals, Sequences, FiniteSets

CONSTANTS Endpoint,     \* ids 0 and 1
          Event,        \* (slot, status) pairs
          Target,       \* --slots
          Capacity,     \* of the channel (2048 in the code)
          MaxUnpaired,  \* MAX_UNPAIRED (50_000 in the code)
          MaxRepeats,   \* bound: reports of one event by one endpoint
          None

Report == [id : Endpoint, event : Event, at : Nat]

ASSUME EndpointAssumption == IsFiniteSet(Endpoint) /\ Cardinality(Endpoint) = 2
ASSUME LimitAssumption    ==
    /\ Target \in Nat /\ MaxRepeats \in Nat
    /\ {Capacity, MaxUnpaired} \subseteq Nat \ {0}
ASSUME NoneAssumption     == None \notin [id : Endpoint, at : Nat] \cup Report

VARIABLES
    pc, pending,    \* per task: where it is; the report it is sending
    reports,        \* history: every report, in the order of the stamps
    channel,
    first,          \* first[ev]: the unpaired report of ev, or None
    wins, raced,
    deltas,         \* samples of the LatencyRecorder, in order
    pairs,          \* history: the pairings; won and lost are the two stamps
    cleared,        \* history: the unpaired map has been emptied
    phase

taskVars == <<pc, pending, reports>>
raceVars == <<first, wins, raced, deltas, pairs, cleared>>
vars == <<taskVars, channel, raceVars, phase>>

ReportsOf(e, ev) == {i \in 1..Len(reports) : reports[i] = [id |-> e, event |-> ev]}

Unpaired == {ev \in Event : first[ev] # None}

Init ==
    /\ pc = [e \in Endpoint |-> "connecting"]
    /\ pending = [e \in Endpoint |-> None]
    /\ reports = <<>> /\ channel = <<>>
    /\ first = [ev \in Event |-> None]
    /\ wins = [e \in Endpoint |-> 0] /\ raced = 0
    /\ deltas = <<>> /\ pairs = {} /\ cleared = FALSE
    /\ phase = "racing"

-------------------------------------------------------------------------------
Free(e) == phase = "racing" /\ pending[e] = None

Connect(e) ==
    /\ Free(e) /\ pc[e] = "connecting"
    /\ pc' = [pc EXCEPT ![e] = "streaming"]
    /\ UNCHANGED <<pending, reports, channel, raceVars, phase>>

\* No connection, an error in the stream, or its end: all are silent, the task
\* returns and drops its sender.
End(e) ==
    /\ Free(e) /\ pc[e] \in {"connecting", "streaming"}
    /\ pc' = [pc EXCEPT ![e] = "ended"]
    /\ UNCHANGED <<pending, reports, channel, raceVars, phase>>

SeeSlot(e, ev) ==
    /\ Free(e) /\ pc[e] = "streaming"
    /\ Cardinality(ReportsOf(e, ev)) < MaxRepeats
    /\ reports' = Append(reports, [id |-> e, event |-> ev])
    /\ pending' = [pending EXCEPT ![e] =
                     [id |-> e, event |-> ev, at |-> Len(reports) + 1]]
    /\ UNCHANGED <<pc, channel, raceVars, phase>>

Send(e) ==
    /\ phase = "racing" /\ pending[e] # None /\ Len(channel) < Capacity
    /\ channel' = Append(channel, pending[e])
    /\ pending' = [pending EXCEPT ![e] = None]
    /\ UNCHANGED <<pc, reports, raceVars, phase>>

-------------------------------------------------------------------------------
Msg == Head(channel)

Take == /\ phase = "racing" /\ raced < Target /\ channel # <<>>
        /\ channel' = Tail(channel)
        /\ UNCHANGED <<taskVars, phase>>

\* Mutant: the backlog is dropped only once it exceeds the limit.
TakeFirstLate ==
    /\ Take /\ first[Msg.event] = None
    /\ LET full == Cardinality(Unpaired) > MaxUnpaired
       IN  /\ first' = [ev \in Event |->
                          IF ev = Msg.event THEN [id |-> Msg.id, at |-> Msg.at]
                          ELSE IF full THEN None ELSE first[ev]]
           /\ cleared' = (cleared \/ full)
    /\ UNCHANGED <<wins, raced, deltas, pairs>>

\* The first report of an event.  A full backlog is dropped before it enters.
TakeFirst ==
    /\ Take /\ first[Msg.event] = None
    /\ LET full == Cardinality(Unpaired) >= MaxUnpaired
       IN  /\ first' = [ev \in Event |->
                          IF ev = Msg.event THEN [id |-> Msg.id, at |-> Msg.at]
                          ELSE IF full THEN None ELSE first[ev]]
           /\ cleared' = (cleared \/ full)
    /\ UNCHANGED <<wins, raced, deltas, pairs>>

\* saturating_duration_since
Since(later, earlier) == IF later >= earlier THEN later - earlier ELSE 0

\* Mutant: the paired entry is not removed.
TakePairKeepsEntry ==
    /\ Take /\ first[Msg.event] # None /\ first[Msg.event].id # Msg.id
    /\ LET f == first[Msg.event]
       IN  /\ wins' = [wins EXCEPT ![f.id] = @ + 1]
           /\ deltas' = Append(deltas, Since(Msg.at, f.at))
           /\ pairs' = pairs \cup {[event |-> Msg.event, winner |-> f.id,
                                    loser |-> Msg.id, won |-> f.at, lost |-> Msg.at]}
    /\ raced' = raced + 1
    /\ UNCHANGED <<first, cleared>>

\* The other endpoint's report of the event: the first one wins.
TakePair ==
    /\ Take /\ first[Msg.event] # None /\ first[Msg.event].id # Msg.id
    /\ LET f == first[Msg.event]
       IN  /\ wins' = [wins EXCEPT ![f.id] = @ + 1]
           /\ deltas' = Append(deltas, Since(Msg.at, f.at))
           /\ pairs' = pairs \cup {[event |-> Msg.event, winner |-> f.id,
                                    loser |-> Msg.id, won |-> f.at, lost |-> Msg.at]}
    /\ first' = [first EXCEPT ![Msg.event] = None]
    /\ raced' = raced + 1
    /\ UNCHANGED cleared

\* Mutant: a repetition replaces the report it repeats.
TakeRepeatReplaces ==
    /\ Take /\ first[Msg.event] # None /\ first[Msg.event].id = Msg.id
    /\ first' = [first EXCEPT ![Msg.event].at = Msg.at]
    /\ UNCHANGED <<wins, raced, deltas, pairs, cleared>>

\* Mutant: a repetition discards the report it repeats.
TakeRepeatDiscards ==
    /\ Take /\ first[Msg.event] # None /\ first[Msg.event].id = Msg.id
    /\ first' = [first EXCEPT ![Msg.event] = None]
    /\ UNCHANGED <<wins, raced, deltas, pairs, cleared>>

TakeRepeat ==
    /\ Take /\ first[Msg.event] # None /\ first[Msg.event].id = Msg.id
    /\ UNCHANGED raceVars

\* The verdict after the loop: without a shared event there is nothing to show.
Verdict == IF wins = [e \in Endpoint |-> 0] THEN "no_events" ELSE "reported"

TargetMet ==
    /\ phase = "racing" /\ raced >= Target
    /\ phase' = Verdict
    /\ UNCHANGED <<taskVars, channel, raceVars>>

\* Mutant: race() keeps a sender of its own, so recv() never gives None.
NeverGone == FALSE

\* recv() gives None once the channel is empty and both tasks are gone.
BothGone == /\ channel = <<>>
            /\ \A e \in Endpoint : pc[e] = "ended" /\ pending[e] = None

BothEnded ==
    /\ phase = "racing" /\ raced < Target /\ BothGone
    /\ phase' = Verdict
    /\ UNCHANGED <<taskVars, channel, raceVars>>

Finished == phase # "racing" /\ UNCHANGED vars

TaskStep(e) == Connect(e) \/ End(e) \/ Send(e) \/ \E ev \in Event : SeeSlot(e, ev)

RaceStep == TakeFirst \/ TakePair \/ TakeRepeat \/ TargetMet \/ BothEnded

Next == (\E e \in Endpoint : TaskStep(e)) \/ RaceStep \/ Finished

Spec == Init /\ [][Next]_vars

\* The runtime polls what is ready; an endpoint may be silent for ever.
FairSpec == /\ Spec /\ WF_vars(RaceStep)
            /\ \A e \in Endpoint : WF_vars(Send(e))

-------------------------------------------------------------------------------
\* The channel and the unpaired map stay within their limits.
TypeOK ==
    /\ pc \in [Endpoint -> {"connecting", "streaming", "ended"}]
    /\ pending \in [Endpoint -> Report \cup {None}]
    /\ reports \in Seq([id : Endpoint, event : Event])
    /\ channel \in Seq(Report) /\ Len(channel) <= Capacity
    /\ first \in [Event -> [id : Endpoint, at : Nat] \cup {None}]
    /\ Cardinality(Unpaired) <= MaxUnpaired
    /\ wins \in [Endpoint -> Nat] /\ raced \in 0..Target
    /\ deltas \in Seq(Nat)
    /\ pairs \subseteq [event : Event, winner : Endpoint, loser : Endpoint,
                       won : Nat, lost : Nat]
    /\ cleared \in BOOLEAN
    /\ phase \in {"racing", "reported", "no_events"}

\* A win stands for two real reports of one event by the two endpoints, and no
\* report is used for two wins, however the reports of many events, repetitions
\* and emptied backlogs interleave; the win counts and the samples add up.
WinsAreReal ==
    /\ \A p \in pairs :
         /\ p.winner # p.loser
         /\ p.won \in ReportsOf(p.winner, p.event)
         /\ p.lost \in ReportsOf(p.loser, p.event)
         /\ \A q \in pairs \ {p} : {p.won, p.lost} \cap {q.won, q.lost} = {}
    /\ raced = Cardinality(pairs) /\ raced = Len(deltas)
    /\ \A e \in Endpoint : wins[e] = Cardinality({p \in pairs : p.winner = e})

\* As long as the backlog was never dropped, an event that was paired once was
\* paired from the first report of each endpoint: repetitions, which a stream
\* may send before or after its rival's report, do not shift the lead.
PairedFromFirstReports ==
    ~cleared =>
      \A p \in pairs :
        (\A q \in pairs \ {p} : q.event # p.event) =>
          /\ \A i \in ReportsOf(p.winner, p.event) : p.won <= i
          /\ \A i \in ReportsOf(p.loser, p.event) : p.lost <= i

InFlight(i) == \/ \E k \in 1..Len(channel) : channel[k].at = i
               \/ \E e \in Endpoint : pending[e] # None /\ pending[e].at = i

\* As long as the backlog was never dropped, an event that race() has taken
\* from both endpoints has been raced.
SharedEventsRaced ==
    ~cleared =>
      \A ev \in Event :
        (\A e \in Endpoint : \E i \in ReportsOf(e, ev) : ~InFlight(i))
          => \E p \in pairs : p.event = ev

\* When both streams are over, for whatever reason, the race is too.
EndsWithStreams ==
    (\A e \in Endpoint : pc[e] = "ended") ~> phase # "racing"

================================================================================
