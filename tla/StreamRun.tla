------------------------------- MODULE StreamRun -------------------------------
(***************************************************************************)
(* One attempt of `solbench stream run` (stream/runner.rs, sources.rs): a  *)
(* task per source connects, announces itself and forwards what it         *)
(* receives into one bounded channel; the runner's select! loop takes from *)
(* the channel, or takes one of four timers, until a timer or a failure    *)
(* breaks the loop, and then writes the evidence and the manifest.         *)
(*                                                                         *)
(* Time: `now` counts the units of the four timeouts.  Arrivals are far    *)
(* denser than that, so a receive offset is the arrival's place in the     *)
(* order of all arrivals: the nanosecond clock's order without its values. *)
(* select! takes its branches in random order, so any branch that is ready *)
(* may be next; Lag bounds how many units pass while something is ready.   *)
(***************************************************************************)
EXTENDS Naturals, Sequences, FiniteSets

CONSTANTS Source,       \* cfg.sources
          Required,     \* those with required = true
          Sig,          \* transaction signatures
          MinSources,   \* run.minimum_match_sources
          Target,       \* run.target_matched_signatures
          Startup, Stall, Grace, Wall,  \* the timeouts; Stall is stall.max(1)
          Capacity,     \* of the channel (8192 in the code)
          Lag,          \* bound: time that passes while a step is ready
          MaxMessages,  \* bound: arrivals in one behaviour
          None

\* StreamMessage: what a task sends to the runner.
Message == [kind : {"connected", "failed"}, source : Source]
             \cup [kind : {"observation"}, source : Source, sig : Sig, at : Nat]

\* What run_async says of a loop that failed.
Reasons == {"startup", "wall", "stall", "source", "ended"}

\* What StreamConfig::validate demands of the file.
Validate == /\ IsFiniteSet(Source) /\ Cardinality(Source) >= 2
            /\ Required \subseteq Source
            /\ MinSources \in 2..Cardinality(Source)
            /\ {Target, Grace, Wall} \subseteq Nat \ {0}

ASSUME ConfigAssumption == Validate
ASSUME TimerAssumption ==   \* any u64 for the others; runner.rs takes stall.max(1)
    Startup \in Nat /\ {Stall, Capacity} \subseteq Nat \ {0}
ASSUME BoundAssumption == Lag \in Nat /\ MaxMessages \in Nat
ASSUME NoneAssumption  == None \notin Nat \cup Reasons \cup Message

VARIABLES
    now, late,          \* the clock; units passed with a step ready
    pc, pending,        \* per task: where it is; the message it is sending
    received,           \* history: every arrival, in the order of arrival
    channel,
    phase, failure,     \* of run_async
    warm, lastEvent, stallAt, graceAt,
    events, duplicates, matched,        \* the match book
    health,             \* artifacts.health
    rows,               \* observations.ndjson
    manifest,           \* manifest.json: status and matched_signatures
    published           \* signatures in matched-events.ndjson

clockVars  == <<now, late>>
taskVars   == <<pc, pending, received>>
timerVars  == <<lastEvent, stallAt, graceAt>>
bookVars   == <<events, duplicates, matched>>
loopVars   == <<warm, timerVars, bookVars, health, rows>>
diskVars   == <<manifest, published>>
vars == <<clockVars, taskVars, channel, phase, failure, loopVars, diskVars>>

Book == INSTANCE MatchBook WITH Offset <- Nat, Absent <- None

Health == [connects : Nat, messages : Nat, disconnects : Nat, duplicates : Nat,
           first : Nat \cup {None}, last : Nat \cup {None}]

Warmed == Required \subseteq warm
Racing == phase = "racing"

-------------------------------------------------------------------------------
Init ==
    /\ now = 0 /\ late = 0
    /\ pc = [s \in Source |-> "connecting"]
    /\ pending = [s \in Source |-> None]
    /\ received = <<>>
    /\ channel = <<>>
    /\ phase = "racing" /\ failure = None
    /\ warm = {}
    /\ lastEvent = 0 /\ stallAt = Stall /\ graceAt = None
    /\ Book!New
    /\ health = [s \in Source |->
                   [connects |-> 0, messages |-> 0, disconnects |-> 0,
                    duplicates |-> 0, first |-> None, last |-> None]]
    /\ rows = <<>>
    /\ manifest = [status |-> "created", matched |-> 0]
    /\ published = {}

-------------------------------------------------------------------------------
(* The source tasks.  A task that has a message to send does nothing else    *)
(* until the channel takes it.                                               *)

Free(s) == Racing /\ pending[s] = None

Connect(s) ==
    /\ Free(s) /\ pc[s] = "connecting"
    /\ pc' = [pc EXCEPT ![s] = "streaming"]
    /\ pending' = [pending EXCEPT ![s] = [kind |-> "connected", source |-> s]]
    /\ UNCHANGED <<clockVars, received, channel, phase, failure, loopVars, diskVars>>

\* Mutant: the task ends without telling the runner.
FailSilently(s) ==
    /\ Free(s) /\ pc[s] \in {"connecting", "streaming"}
    /\ pc' = [pc EXCEPT ![s] = "ended"]
    /\ UNCHANGED <<clockVars, pending, received, channel, phase, failure, loopVars, diskVars>>

\* An error of subscribe_inner: the endpoint, the connection, the subscription
\* or an item of the stream; or the stream's end.  subscribe() reports it.
Fail(s) ==
    /\ Free(s) /\ pc[s] \in {"connecting", "streaming"}
    /\ pc' = [pc EXCEPT ![s] = "ended"]
    /\ pending' = [pending EXCEPT ![s] = [kind |-> "failed", source |-> s]]
    /\ UNCHANGED <<clockVars, received, channel, phase, failure, loopVars, diskVars>>

\* A transaction arrives and is stamped; the stamp precedes the send.
Receive(s, sig) ==
    /\ Free(s) /\ pc[s] = "streaming"
    /\ Len(received) < MaxMessages
    /\ received' = Append(received, [source |-> s, sig |-> sig])
    /\ pending' = [pending EXCEPT ![s] =
                     [kind |-> "observation", source |-> s, sig |-> sig,
                      at |-> Len(received) + 1]]
    /\ UNCHANGED <<clockVars, pc, channel, phase, failure, loopVars, diskVars>>

\* Mutant: an unbounded channel.
CanSendAlways(s) == Racing /\ pending[s] # None

CanSend(s) == Racing /\ pending[s] # None /\ Len(channel) < Capacity

\* Mutant: try_send, whose error is ignored when the channel is full.
TrySend(s) ==
    /\ Racing /\ pending[s] # None
    /\ channel' = IF Len(channel) < Capacity THEN Append(channel, pending[s])
                                             ELSE channel
    /\ pending' = [pending EXCEPT ![s] = None]
    /\ late' = 0
    /\ UNCHANGED <<now, pc, received, phase, failure, loopVars, diskVars>>

Send(s) ==
    /\ CanSend(s)
    /\ channel' = Append(channel, pending[s])
    /\ pending' = [pending EXCEPT ![s] = None]
    /\ late' = 0
    /\ UNCHANGED <<now, pc, received, phase, failure, loopVars, diskVars>>

-------------------------------------------------------------------------------
(* The runner's loop: one action per branch of select!.                      *)

Break(reason) == phase' = "closing" /\ failure' = reason

\* Mutant: the wall's branch has the guard of its neighbour, the startup timeout.
WallDueInWarmUp == Racing /\ ~Warmed /\ now >= Wall

StartupDue == Racing /\ ~Warmed /\ now >= Startup
WallDue == Racing /\ now >= Wall
GraceDue == Racing /\ graceAt # None /\ now >= graceAt
StallDue == Racing /\ Warmed /\ graceAt = None /\ now >= stallAt

StartupTimeout ==
    /\ StartupDue /\ Break("startup") /\ late' = 0
    /\ UNCHANGED <<now, taskVars, channel, loopVars, diskVars>>

WallTimeout ==
    /\ WallDue /\ Break("wall") /\ late' = 0
    /\ UNCHANGED <<now, taskVars, channel, loopVars, diskVars>>

GraceElapsed ==
    /\ GraceDue /\ Break(None) /\ late' = 0
    /\ UNCHANGED <<now, taskVars, channel, loopVars, diskVars>>

\* Mutant: > for >=, so silence of exactly one period passes.
StallTickStrict ==
    /\ StallDue /\ late' = 0
    /\ stallAt' = now + Stall
    /\ IF now > lastEvent + Stall THEN Break("stall")
                                  ELSE UNCHANGED <<phase, failure>>
    /\ UNCHANGED <<now, taskVars, channel, warm, lastEvent, graceAt, bookVars,
                   health, rows, diskVars>>

\* A tick taken late moves the next one to a full period from now
\* (MissedTickBehavior::Delay).
StallTick ==
    /\ StallDue /\ late' = 0
    /\ stallAt' = now + Stall
    /\ IF now >= lastEvent + Stall THEN Break("stall")
                                   ELSE UNCHANGED <<phase, failure>>
    /\ UNCHANGED <<now, taskVars, channel, warm, lastEvent, graceAt, bookVars,
                   health, rows, diskVars>>

Msg == Head(channel)

\* What every message does: it is taken from the channel and counts as a sign
\* of life.
Take(kind) ==
    /\ Racing /\ channel # <<>> /\ Msg.kind = kind
    /\ channel' = Tail(channel)
    /\ lastEvent' = now /\ late' = 0
    /\ UNCHANGED <<now, taskVars, stallAt, diskVars>>

\* Mutant: a connection, not a delivery, makes a source ready.
TakeConnectedWarms ==
    /\ Take("connected")
    /\ health' = [health EXCEPT ![Msg.source].connects = @ + 1]
    /\ warm' = warm \cup {Msg.source}
    /\ UNCHANGED <<phase, failure, graceAt, bookVars, rows>>

TakeConnected ==
    /\ Take("connected")
    /\ health' = [health EXCEPT ![Msg.source].connects = @ + 1]
    /\ UNCHANGED <<phase, failure, warm, graceAt, bookVars, rows>>

TakeFailed ==
    /\ Take("failed")
    /\ health' = [health EXCEPT ![Msg.source].disconnects = @ + 1]
    /\ IF Msg.source \in Required THEN Break("source")
                                  ELSE UNCHANGED <<phase, failure>>
    /\ UNCHANGED <<warm, graceAt, bookVars, rows>>

CountMessage ==
    LET h == health[Msg.source]
    IN  health' = [health EXCEPT ![Msg.source] =
                     [h EXCEPT !.messages = h.messages + 1,
                               !.first = IF h.first = None THEN Msg.at ELSE h.first,
                               !.last = Msg.at]]

\* Until every required source has delivered, an observation only warms.
WarmUp ==
    /\ Take("observation") /\ ~Warmed
    /\ CountMessage
    /\ warm' = warm \cup {Msg.source}
    /\ UNCHANGED <<phase, failure, graceAt, bookVars, rows>>

Observed == [sig |-> Msg.sig, source |-> Msg.source, at |-> Msg.at]

\* Mutant: the target has to be exceeded.
ArmGraceAbove ==
    graceAt' = IF Book!Newly(Observed) /\ matched' > Target /\ graceAt = None
               THEN now + Grace ELSE graceAt

\* Mutant: every observation at the target arms the grace again.
ArmGraceAgain == graceAt' = IF matched' >= Target THEN now + Grace ELSE graceAt

ArmGrace ==
    graceAt' = IF Book!Newly(Observed) /\ matched' >= Target /\ graceAt = None
               THEN now + Grace ELSE graceAt

TakeObservation ==
    /\ Take("observation") /\ Warmed
    /\ CountMessage
    /\ rows' = Append(rows, Observed)
    /\ Book!Observe(Observed)
    /\ ArmGrace
    /\ UNCHANGED <<phase, failure, warm>>

\* rx.recv() gives None: nothing is queued and every task has dropped its tx.
AllGone == /\ Racing /\ channel = <<>>
           /\ \A s \in Source : pc[s] = "ended" /\ pending[s] = None

AllEnded ==
    /\ AllGone /\ Break("ended") /\ late' = 0
    /\ UNCHANGED <<now, taskVars, channel, loopVars, diskVars>>

-------------------------------------------------------------------------------
(* After the loop: the duplicates go to the health table, the matched events *)
(* and the manifest to disk.                                                 *)

\* Mutant: the target has to be exceeded.
StatusAbove == IF failure = None /\ matched > Target THEN "completed" ELSE "aborted"

Status == IF failure = None /\ matched >= Target THEN "completed" ELSE "aborted"

\* Mutant: the unmatched events are written too.
FinishUnfiltered ==
    /\ phase = "closing"
    /\ health' = [s \in Source |->
                    [health[s] EXCEPT !.duplicates = duplicates[s]]]
    /\ published' = {sig \in Sig : Book!Arrivers(sig) # {}}
    /\ manifest' = [status |-> Status, matched |-> matched]
    /\ phase' = "done"
    /\ UNCHANGED <<clockVars, taskVars, channel, failure, warm, timerVars,
                   bookVars, rows>>

Finish ==
    /\ phase = "closing"
    /\ health' = [s \in Source |->
                    [health[s] EXCEPT !.duplicates = duplicates[s]]]
    /\ published' = Book!IntoEvents
    /\ manifest' = [status |-> Status, matched |-> matched]
    /\ phase' = "done"
    /\ UNCHANGED <<clockVars, taskVars, channel, failure, warm, timerVars,
                   bookVars, rows>>

\* The process is killed, or a write fails and `?` leaves run_async: the
\* manifest of ArtifactWriter::create is what remains.
Abandon ==
    /\ phase \in {"racing", "closing"}
    /\ phase' = "abandoned"
    /\ UNCHANGED <<clockVars, taskVars, channel, failure, loopVars, diskVars>>

-------------------------------------------------------------------------------
Busy == \/ channel # <<>> \/ AllGone
        \/ \E s \in Source : CanSend(s)
        \/ StartupDue \/ WallDue \/ GraceDue \/ StallDue

Tick ==
    /\ Racing
    /\ Busy => late < Lag
    /\ now' = now + 1
    /\ late' = IF Busy THEN late + 1 ELSE 0
    /\ UNCHANGED <<taskVars, channel, phase, failure, loopVars, diskVars>>

Ended == phase \in {"done", "abandoned"} /\ UNCHANGED vars

SourceStep(s) == \/ Connect(s) \/ Fail(s) \/ Send(s)
                 \/ \E sig \in Sig : Receive(s, sig)

Receives == TakeConnected \/ TakeFailed \/ WarmUp \/ TakeObservation

RunnerStep == \/ StartupTimeout \/ WallTimeout \/ GraceElapsed \/ StallTick
              \/ Receives \/ AllEnded \/ Finish

Next == \/ \E s \in Source : SourceStep(s)
        \/ RunnerStep \/ Tick \/ Abandon \/ Ended

Spec == Init /\ [][Next]_vars

\* The network and the process owe nothing: a source may stay silent and a
\* crash may never come.  The tokio runtime polls a task that is ready, select!
\* starts at a random branch, so no ready branch is passed over for ever, and
\* time goes on.
Fairness ==
    /\ WF_vars(Tick)
    /\ WF_vars(StartupTimeout) /\ WF_vars(WallTimeout)
    /\ WF_vars(GraceElapsed) /\ WF_vars(StallTick)
    /\ WF_vars(Receives) /\ WF_vars(AllEnded) /\ WF_vars(Finish)
    /\ \A s \in Source : WF_vars(Send(s))

FairSpec == Spec /\ Fairness
-------------------------------------------------------------------------------
TypeOK ==
    /\ now \in Nat /\ late \in 0..Lag
    /\ pc \in [Source -> {"connecting", "streaming", "ended"}]
    /\ pending \in [Source -> Message \cup {None}]
    /\ received \in Seq([source : Source, sig : Sig])
    /\ channel \in Seq(Message) /\ Len(channel) <= Capacity
    /\ phase \in {"racing", "closing", "done", "abandoned"}
    /\ failure \in Reasons \cup {None}
    /\ warm \subseteq Source
    /\ lastEvent \in Nat /\ stallAt \in Nat /\ graceAt \in Nat \cup {None}
    /\ Book!TypeOK
    /\ health \in [Source -> Health]
    /\ rows \in Seq([sig : Sig, source : Source, at : Nat])
    /\ manifest \in [status : {"created", "completed", "aborted"}, matched : Nat]
    /\ published \subseteq Sig

(* One source's arrivals, by their stamps, and where they are.               *)
Arrivals(s) == {i \in 1..Len(received) : received[i].source = s}
RowsFrom(s) == {k \in 1..Len(rows) : rows[k].source = s}

ObservationOf(s, i) ==
    [kind |-> "observation", source |-> s, sig |-> received[i].sig, at |-> i]

InFlight(s) == {i \in Arrivals(s) :
                  \/ pending[s] = ObservationOf(s, i)
                  \/ \E k \in 1..Len(channel) : channel[k] = ObservationOf(s, i)}

Recorded(s) == {rows[k].at : k \in RowsFrom(s)}

\* Nothing a source delivers is lost, repeated, mixed up or reordered on its way
\* from the stamp to observations.ndjson, whatever the channel's back-pressure
\* does: messages counts all that has left its task and the channel, that is the
\* earlier arrivals; of these a prefix is spent on the warm-up and every other one
\* is a row with its own signature, once and in the order of arrival.
NothingLost ==
    \A s \in Source :
      /\ health[s].messages = Cardinality(Arrivals(s) \ InFlight(s))
      /\ \A i \in Arrivals(s) \ InFlight(s), j \in InFlight(s) : i < j
      /\ \A i \in Recorded(s), j \in Arrivals(s) : i < j => j \in Recorded(s) \cup InFlight(s)
      /\ \A k \in RowsFrom(s) : /\ rows[k].at \in Arrivals(s) \ InFlight(s)
                                 /\ rows[k].sig = received[rows[k].at].sig
      /\ \A j, k \in RowsFrom(s) : j < k => rows[j].at < rows[k].at

RowsOf(sig, s) == {i \in 1..Len(rows) : rows[i].sig = sig /\ rows[i].source = s}

\* The book can be rebuilt from observations.ndjson alone: an arrival is the
\* stamp of the first row of its signature and source, and every later such row
\* is one of the source's duplicates.
EvidenceReplay ==
    /\ \A sig \in Sig, s \in Source :
         IF RowsOf(sig, s) = {} THEN events[sig][s] = None
         ELSE \E i \in RowsOf(sig, s) :
                /\ \A j \in RowsOf(sig, s) : i <= j
                /\ events[sig][s] = rows[i].at
    /\ \A s \in Source :
         duplicates[s] = Cardinality({i \in 1..Len(rows) :
                           \E j \in RowsOf(rows[i].sig, s) :
                             j < i /\ rows[i].source = s})

\* No observation is recorded before each required source has shown that it
\* delivers: each of them has spent at least one arrival on the warm-up.
WarmBeforeRace ==
    rows # <<>> => \A s \in Required : health[s].messages > Cardinality(RowsFrom(s))

\* The grace is running exactly when the target has been met.  It is armed by
\* the observation that meets it, and no other place of the loop looks at the
\* target: if that moment passed unused the attempt could only time out.
GraceIffTarget == phase # "abandoned" => (graceAt # None <=> matched >= Target)

\* Once armed the grace is not moved, by later matches either, and the loop
\* ends without a failure only when it has run out.
GraceKept ==
    [][/\ graceAt # None => graceAt' = graceAt
       /\ phase = "racing" /\ phase' = "closing" /\ failure' = None =>
            graceAt # None /\ now >= graceAt]_vars

\* A loop that ends without a failure has met the target, so the runner's
\* `attempt did not meet target` is never said.
NeverShortOfTarget ==
    phase \in {"closing", "done"} /\ failure = None => matched >= Target

\* Silence after the warm-up ends the attempt within two stall periods of the
\* last message, although the interval was started long before the warm-up
\* ended and is out of step with the messages.  A machine that lags adds its lag
\* once, and once for every message that is queued and not yet taken.
SilenceBounded ==
    Racing /\ Warmed /\ graceAt = None =>
        now < lastEvent + 2 * Stall + Lag * (Len(channel) + 1)

\* The attempt does not outlast its wall, in the warm-up, the race or the grace, and
\* although its sources may deliver for ever, so that no stall is ever noticed.  On a
\* machine that keeps up it is over when the wall is reached.  On one that lags, only
\* messages that select! prefers to the elapsed timer keep it: time passes the last of
\* them by the lag of one step, of one tick of the stall interval, and of what is queued.
EndsByWall ==
    Racing /\ now > Wall =>
        Lag > 0 /\ (now <= Wall + Lag * (Len(channel) + 2)
                      \/ now <= lastEvent + Lag * (Len(channel) + 2))

\* `all source tasks ended` is only ever said of an attempt without required
\* sources: a task's Failed message is always taken before the channel closes.
EndedOnlyWithoutRequired == failure = "ended" => Required = {}

\* The directory of the attempt is one that the abstract attempt allows.
Promise == INSTANCE Attempt WITH evidence <- Book!IntoEvents
ImplementsAttempt == Promise!Spec


\* An attempt that has met its target completes, unless something fails first.
MatchedAttemptCompletes ==
    matched >= Target ~> \/ manifest.status = "completed"
                         \/ failure # None \/ phase = "abandoned"

-------------------------------------------------------------------------------
\* docs/stream-methodology.md: "A source failure aborts the fresh attempt".  A
\* completed attempt has no source whose failure was reported to the runner.
SourceFailureAborts ==
    manifest.status = "completed" =>
      \A i \in 1..Len(channel) : channel[i].kind # "failed"

\* docs/stream-methodology.md: "Local monotonic arrival establishes first-seen
\* order".  The earliest arrival of a published signature is from the source
\* that delivered it first.
FirstSeenIsFirstArrival ==
    \A sig \in published :
      \A i \in 1..Len(received) :
        /\ received[i].sig = sig
        /\ \A j \in 1..(i - 1) : received[j].sig # sig
        => \A s \in Source : events[sig][s] # None =>
             /\ events[sig][received[i].source] # None
             /\ events[sig][received[i].source] <= events[sig][s]
================================================================================
