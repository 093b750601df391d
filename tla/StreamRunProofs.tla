---------------------------- MODULE StreamRunProofs ----------------------------
(***************************************************************************)
(* Theorems about the stream runner for every set of sources, every        *)
(* configuration that StreamConfig::validate lets pass, every capacity and *)
(* every delay of the machine (Lag).                                       *)
(*                                                                         *)
(* Inv joins what the code keeps in four places: the book's counter and    *)
(* its entries, the grace that the counter arms, the outcome that rests on *)
(* the grace, and the manifest that is not touched until the end.  The     *)
(* sections after the refinement each add an invariant of their own: what  *)
(* the rows say of the book, where a failure is on its way, the stall      *)
(* clock, the warm-up, and the way of an arrival through task and channel. *)
(***************************************************************************)
EXTENDS StreamRun, FiniteSetTheorems, SequenceTheorems, TLAPS

BookFacts == INSTANCE MatchBookProofs WITH Offset <- Nat, Absent <- None

\* The manifest is the one of ArtifactWriter::create until Finish.
OpenUntilDone ==
    phase # "done" => /\ manifest = [status |-> "created", matched |-> 0]
                      /\ published = {}

\* The counter arms the grace, and only the counter.
GraceAtTarget == graceAt # None <=> matched >= Target

Inv == /\ TypeOK
       /\ IsFiniteSet(Book!IntoEvents) /\ Book!MatchedAgrees
       /\ GraceAtTarget
       /\ NeverShortOfTarget
       /\ OpenUntilDone
       /\ phase = "racing" => failure = None

-------------------------------------------------------------------------------
(* Types.                                                                    *)

LEMMA ConstantTypes ==
    /\ {Startup, Stall, Grace, Wall, Capacity, Target, Lag} \subseteq Nat
    /\ Target > 0
    /\ None \notin Nat /\ None \notin Reasons /\ None \notin Message
    /\ IsFiniteSet(Source) /\ Required \subseteq Source
    /\ MinSources \in Nat \ {0}
<1>1. IsFiniteSet(Source) /\ Cardinality(Source) \in Nat
  BY ConfigAssumption, FS_CardinalityType DEF Validate
<1>2. QED
  BY <1>1, ConfigAssumption, TimerAssumption, BoundAssumption, NoneAssumption
     DEF Validate

\* The head of the channel is a message, and the rest a shorter channel.
LEMMA TakeTypes ==
    ASSUME TypeOK, NEW kind, Take(kind)
    PROVE  /\ Msg \in Message /\ Msg.kind = kind
           /\ channel' \in Seq(Message) /\ Len(channel') <= Capacity
           /\ lastEvent' \in Nat /\ late' \in 0..Lag
           /\ Racing /\ Msg.source \in Source
<1>1. channel \in Seq(Message) /\ channel # <<>> /\ Len(channel) <= Capacity
  BY DEF TypeOK, Take
<1>2. Head(channel) \in Message /\ Tail(channel) \in Seq(Message)
      /\ Len(Tail(channel)) = Len(channel) - 1
  BY <1>1
<1>3. Len(channel) \in Nat /\ Capacity \in Nat /\ Lag \in Nat
  BY <1>1, ConstantTypes
<1>4. channel' = Tail(channel) /\ lastEvent' = now /\ late' = 0 /\ Msg.kind = kind
      /\ Racing /\ now \in Nat
  BY DEF Take, TypeOK
<1>5. Msg.source \in Source
  BY <1>2 DEF Msg, Message
<1>6. QED
  BY <1>1, <1>2, <1>3, <1>4, <1>5 DEF Msg

\* An observation at the head of the channel is one for the book.
LEMMA ObservedType ==
    ASSUME TypeOK, Take("observation")
    PROVE  /\ Msg.sig \in Sig /\ Msg.source \in Source /\ Msg.at \in Nat
           /\ Observed \in [sig : Sig, source : Source, at : Nat]
<1>1. Msg \in Message /\ Msg.kind = "observation"
  BY TakeTypes
<1>2. Msg \in [kind : {"observation"}, source : Source, sig : Sig, at : Nat]
  BY <1>1 DEF Message
<1>3. QED
  BY <1>2 DEF Observed

-------------------------------------------------------------------------------
(* The book inside the runner: MatchBookProofs' lemmas, on its variables.    *)

\* Each instance has its own copy of Cardinality.
LEMMA SameCardinality ==
    \A S : /\ Book!Cardinality(S) = Cardinality(S)
           /\ BookFacts!Cardinality(S) = Cardinality(S)
           /\ Promise!Cardinality(S) = Cardinality(S)
BY DEF Book!Cardinality, BookFacts!Cardinality, Promise!Cardinality, Cardinality

LEMMA SameBook ==
    /\ BookFacts!TypeOK <=> Book!TypeOK
    /\ BookFacts!Observation = Book!Observation
    /\ BookFacts!IntoEvents = Book!IntoEvents
    /\ BookFacts!IntoEvents' = Book!IntoEvents'
    /\ \A o : /\ BookFacts!Newly(o) <=> Book!Newly(o)
              /\ BookFacts!FirstArrival(o) <=> Book!FirstArrival(o)
BY SameCardinality
   DEF Book!TypeOK, BookFacts!TypeOK, Book!Observation, BookFacts!Observation,
       Book!IntoEvents, BookFacts!IntoEvents, Book!Arrivers, BookFacts!Arrivers,
       Book!Newly, BookFacts!Newly, Book!FirstArrival, BookFacts!FirstArrival

\* A first arrival adds its signature to the matched ones if Newly, else nothing.
LEMMA FirstArrivalInBook ==
    ASSUME Book!TypeOK, NEW o \in Book!Observation, Book!FirstArrival(o)
    PROVE  /\ Book!Newly(o)  => /\ o.sig \notin Book!IntoEvents
                                /\ Book!IntoEvents' = Book!IntoEvents \cup {o.sig}
           /\ ~Book!Newly(o) => Book!IntoEvents' = Book!IntoEvents
<1>1. MinSources \in Nat \ {0} /\ BookFacts!IsFiniteSet(Source) /\ None \notin Nat
  BY ConstantTypes DEF BookFacts!IsFiniteSet, IsFiniteSet
<1>2. QED
  BY <1>1, SameBook, BookFacts!FirstArrivalMatches

\* What observe() does to the parts of the invariant that speak of the book.
LEMMA ObserveKeepsBook ==
    ASSUME Inv, NEW o \in Book!Observation, Book!Observe(o)
    PROVE  /\ Book!TypeOK'
           /\ IsFiniteSet(Book!IntoEvents') /\ Book!MatchedAgrees'
           /\ \/ Book!IntoEvents' = Book!IntoEvents
              \/ Book!IntoEvents' = Book!IntoEvents \cup {o.sig}
           /\ matched' = IF Book!Newly(o) THEN matched + 1 ELSE matched
<1>1. /\ Book!TypeOK /\ IsFiniteSet(Book!IntoEvents)
      /\ matched = Cardinality(Book!IntoEvents) /\ matched \in Nat
  BY SameCardinality DEF Inv, TypeOK, Book!TypeOK, Book!MatchedAgrees
<1>2. o.sig \in Sig /\ o.source \in Source /\ o.at \in Nat /\ o.at # None
  BY ConstantTypes DEF Book!Observation
<1>3. CASE Book!Duplicate(o)
  <2>1. UNCHANGED <<events, matched>> /\ ~Book!Newly(o)
    BY <1>3 DEF Book!Duplicate, Book!Newly
  <2>2. Book!IntoEvents' = Book!IntoEvents
    BY <2>1 DEF Book!IntoEvents, Book!Arrivers
  <2>3. Book!TypeOK'
    BY <1>1, <1>2, <1>3 DEF Book!Duplicate, Book!TypeOK
  <2>4. QED
    BY <1>1, <2>1, <2>2, <2>3, SameCardinality DEF Book!MatchedAgrees
<1>4. CASE Book!FirstArrival(o)
  <2>1. Book!TypeOK'
    BY <1>1, <1>2, <1>4 DEF Book!FirstArrival, Book!TypeOK
  <2>2. matched' = IF Book!Newly(o) THEN matched + 1 ELSE matched
    BY <1>4 DEF Book!FirstArrival
  <2>3. CASE Book!Newly(o)
    <3>1. o.sig \notin Book!IntoEvents
          /\ Book!IntoEvents' = Book!IntoEvents \cup {o.sig}
      BY <1>1, <1>4, <2>3, FirstArrivalInBook
    <3>2. /\ IsFiniteSet(Book!IntoEvents')
          /\ Cardinality(Book!IntoEvents') = Cardinality(Book!IntoEvents) + 1
      BY <1>1, <3>1, FS_AddElement
    <3>3. QED
      BY <1>1, <2>1, <2>2, <2>3, <3>1, <3>2, SameCardinality DEF Book!MatchedAgrees
  <2>4. CASE ~Book!Newly(o)
    <3>1. Book!IntoEvents' = Book!IntoEvents
      BY <1>1, <1>4, <2>4, FirstArrivalInBook
    <3>2. QED
      BY <1>1, <2>1, <2>2, <2>4, <3>1, SameCardinality DEF Book!MatchedAgrees
  <2>5. QED
    BY <2>3, <2>4
<1>5. QED
  BY <1>3, <1>4 DEF Book!Observe

-------------------------------------------------------------------------------
(* The invariant.                                                            *)

\* A step that leaves book, grace, outcome and disk alone keeps all but types.
LEMMA Frame ==
    ASSUME Inv, TypeOK',
           UNCHANGED <<bookVars, graceAt, phase, failure, diskVars>>
    PROVE  Inv'
<1>1. Book!IntoEvents' = Book!IntoEvents
  BY DEF bookVars, Book!IntoEvents, Book!Arrivers
<1>2. Book!MatchedAgrees'
  BY <1>1 DEF Inv, Book!MatchedAgrees, bookVars
<1>3. QED
  BY <1>1, <1>2 DEF Inv, bookVars, diskVars, GraceAtTarget, NeverShortOfTarget,
                    OpenUntilDone

\* The loop is left with a failure, or because the grace is over.
LEMMA BreakKeeps ==
    ASSUME Inv, TypeOK', phase = "racing", NEW reason, Break(reason),
           reason = None => graceAt # None,
           UNCHANGED <<bookVars, graceAt, diskVars>>
    PROVE  Inv'
<1>1. Book!IntoEvents' = Book!IntoEvents
  BY DEF bookVars, Book!IntoEvents, Book!Arrivers
<1>2. Book!MatchedAgrees'
  BY <1>1 DEF Inv, Book!MatchedAgrees, bookVars
<1>3. phase' = "closing" /\ failure' = reason
  BY DEF Break
<1>4. NeverShortOfTarget'
  BY <1>3 DEF Inv, NeverShortOfTarget, GraceAtTarget, bookVars
<1>5. OpenUntilDone' /\ GraceAtTarget'
  BY <1>3 DEF Inv, OpenUntilDone, GraceAtTarget, bookVars, diskVars
<1>6. QED
  BY <1>1, <1>2, <1>3, <1>4, <1>5 DEF Inv

LEMMA InitInv == Init => Inv
<1> SUFFICES ASSUME Init PROVE Inv
  OBVIOUS
<1> USE ConstantTypes
<1>1. Book!New
  BY DEF Init
<1>2. Book!TypeOK
  BY <1>1 DEF Book!New, Book!TypeOK
<1>3. TypeOK
  <2>1. health \in [Source -> Health]
    BY DEF Init, Health
  <2>2. QED
    BY <1>2, <2>1 DEF Init, TypeOK
<1>4. Book!IntoEvents = {}
  <2>1. \A sig \in Sig : Book!Arrivers(sig) = {}
    BY <1>1 DEF Book!New, Book!Arrivers
  <2>2. Cardinality({}) = 0
    BY FS_EmptySet
  <2>3. QED
    BY <2>1, <2>2, SameCardinality DEF Book!IntoEvents
<1>5. IsFiniteSet(Book!IntoEvents) /\ Book!MatchedAgrees
  BY <1>1, <1>4, FS_EmptySet, SameCardinality DEF Book!MatchedAgrees, Book!New
<1>6. GraceAtTarget /\ NeverShortOfTarget /\ OpenUntilDone /\ failure = None
  BY <1>1 DEF Init, Book!New, GraceAtTarget, NeverShortOfTarget, OpenUntilDone
<1>7. QED
  BY <1>3, <1>5, <1>6 DEF Inv

\* A source task changes its own place, its message and the channel.
LEMMA SourceStepInv ==
    ASSUME Inv, NEW s \in Source, SourceStep(s)
    PROVE  Inv'
<1> USE ConstantTypes
<1>1. CASE Connect(s)
  <2>1. [kind |-> "connected", source |-> s] \in Message
    BY DEF Message
  <2>2. TypeOK'
    BY <1>1, <2>1 DEF Connect, Inv, TypeOK, clockVars, loopVars, timerVars,
                      bookVars, diskVars, Book!TypeOK
  <2>3. QED
    BY <1>1, <2>2, Frame DEF Connect, loopVars, timerVars, diskVars
<1>2. CASE Fail(s)
  <2>1. [kind |-> "failed", source |-> s] \in Message
    BY DEF Message
  <2>2. TypeOK'
    BY <1>2, <2>1 DEF Fail, Inv, TypeOK, clockVars, loopVars, timerVars,
                      bookVars, diskVars, Book!TypeOK
  <2>3. QED
    BY <1>2, <2>2, Frame DEF Fail, loopVars, timerVars, diskVars
<1>3. CASE Send(s)
  <2>1. pending[s] \in Message /\ channel \in Seq(Message)
    BY <1>3 DEF Send, CanSend, Inv, TypeOK
  <2>2. channel' \in Seq(Message) /\ Len(channel') <= Capacity
    BY <1>3, <2>1 DEF Send, CanSend
  <2>3. pending' \in [Source -> Message \cup {None}] /\ late' \in 0..Lag
    BY <1>3 DEF Send, Inv, TypeOK
  <2>4. UNCHANGED <<now, pc, received, phase, failure, warm, lastEvent, stallAt, graceAt,
                    events, duplicates, matched, health, rows, manifest, published>>
    BY <1>3 DEF Send, loopVars, timerVars, bookVars, diskVars
  <2>5. TypeOK'
    BY <2>2, <2>3, <2>4 DEF Inv, TypeOK, Book!TypeOK
  <2>6. QED
    BY <1>3, <2>5, Frame DEF Send, loopVars, timerVars, diskVars
<1>4. ASSUME NEW sig \in Sig, Receive(s, sig) PROVE Inv'
  <2>1. Len(received) \in Nat /\ received \in Seq([source : Source, sig : Sig])
    BY DEF Inv, TypeOK
  <2>2. [kind |-> "observation", source |-> s, sig |-> sig,
         at |-> Len(received) + 1] \in Message
    BY <2>1 DEF Message
  <2>3. received' \in Seq([source : Source, sig : Sig])
    BY <1>4, <2>1 DEF Receive
  <2>4. TypeOK'
    BY <1>4, <2>2, <2>3 DEF Receive, Inv, TypeOK, clockVars, loopVars, timerVars,
                            bookVars, diskVars, Book!TypeOK
  <2>5. QED
    BY <1>4, <2>4, Frame DEF Receive, loopVars, timerVars, diskVars
<1>5. QED
  BY <1>1, <1>2, <1>3, <1>4 DEF SourceStep

\* The four timers and the end of all sources leave the loop or change nothing
\* but the stall clock.
LEMMA TimerInv ==
    ASSUME Inv,
           \/ StartupTimeout \/ WallTimeout \/ GraceElapsed \/ StallTick \/ AllEnded
    PROVE  Inv'
<1> USE ConstantTypes
<1>0. late' \in 0..Lag /\ phase = "racing"
      /\ now' = now /\ UNCHANGED <<taskVars, channel, diskVars, warm, lastEvent,
                                  graceAt, bookVars, health, rows>>
  BY DEF StartupTimeout, WallTimeout, GraceElapsed, StallTick, AllEnded, AllGone,
         StartupDue, WallDue, GraceDue, StallDue, Racing, loopVars, timerVars
<1>1. ASSUME NEW reason \in Reasons \cup {None}, Break(reason), stallAt' \in Nat
      PROVE  TypeOK'
  BY <1>0, <1>1 DEF Inv, TypeOK, Break, taskVars, diskVars, bookVars, Book!TypeOK
<1>2. CASE StartupTimeout
  <2>1. Break("startup") /\ stallAt' \in Nat
    BY <1>2 DEF StartupTimeout, Inv, TypeOK, loopVars, timerVars
  <2>2. QED
    BY <1>0, <1>1, <2>1, BreakKeeps DEF Reasons
<1>3. CASE WallTimeout
  <2>1. Break("wall") /\ stallAt' \in Nat
    BY <1>3 DEF WallTimeout, Inv, TypeOK, loopVars, timerVars
  <2>2. QED
    BY <1>0, <1>1, <2>1, BreakKeeps DEF Reasons
<1>4. CASE GraceElapsed
  <2>1. Break(None) /\ stallAt' \in Nat /\ graceAt # None
    BY <1>4 DEF GraceElapsed, GraceDue, Inv, TypeOK, loopVars, timerVars
  <2>2. QED
    BY <1>0, <1>1, <2>1, BreakKeeps
<1>5. CASE AllEnded
  <2>1. Break("ended") /\ stallAt' \in Nat
    BY <1>5 DEF AllEnded, Inv, TypeOK, loopVars, timerVars
  <2>2. QED
    BY <1>0, <1>1, <2>1, BreakKeeps DEF Reasons
<1>6. CASE StallTick
  <2>1. stallAt' \in Nat
    <3>1. now \in Nat /\ stallAt' = now + Stall
      BY <1>6 DEF StallTick, Inv, TypeOK
    <3>2. QED
      BY <3>1
  <2>2. CASE Break("stall")
    BY <1>0, <1>1, <2>1, <2>2, BreakKeeps DEF Reasons
  <2>3. CASE UNCHANGED <<phase, failure>>
    <3>1. TypeOK'
      BY <1>0, <2>1, <2>3 DEF Inv, TypeOK, taskVars, diskVars, bookVars, Book!TypeOK
    <3>2. QED
      BY <1>0, <2>3, <3>1, Frame
  <2>4. QED
    BY <1>6, <2>2, <2>3 DEF StallTick
<1>7. QED
  BY <1>2, <1>3, <1>4, <1>5, <1>6

\* A counted message leaves a health table.
LEMMA CountMessageType ==
    ASSUME TypeOK, Msg.source \in Source, Msg.at \in Nat, CountMessage
    PROVE  health' \in [Source -> Health]
<1> DEFINE h     == health[Msg.source]
           first == IF h.first = None THEN Msg.at ELSE h.first
<1>1. health \in [Source -> Health] /\ h \in Health
  BY DEF TypeOK
<1>2. h.messages + 1 \in Nat /\ first \in Nat \cup {None}
  BY <1>1 DEF Health
<1>3. \A n \in Nat, f \in Nat \cup {None} :
        [h EXCEPT !.messages = n, !.first = f, !.last = Msg.at] \in Health
  BY <1>1 DEF Health
<1>4. [h EXCEPT !.messages = h.messages + 1, !.first = first, !.last = Msg.at] \in Health
  BY <1>2, <1>3
<1>5. QED
  BY <1>1, <1>4 DEF CountMessage

\* So does a connection or a failure that is counted.
LEMMA CountOneType ==
    ASSUME TypeOK, NEW s \in Source
    PROVE  /\ [health EXCEPT ![s].connects = @ + 1] \in [Source -> Health]
           /\ [health EXCEPT ![s].disconnects = @ + 1] \in [Source -> Health]
<1>1. health \in [Source -> Health]
  BY DEF TypeOK
<1>2. [health EXCEPT ![s].connects = @ + 1] \in [Source -> Health]
  BY <1>1 DEF Health
<1>3. [health EXCEPT ![s].disconnects = @ + 1] \in [Source -> Health]
  BY <1>1 DEF Health
<1>4. QED
  BY <1>2, <1>3

\* The messages that do not reach the book.
LEMMA TakeOtherInv ==
    ASSUME Inv, TakeConnected \/ TakeFailed \/ WarmUp
    PROVE  Inv'
<1> USE ConstantTypes
<1>1. CASE TakeConnected
  <2>1. /\ Msg \in Message /\ channel' \in Seq(Message) /\ Len(channel') <= Capacity
        /\ lastEvent' \in Nat /\ late' \in 0..Lag /\ Msg.source \in Source
    BY <1>1, TakeTypes DEF TakeConnected, Inv
  <2>2. health' \in [Source -> Health]
    BY <1>1, <2>1, CountOneType DEF TakeConnected, Inv
  <2>3. TypeOK'
    BY <1>1, <2>1, <2>2 DEF TakeConnected, Take, Inv, TypeOK, taskVars, diskVars,
                            bookVars, Book!TypeOK
  <2>4. QED
    BY <1>1, <2>3, Frame DEF TakeConnected, Take
<1>2. CASE TakeFailed
  <2>1. /\ Msg \in Message /\ channel' \in Seq(Message) /\ Len(channel') <= Capacity
        /\ lastEvent' \in Nat /\ late' \in 0..Lag /\ Msg.source \in Source
        /\ phase = "racing"
    BY <1>2, TakeTypes DEF TakeFailed, Inv, Racing
  <2>2. health' \in [Source -> Health]
    BY <1>2, <2>1, CountOneType DEF TakeFailed, Inv
  <2>3. Break("source") \/ UNCHANGED <<phase, failure>>
    BY <1>2 DEF TakeFailed
  <2>4. TypeOK'
    BY <1>2, <2>1, <2>2, <2>3 DEF TakeFailed, Take, Break, Reasons, Inv, TypeOK,
                                  taskVars, diskVars, bookVars, Book!TypeOK
  <2>5. UNCHANGED <<bookVars, graceAt, diskVars>>
    BY <1>2 DEF TakeFailed, Take
  <2>6. QED
    BY <2>1, <2>3, <2>4, <2>5, BreakKeeps, Frame DEF Reasons
<1>3. CASE WarmUp
  <2>1. /\ channel' \in Seq(Message) /\ Len(channel') <= Capacity
        /\ lastEvent' \in Nat /\ late' \in 0..Lag
    BY <1>3, TakeTypes DEF WarmUp, Inv
  <2>2. Msg.source \in Source /\ Msg.at \in Nat
    BY <1>3, ObservedType DEF WarmUp, Inv
  <2>3. health' \in [Source -> Health]
    BY <1>3, <2>2, CountMessageType DEF WarmUp, Inv
  <2>4. TypeOK'
    BY <1>3, <2>1, <2>2, <2>3 DEF WarmUp, Take, Inv, TypeOK, taskVars, diskVars,
                                  bookVars, Book!TypeOK
  <2>5. QED
    BY <1>3, <2>4, Frame DEF WarmUp, Take
<1>4. QED
  BY <1>1, <1>2, <1>3

\* The observation that reaches the book: it arms the grace exactly when it
\* lifts the counter to the target.
LEMMA TakeObservationInv ==
    ASSUME Inv, TakeObservation
    PROVE  Inv'
<1> USE ConstantTypes
<1>1. /\ channel' \in Seq(Message) /\ Len(channel') <= Capacity
      /\ lastEvent' \in Nat /\ late' \in 0..Lag /\ phase = "racing"
  BY TakeTypes DEF TakeObservation, Inv, Racing
<1>2. /\ Observed \in Book!Observation
      /\ Observed \in [sig : Sig, source : Source, at : Nat]
      /\ Msg.source \in Source /\ Msg.at \in Nat
  BY ObservedType DEF TakeObservation, Inv, Book!Observation
<1>3. Book!Observe(Observed)
  BY DEF TakeObservation
<1>4. /\ Book!TypeOK'
      /\ IsFiniteSet(Book!IntoEvents') /\ Book!MatchedAgrees'
      /\ matched' = IF Book!Newly(Observed) THEN matched + 1 ELSE matched
  BY <1>2, <1>3, ObserveKeepsBook
<1>5. /\ matched \in Nat /\ now \in Nat /\ graceAt \in Nat \cup {None}
      /\ graceAt # None <=> matched >= Target
  BY DEF Inv, TypeOK, Book!TypeOK, GraceAtTarget
<1>6. graceAt' = IF Book!Newly(Observed) /\ matched' >= Target /\ graceAt = None
                 THEN now + Grace ELSE graceAt
  BY DEF TakeObservation, ArmGrace
<1>7. graceAt' \in Nat \cup {None} /\ (graceAt' # None <=> matched' >= Target)
  <2>1. now + Grace \in Nat /\ now + Grace # None
    BY <1>5
  <2>2. CASE Book!Newly(Observed)
    BY <1>4, <1>5, <1>6, <2>1, <2>2
  <2>3. CASE ~Book!Newly(Observed)
    BY <1>4, <1>5, <1>6, <2>3
  <2>4. QED
    BY <2>2, <2>3
<1>8. health' \in [Source -> Health]
  BY <1>2, CountMessageType DEF TakeObservation, Inv
<1>9. rows' \in Seq([sig : Sig, source : Source, at : Nat])
  BY <1>2 DEF TakeObservation, Inv, TypeOK
<1>10. TypeOK'
  BY <1>1, <1>4, <1>7, <1>8, <1>9
     DEF TakeObservation, Take, Inv, TypeOK, taskVars, diskVars
<1>11. UNCHANGED <<phase, failure, diskVars>>
  BY DEF TakeObservation, Take
<1>12. NeverShortOfTarget' /\ OpenUntilDone' /\ (phase' = "racing" => failure' = None)
  BY <1>1, <1>11 DEF Inv, NeverShortOfTarget, OpenUntilDone, diskVars
<1>13. QED
  BY <1>4, <1>7, <1>10, <1>12 DEF Inv, GraceAtTarget

\* Closing the attempt, time, and the end of the process.
LEMMA OtherInv ==
    ASSUME Inv, Finish \/ Tick \/ Abandon \/ Ended
    PROVE  Inv'
<1> USE ConstantTypes
<1>1. ASSUME UNCHANGED bookVars
      PROVE  Book!IntoEvents' = Book!IntoEvents /\ Book!MatchedAgrees'
  <2>1. Book!IntoEvents' = Book!IntoEvents
    BY <1>1 DEF bookVars, Book!IntoEvents, Book!Arrivers
  <2>2. QED
    BY <1>1, <2>1 DEF Inv, Book!MatchedAgrees, bookVars
<1>2. CASE Finish
  <2>1. \A s \in Source : [health[s] EXCEPT !.duplicates = duplicates[s]] \in Health
    <3>1. \A h \in Health, n \in Nat : [h EXCEPT !.duplicates = n] \in Health
      BY DEF Health
    <3>2. \A s \in Source : health[s] \in Health /\ duplicates[s] \in Nat
      BY DEF Inv, TypeOK, Book!TypeOK
    <3>3. QED
      BY <3>1, <3>2
  <2>2. health' \in [Source -> Health]
    BY <1>2, <2>1 DEF Finish
  <2>3. manifest' \in [status : {"created", "completed", "aborted"}, matched : Nat]
    BY <1>2 DEF Finish, Status, Inv, TypeOK, Book!TypeOK
  <2>4. published' \subseteq Sig
    BY <1>2 DEF Finish, Book!IntoEvents
  <2>5. TypeOK'
    BY <1>2, <2>2, <2>3, <2>4 DEF Finish, Inv, TypeOK, clockVars, taskVars,
                                  timerVars, bookVars, Book!TypeOK
  <2>6. UNCHANGED <<bookVars, graceAt, failure>> /\ phase = "closing" /\ phase' = "done"
    BY <1>2 DEF Finish, timerVars
  <2>7. GraceAtTarget' /\ NeverShortOfTarget' /\ OpenUntilDone'
    BY <2>6 DEF Inv, GraceAtTarget, NeverShortOfTarget, OpenUntilDone, bookVars
  <2>8. QED
    BY <1>1, <2>5, <2>6, <2>7 DEF Inv
<1>3. CASE Tick
  <2>1. late' \in 0..Lag /\ now' \in Nat
    BY <1>3 DEF Tick, Inv, TypeOK
  <2>2. TypeOK'
    BY <1>3, <2>1 DEF Tick, Inv, TypeOK, taskVars, loopVars, timerVars, bookVars,
                      diskVars, Book!TypeOK
  <2>3. QED
    BY <1>3, <2>2, Frame DEF Tick, loopVars, timerVars
<1>4. CASE Abandon
  <2>1. TypeOK'
    BY <1>4 DEF Abandon, Inv, TypeOK, clockVars, taskVars, loopVars, timerVars,
                bookVars, diskVars, Book!TypeOK
  <2>2. UNCHANGED <<bookVars, graceAt, diskVars>>
        /\ phase \in {"racing", "closing"} /\ phase' = "abandoned"
    BY <1>4 DEF Abandon, loopVars, timerVars
  <2>3. GraceAtTarget' /\ NeverShortOfTarget' /\ OpenUntilDone'
    BY <2>2 DEF Inv, GraceAtTarget, NeverShortOfTarget, OpenUntilDone, bookVars, diskVars
  <2>4. QED
    BY <1>1, <2>1, <2>2, <2>3 DEF Inv
<1>5. CASE Ended
  <2>1. TypeOK'
    BY <1>5 DEF Ended, vars, Inv, TypeOK, clockVars, taskVars, loopVars, timerVars,
                bookVars, diskVars, Book!TypeOK
  <2>2. QED
    BY <1>5, <2>1, Frame DEF Ended, vars, loopVars, timerVars
<1>6. QED
  BY <1>2, <1>3, <1>4, <1>5

LEMMA NextInv == Inv /\ [Next]_vars => Inv'
<1> SUFFICES ASSUME Inv, [Next]_vars PROVE Inv'
  OBVIOUS
<1>1. CASE UNCHANGED vars
  <2>1. TypeOK'
    BY <1>1 DEF vars, Inv, TypeOK, clockVars, taskVars, loopVars, timerVars,
                bookVars, diskVars, Book!TypeOK
  <2>2. QED
    BY <1>1, <2>1, Frame DEF vars, loopVars, timerVars
<1>2. CASE \E s \in Source : SourceStep(s)
  BY <1>2, SourceStepInv
<1>3. CASE RunnerStep
  BY <1>3, TimerInv, TakeOtherInv, TakeObservationInv, OtherInv
     DEF RunnerStep, Receives
<1>4. CASE Tick \/ Abandon \/ Ended
  BY <1>4, OtherInv
<1>5. QED
  BY <1>1, <1>2, <1>3, <1>4 DEF Next

\* The inductive invariant holds throughout.
THEOREM RunInv == Spec => []Inv
<1>1. QED
  BY InitInv, NextInv, PTL DEF Spec

-------------------------------------------------------------------------------
\* The variables of the tasks, the runner and the files keep their types; the
\* channel never holds more than its capacity.
THEOREM RunTypeOK == Spec => []TypeOK
<1>1. Inv => TypeOK
  BY DEF Inv
<1>2. QED
  BY <1>1, RunInv, PTL

\* run_async: the completion grace is running exactly when the target is met.
THEOREM RunGraceIffTarget == Spec => []GraceIffTarget
<1>1. Inv => GraceIffTarget
  BY DEF Inv, GraceAtTarget, GraceIffTarget
<1>2. QED
  BY <1>1, RunInv, PTL

\* run_async: a loop that is left without a failure has met the target.
THEOREM RunNeverShortOfTarget == Spec => []NeverShortOfTarget
<1>1. Inv => NeverShortOfTarget
  BY DEF Inv
<1>2. QED
  BY <1>1, RunInv, PTL

\* run_async: once armed the grace is not moved, and only when it has run out is
\* the loop left without a failure.
THEOREM RunGraceKept == Spec => GraceKept
<1> DEFINE Kept == /\ graceAt # None => graceAt' = graceAt
                   /\ phase = "racing" /\ phase' = "closing" /\ failure' = None =>
                        graceAt # None /\ now >= graceAt
<1>1. [Next]_vars => [Kept]_vars
  <2> SUFFICES ASSUME Next PROVE Kept
    OBVIOUS
  <2>1. None \notin Reasons
    BY ConstantTypes
  <2>2. CASE \E s \in Source : SourceStep(s)
    BY <2>2 DEF SourceStep, Connect, Fail, Send, Receive, loopVars, timerVars
  <2>3. CASE StartupTimeout \/ WallTimeout \/ AllEnded
    BY <2>1, <2>3 DEF StartupTimeout, WallTimeout, AllEnded, Break, Reasons,
                      loopVars, timerVars
  <2>4. CASE GraceElapsed
    BY <2>4 DEF GraceElapsed, GraceDue, Break, loopVars, timerVars
  <2>5. CASE StallTick
    BY <2>1, <2>5 DEF StallTick, Break, Reasons
  <2>6. CASE TakeConnected \/ WarmUp
    BY <2>6 DEF TakeConnected, WarmUp
  <2>7. CASE TakeFailed
    BY <2>1, <2>7 DEF TakeFailed, Break, Reasons
  <2>8. CASE TakeObservation
    BY <2>8 DEF TakeObservation, ArmGrace
  <2>9. CASE Finish \/ Abandon
    BY <2>9 DEF Finish, Abandon, loopVars, timerVars
  <2>10. CASE Tick \/ Ended
    BY <2>10 DEF Tick, Ended, vars, loopVars, timerVars
  <2>11. QED
    BY <2>2, <2>3, <2>4, <2>5, <2>6, <2>7, <2>8, <2>9, <2>10
       DEF Next, RunnerStep, Receives
<1>2. QED
  BY <1>1, PTL DEF Spec, GraceKept

-------------------------------------------------------------------------------
(* The attempt that the runner implements.                                   *)

\* Steps that touch neither the book nor the disk are invisible to the attempt.
LEMMA InvisibleStep ==
    ASSUME UNCHANGED <<bookVars, diskVars>>
    PROVE  UNCHANGED Promise!vars
BY DEF bookVars, diskVars, Promise!vars, Book!IntoEvents, Book!Arrivers

LEMMA StepImplementsAttempt ==
    ASSUME Inv, [Next]_vars
    PROVE  [Promise!Next]_(Promise!vars)
<1>1. CASE UNCHANGED vars
  BY <1>1, InvisibleStep DEF vars, loopVars
<1>2. CASE \E s \in Source : SourceStep(s)
  BY <1>2, InvisibleStep DEF SourceStep, Connect, Fail, Send, Receive, loopVars
<1>3. CASE StartupTimeout \/ WallTimeout \/ GraceElapsed \/ StallTick \/ AllEnded
  BY <1>3, InvisibleStep DEF StartupTimeout, WallTimeout, GraceElapsed, StallTick,
                             AllEnded, loopVars
<1>4. CASE TakeConnected \/ TakeFailed \/ WarmUp
  BY <1>4, InvisibleStep DEF TakeConnected, TakeFailed, WarmUp, Take
<1>5. CASE TakeObservation
  <2>1. /\ Observed \in Book!Observation /\ Observed.sig \in Sig
        /\ Book!Observe(Observed)
    BY <1>5, ObservedType DEF TakeObservation, Inv, Book!Observation
  <2>2. \/ Book!IntoEvents' = Book!IntoEvents
        \/ Book!IntoEvents' = Book!IntoEvents \cup {Observed.sig}
    BY <2>1, ObserveKeepsBook
  <2>3. manifest = Promise!Created /\ UNCHANGED <<manifest, published>>
    BY <1>5 DEF TakeObservation, Take, Racing, Inv, OpenUntilDone, Promise!Created,
                diskVars
  <2>4. QED
    BY <2>1, <2>2, <2>3 DEF Promise!Next, Promise!Match, Promise!vars
<1>6. CASE Finish
  <2>1. /\ manifest = Promise!Created
        /\ matched = Promise!Cardinality(Book!IntoEvents)
    BY <1>6, SameCardinality DEF Finish, Inv, OpenUntilDone, Promise!Created,
                                 Book!MatchedAgrees
  <2>2. /\ manifest' = [status |-> Status,
                        matched |-> Promise!Cardinality(Book!IntoEvents)]
        /\ published' = Book!IntoEvents
    BY <1>6, <2>1 DEF Finish
  <2>3. Book!IntoEvents' = Book!IntoEvents
    BY <1>6 DEF Finish, bookVars, Book!IntoEvents, Book!Arrivers
  <2>4. CASE failure = None /\ matched >= Target
    BY <2>1, <2>2, <2>3, <2>4 DEF Status, Promise!Next, Promise!Complete, Promise!Close
  <2>5. CASE ~(failure = None /\ matched >= Target)
    BY <2>1, <2>2, <2>3, <2>5 DEF Status, Promise!Next, Promise!Abort, Promise!Close
  <2>6. QED
    BY <2>4, <2>5
<1>7. CASE Tick \/ Abandon \/ Ended
  BY <1>7, InvisibleStep DEF Tick, Abandon, Ended, vars, loopVars
<1>8. QED
  BY <1>1, <1>2, <1>3, <1>4, <1>5, <1>6, <1>7 DEF Next, RunnerStep, Receives

\* run_async implements the abstract attempt: what the directory says at any
\* moment, at the end or after a crash, is what a reader was promised.
THEOREM RunImplementsAttempt == Spec => ImplementsAttempt
<1>1. Init => Promise!Init
  <2> SUFFICES ASSUME Init PROVE Promise!Init
    OBVIOUS
  <2>1. \A sig \in Sig : Book!Arrivers(sig) = {}
    BY DEF Init, Book!New, Book!Arrivers
  <2>2. Book!IntoEvents = {}
    BY <2>1, FS_EmptySet, ConstantTypes, SameCardinality DEF Book!IntoEvents
  <2>3. QED
    BY <2>2 DEF Init, Promise!Init, Promise!Created
<1>2. QED
  BY <1>1, RunInv, StepImplementsAttempt, PTL DEF Spec, ImplementsAttempt, Promise!Spec
-------------------------------------------------------------------------------
(* EvidenceReplay: the rows of observations.ndjson are a log of the book.    *)

\* A new row adds its own place to the rows of its signature and source, and to
\* no other rows.
LEMMA RowsAppended ==
    ASSUME TypeOK, NEW o \in [sig : Sig, source : Source, at : Nat],
           rows' = Append(rows, o),
           NEW sig \in Sig, NEW s \in Source
    PROVE  RowsOf(sig, s)' = IF o.sig = sig /\ o.source = s
                             THEN RowsOf(sig, s) \cup {Len(rows) + 1}
                             ELSE RowsOf(sig, s)
<1>1. rows \in Seq([sig : Sig, source : Source, at : Nat]) /\ Len(rows) \in Nat
  BY DEF TypeOK
<1>2. /\ Len(rows') = Len(rows) + 1
      /\ \A i \in 1..Len(rows) : rows'[i] = rows[i]
      /\ rows'[Len(rows) + 1] = o
  BY <1>1
<1>3. 1..Len(rows') = (1..Len(rows)) \cup {Len(rows) + 1}
  BY <1>1, <1>2
<1>4. QED
  BY <1>1, <1>2, <1>3 DEF RowsOf

\* The rows of a source that repeat an earlier row of the same signature.
Repetitions(s) == {i \in 1..Len(rows) :
                     \E j \in RowsOf(rows[i].sig, s) : j < i /\ rows[i].source = s}

\* A new row is a repetition exactly when its signature and source have a row.
LEMMA RepetitionsAppended ==
    ASSUME TypeOK, NEW o \in [sig : Sig, source : Source, at : Nat],
           rows' = Append(rows, o), NEW s \in Source
    PROVE  Repetitions(s)' = IF o.source = s /\ RowsOf(o.sig, s) # {}
                             THEN Repetitions(s) \cup {Len(rows) + 1}
                             ELSE Repetitions(s)
<1>1. rows \in Seq([sig : Sig, source : Source, at : Nat]) /\ Len(rows) \in Nat
  BY DEF TypeOK
<1>2. /\ Len(rows') = Len(rows) + 1
      /\ \A i \in 1..Len(rows) : rows'[i] = rows[i]
      /\ rows'[Len(rows) + 1] = o /\ o.sig \in Sig
  BY <1>1
<1>21. \A i \in 1..Len(rows) : rows[i] \in [sig : Sig, source : Source, at : Nat]
  BY <1>1, ElementOfSeq
<1>22. \A i \in 1..Len(rows) : rows[i].sig \in Sig
  BY <1>21
<1>3. \A sig \in Sig : RowsOf(sig, s) \subseteq 1..Len(rows)
  BY DEF RowsOf
<1>4. \A sig \in Sig : RowsOf(sig, s)' = IF o.sig = sig /\ o.source = s
                             THEN RowsOf(sig, s) \cup {Len(rows) + 1}
                             ELSE RowsOf(sig, s)
  BY RowsAppended
<1>5. \A i \in 1..Len(rows) :
        (\E j \in RowsOf(rows[i].sig, s)' : j < i /\ rows'[i].source = s)
          <=> (\E j \in RowsOf(rows[i].sig, s) : j < i /\ rows[i].source = s)
  <2> SUFFICES ASSUME NEW i \in 1..Len(rows)
               PROVE  (\E j \in RowsOf(rows[i].sig, s)' : j < i /\ rows'[i].source = s)
                        <=> (\E j \in RowsOf(rows[i].sig, s) : j < i /\ rows[i].source = s)
    OBVIOUS
  <2>1. PICK g \in Sig : g = rows[i].sig
    BY <1>22
  <2>2. rows'[i] = rows[i]
    BY <1>2
  <2>3. RowsOf(g, s)' = RowsOf(g, s)
        \/ RowsOf(g, s)' = RowsOf(g, s) \cup {Len(rows) + 1}
    BY <1>4
  <2>4. ~(Len(rows) + 1 < i)
    BY <1>1
  <2>5. (\E j \in RowsOf(g, s)' : j < i) <=> (\E j \in RowsOf(g, s) : j < i)
    BY <2>3, <2>4
  <2>6. RowsOf(rows[i].sig, s)' = RowsOf(g, s)' /\ RowsOf(rows[i].sig, s) = RowsOf(g, s)
    BY <2>1, <2>2
  <2>7. QED
    BY <2>1, <2>2, <2>5, <2>6
<1>6. (\E j \in RowsOf(o.sig, s)' : j < Len(rows) + 1 /\ o.source = s)
        <=> o.source = s /\ RowsOf(o.sig, s) # {}
  <2>1. \A j \in RowsOf(o.sig, s) : j < Len(rows) + 1
    BY <1>1, <1>2, <1>3
  <2>2. RowsOf(o.sig, s)' = RowsOf(o.sig, s)
        \/ RowsOf(o.sig, s)' = RowsOf(o.sig, s) \cup {Len(rows) + 1}
    BY <1>2, <1>4
  <2>3. ~(Len(rows) + 1 < Len(rows) + 1)
    BY <1>1
  <2>4. QED
    BY <2>1, <2>2, <2>3
<1>7. 1..Len(rows') = (1..Len(rows)) \cup {Len(rows) + 1}
  BY <1>1, <1>2
<1>8. QED
  BY <1>2, <1>5, <1>6, <1>7 DEF Repetitions

\* The two halves of EvidenceReplay.
ArrivalsReplay ==
    \A sig \in Sig, s \in Source :
      IF RowsOf(sig, s) = {} THEN events[sig][s] = None
      ELSE \E i \in RowsOf(sig, s) : /\ \A j \in RowsOf(sig, s) : i <= j
                                     /\ events[sig][s] = rows[i].at

DuplicatesReplay == \A s \in Source : duplicates[s] = Cardinality(Repetitions(s))

LEMMA Halves == EvidenceReplay <=> ArrivalsReplay /\ DuplicatesReplay
  BY DEF EvidenceReplay, ArrivalsReplay, DuplicatesReplay, Repetitions

\* What the book and the rows are made of is all that EvidenceReplay reads.
LEMMA ReplayUnchanged ==
    ASSUME EvidenceReplay, UNCHANGED <<rows, events, duplicates>>
    PROVE  EvidenceReplay'
  BY DEF EvidenceReplay, RowsOf

\* What an arrival's first row says, whether there is one or not.
LEMMA RecordedIffRow ==
    ASSUME TypeOK, ArrivalsReplay, NEW sig \in Sig, NEW s \in Source
    PROVE  events[sig][s] = None <=> RowsOf(sig, s) = {}
<1>1. rows \in Seq([sig : Sig, source : Source, at : Nat]) /\ None \notin Nat
  BY ConstantTypes DEF TypeOK
<1>2. \A i \in 1..Len(rows) : rows[i] \in [sig : Sig, source : Source, at : Nat]
  BY <1>1, ElementOfSeq
<1>21. \A i \in RowsOf(sig, s) : rows[i].at \in Nat
  BY <1>2 DEF RowsOf
<1>3. QED
  BY <1>1, <1>21 DEF ArrivalsReplay

\* Whichever way MatchBook::observe takes, the row that is written with it says
\* the same.
LEMMA ReplayObservation ==
    ASSUME Inv, EvidenceReplay, TakeObservation
    PROVE  EvidenceReplay'
<1> DEFINE o == Observed
           n == Len(rows)
<1>1. /\ o \in [sig : Sig, source : Source, at : Nat]
      /\ o.sig \in Sig /\ o.source \in Source /\ o.at \in Nat
  BY ObservedType DEF TakeObservation, Inv
<1>2. rows' = Append(rows, o) /\ Book!Observe(o)
  BY DEF TakeObservation
<1>3. TypeOK /\ ArrivalsReplay /\ DuplicatesReplay
  BY Halves DEF Inv
<1>4. /\ rows \in Seq([sig : Sig, source : Source, at : Nat]) /\ n \in Nat
      /\ events \in [Sig -> [Source -> Nat \cup {None}]]
      /\ duplicates \in [Source -> Nat]
  BY <1>3 DEF TypeOK, Book!TypeOK
<1>5. /\ rows'[n + 1] = o
      /\ \A i \in 1..n : rows'[i] = rows[i]
  BY <1>1, <1>2, <1>4
<1> HIDE DEF o, n
<1>6. \A sig \in Sig, s \in Source :
        /\ RowsOf(sig, s) \subseteq 1..n
        /\ RowsOf(sig, s)' = IF o.sig = sig /\ o.source = s
                             THEN RowsOf(sig, s) \cup {n + 1} ELSE RowsOf(sig, s)
  BY <1>1, <1>2, <1>3, RowsAppended DEF n, RowsOf
<1>7. \A s \in Source : /\ IsFiniteSet(Repetitions(s)) /\ n + 1 \notin Repetitions(s)
                        /\ Cardinality(Repetitions(s)) \in Nat
  <2>1. \A s \in Source : Repetitions(s) \subseteq 1..n
    BY DEF Repetitions, n
  <2>2. IsFiniteSet(1..n)
    BY <1>4, FS_Interval
  <2>3. \A s \in Source : IsFiniteSet(Repetitions(s))
    BY <2>1, <2>2, FS_Subset
  <2>4. n + 1 \notin 1..n
    BY <1>4
  <2>5. QED
    BY <2>1, <2>3, <2>4, FS_CardinalityType
<1>8. \A s \in Source : Repetitions(s)' = IF o.source = s /\ RowsOf(o.sig, s) # {}
                           THEN Repetitions(s) \cup {n + 1} ELSE Repetitions(s)
  BY <1>1, <1>2, <1>3, RepetitionsAppended DEF n
<1>9. CASE Book!Duplicate(o)
  <2>1. /\ events' = events /\ events[o.sig][o.source] # None
        /\ duplicates' = [duplicates EXCEPT ![o.source] = @ + 1]
    BY <1>9 DEF Book!Duplicate
  <2>2. RowsOf(o.sig, o.source) # {}
    BY <1>1, <1>3, <2>1, RecordedIffRow
  <2>3. ArrivalsReplay'
    <3> SUFFICES ASSUME NEW sig \in Sig, NEW s \in Source
                 PROVE  IF RowsOf(sig, s)' = {} THEN events[sig][s] = None
                        ELSE \E i \in RowsOf(sig, s)' :
                               /\ \A j \in RowsOf(sig, s)' : i <= j
                               /\ events[sig][s] = rows'[i].at
      BY <2>1 DEF ArrivalsReplay
    <3>1. CASE RowsOf(sig, s) = {}
      <4>1. RowsOf(sig, s)' = {}
        BY <1>6, <2>2, <3>1
      <4>2. QED
        BY <1>3, <3>1, <4>1 DEF ArrivalsReplay
    <3>2. CASE RowsOf(sig, s) # {}
      <4>1. PICK i \in RowsOf(sig, s) : /\ \A j \in RowsOf(sig, s) : i <= j
                                        /\ events[sig][s] = rows[i].at
        BY <1>3, <3>2 DEF ArrivalsReplay
      <4>2. i \in 1..n /\ rows'[i] = rows[i] /\ i <= n + 1
        BY <1>4, <1>5, <1>6, <4>1
      <4>3. /\ RowsOf(sig, s) \subseteq RowsOf(sig, s)'
            /\ RowsOf(sig, s)' \subseteq RowsOf(sig, s) \cup {n + 1}
        BY <1>6
      <4>4. QED
        BY <4>1, <4>2, <4>3
    <3>3. QED
      BY <3>1, <3>2
  <2>4. DuplicatesReplay'
    <3>1. \A s \in Source : Cardinality(Repetitions(s)') =
            IF s = o.source THEN Cardinality(Repetitions(s)) + 1
            ELSE Cardinality(Repetitions(s))
      BY <1>7, <1>8, <2>2, FS_AddElement
    <3>2. QED
      BY <1>3, <1>4, <2>1, <3>1 DEF DuplicatesReplay
  <2>5. QED
    BY <2>3, <2>4, Halves, PTL
<1>10. CASE Book!FirstArrival(o)
  <2>1. /\ events[o.sig][o.source] = None
        /\ events' = [events EXCEPT ![o.sig][o.source] = o.at]
        /\ duplicates' = duplicates
    BY <1>10 DEF Book!FirstArrival
  <2>2. RowsOf(o.sig, o.source) = {}
    BY <1>1, <1>3, <2>1, RecordedIffRow
  <2>3. ArrivalsReplay'
    <3> SUFFICES ASSUME NEW sig \in Sig, NEW s \in Source
                 PROVE  IF RowsOf(sig, s)' = {} THEN events'[sig][s] = None
                        ELSE \E i \in RowsOf(sig, s)' :
                               /\ \A j \in RowsOf(sig, s)' : i <= j
                               /\ events'[sig][s] = rows'[i].at
      BY DEF ArrivalsReplay
    <3>1. CASE o.sig = sig /\ o.source = s
      <4>1. RowsOf(sig, s)' = {n + 1}
        BY <1>6, <2>2, <3>1
      <4>2. events'[sig][s] = o.at
        BY <1>4, <2>1, <3>1
      <4>3. n + 1 <= n + 1
        BY <1>4
      <4>4. QED
        BY <1>5, <4>1, <4>2, <4>3
    <3>2. CASE ~(o.sig = sig /\ o.source = s)
      <4>1. RowsOf(sig, s)' = RowsOf(sig, s) /\ events'[sig][s] = events[sig][s]
        BY <1>1, <1>4, <1>6, <2>1, <3>2
      <4>2. \A i \in RowsOf(sig, s) : rows'[i] = rows[i]
        BY <1>5, <1>6
      <4>3. IF RowsOf(sig, s) = {} THEN events[sig][s] = None
            ELSE \E i \in RowsOf(sig, s) : /\ \A j \in RowsOf(sig, s) : i <= j
                                           /\ events[sig][s] = rows[i].at
        BY <1>3 DEF ArrivalsReplay
      <4>4. QED
        BY <4>1, <4>2, <4>3
    <3>3. QED
      BY <3>1, <3>2
  <2>4. DuplicatesReplay'
    <3>1. \A s \in Source : Repetitions(s)' = Repetitions(s)
      BY <1>8, <2>2
    <3>2. QED
      BY <1>3, <2>1, <3>1 DEF DuplicatesReplay
  <2>5. QED
    BY <2>3, <2>4, Halves, PTL
<1>11. QED
  BY <1>2, <1>9, <1>10 DEF Book!Observe

\* The book and the rows change together and nowhere else.
LEMMA OnlyObservations ==
    ASSUME [Next]_vars, ~TakeObservation
    PROVE  UNCHANGED <<rows, events, duplicates>>
<1> USE DEF loopVars, bookVars
<1>1. ASSUME NEW s \in Source, SourceStep(s)
      PROVE  UNCHANGED <<rows, events, duplicates>>
  BY <1>1 DEF SourceStep, Connect, Fail, Send, Receive
<1>2. CASE RunnerStep
  BY <1>2 DEF RunnerStep, StartupTimeout, WallTimeout, GraceElapsed, StallTick,
              Receives, TakeConnected, TakeFailed, WarmUp, AllEnded, Finish
<1>3. CASE Tick \/ Abandon \/ Ended \/ UNCHANGED vars
  BY <1>3 DEF Tick, Abandon, Ended, vars
<1>4. QED
  BY <1>1, <1>2, <1>3 DEF Next

\* For every configuration and every interleaving, the match book can be rebuilt
\* from observations.ndjson: arrivals are first rows, duplicates later ones.
THEOREM RunEvidenceReplay == Spec => []EvidenceReplay
<1>1. Init => EvidenceReplay
  <2> SUFFICES ASSUME Init PROVE EvidenceReplay
    OBVIOUS
  <2>1. /\ rows = <<>> /\ duplicates = [s \in Source |-> 0]
        /\ events = [sig \in Sig |-> [s \in Source |-> None]]
    BY DEF Init, Book!New
  <2>2. \A sig \in Sig, s \in Source : RowsOf(sig, s) = {}
    BY <2>1 DEF RowsOf
  <2>3. \A s \in Source : Repetitions(s) = {}
    BY <2>1 DEF Repetitions
  <2>4. QED
    BY <2>1, <2>2, <2>3, FS_EmptySet, Halves DEF ArrivalsReplay, DuplicatesReplay
<1>2. Inv /\ EvidenceReplay /\ [Next]_vars => EvidenceReplay'
  BY ReplayObservation, ReplayUnchanged, OnlyObservations
<1>3. QED
  BY <1>1, <1>2, RunInv, PTL DEF Spec

-------------------------------------------------------------------------------
(* EndedOnlyWithoutRequired: a failure on its way keeps the channel open.     *)

\* What a task sends last, and where it is until the runner has it.
Failure(s) == [kind |-> "failed", source |-> s]

Coming(s) == \/ pending[s] = Failure(s)
             \/ \E i \in 1..Len(channel) : channel[i] = Failure(s)

\* While the loop runs, the failure of a required source whose task has ended is
\* being sent or queued: had it been taken, the loop would be over.
FailureComing == Racing => \A s \in Required : pc[s] = "ended" => Coming(s)

\* Failures are messages, and differ from every other.
LEMMA FailureIsMessage ==
    ASSUME NEW s \in Source
    PROVE  /\ Failure(s) \in Message /\ Failure(s) # None
           /\ Failure(s).kind = "failed" /\ Failure(s).source = s
<1>1. Failure(s) \in [kind : {"connected", "failed"}, source : Source]
  BY DEF Failure
<1>2. QED
  BY <1>1, ConstantTypes DEF Message, Failure

\* A message that goes from a task to the channel is still coming.
LEMMA ComingSent ==
    ASSUME TypeOK, NEW s \in Source, NEW t \in Source, Send(t), Coming(s)
    PROVE  Coming(s)'
<1>1. /\ channel \in Seq(Message) /\ Len(channel) \in Nat
      /\ pending \in [Source -> Message \cup {None}]
      /\ channel' = Append(channel, pending[t])
      /\ pending' = [pending EXCEPT ![t] = None]
      /\ pending[t] # None
  BY DEF TypeOK, Send, CanSend
<1>2. pending[t] \in Message
  BY <1>1
<1>3. /\ Len(channel') = Len(channel) + 1
      /\ \A i \in 1..Len(channel) : channel'[i] = channel[i]
      /\ channel'[Len(channel) + 1] = pending[t]
  BY <1>1, <1>2
<1>4. CASE \E i \in 1..Len(channel) : channel[i] = Failure(s)
  BY <1>1, <1>3, <1>4 DEF Coming
<1>5. CASE pending[s] = Failure(s) /\ s = t
  <2>1. channel'[Len(channel) + 1] = Failure(s) /\ Len(channel) + 1 \in 1..Len(channel')
    BY <1>1, <1>3, <1>5
  <2>2. QED
    BY <2>1 DEF Coming
<1>6. CASE pending[s] = Failure(s) /\ s # t
  BY <1>1, <1>6 DEF Coming
<1>7. QED
  BY <1>4, <1>5, <1>6 DEF Coming

\* A message behind the one that is taken is still coming.
LEMMA ComingTaken ==
    ASSUME TypeOK, NEW s \in Source, NEW kind, Take(kind), Coming(s), Msg # Failure(s)
    PROVE  Coming(s)'
<1>1. /\ channel \in Seq(Message) /\ Len(channel) \in Nat /\ channel # <<>>
      /\ channel' = Tail(channel) /\ pending' = pending
  BY DEF TypeOK, Take, taskVars
<1>2. /\ Len(channel') = Len(channel) - 1
      /\ \A i \in 1..Len(channel') : channel'[i] = channel[i + 1]
      /\ channel[1] # Failure(s)
  BY <1>1 DEF Msg
<1>3. CASE pending[s] = Failure(s)
  BY <1>1, <1>3 DEF Coming
<1>4. CASE \E i \in 1..Len(channel) : channel[i] = Failure(s)
  <2>1. PICK i \in 1..Len(channel) : channel[i] = Failure(s)
    BY <1>4
  <2>2. i # 1 /\ i \in Nat
    BY <1>2, <2>1
  <2>3. i - 1 \in 1..Len(channel') /\ (i - 1) + 1 = i
    BY <1>1, <1>2, <2>1, <2>2
  <2>4. channel'[i - 1] = Failure(s)
    BY <1>2, <2>1, <2>3
  <2>5. QED
    BY <2>3, <2>4 DEF Coming
<1>5. QED
  BY <1>3, <1>4 DEF Coming

\* A task that ends puts its failure on the way.
LEMMA FailureComingTask ==
    ASSUME Inv, FailureComing, NEW t \in Source, SourceStep(t)
    PROVE  FailureComing'
<1>1. TypeOK /\ Racing /\ (Required \subseteq Source)
  BY ConstantTypes DEF Inv, SourceStep, Connect, Fail, Send, CanSend, Receive, Free
<1>2. /\ pc \in [Source -> {"connecting", "streaming", "ended"}]
      /\ pending \in [Source -> Message \cup {None}]
  BY <1>1 DEF TypeOK
<1>3. \A s \in Required : pc[s] = "ended" => Coming(s)
  BY <1>1 DEF FailureComing
<1>4. CASE Send(t)
  BY <1>1, <1>3, <1>4, ComingSent DEF FailureComing, Send, Racing
<1>5. CASE Fail(t)
  <2> SUFFICES ASSUME NEW s \in Required, pc'[s] = "ended" PROVE Coming(s)'
    BY DEF FailureComing
  <2>1. CASE s = t
    BY <1>1, <1>2, <1>5, <2>1 DEF Fail, Coming, Failure
  <2>2. CASE s # t
    <3>1. pc[s] = "ended" /\ pending'[s] = pending[s] /\ channel' = channel
      BY <1>1, <1>2, <1>5, <2>2 DEF Fail
    <3>2. QED
      BY <1>3, <3>1 DEF Coming
  <2>3. QED
    BY <2>1, <2>2
<1>6. CASE Connect(t) \/ \E sig \in Sig : Receive(t, sig)
  <2> SUFFICES ASSUME NEW s \in Required, pc'[s] = "ended" PROVE Coming(s)'
    BY DEF FailureComing
  <2>1. pc[s] = "ended" /\ s # t /\ channel' = channel
    BY <1>1, <1>2, <1>6 DEF Connect, Receive
  <2>2. pending'[s] = pending[s]
    BY <1>1, <1>2, <1>6, <2>1 DEF Connect, Receive
  <2>3. QED
    BY <1>3, <2>1, <2>2 DEF Coming
<1>7. QED
  BY <1>4, <1>5, <1>6 DEF SourceStep

\* The loop goes on only if the failure taken is an optional source's.
LEMMA FailureComingTake ==
    ASSUME Inv, FailureComing, Receives
    PROVE  FailureComing'
<1>1. PICK kind : Take(kind)
  BY DEF Receives, TakeConnected, TakeFailed, WarmUp, TakeObservation
<1>2. TypeOK /\ Racing /\ Required \subseteq Source /\ pc' = pc
  BY <1>1, ConstantTypes DEF Inv, Take, taskVars
<1>3. SUFFICES ASSUME Racing', NEW s \in Required, pc'[s] = "ended"
               PROVE  Coming(s)'
  BY DEF FailureComing
<1>4. Msg # Failure(s)
  <2>1. CASE TakeFailed
    <3>1. Msg.source \notin Required
      BY <1>3, <2>1 DEF TakeFailed, Break, Racing
    <3>2. QED
      BY <1>2, <3>1, FailureIsMessage
  <2>2. CASE ~TakeFailed
    <3>1. Msg.kind # "failed"
      BY <2>2 DEF Receives, TakeConnected, WarmUp, TakeObservation, Take
    <3>2. QED
      BY <1>2, <3>1, FailureIsMessage
  <2>3. QED
    BY <2>1, <2>2
<1>5. Coming(s)
  BY <1>2, <1>3 DEF FailureComing
<1>6. QED
  BY <1>1, <1>2, <1>4, <1>5, ComingTaken

\* The other steps leave tasks and channel alone, and none starts the loop.
LEMMA FailureComingElse ==
    ASSUME FailureComing, UNCHANGED <<taskVars, channel>>, Racing' => Racing
    PROVE  FailureComing'
BY DEF FailureComing, Coming, taskVars

\* Every step keeps it.
LEMMA NextFailureComing ==
    ASSUME Inv, FailureComing, [Next]_vars
    PROVE  FailureComing'
<1>1. CASE \E s \in Source : SourceStep(s)
  BY <1>1, FailureComingTask
<1>2. CASE Receives
  BY <1>2, FailureComingTake
<1>3. CASE StartupTimeout \/ WallTimeout \/ GraceElapsed \/ StallTick \/ AllEnded
  BY <1>3, FailureComingElse DEF StartupTimeout, WallTimeout, GraceElapsed, StallTick,
     AllEnded, AllGone, StartupDue, WallDue, GraceDue, StallDue
<1>4. CASE Finish \/ Tick \/ Abandon
  BY <1>4, FailureComingElse DEF Finish, Tick, Abandon, Racing
<1>5. CASE Ended \/ UNCHANGED vars
  BY <1>5, FailureComingElse DEF Ended, vars, Racing
<1>6. QED
  BY <1>1, <1>2, <1>3, <1>4, <1>5 DEF Next, RunnerStep

\* Only AllEnded says that all tasks ended, and only when nothing is coming.
LEMMA NextEndedOnly ==
    ASSUME Inv, FailureComing, EndedOnlyWithoutRequired, [Next]_vars
    PROVE  EndedOnlyWithoutRequired'
<1>1. CASE AllEnded
  <2>1. Racing /\ channel = <<>> /\ (Required \subseteq Source)
        /\ \A s \in Source : pc[s] = "ended" /\ pending[s] = None
    BY <1>1, ConstantTypes DEF AllEnded, AllGone
  <2>2. 1..Len(channel) = {}
    BY <2>1
  <2>3. \A s \in Required : Failure(s) # None
    BY <2>1, FailureIsMessage
  <2>4. \A s \in Required : ~Coming(s)
    BY <2>1, <2>2, <2>3 DEF Coming
  <2>5. Required = {}
    BY <2>1, <2>4 DEF FailureComing
  <2>6. QED
    BY <2>5 DEF EndedOnlyWithoutRequired
<1>2. CASE ~AllEnded
  <2>1. failure' = "ended" => failure = "ended"
    <3>1. ASSUME NEW s \in Source, SourceStep(s) PROVE failure' = failure
      BY <3>1 DEF SourceStep, Connect, Fail, Send, Receive
    <3>2. CASE Receives
      BY <3>2, ConstantTypes DEF Receives, TakeConnected, TakeFailed, WarmUp, TakeObservation, Break
    <3>3. CASE StartupTimeout \/ WallTimeout \/ StallTick
      BY <3>3 DEF StartupTimeout, WallTimeout, StallTick, Break
    <3>4. CASE GraceElapsed
      BY <3>4, ConstantTypes DEF GraceElapsed, Break, Reasons
    <3>5. CASE Finish \/ Tick \/ Abandon
      BY <3>5 DEF Finish, Tick, Abandon
    <3>6. CASE Ended \/ UNCHANGED vars
      BY <3>6 DEF Ended, vars
    <3>7. QED
      BY <1>2, <3>1, <3>2, <3>3, <3>4, <3>5, <3>6 DEF Next, RunnerStep
  <2>2. QED
    BY <2>1 DEF EndedOnlyWithoutRequired
<1>3. QED
  BY <1>1, <1>2

\* However the tasks, the channel and the runner interleave, `all source tasks
\* ended` is never said of an attempt with a required source.
THEOREM RunEndedOnlyWithoutRequired == Spec => []EndedOnlyWithoutRequired
<1>1. Init => FailureComing /\ EndedOnlyWithoutRequired
  BY ConstantTypes DEF Init, FailureComing, EndedOnlyWithoutRequired, Reasons
<1>2. Inv /\ FailureComing /\ EndedOnlyWithoutRequired /\ [Next]_vars
        => FailureComing' /\ EndedOnlyWithoutRequired'
  BY NextFailureComing, NextEndedOnly
<1>3. QED
  BY <1>1, <1>2, RunInv, PTL DEF Spec

-------------------------------------------------------------------------------
(* SilenceBounded, however late the machine takes its steps.                  *)

\* How far time has passed an instant at most: by the delay of the step that is
\* ready, and of as many steps as there are messages queued.
NotFarPast(instant) == now <= instant + Lag * Len(channel) + late

\* The stall interval's next tick is never two periods after the last message,
\* and time has not gone far past both.
Silence == /\ Racing => stallAt < lastEvent + 2 * Stall
           /\ lastEvent <= now
           /\ Racing /\ Warmed /\ graceAt = None =>
                NotFarPast(stallAt) \/ NotFarPast(lastEvent)

\* What is queued is queued behind a finite number of messages.
LEMMA QueueLength == Inv => /\ Len(channel) \in Nat
                            /\ \A m : /\ Append(channel, m) # <<>>
                                      /\ Len(Append(channel, m)) = Len(channel) + 1
<1>1. ASSUME NEW S, NEW q \in Seq(S), NEW m
      PROVE  Len(q) \in Nat /\ Append(q, m) # <<>> /\ Len(Append(q, m)) = Len(q) + 1
  OBVIOUS
<1>2. Inv => channel \in Seq(Message)
  BY DEF Inv, TypeOK
<1>3. QED
  BY <1>1, <1>2

\* Messages move the deadline on; what is queued excuses a delay, but once.
LEMMA NextSilence ==
    ASSUME Inv, Silence, [Next]_vars
    PROVE  Silence'
<1> DEFINE n == Len(channel)
<1>1. /\ lastEvent \in Nat /\ stallAt \in Nat /\ now \in Nat /\ late \in Nat /\ late <= Lag
      /\ Stall \in Nat /\ Stall > 0 /\ Lag \in Nat /\ n \in Nat
  BY TimerAssumption, BoundAssumption, QueueLength DEF Inv, TypeOK
<1>2. Lag * n \in Nat /\ Lag * (n + 1) = Lag * n + Lag
  BY <1>1
<1>3. ASSUME UNCHANGED <<now, timerVars, warm, channel, late>>, Racing' => Racing
      PROVE  Silence'
  BY <1>3 DEF Silence, NotFarPast, timerVars, Warmed
<1>4. ASSUME UNCHANGED <<now, timerVars, warm>>, ~Racing'
      PROVE  Silence'
  BY <1>4 DEF Silence, timerVars
<1>5. ASSUME NEW s \in Source, Connect(s) \/ Fail(s) \/ \E sig \in Sig : Receive(s, sig)
      PROVE  Silence'
  BY <1>3, <1>5 DEF Connect, Fail, Receive, Racing, clockVars, loopVars
<1>6. ASSUME NEW s \in Source, Send(s)
      PROVE  Silence'
  <2>1. /\ UNCHANGED <<now, lastEvent, stallAt, graceAt, warm, phase>> /\ late' = 0
        /\ Len(channel') = n + 1
    BY <1>6, QueueLength DEF Send, loopVars, timerVars
  <2>2. NotFarPast(stallAt) => NotFarPast(stallAt)'
    BY <1>1, <1>2, <2>1 DEF NotFarPast
  <2>3. NotFarPast(lastEvent) => NotFarPast(lastEvent)'
    BY <1>1, <1>2, <2>1 DEF NotFarPast
  <2>4. QED
    BY <2>1, <2>2, <2>3 DEF Silence, Racing, Warmed
<1>7. ASSUME NEW kind, Take(kind)
      PROVE  Silence'
  <2>1. lastEvent' = now /\ now' = now /\ stallAt' = stallAt /\ late' = 0 /\ Racing
    BY <1>7 DEF Take
  <2>2. Lag * Len(channel') \in Nat
    <3>1. Len(channel') \in Nat
      BY <1>7 DEF Take, Inv, TypeOK
    <3>2. QED
      BY <1>1, <3>1
  <2>3. NotFarPast(lastEvent)'
    BY <1>1, <2>1, <2>2 DEF NotFarPast
  <2>4. stallAt' < lastEvent' + 2 * Stall
    BY <1>1, <2>1 DEF Silence
  <2>5. QED
    BY <1>1, <2>1, <2>3, <2>4 DEF Silence
<1>8. CASE StallTick
  <2>1. /\ lastEvent' = lastEvent /\ now' = now /\ stallAt' = now + Stall
        /\ late' = 0 /\ channel' = channel
        /\ ~(now >= lastEvent + Stall) \/ ~Racing'
    BY <1>8 DEF StallTick, Break, Racing
  <2>2. NotFarPast(stallAt)'
    BY <1>1, <1>2, <2>1 DEF NotFarPast
  <2>3. QED
    BY <1>1, <2>1, <2>2 DEF Silence
<1>9. CASE Tick
  <2>1. /\ lastEvent' = lastEvent /\ now' = now + 1 /\ stallAt' = stallAt
        /\ warm' = warm /\ graceAt' = graceAt /\ channel' = channel /\ Racing
        /\ phase' = phase
    BY <1>9 DEF Tick, loopVars, timerVars
  <2>2. CASE StallDue
    <3>1. late' = late + 1
      BY <1>9, <2>2 DEF Tick, Busy
    <3>2. NotFarPast(stallAt) => NotFarPast(stallAt)'
      BY <1>1, <1>2, <2>1, <3>1 DEF NotFarPast
    <3>3. NotFarPast(lastEvent) => NotFarPast(lastEvent)'
      BY <1>1, <1>2, <2>1, <3>1 DEF NotFarPast
    <3>4. QED
      BY <1>1, <2>1, <3>2, <3>3 DEF Silence, Racing, Warmed
  <2>3. CASE ~StallDue
    <3>1. Warmed /\ graceAt = None => now < stallAt
      BY <1>1, <2>1, <2>3 DEF StallDue
    <3>2. late' \in Nat
      BY <1>1, <1>9 DEF Tick
    <3>3. Warmed /\ graceAt = None => NotFarPast(stallAt)'
      BY <1>1, <1>2, <2>1, <3>1, <3>2 DEF NotFarPast
    <3>4. QED
      BY <1>1, <2>1, <3>3 DEF Silence, Racing, Warmed
  <2>4. QED
    BY <2>2, <2>3
<1>10. CASE StartupTimeout \/ WallTimeout \/ GraceElapsed \/ AllEnded
  BY <1>4, <1>10 DEF StartupTimeout, WallTimeout, GraceElapsed, AllEnded, Break, Racing, loopVars
<1>11. CASE Finish \/ Abandon
  BY <1>4, <1>11 DEF Finish, Abandon, Racing, clockVars, loopVars
<1>12. CASE Ended \/ UNCHANGED vars
  BY <1>3, <1>12 DEF Ended, vars, Racing, clockVars, loopVars
<1>13. QED
  BY <1>5, <1>6, <1>7, <1>8, <1>9, <1>10, <1>11, <1>12
     DEF Next, SourceStep, RunnerStep, Receives, TakeConnected, TakeFailed, WarmUp,
         TakeObservation

\* For every stall period, pattern of arrivals and delay of the machine, silence
\* after the warm-up is noticed within two periods and the machine's delays.
THEOREM RunSilenceBounded == Spec => []SilenceBounded
<1>1. Init => Silence
  BY TimerAssumption, BoundAssumption DEF Init, Silence, NotFarPast
<1>2. Inv /\ Silence /\ [Next]_vars => Silence'
  BY NextSilence
<1>3. Inv /\ Silence => SilenceBounded
  <2> SUFFICES ASSUME Inv, Silence, Racing, Warmed, graceAt = None
               PROVE  now < lastEvent + 2 * Stall + Lag * (Len(channel) + 1)
    BY DEF SilenceBounded
  <2>1. /\ lastEvent \in Nat /\ stallAt \in Nat /\ now \in Nat /\ late \in Nat /\ late <= Lag
        /\ Stall \in Nat /\ Stall > 0 /\ Lag \in Nat /\ Len(channel) \in Nat
    BY TimerAssumption, BoundAssumption, QueueLength DEF Inv, TypeOK
  <2>2. /\ Lag * Len(channel) \in Nat
        /\ Lag * (Len(channel) + 1) = Lag * Len(channel) + Lag
    BY <2>1
  <2>3. QED
    BY <2>1, <2>2 DEF Silence, NotFarPast
<1>4. QED
  BY <1>1, <1>2, <1>3, RunInv, PTL DEF Spec

-------------------------------------------------------------------------------
(* EndsByWall, whatever the sources deliver.                                  *)

\* Time has not gone far past an instant, or has only by a tick of the stall interval
\* as well: one since the last message, as the next one finds a whole period of silence.
NotFarBeyond(instant) ==
    NotFarPast(instant) \/ (stallAt > lastEvent + Stall /\ NotFarPast(instant + Lag))

\* Before the wall, and beyond it only behind its messages.
Overtime == /\ lastEvent <= now
            /\ Racing /\ now > Wall => Lag > 0
            /\ Racing => NotFarBeyond(Wall) \/ NotFarBeyond(lastEvent)

\* The wall is due once it is reached, so time goes on only within the step's delay.
LEMMA NextOvertime ==
    ASSUME Inv, Overtime, [Next]_vars
    PROVE  Overtime'
<1> DEFINE n == Len(channel)
<1>1. /\ lastEvent \in Nat /\ stallAt \in Nat /\ now \in Nat /\ late \in Nat /\ late <= Lag
      /\ Stall \in Nat /\ Stall > 0 /\ Wall \in Nat /\ Lag \in Nat /\ n \in Nat
  BY ConfigAssumption, TimerAssumption, BoundAssumption, QueueLength DEF Validate, Inv, TypeOK
<1>2. Lag * n \in Nat /\ Lag * (n + 1) = Lag * n + Lag
  BY <1>1
<1>3. ASSUME UNCHANGED <<now, timerVars, channel, late>>, Racing' => Racing
      PROVE  Overtime'
  BY <1>3 DEF Overtime, NotFarBeyond, NotFarPast, timerVars
<1>4. ASSUME UNCHANGED <<now, timerVars>>, ~Racing'
      PROVE  Overtime'
  BY <1>4 DEF Overtime, timerVars
<1>5. ASSUME NEW s \in Source, Connect(s) \/ Fail(s) \/ \E sig \in Sig : Receive(s, sig)
      PROVE  Overtime'
  BY <1>3, <1>5 DEF Connect, Fail, Receive, Racing, clockVars, loopVars
<1>6. ASSUME NEW s \in Source, Send(s)
      PROVE  Overtime'
  <2>1. /\ UNCHANGED <<now, lastEvent, stallAt, phase>> /\ late' = 0
        /\ Len(channel') = n + 1
    BY <1>6, QueueLength DEF Send, loopVars, timerVars
  <2>2. NotFarBeyond(Wall) => NotFarBeyond(Wall)'
    BY <1>1, <1>2, <2>1 DEF NotFarBeyond, NotFarPast
  <2>3. NotFarBeyond(lastEvent) => NotFarBeyond(lastEvent)'
    BY <1>1, <1>2, <2>1 DEF NotFarBeyond, NotFarPast
  <2>4. QED
    BY <2>1, <2>2, <2>3 DEF Overtime, Racing
<1>7. ASSUME NEW kind, Take(kind)
      PROVE  Overtime'
  <2>1. lastEvent' = now /\ now' = now /\ late' = 0 /\ Racing
    BY <1>7 DEF Take
  <2>2. Len(channel') \in Nat
    BY <1>7 DEF Take, Inv, TypeOK
  <2>3. Lag * Len(channel') \in Nat
    BY <1>1, <2>2
  <2>4. NotFarBeyond(lastEvent)'
    BY <1>1, <2>1, <2>3 DEF NotFarBeyond, NotFarPast
  <2>5. QED
    BY <1>1, <2>1, <2>4 DEF Overtime
<1>8. CASE StallTick
  <2>1. /\ lastEvent' = lastEvent /\ now' = now /\ stallAt' = now + Stall /\ stallAt <= now
        /\ late' = 0 /\ channel' = channel /\ Racing
        /\ now < lastEvent + Stall \/ ~Racing'
    BY <1>1, <1>8 DEF StallTick, StallDue, Break, Racing
  <2>2. CASE now < lastEvent + Stall
    <3>1. NotFarPast(Wall) \/ NotFarPast(lastEvent)
      BY <1>1, <2>1, <2>2 DEF Overtime, NotFarBeyond
    <3>2. CASE now = lastEvent
      <4>1. NotFarPast(lastEvent)'
        BY <1>1, <1>2, <2>1, <3>2 DEF NotFarPast
      <4>2. QED
        BY <1>1, <2>1, <4>1 DEF Overtime, NotFarBeyond
    <3>3. CASE now > lastEvent
      <4>1. stallAt' > lastEvent' + Stall
        BY <1>1, <2>1, <3>3
      <4>2. NotFarPast(Wall) => NotFarPast(Wall + Lag)'
        BY <1>1, <1>2, <2>1 DEF NotFarPast
      <4>3. NotFarPast(lastEvent) => NotFarPast(lastEvent + Lag)'
        BY <1>1, <1>2, <2>1 DEF NotFarPast
      <4>4. NotFarBeyond(Wall)' \/ NotFarBeyond(lastEvent)'
        BY <3>1, <4>1, <4>2, <4>3 DEF NotFarBeyond
      <4>5. QED
        BY <2>1, <4>4 DEF Overtime
    <3>4. QED
      BY <1>1, <3>2, <3>3 DEF Overtime
  <2>3. CASE ~Racing'
    BY <2>1, <2>3 DEF Overtime
  <2>4. QED
    BY <2>1, <2>2, <2>3
<1>9. CASE Tick
  <2>1. /\ lastEvent' = lastEvent /\ now' = now + 1 /\ stallAt' = stallAt
        /\ channel' = channel /\ Racing
    BY <1>9 DEF Tick, loopVars, timerVars
  <2>2. CASE WallDue
    <3>1. late' = late + 1 /\ late < Lag
      BY <1>9, <2>2 DEF Tick, Busy
    <3>2. NotFarBeyond(Wall) => NotFarBeyond(Wall)'
      BY <1>1, <1>2, <2>1, <3>1 DEF NotFarBeyond, NotFarPast
    <3>3. NotFarBeyond(lastEvent) => NotFarBeyond(lastEvent)'
      BY <1>1, <1>2, <2>1, <3>1 DEF NotFarBeyond, NotFarPast
    <3>4. Lag > 0 /\ lastEvent' <= now'
      BY <1>1, <2>1, <3>1 DEF Overtime
    <3>5. QED
      BY <2>1, <3>2, <3>3, <3>4 DEF Overtime
  <2>3. CASE ~WallDue
    <3>1. now < Wall
      BY <1>1, <2>1, <2>3 DEF WallDue
    <3>2. late' \in Nat
      BY <1>1, <1>9 DEF Tick
    <3>3. now' <= Wall /\ NotFarPast(Wall)'
      BY <1>1, <1>2, <2>1, <3>1, <3>2 DEF NotFarPast
    <3>4. QED
      BY <1>1, <2>1, <3>3 DEF Overtime, NotFarBeyond
  <2>4. QED
    BY <2>2, <2>3
<1>10. CASE StartupTimeout \/ WallTimeout \/ GraceElapsed \/ AllEnded
  BY <1>4, <1>10 DEF StartupTimeout, WallTimeout, GraceElapsed, AllEnded, Break, Racing, loopVars
<1>11. CASE Finish \/ Abandon
  BY <1>4, <1>11 DEF Finish, Abandon, Racing, clockVars, loopVars
<1>12. CASE Ended \/ UNCHANGED vars
  BY <1>3, <1>12 DEF Ended, vars, Racing, clockVars, loopVars
<1>13. QED
  BY <1>5, <1>6, <1>7, <1>8, <1>9, <1>10, <1>11, <1>12
     DEF Next, SourceStep, RunnerStep, Receives, TakeConnected, TakeFailed, WarmUp,
         TakeObservation

\* For every configuration, any number of arrivals and every delay of the machine, the
\* attempt is over at its wall, except that messages taken late may put the end off.
THEOREM RunEndsByWall == Spec => []EndsByWall
<1>1. Init => Overtime
  BY ConfigAssumption, TimerAssumption, BoundAssumption
     DEF Init, Validate, Overtime, NotFarBeyond, NotFarPast
<1>2. Inv /\ Overtime /\ [Next]_vars => Overtime'
  BY NextOvertime
<1>3. Inv /\ Overtime => EndsByWall
  <2> SUFFICES ASSUME Inv, Overtime, Racing, now > Wall
               PROVE  /\ Lag > 0
                      /\ \/ now <= Wall + Lag * (Len(channel) + 2)
                         \/ now <= lastEvent + Lag * (Len(channel) + 2)
    BY DEF EndsByWall
  <2>1. /\ lastEvent \in Nat /\ now \in Nat /\ late \in Nat /\ late <= Lag
        /\ Wall \in Nat /\ Lag \in Nat /\ Len(channel) \in Nat
    BY ConfigAssumption, BoundAssumption, QueueLength DEF Validate, Inv, TypeOK
  <2>2. /\ Lag * Len(channel) \in Nat
        /\ Lag * (Len(channel) + 2) = Lag * Len(channel) + Lag + Lag
    BY <2>1
  <2>3. ASSUME NEW instant \in Nat, NotFarBeyond(instant)
        PROVE  now <= instant + Lag * (Len(channel) + 2)
    BY <2>1, <2>2, <2>3 DEF NotFarBeyond, NotFarPast
  <2>4. QED
    BY <2>1, <2>3 DEF Overtime
<1>4. QED
  BY <1>1, <1>2, <1>3, RunInv, PTL DEF Spec

-------------------------------------------------------------------------------
(* WarmBeforeRace: what the warm-up costs every source.                       *)

\* A source that is warm has delivered at least once more than it has rows, and
\* there are no rows before all required sources are warm.
Warming == /\ \A s \in Source :
                /\ health[s].messages >= Cardinality(RowsFrom(s))
                /\ s \in warm => health[s].messages > Cardinality(RowsFrom(s))
           /\ rows # <<>> => Warmed

\* A new row adds its own place to the rows of its source.
LEMMA RowsFromAppended ==
    ASSUME TypeOK, NEW o \in [sig : Sig, source : Source, at : Nat],
           rows' = Append(rows, o), NEW s \in Source
    PROVE  /\ RowsFrom(s)' = IF o.source = s THEN RowsFrom(s) \cup {Len(rows) + 1}
                             ELSE RowsFrom(s)
           /\ Len(rows) \in Nat /\ RowsFrom(s) \subseteq 1..Len(rows)
           /\ rows'[Len(rows) + 1] = o
           /\ \A k \in 1..Len(rows) : rows'[k] = rows[k]
           /\ Cardinality(RowsFrom(s)') = IF o.source = s THEN Cardinality(RowsFrom(s)) + 1
                                          ELSE Cardinality(RowsFrom(s))
<1>1. rows \in Seq([sig : Sig, source : Source, at : Nat]) /\ Len(rows) \in Nat
  BY DEF TypeOK
<1>2. /\ Len(rows') = Len(rows) + 1
      /\ \A i \in 1..Len(rows) : rows'[i] = rows[i]
      /\ rows'[Len(rows) + 1] = o
  BY <1>1
<1>3. 1..Len(rows') = (1..Len(rows)) \cup {Len(rows) + 1}
  BY <1>1, <1>2
<1>4. RowsFrom(s)' = IF o.source = s THEN RowsFrom(s) \cup {Len(rows) + 1} ELSE RowsFrom(s)
  BY <1>1, <1>2, <1>3 DEF RowsFrom
<1>5. RowsFrom(s) \subseteq 1..Len(rows) /\ Len(rows) + 1 \notin RowsFrom(s)
  BY <1>1 DEF RowsFrom
<1>6. IsFiniteSet(RowsFrom(s))
  <2>1. IsFiniteSet(1..Len(rows))
    BY <1>1, FS_Interval
  <2>2. QED
    BY <1>5, <2>1, FS_Subset
<1>7. Cardinality(RowsFrom(s) \cup {Len(rows) + 1}) = Cardinality(RowsFrom(s)) + 1
  BY <1>5, <1>6, FS_AddElement
<1>8. QED
  BY <1>1, <1>2, <1>4, <1>5, <1>7

\* There are finitely many rows of each source.
LEMMA RowsCounted ==
    ASSUME TypeOK, NEW s \in Source
    PROVE  Cardinality(RowsFrom(s)) \in Nat
<1>1. Len(rows) \in Nat /\ RowsFrom(s) \subseteq 1..Len(rows)
  BY DEF TypeOK, RowsFrom
<1>2. IsFiniteSet(1..Len(rows))
  BY <1>1, FS_Interval
<1>3. IsFiniteSet(RowsFrom(s))
  BY <1>1, <1>2, FS_Subset
<1>4. QED
  BY <1>3, FS_CardinalityType

\* A counted message is one more of its source.
LEMMA MessagesCounted ==
    ASSUME TypeOK, Take("observation"), CountMessage, NEW s \in Source
    PROVE  /\ health[s].messages \in Nat
           /\ health'[s].messages = IF s = Msg.source THEN health[s].messages + 1
                                    ELSE health[s].messages
<1>1. health \in [Source -> Health] /\ Msg.source \in Source
  BY ObservedType DEF TypeOK
<1>2. health[s] \in Health /\ health[Msg.source] \in Health
  BY <1>1
<1>3. \A h \in Health : \A m, f, l : [h EXCEPT !.messages = m, !.first = f, !.last = l].messages = m
  BY DEF Health
<1>4. health[s].messages \in Nat
  BY <1>2 DEF Health
<1>5. CASE s = Msg.source
  BY <1>1, <1>2, <1>3, <1>4, <1>5 DEF CountMessage
<1>6. CASE s # Msg.source
  BY <1>1, <1>4, <1>6 DEF CountMessage
<1>7. QED
  BY <1>5, <1>6, <1>4

\* Nothing but observations counts, warms or is recorded.
LEMMA OnlyObservationsCount ==
    ASSUME TypeOK, [Next]_vars, ~WarmUp, ~TakeObservation
    PROVE  /\ \A s \in Source : health'[s].messages = health[s].messages
           /\ rows' = rows /\ warm' = warm
<1>0. health \in [Source -> Health]
  BY DEF TypeOK
<1>1. ASSUME NEW s \in Source, SourceStep(s)
      PROVE  UNCHANGED <<health, rows, warm>>
  BY <1>1 DEF SourceStep, Connect, Fail, Send, Receive, loopVars
<1>2. CASE StartupTimeout \/ WallTimeout \/ GraceElapsed \/ StallTick \/ AllEnded
  BY <1>2 DEF StartupTimeout, WallTimeout, GraceElapsed, StallTick, AllEnded, loopVars
<1>3. CASE Tick \/ Abandon \/ Ended \/ UNCHANGED vars
  BY <1>3 DEF Tick, Abandon, Ended, vars, loopVars
<1>4. CASE TakeConnected \/ TakeFailed
  <2>1. Msg.source \in Source
    BY <1>4, TakeTypes DEF TakeConnected, TakeFailed
  <2>2. health[Msg.source] \in Health
    BY <1>0, <2>1
  <2>3. /\ rows' = rows /\ warm' = warm
        /\ \/ health' = [health EXCEPT ![Msg.source].connects = @ + 1]
           \/ health' = [health EXCEPT ![Msg.source].disconnects = @ + 1]
    BY <1>4 DEF TakeConnected, TakeFailed
  <2>4. \A s \in Source : s # Msg.source => health'[s] = health[s]
    BY <1>0, <2>3
  <2>5. \/ health'[Msg.source] = [health[Msg.source] EXCEPT !.connects = @ + 1]
        \/ health'[Msg.source] = [health[Msg.source] EXCEPT !.disconnects = @ + 1]
    BY <1>0, <2>1, <2>3
  <2>6. health'[Msg.source].messages = health[Msg.source].messages
    BY <2>2, <2>5 DEF Health
  <2>7. QED
    BY <2>3, <2>4, <2>6
<1>5. CASE Finish
  <2>1. \A h \in Health : \A n : [h EXCEPT !.duplicates = n].messages = h.messages
    BY DEF Health
  <2>2. QED
    BY <1>0, <1>5, <2>1 DEF Finish
<1>6. QED
  BY <1>1, <1>2, <1>3, <1>4, <1>5 DEF Next, RunnerStep, Receives

\* Every step keeps it.
LEMMA NextWarming ==
    ASSUME Inv, Warming, [Next]_vars
    PROVE  Warming'
<1>1. TypeOK /\ \A s \in Source : Cardinality(RowsFrom(s)) \in Nat
  BY RowsCounted DEF Inv
<1>2. CASE WarmUp
  <2>1. Take("observation") /\ CountMessage /\ ~Warmed /\ rows' = rows
        /\ warm' = warm \cup {Msg.source}
    BY <1>2 DEF WarmUp
  <2>2. \A s \in Source : /\ health[s].messages \in Nat
                          /\ health'[s].messages = IF s = Msg.source THEN health[s].messages + 1
                                                   ELSE health[s].messages
    BY <1>1, <2>1, MessagesCounted
  <2>3. \A s \in Source : RowsFrom(s)' = RowsFrom(s)
    BY <2>1 DEF RowsFrom
  <2>4. \A s \in Source : /\ health'[s].messages >= Cardinality(RowsFrom(s))
                          /\ s \in warm' => health'[s].messages > Cardinality(RowsFrom(s))
    BY <1>1, <2>1, <2>2 DEF Warming
  <2>5. rows' = <<>>
    BY <2>1 DEF Warming
  <2>6. QED
    BY <2>3, <2>4, <2>5 DEF Warming
<1>3. CASE TakeObservation
  <2>1. Take("observation") /\ CountMessage /\ Warmed /\ rows' = Append(rows, Observed)
        /\ warm' = warm
    BY <1>3 DEF TakeObservation
  <2>2. \A s \in Source : /\ health[s].messages \in Nat
                          /\ health'[s].messages = IF s = Msg.source THEN health[s].messages + 1
                                                   ELSE health[s].messages
    BY <1>1, <2>1, MessagesCounted
  <2>3. Observed \in [sig : Sig, source : Source, at : Nat] /\ Observed.source = Msg.source
    BY <1>1, <2>1, ObservedType DEF Observed
  <2>4. \A s \in Source :
          Cardinality(RowsFrom(s)') = IF s = Msg.source THEN Cardinality(RowsFrom(s)) + 1
                                      ELSE Cardinality(RowsFrom(s))
    BY <1>1, <2>1, <2>3, RowsFromAppended
  <2>5. \A s \in Source : /\ health'[s].messages >= Cardinality(RowsFrom(s)')
                          /\ s \in warm' => health'[s].messages > Cardinality(RowsFrom(s)')
    BY <1>1, <2>1, <2>2, <2>4 DEF Warming
  <2>6. Warmed'
    BY <2>1 DEF Warmed
  <2>7. QED
    BY <2>5, <2>6 DEF Warming
<1>4. CASE ~WarmUp /\ ~TakeObservation
  <2>1. /\ \A s \in Source : health'[s].messages = health[s].messages
        /\ rows' = rows /\ warm' = warm
    BY <1>1, <1>4, OnlyObservationsCount
  <2>2. \A s \in Source : RowsFrom(s)' = RowsFrom(s)
    BY <2>1 DEF RowsFrom
  <2>3. Warmed' = Warmed
    BY <2>1 DEF Warmed
  <2>4. QED
    BY <2>1, <2>2, <2>3 DEF Warming
<1>5. QED
  BY <1>2, <1>3, <1>4

LEMMA InitWarming == Init => Warming
<1> SUFFICES ASSUME Init PROVE Warming
  OBVIOUS
<1>1. rows = <<>> /\ warm = {} /\ \A s \in Source : health[s].messages = 0
  BY DEF Init
<1>2. \A s \in Source : RowsFrom(s) = {}
  BY <1>1 DEF RowsFrom
<1>3. QED
  BY <1>1, <1>2, FS_EmptySet DEF Warming

\* run_async: before every required source has delivered, and so has spent an
\* arrival on the warm-up, no observation is recorded.
THEOREM RunWarmBeforeRace == Spec => []WarmBeforeRace
<1>1. Inv /\ Warming => WarmBeforeRace
  BY ConstantTypes DEF Warming, WarmBeforeRace, Warmed
<1>2. QED
  BY <1>1, InitWarming, NextWarming, RunInv, PTL DEF Spec

-------------------------------------------------------------------------------
(* NothingLost: the way of an arrival.                                        *)

IsObservation(m, s) == m # None /\ m.kind = "observation" /\ m.source = s

\* The message is an arrival of s, with its own stamp.
Genuine(m, s) == m.at \in Arrivals(s) /\ m = ObservationOf(s, m.at)

\* What is being sent is the task's own; what it queued before is older.
Sending(s) == /\ pending[s] # None => pending[s].source = s
              /\ IsObservation(pending[s], s) =>
                   /\ Genuine(pending[s], s)
                   /\ \A k \in 1..Len(channel) :
                        IsObservation(channel[k], s) => channel[k].at < pending[s].at

\* What is queued is in the order of the stamps.
Queued(s) == \A k \in 1..Len(channel) : IsObservation(channel[k], s) =>
               /\ Genuine(channel[k], s)
               /\ \A j \in 1..Len(channel) :
                    IsObservation(channel[j], s) /\ j < k => channel[j].at < channel[k].at

OnTheWay == \A s \in Source : Sending(s) /\ Queued(s)

Journey == OnTheWay /\ NothingLost

\* NothingLost of one source: A its arrivals, F those in flight, S the places of
\* its rows in r, q what was received, and m messages.
Account(A, F, S, r, q, m) ==
    /\ m = Cardinality(A \ F)
    /\ \A i \in A \ F, j \in F : i < j
    /\ \A k \in S, j \in A : r[k].at < j => (\E l \in S : r[l].at = j) \/ j \in F
    /\ \A k \in S : r[k].at \in A \ F /\ r[k].sig = q[r[k].at].sig
    /\ \A j, k \in S : j < k => r[j].at < r[k].at

AccountFrom(s) == Account(Arrivals(s), InFlight(s), RowsFrom(s), rows, received,
                          health[s].messages)

LEMMA Accounts == NothingLost <=> \A s \in Source : AccountFrom(s)
<1>1. ASSUME NEW s \in Source
      PROVE  (\A i \in Recorded(s), j \in Arrivals(s) : i < j => j \in Recorded(s) \cup InFlight(s))
               <=> \A k \in RowsFrom(s), j \in Arrivals(s) :
                     rows[k].at < j => (\E l \in RowsFrom(s) : rows[l].at = j) \/ j \in InFlight(s)
  BY DEF Recorded
<1>2. QED
  BY <1>1, Zenon DEF NothingLost, AccountFrom, Account

LEMMA AccountsNext == NothingLost' <=> (\A s \in Source : AccountFrom(s))'
BY Accounts, PTL

\* A further arrival, on its way.
LEMMA AccountGrows ==
    ASSUME NEW A, NEW F, NEW S, NEW r, NEW q, NEW p, NEW m, NEW n,
           Account(A, F, S, r, q, m), F \subseteq A,
           \A i \in A : i \in Nat /\ i < n /\ p[i] = q[i], n \in Nat
    PROVE  Account(A \cup {n}, F \cup {n}, S, r, p, m)
<1>1. n \notin A
  OBVIOUS
<1>2. (A \cup {n}) \ (F \cup {n}) = A \ F
  BY <1>1
<1>3. m = Cardinality((A \cup {n}) \ (F \cup {n}))
  BY <1>2 DEF Account
<1>4. \A i \in (A \cup {n}) \ (F \cup {n}), j \in F \cup {n} : i < j
  BY <1>2 DEF Account
<1>5. \A k \in S, j \in A \cup {n} :
        r[k].at < j => (\E l \in S : r[l].at = j) \/ j \in F \cup {n}
  BY DEF Account
<1>6. \A k \in S : /\ r[k].at \in (A \cup {n}) \ (F \cup {n})
                   /\ r[k].sig = p[r[k].at].sig
  BY <1>2 DEF Account
<1>7. \A j, k \in S : j < k => r[j].at < r[k].at
  BY DEF Account
<1>8. QED
  BY <1>3, <1>4, <1>5, <1>6, <1>7 DEF Account

\* The oldest on its way is taken, and spent on the warm-up.
LEMMA AccountSpends ==
    ASSUME NEW A, NEW F, NEW r, NEW q, NEW m, NEW a \in F,
           Account(A, F, {}, r, q, m), F \subseteq A, A \subseteq Nat, IsFiniteSet(A),
           \A i \in F \ {a} : a < i
    PROVE  Account(A, F \ {a}, {}, r, q, m + 1)
<1>1. A \ (F \ {a}) = (A \ F) \cup {a}
  OBVIOUS
<1>2. IsFiniteSet(A \ F)
  BY FS_Subset
<1>3. Cardinality((A \ F) \cup {a}) = Cardinality(A \ F) + 1
  BY <1>2, FS_AddElement
<1>4. \A i \in (A \ F) \cup {a}, j \in F \ {a} : i < j
  BY DEF Account
<1>5. QED
  BY <1>1, <1>3, <1>4 DEF Account

\* The oldest on its way is taken, and recorded behind the other rows.
LEMMA AccountRecords ==
    ASSUME NEW A, NEW F, NEW S, NEW r, NEW q, NEW m, NEW a \in F, NEW l \in Nat, NEW t,
           Account(A, F, S, r, q, m), F \subseteq A, A \subseteq Nat, IsFiniteSet(A),
           \A i \in F \ {a} : a < i, S \subseteq Nat,
           \A k \in S : k < l /\ t[k] = r[k],
           t[l].at = a, t[l].sig = q[a].sig
    PROVE  Account(A, F \ {a}, S \cup {l}, t, q, m + 1)
<1>1. A \ (F \ {a}) = (A \ F) \cup {a}
  OBVIOUS
<1>2. IsFiniteSet(A \ F)
  BY FS_Subset
<1>3. Cardinality((A \ F) \cup {a}) = Cardinality(A \ F) + 1
  BY <1>2, FS_AddElement
<1>4. \A i \in (A \ F) \cup {a}, j \in F \ {a} : i < j
  BY DEF Account
<1>5. \A k \in S : r[k].at \in A \ F /\ r[k].at < a /\ t[k].at = r[k].at
  BY DEF Account
<1>6. \A k \in S \cup {l}, j \in A :
        t[k].at < j => (\E i \in S \cup {l} : t[i].at = j) \/ j \in F \ {a}
  <2> SUFFICES ASSUME NEW k \in S \cup {l}, NEW j \in A, t[k].at < j
               PROVE  (\E i \in S \cup {l} : t[i].at = j) \/ j \in F \ {a}
    OBVIOUS
  <2>1. CASE j = a
    BY <2>1
  <2>2. CASE j # a /\ k = l
    <3>1. a < j
      BY <2>2
    <3>2. j \in F
      BY <3>1 DEF Account
    <3>3. QED
      BY <2>2, <3>2
  <2>3. CASE j # a /\ k \in S
    <3>1. r[k].at < j
      BY <1>5, <2>3
    <3>2. (\E i \in S : r[i].at = j) \/ j \in F
      BY <2>3, <3>1 DEF Account
    <3>3. QED
      BY <1>5, <2>3, <3>2
  <2>4. QED
    BY <2>1, <2>2, <2>3
<1>7. \A k \in S \cup {l} : t[k].at \in (A \ F) \cup {a} /\ t[k].sig = q[t[k].at].sig
  BY <1>5 DEF Account
<1>8. \A j, k \in S \cup {l} : j < k => t[j].at < t[k].at
  BY <1>5 DEF Account
<1>9. QED
  BY <1>1, <1>3, <1>4, <1>6, <1>7, <1>8 DEF Account

\* An arrival is a place in received; it is a message of its task.
LEMMA ArrivalFacts ==
    ASSUME TypeOK, NEW s \in Source, NEW i \in Arrivals(s)
    PROVE  /\ i \in 1..Len(received) /\ i \in Nat
           /\ ObservationOf(s, i) \in Message /\ ObservationOf(s, i) # None
           /\ ObservationOf(s, i).at = i /\ IsObservation(ObservationOf(s, i), s)
<1>1. /\ received \in Seq([source : Source, sig : Sig]) /\ Len(received) \in Nat
      /\ i \in 1..Len(received)
  BY DEF TypeOK, Arrivals
<1>2. received[i] \in [source : Source, sig : Sig]
  BY <1>1, ElementOfSeq
<1>3. received[i].sig \in Sig /\ i \in Nat
  BY <1>1, <1>2
<1>4. ObservationOf(s, i) \in Message
  BY <1>3 DEF ObservationOf, Message
<1>5. QED
  BY <1>1, <1>3, <1>4, ConstantTypes DEF ObservationOf, IsObservation

Flying(s, i) ==
    \/ IsObservation(pending[s], s) /\ pending[s].at = i
    \/ \E k \in 1..Len(channel) : IsObservation(channel[k], s) /\ channel[k].at = i

\* What is in flight are the stamps of the observations that are sent or queued.
LEMMA FlyingIs ==
    TypeOK /\ OnTheWay => \A s \in Source : \A i : i \in InFlight(s) <=> Flying(s, i)
<1> SUFFICES ASSUME TypeOK, OnTheWay, NEW s \in Source, NEW i
             PROVE  i \in InFlight(s) <=> Flying(s, i)
  OBVIOUS
<1>1. ASSUME i \in InFlight(s)
      PROVE  Flying(s, i)
  <2>1. i \in Arrivals(s)
    BY <1>1 DEF InFlight
  <2>2. ObservationOf(s, i).at = i /\ IsObservation(ObservationOf(s, i), s)
    BY <2>1, ArrivalFacts
  <2>3. \/ pending[s] = ObservationOf(s, i)
        \/ \E k \in 1..Len(channel) : channel[k] = ObservationOf(s, i)
    BY <1>1 DEF InFlight
  <2>4. QED
    BY <2>2, <2>3, Zenon DEF Flying
<1>2. ASSUME IsObservation(pending[s], s), pending[s].at = i
      PROVE  i \in InFlight(s)
  BY <1>2 DEF OnTheWay, Sending, Genuine, InFlight
<1>3. ASSUME NEW k \in 1..Len(channel), IsObservation(channel[k], s), channel[k].at = i
      PROVE  i \in InFlight(s)
  BY <1>3 DEF OnTheWay, Queued, Genuine, InFlight
<1>4. QED
  BY <1>1, <1>2, <1>3 DEF Flying

LEMMA FlyingIsNext ==
    TypeOK' /\ OnTheWay' => (\A s \in Source : \A i : i \in InFlight(s) <=> Flying(s, i))'
BY FlyingIs, PTL

\* A new arrival has the latest stamp and is being sent.
LEMMA ReceiveJourney ==
    ASSUME TypeOK, TypeOK', Journey, NEW t \in Source, NEW sig \in Sig, Receive(t, sig)
    PROVE  Journey'
<1> PICK n : n = Len(received) + 1
  OBVIOUS
<1> PICK m : m = [kind |-> "observation", source |-> t, sig |-> sig, at |-> n]
  OBVIOUS
<1>1. /\ received \in Seq([source : Source, sig : Sig]) /\ Len(received) \in Nat
      /\ pending \in [Source -> Message \cup {None}]
      /\ received' = Append(received, [source |-> t, sig |-> sig])
      /\ pending' = [pending EXCEPT ![t] = m] /\ pending[t] = None
      /\ channel' = channel /\ rows' = rows /\ health' = health
  BY DEF TypeOK, Receive, Free, loopVars
<1>2. /\ Len(received') = n /\ n \in Nat /\ n \notin 1..Len(received)
      /\ \A i \in 1..Len(received) : received'[i] = received[i] /\ i < n
      /\ received'[n] = [source |-> t, sig |-> sig]
      /\ 1..Len(received') = (1..Len(received)) \cup {n}
  BY <1>1
<1>3. \A s \in Source : /\ Arrivals(s) \subseteq 1..Len(received)
                        /\ Arrivals(s)' = IF s = t THEN Arrivals(s) \cup {n} ELSE Arrivals(s)
  BY <1>2 DEF Arrivals
<1>4. \A s \in Source : \A x : Genuine(x, s) => Genuine(x, s)' /\ x.at < n
  BY <1>2, <1>3 DEF Genuine, ObservationOf
<1>5. Genuine(m, t)' /\ IsObservation(m, t) /\ m.at = n /\ m.source = t
  <2>1. m \in Message
    BY <1>2 DEF Message
  <2>2. m # None /\ m.kind = "observation" /\ m.at = n /\ m.source = t
    BY <2>1, ConstantTypes
  <2>3. received'[n].sig = sig /\ n \in Arrivals(t)'
    BY <1>2, <1>3
  <2>4. QED
    BY <2>2, <2>3 DEF Genuine, ObservationOf, IsObservation
<1>6. \A s \in Source : IF s = t THEN pending'[s] = m ELSE pending'[s] = pending[s]
  BY <1>1
<1>7. ~IsObservation(pending[t], t)
  BY <1>1 DEF IsObservation
<1>8. OnTheWay'
  <2> SUFFICES ASSUME NEW s \in Source PROVE Sending(s)' /\ Queued(s)'
    BY DEF OnTheWay
  <2>1. Sending(s) /\ Queued(s)
    BY DEF OnTheWay, Journey
  <2>2. \A k \in 1..Len(channel) : IsObservation(channel[k], s) =>
          Genuine(channel[k], s) /\ channel[k].at < n
    BY <1>4, <2>1 DEF Queued
  <2>3. \A x : Genuine(x, s) => Genuine(x, s)'
    BY <1>4
  <2>4. \A k \in 1..Len(channel) : IsObservation(channel[k], s) => Genuine(channel[k], s)'
    <3>1. ASSUME NEW k \in 1..Len(channel), IsObservation(channel[k], s)
          PROVE  Genuine(channel[k], s)'
      <4>1. PICK x : x = channel[k]
        OBVIOUS
      <4>2. Genuine(x, s)' /\ channel'[k] = x
        BY <1>1, <2>2, <2>3, <3>1, <4>1
      <4>3. QED
        BY <4>2
    <3>2. QED
      BY <3>1
  <2>5. Queued(s)'
    <3>1. \A j, k \in 1..Len(channel) :
            IsObservation(channel[j], s) /\ IsObservation(channel[k], s) /\ j < k
              => channel[j].at < channel[k].at
      BY <2>1 DEF Queued
    <3>2. QED
      BY <1>1, <2>4, <3>1 DEF Queued
  <2>6. CASE s = t
    <3>1. pending'[s] = m /\ channel' = channel
      BY <1>1, <1>6, <2>6
    <3>2. Genuine(pending[s], s)' /\ pending'[s].source = s
      BY <1>5, <2>6, <3>1
    <3>3. \A k \in 1..Len(channel') : IsObservation(channel'[k], s) =>
            channel'[k].at < pending'[s].at
      BY <1>5, <2>2, <3>1
    <3>4. QED
      BY <2>5, <3>2, <3>3 DEF Sending
  <2>7. CASE s # t
    <3>1. PICK x : x = pending[s]
      OBVIOUS
    <3>2. pending'[s] = x /\ channel' = channel
      BY <1>1, <1>6, <2>7, <3>1
    <3>3. IsObservation(x, s) => Genuine(x, s)'
      BY <2>1, <2>3, <3>1 DEF Sending
    <3>4. IsObservation(pending[s], s)' => Genuine(pending[s], s)'
      BY <3>2, <3>3 DEF IsObservation
    <3>5. QED
      BY <2>1, <2>5, <3>1, <3>2, <3>4 DEF Sending
  <2>8. QED
    BY <2>6, <2>7
<1>9. \A s \in Source : \A i : Flying(s, i)' <=> Flying(s, i) \/ (s = t /\ i = n)
  BY <1>1, <1>5, <1>6, <1>7 DEF Flying
<1>10. \A s \in Source : InFlight(s)' = IF s = t THEN InFlight(s) \cup {n} ELSE InFlight(s)
  BY <1>8, <1>9, FlyingIs, FlyingIsNext DEF Journey
<1>11. \A s \in Source : RowsFrom(s)' = RowsFrom(s) /\ Recorded(s)' = Recorded(s)
  BY <1>1 DEF RowsFrom, Recorded
<1>12. NothingLost'
  <2> SUFFICES ASSUME NEW s \in Source PROVE AccountFrom(s)'
    BY AccountsNext
  <2>1. AccountFrom(s) /\ InFlight(s) \subseteq Arrivals(s)
    BY Accounts DEF Journey, InFlight
  <2>2. \A i \in Arrivals(s) : i \in Nat /\ i < n /\ received'[i] = received[i]
    BY <1>2, <1>3
  <2>3. Account(Arrivals(s) \cup {n}, InFlight(s) \cup {n}, RowsFrom(s), rows, received',
                health[s].messages)
    BY <1>2, <2>1, <2>2, AccountGrows DEF AccountFrom
  <2>4. Account(Arrivals(s), InFlight(s), RowsFrom(s), rows, received', health[s].messages)
    BY <2>1, <2>2 DEF AccountFrom, Account
  <2>5. QED
    BY <1>1, <1>3, <1>10, <1>11, <2>3, <2>4 DEF AccountFrom
<1>13. QED
  BY <1>8, <1>12 DEF Journey

\* Nothing is counted or recorded, and what is in flight remains so.
LEMMA QuietJourney ==
    ASSUME TypeOK, TypeOK', Journey, OnTheWay', received' = received, rows' = rows,
           \A s \in Source : health'[s].messages = health[s].messages,
           \A s \in Source : \A i : Flying(s, i)' <=> Flying(s, i)
    PROVE  Journey'
<1>1. \A s \in Source : InFlight(s)' = InFlight(s)
  BY FlyingIs, FlyingIsNext DEF Journey
<1>2. \A s \in Source : Arrivals(s)' = Arrivals(s) /\ RowsFrom(s)' = RowsFrom(s)
  BY DEF Arrivals, RowsFrom
<1>3. \A s \in Source : AccountFrom(s)
  BY Accounts DEF Journey
<1>4. \A s \in Source : AccountFrom(s)'
  BY <1>1, <1>2, <1>3 DEF AccountFrom
<1>5. QED
  BY <1>4, AccountsNext DEF Journey

\* What is genuine remains so while nothing is received.
LEMMA StillGenuine ==
    ASSUME received' = received
    PROVE  \A s \in Source : \A x : Genuine(x, s) <=> Genuine(x, s)'
BY DEF Genuine, Arrivals, ObservationOf

\* A task announces that it is connected, or that it failed.
LEMMA AnnounceJourney ==
    ASSUME TypeOK, TypeOK', Journey, NEW t \in Source, NEW m \in Message,
           m.source = t, m.kind # "observation", pending[t] = None,
           pending' = [pending EXCEPT ![t] = m], UNCHANGED <<received, channel, rows, health>>
    PROVE  Journey'
<1>1. /\ pending \in [Source -> Message \cup {None}]
      /\ received' = received /\ channel' = channel /\ rows' = rows /\ health' = health
  BY DEF TypeOK
<1>2. \A s \in Source : IF s = t THEN pending'[s] = m ELSE pending'[s] = pending[s]
  BY <1>1
<1>3. ~IsObservation(m, t) /\ ~IsObservation(pending[t], t)
  BY DEF IsObservation
<1>4. \A s \in Source : \A x : Genuine(x, s) <=> Genuine(x, s)'
  BY <1>1, StillGenuine
<1>5. ASSUME NEW s \in Source
      PROVE  Sending(s)' /\ Queued(s)'
  <2>1. Sending(s) /\ Queued(s)
    BY DEF Journey, OnTheWay
  <2>2. Queued(s)'
    <3>1. ASSUME NEW k \in 1..Len(channel), IsObservation(channel[k], s)
          PROVE  Genuine(channel[k], s)'
      <4>1. PICK x : x = channel[k]
        OBVIOUS
      <4>2. Genuine(x, s)' /\ channel'[k] = x
        BY <1>1, <1>4, <2>1, <3>1, <4>1 DEF Queued
      <4>3. QED
        BY <4>2
    <3>2. QED
      BY <1>1, <2>1, <3>1 DEF Queued
  <2>3. CASE s = t
    BY <1>2, <1>3, <2>2, <2>3 DEF Sending
  <2>4. CASE s # t
    <3>1. PICK x : x = pending[s]
      OBVIOUS
    <3>2. pending'[s] = x
      BY <1>2, <2>4, <3>1
    <3>3. IsObservation(x, s) => Genuine(x, s)'
      BY <1>4, <2>1, <3>1 DEF Sending
    <3>4. IsObservation(pending[s], s)' => Genuine(pending[s], s)'
      BY <3>2, <3>3
    <3>5. QED
      BY <1>1, <2>1, <2>2, <3>1, <3>2, <3>4 DEF Sending
  <2>5. QED
    BY <2>3, <2>4
<1>6. OnTheWay'
  BY <1>5 DEF OnTheWay
<1>7. \A s \in Source : \A i : Flying(s, i)' <=> Flying(s, i)
  BY <1>1, <1>2, <1>3 DEF Flying
<1>8. QED
  BY <1>1, <1>6, <1>7, QuietJourney

\* A message that was sent becomes the youngest in the channel.
LEMMA SendJourney ==
    ASSUME TypeOK, TypeOK', Journey, NEW t \in Source, Send(t)
    PROVE  Journey'
<1> PICK m : m = pending[t]
  OBVIOUS
<1> PICK n : n = Len(channel) + 1
  OBVIOUS
<1>1. /\ pending \in [Source -> Message \cup {None}] /\ m \in Message
      /\ channel \in Seq(Message) /\ Len(channel) \in Nat
      /\ channel' = Append(channel, m) /\ pending' = [pending EXCEPT ![t] = None]
      /\ received' = received /\ rows' = rows /\ health' = health
  BY DEF TypeOK, Send, CanSend, loopVars
<1>2. /\ Len(channel') = n /\ channel'[n] = m /\ n \in Nat
      /\ \A k \in 1..Len(channel) : channel'[k] = channel[k] /\ k < n
      /\ 1..Len(channel') = (1..Len(channel)) \cup {n}
  BY <1>1
<1>3. \A s \in Source : IF s = t THEN pending'[s] = None ELSE pending'[s] = pending[s]
  BY <1>1
<1>4. m.source = t
  BY <1>1, ConstantTypes DEF Journey, OnTheWay, Sending
<1>5. \A s \in Source : IsObservation(m, s) => s = t
  BY <1>4 DEF IsObservation
<1>6. \A s \in Source : ~IsObservation(None, s)
  BY DEF IsObservation
<1>7. \A s \in Source : \A x : Genuine(x, s) <=> Genuine(x, s)'
  BY <1>1, StillGenuine
<1>8. ASSUME NEW s \in Source
      PROVE  Sending(s)' /\ Queued(s)'
  <2>1. Sending(s) /\ Queued(s)
    BY DEF Journey, OnTheWay
  <2>2. IsObservation(m, s) => /\ Genuine(m, s)
                               /\ \A k \in 1..Len(channel) :
                                    IsObservation(channel[k], s) => channel[k].at < m.at
    BY <1>5, <2>1 DEF Sending
  <2>3. ASSUME NEW k \in 1..Len(channel'), IsObservation(channel'[k], s)
        PROVE  Genuine(channel[k], s)'
    <3>1. PICK x : x = channel'[k]
      OBVIOUS
    <3>2. Genuine(x, s)
      BY <1>2, <2>1, <2>2, <2>3, <3>1 DEF Queued
    <3>3. Genuine(x, s)'
      BY <1>7, <3>2
    <3>4. QED
      BY <3>1, <3>3
  <2>4. ASSUME NEW j \in 1..Len(channel'), NEW k \in 1..Len(channel'),
               IsObservation(channel'[j], s), IsObservation(channel'[k], s), j < k
        PROVE  channel'[j].at < channel'[k].at
    <3>1. j \in 1..Len(channel) /\ channel'[j] = channel[j]
      BY <1>1, <1>2, <2>4
    <3>2. CASE k = n
      BY <1>2, <2>2, <2>4, <3>1, <3>2
    <3>3. CASE k # n
      BY <1>2, <2>1, <2>4, <3>1, <3>3 DEF Queued
    <3>4. QED
      BY <3>2, <3>3
  <2>5. Queued(s)'
    BY <2>3, <2>4 DEF Queued
  <2>6. CASE s = t
    BY <1>3, <1>6, <2>5, <2>6 DEF Sending
  <2>7. CASE s # t
    <3>1. PICK x : x = pending[s]
      OBVIOUS
    <3>2. pending'[s] = x
      BY <1>3, <2>7, <3>1
    <3>3. IsObservation(x, s) => Genuine(x, s)'
      BY <1>7, <2>1, <3>1 DEF Sending
    <3>4. IsObservation(pending[s], s)' => Genuine(pending[s], s)'
      BY <3>2, <3>3
    <3>5. IsObservation(x, s) => \A k \in 1..Len(channel') :
            IsObservation(channel'[k], s) => channel'[k].at < x.at
      BY <1>2, <1>5, <2>1, <2>7, <3>1 DEF Sending
    <3>6. QED
      BY <2>1, <2>5, <3>1, <3>2, <3>4, <3>5 DEF Sending
  <2>8. QED
    BY <2>6, <2>7
<1>9. OnTheWay'
  BY <1>8 DEF OnTheWay
<1>10. ASSUME NEW s \in Source, NEW i
       PROVE  Flying(s, i)' <=> Flying(s, i)
  <2>1. (\E k \in 1..Len(channel') : IsObservation(channel'[k], s) /\ channel'[k].at = i)
          <=> \/ \E k \in 1..Len(channel) : IsObservation(channel[k], s) /\ channel[k].at = i
              \/ IsObservation(m, s) /\ m.at = i
    BY <1>2
  <2>2. CASE s = t
    BY <1>3, <1>6, <2>1, <2>2 DEF Flying
  <2>3. CASE s # t
    BY <1>3, <1>5, <2>1, <2>3 DEF Flying
  <2>4. QED
    BY <2>2, <2>3
<1>11. QED
  BY <1>1, <1>9, <1>10, QuietJourney

\* The oldest message is taken from the channel: the others are younger.
LEMMA TailOnTheWay ==
    ASSUME TypeOK, OnTheWay, channel # <<>>, channel' = Tail(channel),
           UNCHANGED <<pending, received>>
    PROVE  /\ OnTheWay'
           /\ \A s \in Source :
                /\ \A i : Flying(s, i) <=> Flying(s, i)' \/ (IsObservation(Msg, s) /\ Msg.at = i)
                /\ IsObservation(Msg, s) => \A i : Flying(s, i)' => Msg.at < i
                /\ IsObservation(Msg, s) => Genuine(Msg, s)
<1>1. /\ channel \in Seq(Message) /\ Len(channel) \in Nat /\ 1 \in 1..Len(channel)
      /\ Msg = channel[1] /\ Len(channel') = Len(channel) - 1
      /\ \A k \in 1..Len(channel') : k + 1 \in 1..Len(channel) /\ channel'[k] = channel[k + 1]
      /\ \A k \in 1..Len(channel) : k # 1 => k - 1 \in 1..Len(channel') /\ channel[k] = channel'[k - 1]
      /\ received' = received /\ pending' = pending
  <2>1. channel \in Seq(Message) /\ Len(channel) \in Nat /\ Len(channel) > 0
    BY DEF TypeOK
  <2>2. Len(Tail(channel)) = Len(channel) - 1 /\ 1 \in 1..Len(channel) /\ Head(channel) = channel[1]
    BY <2>1
  <2>3. \A k \in 1..(Len(channel) - 1) : k + 1 \in 1..Len(channel) /\ Tail(channel)[k] = channel[k + 1]
    BY <2>1
  <2>4. \A k \in 1..Len(channel) : k # 1 => k - 1 \in 1..(Len(channel) - 1) /\ (k - 1) + 1 = k
    BY <2>1
  <2>5. QED
    BY <2>1, <2>2, <2>3, <2>4 DEF Msg
<1>2. \A s \in Source : \A x : Genuine(x, s) <=> Genuine(x, s)'
  BY <1>1, StillGenuine
<1>3. ASSUME NEW s \in Source
      PROVE  /\ Sending(s)' /\ Queued(s)'
             /\ \A i : Flying(s, i) <=> Flying(s, i)' \/ (IsObservation(Msg, s) /\ Msg.at = i)
             /\ IsObservation(Msg, s) => \A i : Flying(s, i)' => Msg.at < i
             /\ IsObservation(Msg, s) => Genuine(Msg, s)
  <2>1. Sending(s) /\ Queued(s)
    BY DEF OnTheWay
  <2>2. ASSUME NEW k \in 1..Len(channel'), IsObservation(channel'[k], s)
        PROVE  Genuine(channel[k], s)'
    <3>1. PICK x : x = channel'[k]
      OBVIOUS
    <3>2. Genuine(x, s)
      BY <1>1, <2>1, <2>2, <3>1 DEF Queued
    <3>3. QED
      BY <1>2, <3>1, <3>2
  <2>3. ASSUME NEW j \in 1..Len(channel'), NEW k \in 1..Len(channel'),
               IsObservation(channel'[j], s), IsObservation(channel'[k], s), j < k
        PROVE  channel'[j].at < channel'[k].at
    <3>1. j + 1 < k + 1 /\ j + 1 \in 1..Len(channel) /\ k + 1 \in 1..Len(channel)
      BY <1>1, <2>3
    <3>2. QED
      BY <1>1, <2>1, <2>3, <3>1 DEF Queued
  <2>4. Queued(s)'
    BY <2>2, <2>3 DEF Queued
  <2>5. Sending(s)'
    <3>1. PICK x : x = pending[s]
      OBVIOUS
    <3>2. pending'[s] = x
      BY <1>1, <3>1
    <3>3. IsObservation(x, s) => Genuine(x, s)'
      BY <1>2, <2>1, <3>1 DEF Sending
    <3>4. IsObservation(pending[s], s)' => Genuine(pending[s], s)'
      BY <3>2, <3>3
    <3>5. IsObservation(x, s) => \A k \in 1..Len(channel') :
            IsObservation(channel'[k], s) => channel'[k].at < x.at
      BY <1>1, <2>1, <3>1 DEF Sending
    <3>6. QED
      BY <2>1, <3>1, <3>2, <3>4, <3>5 DEF Sending
  <2>6. \A i : (\E k \in 1..Len(channel) : IsObservation(channel[k], s) /\ channel[k].at = i)
          <=> \/ \E k \in 1..Len(channel') : IsObservation(channel'[k], s) /\ channel'[k].at = i
              \/ IsObservation(Msg, s) /\ Msg.at = i
    BY <1>1
  <2>7. \A i : Flying(s, i) <=> Flying(s, i)' \/ (IsObservation(Msg, s) /\ Msg.at = i)
    BY <1>1, <2>6 DEF Flying
  <2>8. IsObservation(Msg, s) => \A i : Flying(s, i)' => Msg.at < i
    <3> SUFFICES ASSUME IsObservation(Msg, s), NEW i, Flying(s, i)'
                 PROVE  Msg.at < i
      OBVIOUS
    <3>1. CASE IsObservation(pending[s], s) /\ pending[s].at = i
      BY <1>1, <2>1, <3>1 DEF Sending
    <3>2. ASSUME NEW k \in 1..Len(channel'), IsObservation(channel'[k], s), channel'[k].at = i
          PROVE  Msg.at < i
      <4>1. k + 1 \in 1..Len(channel) /\ channel'[k] = channel[k + 1] /\ 1 < k + 1
        BY <1>1
      <4>2. QED
        BY <1>1, <2>1, <3>2, <4>1 DEF Queued
    <3>3. QED
      BY <1>1, <3>1, <3>2 DEF Flying
  <2>9. IsObservation(Msg, s) => Genuine(Msg, s)
    BY <1>1, <2>1 DEF Queued
  <2>10. QED
    BY <2>4, <2>5, <2>7, <2>8, <2>9
<1>4. QED
  BY <1>3 DEF OnTheWay

\* What a source received is finitely many stamps.
LEMMA ArrivalsFinite ==
    ASSUME TypeOK, NEW s \in Source
    PROVE  IsFiniteSet(Arrivals(s)) /\ Arrivals(s) \subseteq Nat
<1>1. Len(received) \in Nat /\ Arrivals(s) \subseteq 1..Len(received)
  BY DEF TypeOK, Arrivals
<1>2. IsFiniteSet(1..Len(received))
  BY <1>1, FS_Interval
<1>3. IsFiniteSet(Arrivals(s))
  BY <1>1, <1>2, FS_Subset
<1>4. QED
  BY <1>1, <1>3

\* A message that is no observation is taken.
LEMMA TakeOtherJourney ==
    ASSUME TypeOK, TypeOK', Journey, NEW kind, Take(kind), kind # "observation",
           rows' = rows, \A s \in Source : health'[s].messages = health[s].messages
    PROVE  Journey'
<1>1. /\ channel # <<>> /\ channel' = Tail(channel) /\ UNCHANGED <<pending, received>>
      /\ \A s \in Source : ~IsObservation(Msg, s)
  BY DEF Take, taskVars, IsObservation
<1>2. /\ OnTheWay'
      /\ \A s \in Source : \A i : Flying(s, i)' <=> Flying(s, i)
  BY <1>1, TailOnTheWay DEF Journey
<1>3. QED
  BY <1>1, <1>2, QuietJourney

\* An observation is taken: it is the oldest of its source, which has it in
\* flight no longer; nothing changes for the other sources.
LEMMA TakeObservationFlight ==
    ASSUME TypeOK, TypeOK', Journey, Take("observation"), NEW a, a = Msg.at
    PROVE  /\ OnTheWay'
           /\ \A s \in Source : Arrivals(s)' = Arrivals(s)
           /\ \A s \in Source : InFlight(s)' = IF s = Msg.source THEN InFlight(s) \ {a}
                                               ELSE InFlight(s)
           /\ a \in InFlight(Msg.source) /\ \A i \in InFlight(Msg.source) \ {a} : a < i
           /\ Msg.sig = received[a].sig
<1> PICK t \in Source : t = Msg.source
  BY ObservedType
<1>1. /\ channel # <<>> /\ channel' = Tail(channel) /\ UNCHANGED <<pending, received>>
      /\ Msg \in Message /\ Msg.kind = "observation"
  BY TakeTypes DEF Take, taskVars
<1>2. \A s \in Source : IsObservation(Msg, s) <=> s = t
  BY <1>1, ConstantTypes DEF IsObservation
<1>3. /\ OnTheWay' /\ Genuine(Msg, t)
      /\ \A s \in Source : \A i : Flying(s, i) <=> Flying(s, i)' \/ (s = t /\ a = i)
      /\ \A i : Flying(t, i)' => a < i
  BY <1>1, <1>2, TailOnTheWay DEF Journey
<1>4. a \in Nat
  BY ObservedType
<1>5. /\ \A s \in Source : \A i : i \in InFlight(s) <=> Flying(s, i)
      /\ \A s \in Source : \A i : i \in InFlight(s)' <=> Flying(s, i)'
  BY <1>3, FlyingIs, FlyingIsNext DEF Journey
<1>6. ~Flying(t, a)'
  BY <1>3, <1>4
<1>7. \A s \in Source : InFlight(s)' = IF s = t THEN InFlight(s) \ {a} ELSE InFlight(s)
  BY <1>3, <1>5, <1>6
<1>8. a \in InFlight(t) /\ \A i \in InFlight(t) \ {a} : a < i
  BY <1>3, <1>5
<1>9. Msg.sig = received[a].sig
  BY <1>3 DEF Genuine, ObservationOf
<1>10. \A s \in Source : Arrivals(s)' = Arrivals(s)
  BY <1>1 DEF Arrivals
<1>11. QED
  BY <1>3, <1>7, <1>8, <1>9, <1>10

\* Before the race an observation is spent on the warm-up.
LEMMA WarmUpJourney ==
    ASSUME TypeOK, TypeOK', Journey, Warming, WarmUp
    PROVE  Journey'
<1> PICK a : a = Msg.at
  OBVIOUS
<1> PICK t \in Source : t = Msg.source
  BY ObservedType DEF WarmUp
<1>1. Take("observation") /\ CountMessage /\ ~Warmed /\ rows' = rows /\ received' = received
  BY DEF WarmUp, Take, taskVars
<1>2. /\ OnTheWay'
      /\ \A s \in Source : Arrivals(s)' = Arrivals(s)
      /\ \A s \in Source : InFlight(s)' = IF s = t THEN InFlight(s) \ {a} ELSE InFlight(s)
      /\ a \in InFlight(t) /\ \A i \in InFlight(t) \ {a} : a < i
  BY <1>1, TakeObservationFlight
<1>3. \A s \in Source : health'[s].messages = IF s = t THEN health[s].messages + 1
                                              ELSE health[s].messages
  BY <1>1, MessagesCounted
<1>4. \A s \in Source : RowsFrom(s) = {} /\ RowsFrom(s)' = {}
  BY <1>1 DEF Warming, RowsFrom
<1>5. ASSUME NEW s \in Source
      PROVE  AccountFrom(s)'
  <2>1. Account(Arrivals(s), InFlight(s), {}, rows, received, health[s].messages)
    BY <1>4, Accounts DEF Journey, AccountFrom
  <2>2. IsFiniteSet(Arrivals(s)) /\ Arrivals(s) \subseteq Nat /\ InFlight(s) \subseteq Arrivals(s)
    BY ArrivalsFinite DEF InFlight
  <2>3. CASE s = t
    <3>1. Account(Arrivals(s), InFlight(s) \ {a}, {}, rows, received, health[s].messages + 1)
      BY <1>2, <2>1, <2>2, <2>3, AccountSpends
    <3>2. QED
      BY <1>1, <1>2, <1>3, <1>4, <2>3, <3>1 DEF AccountFrom
  <2>4. CASE s # t
    BY <1>1, <1>2, <1>3, <1>4, <2>1, <2>4 DEF AccountFrom
  <2>5. QED
    BY <2>3, <2>4
<1>6. QED
  BY <1>2, <1>5, AccountsNext DEF Journey

\* In the race it becomes the latest row of its source.
LEMMA RecordJourney ==
    ASSUME TypeOK, TypeOK', Journey, TakeObservation
    PROVE  Journey'
<1> PICK a : a = Msg.at
  OBVIOUS
<1> PICK t \in Source : t = Msg.source
  BY ObservedType DEF TakeObservation
<1> PICK l : l = Len(rows) + 1
  OBVIOUS
<1>1. /\ Take("observation") /\ CountMessage /\ rows' = Append(rows, Observed)
      /\ received' = received
  BY DEF TakeObservation, Take, taskVars
<1>2. /\ OnTheWay'
      /\ \A s \in Source : Arrivals(s)' = Arrivals(s)
      /\ \A s \in Source : InFlight(s)' = IF s = t THEN InFlight(s) \ {a} ELSE InFlight(s)
      /\ a \in InFlight(t) /\ \A i \in InFlight(t) \ {a} : a < i
      /\ Msg.sig = received[a].sig
  BY <1>1, TakeObservationFlight
<1>3. \A s \in Source : health'[s].messages = IF s = t THEN health[s].messages + 1
                                              ELSE health[s].messages
  BY <1>1, MessagesCounted
<1>4. /\ Observed \in [sig : Sig, source : Source, at : Nat]
      /\ Observed.source = t /\ Observed.at = a /\ Observed.sig = Msg.sig
  BY <1>1, ObservedType DEF Observed
<1>5. /\ \A s \in Source : /\ RowsFrom(s)' = IF s = t THEN RowsFrom(s) \cup {l} ELSE RowsFrom(s)
                           /\ RowsFrom(s) \subseteq 1..Len(rows)
      /\ Len(rows) \in Nat /\ rows'[l] = Observed
      /\ \A k \in 1..Len(rows) : rows'[k] = rows[k]
  BY <1>1, <1>4, RowsFromAppended
<1>6. ASSUME NEW s \in Source
      PROVE  AccountFrom(s)'
  <2>1. Account(Arrivals(s), InFlight(s), RowsFrom(s), rows, received, health[s].messages)
    BY Accounts DEF Journey, AccountFrom
  <2>2. IsFiniteSet(Arrivals(s)) /\ Arrivals(s) \subseteq Nat /\ InFlight(s) \subseteq Arrivals(s)
    BY ArrivalsFinite DEF InFlight
  <2>3. /\ RowsFrom(s) \subseteq Nat /\ l \in Nat
        /\ \A k \in RowsFrom(s) : k < l /\ rows'[k] = rows[k]
    BY <1>5
  <2>4. CASE s = t
    <3>1. rows'[l].at = a /\ rows'[l].sig = received[a].sig
      BY <1>2, <1>4, <1>5
    <3>2. Account(Arrivals(s), InFlight(s) \ {a}, RowsFrom(s) \cup {l}, rows', received,
                  health[s].messages + 1)
      <4>1. a \in InFlight(s) /\ \A i \in InFlight(s) \ {a} : a < i
        BY <1>2, <2>4
      <4>2. QED
        BY <2>1, <2>2, <2>3, <3>1, <4>1, AccountRecords, ZenonT(30)
    <3>3. QED
      BY <1>1, <1>2, <1>3, <1>5, <2>4, <3>2 DEF AccountFrom
  <2>5. CASE s # t
    <3>1. Account(Arrivals(s), InFlight(s), RowsFrom(s), rows', received, health[s].messages)
      BY <2>1, <2>3 DEF Account
    <3>2. QED
      BY <1>1, <1>2, <1>3, <1>5, <2>5, <3>1 DEF AccountFrom
  <2>6. QED
    BY <2>4, <2>5
<1>7. QED
  BY <1>2, <1>6, AccountsNext DEF Journey

\* Every step keeps the journey.
LEMMA NextJourney ==
    ASSUME Inv, Inv', Warming, Journey, [Next]_vars
    PROVE  Journey'
<1>1. TypeOK /\ TypeOK'
  BY DEF Inv
<1>2. ~WarmUp /\ ~TakeObservation => /\ \A s \in Source : health'[s].messages = health[s].messages
                                     /\ rows' = rows
  BY <1>1, OnlyObservationsCount
<1>3. ASSUME NEW t \in Source, SourceStep(t)
      PROVE  Journey'
  <2>1. CASE Connect(t)
    <3>1. [kind |-> "connected", source |-> t] \in Message
      BY DEF Message
    <3>2. QED
      BY <1>1, <2>1, <3>1, AnnounceJourney DEF Connect, Free, loopVars
  <2>2. CASE Fail(t)
    <3>1. [kind |-> "failed", source |-> t] \in Message
      BY DEF Message
    <3>2. QED
      BY <1>1, <2>2, <3>1, AnnounceJourney DEF Fail, Free, loopVars
  <2>3. CASE Send(t)
    BY <1>1, <2>3, SendJourney
  <2>4. ASSUME NEW sig \in Sig, Receive(t, sig)
        PROVE  Journey'
    BY <1>1, <2>4, ReceiveJourney
  <2>5. QED
    BY <1>3, <2>1, <2>2, <2>3, <2>4 DEF SourceStep
<1>4. CASE WarmUp
  BY <1>1, <1>4, WarmUpJourney
<1>5. CASE TakeObservation
  BY <1>1, <1>5, RecordJourney
<1>6. CASE (TakeConnected \/ TakeFailed) /\ ~WarmUp /\ ~TakeObservation
  BY <1>1, <1>2, <1>6, TakeOtherJourney DEF TakeConnected, TakeFailed
<1>7. CASE /\ \/ StartupTimeout \/ WallTimeout \/ GraceElapsed \/ StallTick \/ AllEnded
              \/ Finish \/ Tick \/ Abandon \/ Ended \/ UNCHANGED vars
           /\ ~WarmUp /\ ~TakeObservation
  <2>1. UNCHANGED <<pending, received, channel>>
    BY <1>7 DEF StartupTimeout, WallTimeout, GraceElapsed, StallTick, AllEnded, Finish,
                Tick, Abandon, Ended, vars, taskVars
  <2>2. /\ \A s \in Source : \A i : Flying(s, i)' <=> Flying(s, i)
        /\ OnTheWay'
    BY <2>1 DEF Flying, Journey, OnTheWay, Sending, Queued, Genuine, Arrivals, ObservationOf
  <2>3. QED
    BY <1>1, <1>2, <1>7, <2>1, <2>2, QuietJourney
<1>8. QED
  BY <1>3, <1>4, <1>5, <1>6, <1>7 DEF Next, RunnerStep, Receives

LEMMA InitJourney == Init => Journey
<1> SUFFICES ASSUME Init PROVE Journey
  OBVIOUS
<1>1. /\ received = <<>> /\ channel = <<>> /\ rows = <<>>
      /\ \A s \in Source : pending[s] = None /\ health[s].messages = 0
  BY DEF Init
<1>2. \A s \in Source : Arrivals(s) = {} /\ RowsFrom(s) = {}
  BY <1>1 DEF Arrivals, RowsFrom
<1>3. \A s \in Source : InFlight(s) = {} /\ Recorded(s) = {}
  BY <1>2 DEF InFlight, Recorded
<1>4. NothingLost
  BY <1>1, <1>2, <1>3, FS_EmptySet DEF NothingLost
<1>5. OnTheWay
  BY <1>1 DEF OnTheWay, Sending, Queued, IsObservation
<1>6. QED
  BY <1>4, <1>5 DEF Journey

\* sources.rs and run_async: through tasks, channel and loop nothing a source
\* delivers is lost, repeated, mixed up or reordered.
THEOREM RunNothingLost == Spec => []NothingLost
<1>1. Journey => NothingLost
  BY DEF Journey
<1>2. Inv /\ Inv' /\ Warming /\ Journey /\ [Next]_vars => Journey'
  BY NextJourney
<1>3. Inv /\ Warming /\ [Next]_vars => Warming'
  BY NextWarming
<1>4. QED
  BY <1>1, <1>2, <1>3, InitWarming, InitJourney, RunInv, PTL DEF Spec
================================================================================
