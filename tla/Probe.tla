--------------------------------- MODULE Probe ---------------------------------
(***************************************************************************)
(* `solbench probe` (probe.rs): one scheduler thread per endpoint issues a *)
(* getSlot request at every tick of a schedule that all endpoints share,   *)
(* each in a worker thread of its own, and keeps at most MAX_INFLIGHT      *)
(* workers; the samples are then put in the order of the ticks.            *)
(*                                                                         *)
(* One unit of `now` is the interval between two ticks.  The schedulers    *)
(* and the request's timeout are punctual, as a unit is milliseconds; a    *)
(* reply may come at any point between two ticks.                          *)
(***************************************************************************)
EXTENDS Naturals, Sequences, FiniteSets, SequencesExt, Sorting

CONSTANTS Endpoint,
          Slot,         \* the slots an endpoint may answer with
          Samples,      \* --samples
          MaxInflight,  \* MAX_INFLIGHT (64 in the code)
          Timeout,      \* of a request (6 s in the code)
          Horizon,      \* bound: the clock stops here; no probe takes so long
          None

ASSUME ProbeAssumption == /\ {Samples, MaxInflight, Timeout} \subseteq Nat \ {0}
                          /\ Horizon \in Nat /\ Horizon > Samples * (Timeout + 1)
                          /\ None \notin Nat \cup Slot

VARIABLES
    now,
    next,           \* next[e]: the tick the scheduler is at
    handles,        \* handles[e]: ticks whose workers are not joined, oldest first
    worker,         \* worker[e][i]: how the request of tick i stands
    ok, errors,     \* samples in the order of the replies; the error count
    joined,         \* joined[e]: run_endpoint has joined every worker
    sentAt, doneAt  \* history: when a request was sent and its worker ended

recorded == <<ok, errors>>
history  == <<sentAt, doneAt>>
vars == <<now, next, handles, worker, recorded, joined, history>>

Ticks  == 0..(Samples - 1)
Sample == [tick : Ticks, latency : Nat, slot : Slot]

Ended(e, i)    == worker[e][i] \in {"ok", "error"}
Outstanding(e) == {i \in Ticks : worker[e][i] = "sent"}

Init ==
    /\ now = 0
    /\ next = [e \in Endpoint |-> 0]
    /\ handles = [e \in Endpoint |-> <<>>]
    /\ worker = [e \in Endpoint |-> [i \in Ticks |-> "unborn"]]
    /\ ok = [e \in Endpoint |-> <<>>] /\ errors = [e \in Endpoint |-> 0]
    /\ joined = [e \in Endpoint |-> FALSE]
    /\ sentAt = [e \in Endpoint |-> [i \in Ticks |-> None]]
    /\ doneAt = [e \in Endpoint |-> [i \in Ticks |-> None]]

-------------------------------------------------------------------------------
\* A worker that has ended keeps its place until it is joined.
Full(e) == Len(handles[e]) >= MaxInflight

\* Mutant: <= for <, one request too many.
CanIssueOneMore(e) == /\ next[e] <= Samples /\ now >= next[e]
                      /\ Full(e) => Ended(e, Head(handles[e]))

\* Mutant: at the cap all workers are joined, not the oldest.
CanIssueAfterAll(e) ==
    /\ next[e] < Samples /\ now >= next[e]
    /\ Full(e) => \A i \in Range(handles[e]) : Ended(e, i)

\* The tick's time has come, and if the cap is reached the worker that was
\* issued first has ended; whether the others have is not asked.
CanIssue(e) == /\ next[e] < Samples /\ now >= next[e]
               /\ Full(e) => Ended(e, Head(handles[e]))

Issue(e) ==
    /\ CanIssue(e)
    /\ handles' = [handles EXCEPT ![e] =
                     Append(IF Full(e) THEN Tail(@) ELSE @, next[e])]
    /\ worker' = [worker EXCEPT ![e][next[e]] = "sent"]
    /\ sentAt' = [sentAt EXCEPT ![e][next[e]] = now]
    /\ next' = [next EXCEPT ![e] = @ + 1]
    /\ UNCHANGED <<now, recorded, joined, doneAt>>

\* Mutant: a worker ends without a trace when the reply holds no slot.
RequestFailsUncounted(e, i) ==
    /\ i \in Outstanding(e)
    /\ worker' = [worker EXCEPT ![e][i] = "error"]
    /\ doneAt' = [doneAt EXCEPT ![e][i] = now]
    /\ UNCHANGED <<now, next, handles, recorded, joined, sentAt>>

\* The transport fails, or the reply holds no slot: at any time, and at the
\* timeout at the latest.
RequestFails(e, i) ==
    /\ i \in Outstanding(e)
    /\ worker' = [worker EXCEPT ![e][i] = "error"]
    /\ errors' = [errors EXCEPT ![e] = @ + 1]
    /\ doneAt' = [doneAt EXCEPT ![e][i] = now]
    /\ UNCHANGED <<now, next, handles, ok, joined, sentAt>>

Reply(e, i, slot) ==
    /\ i \in Outstanding(e)
    /\ worker' = [worker EXCEPT ![e][i] = "ok"]
    /\ ok' = [ok EXCEPT ![e] = Append(@, [tick |-> i, slot |-> slot,
                                          latency |-> now - sentAt[e][i]])]
    /\ doneAt' = [doneAt EXCEPT ![e][i] = now]
    /\ UNCHANGED <<now, next, handles, errors, joined, sentAt>>

\* The loop is over: the workers that are left are joined.
CanJoin(e) == /\ next[e] = Samples /\ ~joined[e]
              /\ \A i \in Range(handles[e]) : Ended(e, i)

Join(e) ==
    /\ CanJoin(e)
    /\ joined' = [joined EXCEPT ![e] = TRUE]
    /\ handles' = [handles EXCEPT ![e] = <<>>]
    /\ UNCHANGED <<now, next, worker, recorded, history>>

\* Mutant: the agent has no timeout of its own.
NeverExpired(e, i) == FALSE

Expired(e, i) == i \in Outstanding(e) /\ now >= sentAt[e][i] + Timeout

Over == \A e \in Endpoint : joined[e]

Tick ==
    /\ ~Over /\ now < Horizon /\ now' = now + 1
    /\ \A e \in Endpoint : /\ ~CanIssue(e) /\ ~CanJoin(e)
                           /\ \A i \in Ticks : ~Expired(e, i)
    /\ UNCHANGED <<next, handles, worker, recorded, joined, history>>

Done == Over /\ UNCHANGED vars

Next == \/ \E e \in Endpoint :
             \/ Issue(e) \/ Join(e)
             \/ \E i \in Ticks : RequestFails(e, i) \/ \E s \in Slot : Reply(e, i, s)
        \/ Tick \/ Done

Spec == Init /\ [][Next]_vars

\* Threads are scheduled and time goes on; an endpoint need not answer, its
\* requests then time out.
FairSpec == /\ Spec /\ WF_vars(Tick)
            /\ \A e \in Endpoint :
                 /\ WF_vars(Issue(e)) /\ WF_vars(Join(e))
                 /\ \A i \in Ticks : WF_vars(Expired(e, i) /\ RequestFails(e, i))

\* The samples run_endpoint hands on.
Data(e) == SortBy(ok[e], [k \in DOMAIN ok[e] |-> ok[e][k].tick])

CurrentSlot(e) == IF Data(e) = <<>> THEN None ELSE Last(Data(e)).slot

-------------------------------------------------------------------------------
TypeOK ==
    /\ now \in Nat
    /\ next \in [Endpoint -> 0..Samples]
    /\ handles \in [Endpoint -> Seq(Ticks)] /\ ok \in [Endpoint -> Seq(Sample)]
    /\ worker \in [Endpoint -> [Ticks -> {"unborn", "sent", "ok", "error"}]]
    /\ errors \in [Endpoint -> Nat] /\ joined \in [Endpoint -> BOOLEAN]
    /\ sentAt \in [Endpoint -> [Ticks -> Nat \cup {None}]]
    /\ doneAt \in [Endpoint -> [Ticks -> Nat \cup {None}]]

Latest(S) == CHOOSE x \in S : \A y \in S : x >= y

\* A request is sent at its tick, or as soon as the one before it has been sent
\* and the one MAX_INFLIGHT before it has ended, and not later: no other slow
\* reply reaches the schedule, and a scheduler that was held catches up.  As the
\* one MAX_INFLIGHT before it has ended, no more than that are under way.
LateOnlyBehindOldest ==
    \A e \in Endpoint, i \in Ticks : worker[e][i] # "unborn" =>
      sentAt[e][i] = Latest({i} \cup (IF i = 0 THEN {} ELSE {sentAt[e][i - 1]})
                                \cup (IF i < MaxInflight THEN {}
                                      ELSE {doneAt[e][i - MaxInflight]}))

\* How far a probe falls behind: however slow the endpoints are, a request is late
\* by at most one timeout for every MAX_INFLIGHT requests before it (the delays of
\* successive rounds do add up), and the probe is over within a timeout of its
\* last request.
Deadline(i) == i + (i \div MaxInflight) * Timeout

DelayBounded ==
    /\ \A e \in Endpoint, i \in Ticks :
         worker[e][i] # "unborn" => sentAt[e][i] <= Deadline(i)
    /\ ~Over => now <= Deadline(Samples - 1) + Timeout

\* How late a request may be, and because of what.  That it may be late at all is
\* SlowReplyNeverDelays's subject.
OnSchedule == LateOnlyBehindOldest /\ DelayBounded

\* README.md:169-170: "Each sample tick fires its own request on a fixed schedule,
\* so a slow reply never delays (and never hides) the next sample"; probe.rs:5-6:
\* "a slow reply never delays the next send".  With the schedulers punctual, every
\* request would go out at its tick.  The code joins the oldest worker once
\* MAX_INFLIGHT are under way.
SlowReplyNeverDelays ==
    \A e \in Endpoint, i \in Ticks : worker[e][i] # "unborn" => sentAt[e][i] = i

\* A finished probe accounts for every tick once, as a sample or as an error,
\* in whatever order the workers ended: no slow reply hides a tick.
EveryTickCounted ==
    \A e \in Endpoint : joined[e] =>
      /\ Len(ok[e]) + errors[e] = Samples
      /\ \A j, k \in 1..Len(ok[e]) : ok[e][j].tick = ok[e][k].tick => j = k

\* The probe ends, whatever the endpoints do.
ProbeEnds == <>Over

================================================================================
