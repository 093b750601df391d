------------------------------ MODULE SendLanding ------------------------------
(***************************************************************************)
(* `solbench send` (send.rs, landing.rs): transactions are submitted one   *)
(* after the other, each is looked for until it is confirmed or the time   *)
(* for it is over, and a tracker counts what became of them.               *)
(*                                                                         *)
(* The cluster is external.  It may include a transaction in a block,      *)
(* abandon that block, or confirm it for good, and goes on doing so while  *)
(* the client is elsewhere; a node may answer late, from behind the tip,   *)
(* or not at all, and may have taken a transaction long before it answers. *)
(* One clock counts the slots and the time; the code's limits, which are   *)
(* in real time, are given in its units.                                   *)
(***************************************************************************)
EXTENDS Integers, Sequences, FiniteSets, SequencesExt, Sorting

CONSTANTS Count,      \* --count
          PollLimit,  \* slots a transaction is looked for (30 s in the code)
          Timeout,    \* slots a request may take (20 s in the code)
          Pause,      \* slots between two looks (500 ms in the code)
          Validity,   \* slots a blockhash is good for
          Behind,     \* how far a node's answer may be behind the tip
          Horizon     \* bound: no slot comes after this; no run takes so long

ASSUME SendAssumption ==
    /\ {Count, Behind, Horizon, Validity} \subseteq Nat
    /\ {PollLimit, Timeout, Pause} \subseteq Nat \ {0}
    /\ Horizon > Behind + 1 + Count * (PollLimit + 3 * Timeout + Pause)

VARIABLES
    tip,         \* the newest slot, and the time
    chain,       \* chain[sig]: what became of a transaction that was taken
    pc, i,       \* where run() is, and the attempt
    blockhash, submitSlot,
    started,     \* when the attempt's transaction was submitted
    since,       \* when the request under way was made, or the sleep began
    tracker,
    landings     \* history: the transactions counted as landed, and when sent

attempt == <<blockhash, submitSlot, started>>
vars == <<tip, chain, pc, i, attempt, since, tracker, landings>>

First == Behind + 1
Slots == First..Horizon

\* Mutant: every memo says the same.
SigOfBlockhash(n, bh) == <<0, bh>>

\* The payer and the program are the same each time: a signature is of the memo
\* and the blockhash.
Sig(n, bh) == <<n, bh>>

New == [attempts |-> 0, landed |-> 0, failed |-> 0, slot_deltas |-> <<>>]

Init == /\ tip = First /\ chain = <<>>
        /\ pc = (IF Count = 0 THEN "report" ELSE "blockhash")
        /\ i = 0 /\ blockhash = 0 /\ submitSlot = 0 /\ started = 0 /\ since = tip
        /\ tracker = New /\ landings = <<>>

Requests == {"blockhash", "slot", "send", "status"}
Over     == pc \in {"done", "aborted"}
Recent   == (tip - Behind)..tip

-------------------------------------------------------------------------------
(* The cluster *)
Pending == [status |-> "pending", slot |-> 0, err |-> FALSE]

\* The node takes the transaction at some time of the request, which is from then
\* on its way into a block, whatever the client learns and when.
Take ==
    /\ pc = "send" /\ Sig(i, blockhash) \notin DOMAIN chain
    /\ chain' = [s \in DOMAIN chain \cup {Sig(i, blockhash)} |->
                   IF s \in DOMAIN chain THEN chain[s] ELSE Pending]
    /\ UNCHANGED <<tip, pc, i, attempt, since, tracker, landings>>

Include(sig) ==
    /\ ~Over /\ chain[sig].status = "pending" /\ tip - sig[2] <= Validity
    /\ \E err \in BOOLEAN :
         chain' = [chain EXCEPT ![sig] = [status |-> "processed", slot |-> tip, err |-> err]]
    /\ UNCHANGED <<tip, pc, i, attempt, since, tracker, landings>>

Abandon(sig) ==
    /\ ~Over /\ chain[sig].status = "processed"
    /\ chain' = [chain EXCEPT ![sig] = Pending]
    /\ UNCHANGED <<tip, pc, i, attempt, since, tracker, landings>>

Confirm(sig) ==
    /\ ~Over /\ chain[sig].status = "processed"
    /\ chain' = [chain EXCEPT ![sig].status = "confirmed"]
    /\ UNCHANGED <<tip, pc, i, attempt, since, tracker, landings>>

-------------------------------------------------------------------------------
(* The tracker *)
RecordLanded(t, delta) ==
    [t EXCEPT !.attempts = @ + 1, !.landed = @ + 1, !.slot_deltas = Append(@, delta)]

RecordFailed(t) == [t EXCEPT !.attempts = @ + 1, !.failed = @ + 1]

\* Mutant: the deltas are taken in the order of the attempts.
UnsortedSummary(deltas) ==
    [min |-> Head(deltas), max |-> Last(deltas),
     median |-> deltas[Len(deltas) \div 2 + 1]]

\* Of at least one landing.
SlotDeltaSummary(deltas) ==
    LET sorted == Ascending(deltas)
    IN  [min |-> Head(sorted), max |-> Last(sorted),
         median |-> sorted[Len(sorted) \div 2 + 1]]

-------------------------------------------------------------------------------
(* The client *)
Go(where) == pc' = where /\ since' = tip

\* Mutant: <= for <.
NextAttemptInclusive == /\ i' = i + 1
                        /\ Go(IF i + 1 <= Count THEN "blockhash" ELSE "report")

NextAttempt == /\ i' = i + 1
               /\ Go(IF i + 1 < Count THEN "blockhash" ELSE "report")

GetBlockhash ==
    /\ pc = "blockhash"
    /\ blockhash' \in Recent
    /\ Go("slot")
    /\ UNCHANGED <<tip, chain, i, submitSlot, started, tracker, landings>>

\* get_slot(..).unwrap_or(0), then the clock of the attempt is started and the
\* transaction submitted.
GetSlot(slot) ==
    /\ pc = "slot" /\ slot \in Recent \cup {0}
    /\ submitSlot' = slot /\ started' = tip
    /\ Go("send")
    /\ UNCHANGED <<tip, chain, i, blockhash, tracker, landings>>

\* Mutant: the slot to compare with is asked for once the transaction is sent.
SendAcceptedRebased ==
    /\ pc = "send" /\ Sig(i, blockhash) \in DOMAIN chain
    /\ submitSlot' = tip
    /\ Go("poll")
    /\ UNCHANGED <<tip, chain, i, blockhash, started, tracker, landings>>

\* The answer holds a signature: the node has taken the transaction.
SendAccepted ==
    /\ pc = "send" /\ Sig(i, blockhash) \in DOMAIN chain
    /\ Go("poll")
    /\ UNCHANGED <<tip, chain, i, attempt, tracker, landings>>

\* An error, or no signature in the answer.  The node may have taken the
\* transaction all the same.
SendRejected ==
    /\ pc = "send"
    /\ tracker' = RecordFailed(tracker)
    /\ NextAttempt
    /\ UNCHANGED <<tip, chain, attempt, landings>>

\* Mutant: the time is measured from the last look.
InTimeSinceLook == tip - since <= PollLimit

\* started.elapsed() < 30 s holds until just before the limit, an instant this
\* clock shows as the limit itself: there both outcomes of the test are possible.
InTime == tip - started <= PollLimit
TimeIsUp == tip - started >= PollLimit

AskStatus ==
    /\ pc = "poll" /\ InTime
    /\ Go("status")
    /\ UNCHANGED <<tip, chain, i, attempt, tracker, landings>>

\* Mutant: a transaction in a block has landed.
LandedInBlock(tx) == tx.status \in {"processed", "confirmed"} /\ ~tx.err

\* sig_slot's condition.
Landed(tx) == tx.status = "confirmed" /\ ~tx.err

StatusLanded ==
    /\ pc = "status"
    /\ LET sig == Sig(i, blockhash)
           tx  == chain[sig]
       IN  /\ Landed(tx)
           /\ tracker' = RecordLanded(tracker, tx.slot - submitSlot)
           /\ landings' = Append(landings, [sig |-> sig, slot |-> tx.slot, sent |-> started])
    /\ NextAttempt
    /\ UNCHANGED <<tip, chain, attempt>>

\* Nothing known, not yet confirmed, or confirmed with an error; a node behind
\* the tip may say so of any transaction.
StatusNone ==
    /\ pc = "status"
    /\ Go("sleep")
    /\ UNCHANGED <<tip, chain, i, attempt, tracker, landings>>

\* thread::sleep of 500 ms is over; how late the last look was does not shorten it.
Wake ==
    /\ pc = "sleep" /\ tip >= since + Pause
    /\ Go("poll")
    /\ UNCHANGED <<tip, chain, i, attempt, tracker, landings>>

GiveUp ==
    /\ pc = "poll" /\ TimeIsUp
    /\ tracker' = RecordFailed(tracker)
    /\ NextAttempt
    /\ UNCHANGED <<tip, chain, attempt, landings>>

\* `?` on get_blockhash or sig_slot: run() returns and nothing is printed.
RequestFails ==
    /\ pc \in {"blockhash", "status"}
    /\ Go("aborted")
    /\ UNCHANGED <<tip, chain, i, attempt, tracker, landings>>

Report ==
    /\ pc = "report" /\ Go("done")
    /\ UNCHANGED <<tip, chain, i, attempt, tracker, landings>>

\* Mutant: the agent has no timeout.
NeverOverdue == FALSE

Overdue == pc \in Requests /\ tip >= since + Timeout

\* The client takes no time of its own, and no request more than its timeout.
Tick ==
    /\ pc \in Requests \cup {"sleep"} /\ tip < Horizon
    /\ ~Overdue /\ (pc = "sleep" => tip < since + Pause)
    /\ tip' = tip + 1
    /\ UNCHANGED <<chain, pc, i, attempt, since, tracker, landings>>

Done == Over /\ UNCHANGED vars

Poll == AskStatus \/ StatusLanded \/ StatusNone \/ Wake \/ GiveUp

Next == \/ GetBlockhash \/ \E slot \in Slots \cup {0} : GetSlot(slot)
        \/ Take \/ SendAccepted \/ SendRejected \/ Poll \/ RequestFails \/ Report
        \/ \E sig \in DOMAIN chain : Include(sig) \/ Abandon(sig) \/ Confirm(sig)
        \/ Tick \/ Done

Spec == Init /\ [][Next]_vars

\* What the client does by itself it does, time goes on, and a request that has
\* no answer ends with the timeout.  Nothing is asked of the cluster.
Expire == \/ RequestFails \/ SendRejected \/ GetSlot(0)
Fairness == /\ WF_vars(Tick) /\ WF_vars(Overdue /\ Expire)
            /\ WF_vars(AskStatus \/ Wake \/ GiveUp \/ Report)
FairSpec == Spec /\ Fairness

-------------------------------------------------------------------------------
TypeOK ==
    /\ tip \in Slots /\ i \in 0..Count
    /\ DOMAIN chain \subseteq (0..Count) \X Nat
    /\ \A sig \in DOMAIN chain :
         chain[sig] \in [status : {"pending", "processed", "confirmed"},
                         slot : Nat, err : BOOLEAN]
    /\ pc \in Requests \cup {"poll", "sleep", "report", "done", "aborted"}
    /\ {blockhash, submitSlot, started, since} \subseteq Nat
    /\ {tracker.attempts, tracker.landed, tracker.failed} \subseteq Nat
    /\ tracker.slot_deltas \in Seq(Int)

\* README.md: "On-chain inclusion for landing".  What is counted as landed is on
\* chain, without an error and in the slot its delta was taken of, from then on:
\* no abandoned block takes a counted landing back.
LandingsAreReal ==
    \A k \in 1..Len(landings) :
      LET tx == chain[landings[k].sig]
      IN  tx.status = "confirmed" /\ ~tx.err /\ tx.slot = landings[k].slot

\* No transaction is counted twice, although consecutive attempts may get the
\* same blockhash: the rate never exceeds what the chain holds.
LandedOnce ==
    \A j, k \in 1..Len(landings) : landings[j].sig = landings[k].sig => j = k

\* A landing is never shown as quicker than it was: the delta is at least the
\* number of slots from the submission, when the request went out, to the block,
\* although the transaction may be in it before the node has answered, and however
\* late the node's answers are and whether or not there was one to getSlot.
DeltaNotUnderstated ==
    \A k \in 1..Len(landings) :
      tracker.slot_deltas[k] >= landings[k].slot - landings[k].sent

\* A report covers every attempt once, landed or failed; a run that was cut
\* short prints none.
EveryAttemptCounted ==
    pc = "done" => /\ tracker.attempts = Count
                   /\ tracker.landed + tracker.failed = Count
                   /\ Len(tracker.slot_deltas) = tracker.landed

\* The printed median has half of the landings on either side, and all of them
\* lie between the printed extremes.
MedianSplits ==
    pc = "done" /\ tracker.landed > 0 =>
      LET d == tracker.slot_deltas
          s == SlotDeltaSummary(d)
      IN  /\ \A k \in DOMAIN d : s.min <= d[k] /\ d[k] <= s.max
          /\ 2 * Cardinality({k \in DOMAIN d : d[k] <= s.median}) >= Len(d)
          /\ 2 * Cardinality({k \in DOMAIN d : d[k] >= s.median}) >= Len(d)

\* What is printed is right, for every outcome of the attempts.
ReportIsRight == EveryAttemptCounted /\ MedianSplits

\* However late the node's answers are, an attempt takes no longer than the poll's
\* limit, three timeouts and one pause: a status asked for just in time delays the
\* end by its own timeout and by the pause that follows it, and the send counts
\* against the poll's limit.
AttemptBound == PollLimit + 3 * Timeout + Pause

AttemptsBounded ==
    ~Over => tip <= First + (IF pc = "report" THEN i ELSE i + 1) * AttemptBound

\* The run ends, whatever the cluster does.
SendEnds == <>Over
================================================================================
