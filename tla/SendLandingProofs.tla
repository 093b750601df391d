--------------------------- MODULE SendLandingProofs ---------------------------
(***************************************************************************)
(* Theorems about SendLanding, for every number of transactions, every     *)
(* time limit, timeout and validity, and every cluster the module admits.  *)
(***************************************************************************)
EXTENDS SendLanding, AlgorithmProofs, SequenceTheorems

Looking == {"poll", "status", "sleep"}
Ended   == {"report", "done"}
Tx      == [status : {"pending", "processed", "confirmed"},
            slot : Nat, err : BOOLEAN]
Landing == [sig : (0..Count) \X Nat, slot : Nat, sent : Nat]

IsTracker(t) == /\ DOMAIN t = {"attempts", "landed", "failed", "slot_deltas"}
                /\ {t.attempts, t.landed, t.failed} \subseteq Nat
                /\ t.slot_deltas \in Seq(Int)

Types == TypeOK /\ IsTracker(tracker) /\ landings \in Seq(Landing)

\* The loop's counter and the tracker's four fields say the same.
Counted == /\ pc \in Ended => i = Count
           /\ pc \notin Ended => i < Count
           /\ tracker.attempts = i /\ tracker.landed + tracker.failed = i
           /\ Len(tracker.slot_deltas) = tracker.landed
           /\ Len(landings) = tracker.landed

\* A node knows only transactions of earlier attempts, and this attempt's from
\* when it is submitted.
Fresh == \A sig \in DOMAIN chain :
           sig[1] < i \/ (sig[1] = i /\ pc \in Looking \cup {"send", "aborted"})

\* The submit slot is none after the submission, and what is looked for was taken.
Submitted == /\ pc \in Looking \cup {"send"} => submitSlot <= started
             /\ pc \in Looking => Sig(i, blockhash) \in DOMAIN chain

\* What is counted is known to the nodes and of an earlier attempt.
Earlier == \A k \in 1..Len(landings) :
             landings[k].sig \in DOMAIN chain /\ landings[k].sig[1] < i

Records == LandingsAreReal /\ LandedOnce /\ DeltaNotUnderstated

Inv == Types /\ Counted /\ Fresh /\ Submitted /\ Earlier /\ Records

-------------------------------------------------------------------------------
\* The ranges of the constants.
LEMMA ConstantTypes ==
    /\ {Count, Behind, Horizon, Validity, PollLimit, Timeout, Pause, First} \subseteq Nat
    /\ First = Behind + 1 /\ First <= Horizon
    /\ Slots \subseteq Nat
<1>1. Count \in Nat /\ PollLimit + 3 * Timeout + Pause \in Nat
  BY SendAssumption
<1>2. \A a, b \in Nat : a * b >= 0
  OBVIOUS
<1>3. Count * (PollLimit + 3 * Timeout + Pause) >= 0
  BY <1>1, <1>2
<1>4. {Count, Behind, Horizon, Validity, PollLimit, Timeout, Pause} \subseteq Nat
  BY SendAssumption
<1>5. Count * (PollLimit + 3 * Timeout + Pause) \in Int
  BY <1>1
<1>6. First = Behind + 1 /\ First \in Nat /\ First <= Horizon
  BY <1>3, <1>4, <1>5, SendAssumption DEF First
<1>7. Slots \subseteq Nat
  BY <1>4, <1>6 DEF Slots
<1>8. QED
  BY <1>4, <1>6, <1>7

\* The invariant holds at the start.
LEMMA InitInv == Init => Inv
<1> SUFFICES ASSUME Init PROVE Inv
  OBVIOUS
<1>1. tip \in Slots
  BY ConstantTypes DEF Init, Slots
<1>2. tip \in Nat /\ Count \in Nat
  BY ConstantTypes DEF Init
<1>3. IsTracker(New) /\ landings \in Seq(Landing) /\ tracker = New
      /\ Len(landings) = 0
  BY DEF Init, New, IsTracker, Landing
<1>4. DOMAIN chain = {}
  BY DEF Init
<1>5. TypeOK
  BY <1>1, <1>2, <1>3, <1>4 DEF Init, TypeOK, New, Requests
<1>6. Types
  BY <1>3, <1>5 DEF Types
<1>7. Counted
  BY <1>2, <1>3 DEF Init, Counted, Ended, New
<1>8. Fresh /\ Submitted /\ Earlier /\ Records
  BY <1>3, <1>4 DEF Init, Fresh, Submitted, Looking, Earlier, Records, LandingsAreReal,
         LandedOnce, DeltaNotUnderstated
<1>9. QED
  BY <1>6, <1>7, <1>8 DEF Inv

-------------------------------------------------------------------------------
\* A step of the cluster changes the state of one transaction, and nothing once it
\* is confirmed.
LEMMA ClusterStep ==
    ASSUME Types, NEW sig \in DOMAIN chain,
           Include(sig) \/ Abandon(sig) \/ Confirm(sig)
    PROVE  /\ DOMAIN chain' = DOMAIN chain
           /\ \A s \in DOMAIN chain :
                /\ chain'[s] \in Tx
                /\ chain[s].status = "confirmed" => chain'[s] = chain[s]
           /\ UNCHANGED <<tip, pc, i, attempt, since, tracker, landings>>
<1>1. \A s \in DOMAIN chain : chain[s] \in Tx
  BY DEF Types, TypeOK, Tx
<1>2. tip \in Nat
  BY ConstantTypes DEF Types, TypeOK
<1>3. CASE Include(sig)
  BY <1>1, <1>2, <1>3 DEF Include, Tx
<1>4. CASE Abandon(sig)
  BY <1>1, <1>4 DEF Abandon, Pending, Tx
<1>5. CASE Confirm(sig)
  BY <1>1, <1>5 DEF Confirm, Tx
<1>6. QED
  BY <1>3, <1>4, <1>5

\* The cluster includes, drops and confirms only what was sent.
LEMMA ClusterInv ==
    ASSUME Inv, NEW sig \in DOMAIN chain,
           Include(sig) \/ Abandon(sig) \/ Confirm(sig)
    PROVE  Inv'
<1> USE DEF Inv
<1>1. Types
  OBVIOUS
<1>2. /\ DOMAIN chain' = DOMAIN chain
      /\ \A s \in DOMAIN chain :
           /\ chain'[s] \in Tx
           /\ chain[s].status = "confirmed" => chain'[s] = chain[s]
      /\ UNCHANGED <<tip, pc, i, attempt, since, tracker, landings>>
  BY <1>1, ClusterStep
<1>3. Types'
  BY <1>2 DEF Types, TypeOK, Tx, attempt
<1>4. Counted'
  BY <1>2 DEF Counted
<1>5. Fresh' /\ Submitted' /\ Earlier'
  BY <1>2 DEF Fresh, Submitted, Earlier, attempt, Sig
<1>6. Records'
  <2>1. \A k \in 1..Len(landings) :
          chain'[landings[k].sig] = chain[landings[k].sig]
  BY <1>2 DEF Earlier, Records, LandingsAreReal
  <2>2. QED
  BY <1>2, <2>1 DEF Records, LandingsAreReal, LandedOnce, DeltaNotUnderstated
<1>7. QED
  BY <1>3, <1>4, <1>5, <1>6

-------------------------------------------------------------------------------
\* What every proof about a step of the client starts from.
LEMMA StateTypes ==
    ASSUME Types
    PROVE  /\ {tip, i, Count, Behind, blockhash, submitSlot, started, since} \subseteq Nat
           /\ i <= Count /\ tip \in Slots
           /\ DOMAIN chain \subseteq (0..Count) \X Nat
           /\ \A s \in DOMAIN chain : chain[s] \in Tx /\ s[1] \in Nat
<1>1. tip \in Nat /\ Count \in Nat /\ Behind \in Nat
  BY ConstantTypes DEF Types, TypeOK
<1>2. DOMAIN chain \subseteq (0..Count) \X Nat /\ \A s \in DOMAIN chain : chain[s] \in Tx
  BY DEF Types, TypeOK, Tx
<1>3. \A s \in (0..Count) \X Nat : s[1] \in Nat
  BY <1>1
<1>4. QED
  BY <1>1, <1>2, <1>3 DEF Types, TypeOK

\* A node's answer is a slot.
LEMMA RecentNat == Types => Recent \subseteq Nat
<1> SUFFICES ASSUME Types PROVE Recent \subseteq Nat
  OBVIOUS
<1>1. tip \in Nat /\ Behind \in Nat /\ tip >= Behind + 1
  BY ConstantTypes DEF Types, TypeOK, Slots
<1>2. QED
  BY <1>1 DEF Recent

\* The next attempt, or the report after the last.
LEMMA NextTypes ==
    ASSUME Types, i < Count, NextAttempt
    PROVE  /\ i' = i + 1 /\ i' \in 0..Count /\ since' \in Nat
           /\ pc' \in {"blockhash", "report"}
           /\ pc' = "report" <=> i' = Count
<1>1. i \in Nat /\ Count \in Nat /\ tip \in Nat
  BY StateTypes
<1>2. QED
  BY <1>1 DEF NextAttempt, Go

\* Nodes forget nothing, and what they learn is of the attempt under way.
Grows == /\ DOMAIN chain \subseteq DOMAIN chain'
         /\ DOMAIN chain' \subseteq (0..Count) \X Nat
         /\ \A s \in DOMAIN chain' : chain'[s] \in Tx
         /\ \A s \in DOMAIN chain : chain'[s] = chain[s]
         /\ \A s \in DOMAIN chain' : s \in DOMAIN chain \/ s[1] = i

\* The records of landings rest on transactions that do not change.
LEMMA RecordsKept ==
    ASSUME Records, Earlier, Grows, i' >= i, Types, i' \in Nat,
           UNCHANGED landings, tracker'.slot_deltas = tracker.slot_deltas
    PROVE  Records' /\ Earlier'
<1>1. \A k \in 1..Len(landings) : /\ landings[k].sig \in DOMAIN chain
                                  /\ chain'[landings[k].sig] = chain[landings[k].sig]
  BY DEF Earlier, Grows
<1>2. Records'
  BY <1>1 DEF Records, LandingsAreReal, LandedOnce, DeltaNotUnderstated
<1>3. \A k \in 1..Len(landings) : landings[k].sig[1] \in Nat
  <2>1. \A s \in DOMAIN chain : s[1] \in Nat
    BY StateTypes
  <2>2. QED
    BY <1>1, <2>1
<1>4. Earlier'
  <2>1. SUFFICES ASSUME NEW k \in 1..Len(landings)
                 PROVE  landings[k].sig \in DOMAIN chain' /\ landings[k].sig[1] < i'
    BY DEF Earlier
  <2>2. landings[k].sig[1] < i /\ landings[k].sig \in DOMAIN chain'
    BY <1>1 DEF Earlier, Grows
  <2>3. QED
    BY <1>3, <2>2, StateTypes
<1>5. QED
  BY <1>2, <1>4

\* What the tracker's two operations do to its fields.
LEMMA RecordFailedFields ==
    ASSUME NEW t, IsTracker(t)
    PROVE  /\ IsTracker(RecordFailed(t))
           /\ RecordFailed(t).attempts = t.attempts + 1
           /\ RecordFailed(t).failed = t.failed + 1
           /\ RecordFailed(t).landed = t.landed
           /\ RecordFailed(t).slot_deltas = t.slot_deltas
  BY DEF RecordFailed, IsTracker

\* What record_landed does to each counter.
LEMMA RecordLandedFields ==
    ASSUME NEW t, NEW delta \in Int, IsTracker(t)
    PROVE  /\ IsTracker(RecordLanded(t, delta))
           /\ RecordLanded(t, delta).attempts = t.attempts + 1
           /\ RecordLanded(t, delta).landed = t.landed + 1
           /\ RecordLanded(t, delta).failed = t.failed
           /\ RecordLanded(t, delta).slot_deltas = Append(t.slot_deltas, delta)
  BY DEF RecordLanded, IsTracker

\* A send that is rejected or gives up counts one failure and moves on.
LEMMA FailedInv ==
    ASSUME Inv, SendRejected \/ GiveUp
    PROVE  Inv'
<1> USE DEF Inv
<1>1. /\ pc \in {"send", "poll"} /\ NextAttempt
      /\ tracker' = RecordFailed(tracker)
      /\ UNCHANGED <<tip, chain, attempt, landings>>
  BY DEF SendRejected, GiveUp, attempt
<1>2. i < Count
  BY <1>1 DEF Counted, Ended
<1>3. /\ i' = i + 1 /\ i' \in 0..Count /\ since' \in Nat
      /\ pc' \in {"blockhash", "report"}
      /\ pc' = "report" <=> i' = Count
  BY <1>1, <1>2, NextTypes
<1>4. Grows
  BY <1>1, StateTypes DEF Grows
<1>5. /\ IsTracker(tracker')
      /\ tracker'.attempts = tracker.attempts + 1
      /\ tracker'.failed = tracker.failed + 1
      /\ tracker'.landed = tracker.landed
      /\ tracker'.slot_deltas = tracker.slot_deltas
  BY <1>1, RecordFailedFields DEF Types
<1>6. Types'
  <2>1. landings' \in Seq(Landing) /\ tip' \in Slots
    BY <1>1, StateTypes DEF Types
  <2>2. {blockhash', submitSlot', started', since'} \subseteq Nat
    BY <1>1, <1>3, StateTypes DEF attempt
  <2>3. {tracker'.attempts, tracker'.landed, tracker'.failed} \subseteq Nat
        /\ tracker'.slot_deltas \in Seq(Int)
    BY <1>5 DEF IsTracker
  <2>4. QED
    BY <1>3, <1>4, <1>5, <2>1, <2>2, <2>3 DEF Types, TypeOK, Grows, Tx, Requests
<1>7. Counted'
  <2>1. /\ {i, tracker.attempts, tracker.landed, tracker.failed} \subseteq Nat
        /\ tracker.attempts = i /\ tracker.landed + tracker.failed = i
        /\ Len(tracker.slot_deltas) = tracker.landed /\ Len(landings) = tracker.landed
    BY StateTypes DEF Counted, Types, IsTracker
  <2>2. /\ tracker'.attempts = i' /\ tracker'.landed + tracker'.failed = i'
        /\ Len(tracker'.slot_deltas) = tracker'.landed /\ Len(landings') = tracker'.landed
    BY <1>1, <1>3, <1>5, <2>1
  <2>3. i' \in Nat /\ Count \in Nat /\ i' <= Count
    BY <1>3, StateTypes
  <2>4. (pc' \in Ended => i' = Count) /\ (pc' \notin Ended => i' < Count)
    BY <1>3, <2>3 DEF Ended
  <2>5. QED
    BY <2>2, <2>4 DEF Counted
<1>8. Fresh'
  <2>1. ASSUME NEW s \in DOMAIN chain' PROVE s[1] < i'
    <3>1. s[1] \in Nat /\ i \in Nat
      BY <1>4, StateTypes DEF Grows
    <3>2. s[1] <= i
      BY <1>4, <3>1 DEF Grows, Fresh
    <3>3. QED
      BY <1>3, <3>1, <3>2
  <2>2. QED
    BY <2>1 DEF Fresh
<1>9. Submitted'
  BY <1>3 DEF Submitted, Looking
<1>10. Records' /\ Earlier'
  BY <1>1, <1>3, <1>4, <1>5, StateTypes, RecordsKept
<1>11. QED
  BY <1>6, <1>7, <1>8, <1>9, <1>10

-------------------------------------------------------------------------------
\* A status that says confirmed counts one landing and moves on.
LEMMA LandedInv ==
    ASSUME Inv, StatusLanded
    PROVE  Inv'
<1> USE DEF Inv
<1> DEFINE sig   == Sig(i, blockhash)
           delta == chain[sig].slot - submitSlot
           new   == [sig |-> sig, slot |-> chain[sig].slot, sent |-> started]
<1>1. /\ pc = "status" /\ NextAttempt
      /\ Landed(chain[sig])
      /\ tracker' = RecordLanded(tracker, delta)
      /\ landings' = Append(landings, new)
      /\ UNCHANGED <<tip, chain, attempt>>
  BY DEF StatusLanded
<1>2. i < Count /\ sig \in DOMAIN chain /\ submitSlot <= started
  BY <1>1 DEF Counted, Ended, Submitted, Looking
<1>3. /\ i' = i + 1 /\ i' \in 0..Count /\ since' \in Nat
      /\ pc' \in {"blockhash", "report"}
      /\ pc' = "report" <=> i' = Count
  BY <1>1, <1>2, NextTypes
<1>4. /\ chain[sig] \in Tx /\ delta \in Int /\ new \in Landing
      /\ sig[1] = i /\ i \in Nat /\ started \in Nat /\ submitSlot \in Nat
      /\ chain[sig].slot \in Nat
  <2>1. /\ chain[sig] \in Tx /\ {submitSlot, started, i} \subseteq Nat
        /\ sig \in (0..Count) \X Nat
    BY <1>2, StateTypes
  <2>2. chain[sig].slot \in Nat
    BY <2>1 DEF Tx
  <2>3. sig[1] = i
    BY DEF Sig
  <2>4. new \in Landing
    BY <2>1, <2>2 DEF Landing
  <2>5. QED
    BY <2>1, <2>2, <2>3, <2>4
<1> HIDE DEF sig, delta, new
<1>5. /\ IsTracker(tracker')
      /\ tracker'.attempts = tracker.attempts + 1
      /\ tracker'.landed = tracker.landed + 1
      /\ tracker'.failed = tracker.failed
      /\ tracker'.slot_deltas = Append(tracker.slot_deltas, delta)
  BY <1>1, <1>4, RecordLandedFields DEF Types
<1>6. /\ landings \in Seq(Landing) /\ tracker.slot_deltas \in Seq(Int)
      /\ Len(tracker.slot_deltas) = Len(landings)
  BY DEF Types, IsTracker, Counted
<1>7. /\ landings' \in Seq(Landing) /\ Len(landings') = Len(landings) + 1
      /\ \A k \in 1..Len(landings) : landings'[k] = landings[k]
      /\ landings'[Len(landings) + 1] = new
  BY <1>1, <1>4, <1>6
<1>8. /\ Len(tracker'.slot_deltas) = Len(landings) + 1
      /\ \A k \in 1..Len(landings) :
           tracker'.slot_deltas[k] = tracker.slot_deltas[k]
      /\ tracker'.slot_deltas[Len(landings) + 1] = delta
  BY <1>4, <1>5, <1>6
<1>9. Types'
  <2>1. {blockhash', submitSlot', started', since'} \subseteq Nat /\ tip' \in Slots
    BY <1>1, <1>3, StateTypes DEF attempt
  <2>2. {tracker'.attempts, tracker'.landed, tracker'.failed} \subseteq Nat
        /\ tracker'.slot_deltas \in Seq(Int)
    BY <1>5 DEF IsTracker
  <2>3. DOMAIN chain' \subseteq (0..Count) \X Nat /\ \A s \in DOMAIN chain' : chain'[s] \in Tx
    BY <1>1, StateTypes
  <2>4. QED
    BY <1>3, <1>5, <1>7, <2>1, <2>2, <2>3 DEF Types, TypeOK, Tx, Requests
<1>10. Counted'
  <2>1. /\ {i, tracker.attempts, tracker.landed, tracker.failed} \subseteq Nat
        /\ tracker.attempts = i /\ tracker.landed + tracker.failed = i
        /\ Len(tracker.slot_deltas) = tracker.landed /\ Len(landings) = tracker.landed
    BY StateTypes DEF Counted, Types, IsTracker
  <2>2. /\ tracker'.attempts = i' /\ tracker'.landed + tracker'.failed = i'
        /\ Len(tracker'.slot_deltas) = tracker'.landed /\ Len(landings') = tracker'.landed
    BY <1>3, <1>5, <1>7, <1>8, <2>1
  <2>3. i' \in Nat /\ Count \in Nat /\ i' <= Count
    BY <1>3, StateTypes
  <2>4. (pc' \in Ended => i' = Count) /\ (pc' \notin Ended => i' < Count)
    BY <1>3, <2>3 DEF Ended
  <2>5. QED
    BY <2>2, <2>4 DEF Counted
<1>11. Fresh'
  <2>1. ASSUME NEW s \in DOMAIN chain' PROVE s[1] < i'
    <3>1. s \in DOMAIN chain /\ s[1] \in Nat
      BY <1>1, StateTypes
    <3>2. s[1] <= i
      BY <1>4, <3>1 DEF Fresh
    <3>3. QED
      BY <1>3, <1>4, <3>1, <3>2
  <2>2. QED
    BY <2>1 DEF Fresh
<1>12. Submitted'
  BY <1>3 DEF Submitted, Looking
<1>13. \A k \in 1..Len(landings') : k \in 1..Len(landings) \/ k = Len(landings) + 1
  BY <1>6, <1>7
<1>14. \A k \in 1..Len(landings) : /\ landings[k].sig \in DOMAIN chain
                                   /\ landings[k].sig[1] \in Nat
                                   /\ landings[k].sig[1] < i
  <2>1. \A s \in DOMAIN chain : s[1] \in Nat
    BY StateTypes
  <2>2. QED
    BY <2>1 DEF Earlier
<1>15. Earlier'
  <2>1. SUFFICES ASSUME NEW k \in 1..Len(landings')
                 PROVE  landings'[k].sig \in DOMAIN chain' /\ landings'[k].sig[1] < i'
    BY DEF Earlier
  <2>2. CASE k \in 1..Len(landings)
    BY <1>1, <1>3, <1>4, <1>7, <1>14, <2>2
  <2>3. CASE k = Len(landings) + 1
    BY <1>1, <1>2, <1>3, <1>4, <1>7, <2>3 DEF new
  <2>4. QED
    BY <1>13, <2>2, <2>3
<1>16. LandingsAreReal'
  <2>1. SUFFICES ASSUME NEW k \in 1..Len(landings')
                 PROVE  LET tx == chain[landings'[k].sig]
                        IN  tx.status = "confirmed" /\ ~tx.err /\ tx.slot = landings'[k].slot
    BY <1>1 DEF LandingsAreReal
  <2>2. CASE k \in 1..Len(landings)
    BY <1>7, <2>2 DEF Records, LandingsAreReal
  <2>3. CASE k = Len(landings) + 1
    BY <1>1, <1>7, <2>3 DEF new, Landed
  <2>4. QED
    BY <1>13, <2>2, <2>3
<1>17. LandedOnce'
  <2>1. SUFFICES ASSUME NEW j \in 1..Len(landings'), NEW k \in 1..Len(landings'),
                        landings'[j].sig = landings'[k].sig
                 PROVE  j = k
    BY DEF LandedOnce
  <2>2. landings'[Len(landings) + 1].sig[1] = i
    BY <1>4, <1>7 DEF new
  <2>3. \A m \in 1..Len(landings) : landings'[m].sig[1] # i
    BY <1>4, <1>7, <1>14
  <2>4. CASE j \in 1..Len(landings) /\ k \in 1..Len(landings)
    BY <1>7, <2>1, <2>4 DEF Records, LandedOnce
  <2>5. QED
    BY <1>13, <2>1, <2>2, <2>3, <2>4
<1>18. DeltaNotUnderstated'
  <2>1. SUFFICES ASSUME NEW k \in 1..Len(landings')
                 PROVE  tracker'.slot_deltas[k]
                          >= landings'[k].slot - landings'[k].sent
    BY DEF DeltaNotUnderstated
  <2>2. CASE k \in 1..Len(landings)
    BY <1>7, <1>8, <2>2 DEF Records, DeltaNotUnderstated
  <2>3. CASE k = Len(landings) + 1
    <3>1. /\ landings'[k].slot = chain[sig].slot /\ landings'[k].sent = started
          /\ tracker'.slot_deltas[k] = chain[sig].slot - submitSlot
      BY <1>7, <1>8, <2>3 DEF new, delta
    <3>2. QED
      BY <1>2, <1>4, <3>1
  <2>4. QED
    BY <1>13, <2>2, <2>3
<1>19. QED
  BY <1>9, <1>10, <1>11, <1>12, <1>15, <1>16, <1>17, <1>18 DEF Records

-------------------------------------------------------------------------------
\* A step that ends no attempt leaves the records alone; what is left to show
\* is that it keeps the types and that the attempt under way stays in order.
LEMMA SameAttempt ==
    ASSUME Inv, Grows, Types', UNCHANGED <<i, tracker, landings>>,
           pc' \in Ended <=> pc \in Ended
    PROVE  Counted' /\ Earlier' /\ Records'
<1> USE DEF Inv
<1>1. i \in Nat /\ i' = i /\ i' >= i
  BY StateTypes
<1>2. Earlier' /\ Records'
  BY <1>1, RecordsKept
<1>3. Counted'
  BY DEF Counted
<1>4. QED
  BY <1>2, <1>3

\* A node takes the transaction of the attempt under way, which none knew.
LEMMA TakeInv ==
    ASSUME Inv, Take
    PROVE  Inv'
<1> USE DEF Inv
<1> DEFINE sig == Sig(i, blockhash)
<1>1. /\ pc = "send" /\ sig \notin DOMAIN chain
      /\ DOMAIN chain' = DOMAIN chain \cup {sig}
      /\ \A s \in DOMAIN chain : chain'[s] = chain[s]
      /\ chain'[sig] = Pending
      /\ UNCHANGED <<tip, pc, i, attempt, since, tracker, landings>>
  BY DEF Take
<1>2. i < Count
  BY <1>1 DEF Counted, Ended
<1>3. sig \in (0..Count) \X Nat /\ sig[1] = i
  BY StateTypes DEF Sig
<1>4. Pending \in Tx
  BY DEF Pending, Tx
<1> HIDE DEF sig
<1>5. Grows
  BY <1>1, <1>3, <1>4, StateTypes DEF Grows
<1>6. Types'
  BY <1>1, <1>5 DEF Types, TypeOK, Grows, Tx, attempt
<1>7. Counted' /\ Earlier' /\ Records'
  BY <1>1, <1>5, <1>6, SameAttempt
<1>8. Fresh'
  BY <1>1, <1>3 DEF Fresh
<1>9. Submitted'
  BY <1>1 DEF Submitted, Looking, attempt
<1>10. QED
  BY <1>6, <1>7, <1>8, <1>9

\* The remaining steps of the client leave the nodes alone.
Quiet == \/ GetBlockhash \/ \E slot \in Slots \cup {0} : GetSlot(slot)
         \/ SendAccepted \/ AskStatus \/ StatusNone \/ Wake \/ RequestFails \/ Report

\* The steps between leave the counters alone.
LEMMA QuietInv ==
    ASSUME Inv, Quiet
    PROVE  Inv'
<1> USE DEF Inv
<1>1. Recent \subseteq Nat /\ tip \in Nat /\ \A r \in Recent : r <= tip
  BY RecentNat, StateTypes, ConstantTypes DEF Recent
<1>2. UNCHANGED <<tip, chain, i, tracker, landings>> /\ since' = tip
  BY DEF Quiet, GetBlockhash, GetSlot, SendAccepted, AskStatus, StatusNone, Wake, RequestFails,
         Report, Go, attempt
<1>3. Grows
  BY <1>2, StateTypes DEF Grows
<1>4. \/ /\ pc = "blockhash" /\ pc' = "slot"
         /\ blockhash' \in Nat /\ UNCHANGED <<submitSlot, started>>
      \/ /\ pc = "slot" /\ pc' = "send"
         /\ submitSlot' \in Nat /\ submitSlot' <= tip /\ started' = tip
         /\ UNCHANGED blockhash
      \/ /\ pc = "send" /\ Sig(i, blockhash) \in DOMAIN chain
         /\ pc' \in Looking /\ UNCHANGED attempt
      \/ pc \in Looking /\ pc' \in Looking /\ UNCHANGED attempt
      \/ pc \notin Ended /\ pc' = "aborted" /\ UNCHANGED attempt
      \/ pc = "report" /\ pc' = "done" /\ UNCHANGED attempt
  <2>1. CASE GetBlockhash
    BY <1>1, <2>1 DEF GetBlockhash, Go
  <2>2. CASE \E slot \in Slots \cup {0} : GetSlot(slot)
    <3>1. PICK slot \in Slots \cup {0} : GetSlot(slot)
      BY <2>2
    <3>2. slot \in Nat /\ slot <= tip
      BY <1>1, <3>1 DEF GetSlot
    <3>3. QED
      BY <3>1, <3>2 DEF GetSlot, Go
  <2>3. CASE AskStatus \/ StatusNone \/ Wake
    BY <2>3 DEF AskStatus, StatusNone, Wake, Go, Looking
  <2>4. CASE RequestFails
    BY <2>4 DEF RequestFails, Go, Ended
  <2>5. CASE Report
    BY <2>5 DEF Report, Go
  <2>6. CASE SendAccepted
    BY <2>6 DEF SendAccepted, Go, Looking
  <2>7. QED
    BY <2>1, <2>2, <2>3, <2>4, <2>5, <2>6 DEF Quiet
<1>5. Types'
  <2>1. {blockhash', submitSlot', started', since'} \subseteq Nat
    BY <1>1, <1>2, <1>4, StateTypes DEF attempt
  <2>2. pc' \in Requests \cup {"poll", "sleep", "report", "done", "aborted"}
    BY <1>4 DEF Looking, Requests
  <2>3. QED
    BY <1>2, <2>1, <2>2 DEF Types, TypeOK
<1>6. Counted' /\ Earlier' /\ Records'
  BY <1>2, <1>3, <1>4, <1>5, SameAttempt DEF Ended, Looking
<1>7. Fresh'
  BY <1>2, <1>4 DEF Fresh, Looking, Ended
<1>8. Submitted'
  BY <1>2, <1>4 DEF Submitted, Looking, Sig, attempt
<1>9. QED
  BY <1>5, <1>6, <1>7, <1>8

\* A new slot makes nothing false.
LEMMA TickInv ==
    ASSUME Inv, Tick
    PROVE  Inv'
<1> USE DEF Inv
<1>1. /\ tip \in Slots /\ tip < Horizon /\ tip' = tip + 1
      /\ UNCHANGED <<chain, pc, i, attempt, since, tracker, landings>>
  BY StateTypes DEF Tick
<1>2. tip' \in Slots /\ tip \in Nat /\ submitSlot \in Nat
  BY <1>1, ConstantTypes, StateTypes DEF Slots
<1>3. Types'
  BY <1>1, <1>2 DEF Types, TypeOK, attempt
<1>4. Grows
  BY <1>1, StateTypes DEF Grows
<1>5. Counted' /\ Earlier' /\ Records'
  BY <1>1, <1>3, <1>4, SameAttempt
<1>6. Fresh' /\ Submitted'
  BY <1>1, <1>2 DEF Fresh, Submitted, Sig, attempt
<1>7. QED
  BY <1>3, <1>5, <1>6

\* A stutter changes nothing the invariant speaks of.
LEMMA StutterInv ==
    ASSUME Inv, UNCHANGED vars
    PROVE  Inv'
<1>1. UNCHANGED <<tip, chain, pc, i, blockhash, submitSlot, started, since, tracker,
                  landings>>
  BY DEF vars, attempt
<1>2. QED
  BY <1>1 DEF Inv, Types, TypeOK, Counted, Fresh, Submitted, Earlier, Records, Sig,
              LandingsAreReal, LandedOnce, DeltaNotUnderstated

\* Every step preserves the invariant.
LEMMA NextInv == Inv /\ [Next]_vars => Inv'
<1> SUFFICES ASSUME Inv, [Next]_vars PROVE Inv'
  OBVIOUS
<1>1. CASE Quiet
  BY <1>1, QuietInv
<1>2. CASE Take
  BY <1>2, TakeInv
<1>3. CASE SendRejected \/ GiveUp
  BY <1>3, FailedInv
<1>4. CASE StatusLanded
  BY <1>4, LandedInv
<1>5. CASE \E sig \in DOMAIN chain : Include(sig) \/ Abandon(sig) \/ Confirm(sig)
  BY <1>5, ClusterInv
<1>6. CASE Tick
  BY <1>6, TickInv
<1>7. CASE UNCHANGED vars
  BY <1>7, StutterInv
<1>8. QED
  BY <1>1, <1>2, <1>3, <1>4, <1>5, <1>6, <1>7 DEF Next, Poll, Quiet, Done

-------------------------------------------------------------------------------
\* The invariant holds throughout.
LEMMA InvAlways == Spec => []Inv
  BY InitInv, NextInv, PTL DEF Spec

\* The types of the client's state and of what the nodes know.
THEOREM SendTypeOK == Spec => []TypeOK
<1>1. Inv => TypeOK
  BY DEF Inv, Types
<1>2. QED
  BY <1>1, InvAlways, PTL

\* send.rs counts as landed only what a node says is confirmed: for any number
\* of transactions and whatever blocks are abandoned, it stays on chain.
THEOREM SendLandingsAreReal == Spec => []LandingsAreReal
<1>1. Inv => LandingsAreReal
  BY DEF Inv, Records
<1>2. QED
  BY <1>1, InvAlways, PTL

\* The memo's number keeps the attempts of send.rs apart: no transaction is
\* counted twice, even when a late one lands beside its successor.
THEOREM SendLandedOnce == Spec => []LandedOnce
<1>1. Inv => LandedOnce
  BY DEF Inv, Records
<1>2. QED
  BY <1>1, InvAlways, PTL

\* send.rs asks for the slot before it submits: whatever the nodes answer and when,
\* no delta is less than the slots from the submission to the block.
THEOREM SendDeltaNotUnderstated == Spec => []DeltaNotUnderstated
<1>1. Inv => DeltaNotUnderstated
  BY DEF Inv, Records
<1>2. QED
  BY <1>1, InvAlways, PTL

\* A report of send.rs covers every attempt once.
THEOREM SendEveryAttemptCounted == Spec => []EveryAttemptCounted
<1>1. Inv => EveryAttemptCounted
  BY DEF Inv, Counted, Ended, EveryAttemptCounted
<1>2. QED
  BY <1>1, InvAlways, PTL

\* The summary of at least one delta: the extremes enclose all deltas, and half of
\* them are on either side of the median.  The deltas that come no later than the
\* median in the order are not above it, and those that come no earlier not below.
LEMMA SummarySplits ==
    ASSUME NEW d \in Seq(Int), Len(d) >= 1
    PROVE  LET s == SlotDeltaSummary(d)
           IN  /\ \A k \in DOMAIN d : s.min <= d[k] /\ d[k] <= s.max
               /\ 2 * Cardinality({k \in DOMAIN d : d[k] <= s.median}) >= Len(d)
               /\ 2 * Cardinality({k \in DOMAIN d : d[k] >= s.median}) >= Len(d)
<1>1. PICK n \in Nat : n = Len(d) /\ n >= 1 /\ DOMAIN d = 1..n /\ d \in [1..n -> Int]
  OBVIOUS
<1>2. PICK p \in Bijection(1..n, 1..n) :
             /\ Ascending(d) = [k \in 1..n |-> d[p[k]]]
             /\ \A j, k \in 1..n : j <= k => d[p[j]] <= d[p[k]]
  BY <1>1, AscendingFacts
<1>3. PICK m \in 1..n : m = n \div 2 + 1 /\ 2 * m >= n /\ 2 * (n - m + 1) >= n
  <2>1. PICK h \in Nat : h = n \div 2 /\ 2 * h <= n /\ n <= 2 * h + 1
    BY <1>1
  <2>2. h + 1 \in 1..n
    BY <1>1, <2>1
  <2>3. QED
    BY <1>1, <2>1, <2>2
<1>4. /\ \A k \in 1..n : p[k] \in 1..n
      /\ \A k \in 1..n : \E j \in 1..n : p[j] = k
  BY <1>2 DEF Bijection, Injection, Surjection
<1> DEFINE s == SlotDeltaSummary(d)
<1>5. s.min = d[p[1]] /\ s.max = d[p[n]] /\ s.median = d[p[m]]
  <2> DEFINE sorted == Ascending(d)
  <2>1. sorted \in Seq(Int) /\ Len(sorted) = n /\ \A k \in 1..n : sorted[k] = d[p[k]]
    <3>1. \A k \in 1..n : d[p[k]] \in Int
      BY <1>1, <1>4
    <3>2. sorted = [k \in 1..n |-> d[p[k]]]
      BY <1>2
    <3>3. sorted \in [1..n -> Int] /\ \A k \in 1..n : sorted[k] = d[p[k]]
      BY <3>1, <3>2
    <3>4. QED
      BY <1>1, <3>3
  <2>2. s.min = Head(sorted) /\ s.max = Last(sorted) /\ s.median = sorted[Len(sorted) \div 2 + 1]
    BY DEF SlotDeltaSummary
  <2> HIDE DEF sorted, s
  <2>3. Head(sorted) = sorted[1] /\ Last(sorted) = sorted[n]
    BY <1>1, <2>1 DEF Last
  <2>4. 1 \in 1..n /\ n \in 1..n /\ m \in 1..n /\ Len(sorted) \div 2 + 1 = m
    BY <1>1, <1>3, <2>1
  <2>5. QED
    BY <2>1, <2>2, <2>3, <2>4, Zenon
<1> HIDE DEF s
<1>6. ASSUME NEW k \in 1..n PROVE s.min <= d[k] /\ d[k] <= s.max
  <2>1. PICK j \in 1..n : p[j] = k
    BY <1>4
  <2>2. 1 \in 1..n /\ n \in 1..n /\ 1 <= j /\ j <= n
    BY <1>1, <2>1
  <2>3. d[p[1]] <= d[p[j]] /\ d[p[j]] <= d[p[n]]
    BY <1>2, <2>2
  <2>4. QED
    BY <1>5, <2>1, <2>3
<1>7. ASSUME NEW U \in SUBSET (1..n), NEW E \in SUBSET (1..n), \A j \in E : p[j] \in U
      PROVE  Cardinality(E) \in Nat /\ Cardinality(U) \in Nat /\ Cardinality(E) <= Cardinality(U)
  <2>1. IsFiniteSet(U)
    BY <1>1, Interval, FS_Subset
  <2>2. p \in [1..n -> 1..n] /\ \A j, k \in E : p[j] = p[k] => j = k
    BY <1>2 DEF Bijection, Injection, IsInjective
  <2> DEFINE h == [j \in E |-> p[j]]
  <2>3. h \in [E -> U] /\ \A j, k \in E : h[j] = h[k] => j = k
    BY <1>7, <2>2
  <2> HIDE DEF h
  <2>4. IsFiniteSet(E) /\ Cardinality(E) <= Cardinality(U)
    <3>1. h \in Injection(E, U)
      BY <2>3, Fun_IsInj
    <3>2. QED
      BY <2>1, <3>1, FS_Injection
  <2>5. QED
    BY <2>1, <2>4, FS_CardinalityType
<1>8. 2 * Cardinality({k \in 1..n : d[k] <= s.median}) >= n
  <2> DEFINE U == {k \in 1..n : d[k] <= s.median}
  <2>1. \A j \in 1..m : j \in 1..n /\ j <= m
    BY <1>1, <1>3
  <2>2. \A j \in 1..m : p[j] \in U
    BY <1>2, <1>3, <1>4, <1>5, <2>1
  <2>3. 1..m \in SUBSET (1..n) /\ U \in SUBSET (1..n)
    BY <2>1
  <2> HIDE DEF U
  <2>4. Cardinality(1..m) <= Cardinality(U) /\ Cardinality(U) \in Nat
    BY <1>7, <2>2, <2>3
  <2>5. Cardinality(1..m) = m
    BY <1>3, Interval
  <2>6. 2 * Cardinality(U) >= n
    BY <1>1, <1>3, <2>4, <2>5
  <2>7. QED
    BY <2>6 DEF U
<1>9. 2 * Cardinality({k \in 1..n : d[k] >= s.median}) >= n
  <2> DEFINE U == {k \in 1..n : d[k] >= s.median}
  <2>1. \A j \in m..n : j \in 1..n /\ m <= j
    BY <1>1, <1>3
  <2>2. \A j \in m..n : p[j] \in U
    <3>1. ASSUME NEW j \in m..n PROVE p[j] \in U
      <4>1. d[p[m]] <= d[p[j]] /\ p[j] \in 1..n /\ d[p[m]] \in Int /\ d[p[j]] \in Int
        BY <1>1, <1>2, <1>3, <1>4, <2>1
      <4>2. QED
        BY <1>5, <4>1
    <3>2. QED
      BY <3>1
  <2>3. m..n \in SUBSET (1..n) /\ U \in SUBSET (1..n)
    BY <2>1
  <2> HIDE DEF U
  <2>4. Cardinality(m..n) <= Cardinality(U) /\ Cardinality(U) \in Nat
    BY <1>7, <2>2, <2>3
  <2>5. Cardinality(m..n) = n - m + 1
    <3>1. m \in Int /\ n \in Int /\ ~(m > n)
      BY <1>1, <1>3
    <3>2. QED
      BY <3>1, FS_Interval
  <2>6. 2 * Cardinality(U) >= n
    BY <1>1, <1>3, <2>4, <2>5
  <2>7. QED
    BY <2>6 DEF U
<1>10. QED
  BY <1>1, <1>6, <1>8, <1>9 DEF s

\* A report of send.rs is right for any number of attempts and all slots: it counts
\* every attempt, and its median splits the landings.
THEOREM SendReportIsRight == Spec => []ReportIsRight
<1>1. Inv => ReportIsRight
  <2> SUFFICES ASSUME Inv PROVE EveryAttemptCounted /\ MedianSplits
    BY DEF ReportIsRight
  <2>1. EveryAttemptCounted
    BY DEF Inv, Counted, Ended, EveryAttemptCounted
  <2>2. ASSUME tracker.landed > 0
        PROVE  tracker.slot_deltas \in Seq(Int) /\ Len(tracker.slot_deltas) >= 1
    <3>1. /\ tracker.slot_deltas \in Seq(Int) /\ tracker.landed \in Nat
          /\ Len(tracker.slot_deltas) = tracker.landed
      BY DEF Inv, Types, TypeOK, Counted
    <3>2. QED
      BY <2>2, <3>1
  <2>3. MedianSplits
    BY <2>2, SummarySplits DEF MedianSplits
  <2>4. QED
    BY <2>1, <2>3
<1>2. QED
  BY <1>1, InvAlways, PTL

-------------------------------------------------------------------------------
(* AttemptsBounded: how long an attempt may take.                             *)

\* When the attempt began, at the latest.
Base == First + i * AttemptBound

\* How late it may be at each place of the loop.
Paced ==
    /\ pc = "blockhash" => since <= Base
    /\ pc = "slot" => since <= Base + Timeout
    /\ pc \in {"send", "poll", "status", "sleep"} => started <= Base + 2 * Timeout
    /\ pc = "send" => since <= started
    /\ pc = "poll" => tip <= started + PollLimit + Timeout + Pause
    /\ pc = "status" => since <= started + PollLimit
    /\ pc = "sleep" => since <= started + PollLimit + Timeout
    /\ pc \in Requests => tip <= since + Timeout
    /\ pc = "sleep" => tip <= since + Pause
    /\ pc = "report" => tip <= Base

\* Times are numbers, and an attempt's limits are those of its parts.
LEMMA PaceTypes ==
    ASSUME Inv
    PROVE  /\ {tip, i, started, since, Timeout, PollLimit, Pause, AttemptBound, Base} \subseteq Nat
           /\ Timeout > 0 /\ AttemptBound = PollLimit + 3 * Timeout + Pause
           /\ First + (i + 1) * AttemptBound = Base + AttemptBound
<1>1. tip \in Nat /\ i \in Nat /\ started \in Nat /\ since \in Nat
  BY StateTypes DEF Inv, Types
<1>2. {Timeout, PollLimit, Pause, First} \subseteq Nat /\ Timeout > 0
  BY SendAssumption DEF First
<1>3. AttemptBound = PollLimit + 3 * Timeout + Pause /\ AttemptBound \in Nat
  BY <1>2 DEF AttemptBound
<1>4. PICK a \in Nat : a = AttemptBound
  BY <1>3
<1>5. i * a \in Nat /\ (i + 1) * a = i * a + a
  BY <1>1, <1>4
<1>6. Base \in Nat /\ First + (i + 1) * AttemptBound = Base + AttemptBound
  BY <1>2, <1>4, <1>5 DEF Base
<1>7. QED
  BY <1>1, <1>2, <1>3, <1>6

\* An attempt that ends leaves the next one, or the report, in time.
LEMMA NextPaced ==
    ASSUME Inv, NextAttempt, tip <= Base + AttemptBound, tip' = tip
    PROVE  Paced'
<1>1. i' = i + 1 /\ pc' \in {"blockhash", "report"} /\ since' = tip
  BY DEF NextAttempt, Go
<1>2. Base' = Base + AttemptBound
  BY <1>1, PaceTypes DEF Base, First, AttemptBound
<1>3. tip \in Nat /\ Timeout \in Nat
  BY PaceTypes
<1>4. QED
  BY <1>1, <1>2, <1>3 DEF Paced, Requests

\* Each step of the client keeps the pace, and the cluster's steps take no time.
LEMMA StepPaced ==
    ASSUME Inv, Paced, [Next]_vars
    PROVE  Paced'
<1>1. /\ {tip, i, started, since, Timeout, PollLimit, Pause, AttemptBound, Base} \subseteq Nat
      /\ Timeout > 0 /\ AttemptBound = PollLimit + 3 * Timeout + Pause
  BY PaceTypes
<1>2. ASSUME UNCHANGED <<tip, pc, i, started, since>> PROVE Paced'
  BY <1>2 DEF Paced, Base, First, AttemptBound
<1>3. i' = i => Base' = Base
  BY DEF Base, First, AttemptBound
<1>4. CASE GetBlockhash
  BY <1>1, <1>3, <1>4 DEF GetBlockhash, Go, Paced, Requests
<1>5. ASSUME NEW slot, GetSlot(slot) PROVE Paced'
  BY <1>1, <1>3, <1>5 DEF GetSlot, Go, Paced, Requests
<1>6. CASE SendAccepted
  BY <1>1, <1>3, <1>6 DEF SendAccepted, attempt, Go, Paced, Requests
<1>7. CASE SendRejected
  <2>1. tip <= Base + AttemptBound
    BY <1>1, <1>7 DEF SendRejected, Paced, Requests
  <2>2. QED
    BY <1>7, <2>1, NextPaced DEF SendRejected
<1>8. CASE AskStatus
  BY <1>1, <1>3, <1>8 DEF AskStatus, InTime, attempt, Go, Paced, Requests
<1>9. CASE StatusLanded
  <2>1. pc = "status" /\ NextAttempt /\ tip' = tip
    BY <1>9 DEF StatusLanded
  <2>2. tip <= Base + AttemptBound
    BY <1>1, <2>1 DEF Paced, Requests
  <2>3. QED
    BY <2>1, <2>2, NextPaced
<1>10. CASE StatusNone
  BY <1>1, <1>3, <1>10 DEF StatusNone, attempt, Go, Paced, Requests
<1>11. CASE Wake
  BY <1>1, <1>3, <1>11 DEF Wake, attempt, Go, Paced, Requests
<1>12. CASE GiveUp
  <2>1. tip <= Base + AttemptBound
    BY <1>1, <1>12 DEF GiveUp, Paced
  <2>2. QED
    BY <1>12, <2>1, NextPaced DEF GiveUp
<1>13. CASE RequestFails \/ Report
  BY <1>13 DEF RequestFails, Report, Go, Paced, Requests
<1>14. ASSUME NEW sig \in DOMAIN chain, Include(sig) \/ Abandon(sig) \/ Confirm(sig)
       PROVE  Paced'
  BY <1>2, <1>14 DEF Include, Abandon, Confirm, attempt
<1>15. CASE Take
  BY <1>2, <1>15 DEF Take, attempt
<1>16. CASE Tick
  BY <1>1, <1>3, <1>16 DEF Tick, Overdue, attempt, Paced, Requests
<1>17. CASE Done \/ UNCHANGED vars
  BY <1>2, <1>17 DEF Done, vars, attempt
<1>18. QED
  BY <1>4, <1>5, <1>6, <1>7, <1>8, <1>9, <1>10, <1>11, <1>12, <1>13, <1>14, <1>15, <1>16, <1>17
     DEF Next, Poll

\* For any number of transactions and all limits, and however late or missing the
\* node's answers are: an attempt takes no longer than the poll's limit, three
\* timeouts and a pause, so the whole run no longer than Count times that.
THEOREM SendAttemptsBounded == Spec => []AttemptsBounded
<1>1. Init => Paced
  <2> SUFFICES ASSUME Init PROVE Paced
    OBVIOUS
  <2>1. tip = First /\ since = tip /\ i = 0 /\ pc \in {"report", "blockhash"}
    BY DEF Init
  <2>2. First \in Nat /\ Timeout \in Nat
    BY SendAssumption DEF First
  <2>3. AttemptBound \in Nat
    BY SendAssumption DEF AttemptBound
  <2>4. Base = First
    BY <2>1, <2>2, <2>3 DEF Base
  <2>5. QED
    BY <2>1, <2>2, <2>4 DEF Paced, Requests
<1>2. Inv /\ Paced => AttemptsBounded
  <2> SUFFICES ASSUME Inv, Paced, ~Over
               PROVE  tip <= First + (IF pc = "report" THEN i ELSE i + 1) * AttemptBound
    BY DEF AttemptsBounded
  <2>1. /\ {tip, i, started, since, Timeout, PollLimit, Pause, AttemptBound, Base} \subseteq Nat
        /\ Timeout > 0 /\ AttemptBound = PollLimit + 3 * Timeout + Pause
        /\ First + (i + 1) * AttemptBound = Base + AttemptBound
    BY PaceTypes
  <2>2. CASE pc = "report"
    BY <2>2 DEF Paced, Base
  <2>3. CASE pc # "report"
    <3>1. pc \in {"blockhash", "slot", "send", "status", "poll", "sleep"}
      BY <2>3 DEF Over, Inv, Types, TypeOK, Requests
    <3>2. tip <= Base + AttemptBound
      BY <2>1, <3>1 DEF Paced, Requests
    <3>3. QED
      BY <2>1, <2>3, <3>2
  <2>4. QED
    BY <2>2, <2>3
<1>3. QED
  BY <1>1, <1>2, StepPaced, InvAlways, PTL DEF Spec

\* The clock of the model never stops a run: the horizon lies beyond its end.
THEOREM SendWithinHorizon == Spec => [](~Over => tip < Horizon)
<1>1. Inv /\ AttemptsBounded => (~Over => tip < Horizon)
  <2> SUFFICES ASSUME Inv, AttemptsBounded, ~Over PROVE tip < Horizon
    OBVIOUS
  <2>1. PICK k \in Nat : k = (IF pc = "report" THEN i ELSE i + 1) /\ k <= Count
    <3>1. i \in Nat /\ Count \in Nat /\ i <= Count /\ (pc # "report" => i < Count)
      BY StateTypes, ConstantTypes DEF Inv, Types, TypeOK, Counted, Ended, Over
    <3>2. QED
      BY <3>1
  <2>2. PICK a \in Nat : a = AttemptBound /\ a = PollLimit + 3 * Timeout + Pause
    BY SendAssumption DEF AttemptBound
  <2>3. tip <= First + k * a
    BY <2>1, <2>2 DEF AttemptsBounded
  <2>4. k * a <= Count * a /\ k * a \in Nat /\ Count * a \in Nat
    BY <2>1, <2>2, ConstantTypes, Monotone
  <2>5. Horizon > First + Count * a /\ First \in Nat /\ Horizon \in Nat /\ tip \in Nat
    BY <2>2, SendAssumption, ConstantTypes, StateTypes DEF Inv, Types
  <2>6. QED
    BY <2>3, <2>4, <2>5
<1>2. QED
  BY <1>1, InvAlways, SendAttemptsBounded, PTL
================================================================================
