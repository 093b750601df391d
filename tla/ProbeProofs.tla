------------------------------- MODULE ProbeProofs -------------------------------
(***************************************************************************)
(* Theorems about the probe's scheduler and its report, for every set of   *)
(* endpoints, every number of samples, cap and timeout, and whatever the   *)
(* endpoints answer.                                                       *)
(*                                                                         *)
(* The workers a scheduler has not joined are those of the last ticks, one *)
(* after the other, so the oldest one is found by counting back.  Time     *)
(* never passes a scheduler that could go on: whenever it can, one of the  *)
(* things it waited for has just happened.                                 *)
(*                                                                         *)
(* The report is a function of the samples, and the samples of an endpoint *)
(* are one for each tick it answered: the slots it trailed by and the      *)
(* slots it named add up to the leaders of those ticks, so of two          *)
(* endpoints that answered the same ticks the one that trails less named   *)
(* the higher slots.  A median counts the samples at or below it.          *)
(***************************************************************************)
EXTENDS ProbeResults, AlgorithmProofs, SequenceTheorems

\* The unjoined workers are those of the ticks before next, the oldest first.
Handles == \A e \in Endpoint :
    /\ Len(handles[e]) = IF joined[e] THEN 0
                         ELSE IF next[e] <= MaxInflight THEN next[e] ELSE MaxInflight
    /\ \A k \in 1..Len(handles[e]) : handles[e][k] = next[e] - Len(handles[e]) + (k - 1)
    /\ joined[e] => next[e] = Samples

\* The requests that were sent are those before next; one that has not ended is
\* among the unjoined.
Workers == \A e \in Endpoint, i \in Ticks :
    /\ worker[e][i] = "unborn" <=> i >= next[e]
    /\ i < next[e] => sentAt[e][i] \in Nat /\ sentAt[e][i] <= now
    /\ Ended(e, i) => doneAt[e][i] \in Nat /\ doneAt[e][i] <= now
    /\ i < next[e] - Len(handles[e]) => Ended(e, i)

\* The samples and the errors are the workers that have ended, each of them once.
Answered(e) == {i \in Ticks : worker[e][i] = "ok"}
Failed(e)  == {i \in Ticks : worker[e][i] = "error"}

Accounts == \A e \in Endpoint :
    /\ \A k \in 1..Len(ok[e]) : ok[e][k].tick \in Answered(e)
    /\ \A j, k \in 1..Len(ok[e]) : ok[e][j].tick = ok[e][k].tick => j = k
    /\ Len(ok[e]) = Cardinality(Answered(e))
    /\ errors[e] = Cardinality(Failed(e))

\* What the request of tick i waits for.
Due(e, i) == {i} \cup (IF i = 0 THEN {} ELSE {sentAt[e][i - 1]})
                 \cup (IF i < MaxInflight THEN {} ELSE {doneAt[e][i - MaxInflight]})

Punctual ==
    /\ \A e \in Endpoint, i \in Ticks : worker[e][i] # "unborn" =>
         sentAt[e][i] \in Due(e, i) /\ \A x \in Due(e, i) : x <= sentAt[e][i]
    /\ \A e \in Endpoint : CanIssue(e) => now \in Due(e, next[e])

Inv == TypeOK /\ Handles /\ Workers /\ Accounts /\ Punctual

-------------------------------------------------------------------------------
(* What each action changes.                                                 *)

\* Ticks are numbers, and a cap of one at least.
LEMMA ConstantTypes ==
    /\ Samples \in Nat /\ Samples > 0 /\ MaxInflight \in Nat /\ MaxInflight > 0
    /\ Ticks \subseteq Nat
BY ProbeAssumption DEF Ticks

\* The schedule moves on by one tick, whose request is sent now.
LEMMA IssueFacts ==
    ASSUME TypeOK, NEW e \in Endpoint, Issue(e)
    PROVE  /\ next[e] \in Ticks /\ next'[e] = next[e] + 1 /\ now >= next[e]
           /\ worker'[e][next[e]] = "sent" /\ sentAt'[e][next[e]] = now
           /\ \A i \in Ticks : i # next[e] =>
                worker'[e][i] = worker[e][i] /\ sentAt'[e][i] = sentAt[e][i]
           /\ \A f \in Endpoint : f # e =>
                /\ next'[f] = next[f] /\ handles'[f] = handles[f]
                /\ worker'[f] = worker[f] /\ sentAt'[f] = sentAt[f]
           /\ handles'[e] = Append(IF Full(e) THEN Tail(handles[e]) ELSE handles[e], next[e])
           /\ UNCHANGED <<now, ok, errors, joined, doneAt>>
<1>1. /\ next[e] \in 0..Samples /\ next[e] < Samples /\ now >= next[e]
      /\ Samples \in Nat
  BY ConstantTypes DEF Issue, CanIssue, TypeOK
<1>2. next[e] \in Ticks
  BY <1>1 DEF Ticks
<1>3. next' = [next EXCEPT ![e] = next[e] + 1] /\ next \in [Endpoint -> 0..Samples]
  BY DEF Issue, TypeOK
<1>4. /\ worker' = [worker EXCEPT ![e][next[e]] = "sent"]
      /\ sentAt' = [sentAt EXCEPT ![e][next[e]] = now]
      /\ worker \in [Endpoint -> [Ticks -> {"unborn", "sent", "ok", "error"}]]
      /\ sentAt \in [Endpoint -> [Ticks -> Nat \cup {None}]]
  BY DEF Issue, TypeOK
<1>5. /\ handles' = [handles EXCEPT ![e] =
           Append(IF Full(e) THEN Tail(handles[e]) ELSE handles[e], next[e])]
      /\ handles \in [Endpoint -> Seq(Ticks)]
  BY DEF Issue, TypeOK
<1>6. UNCHANGED <<now, ok, errors, joined, doneAt>>
  BY DEF Issue, recorded
<1>7. QED
  BY <1>1, <1>2, <1>3, <1>4, <1>5, <1>6

\* The list of unjoined workers keeps its length at the cap and grows below it.
LEMMA IssueHandles ==
    ASSUME TypeOK, Handles, NEW e \in Endpoint, Issue(e)
    PROVE  /\ handles'[e] \in Seq(Ticks)
           /\ Len(handles'[e]) = IF Full(e) THEN Len(handles[e]) ELSE Len(handles[e]) + 1
           /\ \A k \in 1..Len(handles'[e]) :
                handles'[e][k] = next'[e] - Len(handles'[e]) + (k - 1)
<1> DEFINE h == handles[e]
           n == next[e]
<1>1. /\ h \in Seq(Ticks) /\ Len(h) \in Nat /\ n \in Ticks /\ n \in Nat
      /\ next'[e] = n + 1
      /\ handles'[e] = Append(IF Full(e) THEN Tail(h) ELSE h, n)
      /\ \A k \in 1..Len(h) : h[k] = n - Len(h) + (k - 1)
      /\ Full(e) => Len(h) >= MaxInflight
  <2>1. h \in Seq(Ticks)
    BY DEF TypeOK
  <2>2. \A k \in 1..Len(h) : h[k] = n - Len(h) + (k - 1)
    BY DEF Handles
  <2>3. /\ n \in Ticks /\ next'[e] = n + 1
        /\ handles'[e] = Append(IF Full(e) THEN Tail(h) ELSE h, n)
    BY IssueFacts
  <2> HIDE DEF h, n
  <2>4. n \in Nat
    BY <2>3, ConstantTypes
  <2>41. Len(h) \in Nat
    BY <2>1
  <2> USE DEF h
  <2>5. Full(e) => Len(h) >= MaxInflight
    BY DEF Full
  <2> HIDE DEF h
  <2>6. QED
    BY <2>1, <2>2, <2>3, <2>4, <2>41, <2>5
<1> HIDE DEF h, n
<1>11. n \in Nat /\ Len(h) \in Nat
  BY <1>1
<1>2. CASE Full(e)
  <2>1. Len(h) > 0 /\ h # <<>>
    BY <1>1, <1>2, ConstantTypes
  <2>2. /\ Tail(h) \in Seq(Ticks) /\ Len(Tail(h)) = Len(h) - 1
        /\ \A k \in 1..(Len(h) - 1) : Tail(h)[k] = h[k + 1]
    BY <1>1, <2>1
  <2>3. /\ handles'[e] \in Seq(Ticks) /\ Len(handles'[e]) = Len(h)
        /\ \A k \in 1..(Len(h) - 1) : handles'[e][k] = h[k + 1]
        /\ handles'[e][Len(h)] = n
    BY <1>1, <1>2, <2>1, <2>2
  <2>4. \A k \in 1..(Len(h) - 1) : handles'[e][k] = n - Len(h) + k
    BY <1>1, <2>3
  <2>5. \A k \in 1..Len(h) : handles'[e][k] = n + 1 - Len(h) + (k - 1)
    BY <1>1, <2>3, <2>4
  <2>6. ASSUME NEW k \in 1..Len(handles'[e])
        PROVE  handles'[e][k] = next'[e] - Len(handles'[e]) + (k - 1)
    <3>1. Len(handles'[e]) = Len(h) /\ next'[e] = n + 1
      BY <1>1, <2>3
    <3>2. handles'[e][k] = n + 1 - Len(h) + (k - 1)
      BY <2>5, <3>1
    <3>3. QED
      BY <1>11, <3>1, <3>2
  <2>7. QED
    BY <1>2, <2>3, <2>6 DEF h
<1>3. CASE ~Full(e)
  <2>1. /\ handles'[e] \in Seq(Ticks) /\ Len(handles'[e]) = Len(h) + 1
        /\ \A k \in 1..Len(h) : handles'[e][k] = h[k]
        /\ handles'[e][Len(h) + 1] = n
    BY <1>1, <1>3
  <2>2. \A k \in 1..(Len(h) + 1) : handles'[e][k] = n + 1 - (Len(h) + 1) + (k - 1)
    BY <1>1, <2>1
  <2>3. ASSUME NEW k \in 1..Len(handles'[e])
        PROVE  handles'[e][k] = next'[e] - Len(handles'[e]) + (k - 1)
    <3>1. Len(handles'[e]) = Len(h) + 1 /\ next'[e] = n + 1
      BY <1>1, <2>1
    <3>2. handles'[e][k] = n + 1 - (Len(h) + 1) + (k - 1)
      BY <2>2, <3>1
    <3>3. QED
      BY <1>11, <3>1, <3>2
  <2>4. QED
    BY <1>3, <2>1, <2>3 DEF h
<1>4. QED
  BY <1>2, <1>3

\* A worker ends: with a sample or with an error.
LEMMA EndFacts ==
    ASSUME TypeOK, NEW e \in Endpoint, NEW i \in Ticks,
           RequestFails(e, i) \/ \E s \in Slot : Reply(e, i, s)
    PROVE  /\ worker[e][i] = "sent" /\ Ended(e, i)' /\ doneAt'[e][i] = now
           /\ \A j \in Ticks : j # i =>
                worker'[e][j] = worker[e][j] /\ doneAt'[e][j] = doneAt[e][j]
           /\ \A f \in Endpoint : f # e =>
                /\ worker'[f] = worker[f] /\ doneAt'[f] = doneAt[f]
                /\ ok'[f] = ok[f] /\ errors'[f] = errors[f]
           /\ UNCHANGED <<now, next, handles, joined, sentAt>>
<1>1. /\ worker \in [Endpoint -> [Ticks -> {"unborn", "sent", "ok", "error"}]]
      /\ doneAt \in [Endpoint -> [Ticks -> Nat \cup {None}]]
      /\ ok \in [Endpoint -> Seq(Sample)] /\ errors \in [Endpoint -> Nat]
  BY DEF TypeOK
<1>2. CASE RequestFails(e, i)
  BY <1>1, <1>2 DEF RequestFails, Outstanding, Ended
<1>3. ASSUME NEW s \in Slot, Reply(e, i, s)
      PROVE  /\ worker[e][i] = "sent" /\ Ended(e, i)' /\ doneAt'[e][i] = now
             /\ \A j \in Ticks : j # i =>
                  worker'[e][j] = worker[e][j] /\ doneAt'[e][j] = doneAt[e][j]
             /\ \A f \in Endpoint : f # e =>
                  /\ worker'[f] = worker[f] /\ doneAt'[f] = doneAt[f]
                  /\ ok'[f] = ok[f] /\ errors'[f] = errors[f]
             /\ UNCHANGED <<now, next, handles, joined, sentAt>>
  BY <1>1, <1>3 DEF Reply, Outstanding, Ended
<1>4. QED
  BY <1>2, <1>3

\* A reply adds a sample of its tick; the latency is a duration.
LEMMA ReplyFacts ==
    ASSUME Inv, NEW e \in Endpoint, NEW i \in Ticks, NEW s \in Slot, Reply(e, i, s)
    PROVE  /\ [tick |-> i, slot |-> s, latency |-> now - sentAt[e][i]] \in Sample
           /\ ok'[e] = Append(ok[e], [tick |-> i, slot |-> s,
                                      latency |-> now - sentAt[e][i]])
           /\ worker'[e][i] = "ok" /\ errors' = errors
<1>1. worker[e][i] = "sent" /\ TypeOK /\ Workers
  BY DEF Reply, Outstanding, Inv
<1>2. i < next[e]
  BY <1>1, ConstantTypes DEF Workers, TypeOK
<1>3. sentAt[e][i] \in Nat /\ sentAt[e][i] <= now /\ now \in Nat
  BY <1>1, <1>2 DEF Workers, TypeOK
<1>4. now - sentAt[e][i] \in Nat
  BY <1>3
<1>5. QED
  BY <1>1, <1>4 DEF Reply, TypeOK, Sample

-------------------------------------------------------------------------------
(* Each action keeps the invariant's parts.                                  *)

\* Issuing a tick keeps the types.
LEMMA IssueType ==
    ASSUME TypeOK, Handles, NEW e \in Endpoint, Issue(e)
    PROVE  TypeOK'
<1>1. handles' \in [Endpoint -> Seq(Ticks)]
  BY IssueHandles DEF Issue, TypeOK
<1>2. next'[e] \in 0..Samples
  BY IssueFacts, ConstantTypes DEF Ticks
<1>3. next' \in [Endpoint -> 0..Samples]
  BY <1>2 DEF Issue, TypeOK
<1>4. worker' \in [Endpoint -> [Ticks -> {"unborn", "sent", "ok", "error"}]]
  BY DEF Issue, TypeOK
<1>5. sentAt' \in [Endpoint -> [Ticks -> Nat \cup {None}]]
  BY DEF Issue, TypeOK
<1>6. QED
  BY <1>1, <1>3, <1>4, <1>5 DEF Issue, TypeOK, recorded

\* A worker's end keeps the types.
LEMMA EndType ==
    ASSUME Inv, NEW e \in Endpoint, NEW i \in Ticks,
           RequestFails(e, i) \/ \E s \in Slot : Reply(e, i, s)
    PROVE  TypeOK'
<1>1. TypeOK
  BY DEF Inv
<1>2. CASE RequestFails(e, i)
  <2>1. worker' \in [Endpoint -> [Ticks -> {"unborn", "sent", "ok", "error"}]]
    BY <1>1, <1>2 DEF RequestFails, TypeOK
  <2>2. doneAt' \in [Endpoint -> [Ticks -> Nat \cup {None}]]
    BY <1>1, <1>2 DEF RequestFails, TypeOK
  <2>3. errors' \in [Endpoint -> Nat]
    BY <1>1, <1>2 DEF RequestFails, TypeOK
  <2>4. QED
    BY <1>1, <1>2, <2>1, <2>2, <2>3 DEF RequestFails, TypeOK
<1>3. ASSUME NEW s \in Slot, Reply(e, i, s)
      PROVE  TypeOK'
  <2>1. worker' \in [Endpoint -> [Ticks -> {"unborn", "sent", "ok", "error"}]]
    BY <1>1, <1>3 DEF Reply, TypeOK
  <2>2. doneAt' \in [Endpoint -> [Ticks -> Nat \cup {None}]]
    BY <1>1, <1>3 DEF Reply, TypeOK
  <2>3. ok' \in [Endpoint -> Seq(Sample)]
    <3>1. [tick |-> i, slot |-> s, latency |-> now - sentAt[e][i]] \in Sample
      BY <1>3, ReplyFacts
    <3>2. ok[e] \in Seq(Sample) /\ ok \in [Endpoint -> Seq(Sample)]
      BY <1>1 DEF TypeOK
    <3>3. Append(ok[e], [tick |-> i, slot |-> s, latency |-> now - sentAt[e][i]])
            \in Seq(Sample)
      BY <3>1, <3>2
    <3>4. ok' = [ok EXCEPT ![e] = Append(ok[e], [tick |-> i, slot |-> s,
                                                 latency |-> now - sentAt[e][i]])]
      BY <1>3 DEF Reply
    <3>5. QED
      BY <3>2, <3>3, <3>4
  <2>4. QED
    BY <1>1, <1>3, <2>1, <2>2, <2>3 DEF Reply, TypeOK
<1>4. QED
  BY <1>2, <1>3

\* A tick is issued: it is due, and what it waited for has just happened.
LEMMA IssueInv ==
    ASSUME Inv, NEW e \in Endpoint, Issue(e)
    PROVE  Inv'
<1> PICK n \in Ticks : n = next[e]
  BY IssueFacts DEF Inv
<1>1. TypeOK /\ Handles /\ Workers /\ Accounts /\ Punctual /\ n \in Nat /\ now \in Nat
  BY ConstantTypes DEF Inv, TypeOK
<1>2. /\ next'[e] = n + 1 /\ now >= n
      /\ worker'[e][n] = "sent" /\ sentAt'[e][n] = now
      /\ \A i \in Ticks : i # n =>
           worker'[e][i] = worker[e][i] /\ sentAt'[e][i] = sentAt[e][i]
      /\ \A f \in Endpoint : f # e =>
           /\ next'[f] = next[f] /\ handles'[f] = handles[f]
           /\ worker'[f] = worker[f] /\ sentAt'[f] = sentAt[f]
      /\ UNCHANGED <<now, ok, errors, joined, doneAt>>
  BY <1>1, IssueFacts
<1>3. /\ Len(handles'[e]) = IF Full(e) THEN Len(handles[e]) ELSE Len(handles[e]) + 1
      /\ \A k \in 1..Len(handles'[e]) :
           handles'[e][k] = next'[e] - Len(handles'[e]) + (k - 1)
  BY <1>1, IssueHandles
<1>4. ~joined[e]
  <2>1. n # Samples
    BY <1>1, IssueFacts, ConstantTypes DEF Issue, CanIssue
  <2>2. QED
    BY <1>1, <2>1 DEF Handles
<1>5. /\ Len(handles[e]) = IF n <= MaxInflight THEN n ELSE MaxInflight
      /\ Full(e) <=> n >= MaxInflight
      /\ Len(handles'[e]) = IF n + 1 <= MaxInflight THEN n + 1 ELSE MaxInflight
  BY <1>1, <1>3, <1>4, ConstantTypes DEF Handles, Full
<1>10. TypeOK'
  BY <1>1, IssueType
<1>51. PICK l, m \in Nat : l = Len(handles[e]) /\ m = Len(handles'[e])
  BY <1>1, <1>5, ConstantTypes
<1>6. Handles'
  <2>1. \A f \in Endpoint : f # e =>
          /\ handles'[f] = handles[f] /\ next'[f] = next[f] /\ joined'[f] = joined[f]
    BY <1>2
  <2>2. joined'[e] = joined[e]
    BY <1>2
  <2> SUFFICES ASSUME NEW f \in Endpoint
               PROVE  /\ Len(handles'[f]) = IF joined'[f] THEN 0
                         ELSE IF next'[f] <= MaxInflight THEN next'[f] ELSE MaxInflight
                      /\ \A k \in 1..Len(handles'[f]) :
                           handles'[f][k] = next'[f] - Len(handles'[f]) + (k - 1)
                      /\ joined'[f] => next'[f] = Samples
    BY DEF Handles
  <2>3. CASE f # e
    BY <1>1, <2>1, <2>3 DEF Handles
  <2>4. CASE f = e
    BY <1>2, <1>3, <1>4, <1>5, <2>2, <2>4
  <2>5. QED
    BY <2>3, <2>4
<1>7. worker[e][n] = "unborn"
  BY <1>1 DEF Workers
<1>8. n - Len(handles[e]) \in Nat
  BY <1>1, <1>5, ConstantTypes
<1>9. Full(e) => n - MaxInflight \in Ticks /\ Ended(e, n - MaxInflight)
                 /\ Head(handles[e]) = n - MaxInflight
  <2> SUFFICES ASSUME Full(e)
               PROVE  n - MaxInflight \in Ticks /\ Ended(e, n - MaxInflight)
                      /\ Head(handles[e]) = n - MaxInflight
    OBVIOUS
  <2>1. Len(handles[e]) = MaxInflight /\ n >= MaxInflight
    BY <1>1, <1>5, ConstantTypes
  <2>2. handles[e] \in Seq(Ticks) /\ handles[e] # <<>> /\ 1 \in 1..Len(handles[e])
    BY <1>1, <2>1, ConstantTypes DEF TypeOK
  <2>3. Head(handles[e]) = handles[e][1]
    BY <2>2
  <2>4. handles[e][1] = n - MaxInflight
    BY <1>1, <2>1, <2>2, ConstantTypes DEF Handles
  <2>5. n - MaxInflight \in Ticks
    BY <1>1, <2>1, ConstantTypes DEF Ticks
  <2>6. Ended(e, Head(handles[e]))
    BY DEF Issue, CanIssue
  <2>7. QED
    BY <2>3, <2>4, <2>5, <2>6
<1>11. Workers'
  <2> SUFFICES ASSUME NEW f \in Endpoint, NEW i \in Ticks
               PROVE  /\ worker'[f][i] = "unborn" <=> i >= next'[f]
                      /\ i < next'[f] => sentAt'[f][i] \in Nat /\ sentAt'[f][i] <= now'
                      /\ Ended(f, i)' => doneAt'[f][i] \in Nat /\ doneAt'[f][i] <= now'
                      /\ i < next'[f] - Len(handles'[f]) => Ended(f, i)'
    BY DEF Workers
  <2>1. i \in Nat
    BY ConstantTypes
  <2>2. CASE f # e
    BY <1>1, <1>2, <2>2 DEF Workers, Ended
  <2>3. CASE f = e /\ i = n
    <3>1. ~Ended(f, i)'
      BY <1>2, <2>3 DEF Ended
    <3>2. ~(i < next'[f] - Len(handles'[f]))
      BY <1>1, <1>2, <1>5, <2>3, ConstantTypes
    <3>3. i < next'[f] /\ worker'[f][i] # "unborn" /\ sentAt'[f][i] = now /\ now' = now
      BY <1>1, <1>2, <2>3
    <3>4. now \in Nat /\ next'[f] \in Nat
      BY <1>10, ConstantTypes DEF TypeOK, Inv
    <3>5. ~(i >= next'[f])
      BY <2>1, <3>3, <3>4
    <3>6. now <= now
      BY <3>4
    <3>7. QED
      BY <3>1, <3>2, <3>3, <3>4, <3>5, <3>6
  <2>4. ASSUME i # n
        PROVE  /\ worker'[e][i] = "unborn" <=> i >= next'[e]
               /\ i < next'[e] => sentAt'[e][i] \in Nat /\ sentAt'[e][i] <= now'
               /\ Ended(e, i)' => doneAt'[e][i] \in Nat /\ doneAt'[e][i] <= now'
               /\ i < next'[e] - Len(handles'[e]) => Ended(e, i)'
    <3>1. worker'[e][i] = worker[e][i] /\ sentAt'[e][i] = sentAt[e][i]
      BY <1>2, <2>4
    <3>2. (i >= n + 1 <=> i >= n) /\ (i < n + 1 <=> i < n)
      BY <1>1, <2>1, <2>4
    <3>3. Ended(e, i)' <=> Ended(e, i)
      BY <3>1 DEF Ended
    <3>4. /\ worker[e][i] = "unborn" <=> i >= n
          /\ i < n => sentAt[e][i] \in Nat /\ sentAt[e][i] <= now
          /\ Ended(e, i) => doneAt[e][i] \in Nat /\ doneAt[e][i] <= now
          /\ i < n - l => Ended(e, i)
      BY <1>1, <1>51 DEF Workers
    <3>5. i < n + 1 - m => i < n - l \/ (n >= MaxInflight /\ i = n - MaxInflight)
      <4>1. MaxInflight \in Nat /\ n \in Nat /\ i \in Nat
        BY <1>1, <2>1, ConstantTypes
      <4>2. CASE n < MaxInflight
        <5>1. m = n + 1
          BY <1>5, <1>51, <4>1, <4>2
        <5>2. QED
          BY <4>1, <5>1
      <4>3. CASE n >= MaxInflight
        <5>1. m = MaxInflight /\ l = MaxInflight
          BY <1>5, <1>51, <4>1, <4>3
        <5>2. QED
          BY <4>1, <4>3, <5>1
      <4>4. QED
        BY <4>1, <4>2, <4>3
    <3>6. i < n + 1 - m => Ended(e, i)
      BY <1>5, <1>9, <3>4, <3>5
    <3>7. next'[e] - Len(handles'[e]) = n + 1 - m
      <4>1. next'[e] = n + 1
        BY <1>2
      <4>2. n \in Nat
        BY <1>1
      <4>3. QED
        BY <1>51, <4>1, <4>2
    <3>8. next'[e] = n + 1 /\ doneAt' = doneAt /\ now' = now
      BY <1>2
    <3>9. worker'[e][i] = "unborn" <=> i >= next'[e]
      BY <3>1, <3>2, <3>4, <3>8
    <3>10. i < next'[e] => sentAt'[e][i] \in Nat /\ sentAt'[e][i] <= now'
      BY <3>1, <3>2, <3>4, <3>8
    <3>11. Ended(e, i)' => doneAt'[e][i] \in Nat /\ doneAt'[e][i] <= now'
      BY <3>3, <3>4, <3>8
    <3>12. i < next'[e] - Len(handles'[e]) => Ended(e, i)'
      BY <3>3, <3>6, <3>7
    <3>13. QED
      BY <3>9, <3>10, <3>11, <3>12
  <2>5. QED
    BY <2>2, <2>3, <2>4
<1>12. Accounts'
  <2>1. \A f \in Endpoint : Answered(f)' = Answered(f) /\ Failed(f)' = Failed(f)
    BY <1>2, <1>7 DEF Answered, Failed
  <2>2. QED
    BY <1>1, <1>2, <2>1 DEF Accounts
<1>13. Punctual'
  <2>1. ASSUME NEW f \in Endpoint, NEW i \in Ticks, worker'[f][i] # "unborn"
        PROVE  sentAt'[f][i] \in Due(f, i)' /\ \A x \in Due(f, i)' : x <= sentAt'[f][i]
    <3>1. CASE f # e
      <4>1. Due(f, i)' = Due(f, i) /\ worker[f][i] # "unborn" /\ sentAt'[f][i] = sentAt[f][i]
        BY <1>2, <2>1, <3>1 DEF Due
      <4>2. QED
        BY <1>1, <4>1 DEF Punctual
    <3>2. CASE f = e /\ i # n
      <4>1. worker[e][i] # "unborn" /\ sentAt'[e][i] = sentAt[e][i]
        BY <1>2, <2>1, <3>2
      <4>2. i < n /\ i \in Nat
        <5>1. i \in Nat /\ ~(i >= n)
          BY <1>1, <4>1, ConstantTypes DEF Workers
        <5>2. QED
          BY <1>1, <5>1
      <4>3. i # 0 => i - 1 \in Ticks /\ i - 1 # n
        BY <1>1, <4>2, ConstantTypes DEF Ticks
      <4>4. Due(e, i)' = Due(e, i)
        BY <1>2, <4>3 DEF Due
      <4>5. QED
        BY <1>1, <3>2, <4>1, <4>4 DEF Punctual
    <3>3. CASE f = e /\ i = n
      <4>1. n # 0 => /\ n - 1 \in Ticks /\ n - 1 # n
                     /\ sentAt[e][n - 1] \in Nat /\ sentAt[e][n - 1] <= now
        <5>1. n # 0 => n - 1 \in Ticks /\ n - 1 < n /\ n - 1 # n
          BY <1>1, ConstantTypes DEF Ticks
        <5>2. QED
          BY <1>1, <5>1 DEF Workers
      <4>2. Due(e, n)' = Due(e, n)
        BY <1>2, <4>1 DEF Due
      <4>3. now \in Due(e, n)
        BY <1>1 DEF Punctual, Issue
      <4>4. n >= MaxInflight => doneAt[e][n - MaxInflight] <= now
        BY <1>1, <1>5, <1>9 DEF Workers
      <4>5. \A x \in Due(e, n) : x <= now
        <5>1. n < MaxInflight \/ n >= MaxInflight
          BY <1>1, ConstantTypes
        <5>2. n <= now
          BY <1>1, <1>2
        <5>3. QED
          BY <4>1, <4>4, <5>1, <5>2 DEF Due
      <4>6. QED
        BY <1>2, <3>3, <4>2, <4>3, <4>5
    <3>4. QED
      BY <3>1, <3>2, <3>3
  <2>2. ASSUME NEW f \in Endpoint, CanIssue(f)'
        PROVE  now' \in Due(f, next[f])'
    <3>1. CASE f # e
      <4>1. CanIssue(f)
        BY <1>2, <2>2, <3>1 DEF CanIssue, Full, Ended
      <4>2. Due(f, next[f])' = Due(f, next[f])
        BY <1>2, <3>1 DEF Due
      <4>3. QED
        BY <1>1, <1>2, <4>1, <4>2 DEF Punctual
    <3>2. CASE f = e
      <4>1. n + 1 # 0 /\ (n + 1) - 1 = n
        BY <1>1
      <4>2. sentAt'[e][next'[e] - 1] = now /\ next'[e] # 0
        BY <1>2, <4>1
      <4>3. QED
        BY <1>2, <3>2, <4>2 DEF Due
    <3>3. QED
      BY <3>1, <3>2
  <2>3. QED
    BY <2>1, <2>2 DEF Punctual
<1>14. QED
  BY <1>6, <1>10, <1>11, <1>12, <1>13 DEF Inv

\* A worker ends: its tick is accounted for, and what waited for it may go on.
LEMMA EndPunctual ==
    ASSUME Inv, NEW e \in Endpoint, NEW i \in Ticks,
           RequestFails(e, i) \/ \E s \in Slot : Reply(e, i, s)
    PROVE  Handles' /\ Workers' /\ Punctual'
<1>1. /\ TypeOK /\ Handles /\ Workers /\ Punctual /\ now \in Nat
      /\ worker[e][i] = "sent" /\ Ended(e, i)' /\ doneAt'[e][i] = now
      /\ \A j \in Ticks : j # i =>
           worker'[e][j] = worker[e][j] /\ doneAt'[e][j] = doneAt[e][j]
      /\ \A f \in Endpoint : f # e => worker'[f] = worker[f] /\ doneAt'[f] = doneAt[f]
      /\ UNCHANGED <<now, next, handles, joined, sentAt>>
  BY EndFacts DEF Inv, TypeOK
<1>2. worker'[e][i] \in {"ok", "error"}
  BY <1>1 DEF Ended
<1>3. \A f \in Endpoint, j \in Ticks :
        /\ worker'[f][j] = "unborn" <=> worker[f][j] = "unborn"
        /\ Ended(f, j)' <=> Ended(f, j) \/ (f = e /\ j = i)
  BY <1>1, <1>2 DEF Ended
<1>4. \A f \in Endpoint, j \in Ticks :
        doneAt'[f][j] = IF f = e /\ j = i THEN now ELSE doneAt[f][j]
  BY <1>1
<1>5. Handles'
  BY <1>1 DEF Handles
<1>6. Workers'
  BY <1>1, <1>3, <1>4 DEF Workers
\* The worker that ends is not one whose end a request was waiting for before.
<1>7. ASSUME NEW f \in Endpoint, NEW j \in Ticks, worker[f][j] # "unborn"
      PROVE  Due(f, j)' = Due(f, j)
  <2>1. j \in Nat /\ MaxInflight \in Nat /\ MaxInflight > 0 /\ j < next[f]
    <3>1. j \in Nat /\ MaxInflight \in Nat /\ MaxInflight > 0 /\ next[f] \in 0..Samples
          /\ ~(j >= next[f])
      BY <1>1, <1>7, ConstantTypes DEF Workers, TypeOK
    <3>2. QED
      BY <3>1, ConstantTypes
  <2>2. CASE j < MaxInflight
    BY <1>1, <2>2 DEF Due
  <2>3. CASE ~(j < MaxInflight)
    <3>1. PICK d \in Ticks : d = j - MaxInflight
      BY <2>1, <2>3, ConstantTypes DEF Ticks
    <3>2. d < next[f] - Len(handles[f])
      <4>1. PICK n \in Nat : n = next[f]
        BY <1>1, ConstantTypes DEF TypeOK
      <4>2. PICK h \in Nat : h = Len(handles[f]) /\ h <= MaxInflight
        BY <1>1, <2>1, <4>1 DEF Handles
      <4>3. d < n - h
        BY <2>1, <3>1, <4>1, <4>2
      <4>4. QED
        BY <4>1, <4>2, <4>3
    <3>3. Ended(f, d)
      BY <1>1, <3>2 DEF Workers
    <3>4. ~(f = e /\ d = i)
      BY <1>1, <3>3 DEF Ended
    <3>5. doneAt'[f][d] = doneAt[f][d]
      BY <1>4, <3>4
    <3>6. QED
      BY <1>1, <3>1, <3>5 DEF Due
  <2>4. QED
    BY <2>2, <2>3
<1>8. \A f \in Endpoint, j \in Ticks : worker'[f][j] # "unborn" =>
        sentAt'[f][j] \in Due(f, j)' /\ \A x \in Due(f, j)' : x <= sentAt'[f][j]
  BY <1>1, <1>3, <1>7 DEF Punctual
<1>9. ASSUME NEW f \in Endpoint, CanIssue(f)'
      PROVE  now' \in Due(f, next[f])'
  <2>1. PICK n \in Ticks : n = next[f]
    BY <1>1, <1>9, ConstantTypes DEF CanIssue, TypeOK, Ticks
  <2>2. CASE Full(f) /\ f = e /\ Head(handles[f]) = i
    <3>1. /\ ~joined[f] /\ n >= MaxInflight /\ Len(handles[f]) = MaxInflight
          /\ n \in Nat /\ MaxInflight \in Nat /\ MaxInflight > 0
      <4>1. /\ Len(handles[f]) = IF joined[f] THEN 0
                                 ELSE IF n <= MaxInflight THEN n ELSE MaxInflight
            /\ Len(handles[f]) >= MaxInflight
        BY <1>1, <2>1, <2>2 DEF Handles, Full
      <4>2. QED
        BY <2>1, <4>1, ConstantTypes
    <3>2. handles[f] \in Seq(Ticks) /\ handles[f] # <<>> /\ 1 \in 1..Len(handles[f])
      BY <1>1, <3>1, ConstantTypes DEF TypeOK
    <3>3. Head(handles[f]) = handles[f][1]
      BY <3>2
    <3>4. handles[f][1] = n - MaxInflight
      <4>1. handles[f][1] = next[f] - Len(handles[f]) + (1 - 1)
        BY <1>1, <3>2 DEF Handles
      <4>2. QED
        BY <2>1, <3>1, <4>1
    <3>5. ~(n < MaxInflight) /\ doneAt'[f][n - MaxInflight] = now
      BY <1>1, <2>2, <3>1, <3>3, <3>4
    <3>6. now' \in Due(f, n)'
      BY <1>1, <3>5 DEF Due
    <3>7. QED
      BY <1>1, <2>1, <3>6
  <2>3. CASE ~(Full(f) /\ f = e /\ Head(handles[f]) = i)
    <3>1. CanIssue(f)
      <4>1. next[f] < Samples /\ now >= next[f] /\ (Full(f) => Ended(f, Head(handles[f]))')
        BY <1>1, <1>9 DEF CanIssue, Full
      <4>2. ASSUME Full(f) PROVE Head(handles[f]) \in Ticks
        <5>1. handles[f] \in Seq(Ticks) /\ handles[f] # <<>>
          BY <1>1, <4>2, ConstantTypes DEF Full, TypeOK
        <5>2. QED
          BY <5>1
      <4>3. ASSUME Full(f) PROVE Ended(f, Head(handles[f]))
        <5>1. PICK d \in Ticks : d = Head(handles[f])
          BY <4>2, <4>3
        <5>2. Ended(f, d)'
          BY <1>1, <4>1, <4>3, <5>1 DEF Ended
        <5>3. QED
          BY <1>3, <2>3, <4>3, <5>1, <5>2
      <4>4. QED
        BY <4>1, <4>3 DEF CanIssue
    <3>2. now \in Due(f, n)
      BY <1>1, <2>1, <3>1 DEF Punctual
    <3>3. ASSUME ~(n < MaxInflight) PROVE doneAt'[f][n - MaxInflight] = doneAt[f][n - MaxInflight]
                                          \/ doneAt'[f][n - MaxInflight] = now
      <4>1. PICK d \in Ticks : d = n - MaxInflight
        BY <2>1, <3>3, ConstantTypes DEF Ticks
      <4>2. QED
        BY <1>4, <4>1
    <3>4. now' \in Due(f, n)'
      BY <1>1, <3>2, <3>3 DEF Due
    <3>5. QED
      BY <1>1, <2>1, <3>4
  <2>4. QED
    BY <2>2, <2>3
<1>10. QED
  BY <1>5, <1>6, <1>8, <1>9 DEF Punctual

\* The samples and the errors count the workers that have ended.
LEMMA EndAccounts ==
    ASSUME Inv, NEW e \in Endpoint, NEW i \in Ticks,
           RequestFails(e, i) \/ \E s \in Slot : Reply(e, i, s)
    PROVE  Accounts'
<1>1. /\ TypeOK /\ Accounts /\ worker[e][i] = "sent"
      /\ \A j \in Ticks : j # i => worker'[e][j] = worker[e][j]
      /\ \A f \in Endpoint : f # e => /\ worker'[f] = worker[f]
                                      /\ ok'[f] = ok[f] /\ errors'[f] = errors[f]
  BY EndFacts DEF Inv
<1>2. \A f \in Endpoint : /\ IsFiniteSet(Answered(f)) /\ Cardinality(Answered(f)) \in Nat
                          /\ IsFiniteSet(Failed(f)) /\ Cardinality(Failed(f)) \in Nat
  <2>1. Samples - 1 \in Int
    BY ConstantTypes
  <2>2. IsFiniteSet(Ticks)
    BY <2>1, FS_Interval DEF Ticks
  <2>3. \A f \in Endpoint : Answered(f) \subseteq Ticks /\ Failed(f) \subseteq Ticks
    BY DEF Answered, Failed
  <2>4. \A f \in Endpoint : IsFiniteSet(Answered(f)) /\ IsFiniteSet(Failed(f))
    BY <2>2, <2>3, FS_Subset
  <2>5. QED
    BY <2>4, FS_CardinalityType
<1>3. i \notin Answered(e) /\ i \notin Failed(e)
  BY <1>1 DEF Answered, Failed
<1>4. ASSUME NEW f \in Endpoint, f # e
      PROVE  /\ \A k \in 1..Len(ok'[f]) : ok'[f][k].tick \in Answered(f)'
             /\ \A j, k \in 1..Len(ok'[f]) : ok'[f][j].tick = ok'[f][k].tick => j = k
             /\ Len(ok'[f]) = Cardinality(Answered(f)')
             /\ errors'[f] = Cardinality(Failed(f)')
  <2>1. Answered(f)' = Answered(f) /\ Failed(f)' = Failed(f)
    BY <1>1, <1>4 DEF Answered, Failed
  <2>2. QED
    BY <1>1, <1>4, <2>1 DEF Accounts
<1>5. CASE RequestFails(e, i)
  <2>1. worker'[e][i] = "error" /\ ok' = ok /\ errors'[e] = errors[e] + 1
    BY <1>1, <1>5 DEF RequestFails, TypeOK
  <2>2. Answered(e)' = Answered(e) /\ Failed(e)' = Failed(e) \cup {i}
    BY <1>1, <2>1 DEF Answered, Failed
  <2>3. Cardinality(Failed(e)') = Cardinality(Failed(e)) + 1
    BY <1>2, <1>3, <2>2, FS_AddElement
  <2>4. /\ \A k \in 1..Len(ok'[e]) : ok'[e][k].tick \in Answered(e)'
        /\ \A j, k \in 1..Len(ok'[e]) : ok'[e][j].tick = ok'[e][k].tick => j = k
        /\ Len(ok'[e]) = Cardinality(Answered(e)')
        /\ errors'[e] = Cardinality(Failed(e)')
    BY <1>1, <2>1, <2>2, <2>3 DEF Accounts
  <2>5. QED
    BY <1>4, <2>4 DEF Accounts
<1>6. ASSUME NEW s \in Slot, Reply(e, i, s)
      PROVE  Accounts'
  <2>1. PICK r \in Sample : ok'[e] = Append(ok[e], r) /\ r.tick = i
    BY <1>6, ReplyFacts
  <2>2. worker'[e][i] = "ok" /\ errors' = errors
    BY <1>6, ReplyFacts
  <2>3. Answered(e)' = Answered(e) \cup {i} /\ Failed(e)' = Failed(e)
    BY <1>1, <2>2 DEF Answered, Failed
  <2>4. Cardinality(Answered(e)') = Cardinality(Answered(e)) + 1
    BY <1>2, <1>3, <2>3, FS_AddElement
  <2>5. ok[e] \in Seq(Sample) /\ Len(ok[e]) \in Nat
    BY <1>1 DEF TypeOK
  <2>6. /\ Len(ok'[e]) = Len(ok[e]) + 1
        /\ \A k \in 1..Len(ok[e]) : ok'[e][k] = ok[e][k]
        /\ ok'[e][Len(ok[e]) + 1] = r
    BY <2>1, <2>5
  <2>7. 1..Len(ok'[e]) = (1..Len(ok[e])) \cup {Len(ok[e]) + 1}
    BY <2>5, <2>6
  <2>8. \A k \in 1..Len(ok[e]) : ok'[e][k].tick \in Answered(e) /\ ok'[e][k].tick # i
    BY <1>1, <1>3, <2>6 DEF Accounts
  <2>9. ok'[e][Len(ok[e]) + 1].tick = i
    BY <2>1, <2>6
  <2>10. \A k \in 1..Len(ok'[e]) : ok'[e][k].tick \in Answered(e)'
    BY <2>3, <2>7, <2>8, <2>9
  <2>11. \A j, k \in 1..Len(ok'[e]) : ok'[e][j].tick = ok'[e][k].tick => j = k
    <3>0. \A j, k \in 1..Len(ok[e]) : ok[e][j].tick = ok[e][k].tick => j = k
      BY <1>1 DEF Accounts
    <3>1. \A j, k \in 1..Len(ok[e]) : ok'[e][j].tick = ok'[e][k].tick => j = k
      <4>1. \A k \in 1..Len(ok[e]) : ok'[e][k] = ok[e][k]
        BY <2>6
      <4>2. QED
        BY <3>0, <4>1
    <3>2. SUFFICES ASSUME NEW j \in 1..Len(ok'[e]), NEW k \in 1..Len(ok'[e]),
                          ok'[e][j].tick = ok'[e][k].tick
                   PROVE  j = k
      OBVIOUS
    <3>3. /\ j \in 1..Len(ok[e]) \/ j = Len(ok[e]) + 1
          /\ k \in 1..Len(ok[e]) \/ k = Len(ok[e]) + 1
      BY <2>7
    <3>4. CASE j \in 1..Len(ok[e]) /\ k \in 1..Len(ok[e])
      BY <3>1, <3>2, <3>4
    <3>5. CASE j \in 1..Len(ok[e]) /\ k = Len(ok[e]) + 1
      BY <2>8, <2>9, <3>2, <3>5
    <3>6. CASE j = Len(ok[e]) + 1 /\ k \in 1..Len(ok[e])
      BY <2>8, <2>9, <3>2, <3>6
    <3>7. QED
      BY <3>3, <3>4, <3>5, <3>6
  <2>12. /\ Len(ok'[e]) = Cardinality(Answered(e)')
         /\ errors'[e] = Cardinality(Failed(e)')
    BY <1>1, <2>2, <2>3, <2>4, <2>6 DEF Accounts
  <2>13. QED
    BY <1>4, <2>10, <2>11, <2>12 DEF Accounts
<1>7. QED
  BY <1>5, <1>6

\* The last workers are joined: all of them have ended.
LEMMA JoinInv ==
    ASSUME Inv, NEW e \in Endpoint, Join(e)
    PROVE  Inv'
<1>1. /\ TypeOK /\ Handles /\ Workers /\ Accounts /\ Punctual
      /\ next[e] = Samples /\ ~joined[e]
      /\ \A i \in Range(handles[e]) : Ended(e, i)
      /\ UNCHANGED <<now, next, worker, ok, errors, sentAt, doneAt>>
      /\ handles' = [handles EXCEPT ![e] = <<>>]
      /\ joined' = [joined EXCEPT ![e] = TRUE]
  BY DEF Inv, Join, CanJoin, recorded, history
<1>2. /\ handles'[e] = <<>> /\ joined'[e] = TRUE
      /\ \A f \in Endpoint : f # e => handles'[f] = handles[f] /\ joined'[f] = joined[f]
  BY <1>1 DEF TypeOK
<1>3. TypeOK'
  <2>1. handles' \in [Endpoint -> Seq(Ticks)]
    BY <1>1 DEF TypeOK
  <2>2. joined' \in [Endpoint -> BOOLEAN]
    BY <1>1 DEF TypeOK
  <2>3. QED
    BY <1>1, <2>1, <2>2 DEF TypeOK
<1>4. Len(handles'[e]) = 0
  BY <1>2
<1>5. Handles'
  <2> SUFFICES ASSUME NEW f \in Endpoint
               PROVE  /\ Len(handles'[f]) = IF joined'[f] THEN 0
                         ELSE IF next'[f] <= MaxInflight THEN next'[f] ELSE MaxInflight
                      /\ \A k \in 1..Len(handles'[f]) :
                           handles'[f][k] = next'[f] - Len(handles'[f]) + (k - 1)
                      /\ joined'[f] => next'[f] = Samples
    BY DEF Handles
  <2>1. CASE f # e
    BY <1>1, <1>2, <2>1 DEF Handles
  <2>2. CASE f = e
    <3>1. \A k \in 1..0 : FALSE
      OBVIOUS
    <3>2. QED
      BY <1>1, <1>2, <1>4, <2>2, <3>1
  <2>3. QED
    BY <2>1, <2>2
<1>6. \A i \in Ticks : Ended(e, i)
  <2> SUFFICES ASSUME NEW i \in Ticks PROVE Ended(e, i)
    OBVIOUS
  <2>1. PICK h \in Nat : h = Len(handles[e]) /\ h <= Samples
    BY <1>1, ConstantTypes DEF Handles
  <2>2. i \in Nat /\ i < Samples /\ Samples \in Nat
    BY ConstantTypes DEF Ticks
  <2>3. CASE i < Samples - h
    BY <1>1, <2>1, <2>3 DEF Workers
  <2>4. CASE ~(i < Samples - h)
    <3>1. PICK k \in 1..h : k = i - (Samples - h) + 1
      <4>1. i - (Samples - h) + 1 \in 1..h
        BY <2>1, <2>2, <2>4
      <4>2. QED
        BY <4>1
    <3>2. k \in 1..Len(handles[e])
      BY <2>1
    <3>3. handles[e][k] = Samples - h + (k - 1)
      BY <1>1, <2>1, <3>2 DEF Handles
    <3>4. handles[e][k] = i
      <4>1. k \in Int /\ i \in Int /\ Samples \in Int /\ h \in Int
        BY <2>1, <2>2, <3>1
      <4>2. \A a, b, c, d \in Int :
                d = a - (b - c) + 1 => b - c + (d - 1) = a
        OBVIOUS
      <4>3. Samples - h + (k - 1) = i
        BY <3>1, <4>1, <4>2
      <4>4. QED
        BY <3>3, <4>3, Zenon
    <3>5. handles[e] \in Seq(Ticks)
      BY <1>1 DEF TypeOK
    <3>6. k \in DOMAIN handles[e]
      BY <3>2, <3>5
    <3>7. i \in Range(handles[e])
      BY <3>4, <3>6 DEF Range
    <3>8. QED
      BY <1>1, <3>7
  <2>5. QED
    BY <2>3, <2>4
<1>7. \A f \in Endpoint, i \in Ticks : Ended(f, i)' <=> Ended(f, i)
  BY <1>1 DEF Ended
<1>8. Workers'
  BY <1>1, <1>2, <1>6, <1>7 DEF Workers
<1>9. Accounts'
  BY <1>1 DEF Accounts, Answered, Failed
<1>10. Punctual'
  <2>1. \A f \in Endpoint : CanIssue(f)' => CanIssue(f)
    <3>1. ~(next[e] < Samples)
      BY <1>1, ConstantTypes
    <3>2. QED
      BY <1>1, <1>2, <3>1 DEF CanIssue, Full, Ended
  <2>2. \A f \in Endpoint, i \in Nat : Due(f, i)' = Due(f, i)
    BY <1>1 DEF Due
  <2>3. \A f \in Endpoint : Due(f, next[f])' = Due(f, next[f])
    BY <1>1 DEF Due
  <2>4. QED
    BY <1>1, <2>1, <2>2, <2>3, ConstantTypes DEF Punctual
<1>11. QED
  BY <1>3, <1>5, <1>8, <1>9, <1>10 DEF Inv

\* Time passes nobody who can go on, so who can then has just come to its tick.
LEMMA TickInv ==
    ASSUME Inv, Tick
    PROVE  Inv'
<1>1. /\ TypeOK /\ Handles /\ Workers /\ Accounts /\ Punctual /\ now \in Nat
      /\ now' = now + 1 /\ \A e \in Endpoint : ~CanIssue(e)
      /\ UNCHANGED <<next, handles, worker, ok, errors, joined, sentAt, doneAt>>
  BY DEF Inv, Tick, TypeOK, recorded, history
<1>2. TypeOK'
  BY <1>1 DEF TypeOK
<1>3. Handles' /\ Accounts'
  BY <1>1 DEF Handles, Accounts, Answered, Failed
<1>4. \A x \in Nat : x <= now => x <= now'
  BY <1>1
<1>5. \A e \in Endpoint, i \in Ticks : Ended(e, i)' <=> Ended(e, i)
  BY <1>1 DEF Ended
<1>6. Workers'
  BY <1>1, <1>4, <1>5 DEF Workers
<1>7. \A e \in Endpoint, i \in Ticks : Due(e, i)' = Due(e, i)
  BY <1>1 DEF Due
<1>8. ASSUME NEW e \in Endpoint, CanIssue(e)'
      PROVE  now' \in Due(e, next[e])'
  <2>1. next[e] < Samples /\ now + 1 >= next[e] /\ (Full(e) => Ended(e, Head(handles[e])))
    BY <1>1, <1>8 DEF CanIssue, Full, Ended
  <2>2. ~(now >= next[e])
    BY <1>1, <2>1 DEF CanIssue
  <2>3. next[e] = now + 1
    BY <1>1, <2>1, <2>2, ConstantTypes DEF TypeOK
  <2>4. QED
    BY <1>1, <2>3 DEF Due
<1>9. Punctual'
  BY <1>1, <1>7, <1>8 DEF Punctual
<1>10. QED
  BY <1>2, <1>3, <1>6, <1>9 DEF Inv

\* Init has no request.
LEMMA InitInv == Init => Inv
<1> SUFFICES ASSUME Init PROVE Inv
  OBVIOUS
<1>1. /\ now = 0 /\ next = [e \in Endpoint |-> 0] /\ handles = [e \in Endpoint |-> <<>>]
      /\ worker = [e \in Endpoint |-> [i \in Ticks |-> "unborn"]]
      /\ ok = [e \in Endpoint |-> <<>>] /\ errors = [e \in Endpoint |-> 0]
      /\ joined = [e \in Endpoint |-> FALSE]
  BY DEF Init
<1>2. TypeOK
  BY <1>1, ConstantTypes DEF Init, TypeOK
<1>3. Len(<<>>) = 0 /\ \A k \in 1..0 : FALSE
  OBVIOUS
<1>4. Handles
  BY <1>1, <1>3, ConstantTypes DEF Handles
<1>5. \A e \in Endpoint, i \in Ticks : ~Ended(e, i) /\ i >= 0 /\ ~(i < 0)
  BY <1>1, ConstantTypes DEF Ended
<1>6. Workers
  <2>1. \A i \in Ticks : ~(i < 0 - 0)
    BY ConstantTypes
  <2>2. QED
    BY <1>1, <1>3, <1>5, <2>1 DEF Workers
<1>7. \A e \in Endpoint : Answered(e) = {} /\ Failed(e) = {}
  BY <1>1 DEF Answered, Failed
<1>8. Accounts
  BY <1>1, <1>3, <1>7, FS_EmptySet DEF Accounts
<1>9. Punctual
  <2>1. \A e \in Endpoint, i \in Ticks : worker[e][i] = "unborn"
    BY <1>1
  <2>2. \A e \in Endpoint : now \in Due(e, next[e])
    BY <1>1 DEF Due
  <2>3. QED
    BY <2>1, <2>2 DEF Punctual
<1>10. QED
  BY <1>2, <1>4, <1>6, <1>8, <1>9 DEF Inv

\* Every step keeps the invariant.
LEMMA NextInv == Inv /\ [Next]_vars => Inv'
<1> SUFFICES ASSUME Inv, [Next]_vars PROVE Inv'
  OBVIOUS
<1>1. ASSUME NEW e \in Endpoint, Issue(e) \/ Join(e)
      PROVE  Inv'
  BY <1>1, IssueInv, JoinInv
<1>2. ASSUME NEW e \in Endpoint, NEW i \in Ticks,
             RequestFails(e, i) \/ \E s \in Slot : Reply(e, i, s)
      PROVE  Inv'
  BY <1>2, EndType, EndPunctual, EndAccounts DEF Inv
<1>3. CASE Done \/ UNCHANGED vars
  <2>1. UNCHANGED <<now, next, handles, worker, ok, errors, joined, sentAt, doneAt>>
    BY <1>3 DEF Done, vars, recorded, history
  <2>2. TypeOK' /\ Handles'
    BY <2>1 DEF Inv, TypeOK, Handles
  <2>3. Accounts'
    BY <2>1 DEF Inv, Accounts, Answered, Failed
  <2>4. Workers'
    BY <2>1 DEF Inv, Workers, Ended
  <2>5. Punctual'
    BY <2>1 DEF Inv, Punctual, Due, CanIssue, Full, Ended
  <2>6. QED
    BY <2>2, <2>3, <2>4, <2>5 DEF Inv
<1>4. QED
  BY <1>1, <1>2, <1>3, TickInv DEF Next

-------------------------------------------------------------------------------
\* The invariant, for every number of endpoints and samples, cap and timeout.
THEOREM ProbeInv == Spec => []Inv
<1>1. QED
  BY InitInv, NextInv, PTL DEF Spec

\* Types of the scheduler, its workers and what they record.
THEOREM ProbeTypeOK == Spec => []TypeOK
<1>1. Inv => TypeOK
  BY DEF Inv
<1>2. QED
  BY <1>1, ProbeInv, PTL

\* However many ticks and whatever the cap and the endpoints' delays, a request is
\* late only behind its predecessor and the one MAX_INFLIGHT before it.
THEOREM ProbeLateOnlyBehindOldest == Spec => []LateOnlyBehindOldest
<1>1. ASSUME NEW S, NEW x \in S, S \subseteq Nat, \A y \in S : y <= x
      PROVE  Latest(S) = x
  <2>1. \A z \in S : (\A y \in S : z >= y) => z = x
    BY <1>1
  <2>2. \A y \in S : x >= y
    BY <1>1
  <2>3. QED
    BY <2>1, <2>2 DEF Latest
<1>2. Inv => LateOnlyBehindOldest
  <2> SUFFICES ASSUME Inv, NEW e \in Endpoint, NEW i \in Ticks, worker[e][i] # "unborn"
               PROVE  sentAt[e][i] = Latest(Due(e, i))
    BY DEF LateOnlyBehindOldest, Due
  <2>1. TypeOK /\ Handles /\ Workers /\ Punctual
    BY DEF Inv
  <2>2. /\ i \in Nat /\ MaxInflight \in Nat /\ MaxInflight > 0
        /\ next[e] \in Nat /\ i < next[e]
    <3>1. next[e] \in Nat /\ i \in Nat /\ ~(i >= next[e])
      BY <2>1, ConstantTypes DEF Workers, TypeOK
    <3>2. QED
      BY <3>1, ConstantTypes
  <2>3. i # 0 => sentAt[e][i - 1] \in Nat
    <3>1. i # 0 => i - 1 \in Ticks /\ i - 1 < next[e]
      BY <2>2, ConstantTypes DEF Ticks
    <3>2. QED
      BY <2>1, <3>1 DEF Workers
  <2>4. ~(i < MaxInflight) => doneAt[e][i - MaxInflight] \in Nat
    <3> SUFFICES ASSUME ~(i < MaxInflight) PROVE doneAt[e][i - MaxInflight] \in Nat
      OBVIOUS
    <3>1. PICK d \in Ticks : d = i - MaxInflight
      BY <2>2, ConstantTypes DEF Ticks
    <3>2. PICK h \in Nat : h = Len(handles[e]) /\ h <= MaxInflight
      BY <2>1, <2>2 DEF Handles
    <3>3. d < next[e] - h
      BY <2>2, <3>1, <3>2
    <3>4. Ended(e, d)
      BY <2>1, <3>2, <3>3 DEF Workers
    <3>5. QED
      BY <2>1, <3>1, <3>4 DEF Workers
  <2>5. Due(e, i) \subseteq Nat
    BY <2>2, <2>3, <2>4 DEF Due
  <2>6. sentAt[e][i] \in Due(e, i) /\ \A x \in Due(e, i) : x <= sentAt[e][i]
    BY <2>1 DEF Punctual
  <2>7. QED
    BY <1>1, <2>5, <2>6
<1>3. QED
  BY <1>2, ProbeInv, PTL

\* For every number of ticks and every order in which the workers end, a finished
\* probe has a sample or an error for each tick, and not two.
THEOREM ProbeEveryTickCounted == Spec => []EveryTickCounted
<1>1. Inv => EveryTickCounted
  <2> SUFFICES ASSUME Inv, NEW e \in Endpoint, joined[e]
               PROVE  /\ Len(ok[e]) + errors[e] = Samples
                      /\ \A j, k \in 1..Len(ok[e]) : ok[e][j].tick = ok[e][k].tick => j = k
    BY DEF EveryTickCounted
  <2>1. TypeOK /\ Handles /\ Workers /\ Accounts
    BY DEF Inv
  <2>2. next[e] = Samples /\ Len(handles[e]) = 0
    BY <2>1 DEF Handles
  <2>3. \A i \in Ticks : i < Samples - 0
    BY ConstantTypes DEF Ticks
  <2>4. \A i \in Ticks : Ended(e, i)
    BY <2>1, <2>2, <2>3 DEF Workers
  <2>5. Ticks = Answered(e) \cup Failed(e) /\ Answered(e) \cap Failed(e) = {}
    BY <2>4 DEF Ended, Answered, Failed
  <2>6. IsFiniteSet(Ticks) /\ Cardinality(Ticks) = Samples
    <3>1. 0 \in Int /\ Samples - 1 \in Int
      BY ConstantTypes
    <3>2. /\ IsFiniteSet(0..(Samples - 1))
          /\ Cardinality(0..(Samples - 1)) = IF 0 > Samples - 1 THEN 0 ELSE Samples - 1 - 0 + 1
      BY <3>1, FS_Interval
    <3>3. QED
      BY <3>2, ConstantTypes DEF Ticks
  <2>7. IsFiniteSet(Answered(e)) /\ IsFiniteSet(Failed(e))
    BY <2>5, <2>6, FS_Subset
  <2>8. Cardinality(Ticks) = Cardinality(Answered(e)) + Cardinality(Failed(e))
                             - Cardinality(Answered(e) \cap Failed(e))
    BY <2>5, <2>7, FS_Union
  <2>9. Cardinality(Ticks) = Cardinality(Answered(e)) + Cardinality(Failed(e))
    <3>1. Cardinality(Answered(e) \cap Failed(e)) = 0
      BY <2>5, FS_EmptySet
    <3>2. Cardinality(Answered(e)) \in Nat /\ Cardinality(Failed(e)) \in Nat
      BY <2>7, FS_CardinalityType
    <3>3. QED
      BY <2>8, <3>1, <3>2
  <2>10. Len(ok[e]) + errors[e] = Samples
    BY <2>1, <2>6, <2>9 DEF Accounts
  <2>11. QED
    BY <2>1, <2>10 DEF Accounts
<1>2. QED
  BY <1>1, ProbeInv, PTL

-------------------------------------------------------------------------------
(* DelayBounded: what the cap adds to the schedule.                          *)

\* Besides the requests sent, those under way and those that have ended: neither
\* outlives its deadline by more than a timeout.
Delayed ==
    \A e \in Endpoint :
      /\ \A i \in Ticks :
           /\ worker[e][i] # "unborn" => sentAt[e][i] <= Deadline(i)
           /\ worker[e][i] = "sent" => now <= Deadline(i) + Timeout
           /\ doneAt[e][i] \in Nat => doneAt[e][i] <= Deadline(i) + Timeout
      /\ ~joined[e] => now <= Deadline(Samples - 1) + Timeout

\* MAX_INFLIGHT ticks later the deadline is a timeout later.
LEMMA DeadlineLater ==
    ASSUME NEW i \in Nat, i >= MaxInflight
    PROVE  i - MaxInflight \in Nat /\ Deadline(i - MaxInflight) + Timeout <= Deadline(i)
<1> DEFINE m == MaxInflight
           q == i \div m
           r == (i - m) \div m
<1>1. m \in Nat /\ m > 0 /\ Timeout \in Nat /\ i - m \in Nat
  BY ProbeAssumption
<1>2. q \in Nat /\ r \in Nat
  BY <1>1, DivisionIsMonotone
<1>3. i < m * q + m /\ m * r <= i - m
  BY <1>1, Division
<1>4. r + 1 <= q
  <2> SUFFICES ASSUME q <= r PROVE FALSE
    BY <1>2
  <2> HIDE DEF q, r, m
  <2>1. q * m <= r * m
    BY <1>1, <1>2, Monotone
  <2>2. m * q = q * m /\ m * r = r * m /\ m * q \in Int /\ m * r \in Int
    BY <1>1, <1>2
  <2>3. i < i - m + m
    BY <1>1, <1>3, <2>1, <2>2
  <2>4. QED
    BY <1>1, <2>3
<1> HIDE DEF q, r
<1>5. (r + 1) * Timeout <= q * Timeout
  BY <1>1, <1>2, <1>4, Monotone
<1>6. (r + 1) * Timeout = r * Timeout + Timeout /\ r * Timeout \in Nat /\ q * Timeout \in Nat
  BY <1>1, <1>2
<1>7. Deadline(i) = i + q * Timeout /\ Deadline(i - m) = i - m + r * Timeout
  BY DEF Deadline, q, r
<1>8. QED
  BY <1>1, <1>5, <1>6, <1>7

\* Deadlines are in the order of the ticks and not before them.
LEMMA DeadlineGrows ==
    ASSUME NEW i \in Nat, NEW j \in Nat, i <= j
    PROVE  /\ Deadline(i) \in Nat /\ Deadline(j) \in Nat
           /\ i <= Deadline(i) /\ Deadline(i) <= Deadline(j)
<1>1. PICK q \in Nat : q = i \div MaxInflight
  BY ConstantTypes, DivisionIsMonotone
<1>2. PICK r \in Nat : r = j \div MaxInflight
  BY ConstantTypes, DivisionIsMonotone
<1>3. q <= r
  BY <1>1, <1>2, ConstantTypes, DivisionIsMonotone
<1>4. Timeout \in Nat
  BY ProbeAssumption
<1>5. q * Timeout <= r * Timeout /\ q * Timeout \in Nat /\ r * Timeout \in Nat
  BY <1>3, <1>4, Monotone
<1>6. Deadline(i) = i + q * Timeout /\ Deadline(j) = j + r * Timeout
  BY <1>1, <1>2 DEF Deadline
<1>7. QED
  BY <1>5, <1>6

\* The deadline of every tick: a number, and at most that of the last tick.
LEMMA DeadlineFacts ==
    ASSUME NEW i \in Ticks
    PROVE  /\ i \in Nat /\ Samples - 1 \in Nat /\ i <= Samples - 1 /\ Timeout \in Nat
           /\ Deadline(i) \in Nat /\ i <= Deadline(i)
           /\ Deadline(Samples - 1) \in Nat /\ Deadline(i) <= Deadline(Samples - 1)
<1>1. i \in Nat /\ Samples - 1 \in Nat /\ i <= Samples - 1 /\ Timeout \in Nat
  BY ProbeAssumption DEF Ticks
<1>2. QED
  BY <1>1, DeadlineGrows

\* A worker that is not joined has been started.
LEMMA HeldIsSent ==
    ASSUME Inv, NEW e \in Endpoint, NEW k \in 1..Len(handles[e])
    PROVE  handles[e][k] \in Ticks /\ worker[e][handles[e][k]] # "unborn"
<1>1. TypeOK /\ Handles /\ Workers
  BY DEF Inv
<1>2. PICK h \in Nat : h = Len(handles[e]) /\ k \in 1..h
  BY <1>1 DEF TypeOK
<1>3. PICK n \in Nat : n = next[e]
  BY <1>1 DEF TypeOK
<1>4. PICK i \in Ticks : i = handles[e][k]
  BY <1>1 DEF TypeOK
<1>5. i = n - h + (k - 1)
  BY <1>1, <1>2, <1>3, <1>4 DEF Handles
<1>6. i \in Nat /\ k \in Nat /\ k <= h
  BY <1>2, ConstantTypes
<1>7. ~(i >= n)
  BY <1>2, <1>3, <1>5, <1>6
<1>8. worker[e][i] # "unborn"
  BY <1>1, <1>3, <1>7 DEF Workers
<1>9. QED
  BY <1>4, <1>8

\* A request is sent when it is due, and so by its deadline.
LEMMA IssueDelayed ==
    ASSUME Inv, Delayed, NEW e \in Endpoint, Issue(e)
    PROVE  Delayed'
<1> DEFINE n == next[e]
<1>1. /\ n \in Ticks /\ worker'[e][n] = "sent" /\ sentAt'[e][n] = now
      /\ \A i \in Ticks : i # n =>
           worker'[e][i] = worker[e][i] /\ sentAt'[e][i] = sentAt[e][i]
      /\ \A f \in Endpoint : f # e => worker'[f] = worker[f] /\ sentAt'[f] = sentAt[f]
      /\ UNCHANGED <<now, joined, doneAt>>
  BY IssueFacts DEF Inv
<1>2. now \in Nat /\ now \in Due(e, n)
  BY DEF Inv, TypeOK, Punctual, Issue
<1>3. now <= Deadline(n)
  <2>1. CASE now = n
    BY <1>1, <2>1, DeadlineFacts
  <2>2. CASE n # 0 /\ now = sentAt[e][n - 1]
    <3>1. PICK i \in Ticks : i = n - 1 /\ i \in Nat /\ n \in Nat /\ i <= n
      BY <1>1, <2>2, ConstantTypes DEF Ticks
    <3>2. worker[e][i] # "unborn"
      BY <1>1, <3>1 DEF Inv, Workers
    <3>3. sentAt[e][i] <= Deadline(i)
      BY <3>2 DEF Delayed
    <3>4. Deadline(i) \in Nat /\ Deadline(n) \in Nat /\ Deadline(i) <= Deadline(n)
      BY <3>1, DeadlineGrows
    <3>5. QED
      BY <1>2, <2>2, <3>1, <3>3, <3>4
  <2>3. CASE ~(n < MaxInflight) /\ now = doneAt[e][n - MaxInflight]
    <3>1. n \in Nat /\ n >= MaxInflight
      <4>1. n \in Nat
        BY <1>1, ConstantTypes, Zenon
      <4> HIDE DEF n
      <4>2. QED
        BY <2>3, <4>1, ConstantTypes
    <3>2. PICK d \in Ticks : d = n - MaxInflight
      BY <1>1, <3>1, ConstantTypes DEF Ticks
    <3>3. Deadline(d) + Timeout <= Deadline(n)
      BY <3>1, <3>2, DeadlineLater
    <3>4. doneAt[e][d] <= Deadline(d) + Timeout
      BY <1>2, <2>3, <3>2 DEF Delayed
    <3>5. Deadline(d) \in Nat /\ Deadline(n) \in Nat /\ Timeout \in Nat
      BY <1>1, DeadlineFacts
    <3>6. QED
      BY <1>2, <2>3, <3>2, <3>3, <3>4, <3>5
  <2>4. QED
    BY <1>2, <2>1, <2>2, <2>3 DEF Due
<1>4. now <= Deadline(n) + Timeout
  BY <1>1, <1>2, <1>3, DeadlineFacts
<1> HIDE DEF n
<1>5. QED
  BY <1>1, <1>3, <1>4 DEF Delayed

\* A worker ends while its request is under way.
LEMMA EndDelayed ==
    ASSUME Inv, Delayed, NEW e \in Endpoint, NEW i \in Ticks,
           RequestFails(e, i) \/ \E s \in Slot : Reply(e, i, s)
    PROVE  Delayed'
<1>1. /\ worker[e][i] = "sent" /\ worker'[e][i] \in {"ok", "error"} /\ doneAt'[e][i] = now
      /\ \A j \in Ticks : j # i =>
           worker'[e][j] = worker[e][j] /\ doneAt'[e][j] = doneAt[e][j]
      /\ \A f \in Endpoint : f # e => worker'[f] = worker[f] /\ doneAt'[f] = doneAt[f]
      /\ UNCHANGED <<now, joined, sentAt>>
  BY EndFacts DEF Inv, Ended
<1>2. sentAt[e][i] <= Deadline(i) /\ now <= Deadline(i) + Timeout
  BY <1>1 DEF Delayed
<1>3. QED
  BY <1>1, <1>2 DEF Delayed

\* Time stands still for a request that has timed out, and for a scheduler that
\* can go on; one that cannot waits for its tick or for a request under way.
LEMMA TickDelayed ==
    ASSUME Inv, Delayed, Tick
    PROVE  Delayed'
<1>1. /\ now \in Nat /\ now' = now + 1
      /\ \A e \in Endpoint : /\ ~CanIssue(e) /\ ~CanJoin(e)
                             /\ \A i \in Ticks : ~Expired(e, i)
      /\ UNCHANGED <<next, handles, worker, joined, sentAt, doneAt>>
  BY DEF Inv, TypeOK, Tick, history
<1>2. ASSUME NEW e \in Endpoint, NEW i \in Ticks, worker[e][i] = "sent"
      PROVE  now + 1 <= Deadline(i) + Timeout
  <2>1. ~(now >= sentAt[e][i] + Timeout)
    BY <1>1, <1>2 DEF Expired, Outstanding
  <2>2. sentAt[e][i] \in Nat
    <3>1. ~(i >= next[e])
      BY <1>2 DEF Inv, Workers
    <3>2. i < next[e]
      BY <3>1, ConstantTypes DEF Inv, TypeOK
    <3>3. QED
      BY <3>2 DEF Inv, Workers
  <2>3. sentAt[e][i] <= Deadline(i)
    BY <1>2 DEF Delayed
  <2>4. QED
    BY <1>1, <2>1, <2>2, <2>3, DeadlineFacts
<1>3. ASSUME NEW e \in Endpoint, ~joined[e]
      PROVE  now + 1 <= Deadline(Samples - 1) + Timeout
  <2>1. ASSUME NEW k \in 1..Len(handles[e]), ~Ended(e, handles[e][k])
        PROVE  now + 1 <= Deadline(Samples - 1) + Timeout
    <3>1. PICK i \in Ticks : i = handles[e][k] /\ worker[e][i] # "unborn"
      BY HeldIsSent
    <3>2. worker[e][i] = "sent"
      BY <2>1, <3>1 DEF Ended, Inv, TypeOK
    <3>3. now + 1 <= Deadline(i) + Timeout
      BY <1>2, <3>2
    <3>4. QED
      BY <1>1, <3>3, DeadlineFacts
  <2>2. CASE next[e] < Samples /\ ~(now >= next[e])
    <3>1. next[e] \in Ticks
      BY <2>2, ConstantTypes DEF Inv, TypeOK, Ticks
    <3>2. PICK n \in Ticks : n = next[e]
      BY <3>1
    <3>3. n \in Nat /\ now + 1 <= n
      BY <1>1, <2>2, <3>2, ConstantTypes
    <3>4. QED
      BY <1>1, <3>3, DeadlineFacts
  <2>3. CASE next[e] < Samples /\ now >= next[e]
    <3>1. Full(e) /\ ~Ended(e, Head(handles[e]))
      BY <1>1, <2>3 DEF CanIssue
    <3>2. handles[e] \in Seq(Ticks) /\ Len(handles[e]) > 0
      BY <3>1, ConstantTypes DEF Full, Inv, TypeOK
    <3>3. 1 \in 1..Len(handles[e]) /\ Head(handles[e]) = handles[e][1]
      BY <3>2
    <3>4. QED
      BY <2>1, <3>1, <3>3
  <2>4. CASE ~(next[e] < Samples)
    <3>1. next[e] = Samples
      BY <2>4, ConstantTypes DEF Inv, TypeOK
    <3>2. PICK i \in Range(handles[e]) : ~Ended(e, i)
      BY <1>1, <1>3, <3>1 DEF CanJoin
    <3>3. handles[e] \in Seq(Ticks)
      BY DEF Inv, TypeOK
    <3>4. PICK k \in 1..Len(handles[e]) : handles[e][k] = i
      BY <3>2, <3>3 DEF Range
    <3>5. QED
      BY <2>1, <3>2, <3>4
  <2>5. QED
    BY <2>2, <2>3, <2>4
<1>4. QED
  BY <1>1, <1>2, <1>3 DEF Delayed

\* For every number of ticks, cap and timeout, and however slow the endpoints
\* are, requests are late by at most a timeout for every MAX_INFLIGHT ticks, and the
\* probe is over a timeout after the last one's deadline.
THEOREM ProbeDelayBounded == Spec => []DelayBounded
<1>1. Init => Delayed
  <2> SUFFICES ASSUME Init, NEW e \in Endpoint
               PROVE  /\ \A i \in Ticks : worker[e][i] = "unborn" /\ doneAt[e][i] \notin Nat
                      /\ now <= Deadline(Samples - 1) + Timeout
    BY DEF Delayed
  <2>1. \A i \in Ticks : worker[e][i] = "unborn" /\ doneAt[e][i] = None
    BY DEF Init
  <2>2. 0 \in Ticks /\ now = 0
    BY ConstantTypes DEF Ticks, Init
  <2>3. QED
    BY <2>1, <2>2, DeadlineFacts, ProbeAssumption
<1>2. Inv /\ Delayed /\ [Next]_vars => Delayed'
  <2> SUFFICES ASSUME Inv, Delayed, [Next]_vars PROVE Delayed'
    OBVIOUS
  <2>1. ASSUME NEW e \in Endpoint, Join(e) PROVE Delayed'
    <3>1. UNCHANGED <<now, worker, sentAt, doneAt>> /\ \A f \in Endpoint : joined[f] => joined'[f]
      BY <2>1 DEF Join, history, Inv, TypeOK
    <3>2. QED
      BY <3>1 DEF Delayed
  <2>2. CASE Done \/ UNCHANGED vars
    BY <2>2 DEF Done, vars, history, Delayed
  <2>3. QED
    BY <2>1, <2>2, IssueDelayed, EndDelayed, TickDelayed DEF Next
<1>3. Delayed => DelayBounded
  BY DEF Delayed, DelayBounded, Over
<1>4. QED
  BY <1>1, <1>2, <1>3, ProbeInv, PTL DEF Spec

\* For every number of ticks, cap and timeout: what a late request waited for, and
\* by how much at most it is late.
THEOREM ProbeOnSchedule == Spec => []OnSchedule
<1>1. LateOnlyBehindOldest /\ DelayBounded => OnSchedule
  BY DEF OnSchedule
<1>2. QED
  BY <1>1, ProbeLateOnlyBehindOldest, ProbeDelayBounded, PTL

\* The clock of the model never stops a probe: the horizon lies beyond its end.
THEOREM ProbeWithinHorizon == Spec => [](~Over => now < Horizon)
<1>1. DelayBounded /\ TypeOK => (~Over => now < Horizon)
  <2> SUFFICES ASSUME DelayBounded, TypeOK, ~Over PROVE now < Horizon
    OBVIOUS
  <2>1. PICK s \in Nat : s = Samples - 1
    BY ConstantTypes
  <2>2. PICK q \in Nat : q = s \div MaxInflight
    BY ConstantTypes, DivisionIsMonotone
  <2>3. q <= s
    <3>1. MaxInflight * q <= s
      BY <2>2, ConstantTypes, Division
    <3>2. 1 * q <= MaxInflight * q
      BY ConstantTypes, Monotone
    <3>3. MaxInflight * q \in Int
      BY ConstantTypes, Product
    <3>4. QED
      BY <3>1, <3>2, <3>3
  <2>4. Timeout \in Nat /\ Horizon \in Nat /\ now \in Nat
    BY ProbeAssumption DEF TypeOK
  <2>5. q * Timeout <= s * Timeout /\ q * Timeout \in Nat /\ s * Timeout \in Nat
    BY <2>3, <2>4, Monotone
  <2>6. Samples * (Timeout + 1) = s * Timeout + s + Timeout + 1
    <3>1. Samples = s + 1
      BY <2>1, ConstantTypes
    <3>2. QED
      BY <2>4, <3>1, Z3
  <2>7. Horizon > s * Timeout + s + Timeout + 1
    BY <2>6, ProbeAssumption
  <2>8. now <= s + q * Timeout + Timeout
    BY <2>1, <2>2 DEF DelayBounded, Deadline
  <2>9. QED
    BY <2>4, <2>5, <2>7, <2>8
<1>2. QED
  BY <1>1, ProbeDelayBounded, ProbeTypeOK, PTL

-------------------------------------------------------------------------------
(* What probe_all makes of the samples.                                      *)

Pair(d) == [tick |-> d.tick, slot |-> d.slot]

\* The fields of a sample.
LEMMA SampleFacts ==
    ASSUME NEW r \in Sample
    PROVE  /\ r.tick \in Ticks /\ r.tick \in Int /\ r.latency \in Nat /\ r.slot \in Slot
           /\ Pair(r) \in [tick : Ticks, slot : Slot] /\ Pair(r).tick = r.tick
<1>1. r.tick \in Ticks /\ r.latency \in Nat /\ r.slot \in Slot
  BY DEF Sample
<1>2. r.tick \in Nat
  BY <1>1, ConstantTypes, Zenon
<1>3. QED
  BY <1>1, <1>2 DEF Pair

\* run_endpoint's sort puts the samples in the order of the ticks, one of each.
LEMMA DataFacts ==
    ASSUME Inv, NEW e \in Endpoint
    PROVE  /\ Data(e) \in Seq(Sample)
           /\ \A j, k \in 1..Len(Data(e)) : j < k => Data(e)[j].tick < Data(e)[k].tick
<1>1. PICK s : s = ok[e] /\ s \in Seq(Sample)
  BY DEF Inv, TypeOK
<1>2. PICK n \in Nat : n = Len(s) /\ DOMAIN s = 1..n /\ \A k \in 1..n : s[k] \in Sample
  BY <1>1
<1>3. PICK key \in [1..n -> Int] : /\ Data(e) = SortBy(s, key)
                                   /\ \A k \in 1..n : key[k] = s[k].tick /\ key[k] \in Int
  <2> DEFINE t == [k \in DOMAIN s |-> s[k].tick]
  <2>1. \A r \in Sample : r.tick \in Int
    BY SampleFacts
  <2>2. \A k \in 1..n : s[k].tick \in Int
    BY <1>2, <2>1
  <2>3. t \in [1..n -> Int] /\ \A k \in 1..n : t[k] = s[k].tick /\ t[k] \in Int
    BY <1>2, <2>2
  <2>4. Data(e) = SortBy(s, t)
    BY <1>1 DEF Data
  <2> HIDE DEF t
  <2>5. QED
    BY <2>3, <2>4
<1>4. s \in [1..n -> Sample]
  BY <1>1, <1>2
<1>5. PICK p \in Bijection(1..n, 1..n) : Sorts(p, n, s, key)
  BY <1>4, SortByOrders
<1>6. /\ SortBy(s, key) = [k \in 1..n |-> s[p[k]]]
       /\ \A j, k \in 1..n : j <= k => key[p[j]] <= key[p[k]]
  BY <1>5 DEF Sorts
<1>7. /\ \A k \in 1..n : p[k] \in 1..n
      /\ \A j, k \in 1..n : p[j] = p[k] => j = k
  BY <1>5 DEF Bijection, Injection, IsInjective
<1>8. \A j, k \in 1..n : s[j].tick = s[k].tick => j = k
  BY <1>1, <1>2 DEF Inv, Accounts
<1>9. PICK d : d = Data(e) /\ d \in [1..n -> Sample] /\ \A k \in 1..n : d[k] = s[p[k]]
  <2> DEFINE t == [k \in 1..n |-> s[p[k]]]
  <2>1. \A k \in 1..n : s[p[k]] \in Sample
    BY <1>4, <1>7
  <2>2. t \in [1..n -> Sample] /\ \A k \in 1..n : t[k] = s[p[k]]
    BY <2>1
  <2>3. t = Data(e)
    BY <1>3, <1>6
  <2> HIDE DEF t
  <2>4. QED
    BY <2>2, <2>3
<1>10. d \in Seq(Sample) /\ Len(d) = n
  BY <1>9
<1>11. ASSUME NEW j \in 1..n, NEW k \in 1..n, j < k PROVE d[j].tick < d[k].tick
  <2>1. j <= k /\ j # k
    BY <1>11
  <2>2. p[j] \in 1..n /\ p[k] \in 1..n /\ p[j] # p[k] /\ key[p[j]] <= key[p[k]]
    BY <1>6, <1>7, <2>1
  <2>3. key[p[j]] # key[p[k]] /\ key[p[j]] \in Int /\ key[p[k]] \in Int
    BY <1>3, <1>8, <2>2
  <2>4. key[p[j]] = d[j].tick /\ key[p[k]] = d[k].tick
    BY <1>3, <1>9, <2>2
  <2>5. QED
    BY <2>2, <2>3, <2>4
<1>12. QED
  BY <1>9, <1>10, <1>11

\* Slots and answered ticks are the samples, one by one.
LEMMA SlotsFacts ==
    ASSUME Inv, NEW e \in Endpoint
    PROVE  /\ Slots(e) \subseteq [tick : Ticks, slot : Slot]
           /\ \A c, d \in Slots(e) : c.tick = d.tick => c = d
           /\ \A k \in 1..Len(Data(e)) : Pair(Data(e)[k]) \in Slots(e)
           /\ \A d \in Slots(e) : \E k \in 1..Len(Data(e)) : d = Pair(Data(e)[k])
           /\ IsFiniteSet(Slots(e))
<1>1. PICK s \in Seq(Sample) : s = Data(e) /\ \A j, k \in 1..Len(s) : j < k => s[j].tick < s[k].tick
  BY DataFacts
<1>2. PICK n \in Nat : n = Len(s) /\ DOMAIN s = 1..n /\ \A k \in 1..n : s[k] \in Sample
  BY <1>1
<1>3. \A k \in 1..n : Pair(s[k]) \in Slots(e)
  BY <1>1, <1>2 DEF Slots, Pair, Range
<1>4. \A d \in Slots(e) : \E k \in 1..n : d = Pair(s[k])
  BY <1>1, <1>2 DEF Slots, Pair, Range
<1>5. \A k \in 1..n : /\ Pair(s[k]) \in [tick : Ticks, slot : Slot]
                      /\ Pair(s[k]).tick = s[k].tick /\ s[k].tick \in Int
  <2>1. \A r \in Sample : /\ Pair(r) \in [tick : Ticks, slot : Slot]
                          /\ Pair(r).tick = r.tick /\ r.tick \in Int
    BY SampleFacts
  <2>2. QED
    BY <1>2, <2>1
<1>6. \A j, k \in 1..n : s[j].tick = s[k].tick => j = k
  <2>1. ASSUME NEW j \in 1..n, NEW k \in 1..n, s[j].tick = s[k].tick PROVE j = k
    <3>1. ~(j < k) /\ ~(k < j)
      BY <1>1, <1>2, <1>5, <2>1
    <3>2. QED
      BY <3>1
  <2>2. QED
    BY <2>1
<1>7. \A c, d \in Slots(e) : c.tick = d.tick => c = d
  BY <1>4, <1>5, <1>6
<1>8. IsFiniteSet(Slots(e))
  <2> DEFINE g == [k \in 1..n |-> Pair(s[k])]
  <2>1. g \in [1..n -> Slots(e)] /\ \A d \in Slots(e) : \E k \in 1..n : g[k] = d
    BY <1>3, <1>4
  <2> HIDE DEF g
  <2>2. g \in Surjection(1..n, Slots(e))
    BY <2>1, Fun_IsSurj
  <2>3. IsFiniteSet(1..n)
    BY <1>2, Interval
  <2>4. QED
    BY <2>2, <2>3, FS_Surjection
<1>9. QED
  BY <1>1, <1>2, <1>3, <1>4, <1>5, <1>7, <1>8, SMTT(20)

\* A finished row without answers has no samples, and the other way around.
LEMMA NoAnswer ==
    ASSUME Inv, NEW e \in Endpoint
    PROVE  /\ Data(e) = <<>> <=> Slots(e) = {}
           /\ AnsweredTicks(e) = {} <=> Slots(e) = {}
<1>1. Data(e) \in Seq(Sample)
  BY DataFacts
<1>2. Data(e) = <<>> <=> Len(Data(e)) = 0
  BY <1>1
<1>3. Len(Data(e)) # 0 => 1 \in 1..Len(Data(e))
  BY <1>1
<1>4. Len(Data(e)) = 0 => \A k \in 1..Len(Data(e)) : FALSE
  BY <1>1
<1>5. Data(e) = <<>> <=> Slots(e) = {}
  BY <1>2, <1>3, <1>4, SlotsFacts
<1>6. AnsweredTicks(e) = {} <=> Slots(e) = {}
  BY DEF AnsweredTicks
<1>7. QED
  BY <1>5, <1>6

\* A tick that was answered has one slot.
LEMMA AnsweredFacts ==
    ASSUME Inv, NEW e \in Endpoint
    PROVE  /\ AnsweredTicks(e) \subseteq Ticks /\ IsFiniteSet(AnsweredTicks(e))
           /\ Cardinality(AnsweredTicks(e)) = Cardinality(Slots(e))
           /\ \E t \in Bijection(Slots(e), AnsweredTicks(e)) :
                \A d \in Slots(e) : t[d] = d.tick /\ d.tick \in AnsweredTicks(e)
<1> DEFINE t == [d \in Slots(e) |-> d.tick]
<1>1. /\ \A d \in Slots(e) : d \in [tick : Ticks, slot : Slot]
      /\ \A c, d \in Slots(e) : c.tick = d.tick => c = d
      /\ IsFiniteSet(Slots(e))
  BY SlotsFacts
<1>2. /\ \A d \in Slots(e) : d.tick \in AnsweredTicks(e)
      /\ \A i \in AnsweredTicks(e) : \E d \in Slots(e) : d.tick = i
  BY DEF AnsweredTicks
<1>3. AnsweredTicks(e) \subseteq Ticks
  BY <1>1, <1>2
<1>4. /\ t \in [Slots(e) -> AnsweredTicks(e)] /\ \A d \in Slots(e) : t[d] = d.tick
      /\ \A c, d \in Slots(e) : t[c] = t[d] => c = d
      /\ \A i \in AnsweredTicks(e) : \E d \in Slots(e) : t[d] = i
  BY <1>1, <1>2
<1> HIDE DEF t
<1>5. t \in Bijection(Slots(e), AnsweredTicks(e))
  BY <1>4, Fun_IsInj, Fun_IsSurj DEF Bijection
<1>6. ExistsBijection(Slots(e), AnsweredTicks(e))
  BY <1>5 DEF ExistsBijection
<1>7. IsFiniteSet(AnsweredTicks(e)) /\ Cardinality(AnsweredTicks(e)) = Cardinality(Slots(e))
  BY <1>1, <1>6, FS_Bijection
<1>8. QED
  BY <1>2, <1>3, <1>4, <1>5, <1>7

\* The answers to tick i, of all endpoints.
Answers(i) == {d \in UNION {Slots(f) : f \in Endpoint} : d.tick = i}

\* Finitely many endpoints answer a tick.
LEMMA AnswersFacts ==
    ASSUME Inv, NEW i
    PROVE  /\ IsFiniteSet(SlotsAt(i)) /\ SlotsAt(i) \subseteq Nat
           /\ \A f \in Endpoint : \A d \in Slots(f) : d.tick = i => d.slot \in SlotsAt(i)
           /\ \A x \in SlotsAt(i) :
                \E f \in Endpoint : \E d \in Slots(f) : d.tick = i /\ d.slot = x
<1>1. /\ \A f \in Endpoint : \A d \in Slots(f) : d.tick = i => d.slot \in SlotsAt(i)
      /\ \A x \in SlotsAt(i) :
           \E f \in Endpoint : \E d \in Slots(f) : d.tick = i /\ d.slot = x
  BY DEF SlotsAt
<1>2. \A f \in Endpoint : IsFiniteSet(Slots(f)) /\ \A d \in Slots(f) : d.slot \in Slot
  BY SlotsFacts
<1>3. SlotsAt(i) \subseteq Nat
  BY <1>1, <1>2, ResultsAssumption
<1> DEFINE Sets == {Slots(f) : f \in Endpoint}
<1>4. IsFiniteSet(Sets)
  <2>1. PICK n \in Nat : /\ n = Len(Listed) /\ DOMAIN Listed = 1..n
                         /\ \A k \in 1..n : Listed[k] \in Endpoint
                         /\ \A f \in Endpoint : \E k \in 1..n : Listed[k] = f
    BY ResultsAssumption DEF Range
  <2> DEFINE g == [k \in 1..n |-> Slots(Listed[k])]
  <2>2. g \in [1..n -> Sets] /\ \A T \in Sets : \E k \in 1..n : g[k] = T
    BY <2>1
  <2> HIDE DEF g, Sets
  <2>3. g \in Surjection(1..n, Sets)
    BY <2>2, Fun_IsSurj
  <2>4. IsFiniteSet(1..n)
    BY <2>1, Interval
  <2>5. QED
    BY <2>3, <2>4, FS_Surjection
<1>5. IsFiniteSet(UNION Sets)
  <2>1. \A T \in Sets : IsFiniteSet(T)
    BY <1>2
  <2> HIDE DEF Sets
  <2>2. QED
    BY <1>4, <2>1, FS_UNION
<1>6. IsFiniteSet(Answers(i))
  <2>1. Answers(i) \in SUBSET (UNION Sets)
    BY DEF Answers
  <2> HIDE DEF Sets
  <2>2. QED
    BY <1>5, <2>1, FS_Subset
<1>7. IsFiniteSet(SlotsAt(i))
  <2> DEFINE g == [d \in Answers(i) |-> d.slot]
  <2>1. \A d \in Answers(i) : \E f \in Endpoint : d \in Slots(f) /\ d.tick = i
    BY DEF Answers
  <2>2. \A f \in Endpoint : \A d \in Slots(f) : d.tick = i => d \in Answers(i)
    BY DEF Answers
  <2>3. /\ g \in [Answers(i) -> SlotsAt(i)]
        /\ \A x \in SlotsAt(i) : \E d \in Answers(i) : g[d] = x
    BY <1>1, <2>1, <2>2
  <2> HIDE DEF g
  <2>4. g \in Surjection(Answers(i), SlotsAt(i))
    BY <2>3, Fun_IsSurj
  <2>5. QED
    BY <1>6, <2>4, FS_Surjection
<1>8. QED
  BY <1>1, <1>3, <1>7

\* The leader of an answered tick is the best of its answers.
LEMMA LeaderFacts ==
    ASSUME Inv, NEW e \in Endpoint, NEW d \in Slots(e)
    PROVE  /\ Leader[d.tick] \in Nat /\ d.slot \in Nat /\ d.slot <= Leader[d.tick]
           /\ \A f \in Endpoint : \A c \in Slots(f) :
                c.tick = d.tick => c.slot <= Leader[d.tick]
           /\ \E f \in Endpoint : \E c \in Slots(f) :
                c.tick = d.tick /\ c.slot = Leader[d.tick]
<1> DEFINE i == d.tick
<1>1. /\ IsFiniteSet(SlotsAt(i)) /\ SlotsAt(i) \subseteq Nat
      /\ \A f \in Endpoint : \A c \in Slots(f) : c.tick = i => c.slot \in SlotsAt(i)
      /\ \A x \in SlotsAt(i) :
           \E f \in Endpoint : \E c \in Slots(f) : c.tick = i /\ c.slot = x
  BY AnswersFacts
<1>2. i \in Tested
  BY DEF Tested
<1> HIDE DEF i
<1>3. Leader[i] = Max(SlotsAt(i))
  BY <1>2 DEF Leader
<1>4. d.slot \in SlotsAt(i)
  BY <1>1 DEF i
<1>5. SlotsAt(i) \in SUBSET Int /\ SlotsAt(i) # {}
  BY <1>1, <1>4
<1>6. Leader[i] \in SlotsAt(i) /\ \A x \in SlotsAt(i) : Leader[i] >= x
  BY <1>1, <1>3, <1>5, MaxFacts
<1>7. Leader[i] \in Nat /\ \A x \in SlotsAt(i) : x \in Nat /\ x <= Leader[i]
  BY <1>1, <1>6
<1>8. /\ Leader[i] \in Nat /\ d.slot \in Nat /\ d.slot <= Leader[i]
      /\ \A f \in Endpoint : \A c \in Slots(f) : c.tick = i => c.slot <= Leader[i]
      /\ \E f \in Endpoint : \E c \in Slots(f) : c.tick = i /\ c.slot = Leader[i]
  BY <1>1, <1>4, <1>6, <1>7
<1>9. QED
  BY <1>8 DEF i

\* The slots e is behind the leader, tick by tick.
Behind(e) == [d \in Slots(e) |-> Leader[d.tick] - d.slot]

\* An endpoint is never ahead of the leader.
LEMMA BehindFacts ==
    ASSUME Inv, NEW e \in Endpoint
    PROVE  Behind(e) \in [Slots(e) -> Nat]
           /\ \A d \in Slots(e) : /\ Behind(e)[d] = Leader[d.tick] - d.slot
                                  /\ Behind(e)[d] \in Nat /\ Behind(e)[d] \in Int
<1>1. ASSUME NEW d \in Slots(e) PROVE Leader[d.tick] - d.slot \in Nat
  <2>1. Leader[d.tick] \in Nat /\ d.slot \in Nat /\ d.slot <= Leader[d.tick]
    BY LeaderFacts
  <2>2. QED
    BY <2>1
<1>2. Behind(e) \in [Slots(e) -> Nat] /\ \A d \in Slots(e) : Behind(e)[d] = Leader[d.tick] - d.slot
  BY <1>1 DEF Behind
<1>3. QED
  BY <1>2

\* What the row shows of them.
LEMMA LagFacts ==
    ASSUME Inv, NEW e \in Endpoint, Slots(e) # {}
    PROVE  /\ SlotLag(e) # <<>>
           /\ SlotLag(e)[1].avg.num = SumFunctionOnSet(Behind(e), Slots(e))
           /\ SlotLag(e)[1].avg.den = Cardinality(Slots(e))
           /\ SlotLag(e)[1].max = Max({0} \cup Range(Behind(e)))
<1>1. ~(Data(e) = <<>>)
  BY NoAnswer
<1>2. SlotLag(e) = <<[avg |-> Q(SumFunction(Behind(e)), Cardinality(Slots(e))),
                      max |-> Max({0} \cup Range(Behind(e))), ticks |-> Len(Data(e))]>>
  BY <1>1 DEF SlotLag, Behind
<1>3. SumFunction(Behind(e)) = SumFunctionOnSet(Behind(e), Slots(e))
  BY DEF SumFunction, Behind
<1>4. QED
  BY <1>2, <1>3 DEF Q

\* The greatest lag is no lag exactly if there is none, and bounds the sum.
LEMMA MaxLag ==
    ASSUME Inv, NEW e \in Endpoint, Slots(e) # {}
    PROVE  /\ SlotLag(e)[1].max = 0 <=> \A d \in Slots(e) : Behind(e)[d] = 0
           /\ SlotLag(e)[1].avg.num <= SlotLag(e)[1].max * SlotLag(e)[1].avg.den
           /\ SlotLag(e)[1].avg.num \in Nat
<1> DEFINE R == {0} \cup Range(Behind(e))
<1>1. IsFiniteSet(Slots(e))
  BY SlotsFacts
<1>2. PICK b : b = Behind(e) /\ b \in [Slots(e) -> Nat] /\ \A d \in Slots(e) : b[d] \in Nat
  BY BehindFacts
<1>3. /\ \A d \in Slots(e) : b[d] \in R
      /\ \A x \in R : x = 0 \/ \E d \in Slots(e) : x = b[d]
  BY <1>2 DEF Range
<1>4. IsFiniteSet(R)
  <2>1. b \in Surjection(Slots(e), Range(b))
    BY <1>2, Fun_IsSurj DEF Range
  <2>2. IsFiniteSet(Range(b))
    BY <1>1, <2>1, FS_Surjection
  <2>3. R = Range(b) \cup {0}
    BY <1>2
  <2> HIDE DEF R
  <2>4. QED
    BY <2>2, <2>3, FS_AddElement
<1>5. R \in SUBSET Int /\ R # {} /\ 0 \in R /\ R \subseteq Nat
  <2>1. 0 \in R
    OBVIOUS
  <2> HIDE DEF R
  <2>2. R \subseteq Nat
    BY <1>2, <1>3
  <2>3. QED
    BY <2>1, <2>2
<1>6. PICK m : m = SlotLag(e)[1].max /\ m = Max(R)
  BY LagFacts
<1> HIDE DEF R
<1>7. m \in R /\ \A x \in R : m >= x
  BY <1>4, <1>5, <1>6, MaxFacts
<1>8. m \in Nat /\ \A d \in Slots(e) : b[d] \in Int /\ b[d] <= m
  BY <1>2, <1>3, <1>5, <1>7
<1>9. m = 0 <=> \A d \in Slots(e) : b[d] = 0
  <2>1. m = 0 => \A d \in Slots(e) : b[d] = 0
    <3>1. ASSUME m = 0, NEW d \in Slots(e) PROVE b[d] = 0
      <4>1. b[d] \in Nat /\ b[d] <= 0
        BY <1>2, <1>8, <3>1
      <4>2. QED
        BY <4>1
    <3>2. QED
      BY <3>1
  <2>2. (\A d \in Slots(e) : b[d] = 0) => m = 0
    BY <1>3, <1>7
  <2>3. QED
    BY <2>1, <2>2
<1>10. /\ SlotLag(e)[1].avg.num = SumFunctionOnSet(b, Slots(e))
       /\ SlotLag(e)[1].avg.den = Cardinality(Slots(e))
  BY <1>2, LagFacts
<1>11. SumFunctionOnSet(b, Slots(e)) <= m * Cardinality(Slots(e))
  <2>1. m \in Int
    BY <1>8
  <2>2. QED
    BY <1>1, <1>8, <2>1, SumBound
<1>12. SumFunctionOnSet(b, Slots(e)) \in Nat
  BY <1>1, <1>2, SumIsNatural
<1>13. QED
  BY <1>2, <1>6, <1>9, <1>10, <1>11, <1>12

\* What e is behind and where it is make up where the leaders are.
LEMMA LagAndSlots ==
    ASSUME Inv, NEW e \in Endpoint
    PROVE  /\ SumFunctionOnSet(Behind(e), Slots(e)) \in Int /\ TotalSlots(e) \in Int
           /\ SumFunctionOnSet(Behind(e), Slots(e)) + TotalSlots(e)
                = SumFunctionOnSet(Leader, AnsweredTicks(e))
<1> DEFINE D == Slots(e)
           g == [d \in D |-> d.slot]
           h == [d \in D |-> Leader[d.tick]]
<1>1. IsFiniteSet(D)
  BY SlotsFacts
<1>2. \A d \in D : /\ Behind(e)[d] \in Int /\ Behind(e)[d] = Leader[d.tick] - d.slot
                   /\ Leader[d.tick] \in Int /\ d.slot \in Int
  BY BehindFacts, LeaderFacts
<1>3. \A d \in D : g[d] = d.slot /\ h[d] = Leader[d.tick]
  OBVIOUS
<1>4. TotalSlots(e) = SumFunctionOnSet(g, D)
  BY DEF TotalSlots, SumFunction
<1>5. PICK t \in Bijection(D, AnsweredTicks(e)) : \A d \in D : t[d] = d.tick
  BY AnsweredFacts
<1>6. IsFiniteSet(AnsweredTicks(e))
  BY AnsweredFacts
<1> HIDE DEF D, g, h
<1>7. \A d \in D : Behind(e)[d] \in Int /\ g[d] \in Int /\ h[d] = Behind(e)[d] + g[d]
  BY <1>2, <1>3
<1>8. SumFunctionOnSet(h, D) = SumFunctionOnSet(Behind(e), D) + SumFunctionOnSet(g, D)
  BY <1>1, <1>7, SumAdd
<1>9. \A d \in D : Leader[t[d]] \in Int /\ h[d] = Leader[t[d]]
  BY <1>2, <1>3, <1>5
<1>10. SumFunctionOnSet(h, D) = SumFunctionOnSet(Leader, AnsweredTicks(e))
  BY <1>1, <1>6, <1>9, SumMoves
<1>11. SumFunctionOnSet(Behind(e), D) \in Int /\ SumFunctionOnSet(g, D) \in Int
  <2>1. SumFunctionOnSet(Behind(e), D) \in Int
    BY <1>1, <1>7, SumFacts
  <2>2. SumFunctionOnSet(g, D) \in Int
    BY <1>1, <1>7, SumFacts
  <2>3. QED
    BY <2>1, <2>2
<1>12. QED
  BY <1>4, <1>8, <1>10, <1>11 DEF D

\* The current slot is that of the last tick that was answered.
LEMMA CurrentFacts ==
    ASSUME Inv, NEW e \in Endpoint, Slots(e) # {}
    PROVE  [tick |-> Max(AnsweredTicks(e)), slot |-> CurrentSlot(e)] \in Slots(e)
<1>1. PICK s : /\ s = Data(e) /\ s \in Seq(Sample)
               /\ \A j, k \in 1..Len(s) : j < k => s[j].tick < s[k].tick
  BY DataFacts
<1>2. PICK n \in Nat : n = Len(s) /\ \A k \in 1..n : s[k] \in Sample
  BY <1>1
<1>3. n >= 1 /\ n \in 1..n /\ s # <<>>
  <2>1. s # <<>>
    BY <1>1, NoAnswer
  <2>2. QED
    BY <1>1, <1>2, <2>1
<1>4. CurrentSlot(e) = s[n].slot
  BY <1>1, <1>2, <1>3 DEF CurrentSlot, Last
<1>5. /\ \A k \in 1..n : Pair(s[k]) \in Slots(e) /\ Pair(s[k]).tick = s[k].tick /\ s[k].tick \in Int
      /\ \A d \in Slots(e) : \E k \in 1..n : d = Pair(s[k])
  <2>1. \A k \in 1..n : Pair(s[k]).tick = s[k].tick /\ s[k].tick \in Int
    BY <1>2, SampleFacts
  <2>2. QED
    BY <1>1, <1>2, <2>1, SlotsFacts, SMTT(20)
<1>6. \A i \in AnsweredTicks(e) : \E k \in 1..n : i = s[k].tick
  BY <1>5 DEF AnsweredTicks
<1>7. s[n].tick \in AnsweredTicks(e)
  BY <1>3, <1>5 DEF AnsweredTicks
<1>8. \A i \in AnsweredTicks(e) : i <= s[n].tick
  <2>1. ASSUME NEW k \in 1..n PROVE s[k].tick <= s[n].tick
    <3>1. s[k].tick \in Int /\ s[n].tick \in Int
      BY <1>3, <1>5
    <3>2. k = n \/ k < n
      OBVIOUS
    <3>3. QED
      BY <1>1, <1>2, <1>3, <3>1, <3>2
  <2>2. QED
    BY <1>6, <2>1
<1>9. Max(AnsweredTicks(e)) = s[n].tick
  <2>1. AnsweredTicks(e) \in SUBSET Int /\ IsFiniteSet(AnsweredTicks(e)) /\ AnsweredTicks(e) # {}
    <3>1. AnsweredTicks(e) \subseteq Ticks /\ IsFiniteSet(AnsweredTicks(e))
      BY AnsweredFacts
    <3>2. AnsweredTicks(e) \subseteq Nat
      BY <3>1, ConstantTypes, Zenon
    <3>3. QED
      BY <1>7, <3>1, <3>2
  <2>2. /\ Max(AnsweredTicks(e)) \in AnsweredTicks(e)
        /\ \A y \in AnsweredTicks(e) : Max(AnsweredTicks(e)) >= y
    BY <2>1, MaxFacts
  <2>3. PICK m : m = Max(AnsweredTicks(e)) /\ m \in AnsweredTicks(e) /\ m >= s[n].tick
    BY <1>7, <2>2
  <2>4. m \in Int /\ s[n].tick \in Int /\ m <= s[n].tick
    BY <1>3, <1>5, <1>8, <2>1, <2>3
  <2>5. QED
    BY <2>3, <2>4
<1>10. QED
  BY <1>3, <1>4, <1>5, <1>9 DEF Pair

\* Nobody is ahead of an endpoint that is not behind, and the other way around.
LEMMA NotBehind ==
    ASSUME Inv, NEW e \in Endpoint
    PROVE  (\A d \in Slots(e) : Behind(e)[d] = 0)
             <=> ~\E f \in Endpoint : \E c \in Slots(f), d \in Slots(e) :
                    c.tick = d.tick /\ c.slot > d.slot
<1>1. ASSUME \A d \in Slots(e) : Behind(e)[d] = 0,
             NEW f \in Endpoint, NEW c \in Slots(f), NEW d \in Slots(e),
             c.tick = d.tick
      PROVE  ~(c.slot > d.slot)
  <2>1. c.slot <= Leader[d.tick] /\ Leader[d.tick] \in Nat /\ d.slot \in Nat
    BY <1>1, LeaderFacts
  <2>2. c.slot \in Nat
    BY LeaderFacts
  <2>3. Leader[d.tick] - d.slot = 0
    BY <1>1, BehindFacts
  <2>4. QED
    BY <2>1, <2>2, <2>3
<1>2. ASSUME ~\E f \in Endpoint : \E c \in Slots(f), d \in Slots(e) :
                c.tick = d.tick /\ c.slot > d.slot,
             NEW d \in Slots(e)
      PROVE  Behind(e)[d] = 0
  <2>1. /\ Leader[d.tick] \in Nat /\ d.slot \in Nat /\ d.slot <= Leader[d.tick]
        /\ \E f \in Endpoint : \E c \in Slots(f) :
             c.tick = d.tick /\ c.slot = Leader[d.tick]
    BY LeaderFacts
  <2>2. ~(Leader[d.tick] > d.slot)
    BY <1>2, <2>1
  <2>3. Leader[d.tick] - d.slot = 0
    BY <2>1, <2>2
  <2>4. QED
    BY <2>3, BehindFacts
<1>3. QED
  BY <1>1, <1>2

\* Two endpoints that answered the same ticks, against the same leaders.
LEMMA SameTicks ==
    ASSUME Inv, NEW e \in Endpoint, NEW f \in Endpoint,
           AnsweredTicks(e) = AnsweredTicks(f), AnsweredTicks(e) # {}
    PROVE  /\ SlotLag(e)[1].avg.num - SlotLag(f)[1].avg.num = TotalSlots(f) - TotalSlots(e)
           /\ TotalSlots(e) >= TotalSlots(f) =>
                Entry(Result(e)).slotLag <= Entry(Result(f)).slotLag
<1>1. Slots(e) # {} /\ Slots(f) # {}
  BY NoAnswer
<1>2. PICK x, y \in Nat : x = SlotLag(e)[1].avg.num /\ y = SlotLag(f)[1].avg.num
  BY <1>1, MaxLag
<1>3. PICK l : l = SumFunctionOnSet(Leader, AnsweredTicks(e))
  OBVIOUS
<1>4. /\ TotalSlots(e) \in Int /\ x + TotalSlots(e) = l
      /\ TotalSlots(f) \in Int /\ y + TotalSlots(f) = l
  <2>1. /\ x = SumFunctionOnSet(Behind(e), Slots(e))
        /\ y = SumFunctionOnSet(Behind(f), Slots(f))
    BY <1>1, <1>2, LagFacts
  <2>2. TotalSlots(e) \in Int /\ x + TotalSlots(e) = l
    BY <1>3, <2>1, LagAndSlots
  <2>3. TotalSlots(f) \in Int /\ y + TotalSlots(f) = l
    BY <1>3, <2>1, LagAndSlots
  <2>4. QED
    BY <2>2, <2>3
<1>5. x - y = TotalSlots(f) - TotalSlots(e)
  BY <1>4
<1>6. PICK n \in Nat : /\ n > 0 /\ n = SlotLag(e)[1].avg.den
                       /\ n = SlotLag(f)[1].avg.den
  <2>1. /\ SlotLag(e)[1].avg.den = Cardinality(AnsweredTicks(e))
        /\ SlotLag(f)[1].avg.den = Cardinality(AnsweredTicks(e))
    BY <1>1, LagFacts, AnsweredFacts
  <2>2. IsFiniteSet(AnsweredTicks(e))
    BY AnsweredFacts
  <2>3. Cardinality(AnsweredTicks(e)) \in Nat /\ Cardinality(AnsweredTicks(e)) # 0
    BY <2>2, FS_CardinalityType, FS_EmptySet
  <2>4. QED
    BY <2>1, <2>3
<1>7. /\ Entry(Result(e)).slotLag = (20 * x + n) \div (2 * n)
      /\ Entry(Result(f)).slotLag = (20 * y + n) \div (2 * n)
  <2>1. \A g \in Endpoint : Slots(g) # {} =>
          Entry(Result(g)).slotLag = Tenths(SlotLag(g)[1].avg)
    <3>1. \A g \in Endpoint : Slots(g) # {} => SlotLag(g) # <<>>
      BY LagFacts
    <3>2. QED
      BY <3>1 DEF Entry, Result
  <2>2. QED
    BY <1>1, <1>2, <1>6, <2>1 DEF Tenths
<1>8. ASSUME TotalSlots(e) >= TotalSlots(f)
      PROVE  (20 * x + n) \div (2 * n) <= (20 * y + n) \div (2 * n)
  <2>1. x <= y
    BY <1>4, <1>8
  <2>2. 20 * x + n \in Nat /\ 20 * y + n \in Nat /\ 2 * n \in Nat /\ 2 * n > 0
        /\ 20 * x + n <= 20 * y + n
    BY <1>6, <2>1
  <2>3. QED
    BY <2>2, DivisionIsMonotone
<1>9. QED
  BY <1>2, <1>5, <1>7, <1>8

\* The rate of slots behind is fair for any number of endpoints and ticks, whoever
\* answered which of them and with what.
THEOREM ProbeLagIsFair == Spec => []LagIsFair
<1>1. ASSUME Inv, NEW e \in Endpoint
      PROVE  LET lag == SlotLag(e)
             IN  /\ lag = <<>> <=> AnsweredTicks(e) = {}
                 /\ lag # <<>> =>
                      /\ [tick |-> Max(AnsweredTicks(e)), slot |-> CurrentSlot(e)] \in Slots(e)
                      /\ lag[1].max = 0 <=>
                           ~\E f \in Endpoint : \E c \in Slots(f), d \in Slots(e) :
                              c.tick = d.tick /\ c.slot > d.slot
                      /\ lag[1].avg.num <= lag[1].max * lag[1].avg.den
  <2>1. SlotLag(e) = <<>> <=> AnsweredTicks(e) = {}
    <3>1. Data(e) = <<>> => SlotLag(e) = <<>>
      BY DEF SlotLag
    <3>2. QED
      BY <1>1, <3>1, NoAnswer, LagFacts
  <2>2. SlotLag(e) # <<>> => Slots(e) # {}
    BY <1>1, <2>1, NoAnswer
  <2>3. QED
    BY <1>1, <2>1, <2>2, CurrentFacts, MaxLag, NotBehind
<1>2. Inv => LagIsFair
  BY <1>1, SameTicks DEF LagIsFair
<1>3. QED
  BY <1>2, ProbeInv, PTL

\* The median of an endpoint's latencies, and what counting its samples says of it.
Median(e) == Summary(Latencies(e)).p50

\* Counting samples is counting their places: no sample occurs twice.
LEMMA ShareFacts ==
    ASSUME Inv, NEW e \in Endpoint, NEW x
    PROVE  /\ Share(e, x) = Cardinality({k \in 1..Len(Data(e)) : Latencies(e)[k] < x})
           /\ IsFiniteSet({d \in Range(Data(e)) : d.latency < x}) /\ Share(e, x) \in Nat
<1>1. PICK s : /\ s = Data(e) /\ s \in Seq(Sample)
               /\ \A j, k \in 1..Len(s) : j < k => s[j].tick < s[k].tick
  BY DataFacts
<1>2. PICK n \in Nat : n = Len(s) /\ DOMAIN s = 1..n /\ \A k \in 1..n : s[k] \in Sample
  BY <1>1
<1>3. \A k \in 1..n : Latencies(e)[k] = s[k].latency
  BY <1>1, <1>2 DEF Latencies
<1>4. \A j, k \in 1..n : s[j] = s[k] => j = k
  <2>1. ASSUME NEW j \in 1..n, NEW k \in 1..n, s[j] = s[k] PROVE j = k
    <3>1. s[j].tick \in Int /\ s[k].tick \in Int /\ s[j].tick = s[k].tick
      BY <1>2, <2>1, SampleFacts
    <3>2. ~(j < k) /\ ~(k < j)
      BY <1>1, <1>2, <3>1
    <3>3. QED
      BY <3>2
  <2>2. QED
    BY <2>1
<1> DEFINE K == {k \in 1..n : Latencies(e)[k] < x}
           U == {d \in Range(s) : d.latency < x}
           g == [k \in K |-> s[k]]
<1>5. /\ g \in [K -> U] /\ \A j, k \in K : g[j] = g[k] => j = k
      /\ \A d \in U : \E k \in K : g[k] = d
  BY <1>2, <1>3, <1>4 DEF Range
<1>6. IsFiniteSet(K)
  <2>1. K \in SUBSET (1..n)
    OBVIOUS
  <2> HIDE DEF K
  <2>2. IsFiniteSet(1..n)
    BY <1>2, Interval
  <2>3. QED
    BY <2>1, <2>2, FS_Subset
<1> HIDE DEF K, U, g
<1>7. g \in Bijection(K, U)
  BY <1>5, Fun_IsInj, Fun_IsSurj DEF Bijection
<1>8. ExistsBijection(K, U)
  BY <1>7 DEF ExistsBijection
<1>9. IsFiniteSet(U) /\ Cardinality(U) = Cardinality(K)
  BY <1>6, <1>8, FS_Bijection
<1>10. Cardinality(U) \in Nat
  BY <1>9, FS_CardinalityType
<1>11. Share(e, x) = Cardinality(U)
  BY <1>1 DEF Share, U
<1>12. QED
  BY <1>1, <1>2, <1>9, <1>10, <1>11 DEF K, U

\* More time, more samples that took less.
LEMMA ShareGrows ==
    ASSUME Inv, NEW e \in Endpoint, NEW x \in Nat, NEW y \in Nat, x <= y
    PROVE  Share(e, x) <= Share(e, y)
<1> DEFINE U(z) == {d \in Range(Data(e)) : d.latency < z}
<1>1. \A d \in Range(Data(e)) : d.latency \in Nat
  <2>1. Data(e) \in Seq(Sample)
    BY DataFacts
  <2>2. \A d \in Range(Data(e)) : d \in Sample
    BY <2>1 DEF Range
  <2>3. QED
    BY <2>2, SampleFacts
<1>2. U(x) \in SUBSET U(y)
  BY <1>1
<1>3. IsFiniteSet(U(y))
  BY ShareFacts
<1>4. Share(e, x) = Cardinality(U(x)) /\ Share(e, y) = Cardinality(U(y))
  BY DEF Share
<1> HIDE DEF U
<1>5. QED
  BY <1>2, <1>3, <1>4, FS_Subset

\* Fewer than half of the samples took less than the median, and at least half no more.
LEMMA MedianFacts ==
    ASSUME Inv, NEW e \in Endpoint, Data(e) # <<>>
    PROVE  /\ Median(e) \in Nat
           /\ 2 * Share(e, Median(e)) < Len(Data(e))
           /\ 2 * Share(e, Median(e) + 1) >= Len(Data(e))
<1>1. PICK s : s = Data(e) /\ s \in Seq(Sample)
  BY DataFacts
<1>2. PICK n \in Nat : /\ n = Len(s) /\ DOMAIN s = 1..n /\ \A k \in 1..n : s[k] \in Sample
                       /\ n >= 1
  BY <1>1
<1>3. PICK d \in [1..n -> Int] : d = Latencies(e) /\ \A k \in 1..n : d[k] \in Nat
  <2>1. \A k \in 1..n : s[k].latency \in Nat
    BY <1>2, SampleFacts
  <2> DEFINE l == [k \in 1..n |-> s[k].latency]
  <2>2. l \in [1..n -> Int] /\ \A k \in 1..n : l[k] \in Nat
    BY <2>1
  <2>3. l = Latencies(e)
    BY <1>1, <1>2 DEF Latencies
  <2> HIDE DEF l
  <2>4. QED
    BY <2>2, <2>3
<1>4. PICK p \in Bijection(1..n, 1..n) : Ascending(d) = [k \in 1..n |-> d[p[k]]]
  BY AscendingFacts
<1> DEFINE t == [k \in 1..n |-> d[p[k]]]
<1>5. \A k \in 1..n : p[k] \in 1..n /\ t[k] = d[p[k]] /\ t[k] \in Nat
  BY <1>3, <1>4 DEF Bijection, Injection
<1>6. PICK m : m = Median(e) /\ m = NearestRank(t, P50) /\ m = NearestRank(Ascending(d), P50)
  BY <1>3, <1>4 DEF Median, Summary
<1>7. IsFiniteSet(1..n)
  BY Interval
<1>8. P50.num = 1 /\ P50.den = 2
  BY DEF P50, Q
<1>9. IsQuantile(m, d, P50)
  <2>1. P50.num \in Nat /\ P50.den \in Nat /\ 0 < P50.num /\ P50.num <= P50.den
    BY <1>8
  <2>2. IsQuantile(NearestRank(Ascending(d), P50), d, P50)
    BY <1>2, <2>1, PercentileOfSamples
  <2>3. QED
    BY <1>6, <2>2
<1>10. m \in Nat
  <2>1. Len(t) = n /\ t # <<>> /\ t \in Seq(Nat)
    BY <1>2, <1>5
  <2>2. Rank(P50, n) \in 1..n
    BY <1>2, <1>8, RankFacts
  <2> HIDE DEF t
  <2>3. m = t[Rank(P50, n)]
    BY <1>6, <1>8, <2>1 DEF NearestRank
  <2>4. QED
    BY <1>5, <2>2, <2>3
<1>11. /\ 2 * Cardinality({k \in 1..n : d[k] <= m}) >= n
       /\ 2 * Cardinality({k \in 1..n : d[k] < m}) < n
  <2>1. DOMAIN d = 1..n /\ Cardinality(1..n) = n
    BY Interval
  <2>2. /\ Cardinality({k \in 1..n : d[k] <= m}) * 2 >= 1 * n
        /\ Cardinality({k \in 1..n : d[k] < m}) * 2 < 1 * n
    BY <1>8, <1>9, <2>1, Zenon DEF IsQuantile
  <2>3. /\ Cardinality({k \in 1..n : d[k] <= m}) \in Nat
        /\ Cardinality({k \in 1..n : d[k] < m}) \in Nat
    BY <1>7, FS_Subset, FS_CardinalityType
  <2>4. PICK x, y \in Nat : /\ x = Cardinality({k \in 1..n : d[k] <= m})
                            /\ y = Cardinality({k \in 1..n : d[k] < m})
    BY <2>3
  <2>5. x * 2 >= 1 * n /\ y * 2 < 1 * n
    BY <2>2, <2>4, Zenon
  <2>6. 2 * x >= n /\ 2 * y < n
    BY <2>5
  <2>7. QED
    BY <2>4, <2>6, Zenon
<1>12. {k \in 1..n : d[k] < m + 1} = {k \in 1..n : d[k] <= m}
  <2>1. \A k \in 1..n : d[k] < m + 1 <=> d[k] <= m
    BY <1>3, <1>10
  <2>2. QED
    BY <2>1, Zenon
<1>13. /\ Share(e, m) = Cardinality({k \in 1..n : d[k] < m})
       /\ Share(e, m + 1) = Cardinality({k \in 1..n : d[k] < m + 1})
  BY <1>1, <1>2, <1>3, ShareFacts
<1>14. QED
  BY <1>1, <1>2, <1>6, <1>10, <1>11, <1>12, <1>13, Zenon

\* The rows: one of each endpoint, with its median if it answered.
LEMMA RowFacts ==
    ASSUME Inv
    PROVE  \E n \in Nat :
             /\ DOMAIN Results = 1..n /\ DOMAIN Listed = 1..n
             /\ \A k \in 1..n : /\ Listed[k] \in Endpoint
                                /\ Results[k].host = HostOf[Listed[k]]
                                /\ Results[k].ok = Len(Data(Listed[k]))
                                /\ Results[k].latency # <<>> <=> Data(Listed[k]) # <<>>
                                /\ Results[k].latency # <<>> =>
                                     Results[k].latency[1].p50 = Median(Listed[k])
             /\ \A e \in Endpoint : \E k \in 1..n : Listed[k] = e
<1>1. PICK n \in Nat : /\ n = Len(Listed) /\ DOMAIN Listed = 1..n
                       /\ \A k \in 1..n : Listed[k] \in Endpoint
                       /\ \A e \in Endpoint : \E k \in 1..n : Listed[k] = e
  BY ResultsAssumption DEF Range
<1>2. DOMAIN Results = 1..n /\ \A k \in 1..n : Results[k] = Result(Listed[k])
  BY <1>1 DEF Results
<1>3. \A e \in Endpoint :
        /\ Result(e).ok = Len(Data(e)) /\ Result(e).host = HostOf[e]
        /\ Result(e).latency = IF Data(e) = <<>> THEN <<>> ELSE <<Summary(Latencies(e))>>
  BY DEF Result
<1>4. ASSUME NEW e \in Endpoint
      PROVE  /\ Result(e).latency # <<>> <=> Data(e) # <<>>
             /\ Result(e).latency # <<>> => Result(e).latency[1].p50 = Median(e)
  <2>1. CASE Data(e) = <<>>
    BY <1>3, <2>1
  <2>2. CASE Data(e) # <<>>
    <3>1. Result(e).latency = <<Summary(Latencies(e))>>
      BY <1>3, <2>2
    <3> PICK x : x = Summary(Latencies(e))
      OBVIOUS
    <3>2. <<x>> # <<>> /\ <<x>>[1] = x
      OBVIOUS
    <3>3. QED
      BY <2>2, <3>1, <3>2 DEF Median
  <2>3. QED
    BY <2>1, <2>2
<1>5. ASSUME NEW k \in 1..n
      PROVE  /\ Listed[k] \in Endpoint
             /\ Results[k].host = HostOf[Listed[k]]
             /\ Results[k].ok = Len(Data(Listed[k]))
             /\ Results[k].latency # <<>> <=> Data(Listed[k]) # <<>>
             /\ Results[k].latency # <<>> => Results[k].latency[1].p50 = Median(Listed[k])
  <2>1. Listed[k] \in Endpoint /\ Results[k] = Result(Listed[k])
    BY <1>1, <1>2
  <2>2. QED
    BY <1>3, <1>4, <2>1
<1>6. QED
  BY <1>1, <1>2, <1>5

\* The tagged rows are those of a row's host that has the least of the medians.
LEMMA BestFacts ==
    ASSUME Inv
    PROVE  /\ (\A e \in Endpoint : Data(e) = <<>>) => Best(Results) = {}
           /\ (\E e \in Endpoint : Data(e) # <<>>) =>
                \E k \in Best(Results) :
                   /\ \A j \in DOMAIN Results :
                        j \in Best(Results) <=> Results[j].host = Results[k].host
                   /\ Listed[k] \in Endpoint /\ Data(Listed[k]) # <<>>
                   /\ Results[k].latency # <<>>
                   /\ Results[k].ok = Len(Data(Listed[k]))
                   /\ Results[k].latency[1].p50 = Median(Listed[k])
                   /\ \A e \in Endpoint : Data(e) # <<>> => Median(Listed[k]) <= Median(e)
<1> DEFINE r == Results
<1>1. PICK n \in Nat :
        /\ DOMAIN r = 1..n /\ DOMAIN Listed = 1..n
        /\ \A k \in 1..n : /\ Listed[k] \in Endpoint
                           /\ r[k].ok = Len(Data(Listed[k]))
                           /\ r[k].latency # <<>> <=> Data(Listed[k]) # <<>>
                           /\ r[k].latency # <<>> =>
                                r[k].latency[1].p50 = Median(Listed[k])
        /\ \A e \in Endpoint : \E k \in 1..n : Listed[k] = e
  BY RowFacts
<1> HIDE DEF r
<1> DEFINE answering == Answering(r)
           medians   == {r[k].latency[1].p50 : k \in answering}
           fastest   == {k \in answering : r[k].latency[1].p50 = Min(medians)}
<1>2. /\ answering = {k \in DOMAIN r : r[k].latency # <<>>}
      /\ Best(r) = IF answering = {} THEN {}
                   ELSE {k \in DOMAIN r : r[k].host = r[Min(fastest)].host}
  BY DEF Best, Answering
<1> HIDE DEF answering
<1>3. ASSUME \A e \in Endpoint : Data(e) = <<>> PROVE Best(r) = {}
  <2>1. answering = {}
    BY <1>1, <1>2, <1>3
  <2>2. QED
    BY <1>2, <2>1
<1>4. \A k \in answering : /\ k \in 1..n /\ Listed[k] \in Endpoint
                           /\ r[k].latency[1].p50 = Median(Listed[k])
                           /\ Data(Listed[k]) # <<>> /\ Median(Listed[k]) \in Nat
  BY <1>1, <1>2, MedianFacts
<1>5. ASSUME \E e \in Endpoint : Data(e) # <<>>
      PROVE  \E k \in 1..n :
                /\ Best(r) = {j \in DOMAIN r : r[j].host = r[k].host}
                /\ Data(Listed[k]) # <<>> /\ r[k].latency # <<>>
                /\ \A e \in Endpoint : Data(e) # <<>> => Median(Listed[k]) <= Median(e)
  <2>1. answering # {}
    <3>1. PICK e \in Endpoint : Data(e) # <<>>
      BY <1>5
    <3>2. PICK j \in 1..n : Listed[j] = e
      BY <1>1
    <3>3. j \in answering
      BY <1>1, <1>2, <3>1, <3>2
    <3>4. QED
      BY <3>3
  <2>2. medians \in SUBSET Nat /\ medians # {}
    BY <1>4, <2>1
  <2>3. PICK m : m = Min(medians) /\ m \in medians /\ \A y \in medians : m <= y
    <3> HIDE DEF medians
    <3>1. QED
      BY <2>2, MinFacts
  <2>4. fastest \in SUBSET Nat /\ fastest # {}
    <3>1. PICK j \in answering : r[j].latency[1].p50 = m
      BY <2>3
    <3>2. j \in fastest
      BY <2>3, <3>1
    <3>3. \A k \in fastest : k \in Nat
      BY <1>4
    <3>4. QED
      BY <3>2, <3>3
  <2>5. PICK k : k = Min(fastest) /\ k \in fastest
    <3> HIDE DEF fastest
    <3>1. QED
      BY <2>4, MinFacts
  <2>6. Best(r) = {j \in DOMAIN r : r[j].host = r[k].host}
    <3> HIDE DEF fastest
    <3>1. QED
      BY <1>2, <2>1, <2>5, Zenon
  <2>7. k \in answering /\ r[k].latency # <<>> /\ Median(Listed[k]) = m
    <3>1. k \in answering /\ r[k].latency[1].p50 = m
      <4>1. k \in {j \in answering : r[j].latency[1].p50 = Min(medians)}
        BY <2>5, Zenon
      <4> HIDE DEF medians
      <4>2. QED
        BY <2>3, <4>1, Zenon
    <3> HIDE DEF fastest, medians
    <3>2. QED
      BY <1>2, <1>4, <3>1
  <2>8. ASSUME NEW e \in Endpoint, Data(e) # <<>> PROVE m <= Median(e)
    <3>1. PICK j \in 1..n : Listed[j] = e
      BY <1>1
    <3>2. j \in answering
      BY <1>1, <1>2, <2>8, <3>1
    <3>3. Median(e) \in medians
      BY <1>4, <3>1, <3>2
    <3>4. QED
      BY <2>3, <3>3
  <2>9. QED
    BY <1>4, <2>6, <2>7, <2>8
<1>6. QED
  BY <1>1, <1>3, <1>5 DEF r

\* The tag "fastest p50", for any number of endpoints, hosts and samples: it is on
\* the rows of one host, and counting the replies of one of them confirms it.
THEOREM ProbeFastestByCount == Spec => []FastestByCount
<1> DEFINE Deserved(k) ==
             /\ Results[k].latency # <<>>
             /\ 2 * Share(Listed[k], Results[k].latency[1].p50 + 1) >= Results[k].ok
             /\ \A e \in Endpoint : Data(e) # <<>> =>
                  2 * Share(e, Results[k].latency[1].p50) < Len(Data(e))
             /\ \A j \in DOMAIN Results :
                  j \in Best(Results) <=> Results[j].host = Results[k].host
<1>1. Inv => FastestByCount
  <2> SUFFICES ASSUME Inv
               PROVE  /\ Best(Results) # {} <=> \E e \in Endpoint : Data(e) # <<>>
                      /\ Best(Results) # {} =>
                           \E k \in Best(Results) : Deserved(k)
    BY DEF FastestByCount
  <2>1. CASE \A e \in Endpoint : Data(e) = <<>>
    BY <2>1, BestFacts
  <2>2. CASE \E e \in Endpoint : Data(e) # <<>>
    <3>1. PICK k \in Best(Results) :
             /\ \A j \in DOMAIN Results :
                  j \in Best(Results) <=> Results[j].host = Results[k].host
             /\ Listed[k] \in Endpoint /\ Data(Listed[k]) # <<>>
             /\ Results[k].latency # <<>>
             /\ Results[k].ok = Len(Data(Listed[k]))
             /\ Results[k].latency[1].p50 = Median(Listed[k])
             /\ \A e \in Endpoint : Data(e) # <<>> => Median(Listed[k]) <= Median(e)
      BY <2>2, BestFacts
    <3>2. PICK m \in Nat : m = Median(Listed[k])
      BY <3>1, MedianFacts
    <3>3. 2 * Share(Listed[k], m + 1) >= Results[k].ok
      BY <3>1, <3>2, MedianFacts
    <3>4. ASSUME NEW e \in Endpoint, Data(e) # <<>>
          PROVE  2 * Share(e, m) < Len(Data(e))
      <4>1. Data(e) \in Seq(Sample)
        BY DataFacts
      <4>2. PICK x \in Nat : x = Median(e) /\ m <= x /\ 2 * Share(e, x) < Len(Data(e))
        BY <3>1, <3>2, <3>4, MedianFacts
      <4>3. Share(e, m) <= Share(e, x) /\ Share(e, m) \in Nat /\ Share(e, x) \in Nat
        BY <4>2, ShareGrows, ShareFacts
      <4>4. Len(Data(e)) \in Nat
        BY <4>1
      <4>5. QED
        BY <4>2, <4>3, <4>4
    <3>5. Deserved(k)
      BY <3>1, <3>2, <3>3, <3>4
    <3>6. QED
      BY <2>2, <3>1, <3>5
  <2>3. QED
    BY <2>1, <2>2
<1>2. QED
  BY <1>1, ProbeInv, PTL
================================================================================
