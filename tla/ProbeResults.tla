----------------------------- MODULE ProbeResults -----------------------------
(***************************************************************************)
(* What probe_all makes of a finished probe, and what the commands show of *)
(* it: the table of `probe`, the page of `serve` with its "fastest p50"    *)
(* tag, and the entries `report` publishes.  The page tells its rows apart *)
(* by their hosts, which two endpoints may share.  Latencies are in        *)
(* intervals; the rate of slots behind stays a fraction until it is        *)
(* published.  An Option of a record is a sequence of at most one.         *)
(***************************************************************************)
EXTENDS Probe, Stats, Calendar

CONSTANTS Listed,       \* the endpoints, in the order of the results
          HostOf,       \* HostOf[e]: redact_host() of the endpoint's address
          IntervalMs    \* --interval-ms

ASSUME ResultsAssumption == /\ Listed \in Seq(Endpoint) /\ Range(Listed) = Endpoint
                            /\ Len(Listed) = Cardinality(Endpoint)
                            /\ DOMAIN HostOf = Endpoint
                            /\ IntervalMs \in Nat \ {0} /\ Slot \subseteq Nat

Slots(e)  == {[tick |-> d.tick, slot |-> d.slot] : d \in Range(Data(e))}
Tested    == UNION {{d.tick : d \in Slots(e)} : e \in Endpoint}
SlotsAt(i) == UNION {{d.slot : d \in {x \in Slots(e) : x.tick = i}} : e \in Endpoint}

\* Mutant: the entry of a tick is not raised by the endpoints that come later.
LeaderFirst == [i \in Tested |->
    LET answers == SelectSeq(Listed, LAMBDA e : \E d \in Slots(e) : d.tick = i)
    IN  (CHOOSE d \in Slots(Head(answers)) : d.tick = i).slot]

\* The leading slot of every tick that some endpoint answered.
Leader == [i \in Tested |-> Max(SlotsAt(i))]

SlotLag(e) ==
    IF Data(e) = <<>> THEN <<>>
    ELSE LET leader == Leader
             lag    == [d \in Slots(e) |-> leader[d.tick] - d.slot]
         IN  <<[avg |-> Q(SumFunction(lag), Cardinality(Slots(e))),
                max |-> Max({0} \cup Range(lag)), ticks |-> Len(Data(e))]>>

Latencies(e) == [k \in DOMAIN Data(e) |-> Data(e)[k].latency]

Result(e) ==
    [label |-> e, host |-> HostOf[e], ok |-> Len(Data(e)), errors |-> errors[e],
     current |-> CurrentSlot(e),
     latency |-> IF Data(e) = <<>> THEN <<>> ELSE <<Summary(Latencies(e))>>,
     lag |-> SlotLag(e)]

Results == [k \in DOMAIN Listed |-> Result(Listed[k])]

Answering(r) == {k \in DOMAIN r : r[k].latency # <<>>}

\* Mutant: the rows compete with the wrong percentile.
BestByP90(r) ==
    LET least == Min({r[k].latency[1].p90 : k \in Answering(r)})
        first == Min({k \in Answering(r) : r[k].latency[1].p90 = least})
    IN  IF Answering(r) = {} THEN {} ELSE {k \in DOMAIN r : r[k].host = r[first].host}

\* The rows render() tags: those of the host whose row is the first with the least
\* median, if anyone answered.
Best(r) ==
    LET least == Min({r[k].latency[1].p50 : k \in Answering(r)})
        first == Min({k \in Answering(r) : r[k].latency[1].p50 = least})
    IN  IF Answering(r) = {} THEN {} ELSE {k \in DOMAIN r : r[k].host = r[first].host}

\* round1(): the nearest tenth, halves upwards, of a number that is not negative.
Tenths(v) == (20 * v.num + v.den) \div (2 * v.den)

Entry(r) ==
    [provider |-> r.label,
     slotLag  |-> IF r.lag = <<>> THEN None ELSE Tenths(r.lag[1].avg),
     p50      |-> IF r.latency = <<>> THEN None
                  ELSE Tenths(Q(r.latency[1].p50 * IntervalMs, 1))]

Run(day) == [entries    |-> [k \in DOMAIN Listed |-> Entry(Results[k])],
             capturedAt |-> CivilFromDays(day)]

-------------------------------------------------------------------------------
AnsweredTicks(e) == {d.tick : d \in Slots(e)}

TotalSlots(e) == SumFunction([d \in Slots(e) |-> d.slot])

\* Slots behind compare endpoints fairly although each is measured against
\* whoever leads a tick, and only over the ticks it answered itself: one is
\* never behind exactly if nobody was ahead of it at a tick both answered; two
\* that answered the same ticks differ by the difference of their slots, whoever
\* else was there or failed; and rounding does not reverse them when published.
\* The current slot beside it is the answer to the last tick, although an answer
\* to an earlier tick may have come later.
LagIsFair ==
    Over =>
      /\ \A e \in Endpoint :
           LET lag == SlotLag(e)
           IN  /\ lag = <<>> <=> AnsweredTicks(e) = {}
               /\ lag # <<>> =>
                    /\ [tick |-> Max(AnsweredTicks(e)), slot |-> CurrentSlot(e)] \in Slots(e)
                    /\ lag[1].max = 0 <=>
                         ~\E f \in Endpoint : \E c \in Slots(f), d \in Slots(e) :
                            c.tick = d.tick /\ c.slot > d.slot
                    /\ lag[1].avg.num <= lag[1].max * lag[1].avg.den
      /\ \A e, f \in Endpoint :
           AnsweredTicks(e) = AnsweredTicks(f) /\ AnsweredTicks(e) # {} =>
             /\ SlotLag(e)[1].avg.num - SlotLag(f)[1].avg.num = TotalSlots(f) - TotalSlots(e)
             /\ TotalSlots(e) >= TotalSlots(f) =>
                  Entry(Result(e)).slotLag <= Entry(Result(f)).slotLag

Share(e, x) == Cardinality({d \in Range(Data(e)) : d.latency < x})

\* The tag "fastest p50" is there as soon as one endpoint has answered, it is on
\* all rows of one host and on no other, and for one of them counting the replies
\* confirms it: fewer than half of anyone's took less time than its median, and at
\* least half of its own no more.  (Another endpoint of that host is tagged too,
\* whatever its replies took.)
FastestByCount ==
    Over =>
      LET r == Results
      IN  /\ Best(r) # {} <=> \E e \in Endpoint : Data(e) # <<>>
          /\ Best(r) # {} =>
               \E k \in Best(r) :
                 /\ r[k].latency # <<>>
                 /\ 2 * Share(Listed[k], r[k].latency[1].p50 + 1) >= r[k].ok
                 /\ \A e \in Endpoint : Data(e) # <<>> =>
                      2 * Share(e, r[k].latency[1].p50) < Len(Data(e))
                 /\ \A j \in DOMAIN r : j \in Best(r) <=> r[j].host = r[k].host
================================================================================
