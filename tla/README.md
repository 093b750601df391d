# solbench: a formal model

TLA+ modules for [solbench](../src/README.md), a tool that measures Solana RPC,
gRPC and transaction-stream endpoints. The modules are translated from the Rust
source (paths below are relative to `src/crates/`), checked by TLC on small
instances and, for all of their safety properties, proved with TLAPS for every
instance.

The tool's product is *evidence*: which of several streams delivered a
transaction first, with files that somebody else can verify. A mistake in the
bookkeeping does not crash anything. It publishes a wrong ranking. That is why
the stream benchmark, its match book, its artifact directory and the figures of
its report come first here.

## 1. Inventory

| Component | Code | State it keeps | Operations |
|---|---|---|---|
| match book | `solbench-core/src/stream.rs` | `events` (signature → source → arrival), `duplicates`, `matched` | `new`, `observe`, `matched_count`, `into_events` |
| stream runner | `solbench-cli/src/stream/runner.rs` | warm sources, four timers, `failure`, the book, the health table | the `select!` loop, one branch per timer and one per message kind; closing the attempt |
| source task (one per source) | `stream/sources.rs` | its connection, the message it is sending | connect, announce, receive and stamp, send, fail |
| artifact writer | `stream/artifacts.rs` | two `BufWriter`s, the manifest, health | `create`, `observation`, `matched`, `finish`, `write_checksums` |
| verify | `stream/verify.rs` | none | one predicate on a directory |
| report and public bundle | `stream/report.rs` | none of its own; the directory | `build`, `pair`, `endpoint_performance`, `render`, `public_bundle` |
| validation attachments | `stream/validation.rs` | none of its own; the directory | `attach` |
| configuration | `stream/config.rs`, `profile.rs` | none | `validate`, `prepare` |
| gRPC slot race | `grpc.rs` | unpaired reports, wins, deltas | two `subscribe_slots` tasks, the loop of `race()` |
| probe | `probe.rs` | tick counter, in-flight workers, samples | open-loop scheduler, join of the oldest, slot lag |
| send, landing tracker | `send.rs`, `solbench-core/src/landing.rs` | one record per submission | blockhash, submit slot, send, poll |
| statistics | `solbench-core/src/stats.rs` | samples | percentiles, summary |
| leaderboard and dashboard | `report.rs`, `server.rs` | none | entries, calendar date, fastest row; layout |
| event timeline | `solbench-core/src/timeline.rs` | marks | gaps; used by no command |
| command line | `main.rs`, `util.rs` | none | argument parsing, host redaction |

**How they interact.** `run_async` starts one task per source. All tasks and the
runner share one bounded `mpsc` channel (8192): a task that finds it full waits
inside `send()`, with its stamp already taken. The runner owns everything else.
It feeds every observation, in the order of the channel, first to
`observations.ndjson` and then to the match book, and the book's answer ("this
signature has just reached the minimum") is the only place where the target is
looked at. After the loop the book is emptied into `matched-events.ndjson` and
`finish()` closes the directory. The offline commands (`stream verify`,
`report`, `attach-validation`) meet the runner only through that directory; no
lock says who may be in it. `stream report` reads the matched events back and
hands their offsets to the percentile code. `solbench grpc` has the same shape as
the stream run with two tasks, its own pairing map and no timer. `probe` runs a
scheduler thread per endpoint and compares the endpoints afterwards, tick by
tick; `serve` and `report` show what it makes of them.

**Hard behaviours.**
- Concurrency: `select!` takes any ready branch, so a queued failure, an elapsed
  grace and the wall clock compete; stamps are taken before an `await`.
- Protocol: warm-up, race and grace are not a state variable in the code but
  follow from a set and an `Option`; the stall clock runs through all three.
- Failure: a source may fail before, in or after its subscription, and is
  required or optional; the process may be killed, or leave by `?`, between any
  two writes, and a `BufWriter` may have spilled half a line by then.
- No lock on the directory: an offline command may read some of the files before
  `finish()` writes them and others after it, and hash a file that is then replaced.
- An outside world that moves on: blocks that are abandoned, answers that are
  lost, late or from behind the tip.
- Limits: a full channel, a full unpaired map, the cap on requests under way,
  time-outs that are due at once on a slow machine.
- Numbers: ranks rounded up in two places, ties, endpoints measured over
  different ticks, a calendar computed by hand.

**What makes each component correct.** The book's counter agrees with its
entries and a repetition changes nothing but the duplicates (`MatchBook`). The
runner loses, repeats and reorders nothing, arms the grace exactly when the
target is met, notices silence, ends, and calls an attempt completed only when it
is (`StreamRun`). The directory says "completed" only beside its evidence, a page of a final manifest
shows all of it, and it verifies unless a command interfered (`AttemptStore`). The
percentiles of a report are quantiles and its tables, computed in separate passes, agree (`StreamReport`). A win in the slot
race stands for one real report of either endpoint, the first ones unless the
backlog was dropped (`GrpcRace`). The probe sends on schedule unless its cap
holds it, and is then late by a bounded delay; it counts every tick once and ends
(`Probe`). Slots behind compare
endpoints fairly although some ticks failed (`ProbeResults`). What `send` counts
as landed has landed, once and for good, and in no fewer slots than lie between its submission
and its block (`SendLanding`). The published date is the Gregorian one (`Calendar`).

## 2. The modules

| Module | Role | Proofs |
|---|---|---|
| `MatchCount` | abstract: who reported what, and how many signatures enough sources reported | |
| `MatchBook` | `StreamMatchBook`; implements `MatchCount` | `MatchBookProofs` |
| `Attempt` | abstract: what an attempt promises to a reader of its directory | |
| `StreamRun` | source tasks, channel and runner, with an instance of `MatchBook`; implements `Attempt` | `StreamRunProofs` |
| `AttemptStore` | the attempt's directory under a run and the offline commands, file by file | `AttemptStoreProofs` |
| `Sorting` | the library's stable sort by a key | `AlgorithmProofs` |
| `Stats` | nearest rank and summary | `AlgorithmProofs` |
| `StreamReport` | the figures `build()` makes of a match book; extends `MatchBook` and `Stats` | `StreamReportProofs` |
| `GrpcRace` | `grpc.rs`: two tasks, channel, pairing | `GrpcRaceProofs` |
| `Probe` | `run_endpoint`: schedulers, workers, the order of the samples | `ProbeProofs` |
| `Calendar` | `civil_from_days` | `AlgorithmProofs` |
| `ProbeResults` | what `probe_all`, `serve` and `report` make of a finished probe; extends `Probe`, `Stats`, `Calendar` | `ProbeProofs` |
| `SendLanding` | `send.rs`, `landing.rs`: submission, poll, tracker, against a cluster | `SendLandingProofs` |
| `MCStreamRun`, `MCStreamReport`, `MCGrpcRace`, `MCProbeResults`, `MCAttemptStore` | symmetry sets, orders and a constraint for TLC | |

`StreamRun` composes the tasks, the runner and the book (`Book == INSTANCE
MatchBook`, on the runner's own variables). `AttemptStore` takes over where
`StreamRun` ends: of the loop it keeps only what is handed to `finish()`, and
that a "completed" outcome meets the target is what `StreamRun` shows
(`ImplementsAttempt`). `StreamReport` reads whatever book `MatchBook`'s actions
can build, and `ProbeResults` whatever samples `Probe` can record, so their
inputs are states the program can be in. Definitions marked *Mutant* are variants
of the definition that follows, each a plausible slip in that code. They are used
by no specification; substituted for the original they make a property fail,
which shows that the property depends on that line of the program.

### MatchBook
`events`, `duplicates` and `matched` are the struct's fields. An arrival is its
`receive_offset_ns`; slot, unix time and `created_at` travel with it and the book
never looks at them. `Observe` has the two outcomes of `observe`: `Duplicate` is
the early return at line 61, `FirstArrival` the rest, `Newly` the returned
`bool`.

### StreamRun
| Code | Model |
|---|---|
| `subscribe_inner` up to `Connected` | `Connect` |
| `subscribe` on an error or the stream's end | `Fail` |
| an update: stamp, then `tx.send(..).await` | `Receive`, then `Send` |
| `select!` branches | `StartupTimeout`, `WallTimeout`, `GraceElapsed`, `StallTick`, and on the channel `TakeConnected`, `TakeFailed`, `WarmUp`, `TakeObservation`, `AllEnded` |
| `stall.tick()` with `MissedTickBehavior::Delay` | `StallTick` moves `stallAt` to a period from *now* |
| lines 201-231 | `Finish` |
| `?` on a write error, or a kill | `Abandon` |

*Data.* A transaction is its signature. The offset is the arrival's place in the
order of all arrivals (`received`): the clock is monotonic and shared, and no
decision of the program depends on its values, only on their order. The
manifest's host and addresses come with `Connected`, so `connects` stands for
them; `disconnects` also stands for the list of errors.
*Time.* `now` counts units of the configured timeouts. `Tick` is the passage of
one unit; while some step is ready at most `Lag` units pass. `Lag = 0` is a
machine that is fast next to timeouts of seconds; `Lag = 1` lets timers fire a
unit late, several at once. Arrivals may come at any point between two ticks.
*After the loop.* The receiver is still alive while `run_async` writes, but what
the tasks then do is observed by nobody, so they stand still.
*Histories.* `received` is in no variable of the program; it records arrivals
so that properties can speak of them.

### Sorting, Stats and StreamReport
`SortBy` is what the library promises of a stable sort: the k-th element of the
result is the one with k keys, its own included, at or before its own. A quantile is a fraction, and the product that the code takes in `f64` is exact:
for the five quantiles in use and any number of samples a run can hold the
rounded product is whole exactly when the fraction is, so `ceil` agrees. Mean and
deviation are cut to whole nanoseconds, as in the code. `pair()` does not use
`stats.rs`: it has a quantile of its own over signed deltas, so `DeltaAt` is a
second definition. `Leaders` is `min_by_key` over a `BTreeMap`: a tie goes to the
source whose name is first in the alphabet, which is why sources are numbers, and
the configuration's order (`Listed`) is another one. `Fastest` is `max_by`, which
keeps the last of equals.

### AttemptStore
| Code | Model |
|---|---|
| `ArtifactWriter::create`, `finish`: their files in order | `CreateFiles`, `FinishFiles`, `Write`; `Created` |
| `observation`, `matched`, a `BufWriter` that is full | `Observation`, `Matched`, `Spill` |
| `atomic_json`: the `*.tmp`, then the rename | `Put`, two writes |
| `write_checksums`: list, then read and hash each file, then write | `List`, `Hash`, `Seal` |
| `stream report`: `render`'s three reads, with nothing verified | `StartReport`; `ReadOrder`, `Read` |
| `validate_operator_lifecycle`; `render`'s writes, checksums | `Publishable`, `StartRender`; `RenderFiles`, `Write`, `List` .. `Seal` |
| `public_bundle` | `BundleFiles`, `Bundle` |
| `attach-validation`: verify, then checksums | `StartAttach`, `List` .. `Seal` |
| a kill, or `?` on a read or a write | `Stop` |

The run and an offline command take turns step by step: a page is made of the
manifest that was read first and of events and health that were read later, and a
checksum is that of the file as it was when it was hashed. `read` is what `render`
holds, `sums` what `write_checksums` has listed and hashed. A `*.tmp` is a file of
the directory as any other: it is listed and hashed when it is there, and may stay
when its writer stops.

A file's content is what a reader can tell about it, and its hash is its content.
`summary.*` and `report.*` are one file each. The two NDJSON files grow by `Spill`
in halves of lines, at any time; a single file is read, hashed or written in one
step, and the names of a directory are listed in one. One offline command runs at a
time, while the run is at work or afterwards. What `verify` says of a directory in
which the run is writing is left open, since it reads file after file. Attachments
lie in `validation/`, which the checksums do not cover; what is left of `attach` is
`verify`, then a rewrite of the checksums. The directory belongs to one run.

Two histories say when the checksums can be vouched for. `fresh`: the command listed
the files after the run's end. `doubt`: a command wrote while the run was at work, or
stopped as it wrote; the next one that is `fresh` and seals the directory ends it.

### GrpcRace
`TakeFirst`, `TakePair` and `TakeRepeat` are the three arms of the `match` on the
unpaired map, `TargetMet` and `BothEnded` the loop's two exits. `Since` is
`saturating_duration_since`. `pairs` and `cleared` are histories. A task's
connection and its stream may fail silently (`End`), as in the code, where the
error is printed and the task returns.

### Probe, ProbeResults and Calendar
| Code | Model |
|---|---|
| the `for` loop: sleep to the tick, join the oldest at the cap, spawn | `Issue`, when `CanIssue` |
| a worker: a slot / no slot or an error | `Reply` / `RequestFails` |
| `ureq`'s 6 s timeout | `Expired`: time does not pass it |
| joining the rest, sorting | `Join`, `Data` |
| `tick_leader`, `slot_lag` | `Leader`, `SlotLag` |
| `server.rs` `render`: the tagged row | `Best` |
| `report.rs` `run`: the entries, `round1`, the date | `Entry`, `Tenths`, `Run` |

`handles` keeps ended workers until they are joined, as the code's vector does,
so the cap counts them. The worker's start is part of `Issue`. Endpoints share
the schedule and nothing else until all are joined. `HostOf` is `redact_host()`, by
which `render` tells its rows apart: all rows of the best row's host are tagged, as
two endpoints may share a host. `sentAt` and `doneAt` are
histories. An `Option` of a record is a sequence of at most one record. `Tomorrow` is the Gregorian rule as it is taught, against which the
code's arithmetic is proved.

### SendLanding
| Code | Model |
|---|---|
| the cluster | `Include`, `Abandon`, `Confirm`; time and slots are `tip` |
| `get_blockhash`, `get_slot(..).unwrap_or(0)` | `GetBlockhash`, `GetSlot` |
| `send_tx`: the node takes the transaction | `Take`, while the request is under way |
| `send_tx`: a signature / an error | `SendAccepted` / `SendRejected` |
| the `while` loop: in time, `sig_slot`, sleep | `AskStatus`, `StatusLanded` or `StatusNone`, `Wake` after `Pause` |
| the loop's condition no longer holds | `TimeIsUp`, then `GiveUp` |
| `?` on a request | `RequestFails` |
| `LandingTracker` | `RecordLanded`, `RecordFailed`, `SlotDeltaSummary` |

A transaction is its signature, that is memo number and blockhash; a blockhash is
the slot it is of. `started` is when the transaction was submitted, that is when the
request went out; the transaction may be in a block before the node has answered.
An error leaves open whether the node took it: the reply may be what was lost. A
confirmed block is final. `StatusNone` is possible whatever the transaction's state,
as the node that is asked may be behind. A request takes up to `Timeout`, so an answer
may come after the time for the transaction is over, and counts, as in the code.
`Pause` is the 500 ms between two looks, which may begin just before the limit and end
after it. `landings` is a history.

The timeouts, 20 s here and 6 s in `Probe`, are those the agents are given. `ureq`'s
does not bound the name lookup, and the connection has a limit of its own, so bounds
in terms of `Timeout` are nominal to that extent.

## 3. The runs

| Run | Instance | Shows |
|---|---|---|
| `Report` | 3 sources, 3 signatures, 2 offsets, minimum 2, one repetition | the book's counter and entries agree, `MatchCount` is implemented; of every book, the percentiles are quantiles, the tables computed in separate passes agree |
| `OptionalSource` | 1 required, 1 optional source, target 1, capacity 2, 4 arrivals, wall 4 | nothing lost on the way into the evidence, the book can be rebuilt from it, grace armed once and not moved, the optional source neither holds the warm-up nor ends the attempt, the attempt is over at its wall, `Attempt` implemented |
| `Termination` | none required, `Lag = 1`, capacity 1, wall 4, fairness | on a slow machine: a matched attempt completes unless something failed, silence is noticed in time, and the wall ends the attempt but for messages taken late |
| `Race` | 2 endpoints, 2 events, 2 repetitions, capacity 1, backlog limit 1, fairness | wins are real and disjoint, first reports pair, nothing shared is passed over unless the backlog was dropped, the race ends with its streams |
| `Probe` | 4 ticks, cap 2, timeout 3 intervals, fairness | what a late request waited for and how late it can be, no tick forgotten or doubled, the probe ends |
| `Results` | 3 endpoints on 2 hosts, 2 ticks, 2 slots, cap 2 | slots behind are the same whether or not the other ticks failed; the fastest tag is on one host's rows and right by counting replies |
| `Send` | 2 transactions, poll, pause and blockhash 2 slots each, nodes up to 1 slot behind, fairness | what is counted as landed stays on chain in that slot, none is counted twice, no delta is less than from the submission to the block, the report covers every attempt, no attempt outlasts its limits, the run ends |
| `Store` | 1 run, up to 3 offline commands, 1 row, stops anywhere | completed is backed by evidence; a page of a final manifest shows all of it; a finished attempt verifies unless a command wrote during the run or was cut off; a cut-short bundle does not verify |

Four runs state a sentence of the documentation and end in a counterexample:

| Run | The sentence | What the code does |
|---|---|---|
| `SourceFailure` | `docs/stream-methodology.md:5` "A source failure aborts the fresh attempt" | a required source's `Failed` that is queued when the grace runs out may be passed over by `select!`; the attempt is completed and its health table shows no error |
| `FirstSeen` | `docs/stream-methodology.md:7` "Local monotonic arrival establishes first-seen order" | an arrival spent on the warm-up is dropped while later arrivals of the same signature are kept, so another source is shown as first |
| `SlowReply` | `README.md:169-170` "a slow reply never delays (and never hides) the next sample", `probe.rs:5-6` "never delays the next send" | with `MAX_INFLIGHT` requests under way the scheduler waits for the oldest, and sends nothing meanwhile; with 64 and 6 s that takes more than 64 samples and an interval below 94 ms |
| `StoreVerify` | `docs/artifacts.md:11` verify "validates ... completion eligibility" | the directory of a run that never finished has no checksums, status "created", and is accepted |

Some things the code does were met on the way and are the subject of no run of
their own:

- `grpc.rs:4-5` promises "which endpoint reports the same (slot, status) event first,
  and by how much". A task stamps before it waits for the channel (`grpc.rs:143-145`)
  and the win goes to the report that is taken first (`grpc.rs:60`): when that is the
  later one, its lead saturates to 0. `WinsAreReal` says what a win does stand for.
- `probe.rs:22-23` says, more carefully than the sentences of `SlowReply`, that the
  "open-loop still issues on schedule until this many are outstanding". The cap counts
  workers that are not joined, ended ones included, so one slow oldest request holds
  the schedule although only it is outstanding. `OnSchedule` says what a late
  request waited for and how late it can be; the delays of successive rounds add up.
- Repetitions of an event after its pairing race it again and count in the total.
- Two runs started in the same second share an id (`runner.rs:44`), and `create` takes a
  directory that is there (`artifacts.rs:74-79`). As a completed run lasts at least the
  second of its grace, the two are live together: each writes the same NDJSON files
  at its own descriptor's offset and replaces the other's manifest, although
  `docs/artifacts.md:3` calls the directory immutable. `AttemptStore` has one run.
- `attach-validation` and `report` may write checksums over those of a run that finished
  while they hashed: a completed attempt that does not verify, with nothing
  killed. `FinishedVerifies` says how far this goes (`doubt`), and that a `report`
  after the end repairs it; `attach-validation` cannot, since it verifies first.
- A private `report` that read the manifest before `finish()` replaced it and the health
  table after it was written renders a "created" attempt beside a completed
  one. `ReportIsBacked` says that the attempt has ended by then, and another `report`
  repairs it.
- A failed `getSlot` makes a landing's delta the absolute slot.
- A transaction whose send response was lost, or that lands after the 30 s, is
  counted as failed, although `landing.rs:39` says "never landed", so the landing
  rate is a lower bound.
- `report.rs:309` labels the headline delta "deshred − processed", but its sign
  follows the order in which the configuration lists the two sources.

`PairedFromFirstReports`, the store's and `SendLanding`'s properties are stated so
that they hold with these.

**Bounds, and why they are enough.** *Report*: three sources are what it takes
for a match without one of them, for a pair of sources that share only some of
the matches, and for ties between the first two with the third behind. Three
signatures give every source up to three samples, so that the median and the
higher percentiles fall on different ones; two offsets give ties and leads. What
more samples would do to a rank is proved. *StreamRun*: two sources are the least
`validate` admits and all of the runner's decisions are per message; a third
source matters only where a match can happen without a source that has already
delivered (`FirstSeen`). One required and one optional source reach both kinds of
failure; the required one spends an arrival on the warm-up, so `MaxMessages = 4`
leaves three for the race: a match and a repetition, or a match and a further
signature. A capacity of 1 or 2 fills constantly; what 8192 does rarely happens at
every step. The timeouts are chosen to differ in order: startup before stall,
stall periods short enough to pass twice before the wall, grace able to end before or at the
wall. Without its wall an attempt would go on for longer than that on these few arrivals
already: each puts off the stall. For everything beyond these numbers there are the theorems of section 4.
*GrpcRace*: one event suffices to pair and be repeated, the second fills the
backlog of one. *Probe*: a cap of two with four ticks lets a request be held,
catch up and be held again; the clock's horizon lies beyond the longest probe.
*Results*: with three endpoints the tick's leader may be either of the others or
have failed; two ticks make an endpoint that failed at one comparable at the
other only; slots 1 and 3 are behind by more than one. *Send*: two transactions
let the first land while the second is looked for; a poll as long as the blockhash
lives lets it land after the poll; a pause as long as the poll lets a look that was just in time
end late. *Store*: one row shows every torn and missing state of an NDJSON file. Three
commands let one spoil the checksums during the run, one be cut off, and one repair
them. TLC lists the directory in one order, the theorems in any; targets and
publication minimum are 1 there, and the theorems cover the others.

**Symmetry** permutes signatures, and sources of the same kind, in runs without
liveness properties. No action or property of those runs tells them apart; the
sources of `Report` and the endpoints of `Results` are ordered by the code and are
not permuted.

**Fairness and why the code justifies it.** In `StreamRun`, time goes on (`Tick`),
a branch of `select!` that stays ready is taken in the end (tokio starts at a
random branch each time), `Finish` is straight-line code, and a task waiting in
`send()` is woken when there is room. Nothing is assumed of the network:
`Connect`, `Receive`, `Fail` have no fairness, so a source may be silent for
ever, and neither has `Abandon`. That the attempt ends at all is stated without
fairness, as a deadline (`EndsByWall`): TLC can only follow so many arrivals, and with
a bound on arrivals every fair run ends by silence, wall or no wall. In `GrpcRace` the loop and `Send` are fair,
streams are not, and `EndsWithStreams` is conditional on their end; a silent
endpoint does keep the race going for ever, as that code has no timer. In
`Probe` threads are scheduled and time goes on; endpoints need not answer. In
`SendLanding` slots go on and a request without an answer ends with its timeout;
nothing is asked of the cluster.

**Where the system may stop.** Every run checks deadlock, and the specifications
stutter explicitly when the program has exited (`Ended`, `Finished`, `AtRest`, `Done`).
A match book has no end of its own: it can always be told of a repetition.

## 4. What is proved

Every theorem is of the form `Spec => []P` or `Spec => [][A]_vars`, or is about an
operator, and holds for every value of the constants that the module's named
`ASSUME`s admit. TLC evaluates the same `ASSUME`s in the runs. Invariants that are
only needed by a proof stand in the proof's module, under the names used here.

**`MatchBookProofs`** — every finite set of sources, every set of signatures
(infinite ones included), every set of offsets, every minimum above 0:
`BookTypeOK`, `BookMatchedAgrees` (`matched_count()` equals the number of events
`into_events()` returns, always), `BookFirstArrivalKept`, `BookImplementsCount`
(every step of the book is a step of `MatchCount` or a stutter).
*Assumptions*: `MinSourcesAssumption` (validate demands 2; 1 suffices),
`SourceAssumption`, `AbsentAssumption`. *Argument*: `MatchedAgrees` is not
inductive, because with infinitely many signatures the number of matched ones
means nothing unless they are finitely many; `Inv` adds that and the types.
`FirstArrivalAdds` and `FirstArrivalMatches` say that a first arrival gives its own
entry one more source and the matched set one more signature exactly when
`observe` answers `true`; repetitions change neither.

**`StreamRunProofs`** — every set of sources, every configuration `validate` lets
pass, every capacity, every delay (`Lag`), any number of arrivals:

| Theorem | States |
|---|---|
| `RunTypeOK` | types; the channel never exceeds its capacity |
| `RunGraceIffTarget` | the grace is running exactly when the target is met |
| `RunNeverShortOfTarget` | a loop left without a failure has met the target |
| `RunGraceKept` | the grace is armed once, and only its end leaves the loop without a failure |
| `RunImplementsAttempt` | every step is a match, the closing, or invisible: `Attempt` is implemented |
| `RunEvidenceReplay` | the book can be rebuilt from the rows of `observations.ndjson` |
| `RunEndedOnlyWithoutRequired` | a required source's failure is always taken before the channel is seen closed |
| `RunSilenceBounded` | silence is noticed within two stall periods, `Lag`, and `Lag` for each message queued |
| `RunEndsByWall` | the attempt is over at its wall, whatever its sources deliver; only messages taken after the wall put that off, each by twice `Lag`, and `Lag` for each message queued |
| `RunWarmBeforeRace` | no row before every required source has spent an arrival on the warm-up |
| `RunNothingLost` | nothing is lost, repeated, mixed up or reordered between a stamp and its row |

*Assumptions*: `ConfigAssumption` (what `validate` demands), `TimerAssumption`
(the runner's `stall.max(1)`), `NoneAssumption` (the absent value is no offset,
reason or message), `BoundAssumption`. *Argument*: `Inv` ties together what the
code keeps in four places. The book's counter equals its entries
(`MatchBookProofs`' lemmas, instantiated on the runner's variables); the grace is
set iff the counter has reached the target; an exit without a failure is the
grace's; the manifest is `create`'s until `Finish`. None is inductive alone: the
second needs the counter to grow by one and only when `Newly` says so, the third
needs the second, and the refinement needs the first to know that the count
written to the manifest is that of the file next to it.
The later theorems each have an invariant beside `Inv`. *EvidenceReplay* is its own,
in two halves: a row that is appended is either the first of its signature and
source, and becomes the arrival, or one duplicate more. *FailureComing* follows a
required source that has ended: its `Failed` is being sent, or queued, or the
failure has been set. *Silence* says that the
interval's next tick is never two periods after the last message, and that time has
passed the later of the two by what the step now ready was late and, at most, `Lag`
for every message queued since; that bound is exact (with one `Lag` less TLC finds a
counterexample). *Overtime* is the same of the wall, with one `Lag` more, for the one tick
of the stall interval that can come between two messages without ending the attempt
(`NotFarBeyond`); it is exact too. *Warming* says that a warm source has more
messages than rows. *Journey* is `NothingLost` with the order inside the task and
the channel: what is being sent or queued is an arrival with its own stamp, the
queue is sorted per source, and what is being sent is younger than what is queued.
`Account` is `NothingLost` of one source over any sets, with one lemma for each
thing that can happen to them: an arrival more (`AccountGrows`), the oldest in
flight spent (`AccountSpends`) or recorded (`AccountRecords`).

**`AttemptStoreProofs`** — every target, publication minimum, number of rows and of
commands, and order in which a directory is listed; one run, and every interleaving of
its reads and writes with those of the commands, any of which may stop anywhere:
`StoreTypeOK`, `StoreCompletedIsBacked`, `StoreReportIsBacked`,
`StoreFinishedVerifies`, `StoreBundleIsWhole`. *Assumption*: `StoreAssumption`.
*Argument*: `Inv` says of the run how far its files have come, write by write (`Stages`:
up to the rename of its manifest, the manifest in place says "created", and by
then both buffers are in their files; the health table is last), and that a manifest
which is not the first is the last (`Ending`), so that what a command has read of a final
manifest is still there when it writes (`Reading`, `Rendering`). `Sealing` follows the
two lists of hashes: the run's can be trusted unless a command is or has been
writing, the command's if it was listed after the run's end. `Bundling` says how much
of a bundle exists. A step of one process is shown to keep the other's part from what
it leaves alone (`RunKept`, `ToolKept`, `BundleKept`).

**`GrpcRaceProofs`** — any set of events, any repetitions, target, capacity and
backlog limit: `RaceTypeOK` (the limits are kept), `RaceWinsAreReal`,
`RacePairsFirstReports`, `RaceSharesEvents`. *Assumptions*: `EndpointAssumption`
(two endpoints), `LimitAssumption`, `NoneAssumption`. *Argument*: a stamp is made
once and then is in exactly one place — being sent, queued, waiting, or in one
pairing (`OnePlace`) — and says what was reported there (`Real`); `Counted` ties
the four counters to the pairings. The other two need the order as well (`Kept`):
a task's reports are queued in the order it made them (`InOrder`), and while the
backlog was never dropped the report that waits or was paired is the endpoint's
first (`FirstKept`).

**`ProbeProofs`** — any endpoints, number of ticks, cap and timeout, whatever the
endpoints answer. *Assumptions*: `ProbeAssumption`, `ResultsAssumption`.

| Theorem | States |
|---|---|
| `ProbeTypeOK` | types |
| `ProbeLateOnlyBehindOldest` | what a late request waited for |
| `ProbeDelayBounded` | it is late by a timeout at most for every `MAX_INFLIGHT` requests before it, and the probe is over a timeout after the last one's deadline |
| `ProbeOnSchedule` | both |
| `ProbeWithinHorizon` | the bound on the clock never stops a probe |
| `ProbeEveryTickCounted` | one sample or one error for every tick |
| `ProbeLagIsFair` | slots behind compare two endpoints as their answers do |
| `ProbeFastestByCount` | the fastest tag is on all rows of one host and no other, and one of them is the fastest by counting replies |

*Argument*: the unjoined workers are those of the last ticks in their order
(`Handles`), so the oldest is found by counting back; each ended worker has left one
sample or one error (`Workers`, `Accounts`); and time does not pass a scheduler that
could go on, so when it can, one of the things it waited for has just happened
(`Punctual`). `Delayed` adds the deadlines: `MAX_INFLIGHT` ticks later the deadline is
a timeout later (`DeadlineLater`), so one that waits for the request
`MAX_INFLIGHT` before it meets its own. The report is a function of the samples. An
endpoint's samples are one for each tick it answered, in the order of the ticks
(`DataFacts`), and at each of them the slots it trails by and the slot it named add up
to the tick's leader (`LagFacts`); summed, the leaders are the same for all who answered
the same ticks (`LagAndSlots`, `SameTicks`). For the fastest row a median is turned
into a count of samples at or below it (`MedianFacts`), and medians are compared by
comparing counts.

**`StreamReportProofs`** — any number of sources and of matched events, all offsets:
`ReportPercentilesAreRanks`, `ReportTablesAgree`. *Assumptions*: those of
`MatchBookProofs` and `ReportAssumption` (sources are numbers in the order of their
names, each listed once). *Argument*: both properties hold in every state in which the
book's own invariant does; nothing else is inductive. A percentile is one of the values
collected from the matched events, each of them once, whatever the order in which they
were collected. The tables agree because the earliest arrivals of the matched events
are dealt to the sources, one each (`SharesSum`); a source that is first has lag 0
there, and the others' medians and maxima follow from counting.

**`AlgorithmProofs`** — the operators, for inputs of every size.
`PercentileOfSamples`: of any samples in any order, sorted and ranked as the code does,
the share q lies at or below the value shown and less than that share below it;
`NearestRankIsQuantile` is the same of samples that come sorted. `DatesFollow`: for every
integer day, the date of the next day is the Gregorian successor of its date; `Epoch`:
day 0 is 1970-01-01; together they determine `civil_from_days` on all days.
*Argument*: a place in the order is an injection of the positions into themselves,
hence onto (`PlaceIsOnto`), so the sort permutes (`SortByOrders`). A sum is a recursion
over subsets whose order is not known: `SumExists` and `SumAnyFirst` show that it has a
value and that any element may be taken first, from which the laws of sums follow
(`SumAdd`, `SumMoves`, `SumBound`, `SumOfCounts`). The library's induction theorems take
the property as an operator, which no installed prover can instantiate; the inductions
here take it as a set instead (`NatSetInduction`, `SubsetInduction`), which is why
they go through. `YearBounds` shows that the three corrections of the code's `yoe` pick
the year the day is in, the last day of an era included, and `MonthStep` that
`(153 m + 2) / 5` has the months' lengths.

**`SendLandingProofs`** — any number of transactions, every time limit, timeout,
validity and lag of the nodes: `SendTypeOK`, `SendLandingsAreReal`,
`SendLandedOnce`, `SendDeltaNotUnderstated`, `SendEveryAttemptCounted`,
`SendReportIsRight` (the printed extremes and median too), `SendAttemptsBounded` (an
attempt takes at most the poll's limit, three timeouts and one pause),
`SendWithinHorizon`.
*Assumption*: `SendAssumption`. *Argument*: inductive only together with what the
loop's order gives. `Counted` (the loop's counter and the tracker's fields say the
same), `Fresh` (before a submission no node knows its signature, because the memo
holds the number of the attempt), `Earlier` (what is counted is of an earlier
attempt), `Submitted` (the submit slot was asked for before the transaction was
submitted, and from the node's answer on the cluster has it). `ClusterStep` says what the cluster may still do to a transaction and that
it is nothing once it is confirmed. The median of the report is settled by counting the
places before and after it (`SummarySplits`). `Paced` says how late it may be at each
place of the loop; the bound on an attempt is exact (with one slot less TLC finds a
counterexample).

**Only model-checked.** `MatchedAttemptCompletes`, `EndsWithStreams`, `ProbeEnds` and
`SendEnds`, since liveness under fairness is out of this prover's reach. For the last two
the theorems come close: `ProbeDelayBounded` and `SendAttemptsBounded` say by when the
clock must find the probe and the run over, so all that is left to fairness is that the
clock goes on. For the stream run `RunEndsByWall` says so of a machine that keeps up
(`Lag = 0`). On a slower one no bound exists: nothing in `select!` limits how long
messages are preferred to an elapsed timer.

## 5. Not modelled, and why

- Contents of requests and updates, base58, URLs, environment-variable names,
  redaction and credential scanning, Markdown and HTML: data and layout.
- `solbench-core/src/timeline.rs`: no command uses it.
- `main.rs`, `util.rs`: argument parsing and printing, no state. What
  `server.rs` and `report.rs` decide is in `ProbeResults`; their layout is not.
- Damage to a directory from outside. `report` writes the checksums anew
  without verifying first, so it would seal damaged evidence.
- Two runs, or two offline commands, at once in one directory, and `tokio`, `tonic` and the file system beyond
  what the modules say of them (a bounded FIFO channel, timers, atomic rename,
  buffered append).
- The wall clock: `receive_unix_ns` and source `created_at` are reported but
  decide nothing.
- Floating point: the products and quotients that the code takes in `f64` are exact
  fractions here, rounded where the code rounds.

## 6. What is left

The modules cover every component that keeps state or decides something, and every
safety property that a run checks is a theorem. What would add most from here:

1. Two live runs in one directory (section 3), or two offline commands at once, in
   `AttemptStore`: nothing in the code excludes either.
2. The end of an attempt on a machine that lags, where `select!` is fair by
   probability, which neither TLC nor TLAPS can speak of.
