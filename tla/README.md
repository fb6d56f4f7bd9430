# Tollify in TLA+

Formal models of the toll pipeline of this repository, model-checked with TLC
on small instances; every safety and action property of the passing runs, and both
refinements, are also proved with TLAPS for every value of the constants.
Every definition is translated from the Go source; `PROJECT.json` names the
lines (`map`), the hazards of the code, and the property that covers each.

## The system

    OBU simulator --WebSocket--> receiver --Kafka--> distance calculator
                                                         | HTTP or gRPC
    client --> gateway --HTTP--------------------------> aggregator
    benchmark runner: drives the aggregator directly and the whole pipeline

| Part | State it keeps | Operations | What makes it hard |
|---|---|---|---|
| OBU simulator (`obu`) | atomic counters and fingerprint, job channels | `validateConfig`, `parseRamp`, dialling, scheduler tick, phase end, writer, max-mode worker, `recordSuccess`, `recordFailure`, closing | writers race on the counters, channels fill up, dials fail, connections break, a signal at any moment |
| Receiver (`data_receiver`) | connection map under a mutex, counters | `handleWS`, receive loop, `ProduceData`, `closeConnections`, shutdown and flush | acknowledgements late, missing or repeated; one poller for all; shutdown beside running handlers |
| Kafka (external) | logs, committed offsets | append, commit, rebalance | records repeated, commits whose answer is lost |
| Distance calculator (`dist-calc`) | previous points, cached results, read position | read, validate, calculate, aggregate, commit, seek back | retries racing late replies, crashes between aggregation and commit |
| Aggregator (`aggregator`) | totals, processed IDs, running reconciliation record, metrics | `AggregateDistance`, `CalculateInvoice`, `Reconciliation`, the handlers and counters around them, shutdown of two servers | concurrent handlers, replays, restarts that lose everything, counters that trail the store, one deadline for two servers |
| Gateway (`gateway`) | none | invoice proxy | answers that come after it gave up |
| Benchmark runner (`benchmark`) | latencies, scraped histograms | worker pool, percentiles, pipeline loads | samples late or lost, scrapes taken too early, ranks off by one |

What each part should guarantee: an event is charged at most once, and for
exactly the distance from the previous event of its OBU; an offset is
committed only when its event has been applied; nothing is skipped and nothing
healthy waits for ever; totals and the reconciliation record always describe
the same set of events; the summaries and reports printed at the end describe
what happened; every process stops when told to.

## Modules

| Module | Models | Notes |
|---|---|---|
| `Fingerprint` | `types.EventReconciliation` | XOR words are sets of bit positions, so that equal hashes cancel as in the code; sums wrap at `2^HashBits`. `ReconciliationOf` is the reference definition. FNV-1a is a constant function |
| `Ledger` | what the aggregator promises | abstract specification: one atomic ledger |
| `MemoryStore` | `aggregator/store.go`, `service.go` | one step per statement under the `RWMutex`, which is modelled as Go's: an arriving writer shuts out new readers |
| `DistCalc` | `dist-calc/consumer.go`, `service.go`, the `Aggregate` clients and handlers | the whole loop with Kafka and the network as external actions; the aggregator is the ledger that `MemoryStore` implements |
| `AtLeastOnce` | what the calculator promises | abstract specification: records are finished in order, an event after it was charged |
| `DistCalcProofs` | | inductive invariants and theorems: types, offsets and commits; that `DistCalc` implements `AtLeastOnce`; what it charges |
| `FingerprintProofs` | | sums and fingerprints of finite sets, by induction; the other proofs cite its lemmas |
| `MemoryStoreProofs`, `ReceiverProofs` | | theorems about the store and about the receiver |
| `AggregatorProofs`, `GatewayProofs` | | the aggregator's shutdown and the steps of its counters; then the theorems about counters, callers and invoices |
| `LoadGeneratorProofs` | | theorems about the simulator: where its events are, then the counters and the summary |
| `BenchmarkProofs` | | percentiles and histogram quantiles of any samples; theorems about the worker pool and the pipeline loads |
| `Aggregator` | `aggregator/http.go`, `grpc.go`, `middleware.go`, `main.go` | the process around the store: handlers, counters, shutdown. The service is the `Ledger` |
| `Gateway` | `gateway/main.go`, `aggregator/client` | callers composed with `Aggregator`; its specification is the one checked |
| `LoadGenerator` | `obu/main.go` | `Init` chooses a configuration; invalid ones are refused |
| `Receiver` | `data_receiver/main.go`, `producer.go` | handlers, the Kafka client's poller, the shutdown path |
| `Benchmark` | `benchmark/main.go` | worker pool, percentile and histogram operators, scrapes |
| `MC*` | | constants for TLC |

How state corresponds to the code. In `DistCalc`, `pc` is the place in `Start`
and `processMessage` (`top`, `read`, `process`, `wait` for the call, `commit`,
`seek`, `exited`), `msg` the record in hand, `position` the client library's
read position, `prevPoints` and `results` the two maps of `CalcService`. A call
is a request on `wire` that may be handled after its caller gave up. In
`MemoryStore`, `pc[t]` is the next statement of goroutine `t`; `ledger` is a
history variable that records each charge when `m.data` changes. In
`Aggregator`, `at[c]` is how far request `c` has come: on the `wire`, in the
`handler`, waiting for its `body`, at the `service`, then the counters one by
one (`count`, `sample`, `finish`), `counted` until the server sends the response, and
`answered`; `mpc` is where `main` is in
its shutdown, and `late` whether the ten seconds ran out. In `Gateway`, `seen`,
`acked` and `floor` are history variables that record what callers were told. In
`LoadGenerator` the writer steps follow `recordSuccess` one atomic operation at
a time, including the load and the compare-and-swap. In `Receiver`, the
deferred functions of `handleWS` are one step (`Leave`), and `delivery[e]` is
the channel that `ProduceData` makes for one event. In `Benchmark`, a fraction
stands for the interpolated float, one transport for the two that are measured in the
same way, and the first load for the warm-up of the pipeline. The requests of the
transport are sampled in the histogram from which the loads are read later;
`transit[l]` are the events of load `l` on their way, and `own` is a history variable
that holds the samples of the current load alone.

Definitions commented `Mutant` are deliberately wrong variants of the
definition that follows them. No specification uses them; they document which
mistake each property detects (`mutants` in `PROJECT.json`).

## Runs

Run a check with `tlc -config X.cfg M`, for example
`tlc -config MCReceiver.cfg MCReceiver`.

| Run | Configuration | Checks | Shows |
|---|---|---|---|
| `store` | `MCMemoryStore.cfg` | `StoreAgreesWithCharges`, `ChargesAreFinal`, `EveryCallReturns`, `ImplementsLedger`, `TypeOK` | three handlers, three events of which two share a hash, replays and invalid requests: the locked code is the atomic ledger |
| `calc_restarts` | `MCDistCalcRestarts.cfg` | `CommittedWereApplied`, `PositionTracksCommit`, `NeverOvercharged`, `ImplementsAtLeastOnce`, `TypeOK` | three events of one OBU and one with a rejected ID, a distance that cannot be encoded, two calls at once, two crashes or stops, one aggregator restart |
| `calc_repeats` | `MCDistCalcRepeats.cfg` | `ExactWhileAlive`, `CommitsAdvance` | events repeated in the log while the calculator stays up |
| `calc_stuck` | `MCDistCalcStuck.cfg` | `HealthyPartitionsDrain`, `StopEndsLoop` | one partition is stuck on a record, the other still drains, if its calls and commits succeed some time; a signal ends the endless retries |
| `gateway` | `MCGateway.cfg` | `MetricsDescribeLedger`, `InvoicesNeverShrink`, `AcceptedIsDone`, `ResponsesWereCounted`, `ShutdownCutsNothing`, `ShutdownEnds`, `TypeOK`, `ClientTypeOK` | three calls of every kind the server answers or a client refuses, with a shutdown at any moment |
| `load` | `MCLoadGenerator.cfg` | `OBUsStayInOrder`, `SummaryDescribesWrites`, `AttemptsAccounted`, `ConnectionsReleased`, `RunEnds`, `TypeOK` | ten configurations; three OBUs on two connections, channels of one, five events |
| `receiver` | `MCReceiver.cfg` | `PublishedInOrder`, `PollerNeverBlocks`, `MessagesAccounted`, `TypeOK` | two connections, late, missing and repeated storage |
| `receiver_stop` | `MCReceiverStop.cfg` | `ClosedSocketsForgotten`, `SignalEndsProcess` | shutdown with nothing asked of Kafka |
| `benchmark` | `MCBenchmark.cfg` | `TransportIsNearestRank`, `LoadsReportedExactly`, `BenchmarkEnds`, `RunnerTypeOK` | three loads, one without events; late and lost events, other traffic, a reset histogram |

Three runs are expected to fail, because the code differs from what a document
of the repository says (`findings` in `PROJECT.json`):

- `calc_wide_id` (`ChargesOwnOBU`): an OBU ID above 2^31-1 is narrowed to
  another OBU's ID, which is charged. The simulator's own IDs stay far below.
- `receiver_flush` (`UndeliveredReported`): a receive loop that still runs after
  `Flush` can hand over one more message, which is dropped without an error.
- `receiver_going_away` (`ActiveSocketsTold`): nothing waits for
  `closeConnections`, so the process may exit before it reached every socket.

Further observations have no run of their own. A well-formed record that can
never be charged (its distance overflows to +Inf, or its narrowed OBU ID is not
positive) is retried for ever and its partition stands still, as design/04 says
of a valid record that fails; `HealthyPartitionsDrain` says that other
partitions do not. A record repeated in the log after a calculator restart may
be sent with another distance, which is why `NeverOvercharged` assumes no
repeats. Events queued behind a failed write, or left at a signal, are in no
counter of the simulator's summary but `attempted` (`AttemptsAccounted` says that
no other channel keeps events), nor in the metric that design/02:116 calls "Dropped or failed
writes". A ramp of nothing but spaces lets a rate of zero or less through
`validateConfig`. A signal, or the deadline of a max-mode run, that comes while
the simulator dials ends it as a failed dial, without a summary. A total whose
amount overflows is answered with status 200 and an empty body, which the gateway
turns into an error; `InvoicesNeverShrink` therefore speaks of invoices that were
read. Both servers of the aggregator stop under one deadline: an HTTP
request that uses it up leaves gRPC requests no time, which is why
`ShutdownCutsNothing` excepts late shutdowns. A pipeline load that rounds to zero
events makes `histogramQuantile`
divide zero by zero; `LoadsReportedExactly` claims nothing of the quantiles of such a
load.

### Bounds and why they are enough

- Events: three of one OBU are the fewest for which a wrong previous point
  gives a wrong distance; a fourth record lets one repeat after another event.
- Two calls at once let a late request overlap its retry; symmetry between call
  IDs is used only in runs without liveness properties.
- `Half = 4` stands for 2^31: IDs 5 and 9 become negative and positive.
- Hash words have two bits, and two events share a hash.
- Three calls are the fewest for a charge, its replay and an invoice; the third
  may instead be any request that a client or the server refuses. Two charges of
  OBU 1 make its amount overflow.
- The configurations of the simulator have every valid shape (with and without
  end, with a ramp of two phases) and one of each invalid shape.
- Channel capacity one makes the full channel common; two connections give the
  writers something to race for.
- Benchmark loads of one, none and two events: the first is the warm-up, whose samples
  may come late when other traffic ends the wait for them, the second has no quantiles, and two samples are the fewest with
  different quantiles. Three requests on two workers let them overtake one another.
- `MaxLog`, `MaxCrashes`, `MaxAggCrashes`, `MaxStrangers`, `MaxResets` bound what
  the environment does; `MayRepeat` and `MayStop` switch a behaviour of it on.

### Fairness

- `MemoryStore`: strong fairness of each goroutine inside a call: the scheduler
  runs it and `sync.RWMutex` starves neither readers nor writers.
- `DistCalc`, `LoopSpec`: every blocking call has a timeout, so the loop keeps
  moving; the container is restarted; a request on the wire is handled or lost.
  `HealthyPartitionsDrain` has the hypothesis `OutagesEnd`: for each partition,
  reads, calls and commits tried again and again succeed some time.
- `Aggregator`: only `main` is fair: it is scheduled, and each of its waits ends
  with the ten-second context. Handlers may stand still for ever.
- `LoadGenerator`: goroutines are scheduled, dials and writes end at their
  deadline, a phase with a duration ends; in max mode the duration, if there is
  one, ends the context. `RunEnds` claims nothing of a run without end before its
  signal.
- `Receiver`: handlers, the sweep and main are scheduled and their waits time
  out. Nothing is assumed of the broker.
- `Benchmark`: requests and waits time out; nothing is assumed of the pipeline.

## Proofs

Each theorem holds for every value of the constants that satisfies the named
assumptions of the modules, which TLC evaluates in every run:

| Module | Theorem | Property |
|---|---|---|
| `DistCalcProofs` | `TypeCorrect` | `TypeOK` |
| | `CommitAfterApply` | `CommittedWereApplied` |
| | `NoRecordSkipped` | `PositionTracksCommit` |
| | `CommitMonotone` | `CommitsAdvance` |
| | `DeliversAtLeastOnce` | `ImplementsAtLeastOnce` |
| | `NoOvercharge` | `NeverOvercharged` |
| | `ExactDistances` | `ExactWhileAlive` |
| `MemoryStoreProofs` | `StoreTypeCorrect` | `TypeOK` |
| | `StoreConsistent` | `StoreAgreesWithCharges` |
| | `StoreRefinesLedger` | `ImplementsLedger` |
| | `ChargedOnce` | `ChargesAreFinal` |
| | `InsertIsAlone` | mutual exclusion of writers, and of readers and writers |
| `ReceiverProofs` | `ReceiverTypeCorrect` | `TypeOK` |
| | `PublishesInOrder` | `PublishedInOrder` |
| | `PollerIsFree` | `PollerNeverBlocks` |
| | `EveryMessageCounted` | `MessagesAccounted` |
| `AggregatorProofs` | `ShutdownIsGraceful` | `ShutdownCutsNothing` |
| `GatewayProofs` | `AggregatorTypeCorrect` | `TypeOK` |
| | `MetricsFollowLedger` | `MetricsDescribeLedger` |
| | `CallersTypeCorrect` | `ClientTypeOK` |
| | `AcceptedMeansDone` | `AcceptedIsDone` |
| | `ResponsesAreCounted` | `ResponsesWereCounted` |
| | `InvoicesGrow` | `InvoicesNeverShrink` |
| `LoadGeneratorProofs` | `LoadTypeCorrect` | `TypeOK` |
| | `OBUsKeepTheirConnection` | `OBUsStayInOrder` |
| | `ConnectionsAreReleased` | `ConnectionsReleased` |
| | `SummaryIsTrue` | `SummaryDescribesWrites` |
| | `AttemptsAreAccounted` | `AttemptsAccounted` |
| `BenchmarkProofs` | `BenchmarkTypeCorrect` | `RunnerTypeOK` |
| | `TransportReported` | `TransportIsNearestRank` |
| | `LoadsReported` | `LoadsReportedExactly` |

### The calculator

The assumptions are those named in `DistCalc`: events have positive OBU IDs and
points, distances are natural numbers, `None` is not a call ID or a reply.

`CommittedWereApplied` is not inductive by itself. `IndInv` adds: offsets lie
inside the logs (`Offsets`); the read position is at most the record in hand
away from the committed offset (`PositionTracksCommit`), since otherwise a
commit could jump over records nobody applied; an event about to be committed
has been applied (`InHand`); and while the loop waits, a reply "ok", or a
request carrying the current call, is about the record in hand (`Calls`), since
otherwise a late answer to an earlier call could be taken for this one.
One lemma per group shows that every action keeps it (`TypeStep`,
`OffsetsStep`, `AppliedStep`, `CallsStep`).

The refinement maps committed offsets to finished records and applied events to
charged ones. Handling a request is a `Charge`, for which its event must have
arrived: `WireFromLog` says that every request on the wire, and the record in
hand, come from the log, and that logs only grow keeps it. A commit is a `Finish`
of the next record because `IndInv` keeps position, record in hand and offset
together; a commit that is repeated is a stutter (`CommitMaps`).

### What the calculator charges

Both theorems follow from one invariant, `ChargeInv`, on top of `IndInv`. It says
that the maps of `CalcService` can be read off the log. `Passed(p)` is how many
records of partition `p` the loop has dealt with, the record in hand excluded until
its distance is computed.

- `Placed`: an event is in the partition of its OBU, and everything computed, sent
  or charged is about an event of the log.
- `Cached`: the result of the record in hand is in `results`; so is that of a record
  whose commit was stored but reported as failed, which a rebalance would skip; and
  before the first restart, of every record passed.
- `NotAhead`: no result is cached for an event whose first place is beyond the next
  record.
- `PointsFromLog`: the point kept for an OBU is that of the last of its events that
  was passed or computed. Seeking back moves the loop, not the point, which is
  why the invariant speaks of both.
- `AllRight`: every distance computed, sent or charged is the one from the previous
  event of the OBU, or zero; before a restart zero only for the OBU's first event.

`PointsFromLog` and `AllRight` are claimed while no record is repeated or there was
no restart (`InOrder`): a repeated record after a restart is computed from a point
that is out of order. `ProcessEvent` is the one step that computes. A result that is
not cached belongs to the first place of its event (`FirstTime`), so that its
point continues the OBU's (`NewDistance`, `ProcessMemory`). `Publish` adds records
behind all others, which changes the predecessor of no event already there
(`PublishKeeps`).

### Sums and fingerprints

`FingerprintProofs` rests on `FingerprintAssumption` (hashes are natural numbers).
`SumOver` is a recursive function over the subsets of a set. That the recursion has
a solution, that the sum does not depend on the order in which elements are picked,
and what adding or removing an element does to it, is shown by induction over finite
sets. The library's induction theorems take an operator, which the provers cannot
instantiate; `SetInduction` takes the set of the subsets for which the claim holds
instead. `SumOfAdd` and `XorOfAdd` then say that one more event is one addition
modulo `2^HashBits` and one XOR.

### The store

From `StoreAssumption` (distances are records with their fields, the empty event
ID is none of the others). `ChargesAreFinal` needs that the event about to be
charged is not in the ledger, four statements after `Check` looked. `Marked` says
so, and that `processed` is ahead of the ledger only by the event of an `Insert` in
progress; it is kept because that `Insert` is alone (`Exclusive`: the holder of the
write lock is the one goroutine past `Lock`, and no reader is inside once it has
drained them); and `Validated` excludes the branch that skips `Mark`.

`StoreAgreesWithCharges` speaks of moments without an `Insert` in progress.
`Reconciled` extends it to every statement: count, XOR and sum of the running record
are each those of `processed` without the events `Behind` the statement that adds
them. `Totalled` says the same of the totals map, which changes in one step with the
ledger. In the refinement of `Ledger` the charge is the step that changes `m.data`,
and what a reader returns is that of the ledger because no `Insert` is inside
(`Results`).

### The receiver

From `StreamAssumption` (streams are sequences, and every event is at one place of
one stream). `StepKinds` sorts the steps into those that touch no message and
six others. `Unsent` says that Kafka has been handed no message beyond the one in
hand, `Single` that an event handed over has at most one entry in queue, reports
and channel together, which is why a channel of capacity one never blocks the
poller, and `Honest` that a report "stored" speaks of a record in the topic. With
them, when `ProduceData` returns nil its event is in the topic and no later message
of the connection can be.

`MessagesAccounted` counts `published`, a set. That publishing adds one to it needs
that the message in hand is not there yet (`Unpublished`). `Counted` relates the counters to the sets of handlers at work,
`Connected` the map of connections to the places of the handlers.

### The aggregator and its callers

From `AggregatorAssumption` (distances are records with their fields; the values
that stand for no answer or an unreadable body are none of the others). Nothing is assumed about the number of calls, which may even be
infinite: only finitely many have begun.

- Shutdown. `Stopped` says which transports still accept and which are quiet at each
  place of `main`. A handler or a caller begins no service (`NoneBegins`), so that a
  transport that accepts nothing and is quiet stays quiet.
- Counters. `CallInv` says what a call carries at each stage. `CounterInv` makes
  every counter the number of a set of calls: `applied` those that charged an event
  and are past `CountOutcome`, `samples` those past `ObserveLatency`, `requests[k]`
  those with status `k` that are counted, their response sent or about to be. `SystemKinds` sorts the steps, and one lemma for
  each kind says which of these sets gains or loses the call.
- Callers. `ClientInv` says that a caller has returned with an error or with the
  answer given to its call, and that no status was counted more often by clients
  than it was sent (`Returned`); what was sent was counted before.
- Invoices. What was seen of an OBU, and what was known when an invoice was asked for
  (`floor`), is `Covered`: at most what the OBU is charged in the ledger. Charges are
  only added, so that sums over them only grow (`SumMonotone`), and an invoice is the
  sum at the moment the service answers.

`AggregatorProofs` takes what it needs of finite sets as the hypothesis `Counting`,
which `CountingHolds` in `GatewayProofs` proves from the library; this keeps the
library out of the larger module, where it slows the provers down.

### The OBU simulator

From `LoadAssumption` (at least one OBU, one connection and room for one job; a ramp
is a sequence of phases). The number of events and the hash function are arbitrary.

`OBUsStayInOrder` looks at the sockets only. `LoadInv` follows an event from the
scheduler on: `Ordered(c)` says that what connection `c` has sent, what its writer has
in hand and what waits in its channel are in the order of the sequence numbers and
belong to OBUs of `c`, and `Owned` that no number is above the last one given out and
none is at two connections. In max mode the writer makes its events itself, which are
its own because `obuIndex` stays below the number of its OBUs (`TurnTypes`).
`Control` says where `main` is while writers run, that the
gauge is the number of open connections, and `LeftBehind` that a channel is left with
events only by a signal or when its own connection broke.

The summary is read when all writers are done. `Sums` describes `recordSuccess` at
every step of every writer: the counter, the sum and the XOR are those of the events
written without the ones that are `Pending` between the write and the step that adds
them. The compare-and-swap succeeds only on the value that was loaded, so that no
other writer's XOR is lost, and two writers never have the same event in hand
(`HeldApart`). `Attempts` is the first half of `AttemptsAccounted` and is inductive
with it. The facts about numbers that the invariant needs (`Numbers`) are proved once
(`NumbersHold`) and carried as a part of it.

### The benchmark runner

From `BenchmarkAssumption`: at least one warm-up and one request, loads of any number
of events, none included, bucket bounds in increasing order (`histogramQuantile` sorts them), quantiles in percent.
Workers, durations and the number of loads are arbitrary.

- Percentiles. `Sorted` chooses a sorted permutation. That there is one is shown
  without induction: an element's `Place` is one more than the number of elements that
  come before it when equal ones keep their order, and the places are a bijection
  (`PlacesFill`). A permutation keeps the number of elements below a value
  (`SortingKeepsCounts`), so that `percentile` is the nearest rank
  (`PercentileIsNearestRank`).
- Quantiles. The first bucket that holds the rank exists by the least-number principle
  (`LeastIsMin`), and the interpolated value lies between its bounds
  (`QuantileInBucket`). Of an empty histogram only the type is shown (`QuantileTyped`).
- The pool. The error channel has room for every request. That it never fills up needs
  that an error in it, one about to be put there and a request under way belong to
  different requests (`Places`). `Measured` says that a dispatched request is under way
  or has its latency, so that after `Join` no latency is missing. The pool
  is idle before the first scrape, so that none of its samples falls into a load.
- The loads. `LoadsReportedExactly` compares a report with the samples of its load,
  while the code sees only two scrapes. `Window` relates them: without other traffic a
  load begins with no event of an earlier one in transit (`NoneInTransit`), its own are
  sent, sampled or lost (`OwnInTransit`), and until its end the histogram has grown by
  exactly its samples (`Grown`), or was reset and lacks some (`Lacking`). A scrape with
  as many samples as events were sent excludes the second case (`ScrapeIsComplete`).

### Only model-checked

- Liveness (`EveryCallReturns`, `HealthyPartitionsDrain`, `StopEndsLoop`,
  `ShutdownEnds`, `RunEnds`, `ClosedSocketsForgotten`, `SignalEndsProcess`,
  `BenchmarkEnds`), and with it fairness and `ENABLED`: out of reach of this prover.
- The three properties that the code violates have counterexamples instead.

## Not modelled

- Floating-point rounding; JSON and protobuf layout beyond a record being valid or
  having no encoding.
- Logging, latency histograms, the gauges of open connections and of consumer
  lag, and the metrics servers: nothing in the program reads them but scrapes.
- The text of flags, environment variables, ramp phases, origins and metrics; an
  origin that is refused is an upgrade that fails.
- Listeners that cannot be opened at the start.
- The manual caller in `aggregator/temp`, one call without state; generated code;
  container and dashboard configuration.

## Plan

1. Compose receiver and calculator, so that the records in Kafka are those the
   receiver produces.
