# yog-sothoth: TLA+ models, checks and proofs

yog-sothoth observes Meteora's activity on Solana: the *indexer* reads a stream of
transactions and persists their events, and five other processes enrich, judge,
aggregate, serve and back up what it wrote, through the database only. This directory
models the paths on which a mistake is silent and lasting: how transactions reach the
indexer (gRPC and JSON-RPC), how their events reach their tables and the answers of the
API, how prices and swaps become signals, how hours of facts are written, frozen and
read, and how new rows reach a live page. It says what is checked (TLC, on small
instances) and what is proved (TLAPS, for every value of the constants). `PROJECT.json`
maps each definition to the source lines it translates.

## Inventory

| Component (crate) | State it keeps | Operations | Interacts with | Correct when |
|---|---|---|---|---|
| Slot/time buffer (indexer) | waiting payloads, their count, head slot, known slots | payload, block time, empty block-meta, finalized | called by the session for each update | each payload leaves once, by what the stream said; bounds hold; nothing decided waits |
| Stream session (indexer) | buffer, received span, slots held back | handle one update, deliver what is released | sends on the indexer channel, publishes spans to the recorder | a span never covers a slot a transaction of which can still be lost |
| Slots recorder (indexer) | spans read at the last tick, spans written | tick, stop, write a session's rows | shares `RangesToRecord` with the sessions; upserts rows | no session's last span is lost; rows say no more than was received |
| gRPC listener (indexer) | retry budget, backoff, stall clock | dial, subscribe, read, sleep | server, consumer channel, stop token | stops when told; leaves a silent stream; gives up exactly on barren attempts |
| Indexer worker (indexer) | channel, transaction in hand, permits | receive, dispatch, drain, wait for tasks | source's channel, detached tasks, database | every transaction persisted, failed or counted as dropped, once |
| Composition root, `Stop` (indexer, bootstrap) | four tasks, grace, outcome, stages still running | select, settle each stage, finish | all tasks through the stop token | the exit is bounded, no INSERT destroyed unnamed, the first error wins |
| JSON-RPC source (indexer) | fleet of subscriptions, two queues, fetch permits | subscribe, filter, fetch, wind down | RPC node, indexer channel | a dead fleet is an error; no notification is lost uncounted |
| Event persistor, pool maintenance (indexer) | rows of events, pools, `pool_current_state` | discover, insert, project, flag | database; up to `max_concurrent` transactions at once | one row per event whatever is replayed; the state is at least as new as every row |
| Event lists (api, persistence) | none; a cursor in the client's hands | read a page, resume | tables written meanwhile | a walk loses and repeats nothing; numbers read as emitted |
| Live pollers (api) | watermark: floor and ids delivered above it | tick, anchor, read, broadcast | database, SSE clients | a row is broadcast once, however its commit was delayed; a row passed is one that came after its hole was given up, and a hole that never fills holds nothing up |
| Price worker (context) | kept prices, unpriced mints | tick: list, fetch, filter, insert | provider, database | what is stored of a priced mint never grows stale |
| Signal engine, deviation detector (signals) | none but the table | tick: evaluate, look up, insert | database | a lasting deviation is told; no re-alert in the cooldown, except an escalation |
| Analytic worker (analytic, core, persistence) | tranches, hours, rankings, runs, progress | tick: plan, write, freeze | database, under a lock | what is frozen is whole and never rewritten; an outage is caught up |
| Analytic reads (api, persistence) | none; a cursor in the client's hands | period, figures, pages | the facts, between cycles | an answer is what its period says |
| Metadata and pool-account workers (context) | none | read a queue, write rows | provider, database | a failure leaves the row queued |
| Archive worker | an upload | run | database, bucket | a failed dump is never reported as a success |
| AMM formulas (core); keys, capacity, cache (api); configuration (bootstrap); web | none that evolves | – | – | unit and fixture tests |

The hard parts are: facts about one slot in any order, from several banks, some without
a name; two bounds and a trimmed table on the same data; a span published before the
transactions it covers are delivered; a recorder that awaits between reading and
forgetting; cuts, reconnections, stops and kills between any two of those steps; a
stop that must end within one grace and still destroy no INSERT; statements of one event,
one page or one answer between which anything may commit, fail or die; ids that become
visible out of order; two writers of the same facts; and clocks of different processes
that must fit each other. `PROJECT.json` lists them as hazards, each at its line.

## Modules

| Module | Models |
|---|---|
| `SlotTimestampBuffer` | `slot_timestamp_buffer.rs`, `bank.rs`, `known_slots.rs`, `waiting_slots.rs` |
| `SlotsRecorder` | `slots_recorder.rs`, `ranges_to_record.rs`, `received_span.rs`, the upsert of `observed_slots.rs` |
| `SlotsRecording` | the recorder against arbitrary sessions |
| `IndexerWorker` | `application/workers/indexer.rs` |
| `GrpcSession` | `session.rs`, `slot_progress.rs`, `received_slots.rs`, `delivery.rs`; extends the three above |
| `GrpcIngestion` | a stream, sessions one after the other, recorder and worker, with cuts, a stop and a kill |
| `GrpcListener` | `listener.rs`, `connector.rs`, `ending.rs`, `retry_budget.rs`, `stall_clock.rs` |
| `IndexerDaemon` | `daemon.rs`, `daemon/tasks.rs`, `shutdown.rs`; extends `IndexerWorker` |
| `TransactionSource` | the port `application/source.rs`: what any source promises the pipeline |
| `RpcSource` | `infra/rpc`: subscription workers, listener, dispatcher, fetch worker, their cascade; implements the port |
| `LiveFeed` | `api/src/application/live`, `http/handlers/live.rs` |
| `DammV2Events` | the events from the wire to their columns: `core/src/application/extraction`, the domain's types, the inserts' conversions |
| `EventAnswers` | the nine collections: the tables of each, the columns read, what is shown |
| `PoolRegistry` | `pool.rs` of the repositories, the indexer's statements |
| `EventStore` | `transaction_processor.rs`, the event persistors, `pool_maintenance.rs`, `pool_current_state.rs`; extends the three above |
| `EventLookup` | the routes, services and repositories of the event lists, over `EventStore` |
| `AnalyticFacts` | `analytic/src/application/worker.rs`, `core/src/domain/analytic`, `repositories/analytic.rs` and the tables it writes |
| `AnalyticAnswers` | the periods (`period.rs`), the statements and the services of every measure |
| `AnalyticReads` | a client's requests and walks among two writers' cycles |
| `TokenPrices` | the clock, `token_last_price` and one pool, shared by two daemons |
| `PriceWorker` | `context/src/application/workers/price.rs`, `KeptPrices`, `UnpricedMints` |
| `SignalEngine` | `signal_engine.rs`, `price_oracle_deviation.rs`, the signals table |
| `DeviationWatch` | the price worker and the engine around one moving market |
| `GrpcIngestionProofs` | the theorems about the buffer and, built on them, those about the ingestion |
| `EventLookupProofs` | the theorems about the event store and its lists |
| `ListenerProofs` | the theorems about `GrpcListener` and `SlotsRecording`, the listener's two tasks |
| `AnalyticReadsProofs` | the theorems about the cycles of the analytic facts |
| `IndexerDaemonProofs`, `RpcSourceProofs`, `DeviationWatchProofs`, `LiveFeedProofs` | the theorems about the module each is named after |
| `MC...` | instances for TLC |

**Buffer.** `waiting`, `count`, `head` are the fields of `WaitingSlots`, `facts` that of
`KnownSlots`. A fact is a slot's list of block-meta outcomes per bank, and the bank kept.
`OnPayload`, `OnBlockTime`, `OnSlotUnresolvable` and `OnFinalized` are the four public
methods, each with the settling, trimming and evicting that it ends with. A payload is its
slot, its bank and its arrival number. Three ghosts have no counterpart in the code:
`released` and `dropped` (what was handed back or counted as lost), and `told`, all the
stream ever said of each slot, against which the trimmed `facts` are judged.

**Session.** One update is one step up to the delivery, which is one step per
transaction, because `handle` awaits there: the worker, the recorder and a stop
run in between. `ReceiveSlot` runs inside the block-meta's step, before the delivery, as in `handle`.
`parked` says that `deliver` found the channel full and waits in its `select!`, which is unbiased: from then on either
the room or the stop may be taken, whichever comes first.

**Recorder.** `OpenWrite` is the select and the list of changed spans, `RecordSession` one
session's rows (any subset may be refused), `CloseWrite` the forgetting and the next
reading. Sessions run between them: the recorder shares the listener's task and yields at each await.

**Worker and daemon.** `Recv`, `Dispatch`, `DropInHand`, `StopOnShutdown`, `StopOnClosed`,
`WorkerReturns` are the points where `run` and `dispatch_one` await; `IndexOne` is a
detached task. In `IndexerDaemon`, `OpenStop` is the `select!`, and `SkipCollected`,
`SettleEnded`, `SettleOverrun` are the outcomes of one `Stop::settle`.

**Listener.** One state per await; `SettleAttempt` is `RetryBudget::settle` with what the
loop does next. `barren` is a ghost, the attempts in a row that brought no data, counted up to `MaxAttempts`.

**JSON-RPC source.** Each task has its own program counter with one value per await:
`WorkerStep(t)`, `ListenerStep`, `DispatcherHandles`, `FetchStep`, `FetchEnds` (a detached
fetch), `SourceStep` (the select over the three stages and the wait for the two others). The
refinement mapping to `TransactionSource` reads what the port seeks from the detached fetches under way, what it
has obtained from those that hand a transaction over, and its result from the source's.

**Live feed.** A poller's tick is the count of receivers, the wait for the shared read, the
anchor, the read past the floor, the broadcast and `settle`, in that order, with the stop
at each await. Rows are taken, committed, rolled back and aged out by the environment.
`Fresh` is the filter of `fresh`, and `Dated` what its `insert` does to the instants: every id of the batch above the floor, those
delivered before too, is dated anew. `age` counts from that last read, for ids already passed as well, which the watermark forgets.
Ghosts: the anchor, and the two excuses `late` (visible only once its hole was over) and `crowded` (left out of a full batch
whose answer moved the floor past it).

**Events.** A transaction is a list of instructions, each one of the wire events or
nothing the program knows; `Extract` numbers and recognises them as one release
does. `EventStore` runs each event's recipe one statement at a time; a statement may fail,
and the process may die after any of them and be given the transaction again, by the
same release or by one that knows more events. One delivery runs at a time: what up to `max_concurrent`
tasks do to a table in any order is reached through orders of deliveries, replays and kills, but not the interleaving of two recipes'
statements. Each statement is an upsert guarded by its key or its position and depends on no earlier read of its task.
Amounts are small numbers with one that does not fit a signed column; the end of a reward's period may be past what a
date can hold, and is then answered as no date.

**Analytic facts.** Time is counted in tranches of five minutes. A figure is the set of
transactions it adds up, which tells apart what a sum would hide. A cycle is two steps, as in
the code: the plan, and the transaction that takes the lock, reads the progress again
and commits everything or nothing. Its statements, each with a snapshot of its own under READ COMMITTED, see one set of arrived
transactions here, and so do the two reads of a turnover's answer (`AskSince`). Pages are ordered with the tie-breakers of their statements.

**Market.** Prices are half units of the column's last decimal, so that storing one is a
rounding. The worker's tick is list, chunks, insert; the detector's evaluate,
look up, insert. Each step may be refused or be the process's last. `RememberedIsWritten` relates the worker's memory of kept
prices to its table.

Definitions whose comment begins with "Mutation:" are faulty versions of the definition
that follows them. No specification uses them: they show that each property would notice the fault.

### What is assumed of the outside

- The stream (`GrpcIngestion`): updates of slots `Lateness` or more apart do not overtake
  each other, `Lateness` being no more than `HELD_BACK_SLOTS`, which is what that constant
  is for. Updates sent while no session reads are missed. The Finalized status may come at any later time.
- A recorder period (60 s) is long enough for what was released before one tick to be
  finished with by the next, so `RecorderTick` waits for it. This is the recorder's own
  premise. Nothing is assumed of the time between a tick and a stop.
- The RPC node notifies of any target in any order, answers or refuses any request, and may
  close a subscription at any moment; tasks may panic where the code handles a panic.
- Ids are given in order and become visible in any; retention removes the oldest rows.
- One provider of prices, one detector's loop per engine; two answers and two ticks never
  bear the same instant. A killed insert has landed, or not, before the next process looks:
  a commit that lands later, and two engines at once, are assumed away.
- The price worker's cadence is short against the gap it keeps (`IntervalAssumption`): `LowValueEvery` ticks are less than `MaxGap`. The startup
  refuses only a cadence of 0 and one of 900 s or more (`config.rs`), so this is an assumption on the deployment; the default of 30 s satisfies it.
  A tick lasts no longer than the cadence.
- A cycle's plan is not older than the next boundary when it is written (`Waits`): the statement
  timeout (120 s) bounds the wait for the lock. Without it, two writers on an empty database, one of which holds
  its plan for more than a quarter of an hour, freeze an hour that lacks tranches.
- The clock does not pass a boundary within a request: its timeout (10 s) is short against
  five minutes.
- A session that must wait on the server counts ticks; parked or sleeping time does not.

## Runs

| Run | Shows |
|---|---|
| `buffer` | every order of three payloads and four facts, window 1, payload bound 2, table 2, from either of two servers. One names two banks of three slots; the other leaves the bank out of some messages of two slots and gives two instants, for the `Bank::Unknown` rules. Bounds with the count, no payload lost or doubled, trimming, nothing decided waits, eviction ends, verdicts by what the stream said, and stable while remembered |
| `slots_recording` | two sessions, two protocols, three slots, two failing rows: no session's last span is lost, rows stay within spans and only grow, ended sessions are written in the end |
| `grpc_ingestion` | seven slots, three transactions in two of them, a slot without a block time, two sessions, a channel of one: a recorded slot misses no transaction, save those under way when the recorder was stopped |
| `grpc_ingestion_stop` | the same without the exception: violated, see below |
| `indexer_daemon` | three transactions, channel and permits of two, a grace of two: each transaction in one place, no INSERT destroyed unless the worker is named as still running, the first error wins, a stop ends |
| `grpc_listener` | three attempts, backoff 1 to 3, stall timeout 3: budget, stop, silence and giving up |
| `rpc_source` | two targets of two attempts, two notifications, one-place channels, one permit, one retry: every notification is accounted for, a failed stage is the source's error, the source ends, and it implements the port |
| `live_feed` | batch, settling time and channel of one, in two settings: two ids, an empty table competing for the read, clients of both topics and a failure; or three ids of one topic. Rows are broadcast once, none is passed but the late and the crowded, no open connection has a gap, and a fresh row is broadcast unless rows delivered already fill the batch under it |
| `live_burst` | the last of these without its exception: violated, see below |
| `event_lookup` | eight pairs of transactions over two pools, two releases, three deliveries, one mishap, pages of one: one row per event, a failure costs one event, the state catches up, a walk is whole, numbers read as emitted |
| `deviation_watch` | one pool, a price among four or none, two upsets, eleven instants: a priced mint's row is never stale, a deviation that lasts is told, a cooldown's signals only escalate, nothing is remembered that the table does not hold |
| `analytic_reads` | two writers, five transactions in two pools, some at the same instant, hours of two tranches, days of two hours, cycles of one hour, a late transaction, an outage: what is frozen is whole, answers stand, walks are one list or refused, no tick is idle while an hour is due |

**Why the bounds are enough.** The buffer's table must be the window plus one to satisfy
its assumption, and three slots are what it takes to trim one while another is in the
window; four facts are two slots decided in full. Three payloads against a bound of two and
a window of one make both evictions happen. In `grpc_ingestion` the first slot that a session can record is
its first block-meta's plus `HELD_BACK_SLOTS` = 2, it is settled two slots after, and a
second session must get as far: seven slots let both happen. The channel of one makes the
session wait. In `grpc_listener` three attempts separate the first charge, the doubled backoff and giving up.

In `rpc_source`, capacities and permits of one make every wait happen with two
notifications: one in a queue, one in hand. In `live_feed` three ids are the hole, the row delivered above it, and
the row that a batch of one then leaves out; the empty table only takes its turn at the read, so two ids are enough beside
it. The three safety properties were also checked on three ids with both tables (3.1 million states). The scenarios of
`event_lookup` hold every kind of event, ties of instant and of slot with and without a transaction index,
instructions of other programs, truncated, too wide and unnumberable payloads; two releases
and three deliveries are a first delivery, a replay and a replay to the next release. In
`analytic_reads` two hours and the next one's first tranche are what it takes to freeze, fall behind and
catch up. A window without a swap, which leaves no ranking, is modelled and is proved about (`FactsAreWhole`) but not reached by the run: each
of its hours has one. `deviation_watch` keeps
the order of the real figures (cadence below the gap kept, 510 s, below the maximum age,
900 s; low-value mints every third tick, never priced ones every 105th; a retry of at most 900 s; a cooldown of
six hours) and is tight: a `Lag` or a `MaxPriceAge` one smaller violates `PricesStayCurrent`. The figures themselves are scaled down, so the run
speaks of their order, not of 510, 900, 30 and 3. Two mints in chunks of two are always one chunk, while a mint alone in its chunk is never
deferred: `PricesStayCurrent` and `RememberedIsWritten` were also checked with chunks of one, over eight instants (5.2 million states).

Deadlock is not checked where the system may stop: an exited process, a stopped
listener, a returned recorder, a stream that ran out of slots, a clock at its end.

**Fairness.** `SlotsRecording`: weak fairness of the recorder's steps only (its timer
fires, its statements return); sessions and the stop owe nothing. `IndexerDaemon`: weak fairness of
the daemon's own steps and the clock, never of the tasks it waits for. `GrpcListener`: weak
fairness of the listener's own steps and of time. The server owes nothing, with one
exception: since the sleep arm of the read loop is polled after the message arm, the silence
is only noticed at a moment with no message waiting, and we assume such moments
come. A dial ends because its connect timeout is part of `DialFails`. `RpcSource`: weak
fairness of each task (the runtime polls them all; a connection is answered or refused);
the consumer and the node's notifications owe nothing. `LiveFeed`: weak fairness of
each poller's steps and of time (queries are answered or refused, the semaphore is first come first
served); clients and tables owe nothing, and no row need ever commit or roll back. The three database models state safety only: what must
happen in the end is said by instant (`PricesStayCurrent`, `DeviationIsTold` have a deadline, `CyclesCatchUp`
says that no tick is idle while an hour is due, `StateCatchesUp` speaks of
events finished with), under clocks that do not pass a loop's timer without serving it.

## The findings

**The stop and the recorder.** `slots_recorder.rs:40` says the recorder is "a period late on purpose: a transaction
released by a slot may still wait for the persistor, so a cut declares an unwatched range
too wide, never too narrow". Between ticks that is so, and `grpc_ingestion` checks it through cuts,
reconnections and kills. At a stop it is not: the recorder then writes the
spans read at its last tick, however recent that was, and the indexer worker drops what is
still in its channel. `grpc_ingestion_stop` finds the behaviour: a tick reads a span while
one of its transactions is queued, the stop comes, the span is written, the transaction is dropped and counted.

**A hole that is never over.** `api/README.md:437` says the watermark "waits up to 10 s for a hole under them before passing it", and `watermark.rs:45` that `settle`
moves the floor "over a hole under an id read `GAP_SETTLE` ago". The filter of `fresh` (`watermark.rs:40`) is an `insert` that replaces the instant of an
id delivered before, and `poll_once` reads from the floor at every tick and settles with the instant of that same read
(`poller.rs:96`, `104-106`). So the row above a hole is always just read, and a rolled-back id holds the floor until that row leaves the one-day lookback or
is left out of full batches for 10 s. Once `POLL_BATCH_LIMIT` delivered rows stand above it, they are every batch, and the rows behind them are
never read, where `poller.rs:12` says that "a larger burst drains over the next ticks". `live_burst` finds it with a batch of one: id 1 rolls
back, row 2 is delivered, row 3 never is. `live_feed` shows that this is the only way a row that can be streamed is left waiting. The tests in
`watermark_tests.rs` age a hole with `settle` alone, never with another read of the row above it.

### Other disagreements and limits met

These are stated by no run of their own; the properties above are worded so as to hold beside them.

- `pool_current_state.rs` calls its upsert order-independent. It is for reserves of
  distinct positions. Two events whose
  ordering keys are equal, and `last_sqrt_price` and `last_swap_at` when a swap arrives after a later liquidity event, depend on the
  order: `StateCatchesUp` claims a state at least as new as each event.
- A failed `mark_needs_refresh` is logged only: the pool's properties are stale until the next event, as
  `pool_maintenance.rs` accepts.
- A full batch lets `settle` pass rows it left out, though only past an id that was read before and then not for 10 s, because full batches of
  older ids that committed meanwhile left that id out too (ghost `crowded`).
- One undecodable row fails the whole live read of the signals (`signal.rs:256`), where `api/README` says
  that such a row "is logged and passed over".
- A walk by volume over the rotation runs moves while they grow, and the one-hour ranking reads its mints live.
  `WalkIsOneList` walks tokens by volume, moves by amount and runs by time.
- After a frozen window without a swap there is no ranking, and the next page of a walk begun before it is empty where a page
  of another ranking is refused (`swap_activity_service.rs:74-79`).
- A transaction stored after its tranche was valued is never counted in the tranche's swaps and moves.
- Between the migration that adds position changes and the first cycle of the release that writes them,
  hours are frozen without them (excused by `current`).
- `signal.rs:79` relies on the last signal of a window having its greatest severity. That holds for one
  engine (`SignalsEscalate`), not for two at once.

## Proofs

Eight modules hold theorems that TLAPS checks for every value of the constants. Each extends the
module it is about, and each rests on an inductive invariant (`IInv`; `IndInv` for the buffer and `IngestionInv` for the ingestion around it; `WalkInv` and `ReadInv` for the walks over the event store; `ListenerInv` for the attempts; `PriceInv` for the price worker; `TimesInv` and `FactsInv` for the cycles): `Init => IInv` and
`IInv /\ [Next]_vars => IInv'` are its lemmas, one lemma per action or group of actions, and the
theorems follow from it. TLC confirmed each of these invariants on the constants of the module's run (quantifiers over
all naturals cut at the instance's bounds), which is how they were found.

| Proof module | Theorems, and the property each states for every instance |
|---|---|
| `GrpcIngestionProofs`, the buffer | `Invariance`, `TypeCorrect`, `BoundsHold` (`WithinBounds`), `WindowKnown` (`KnownInWindow`), `NothingDecidedIsHeld` (`NothingDecidedWaits`), `VerdictsSound` (`VerdictsFollowTheStream`), `BoundsSound` (`BoundsTakeTheirOwnEnd`), `PayloadsAccounted` (`EachPayloadOnce`), `VerdictsStand` (`VerdictIsStable`) |
| `GrpcIngestionProofs`, the ingestion | `IngestionInvariance`, `RecordedIsWhole` (`RecordedSlotsAreWhole`) |
| `ListenerProofs`, the attempts | `ListenerTyped`, `ListenerGivesUp` (`GivesUpOnBarrenAttempts`) |
| `ListenerProofs`, the recorder | `RecordingTyped`, `RecordingForgetsNoSpan` (`NoSpanIsForgotten`), `RecordingRowsGrowWithin` (`RowsWithinSpans`) |
| `IndexerDaemonProofs` | `DaemonTyped`, `DaemonKeepsEachTx` (`EachTxOnce`), `DaemonDestroysNoInsert` (`NoInsertDestroyed`), `DaemonExitIsHonest` (`CleanExitMeansNoError`) |
| `RpcSourceProofs` | `RpcTyped`, `RpcLosesNothingSilently` (`NoSilentLoss`), `RpcSwallowsNoFailure` (`NoFailureSwallowed`), `RpcImplementsPort` (`ImplementsPort`, the refinement) |
| `DeviationWatchProofs` | `WatchEscalates` (`SignalsEscalate`), `RememberedHolds` (`RememberedIsWritten`) |
| `LiveFeedProofs` | `FeedBroadcastsOnce` (`BroadcastOnce`), `FeedSkipsNothing` (`NothingSkipped`), `FeedHasNoGap` (`NoSilentGap`) |
| `EventLookupProofs` | `StoreInvariance`, `EventsStoredOnce` (`EachEventOnce`), `EventsStoredOrCounted` (`StoredOrCounted`), `StatesCatchUp` (`StateCatchesUp`), `WalksAreWhole` (`WalkIsWhole`), `AnswersAreAsEmitted` (`ReadsAsEmitted`) |
| `AnalyticReadsProofs` | `CyclesDoCatchUp` (`CyclesCatchUp`), `FactsStayWhole` (`FactsAreWhole`) |

**Assumptions.** Only what the constants of the code satisfy, each a named `ASSUME` that TLC
evaluates in the runs: bounds are naturals, positive where the code's are (`BoundsAssumption`, `ListenerAssumption`,
`RpcAssumption`, `GraceAssumption`, `TimesAssumption`, `SessionsAssumption`); the buffer's table is at least one slot
larger than its window; the markers that stand for `None` are not values
(`MarkersAssumption`, `NoTxAssumption`, `NoNoteAssumption`); the protocols are finitely many (`ProtocolsAssumption`); ids are naturals and a
request names served topics (`IdsAssumption`, `RequestsAssumption`, `TopicsServed`); the stream's bounds are naturals
and `None` is no slot (`StreamAssumption`, `OptionAssumption`); a transaction is a slot, an index or none, and a list of
payloads, and there is at least one release (`HistoriesAssumption`, `ReleasesAssumption`); a page has at least one row, signatures are positive
naturals and instants naturals, and a walk is of one of the nine collections (`PagesAssumption`);
transactions have natural instants, and those stored late fall after what the release before had valued, since the tables it left hold only what had been
stored (`TxsAssumption`); and `None` is no instant (`NoneAssumption`).

### The arguments

**Buffer.** `KnownInWindow` is not inductive: the table alone does not say why a forgotten
slot is old. Two facts do. `NothingHalfRemembered`: what is
remembered of a slot is everything told of it. `ForgottenBehindAFullTable`: a slot forgotten has
at least `MaxKnownSlots` remembered slots above it. Trimming takes the lowest slot,
so it keeps the second. A fact about a forgotten slot puts it in the table as the
lowest of too many, so it is trimmed in the same step and the first is kept.
`FullTableIsPastTheWindow` is then a counting argument: `MaxKnownSlots` distinct slots above `s` and
not above the head leave `s` outside the window, because `MaxKnownSlots > MaxPendingSlots`.
Hence (`WindowIsKnown`) for every slot a payload may wait for, the table and the
stream agree, and a verdict taken from `facts` is one taken from `told`
(`SameFactsSameVerdict`). `EachPayloadOnce` counts; its inductive form `OneEntryEach` does not: every arrival has an entry in
one of the three sets, no two entries of a set share an arrival and no two sets do.
`VerdictIsStable` is about `Facts::time` on a list: `InstantIsFound` says it finds an instant exactly when
an admitted entry has one, and the three writers keep each entry's bank and never turn an instant into a gap.

**Ingestion.** What is recorded is whole because wholeness passes from hand to hand. `OneEntryOfEach`: a payload that
arrived has one entry among waiting, delivered and lost, so a count says where it is. `StreamIsOrdered`: what a session may count
from (`countedFrom`) is `HELD_BACK_SLOTS` above its first block-meta, and the stream overtakes by less, so
a transaction of a slot counted was sent to this session. `SessionIsWhole`: a slot below `settled_below` has no
payload waiting; each was released to the channel or lost and counted. `HandedOnIsTracked`: what was released is in the channel,
in the worker, in the database or counted by it. `RecordsAreSound`: the published, the due and the recorded spans of a session are
nested, and a span due has only what `onTheirWay` names still under way; a tick waits for that, so a span written was whole. Each of these is
kept by every step, because a slot that is whole stays whole (a step only moves an entry on).

**Events.** `RowsAreOfPayloads`: a row is that of a payload whatever release wrote it, because `event_index` counts every payload addressed to the
program, recognised or not; so a key names one payload (`EachEventOnce`). `JobFollowsOutcome`: the events a delivery still holds are a suffix of
what the release recognises in the transaction, those before it are stored or counted and, if nothing failed, shown by their
pools' state. `NextStepKeeps` and `NextEventKeeps` carry it through the recipes: each inserts, only those with reserves project,
and after the insert. Positions are ordered (`PositionsAreOrdered`), so an upsert never takes a state back
(`UpsertShows`), and `StateIsStored` says the state shown is that of a row.

**Walks.** Because a key names one row, `Precedes` orders the rows strictly (`RowsAreOrdered`), and `Sorted`, which places each row by the number of those
before it, lists the set in that order (`SortedIsTheSet`). Between two pages, `AtCursor`: all that was there at the first page and was
not shown is after the cursor, all that was shown is not. `IsPage` says what a page must be: rows after the cursor in order, and whatever it leaves out
of what was there is after all of them, and then it is full. The one-table lists are pages (`OneTableIsAPage`). A merged list cuts each table before it merges: a row
cut from its table has `Limit + 1` rows of that table before it, so the merge is full without it (`MergeIsAPage`). The floor of
the swaps (`FloorIsLow`): from it on there is more than a page, or nothing that is asked for is below it; inserts between the two reads only
add to the first (`SwapsAreAPage`). Keys read first are found by the second read, since rows are never deleted
(`KeysAreShown`). All of it survives an insert at any point (`SoundGrows`).

**Answers.** `RowsFit`: a row is in its table because its event was translated and no number of it was past its column. Then, kind by kind
(`AnswersAreEmitted`), the columns of the row and the fields of the answer are followed back to the wire numbers.

**Cycles.** `TimesInv` says where the tables end: nothing yet, or (`Shape`) hours from `f` on, the hours `f` to `lf` frozen, and exactly the
tranches `f` to `b`, with `lf`'s among them. It says as much of every plan that waits for the lock: it is at most a tranche old
(`Timely`, which is where the statement timeout enters), and (`OldPlan`) it begins in what the tables hold or where they end, unless it can write
nothing but hours. The hard case is two writers on empty tables on the two sides of an hour's boundary: the plan of the hour before comes
second and moves the tables' first hour back. It leaves no hole in the tranches, because the first plan, made on the boundary itself, had no
ended tranche of its own hour to value (`LockEarly`, `WaitEarly`). `Locking` is then the heart: after the
progress is read again under the lock, what is left of a cycle has an `Effect`, new tranches that touch those of the tables, and hours to freeze that
follow `lf` and have all their tranches. `CyclesCatchUp` follows from `PlanNext`: a plan that values and freezes nothing has no hour due.

**Facts.** `IsWritten` is what the seventeen statements leave in each table (`WrittenIs`). `FactsInv` adds to the times what the tables hold: `Valued`, swaps are
what was `seen`, and moves those of the tranches measured, which are a final stretch; `Summed`, the hours with rows are those recorded, and hours with
moves begin after the last tranche not measured; `Bounded`, so that the first and last row of a table exist; `Facts`, the property itself. An
hour that has its tranches gains nothing by a later cycle, whose tranches are new (`SpanStays`), so a frozen hour stays whole (`HourStays`); one
being frozen was summed in this very transaction (`HourFreezes`). A run settled has its gap behind it among the tranches, and no later mark can fall in it
(`RunStays`, `RunDrawn`). `Changed` covers the hour of position changes the release before left out: until the first cycle, every plan begins at its
third hour, so that cycle reaches back to the second and counts it (`ChangesStay`).

**Listener.** `BudgetCountsBarren`: while the loop runs, the code's `attempt` is the number of attempts in a row
that brought no data, and is below the bound. It is kept because each ending is given the verdict that fits what the
session brought (`Fitting`), `SettleKeepsBudget`.

**Recorder.** `RangesAreLatest`: what is pending for a session is its last span. `DueLagsBehind`: what a tick holds
across its awaits is within the last span of the session it is for, and equal to it if it was read as ended. `WrittenIsRecorded`: a
span counts as written once every protocol's row holds it. Spans are ordered by `Within`, of which `Include` and
the upsert are the least upper bounds (`IncludeIsLeast`, `UpsertIsLeast`); a row only grows, and stays within what its session published (`RowsWithin`).

**Daemon.** `PlacesHoldSent`: channel, hand, permits, database and the drop counts hold what was sent, apart
from each other and without repetition in the channel. `DoneIsIdle`: the worker returns only with every permit back. `StopAccount`: of the stages the stop has passed,
each was named as still running or has ended with a result that a clean outcome agrees with; so a clean exit
means that no collected stage failed, and an insert cut by the runtime belongs to a worker that was named.

**JSON-RPC source.** `OnePlace` and `Apart`: each notification has one place, and the channels hold it once. `Lifecycle` and
`NothingEndsByItself`: with the consumer there, no stop asked for and no stage failed, no stage ends well. `LossIsExplained`:
a transaction is lost in the hand-over only after a stop, a gone consumer or a failed stage. For the refinement
(`RpcImplementsPort`), `FetchesFollowPort` maps each step of a detached fetch to the port's seeking, obtaining or handing over,
`SourceFollowsPort` the end of the source, `OutsideFollowsPort` the stop and the consumer; every other step leaves the mapped state alone (`RestStutters`).

**Signals.** A tick's lookup reads one row: the latest within the cooldown. `LatestIsEnough`: since the rows within a
cooldown escalate, the latest is the most severe, so comparing with it compares with all. That needs `TicksAreOrdered` (rows of earlier
ticks are strictly earlier) and `FoundIsFresh` (between lookup and insert nothing of another tick enters the table).

**Kept prices.** `RememberedIsWritten` compares instants, so `PriceInv` adds that a batch about to be inserted bears the instant of
its own tick, later than every row (`BatchIsNewer`): a batch that lands unremembered, because the process was told it failed or was killed, leaves the memory
older than the table, and one that is remembered has landed. `KeptInv` says that what is kept has an instant.

**Live feed.** Failed reads, stops and the order of the shared read change nothing; what counts is what the watermark says of what was read.
`NeverAgain`: a row sent or about to be sent is at or below the floor, or in `delivered`, or has left the lookback
for good, so no read finds it fresh (`BroadcastOnce`). `PassedIsExcused`: every id read since the anchor
went out or cannot be shown; above every hole the floor passed, the *nearest* id that was read was last read `GapSettle` ago (`Over`), and
no read will date it again, since it is behind the floor; and a row that shows up in
such a hole is `late` or `crowded`. It is the nearest id that counts because `settle` moves the floor one read id at a time and looks at the age of
that one (`NextReadAbove`), and it counts only if the read under way does not see it again (`Dates`); what an answer under way leaves out must be said too, because rows become visible between a read and its answer. A batch is the `PollBatch` lowest of what is fresh: `Rank` numbers a finite set of
ids (`RanksDiffer`, `EveryRank`), from which `PreparedLists` and `LeftOutOfAFullBatch` follow. `ConnInv` carries the positions of a
connection that has not ended: what it was told is the log from where it subscribed to where it is.

**Only model-checked.** `AnswersStand` and `WalkIsOneList` of `AnalyticReads`: each figure is a statement of its own over a window that may end in hours still
open, and the keys of the walks are sums folded over sets, about which this prover has no induction; `PricesStayCurrent` and `DeviationIsTold` of `DeviationWatch`, whose delays add up periods of both daemons and are checked for the run's values only;
and all liveness under fairness, which is out of the prover's reach.

## Not modelled

Metrics and logs; protobuf, Borsh and Solana message translation (their outcome is an input);
pings beyond their being no data; the sanitising of credentials. Bank ids are values and instants are
values: nothing computes with either. Addresses, names, token pairs and metadata that only decorate
an answer. USD valuation, the window of a week, which differs from the day in length, and that of a month, which
is always closed (`CLOSED_WINDOWS`). Retention
and migrations, except for what an older release left in the tables.

Of the components: the metadata and pool-account workers (queues read whole, rows written idempotently,
no memory); the two other detectors (they compare figures of views the model does not hold); the alarms and
reporters (stateless); the archive worker (a pipe of external programs); keys, capacity and the cache of the API; the AMM's
128-bit arithmetic; configuration; the web dashboard. `PROJECT.json` gives each its reason.

## Plan

The modules planned are written, and every safety property of the buffer, the ingestion, the listener, the recorder, the
daemon, the JSON-RPC source, the live feed, the event store and its lists that a run checks is proved, and so is that of the cycles of the
analytic facts. What is left is the proof of the API's answers over those facts (`AnswersStand`, `WalkIsOneList`), for which
`FactsInv` is the foundation, and of the two delays of `DeviationWatch`.

Candidates for later modules: the pool-account worker against the indexer's flags, the cache of computed answers,
the archive's run.
