----------------------------- MODULE RpcSource -----------------------------
(***************************************************************************)
(* The JSON-RPC transaction source (crates/indexer/src/infra/rpc): a fleet *)
(* of logsSubscribe workers under a listener, a dispatcher that filters    *)
(* what they notify, and a fetch worker that asks for each transaction in  *)
(* a detached task.  Two bounded channels join the three stages; the first *)
(* stage that ends cancels the token and the others are waited for.        *)
(*                                                                         *)
(* A notification is a record of the event's number and of what its logs   *)
(* hold.  The pauses between attempts have any length, so the backoff is   *)
(* not kept.                                                               *)
(***************************************************************************)
EXTENDS Naturals, Sequences, FiniteSets, SequencesExt

CONSTANTS
    Targets,        \* the addresses that may be watched, one worker each
    MaxNotes,       \* bound: how many events the provider notifies
    MaxAttempts,    \* RPC_WORKER_MAX_RETRIES
    StageCapacity,  \* STAGE_CHANNEL_CAPACITY
    MaxFetches,     \* MAX_CONCURRENT_FETCHES
    FetchRetries,   \* the retries of TransactionFetcher::fetch, 5
    Room,           \* capacity of the channel to the indexer worker
    NoNote          \* nothing in the fetch worker's hand

ASSUME RpcAssumption ==
    /\ MaxNotes \in Nat /\ MaxAttempts \in Nat \ {0} /\ FetchRetries \in Nat
    /\ StageCapacity \in Nat \ {0} /\ MaxFetches \in Nat \ {0} /\ Room \in Nat \ {0}

\* What a log event can hold: a transaction of the program, one that only
\* references it, one that failed on chain, one with an unreadable signature.
Contents == {"invoked", "referenced", "failed", "malformed"}

Note == [id : 1..MaxNotes, holds : Contents]
Ids(notes) == {n.id : n \in notes}

ASSUME NoNoteAssumption == NoNote \notin Note

VARIABLES
    watched,     \* RpcListener::watched
    worker,      \* each worker: "unborn", "between" attempts, "connecting",
                 \* "streaming", or its end: "ok" or "gave_up"
    failures,    \* SubscriptionWorker::run's attempt: the failed ones in a row
    notified,    \* how many events the provider has notified
    raw,         \* the channel to the dispatcher
    signatures,  \* the channel to the fetch worker
    stage,       \* the three stages: "idle", "running", "ok", "err"
    hand,        \* what the fetch worker holds while it waits for a permit
    fetching,    \* the fetches in flight, with the retries each has used
    fetched,     \* fetched transactions on their way to the select! of the handover
    sending,     \* those that saw no stop there and are in the send
    channel,     \* the channel to the indexer worker
    consumer,    \* its receiver is there
    delivered,   \* history: the ids of what has entered that channel
    counted,     \* history: the ids of what a metric counted as rejected, failed or dropped
    warned,      \* history: the ids of what a worker dropped with a log line, its channel full
    lost,        \* history: the ids of what went with a channel or into a closed one, uncounted
    asked,       \* a stop was asked for from outside
    shutdown,    \* the cancellation token
    source,      \* run: "configuring", "running", "draining", "ok" or "err"
    outcome      \* what the stage that ended first reported

endVars == <<asked, shutdown, source, outcome>>
fetchVars == <<hand, fetching, fetched, sending>>
pipeVars == <<raw, signatures, fetchVars, channel, consumer>>
tallyVars == <<delivered, counted, warned, lost>>
vars == <<watched, worker, failures, notified, stage, pipeVars, tallyVars, endVars>>

Stages == <<"listener", "dispatcher", "fetch">>

WorkerEnded(t) == worker[t] \in {"unborn", "ok", "gave_up"}

\* The permits taken: a fetch holds its own until it has handed over.
InFlight == DOMAIN fetching \cup fetched \cup sending

-----------------------------------------------------------------------------
(***************************************************************************)
(* The subscription workers and the provider.                              *)
(***************************************************************************)

WorkerTo(t, at) == worker' = [worker EXCEPT ![t] = at]
BesidesWorkers == UNCHANGED <<watched, notified, stage, pipeVars, tallyVars, endVars>>

\* Mutation: a worker that waits for its next attempt does not hear the stop.
WorkerStopsNever(t) ==
    /\ worker[t] = "between" /\ shutdown
    /\ failures[t] = 0
    /\ WorkerTo(t, "ok")
    /\ UNCHANGED failures
    /\ BesidesWorkers

\* run, the top of the loop: the stop, which also cuts sleep_or_cancel short
WorkerStops(t) ==
    /\ worker[t] = "between" /\ shutdown
    /\ WorkerTo(t, "ok")
    /\ failures' = [failures EXCEPT ![t] = 0]
    /\ BesidesWorkers

\* run, another attempt once the pause is over
WorkerTries(t) ==
    /\ worker[t] = "between" /\ ~shutdown
    /\ WorkerTo(t, "connecting")
    /\ UNCHANGED failures
    /\ BesidesWorkers

\* connect_and_forward up to the subscription, which nothing interrupts.  A
\* stream once open ends the count: it closes (attempt = 0) or ends the worker.
WorkerConnects(t) ==
    /\ worker[t] = "connecting"
    /\ WorkerTo(t, "streaming")
    /\ failures' = [failures EXCEPT ![t] = 0]
    /\ BesidesWorkers

\* run, the Failed outcome: another attempt after the backoff, or giving up
WorkerFails(t) ==
    /\ worker[t] = "connecting"
    /\ IF failures[t] + 1 >= MaxAttempts
       THEN WorkerTo(t, "gave_up") /\ failures' = [failures EXCEPT ![t] = 0]
       ELSE WorkerTo(t, "between") /\ failures' = [failures EXCEPT ![t] = @ + 1]
    /\ BesidesWorkers

\* forward_stream's try_send: the channel is closed once the dispatcher ended
ForwardsTo(t, note) ==
    \/ /\ stage["dispatcher"] = "running" /\ Len(raw) < StageCapacity
       /\ raw' = Append(raw, note)
       /\ UNCHANGED <<worker, warned, lost>>
    \/ /\ stage["dispatcher"] = "running" /\ Len(raw) = StageCapacity
       /\ warned' = warned \cup {note.id}
       /\ UNCHANGED <<worker, raw, lost>>
    \/ /\ stage["dispatcher"] # "running"
       /\ lost' = lost \cup {note.id}
       /\ WorkerTo(t, "ok")
       /\ UNCHANGED <<raw, warned>>

\* forward_stream, one response
WorkerForwards(t) ==
    /\ worker[t] = "streaming"
    /\ notified < MaxNotes
    /\ notified' = notified + 1
    /\ \E what \in Contents : ForwardsTo(t, [id |-> notified + 1, holds |-> what])
    /\ UNCHANGED <<watched, failures, stage, signatures, fetchVars, channel, consumer,
                   delivered, counted, endVars>>

\* run, the StreamClosed outcome
StreamCloses(t) ==
    /\ worker[t] = "streaming"
    /\ WorkerTo(t, "between")
    /\ UNCHANGED failures
    /\ BesidesWorkers

\* forward_stream's shutdown arm, the unsubscribe included
WorkerUnsubscribes(t) ==
    /\ worker[t] = "streaming" /\ shutdown
    /\ WorkerTo(t, "ok")
    /\ UNCHANGED failures
    /\ BesidesWorkers

\* A worker's task may panic wherever it is: join_fleet files it with those
\* that gave up.
WorkerPanics(t) ==
    /\ ~WorkerEnded(t)
    /\ WorkerTo(t, "gave_up")
    /\ failures' = [failures EXCEPT ![t] = 0]
    /\ BesidesWorkers

WorkerStep(t) ==
    \/ WorkerStops(t)
    \/ WorkerTries(t)
    \/ WorkerConnects(t)
    \/ WorkerFails(t)
    \/ WorkerUnsubscribes(t)

-----------------------------------------------------------------------------
(***************************************************************************)
(* The listener.                                                           *)
(***************************************************************************)

StageTo(s, at) == stage' = [stage EXCEPT ![s] = at]

\* watch, watch_pool
Watch(t) ==
    /\ source = "configuring"
    /\ t \notin watched
    /\ watched' = watched \cup {t}
    /\ UNCHANGED <<worker, failures, notified, stage, pipeVars, tallyVars, endVars>>

FleetUnborn == \A t \in watched : worker[t] = "unborn"

\* RpcListener::run up to the fleet: one worker per watched address
StartFleet ==
    /\ stage["listener"] = "running" /\ watched # {} /\ FleetUnborn
    /\ worker' = [t \in Targets |-> IF t \in watched THEN "between" ELSE worker[t]]
    /\ UNCHANGED <<watched, failures, notified, stage, pipeVars, tallyVars, endVars>>

\* RpcListener::run, a refused credential or scheme, or nothing to watch
ListenerRefuses ==
    /\ stage["listener"] = "running" /\ FleetUnborn
    /\ StageTo("listener", "err")
    /\ UNCHANGED <<watched, worker, failures, notified, pipeVars, tallyVars, endVars>>

GaveUp == {t \in watched : worker[t] = "gave_up"}

\* Mutation: off by one, no fleet is ever dead.
FleetOutcomeNever ==
    IF Cardinality(GaveUp) > Cardinality(watched) THEN "err" ELSE "ok"

\* fleet_outcome
FleetOutcome ==
    IF Cardinality(GaveUp) = Cardinality(watched) /\ watched # {} THEN "err" ELSE "ok"

\* RpcListener::run after the select!: the fleet is joined, whether the stop
\* or the last dropped event sender ended the watch
ListenerReturns ==
    /\ stage["listener"] = "running" /\ ~FleetUnborn
    /\ \A t \in watched : WorkerEnded(t)
    /\ StageTo("listener", IF shutdown THEN "ok" ELSE FleetOutcome)
    /\ UNCHANGED <<watched, worker, failures, notified, pipeVars, tallyVars, endVars>>

-----------------------------------------------------------------------------
(***************************************************************************)
(* The dispatcher.                                                         *)
(***************************************************************************)

\* InvocationFilter, FailedTransactionFilter and the signature's parsing, in
\* this order; every refusal is counted.
Qualifies(note) == note.holds = "invoked"

\* Mutation: a saturated fetch queue drops without a count.
EmitUncounted(note) ==
    \/ /\ stage["fetch"] = "running" /\ Len(signatures) < StageCapacity
       /\ signatures' = Append(signatures, note)
       /\ UNCHANGED <<counted, lost>>
    \/ /\ stage["fetch"] # "running" \/ Len(signatures) = StageCapacity
       /\ lost' = lost \cup {note.id}
       /\ UNCHANGED <<signatures, counted>>

\* handle's try_send: a full queue costs the signature, a closed one says nothing
Emit(note) ==
    \/ /\ stage["fetch"] = "running" /\ Len(signatures) < StageCapacity
       /\ signatures' = Append(signatures, note)
       /\ UNCHANGED <<counted, lost>>
    \/ /\ stage["fetch"] = "running" /\ Len(signatures) = StageCapacity
       /\ counted' = counted \cup {note.id}
       /\ UNCHANGED <<signatures, lost>>
    \/ /\ stage["fetch"] # "running"
       /\ lost' = lost \cup {note.id}
       /\ UNCHANGED <<signatures, counted>>

\* run's recv arm and handle
DispatcherHandles ==
    /\ stage["dispatcher"] = "running" /\ raw # <<>>
    /\ raw' = Tail(raw)
    /\ IF Qualifies(Head(raw))
       THEN Emit(Head(raw))
       ELSE counted' = counted \cup {Head(raw).id} /\ UNCHANGED <<signatures, lost>>
    /\ UNCHANGED <<watched, worker, failures, notified, stage, fetchVars, channel, consumer,
                   delivered, warned, endVars>>

RawClosed == stage["listener"] # "running" /\ \A t \in Targets : WorkerEnded(t)

\* run returns: its receiver goes with what is queued
DispatcherReturns ==
    /\ stage["dispatcher"] = "running"
    /\ shutdown \/ (raw = <<>> /\ RawClosed)
    /\ StageTo("dispatcher", "ok")
    /\ raw' = <<>>
    /\ lost' = lost \cup Ids(ToSet(raw))
    /\ UNCHANGED <<watched, worker, failures, notified, signatures, fetchVars, channel,
                   consumer, delivered, counted, warned, endVars>>

-----------------------------------------------------------------------------
(***************************************************************************)
(* The fetch worker and its detached fetches.                              *)
(***************************************************************************)

BesidesFetch == UNCHANGED <<watched, worker, failures, notified, raw, endVars>>

\* FetchWorker::run, the recv arm, polled after the stop and the consumer's departure
FetchTakes ==
    /\ stage["fetch"] = "running" /\ hand = NoNote
    /\ ~shutdown /\ consumer /\ signatures # <<>>
    /\ hand' = Head(signatures)
    /\ signatures' = Tail(signatures)
    /\ UNCHANGED <<stage, fetching, fetched, sending, channel, consumer, tallyVars>>
    /\ BesidesFetch

\* FetchWorker::run returns
FetchReturns ==
    /\ stage["fetch"] = "running" /\ hand = NoNote
    /\ \/ shutdown
       \/ ~consumer
       \/ signatures = <<>> /\ stage["dispatcher"] # "running"
    /\ StageTo("fetch", "ok")
    /\ signatures' = <<>>
    /\ lost' = lost \cup Ids(ToSet(signatures))
    /\ UNCHANGED <<fetchVars, channel, consumer, delivered, counted, warned>>
    /\ BesidesFetch

\* dispatch_one: a permit, and a detached task that keeps it
SpawnFetch ==
    /\ stage["fetch"] = "running" /\ hand # NoNote
    /\ ~shutdown
    /\ Cardinality(InFlight) < MaxFetches
    /\ fetching' = [n \in DOMAIN fetching \cup {hand} |-> IF n = hand THEN 0 ELSE fetching[n]]
    /\ hand' = NoNote
    /\ UNCHANGED <<stage, signatures, fetched, sending, channel, consumer, tallyVars>>
    /\ BesidesFetch

\* dispatch_one's shutdown arm: shutdown_before_fetch
DropInHand ==
    /\ stage["fetch"] = "running" /\ hand # NoNote
    /\ shutdown
    /\ counted' = counted \cup {hand.id}
    /\ hand' = NoNote
    /\ UNCHANGED <<stage, signatures, fetching, fetched, sending, channel, consumer,
                   delivered, warned, lost>>
    /\ BesidesFetch

WithoutFetch(note) == [n \in DOMAIN fetching \ {note} |-> fetching[n]]

\* TransactionFetcher::fetch, an error that is retryable, with retries left
FetchRetried(note) ==
    /\ fetching[note] < FetchRetries
    /\ fetching' = [fetching EXCEPT ![note] = @ + 1]
    /\ UNCHANGED <<stage, signatures, hand, fetched, sending, channel, consumer, tallyVars>>
    /\ BesidesFetch

\* fetch_one, no transaction: the retries are spent, the version is refused
\* (not retried), or from_rpc refuses what came back
FetchFails(note) ==
    /\ fetching' = WithoutFetch(note)
    /\ counted' = counted \cup {note.id}
    /\ UNCHANGED <<stage, signatures, hand, fetched, sending, channel, consumer,
                   delivered, warned, lost>>
    /\ BesidesFetch

FetchAnswers(note) ==
    /\ fetching' = WithoutFetch(note)
    /\ fetched' = fetched \cup {note}
    /\ UNCHANGED <<stage, signatures, hand, sending, channel, consumer, tallyVars>>
    /\ BesidesFetch

\* fetch_one's handover, the poll of the stop, first in the select!
HandoverSeesStop(note) ==
    /\ note \in fetched \cup sending /\ shutdown
    /\ fetched' = fetched \ {note}
    /\ sending' = sending \ {note}
    /\ counted' = counted \cup {note.id}
    /\ UNCHANGED <<stage, signatures, hand, fetching, channel, consumer, delivered,
                   warned, lost>>
    /\ BesidesFetch

HandoverStarts(note) ==
    /\ note \in fetched /\ ~shutdown
    /\ fetched' = fetched \ {note}
    /\ sending' = sending \cup {note}
    /\ UNCHANGED <<stage, signatures, hand, fetching, channel, consumer, tallyVars>>
    /\ BesidesFetch

\* The send: it may complete after a stop that came between the two polls, and
\* after the worker and the source have returned.
HandoverSends(note) ==
    /\ note \in sending
    /\ sending' = sending \ {note}
    /\ \/ /\ consumer /\ Len(channel) < Room
          /\ channel' = Append(channel, note)
          /\ delivered' = delivered \cup {note.id}
          /\ UNCHANGED counted
       \/ /\ ~consumer
          /\ counted' = counted \cup {note.id}
          /\ UNCHANGED <<channel, delivered>>
    /\ UNCHANGED <<stage, signatures, hand, fetching, fetched, consumer, warned, lost>>
    /\ BesidesFetch

FetchEnds ==
    \/ \E note \in DOMAIN fetching :
          FetchRetried(note) \/ FetchFails(note) \/ FetchAnswers(note)
    \/ \E note \in InFlight :
          HandoverSeesStop(note) \/ HandoverStarts(note) \/ HandoverSends(note)

-----------------------------------------------------------------------------
(***************************************************************************)
(* run: the three stages, and the outside.                                 *)
(***************************************************************************)

BesidesRun == UNCHANGED <<watched, worker, failures, notified, pipeVars, tallyVars>>

\* run: the three stages are spawned
Run ==
    /\ source = "configuring"
    /\ source' = "running"
    /\ stage' = [s \in ToSet(Stages) |-> "running"]
    /\ UNCHANGED <<asked, shutdown, outcome>>
    /\ BesidesRun

Ended == {i \in DOMAIN Stages : stage[Stages[i]] \in {"ok", "err"}}

\* The biased select!: the first ended stage in pipeline order; the token is
\* cancelled for the others
SourceSelects ==
    /\ source = "running" /\ Ended # {}
    /\ outcome' = stage[Stages[Min(Ended)]]
    /\ shutdown' = TRUE
    /\ source' = "draining"
    /\ UNCHANGED <<asked, stage>>
    /\ BesidesRun

\* Mutation: what the others report is not looked at.
DrainStagesBlind ==
    /\ source = "draining" /\ Ended = DOMAIN Stages
    /\ source' = outcome
    /\ UNCHANGED <<asked, shutdown, outcome, stage>>
    /\ BesidesRun

\* drain_stages: the others are joined, and the first failure wins
DrainStages ==
    /\ source = "draining" /\ Ended = DOMAIN Stages
    /\ source' = IF \E i \in DOMAIN Stages : stage[Stages[i]] = "err" THEN "err" ELSE outcome
    /\ UNCHANGED <<asked, shutdown, outcome, stage>>
    /\ BesidesRun

\* A stage's task panics: join reports it as an error, and its channel goes
\* with what is queued.  A listener's fleet is left to itself.
StagePanics(s) ==
    /\ stage[s] = "running"
    /\ StageTo(s, "err")
    /\ raw' = IF s = "dispatcher" THEN <<>> ELSE raw
    /\ signatures' = IF s = "fetch" THEN <<>> ELSE signatures
    /\ hand' = IF s = "fetch" THEN NoNote ELSE hand
    /\ lost' = lost \cup (CASE s = "listener"   -> {}
                            [] s = "dispatcher" -> Ids(ToSet(raw))
                            [] s = "fetch"      -> Ids(ToSet(signatures) \cup ({hand} \ {NoNote})))
    /\ UNCHANGED <<watched, worker, failures, notified, fetching, fetched, sending, channel,
                   consumer, delivered, counted, warned, endVars>>

\* The indexer worker takes a transaction, or drops its receiver.
Consume ==
    /\ consumer /\ channel # <<>>
    /\ channel' = Tail(channel)
    /\ UNCHANGED <<watched, worker, failures, notified, stage, raw, signatures, fetchVars,
                   consumer, tallyVars, endVars>>

ConsumerLeaves ==
    /\ consumer
    /\ consumer' = FALSE
    /\ channel' = <<>>
    /\ UNCHANGED <<watched, worker, failures, notified, stage, raw, signatures, fetchVars,
                   tallyVars, endVars>>

AskStop ==
    /\ ~shutdown
    /\ asked' = TRUE
    /\ shutdown' = TRUE
    /\ UNCHANGED <<source, outcome, stage>>
    /\ BesidesRun

-----------------------------------------------------------------------------
Init ==
    /\ watched = {}
    /\ worker = [t \in Targets |-> "unborn"]
    /\ failures = [t \in Targets |-> 0]
    /\ notified = 0
    /\ raw = <<>> /\ signatures = <<>> /\ channel = <<>>
    /\ stage = [s \in ToSet(Stages) |-> "idle"]
    /\ hand = NoNote /\ fetching = <<>> /\ fetched = {} /\ sending = {}
    /\ consumer = TRUE
    /\ delivered = {} /\ counted = {} /\ warned = {} /\ lost = {}
    /\ asked = FALSE /\ shutdown = FALSE
    /\ source = "configuring" /\ outcome = "ok"

ListenerStep == StartFleet \/ ListenerRefuses \/ ListenerReturns
FetchStep == FetchTakes \/ FetchReturns \/ SpawnFetch \/ DropInHand
SourceStep == SourceSelects \/ DrainStages

Next ==
    \/ \E t \in Targets :
          \/ Watch(t)
          \/ WorkerStep(t)
          \/ WorkerForwards(t)
          \/ StreamCloses(t)
          \/ WorkerPanics(t)
    \/ ListenerStep
    \/ DispatcherHandles
    \/ DispatcherReturns
    \/ FetchStep
    \/ FetchEnds
    \/ Run
    \/ SourceStep
    \/ \E s \in ToSet(Stages) : StagePanics(s)
    \/ Consume
    \/ ConsumerLeaves
    \/ AskStop

\* Every task is polled.  A connect is answered or refused in the end (the code
\* sets it no timeout), and so is a request for a transaction; the provider
\* owes no notification and the consumer owes nothing.
Fairness ==
    /\ \A t \in Targets : WF_vars(WorkerStep(t))
    /\ WF_vars(ListenerStep)
    /\ WF_vars(DispatcherReturns)
    /\ WF_vars(DispatcherHandles)
    /\ WF_vars(FetchStep)
    /\ WF_vars(FetchEnds)
    /\ WF_vars(SourceStep)

Spec == Init /\ [][Next]_vars /\ Fairness

-----------------------------------------------------------------------------
(***************************************************************************)
(* Properties.                                                             *)
(***************************************************************************)

\* The types of the stages' locals, and the bounds of the two channels and of
\* the fetch permits (source.rs, STAGE_CHANNEL_CAPACITY; fetch_worker.rs,
\* MAX_CONCURRENT_FETCHES), which a handover that waits does not give back.
TypeOK ==
    /\ watched \subseteq Targets
    /\ worker \in [Targets -> {"unborn", "between", "connecting", "streaming", "ok", "gave_up"}]
    /\ failures \in [Targets -> 0..(MaxAttempts - 1)]
    /\ notified \in 0..MaxNotes
    /\ raw \in Seq(Note) /\ Len(raw) <= StageCapacity
    /\ signatures \in Seq(Note) /\ Len(signatures) <= StageCapacity
    /\ hand \in Note \cup {NoNote}
    /\ \A n \in DOMAIN fetching : n \in Note /\ fetching[n] \in 0..FetchRetries
    /\ fetched \subseteq Note /\ sending \subseteq Note
    /\ Cardinality(InFlight) <= MaxFetches
    /\ channel \in Seq(Note) /\ Len(channel) <= Room
    /\ consumer \in BOOLEAN /\ asked \in BOOLEAN /\ shutdown \in BOOLEAN
    /\ stage \in [ToSet(Stages) -> {"idle", "running", "ok", "err"}]
    /\ source \in {"configuring", "running", "draining", "ok", "err"}
    /\ outcome \in {"ok", "err"}

\* Where a notification is: one place, or one account of its end.
Places(id) ==
    LET In(S) == IF id \in S THEN 1 ELSE 0
    IN  In(Ids(ToSet(raw))) + In(Ids(ToSet(signatures))) + In(Ids({hand} \ {NoNote}))
          + In(Ids(DOMAIN fetching)) + In(Ids(fetched)) + In(Ids(sending))
          + In(delivered) + In(counted) + In(warned) + In(lost)

\* A notification is in one place or has one account of its end, through the
\* two channels, the permit, the detached fetch and the handover that races
\* the stop; and it goes without an account only when the pipeline is coming
\* down: the token is cancelled, the consumer has gone, or a stage failed
\* (dispatcher.rs: "a saturated consumer costs a dropped signature, counted").
NoSilentLoss ==
    /\ \A id \in 1..MaxNotes : Places(id) = IF id <= notified THEN 1 ELSE 0
    /\ lost # {} => shutdown \/ ~consumer \/ \E i \in Ended : stage[Stages[i]] = "err"

\* No stage's failure is reported as a clean stop, whichever stage ended first
\* and even when it failed while the pipeline wound down (source.rs: "a stage
\* can fail while the pipeline winds down, after another returned Ok(())").
NoFailureSwallowed ==
    source = "ok" => \A i \in DOMAIN Stages : stage[Stages[i]] = "ok"

\* A stop, a departed consumer or a dead fleet ends the source and every
\* detached fetch, though nothing makes the consumer take what it was handed
\* (fetch_worker.rs: "shutdown must not depend on the consumer").
SourceEnds ==
    (source = "running"
       /\ (shutdown \/ ~consumer \/ (~FleetUnborn /\ \A t \in watched : WorkerEnded(t))))
    ~> (source \in {"ok", "err"} /\ InFlight = {})

\* The port, as the source's tasks show it.
Port == INSTANCE TransactionSource WITH
    Items <- Note,
    sought <- DOMAIN fetching,
    obtained <- fetched \cup sending,
    stopping <- shutdown,
    result <- IF source \in {"ok", "err"} THEN source ELSE "running"

\* The source keeps the promise of the port it stands behind: it takes nothing
\* on after the stop, waits on a full consumer rather than drop, and returns Ok
\* only for a stop or a departed consumer.
ImplementsPort == Port!Spec
=============================================================================
