--------------------------- MODULE IndexerWorker ---------------------------
(***************************************************************************)
(* The indexer worker (crates/indexer/src/application/workers/indexer.rs): *)
(* takes delivered transactions off a bounded channel, waits for a permit  *)
(* for each, and indexes it in a detached task.  A shutdown preempts both  *)
(* waits: what is in hand and what is queued is dropped and counted, then  *)
(* the worker waits for every permit to come back.                         *)
(***************************************************************************)
EXTENDS Integers, Sequences, FiniteSets

CONSTANTS
    QueueCapacity,  \* capacity of the channel into the worker, 1000 in production
    MaxConcurrent,  \* permits: the database pool less its other users
    NoTx            \* nothing in hand

VARIABLES
    queue,      \* the channel
    hand,       \* the transaction taken off the channel, waiting for a permit
    inFlight,   \* the transactions whose indexing task holds a permit
    worker,     \* "running", "draining" (await_in_flight) or "done"
    persisted,  \* what was indexed
    failed,     \* what failed to be indexed, logged and counted
    discarded   \* what the stop dropped from the channel or from the hand

workerVars == <<queue, hand, inFlight, worker, persisted, failed, discarded>>

Elements(s) == {s[i] : i \in DOMAIN s}

\* run, the recv arm: the shutdown arm is polled first.
Recv(shutdown) ==
    /\ worker = "running" /\ hand = NoTx
    /\ ~shutdown
    /\ queue # <<>>
    /\ hand' = Head(queue)
    /\ queue' = Tail(queue)
    /\ UNCHANGED <<inFlight, worker, persisted, failed, discarded>>

\* dispatch_one, the permit arm: the task is spawned and the loop goes on.
Dispatch(shutdown) ==
    /\ worker = "running" /\ hand # NoTx
    /\ ~shutdown
    /\ Cardinality(inFlight) < MaxConcurrent
    /\ inFlight' = inFlight \cup {hand}
    /\ hand' = NoTx
    /\ UNCHANGED <<queue, worker, persisted, failed, discarded>>

\* Mutation: the transaction in hand is forgotten uncounted.
DropInHandSilently(shutdown) ==
    /\ worker = "running" /\ hand # NoTx
    /\ shutdown
    /\ hand' = NoTx
    /\ UNCHANGED <<queue, inFlight, worker, persisted, failed, discarded>>

\* dispatch_one, the shutdown arm: the transaction in hand is dropped.
DropInHand(shutdown) ==
    /\ worker = "running" /\ hand # NoTx
    /\ shutdown
    /\ discarded' = discarded \cup {hand}
    /\ hand' = NoTx
    /\ UNCHANGED <<queue, inFlight, worker, persisted, failed>>

\* run, the shutdown arm: drain_and_count, then await_in_flight.
StopOnShutdown(shutdown) ==
    /\ worker = "running" /\ hand = NoTx
    /\ shutdown
    /\ discarded' = discarded \cup Elements(queue)
    /\ queue' = <<>>
    /\ worker' = "draining"
    /\ UNCHANGED <<hand, inFlight, persisted, failed>>

\* run, the recv arm's None: every sender is gone and the channel is empty.
StopOnClosed(shutdown, sendersGone) ==
    /\ worker = "running" /\ hand = NoTx
    /\ ~shutdown
    /\ sendersGone
    /\ queue = <<>>
    /\ worker' = "draining"
    /\ UNCHANGED <<queue, hand, inFlight, persisted, failed, discarded>>

\* Mutation: run returns without waiting for the permits.
WorkerReturnsAtOnce ==
    /\ worker = "draining"
    /\ worker' = "done"
    /\ queue' = <<>>
    /\ discarded' = discarded \cup Elements(queue)
    /\ UNCHANGED <<hand, inFlight, persisted, failed>>

\* await_in_flight returns when every permit is back, and run returns: the
\* receiver is dropped, with whatever was sent after the drain.
WorkerReturns ==
    /\ worker = "draining"
    /\ inFlight = {}
    /\ worker' = "done"
    /\ queue' = <<>>
    /\ discarded' = discarded \cup Elements(queue)
    /\ UNCHANGED <<hand, inFlight, persisted, failed>>

\* index_one: the transaction is processed or its failure logged, and the
\* permit comes back either way.
IndexOne(tx, ok) ==
    /\ tx \in inFlight
    /\ inFlight' = inFlight \ {tx}
    /\ IF ok THEN persisted' = persisted \cup {tx} /\ failed' = failed
             ELSE failed' = failed \cup {tx} /\ persisted' = persisted
    /\ UNCHANGED <<queue, hand, worker, discarded>>

\* mpsc::Sender, as the session uses it: full, closed, or a message is queued.
QueueFull == Len(queue) >= QueueCapacity
ReceiverGone == worker = "done"

WorkerInit ==
    /\ queue = <<>>
    /\ hand = NoTx
    /\ inFlight = {}
    /\ worker = "running"
    /\ persisted = {}
    /\ failed = {}
    /\ discarded = {}
=============================================================================
