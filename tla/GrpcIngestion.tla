--------------------------- MODULE GrpcIngestion ---------------------------
(***************************************************************************)
(* The gRPC ingestion path end to end: a stream of slots, the sessions     *)
(* that read it one after the other, the indexer worker that persists what *)
(* they hand on, and the recorder that writes which slots were watched,    *)
(* with what a server cut, a stop or a kill of the process takes away.     *)
(*                                                                         *)
(* The question: may a slot that observed_slot_ranges says was watched     *)
(* miss a transaction?  The view over it is what tells an operator which   *)
(* slots to fetch again, so a slot wrongly in it is lost for good.         *)
(*                                                                         *)
(* External: the stream.  A slot's transactions and its block-meta are     *)
(* sent in any order among themselves, and interleave with those of fewer  *)
(* than `Lateness` slots before; its Finalized status comes at any time    *)
(* from then on.  That is what HELD_BACK_SLOTS assumes of a server.  What  *)
(* is sent while no session reads is missed.                               *)
(***************************************************************************)
EXTENDS GrpcSession

CONSTANTS
    TxCount,      \* how many transactions each slot carries
    Untimed,      \* the slots whose block-meta carries no block time
    StreamBank,   \* the bank every message of this stream names
    Lateness,     \* events of slots this far apart do not overtake each other
    MaxSessions   \* bound on the sessions of one process

\* The order HELD_BACK_SLOTS counts on: no event is later than what it holds back.
ASSUME StreamAssumption ==
    /\ TxCount \in [Slots -> Nat]
    /\ StreamBank \in Bank
    /\ Lateness \in Nat /\ Lateness <= HeldBackSlots

VARIABLES
    sentTxs,       \* how many transactions of each slot were sent
    sentMetas,     \* the slots whose block-meta was sent
    sentStatuses,  \* the slots whose Finalized status was sent
    shutdown,      \* the process's cancellation token
    attemptsOver,  \* the listener makes no more attempts; the recorder is stopped
    alive,         \* the process was not killed
    onTheirWay,    \* what was released and unfinished at the recorder's last reading
    atStop         \* what was released and unfinished when the recorder was stopped

streamVars == <<sentTxs, sentMetas, sentStatuses>>
ghostVars == <<onTheirWay, atStop>>
vars == <<bufferVars, recorderVars, workerVars, sessionVars, streamVars,
          shutdown, attemptsOver, alive, ghostVars>>

\* What the recorder and the worker keep while a session handles an update.
othersInSession == <<due, written, unwritten, recorder, rows, failures,
                     hand, inFlight, worker, persisted, failed, discarded,
                     shutdown, attemptsOver, alive, onTheirWay, atStop>>

\* Released by the buffer and not finished with.
Underway ==
    Elements(batch) \cup Elements(queue) \cup inFlight
        \cup (IF hand = NoTx THEN {} ELSE {hand})

RecorderStopped == shutdown \/ attemptsOver

-----------------------------------------------------------------------------
(***************************************************************************)
(* The stream and the session reading it.                                  *)
(***************************************************************************)

\* Events of slots `Lateness` or more before `slot` have all been sent.
InOrder(slot) ==
    \A s \in Slots : s + Lateness <= slot => sentTxs[s] = TxCount[s] /\ s \in sentMetas

Listens == alive /\ ~shutdown

SendTransaction(slot) ==
    /\ InOrder(slot)
    /\ sentTxs[slot] < TxCount[slot]
    /\ sentTxs' = [sentTxs EXCEPT ![slot] = @ + 1]
    /\ UNCHANGED <<sentMetas, sentStatuses>>

SendBlockMeta(slot) ==
    /\ InOrder(slot)
    /\ slot \notin sentMetas
    /\ sentMetas' = sentMetas \cup {slot}
    /\ UNCHANGED <<sentTxs, sentStatuses>>

\* Statuses of slots without routable transactions only move the buffer's head.
SendFinalized(slot) ==
    /\ InOrder(slot)
    /\ slot \notin sentStatuses
    /\ TxCount[slot] > 0 /\ slot \notin Unroutable
    /\ sentStatuses' = sentStatuses \cup {slot}
    /\ UNCHANGED <<sentTxs, sentMetas>>

ReadTransaction(slot) ==
    /\ Listens
    /\ SendTransaction(slot)
    /\ \/ HandleTransaction(slot, StreamBank)
       \/ HandleUnroutable(slot, StreamBank)
    /\ UNCHANGED <<queue, othersInSession>>

ReadBlockMeta(slot) ==
    /\ Listens
    /\ SendBlockMeta(slot)
    /\ slot \notin Untimed
    /\ \E at \in Times : HandleBlockMeta(slot, StreamBank, at)
    /\ UNCHANGED <<queue, othersInSession>>

ReadEmptyBlockMeta(slot) ==
    /\ Listens
    /\ SendBlockMeta(slot)
    /\ slot \in Untimed
    /\ HandleEmptyBlockMeta(slot, StreamBank)
    /\ UNCHANGED <<queue, othersInSession>>

ReadFinalized(slot) ==
    /\ Listens
    /\ SendFinalized(slot)
    /\ HandleFinalized(slot, StreamBank)
    /\ UNCHANGED <<queue, othersInSession>>

\* Sent while nobody reads: missed.
Missed(slot) ==
    /\ alive /\ ~open
    /\ SendTransaction(slot) \/ SendBlockMeta(slot) \/ SendFinalized(slot)
    /\ UNCHANGED <<bufferVars, recorderVars, workerVars, sessionVars,
                   shutdown, attemptsOver, alive, ghostVars>>

Deliver ==
    /\ alive
    /\ DeliverMalformed \/ DeliverNext
    /\ UNCHANGED <<bufferVars, streamVars, othersInSession>>

Park ==
    /\ alive
    /\ DeliverWaits
    /\ UNCHANGED <<bufferVars, streamVars, othersInSession>>

-----------------------------------------------------------------------------
(***************************************************************************)
(* Sessions, as the listener's attempts start and end them.                *)
(***************************************************************************)

BeginSession ==
    /\ alive /\ ~RecorderStopped
    /\ session < MaxSessions
    /\ SessionStarts
    /\ UNCHANGED <<queue, streamVars, othersInSession>>

\* The server closes, fails or stalls the stream: seen between two updates.
ServerCuts ==
    /\ alive /\ ~shutdown
    /\ Reading
    /\ SessionDies
    /\ UNCHANGED <<queue, streamVars, othersInSession>>

\* What ends a session for good: a stop seen between two updates or while
\* waiting for room (the rest of the batch dies, though room may have been made
\* since: the select takes either), or a consumer gone.
SessionStops ==
    /\ alive /\ open
    /\ \/ batch = <<>> /\ shutdown
       \/ parked /\ shutdown
       \/ batch # <<>> /\ Head(batch).id \notin Malformed /\ ReceiverGone
    /\ SessionDies
    /\ attemptsOver' = TRUE
    /\ atStop' = IF RecorderStopped THEN atStop ELSE Underway
    /\ UNCHANGED <<queue, streamVars, due, written, unwritten, recorder, rows, failures,
                   hand, inFlight, worker, persisted, failed, discarded,
                   shutdown, alive, onTheirWay>>

\* Between two attempts: the retry budget is exhausted, or a stop is seen.
AttemptsEnd ==
    /\ alive /\ ~open /\ ~attemptsOver
    /\ session > 0 \/ shutdown
    /\ attemptsOver' = TRUE
    /\ atStop' = IF RecorderStopped THEN atStop ELSE Underway
    /\ UNCHANGED <<bufferVars, recorderVars, workerVars, sessionVars, streamVars,
                   shutdown, alive, onTheirWay>>

-----------------------------------------------------------------------------
(***************************************************************************)
(* The recorder, the worker, and the end of the process.                   *)
(***************************************************************************)

othersInRecorder == <<bufferVars, workerVars, sessionVars, streamVars,
                      shutdown, attemptsOver, alive, atStop>>

\* A tick.  External: a period is long enough for what was released before
\* one tick to be finished with by the next.
RecorderTick ==
    /\ alive /\ ~RecorderStopped
    /\ onTheirWay \cap Underway = {}
    /\ OpenWrite(FALSE)
    /\ UNCHANGED <<othersInRecorder, onTheirWay>>

RecorderStop ==
    /\ alive /\ RecorderStopped
    /\ OpenWrite(TRUE)
    /\ UNCHANGED <<othersInRecorder, onTheirWay>>

RecorderRecords ==
    /\ alive
    /\ \E k \in unwritten, refused \in SUBSET Protocols : RecordSession(k, refused)
    /\ UNCHANGED <<othersInRecorder, onTheirWay>>

RecorderReads ==
    /\ alive
    /\ CloseWrite
    /\ onTheirWay' = Underway
    /\ UNCHANGED othersInRecorder

othersInWorker == <<bufferVars, recorderVars, sessionVars, streamVars,
                    shutdown, attemptsOver, alive, ghostVars>>

WorkerStep ==
    /\ alive
    /\ \/ Recv(shutdown)
       \/ Dispatch(shutdown)
       \/ DropInHand(shutdown)
       \/ StopOnShutdown(shutdown)
       \/ StopOnClosed(shutdown, attemptsOver /\ ~open)
       \/ WorkerReturns
    /\ UNCHANGED othersInWorker

Index ==
    /\ alive
    /\ \E tx \in inFlight, ok \in BOOLEAN : IndexOne(tx, ok)
    /\ UNCHANGED othersInWorker

RequestShutdown ==
    /\ alive /\ ~shutdown
    /\ shutdown' = TRUE
    /\ atStop' = IF RecorderStopped THEN atStop ELSE Underway
    /\ UNCHANGED <<bufferVars, recorderVars, workerVars, sessionVars, streamVars,
                   attemptsOver, alive, onTheirWay>>

\* The process is killed, or exits: what it held in memory is gone, what the
\* database holds and what the ghosts remember stays.
Kill ==
    /\ alive
    /\ alive' = FALSE
    /\ open' = FALSE /\ batch' = <<>> /\ parked' = FALSE
    /\ waiting' = {} /\ count' = 0 /\ head' = None /\ facts' = <<>> /\ told' = <<>>
    /\ highestMeta' = None /\ countedFrom' = None /\ notYet' = {} /\ span' = None
    /\ queue' = <<>> /\ hand' = NoTx /\ inFlight' = {} /\ worker' = "done"
    /\ ranges' = <<>> /\ due' = <<>> /\ written' = <<>> /\ unwritten' = {}
    /\ recorder' = "done"
    /\ UNCHANGED <<arrived, released, dropped, session, skipped, persisted, failed,
                   discarded, rows, failures, streamVars, shutdown, attemptsOver, ghostVars>>

-----------------------------------------------------------------------------
Init ==
    /\ SessionInit /\ RecorderInit /\ WorkerInit
    /\ sentTxs = [s \in Slots |-> 0]
    /\ sentMetas = {}
    /\ sentStatuses = {}
    /\ shutdown = FALSE
    /\ attemptsOver = FALSE
    /\ alive = TRUE
    /\ onTheirWay = {}
    /\ atStop = {}

Next ==
    \/ \E slot \in Slots :
          \/ ReadTransaction(slot)
          \/ ReadBlockMeta(slot)
          \/ ReadEmptyBlockMeta(slot)
          \/ ReadFinalized(slot)
          \/ Missed(slot)
    \/ Deliver
    \/ Park
    \/ BeginSession
    \/ ServerCuts
    \/ SessionStops
    \/ AttemptsEnd
    \/ RecorderTick
    \/ RecorderStop
    \/ RecorderRecords
    \/ RecorderReads
    \/ WorkerStep
    \/ Index
    \/ RequestShutdown
    \/ Kill

Spec == Init /\ [][Next]_vars

-----------------------------------------------------------------------------
(***************************************************************************)
(* Properties.                                                             *)
(***************************************************************************)

InSlot(S, slot) == Cardinality({x \in S : x.slot = slot})

\* A slot a row says was watched misses no transaction: each was persisted or
\* counted as lost on its own (evicted by the buffer, untranslatable, failed to
\* index), save those that were on their way to the database when the recorder
\* was stopped.  Cuts, reconnections and kills never put a hole in a recorded
\* range (received_slots.rs:40: "an unwatched range declared too narrow is not
\* allowed").
RecordedSlotsAreWhole ==
    \A p \in Protocols : \A slot \in Observed(p) \cap Slots :
        InSlot(persisted \cup failed \cup skipped \cup atStop, slot)
          + InSlot(dropped, slot) = TxCount[slot]

\* The recorder's promise as its comment gives it: a recorded slot lost no
\* transaction to a stop (slots_recorder.rs:40: "so a cut declares an unwatched
\* range too wide, never too narrow").
StopLosesNoRecordedSlot ==
    \A p \in Protocols : \A slot \in Observed(p) \cap Slots :
        InSlot(discarded, slot) = 0
=============================================================================
