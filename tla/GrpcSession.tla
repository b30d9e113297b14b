---------------------------- MODULE GrpcSession ----------------------------
(***************************************************************************)
(* One subscription to the Yellowstone stream                              *)
(* (crates/indexer/src/infra/grpc/session.rs and its children              *)
(* slot_progress.rs, received_slots.rs, delivery.rs): each update goes     *)
(* through the slot/time buffer, a timed block-meta advances what the      *)
(* session has received for good and publishes it, and then what the       *)
(* buffer released is handed to the indexer worker one by one, waiting     *)
(* when its channel is full.                                               *)
(***************************************************************************)
EXTENDS SlotTimestampBuffer, SlotsRecorder, IndexerWorker

CONSTANTS
    HeldBackSlots,  \* HELD_BACK_SLOTS, 2 in production
    Unroutable,     \* the slots whose transactions no filter claims
    Malformed       \* the transactions (by arrival) from_grpc cannot translate

ASSUME HeldBackAssumption == HeldBackSlots \in Nat
\* An Option's None is no slot, no span, and nothing in hand no transaction.
ASSUME OptionAssumption ==
    /\ None \notin Nat /\ None \notin [first : Nat, last : Nat]
    /\ NoTx \notin Resolved

VARIABLES
    session,      \* the number of the session (its started_at), 0 before any
    open,         \* the session reads the stream
    batch,        \* deliver_all's iterator: what is still to be handed on
    parked,       \* deliver found the channel full and waits for room
    highestMeta,  \* SlotProgress::highest_meta_slot
    countedFrom,  \* ReceivedSlots::counted_from
    notYet,       \* ReceivedSlots::not_yet
    span,         \* ReceivedSlots::span
    skipped       \* transactions dropped as unroutable or untranslatable, counted

sessionVars == <<session, open, batch, parked, highestMeta, countedFrom, notYet, span, skipped>>

\* handle runs to its end before the next update is read.
Reading == open /\ batch = <<>>

Minus(n, m) == IF n > m THEN n - m ELSE 0   \* saturating_sub

\* What the buffer released in this step, in arrival order.
ReleasedNow ==
    LET new == released' \ released
    IN  CHOOSE q \in [1..Cardinality(new) -> new] :
            \A i, j \in 1..Cardinality(new) : i < j => q[i].id < q[j].id

\* Mutation: what still waits in the buffer does not hold slots back.
SettledBelowMeta == Minus(highestMeta', HeldBackSlots)

\* SlotProgress::settled_below, after the buffer took the update.
SettledBelow ==
    LET unfinished == IF OldestPending' # None THEN OldestPending' ELSE highestMeta'
    IN  Minus(unfinished, HeldBackSlots)

\* ReceivedSlots::on_block_meta
ReceiveSlot(slot) ==
    LET from     == IF countedFrom = None THEN slot + HeldBackSlots ELSE countedFrom
        held     == notYet \cup {s \in {slot} : s >= from}
        received == {s \in held : s < SettledBelow}
        ends     == received \cup (IF span = None THEN {} ELSE {span.first, span.last})
        widened  == [first |-> CHOOSE s \in ends : \A t \in ends : s <= t,
                     last  |-> CHOOSE s \in ends : \A t \in ends : s >= t]
    IN  /\ countedFrom' = from
        /\ notYet' = held \ received
        /\ IF received = {}
           THEN UNCHANGED <<span, ranges>>
           ELSE /\ span' = widened
                /\ ranges' = Published(session, widened)

\* A session watching no protocol whole receives nothing to record.
WatchesWhole == Protocols # {}

\* handle(Transaction), routable: the buffer takes it, or it leaves at once.
HandleTransaction(slot, bank) ==
    /\ Reading
    /\ slot \notin Unroutable
    /\ OnPayload(slot, bank)
    /\ batch' = ReleasedNow
    /\ UNCHANGED <<session, open, parked, highestMeta, countedFrom, notYet, span, skipped>>
    /\ UNCHANGED ranges

\* handle(Transaction) that no filter claims: dropped and counted.
HandleUnroutable(slot, bank) ==
    /\ Reading
    /\ slot \in Unroutable
    /\ arrived' = arrived + 1
    /\ skipped' = skipped \cup Timed({Arriving(slot, bank)}, None)
    /\ UNCHANGED <<waiting, count, head, facts, released, dropped, told>>
    /\ UNCHANGED <<session, open, batch, parked, highestMeta, countedFrom, notYet, span, ranges>>

\* handle(BlockMeta) with a block time: the buffer settles the slot, the
\* received slots are published, and only then is the batch delivered.
HandleBlockMeta(slot, bank, at) ==
    /\ Reading
    /\ OnBlockTime(slot, bank, at)
    /\ highestMeta' = IF highestMeta = None \/ highestMeta < slot THEN slot ELSE highestMeta
    /\ batch' = ReleasedNow
    /\ IF WatchesWhole THEN ReceiveSlot(slot)
                       ELSE UNCHANGED <<countedFrom, notYet, span, ranges>>
    /\ UNCHANGED <<session, open, parked, skipped>>

\* handle(BlockMeta) without a block time: the bank is given up, and the slot
\* is not one of those received.
HandleEmptyBlockMeta(slot, bank) ==
    /\ Reading
    /\ OnSlotUnresolvable(slot, bank)
    /\ highestMeta' = IF highestMeta = None \/ highestMeta < slot THEN slot ELSE highestMeta
    /\ batch' = ReleasedNow
    /\ UNCHANGED <<session, open, parked, countedFrom, notYet, span, skipped, ranges>>

\* handle(Slot) with status Finalized; any other status changes nothing.
HandleFinalized(slot, bank) ==
    /\ Reading
    /\ OnFinalized(slot, bank)
    /\ batch' = ReleasedNow
    /\ UNCHANGED <<session, open, parked, highestMeta, countedFrom, notYet, span, skipped, ranges>>

\* deliver: a transaction from_grpc cannot translate is skipped and counted.
DeliverMalformed ==
    /\ open /\ batch # <<>>
    /\ Head(batch).id \in Malformed
    /\ skipped' = skipped \cup {Head(batch)}
    /\ batch' = Tail(batch)
    /\ UNCHANGED <<session, open, parked, highestMeta, countedFrom, notYet, span>>
    /\ UNCHANGED <<ranges, queue>>

\* deliver: the channel takes it, at once (try_send) or after a wait (send).
DeliverNext ==
    /\ open /\ batch # <<>>
    /\ Head(batch).id \notin Malformed
    /\ ~ReceiverGone /\ ~QueueFull
    /\ queue' = Append(queue, Head(batch))
    /\ batch' = Tail(batch)
    /\ parked' = FALSE
    /\ UNCHANGED <<session, open, highestMeta, countedFrom, notYet, span, skipped>>
    /\ UNCHANGED ranges

\* deliver: the channel is full, and the wait for room begins.
DeliverWaits ==
    /\ open /\ batch # <<>> /\ ~parked
    /\ Head(batch).id \notin Malformed
    /\ ~ReceiverGone /\ QueueFull
    /\ parked' = TRUE
    /\ UNCHANGED <<session, open, batch, highestMeta, countedFrom, notYet, span, skipped>>
    /\ UNCHANGED <<ranges, queue>>

\* The session and its buffer die, with what they hold; Drop marks the range.
SessionDies ==
    /\ open' = FALSE
    /\ batch' = <<>>
    /\ parked' = FALSE
    /\ ranges' = Ended(session)
    /\ waiting' = {} /\ count' = 0 /\ head' = None /\ facts' = <<>> /\ told' = <<>>
    /\ highestMeta' = None
    /\ countedFrom' = None
    /\ notYet' = {}
    /\ span' = None
    /\ UNCHANGED <<session, skipped, arrived, released, dropped>>

\* A new attempt was accepted: a fresh session, subscribed live.
SessionStarts ==
    /\ ~open
    /\ open' = TRUE
    /\ session' = session + 1
    /\ UNCHANGED <<batch, parked, highestMeta, countedFrom, notYet, span, skipped, ranges>>
    /\ UNCHANGED bufferVars

SessionInit ==
    /\ BufferInit
    /\ session = 0
    /\ open = FALSE
    /\ batch = <<>>
    /\ parked = FALSE
    /\ highestMeta = None
    /\ countedFrom = None
    /\ notYet = {}
    /\ span = None
    /\ skipped = {}
=============================================================================
