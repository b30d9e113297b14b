------------------------ MODULE SlotTimestampBuffer ------------------------
(***************************************************************************)
(* The slot/time buffer of the gRPC ingestion path                         *)
(* (crates/indexer/src/infra/grpc/slot_timestamp_buffer.rs and its         *)
(* children bank.rs, known_slots.rs, waiting_slots.rs).                    *)
(*                                                                         *)
(* A streamed transaction names its slot and its bank but no time.  It is  *)
(* held until two facts are known, which come in any order: the bank the   *)
(* cluster kept for the slot (a Finalized slot status) and that bank's     *)
(* instant (a block-meta).  Two bounds limit what is held, a third limits  *)
(* how many slots' facts are remembered.                                   *)
(*                                                                         *)
(* The map `pending: slot -> Vec` is the set `waiting` of held payloads;   *)
(* a payload's `id` is its arrival number, so a slot's Vec is its payloads *)
(* by increasing id.  Metrics and logs are reduced to the reason a payload *)
(* is counted under when it is lost (`dropped`).                           *)
(***************************************************************************)
EXTENDS Integers, Sequences, FiniteSets

CONSTANTS
    Slots,               \* the slots messages may name
    BankIds,             \* the banks a server names: Bank::Id
    Unknown,             \* Bank::Unknown, a message that names no bank
    Times,               \* the instants block-metas carry
    GivenUp,             \* SlotOutcome::GivenUp, the block-meta came empty
    None,                \* Option::None
    MaxPendingSlots,     \* MAX_PENDING_SLOTS, 256 in production
    MaxPendingPayloads,  \* MAX_PENDING_PAYLOADS, 8192 in production
    MaxKnownSlots,       \* MAX_KNOWN_SLOTS, MaxPendingSlots + 1 in production
    MaxArrivals          \* bound on the payloads one behaviour delivers

ASSUME SlotsAssumption == Slots \subseteq Nat
ASSUME BoundsAssumption ==
    /\ MaxPendingSlots \in Nat
    /\ MaxPendingPayloads \in Nat
    /\ MaxKnownSlots \in Nat
    /\ MaxKnownSlots >= MaxPendingSlots + 1
ASSUME MarkersAssumption ==
    /\ Unknown \notin BankIds
    /\ GivenUp \notin Times
    /\ None \notin BankIds \cup {Unknown} \cup Times \cup {GivenUp} \cup Slots

VARIABLES
    waiting,   \* WaitingSlots::pending: the payloads held
    count,     \* WaitingSlots::count: the running total the payload bound reads
    head,      \* WaitingSlots::head_slot: how far the stream has got, or None
    facts,     \* KnownSlots::facts: what is remembered of each slot
    arrived,   \* how many payloads have arrived (the next payload's id - 1)
    released,  \* what the buffer has handed back, each with its instant
    dropped,   \* what the buffer has lost, each with the reason counted
    told       \* everything the stream said of each slot, never trimmed

bufferVars == <<waiting, count, head, facts, arrived, released, dropped, told>>

-----------------------------------------------------------------------------
(***************************************************************************)
(* Banks and facts.                                                        *)
(***************************************************************************)

Bank == BankIds \cup {Unknown}
SlotOutcome == Times \cup {GivenUp}

Held == [id : Nat, slot : Slots, bank : Bank]

\* Resolved, with the payload it carries; and a payload counted as lost.
Resolved == [id : Nat, slot : Slots, bank : Bank, at : Times]
DropReason == {"losing_bank", "unresolvable", "slot_bound", "payload_bound"}
DroppedPayload == [id : Nat, slot : Slots, bank : Bank, reason : DropReason]

Facts == [times : Seq([bank : Bank, outcome : SlotOutcome]),
          kept  : Bank \cup {None}]

\* Bank::admits: an unknown bank on either side cannot be told apart.
Admits(kept, bank) == kept = bank \/ kept = Unknown \/ bank = Unknown

\* The least number of a set of them.
Least(S) == CHOOSE n \in S : \A m \in S : n <= m

\* Facts::time: the first admitted instant found, else the first admitted
\* entry (which is then GivenUp), else None.
TimeOf(times, kept) ==
    LET admitted == {i \in DOMAIN times : Admits(kept, times[i].bank)}
        found    == {i \in admitted : times[i].outcome # GivenUp}
    IN  IF found # {}    THEN times[Least(found)].outcome ELSE
        IF admitted # {} THEN times[Least(admitted)].outcome
                         ELSE None

NoFacts == [times |-> <<>>, kept |-> None]

\* entry(slot).or_default()
FactsOf(known, slot) == IF slot \in DOMAIN known THEN known[slot] ELSE NoFacts

\* KnownSlots::kept and KnownSlots::time
KeptIn(known, slot) == FactsOf(known, slot).kept
TimeIn(known, slot) ==
    IF KeptIn(known, slot) = None THEN None
    ELSE TimeOf(FactsOf(known, slot).times, KeptIn(known, slot))

\* KnownSlots::settlement, one predicate per answer.
IsLosing(known, slot, bank) ==
    KeptIn(known, slot) # None /\ ~Admits(KeptIn(known, slot), bank)
IsPending(known, slot, bank) ==
    ~IsLosing(known, slot, bank) /\ TimeIn(known, slot) = None

\* The table with `f` as what is known of `slot`.
WithFacts(known, slot, f) ==
    [s \in DOMAIN known \cup {slot} |-> IF s = slot THEN f ELSE known[s]]

\* Mutation: the table keeps one slot fewer than the window spans.
TrimTooFar(known) ==
    [s \in {t \in DOMAIN known :
              Cardinality({u \in DOMAIN known : u >= t}) < MaxKnownSlots} |-> known[s]]

\* Mutation: pop_last for pop_first, the newest slots are forgotten.
TrimNewest(known) ==
    [s \in {t \in DOMAIN known :
              Cardinality({u \in DOMAIN known : u <= t}) <= MaxKnownSlots} |-> known[s]]

\* KnownSlots::trim: the oldest slots go while too many are remembered, so
\* the slots that stay are the MaxKnownSlots highest.
Trim(known) ==
    LET fits(s) == Cardinality({t \in DOMAIN known : t >= s}) <= MaxKnownSlots
    IN  [s \in {t \in DOMAIN known : fits(t)} |-> known[s]]

\* KnownSlots::resolve on one slot's facts: a bank's instant replaces whatever
\* its entry said, GivenUp included.
Resolve(f, bank, at) ==
    IF \E i \in DOMAIN f.times : f.times[i].bank = bank
    THEN [f EXCEPT !.times =
            [i \in DOMAIN f.times |->
               IF f.times[i].bank = bank
               THEN [bank |-> bank, outcome |-> at] ELSE f.times[i]]]
    ELSE [f EXCEPT !.times = Append(@, [bank |-> bank, outcome |-> at])]

\* Mutation: an empty block-meta overwrites an instant already found.
GiveUpOver(f, bank) ==
    IF \E i \in DOMAIN f.times : f.times[i].bank = bank
    THEN [f EXCEPT !.times =
            [i \in DOMAIN f.times |->
               IF f.times[i].bank = bank
               THEN [bank |-> bank, outcome |-> GivenUp] ELSE f.times[i]]]
    ELSE [f EXCEPT !.times = Append(@, [bank |-> bank, outcome |-> GivenUp])]

\* KnownSlots::give_up on one slot's facts: never over an entry already there.
GiveUp(f, bank) ==
    IF \E i \in DOMAIN f.times : f.times[i].bank = bank
    THEN f
    ELSE [f EXCEPT !.times = Append(@, [bank |-> bank, outcome |-> GivenUp])]

\* KnownSlots::keep on one slot's facts: the first status wins.
Keep(f, bank) == IF f.kept = None THEN [f EXCEPT !.kept = bank] ELSE f

-----------------------------------------------------------------------------
(***************************************************************************)
(* What waits, and the two bounds on it.                                   *)
(***************************************************************************)

\* WaitingSlots::see
Seen(slot) == IF head = None \/ head < slot THEN slot ELSE head

\* Mutation: the window is one slot too wide.
OutOfWindowLate(held, top) == {h \in held : top - h.slot > MaxPendingSlots + 1}

\* What the slot bound evicts: every payload too far behind the head (the
\* loop evicts the oldest slot until the oldest is within the window).
OutOfWindow(held, top) == {h \in held : top - h.slot > MaxPendingSlots}

\* Mutation: the payload bound takes the oldest slot.
OverflowingOldest(held, total) ==
    {h \in held :
        total - Cardinality({g \in held : g.slot < h.slot}) > MaxPendingPayloads}

\* What the payload bound evicts: the loop drops the newest slot until the
\* running total fits, so a slot goes when, all newer ones gone, it does not.
Overflowing(held, total) ==
    {h \in held :
        total - Cardinality({g \in held : g.slot > h.slot}) > MaxPendingPayloads}

Lost(held, reason) ==
    {[id |-> h.id, slot |-> h.slot, bank |-> h.bank, reason |-> reason] : h \in held}

Timed(held, at) ==
    {[id |-> h.id, slot |-> h.slot, bank |-> h.bank, at |-> at] : h \in held}

\* see(slot) followed by enforce_bounds, when `held` and `total` are what
\* waits and its running total, and `lost` is what the caller already dropped.
HoldWithinBounds(held, total, slot, lost) ==
    LET late   == OutOfWindow(held, Seen(slot))
        inside == held \ late
        over   == Overflowing(inside, total - Cardinality(late))
    IN  /\ head' = Seen(slot)
        /\ waiting' = inside \ over
        /\ count' = total - Cardinality(late) - Cardinality(over)
        /\ dropped' = dropped \cup lost \cup Lost(late, "slot_bound")
                              \cup Lost(over, "payload_bound")

\* SlotTimestampBuffer::settle: apply what is now known of `slot` (facts') to
\* what waits for it.
SettleUndecided(slot) ==
    /\ KeptIn(facts', slot) = None
    /\ HoldWithinBounds(waiting, count, slot, {})
    /\ UNCHANGED released

\* Mutation: a payload that names no bank is taken for a losing one.
LosingInStrict(slot) ==
    {h \in waiting : h.slot = slot /\ KeptIn(facts', slot) # h.bank}

\* drop_losing, which every settlement of a slot whose bank is kept begins with
LosingIn(slot) ==
    {h \in waiting : h.slot = slot /\ ~Admits(KeptIn(facts', slot), h.bank)}

\* What of the slot is in the kept bank.
WinningIn(slot) ==
    {h \in waiting : h.slot = slot /\ Admits(KeptIn(facts', slot), h.bank)}

SettleUntimed(slot) ==
    /\ KeptIn(facts', slot) # None
    /\ TimeIn(facts', slot) = None
    /\ HoldWithinBounds(waiting \ LosingIn(slot),
                        count - Cardinality(LosingIn(slot)),
                        slot, Lost(LosingIn(slot), "losing_bank"))
    /\ UNCHANGED released

\* Mutation: what waited for a given-up bank leaves without being counted.
SettleGivenUpSilently(slot) ==
    /\ KeptIn(facts', slot) # None
    /\ TimeIn(facts', slot) = GivenUp
    /\ HoldWithinBounds(waiting \ (LosingIn(slot) \cup WinningIn(slot)),
                        count - Cardinality(LosingIn(slot)) - Cardinality(WinningIn(slot)),
                        slot, Lost(LosingIn(slot), "losing_bank"))
    /\ UNCHANGED released

SettleGivenUp(slot) ==
    /\ KeptIn(facts', slot) # None
    /\ TimeIn(facts', slot) = GivenUp
    /\ HoldWithinBounds(waiting \ (LosingIn(slot) \cup WinningIn(slot)),
                        count - Cardinality(LosingIn(slot)) - Cardinality(WinningIn(slot)),
                        slot,
                        Lost(LosingIn(slot), "losing_bank")
                          \cup Lost(WinningIn(slot), "unresolvable"))
    /\ UNCHANGED released

SettleTimed(slot) ==
    /\ KeptIn(facts', slot) # None
    /\ TimeIn(facts', slot) \in Times
    /\ HoldWithinBounds(waiting \ (LosingIn(slot) \cup WinningIn(slot)),
                        count - Cardinality(LosingIn(slot)) - Cardinality(WinningIn(slot)),
                        slot, Lost(LosingIn(slot), "losing_bank"))
    /\ released' = released \cup Timed(WinningIn(slot), TimeIn(facts', slot))

Settle(slot) ==
    \/ SettleUndecided(slot)
    \/ SettleUntimed(slot)
    \/ SettleGivenUp(slot)
    \/ SettleTimed(slot)

-----------------------------------------------------------------------------
(***************************************************************************)
(* The buffer's operations.                                                *)
(***************************************************************************)

\* on_payload: the payload of `bank` in `slot` meets what is known.
Arriving(slot, bank) == [id |-> arrived + 1, slot |-> slot, bank |-> bank]

PayloadLosing(slot, bank) ==
    /\ IsLosing(facts, slot, bank)
    /\ dropped' = dropped \cup Lost({Arriving(slot, bank)}, "losing_bank")
    /\ UNCHANGED <<waiting, count, head, released>>

PayloadGivenUp(slot, bank) ==
    /\ ~IsLosing(facts, slot, bank)
    /\ TimeIn(facts, slot) = GivenUp
    /\ dropped' = dropped \cup Lost({Arriving(slot, bank)}, "unresolvable")
    /\ UNCHANGED <<waiting, count, head, released>>

PayloadReleased(slot, bank) ==
    /\ ~IsLosing(facts, slot, bank)
    /\ TimeIn(facts, slot) \in Times
    /\ released' = released \cup Timed({Arriving(slot, bank)}, TimeIn(facts, slot))
    /\ UNCHANGED <<waiting, count, head, dropped>>

PayloadHeld(slot, bank) ==
    /\ IsPending(facts, slot, bank)
    /\ HoldWithinBounds(waiting \cup {Arriving(slot, bank)}, count + 1, slot, {})
    /\ UNCHANGED released

OnPayload(slot, bank) ==
    /\ arrived < MaxArrivals
    /\ arrived' = arrived + 1
    /\ \/ PayloadLosing(slot, bank)
       \/ PayloadGivenUp(slot, bank)
       \/ PayloadReleased(slot, bank)
       \/ PayloadHeld(slot, bank)
    /\ UNCHANGED <<facts, told>>

\* A fact about `slot` is learned: the code's table trims itself, `told` does not.
Learn(slot, f) ==
    /\ facts' = Trim(WithFacts(facts, slot, f))
    /\ Settle(slot)
    /\ UNCHANGED arrived

\* on_block_time: a block-meta named `bank`'s instant.
OnBlockTime(slot, bank, at) ==
    /\ told' = WithFacts(told, slot, Resolve(FactsOf(told, slot), bank, at))
    /\ Learn(slot, Resolve(FactsOf(facts, slot), bank, at))

\* on_slot_unresolvable: a block-meta came without a block time.
OnSlotUnresolvable(slot, bank) ==
    /\ told' = WithFacts(told, slot, GiveUp(FactsOf(told, slot), bank))
    /\ Learn(slot, GiveUp(FactsOf(facts, slot), bank))

\* on_finalized: the cluster finalized `bank` in `slot`.
OnFinalized(slot, bank) ==
    /\ told' = WithFacts(told, slot, Keep(FactsOf(told, slot), bank))
    /\ Learn(slot, Keep(FactsOf(facts, slot), bank))

\* oldest_pending_slot
OldestPending == IF waiting = {} THEN None ELSE Least({h.slot : h \in waiting})

-----------------------------------------------------------------------------
BufferInit ==
    /\ waiting = {}
    /\ count = 0
    /\ head = None
    /\ facts = <<>>
    /\ arrived = 0
    /\ released = {}
    /\ dropped = {}
    /\ told = <<>>

BufferNext ==
    \E slot \in Slots, bank \in Bank :
        \/ OnPayload(slot, bank)
        \/ \E at \in Times : OnBlockTime(slot, bank, at)
        \/ OnSlotUnresolvable(slot, bank)
        \/ OnFinalized(slot, bank)

BufferSpec == BufferInit /\ [][BufferNext]_bufferVars
-----------------------------------------------------------------------------
(***************************************************************************)
(* Properties.                                                             *)
(***************************************************************************)

\* The types of the buffer's fields and of what it has handed back and lost.
TypeOK ==
    /\ waiting \subseteq Held
    /\ count \in Int
    /\ head \in Slots \cup {None}
    /\ DOMAIN facts \subseteq Slots
    /\ \A s \in DOMAIN facts : facts[s] \in Facts
    /\ DOMAIN told \subseteq Slots
    /\ \A s \in DOMAIN told : told[s] \in Facts
    /\ arrived \in Nat
    /\ released \subseteq Resolved
    /\ dropped \subseteq DroppedPayload

\* The running total `count` is the number of payloads that wait, through every
\* release, eviction and losing-bank drop: the payload bound compares it, and a
\* total that drifts evicts transactions that fit or holds more than the bound.
CountIsTrue == count = Cardinality(waiting)

\* After every operation no payload waits further behind the head than the
\* window, no more payloads wait than the payload bound, and no more slots are
\* remembered than the table holds (enforce_bounds and trim ran wherever needed).
WithinBounds ==
    /\ \A h \in waiting : head - h.slot <= MaxPendingSlots
    /\ Cardinality(waiting) <= MaxPendingPayloads
    /\ Cardinality(DOMAIN facts) <= MaxKnownSlots

\* A payload that arrived is in exactly one place: it waits, or was handed back
\* once, or was counted as lost once.  No operation loses one uncounted, counts
\* one twice or hands back what it counted as lost.
EachPayloadOnce ==
    \A id \in 1..arrived :
        Cardinality({h \in waiting : h.id = id})
          + Cardinality({r \in released : r.id = id})
          + Cardinality({d \in dropped : d.id = id}) = 1

\* The table is trimmed, but never of a slot still inside the window: of such a
\* slot it knows all the stream ever said ("the whole window, head included: a
\* waiting slot whose verdict was forgotten never leaves",
\* slot_timestamp_buffer.rs:29).
KnownInWindow ==
    \A s \in DOMAIN told :
        head - s <= MaxPendingSlots => s \in DOMAIN facts /\ facts[s] = told[s]

\* No payload waits once the stream has said what decides it: its slot's kept
\* bank together with an outcome for that bank, in whichever order they came
\* and whatever else was forgotten since.
NothingDecidedWaits ==
    \A h \in waiting : IsPending(told, h.slot, h.bank)

\* What the buffer decides, it decides by everything the stream has said so
\* far, not by what the trimmed table happens to hold: a payload is handed back
\* only when its bank is the kept one's and with the kept bank's instant, is
\* dropped as losing only when another bank was kept, and as unresolvable only
\* when the kept bank's block-metas all came empty.
DecidedByTheStream ==
    /\ \A r \in released' \ released :
          /\ ~IsLosing(told', r.slot, r.bank)
          /\ TimeIn(told', r.slot) = r.at
    /\ \A d \in dropped' \ dropped :
          /\ d.reason = "losing_bank" => IsLosing(told', d.slot, d.bank)
          /\ d.reason = "unresolvable" =>
                ~IsLosing(told', d.slot, d.bank) /\ TimeIn(told', d.slot) = GivenUp
VerdictsFollowTheStream == [][DecidedByTheStream]_bufferVars

\* Each bound takes the right end (victim: "getting the ends backwards is
\* silent"): the slot bound takes only slots older than all that stay, the
\* payload bound only slots newer than all that stay.
EvictsFromItsEnd ==
    \A d \in dropped' \ dropped, h \in waiting' :
        /\ d.reason = "slot_bound" => d.slot < h.slot
        /\ d.reason = "payload_bound" => h.slot < d.slot
BoundsTakeTheirOwnEnd == [][EvictsFromItsEnd]_bufferVars

\* What the properties above rest on.  The head has seen every slot a payload
\* waits for and every slot a fact was told of; arrival numbers are not reused;
\* what is remembered of a slot is all that was told of it; and a slot is
\* forgotten only behind a full table of newer ones, so it never comes back.
HeadSawEverything ==
    /\ \A h \in waiting : head # None /\ h.slot <= head
    /\ \A s \in DOMAIN told : head # None /\ s <= head
IdsAreFresh == \A h \in waiting : h.id <= arrived
NothingHalfRemembered == \A s \in DOMAIN facts : s \in DOMAIN told /\ facts[s] = told[s]
ForgottenBehindAFullTable ==
    \A s \in DOMAIN told \ DOMAIN facts :
        Cardinality({t \in DOMAIN facts : t > s}) >= MaxKnownSlots

\* The inductive invariant.
IndInv ==
    /\ TypeOK
    /\ IsFiniteSet(waiting) /\ IsFiniteSet(DOMAIN facts)
    /\ HeadSawEverything
    /\ IdsAreFresh
    /\ NothingHalfRemembered
    /\ ForgottenBehindAFullTable
    /\ CountIsTrue
    /\ WithinBounds
    /\ NothingDecidedWaits

\* While a slot is remembered its verdict is stable: the bank kept never
\* changes (a second status changes nothing), and an instant found is never
\* lost to a later empty block-meta, though another admitted bank's may
\* replace it.
VerdictIsStable ==
    [][\A s \in DOMAIN facts \cap DOMAIN facts' :
          /\ facts[s].kept # None => facts'[s].kept = facts[s].kept
          /\ TimeIn(facts, s) \in Times => TimeIn(facts', s) \in Times]_bufferVars
=============================================================================
