---------------------------- MODULE EventStore ------------------------------
(***************************************************************************)
(* The indexer from a transaction to its rows (crates/indexer/src/         *)
(* application/services): a delivery is extracted, then its events are     *)
(* applied one by one, each in the steps of its recipe, every step an      *)
(* await that may fail without stopping the others. A crash drops the      *)
(* delivery between two steps; the chain's history is delivered again,     *)
(* perhaps to a release that knows more events.                            *)
(***************************************************************************)
EXTENDS EventAnswers, PoolRegistry

CONSTANTS
    Scenarios,      \* what may have landed and be asked for, [history, walks]; a history is
                    \* the transactions by signature, each [slot, at, index, payloads], index
                    \* 0 when NULL, as COALESCE reads it
    Pools,
    Releases,       \* the kinds each release knows, oldest first
    MaxIndex,       \* the largest event_index
    Deliveries,     \* bound: the deliveries in all
    Mishaps,        \* bound: the steps that fail and the restarts, in all
    Times           \* the instants, a range of naturals

ASSUME HistoriesAssumption ==
    \A c \in Scenarios : \A s \in DOMAIN c.history :
        /\ c.history[s].slot \in Nat /\ c.history[s].index \in Nat
        /\ c.history[s].payloads \in Seq(WirePayloads(Pools))

ASSUME ReleasesAssumption == Releases \in Seq(SUBSET Kinds) /\ Len(Releases) > 0

VARIABLES
    scenario, now,
    release,        \* the running one
    delivered,      \* how often
    job,            \* the delivery in hand: [signature, events, step], or Idle
    tables,         \* the event rows
    pools,          \* the registry
    current,        \* pool_current_state
    mishaps,
    counted,        \* the events whose failure was logged and counted
    finished        \* the deliveries that ran to their end: [signature, release, clean]

storeVars == <<scenario, now, release, delivered, job, tables, pools, current, mishaps, counted,
               finished>>

Idle == [signature |-> 0, events |-> <<>>, step |-> 1, clean |-> TRUE]
NoState == [position |-> <<0, 0, 0>>, signature |-> 0, at |-> 0, reserves |-> <<>>,
            last_swap_at |-> 0]

history == scenario.history
Signatures == DOMAIN history

-----------------------------------------------------------------------------
(* Extraction.                                                             *)

Extracted(s, r) == ExtractWireEvents(history[s].payloads, Releases[r], MaxIndex)

\* The domain event, placed by its transaction and its index.
DomainEvent(s, x) ==
    [kind |-> x.payload.kind, signature |-> s, event_index |-> x.event_index,
     timestamp |-> history[s].at, pool |-> x.payload.pool,
     numbers |-> TranslateWireEvent(x.payload.kind, x.payload.enums),
     beyond |-> x.payload.beyond]

Translated(s, x) == x.fate = "recognized" /\ DomainEvent(s, x).numbers # Failed

\* The recognised events, in their order.
OutcomeEvents(s, r) ==
    LET found == Extracted(s, r)
        kept == Selected(found, {k \in DOMAIN found : Translated(s, found[k])})
    IN [k \in DOMAIN kept |-> DomainEvent(s, kept[k])]

\* The failures and the unknown events, each logged and counted.
Diagnostics(s, r) ==
    {[signature |-> s, event_index |-> Extracted(s, r)[k].event_index] :
        k \in {k \in DOMAIN Extracted(s, r) :
                  \/ Extracted(s, r)[k].fate \in {"failed", "unknown"}
                  \/ Extracted(s, r)[k].fate = "recognized" /\ ~Translated(s, Extracted(s, r)[k])}}

-----------------------------------------------------------------------------
(* The recipes.                                                            *)

PersistSwap == <<"discover", "insert", "project">>
PersistLiquidity == <<"discover", "insert", "project">>
PersistInitializePool == <<"discover", "insert">>
PersistUpdatePoolFees == <<"touch", "mark", "insert">>
\* No registration and no projection: no mints and no reserves.
PersistClaim == <<"touch", "insert">>
PersistReward == <<"touch", "insert">>
PersistPosition == <<"touch", "insert">>
PersistSplitPosition == <<"touch", "insert">>
PersistSetPoolStatus == <<"touch", "insert">>

Recipe(kind) ==
    CASE kind = "swap2" -> PersistSwap
      [] kind = "liquidity_change" -> PersistLiquidity
      [] kind = "initialize_pool" -> PersistInitializePool
      [] kind = "update_pool_fees" -> PersistUpdatePoolFees
      [] kind \in {"claim_position_fee", "claim_protocol_fee", "claim_reward"} -> PersistClaim
      [] kind \in RewardChangeTables -> PersistReward
      [] kind \in PositionChangeTables \ {"split_position3"} -> PersistPosition
      [] kind = "split_position3" -> PersistSplitPosition
      [] kind = "set_pool_status" -> PersistSetPoolStatus

-----------------------------------------------------------------------------
(* The tables.                                                             *)

KeyOf(e) == [signature |-> e.signature, event_index |-> e.event_index, timestamp |-> e.timestamp]
EventId(e) == [signature |-> e.signature, event_index |-> e.event_index]

RowOf(e) == [kind |-> e.kind, signature |-> e.signature, event_index |-> e.event_index,
             timestamp |-> e.timestamp, pool |-> e.pool, stored |-> e.numbers]

\* One table per kind, each unique on the key: ON CONFLICT DO NOTHING.
Skipped(e) == \E row \in tables : row.kind = e.kind /\ KeyOf(row) = KeyOf(e)
Inserted(e) == IF Skipped(e) THEN tables ELSE tables \cup {RowOf(e)}

-----------------------------------------------------------------------------
(* The projection.                                                         *)

EventPosition(e) == <<history[e.signature].slot, history[e.signature].index, e.event_index>>

Before(a, b) ==
    \/ a[1] < b[1]
    \/ a[1] = b[1] /\ a[2] < b[2]
    \/ a[1] = b[1] /\ a[2] = b[2] /\ a[3] < b[3]

\* A liquidity event names no price: the last swap stays the one stored.
StateAfter(e) ==
    [position |-> EventPosition(e), signature |-> e.signature, at |-> e.timestamp,
     reserves |-> <<e.numbers.reserve_a_after, e.numbers.reserve_b_after>>,
     last_swap_at |-> IF e.kind = "swap2" THEN e.timestamp ELSE current[e.pool].last_swap_at]

UpsertCurrentState(e) ==
    IF current[e.pool] = NoState \/ Before(current[e.pool].position, EventPosition(e))
    THEN [current EXCEPT ![e.pool] = StateAfter(e)]
    ELSE current

-----------------------------------------------------------------------------
(* The processor.                                                          *)

StoreInit ==
    /\ scenario \in Scenarios
    /\ now = 1
    /\ release = 1
    /\ delivered = 0
    /\ job = Idle
    /\ tables = {}
    /\ pools = [p \in Pools |-> Missing]
    /\ current = [p \in Pools |-> NoState]
    /\ mishaps = 0
    /\ counted = {}
    /\ finished = {}

Finish(s, clean) == finished' = finished \cup {[signature |-> s, release |-> release, clean |-> clean]}

\* process_transaction: extract, report, and return when nothing was recognised.
ProcessTransaction(s) ==
    /\ job = Idle
    /\ history[s].at <= now
    /\ delivered < Deliveries
    /\ delivered' = delivered + 1
    /\ counted' = counted \cup Diagnostics(s, release)
    /\ IF OutcomeEvents(s, release) = <<>>
       THEN job' = Idle /\ Finish(s, TRUE)
       ELSE /\ job' = [signature |-> s, events |-> OutcomeEvents(s, release), step |-> 1,
                       clean |-> TRUE]
            /\ UNCHANGED finished
    /\ UNCHANGED <<scenario, now, release, tables, pools, current, mishaps>>

InHand == Head(job.events)
StepIs(name) == job # Idle /\ Recipe(InHand.kind)[job.step] = name

\* Any statement may be refused.
May(fail) == IF fail THEN mishaps < Mishaps /\ mishaps' = mishaps + 1 ELSE UNCHANGED mishaps

\* On to the event's next step, or past the event to the next one.
NextEvent(clean) ==
    IF Tail(job.events) = <<>>
    THEN job' = Idle /\ Finish(job.signature, clean)
    ELSE /\ job' = [job EXCEPT !.events = Tail(@), !.step = 1, !.clean = clean]
         /\ UNCHANGED finished

NextStep(clean) ==
    IF job.step = Len(Recipe(InHand.kind)) THEN NextEvent(clean)
    ELSE job' = [job EXCEPT !.step = @ + 1, !.clean = clean] /\ UNCHANGED finished

\* The registry's three writes: a failure is logged and the recipe goes on.
DiscoverPool(fail) ==
    /\ StepIs("discover")
    /\ May(fail)
    /\ pools' = IF fail THEN pools ELSE Upsert(pools, InHand.pool, now)
    /\ NextStep(job.clean)
    /\ UNCHANGED <<scenario, now, release, delivered, tables, current, counted>>

TouchPool ==
    /\ StepIs("touch")
    /\ pools' = TouchLastSeen(pools, InHand.pool)
    /\ NextStep(job.clean)
    /\ UNCHANGED <<scenario, now, release, delivered, tables, current, mishaps, counted>>

MarkPool(fail) ==
    /\ StepIs("mark")
    /\ May(fail)
    /\ pools' = IF fail THEN pools ELSE MarkNeedsRefresh(pools, InHand.pool)
    /\ NextStep(job.clean)
    /\ UNCHANGED <<scenario, now, release, delivered, tables, current, counted>>

\* Mutation: a row already there is not projected again.
InsertEventNewOnly(fail) ==
    /\ StepIs("insert")
    /\ May(fail)
    /\ LET refused == fail \/ ConvertU64ToI64Fails(InHand.kind, InHand.numbers, InHand.beyond)
       IN /\ tables' = IF refused THEN tables ELSE Inserted(InHand)
          /\ counted' = IF refused THEN counted \cup {EventId(InHand)} ELSE counted
          /\ IF refused \/ Skipped(InHand) THEN NextEvent(job.clean /\ ~refused) ELSE NextStep(job.clean)
    /\ UNCHANGED <<scenario, now, release, delivered, pools, current>>

\* Mutation: a failed insert ends the delivery.
InsertEventAborting(fail) ==
    /\ StepIs("insert")
    /\ May(fail)
    /\ LET refused == fail \/ ConvertU64ToI64Fails(InHand.kind, InHand.numbers, InHand.beyond)
       IN /\ tables' = IF refused THEN tables ELSE Inserted(InHand)
          /\ counted' = IF refused THEN counted \cup {EventId(InHand)} ELSE counted
          /\ IF refused THEN job' = Idle /\ Finish(job.signature, FALSE) ELSE NextStep(job.clean)
    /\ UNCHANGED <<scenario, now, release, delivered, pools, current>>

\* The row, unless a number of it does not fit: then the event is counted and
\* ends there. A row already there goes on as one inserted.
InsertEvent(fail) ==
    /\ StepIs("insert")
    /\ May(fail)
    /\ LET refused == fail \/ ConvertU64ToI64Fails(InHand.kind, InHand.numbers, InHand.beyond)
       IN /\ tables' = IF refused THEN tables ELSE Inserted(InHand)
          /\ counted' = IF refused THEN counted \cup {EventId(InHand)} ELSE counted
          /\ IF refused THEN NextEvent(FALSE) ELSE NextStep(job.clean)
    /\ UNCHANGED <<scenario, now, release, delivered, pools, current>>

ProjectEvent(fail) ==
    /\ StepIs("project")
    /\ May(fail)
    /\ current' = IF fail THEN current ELSE UpsertCurrentState(InHand)
    /\ NextStep(job.clean /\ ~fail)
    /\ UNCHANGED <<scenario, now, release, delivered, tables, pools, counted>>

\* The process dies, and what it had in hand with it; the next one may be of
\* the next release.
Restart(r) ==
    /\ mishaps < Mishaps
    /\ mishaps' = mishaps + 1
    /\ r \in release .. Len(Releases)
    /\ release' = r
    /\ job' = Idle
    /\ UNCHANGED <<scenario, now, delivered, tables, pools, current, counted, finished>>

TimePasses ==
    /\ now + 1 \in Times
    /\ now' = now + 1
    /\ UNCHANGED <<scenario, release, delivered, job, tables, pools, current, mishaps,
                   counted, finished>>

StoreNext ==
    \/ \E s \in Signatures : ProcessTransaction(s)
    \/ \E fail \in BOOLEAN :
          DiscoverPool(fail) \/ MarkPool(fail) \/ InsertEvent(fail) \/ ProjectEvent(fail)
    \/ TouchPool
    \/ \E r \in DOMAIN Releases : Restart(r)
    \/ TimePasses

-----------------------------------------------------------------------------

\* The payload an event_index names: the position among those addressed to
\* cp-amm, whatever the release.
PayloadAt(s, i) == ExtractAnchorEventCpis(history[s].payloads)[i + 1]

\* Across a live delivery, a replay and a later release, a payload has one row
\* and its key names no other payload: event_index counts every payload, also
\* those a release does not know.
EachEventOnce ==
    \A a \in tables :
       /\ a.event_index + 1 \in DOMAIN ExtractAnchorEventCpis(history[a.signature].payloads)
       /\ PayloadAt(a.signature, a.event_index).kind = a.kind
       /\ \A b \in tables : EventId(a) = EventId(b) => a = b

\* A delivery that ran to its end left each event it recognised in its table
\* or counted as a failure, whatever failed beside it.
StoredOrCounted ==
    \A f \in finished :
       \A k \in DOMAIN OutcomeEvents(f.signature, f.release) :
          LET e == OutcomeEvents(f.signature, f.release)[k]
          IN RowOf(e) \in tables \/ EventId(e) \in counted

\* A delivery that ran to its end without a failure left the pool's state at
\* least as new as each of its events, whatever was delivered since and though
\* an earlier one died between the row and the state; and the state is that of
\* an event stored.
StateCatchesUp ==
    /\ \A f \in finished : f.clean =>
          \A k \in DOMAIN OutcomeEvents(f.signature, f.release) :
             LET e == OutcomeEvents(f.signature, f.release)[k]
             IN e.kind \in {"swap2", "liquidity_change"} =>
                   ~Before(current[e.pool].position, EventPosition(e))
    /\ \A p \in Pools : current[p] # NoState =>
          \E row \in tables :
             /\ row.pool = p /\ row.signature = current[p].signature
             /\ row.event_index = current[p].position[3]
             /\ <<row.stored.reserve_a_after, row.stored.reserve_b_after>> = current[p].reserves
=============================================================================
