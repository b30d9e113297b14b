---------------------------- MODULE PriceWorker ----------------------------
(***************************************************************************)
(* The price worker of yog-context                                         *)
(* (crates/context/src/application/workers/price.rs): each tick lists the  *)
(* candidate mints, asks the source for those whose turn it is and that    *)
(* are worth asking, chunk by chunk, and writes the prices that say        *)
(* something new in one statement.  What it remembers of the series        *)
(* (KeptPrices) and of the source's refusals (UnpricedMints) dies with it. *)
(***************************************************************************)
EXTENDS TokenPrices

CONSTANTS
    NoPrice,           \* the source knows the mint and has no price for it
    Interval,          \* CONTEXT_PRICE_INTERVAL_SECS
    MaxGap,            \* PRICE_SERIES_MAX_GAP
    RetryMax,          \* UNPRICED_RETRY_MAX
    LowValueEvery,     \* LOW_VALUE_EVERY_TICKS
    NeverPricedEvery,  \* NEVER_PRICED_EVERY_TICKS
    LowValueBelow,     \* low_value_below_usd
    Grace,             \* never_priced_grace
    Window,            \* PRICE_CANDIDATE_WINDOW
    ChunkMax,          \* JUPITER_BATCH_MAX
    AddressSlot        \* address_slot of each mint

\* price_interval refuses a zero cadence at startup.  The second conjunct is an
\* assumption on the deployment, which startup does not enforce: price_interval
\* only refuses 900 seconds and more, while PRICE_SERIES_MAX_GAP is documented to
\* cover the ticks between two readings of a low-value mint.
ASSUME IntervalAssumption ==
    /\ Interval \in Nat \ {0}
    /\ MaxGap \in Nat /\ MaxGap > LowValueEvery * Interval

VARIABLES
    market,            \* external: what the source would answer now, per mint
    kept,              \* KeptPrices.last
    deferred,          \* UnpricedMints.deferred
    worker,            \* where the tick stands
    stopping           \* the shutdown token

priceVars == <<kept, deferred, worker, stopping>>

Idle(tick, due) ==
    [stage |-> "idle", tick |-> tick, due |-> due, began |-> 0,
     asked |-> {}, priced |-> <<>>, unpriced |-> {}]

Down == [Idle(0, 0) EXCEPT !.stage = "down"]

-----------------------------------------------------------------------------
(* Whom to ask.                                                            *)

\* Alive by a price within the window of the newest one, or by its pool.
Candidates ==
    LET newest == Max({0} \cup {token_last_price[m].at : m \in DOMAIN token_last_price})
    IN  {m \in Mints :
            \/ m \in DOMAIN token_last_price /\ token_last_price[m].at >= newest - Window
            \/ pool.at >= now - Window}

\* Metadata of both mints was fetched at 0.
Class(m) ==
    CASE m \notin DOMAIN token_last_price /\ 0 < now - Grace -> "never_priced"
      [] m \in DOMAIN token_last_price /\ Held(m) < LowValueBelow -> "low_value"
      [] OTHER -> "regular"

every_ticks(class) ==
    CASE class = "regular" -> 1
      [] class = "low_value" -> LowValueEvery
      [] class = "never_priced" -> NeverPricedEvery

is_turn(m, tick) == tick % every_ticks(Class(m)) = AddressSlot[m] % every_ticks(Class(m))

is_due(m) == m \in DOMAIN deferred => now >= deferred[m].due_at

wait_after(misses) == Min({Interval * 2^misses, RetryMax})

\* UnpricedMints::record: due a tick early, the answer coming after its tick began.
Deferred(priced, unpriced) ==
    LET misses(m) == 1 + IF m \in DOMAIN deferred THEN deferred[m].misses ELSE 0
        waiting == [m \in unpriced |->
                      [misses |-> misses(m),
                       due_at |-> now + wait_after(misses(m)) - Interval]]
    IN  Over(waiting, Restrict(deferred, DOMAIN deferred \ priced))

(* Mutation: the floor is not decided a tick early. *)
FullGap == MaxGap

\* KeptPrices::worth_keeping, on what the column would hold.  The source is the
\* only provider.
max_gap == Max({MaxGap - Interval, 0})
worth_keeping(m, row) ==
    \/ m \notin DOMAIN kept
    \/ kept[m].price # row.price
    \/ row.at - kept[m].at > max_gap

-----------------------------------------------------------------------------
(* The tick, price_once, up to each of its awaits.                         *)

\* tokio's interval keeps its schedule: a tick that outlasts it is followed at once.
\* The select is biased: none begins once the stop is asked for.
TickDue == worker.stage = "idle" /\ now >= worker.due /\ ~stopping
NextTick == Idle(worker.tick + 1, worker.due + Interval)

ListFailed ==
    /\ TickDue
    /\ worker' = NextTick
    /\ UNCHANGED <<kept, deferred, stopping>>

ListCandidates ==
    /\ TickDue
    /\ deferred' = Restrict(deferred, DOMAIN deferred \cap Candidates)
    /\ LET asked == {m \in Candidates : is_turn(m, worker.tick) /\ is_due(m)}
       IN  worker' = IF asked = {} THEN NextTick
                     ELSE [NextTick EXCEPT !.stage = "fetching", !.asked = asked, !.began = now]
    /\ UNCHANGED <<kept, stopping>>

\* The clock tells an answer from the rows written before it.
LaterThanRows(ms) == \A m \in ms \cap DOMAIN token_last_price : token_last_price[m].at < now

\* What is worth a row of what came back.
Filtered(priced) ==
    LET rows == [m \in {x \in DOMAIN priced : is_storable(priced[x])} |-> Row(priced[m], now)]
    IN  Restrict(rows, {m \in DOMAIN rows : worth_keeping(m, rows[m])})

\* The fetch has ended: `priced` holds the batch from here.
Answered(priced, unpriced) ==
    /\ LaterThanRows(DOMAIN priced)
    /\ deferred' = Deferred(DOMAIN priced, unpriced)
    /\ worker' = IF Filtered(priced) = <<>> THEN Idle(worker.tick, worker.due)
                 ELSE [worker EXCEPT !.stage = "inserting", !.asked = {}, !.unpriced = {},
                                     !.priced = Filtered(priced)]

Chunks == {c \in SUBSET worker.asked :
             Cardinality(c) = Min({ChunkMax, Cardinality(worker.asked)})}

AddChunk(chunk, priced, unpriced) ==
    LET allPriced == Over(priced, worker.priced)
        allUnpriced == unpriced \cup worker.unpriced
    IN  IF chunk = worker.asked THEN Answered(allPriced, allUnpriced)
        ELSE /\ worker' = [worker EXCEPT !.asked = @ \ chunk, !.priced = allPriced,
                                         !.unpriced = allUnpriced]
             /\ UNCHANGED deferred

Fetching == worker.stage = "fetching" /\ ~stopping

\* A chunk of which no mint came back priced says nothing of its mints.
FetchChunk ==
    /\ Fetching
    /\ \E chunk \in Chunks :
         LET priced == {m \in chunk : market[m] # NoPrice}
         IN  AddChunk(chunk, [m \in priced |-> market[m]],
                      IF priced = {} THEN {} ELSE chunk \ priced)
    /\ UNCHANGED <<kept, stopping>>

\* Given up after its retries: its mints are in neither list.
ChunkFailed ==
    /\ Fetching
    /\ \E chunk \in Chunks : AddChunk(chunk, <<>>, {})
    /\ UNCHANGED <<kept, stopping>>

\* The stop cuts the fetch short, not the tick.
FetchCut ==
    /\ worker.stage = "fetching" /\ stopping
    /\ Answered(worker.priced, worker.unpriced)
    /\ UNCHANGED <<kept, stopping>>

Inserted ==
    /\ worker.stage = "inserting"
    /\ InsertBatch(worker.priced)
    /\ kept' = Over(worker.priced, kept)
    /\ worker' = Idle(worker.tick, worker.due)
    /\ UNCHANGED <<deferred, stopping>>

\* An insert that failed, or that the process did not outlive, may have landed.
Landed == InsertBatch(worker.priced) \/ UNCHANGED token_last_price

\* Mutation: what a failed insert carried is remembered as kept.
InsertFailedRemembered ==
    /\ worker.stage = "inserting"
    /\ Landed
    /\ kept' = Over(worker.priced, kept)
    /\ worker' = Idle(worker.tick, worker.due)
    /\ UNCHANGED <<deferred, stopping>>

InsertFailed ==
    /\ worker.stage = "inserting"
    /\ Landed
    /\ worker' = Idle(worker.tick, worker.due)
    /\ UNCHANGED <<kept, deferred, stopping>>

-----------------------------------------------------------------------------
(* The process.                                                            *)

StopAsked ==
    /\ worker.stage # "down" /\ ~stopping
    /\ stopping' = TRUE
    /\ UNCHANGED <<kept, deferred, worker>>

Gone == worker' = Down /\ kept' = <<>> /\ deferred' = <<>> /\ stopping' = FALSE

\* The stop, heard between two ticks.
WorkerStops ==
    /\ worker.stage = "idle" /\ stopping
    /\ Gone

WorkerKilled ==
    /\ worker.stage \in {"fetching", "inserting"}
    /\ IF worker.stage = "inserting" THEN Landed ELSE UNCHANGED token_last_price
    /\ Gone

WorkerStarts ==
    /\ worker.stage = "down"
    /\ worker' = Idle(0, now)
    /\ UNCHANGED <<kept, deferred, stopping>>

PriceInit ==
    /\ worker = Idle(0, now)
    /\ kept = <<>> /\ deferred = <<>>
    /\ stopping = FALSE
=============================================================================
