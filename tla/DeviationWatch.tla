--------------------------- MODULE DeviationWatch ---------------------------
(***************************************************************************)
(* From the market to a signal: the price worker of yog-context writes the *)
(* oracle side, the indexer the spot side, and the engine of yog-signals   *)
(* compares them through the database.  Neither daemon knows of the other: *)
(* what makes a lasting deviation visible is only that the worker rewrites *)
(* a motionless price before the detector calls it stale.                  *)
(***************************************************************************)
EXTENDS PriceWorker, SignalEngine

CONSTANTS
    Prices,            \* what the source may answer for MintA, NoPrice apart
    PriceB,            \* and for MintB, which does not move
    Spots,             \* the spot prices a swap may leave
    MaxTick,           \* how long a tick of the price worker may last
    MaxDetectorTick,   \* and one of the detector
    Lag,               \* how long after a move a deviation has to be visible
    MaxUpsets,         \* moves of the market, failures and stops, in all
    LastNow            \* the end of the clock

ASSUME LagAssumption == Lag \in Nat

VARIABLES
    calmSince,         \* the last move of the market, or mishap of the price worker
    owed,              \* the severity the tick under way, or the last one, must have told
    upsets             \* those still to come

vars == <<now, token_last_price, pool, market, kept, deferred, worker, stopping,
          signals, engine, calmSince, owed, upsets>>
storeVars == <<now, token_last_price, pool>>
engineVars == <<signals, engine>>

-----------------------------------------------------------------------------
(* The market.                                                             *)

Disturb == calmSince' = now /\ owed' = NoSignal

PriceMoves ==
    /\ upsets > 0
    /\ \E p \in Prices \cup {NoPrice} : p # market[MintA] /\ market' = [market EXCEPT ![MintA] = p]
    /\ upsets' = upsets - 1
    /\ Disturb
    /\ UNCHANGED <<storeVars, priceVars, engineVars>>

Swap ==
    /\ upsets > 0
    /\ \E s \in Spots : pool' = [spot |-> s, at |-> now]
    /\ upsets' = upsets - 1
    /\ Disturb
    /\ UNCHANGED <<now, token_last_price, market, priceVars, engineVars>>

-----------------------------------------------------------------------------
(* The price worker, and what befalls it.                                  *)

WorkerSteps ==
    /\ \/ (ListCandidates \/ FetchChunk \/ FetchCut) /\ UNCHANGED token_last_price
       \/ Inserted
    /\ UNCHANGED <<calmSince, owed, upsets>>

WorkerMishaps ==
    /\ upsets > 0
    /\ upsets' = upsets - 1
    /\ \/ (ListFailed \/ ChunkFailed \/ StopAsked) /\ UNCHANGED token_last_price
       \/ InsertFailed
       \/ WorkerKilled
    /\ Disturb

WorkerReturns ==
    /\ WorkerStops \/ WorkerStarts
    /\ Disturb
    /\ UNCHANGED <<token_last_price, upsets>>

Price ==
    /\ WorkerSteps \/ WorkerMishaps \/ WorkerReturns
    /\ UNCHANGED <<now, pool, market, engineVars>>

-----------------------------------------------------------------------------
(* The engine, and what befalls it.                                        *)

\* What the market says, were the two prices in the column: the pool is deep
\* enough to be read, its last swap recent, and both mints were priced before,
\* so that neither waits for the turn of a mint never priced.
TrueSeverity ==
    IF /\ \A m \in Mints : market[m] # NoPrice /\ is_storable(market[m])
       /\ Mints \subseteq DOMAIN token_last_price
       /\ pool.at >= now - MaxSpotAge
    THEN LET a == at_storage_scale(market[MintA])
             b == at_storage_scale(market[MintB])
         IN  IF ReserveA * a + ReserveB * b >= MinTvl THEN SeverityOf(pool.spot, a, b)
             ELSE NoSignal
    ELSE NoSignal

\* Owed by a tick that begins once the market has been calm for Lag.
Begin ==
    /\ TickBegins
    /\ owed' = IF now - calmSince >= Lag /\ worker.stage # "down" THEN TrueSeverity ELSE NoSignal
    /\ UNCHANGED upsets

Proceed ==
    /\ Evaluated \/ LookedUp \/ Emitted \/ EngineStarts
    /\ UNCHANGED <<owed, upsets>>

EngineMishaps ==
    /\ upsets > 0
    /\ upsets' = upsets - 1
    /\ TickFailed \/ EngineEnds
    /\ owed' = NoSignal

Signal ==
    /\ Begin \/ Proceed \/ EngineMishaps
    /\ UNCHANGED <<storeVars, market, priceVars, calmSince>>

-----------------------------------------------------------------------------
(* Time.  Both loops are served when their timer fires, and no tick outlasts *)
(* its bound: the clock waits for them.  A daemon that is down may stay down. *)

Urgent ==
    \/ TickDue
    \/ worker.stage = "idle" /\ stopping
    \/ worker.stage \in {"fetching", "inserting"} /\ now - worker.began >= MaxTick
    \/ DetectorDue
    \/ engine.stage \in {"evaluating", "looking", "inserting"} /\ now - engine.at >= MaxDetectorTick

Advance ==
    /\ ~Urgent /\ now < LastNow
    /\ now' = now + 1
    /\ UNCHANGED <<token_last_price, pool, market, priceVars, engineVars,
                   calmSince, owed, upsets>>

\* A new deployment: no price yet, and a pool that just swapped.
Init ==
    /\ now = 0
    /\ token_last_price = <<>>
    /\ \E s \in Spots : pool = [spot |-> s, at |-> 0]
    /\ \E p \in Prices \cup {NoPrice} : market = (MintA :> p) @@ (MintB :> PriceB)
    /\ PriceInit
    /\ EngineInit
    /\ calmSince = 0 /\ owed = NoSignal
    /\ upsets = MaxUpsets

Next == PriceMoves \/ Swap \/ Price \/ Signal \/ Advance

Spec == Init /\ [][Next]_vars

-----------------------------------------------------------------------------
(* A mint of the market's once it has been calm long enough, and while     *)
(* somebody prices it.                                                     *)
Settled(m) ==
    /\ worker.stage # "down" /\ now - calmSince >= Lag
    /\ m \in DOMAIN token_last_price /\ m \in Candidates
    /\ market[m] # NoPrice /\ is_storable(market[m])

\* KeptPrices drops the rows that repeat, the classes thin out the asking and
\* UnpricedMints puts it off (price.rs, price_once): through all three, and
\* after failed inserts and restarts, the last row of a mint the source prices
\* is its price in the market and is never as old as what readers call stale.
PricesStayCurrent ==
    \A m \in Mints : Settled(m) =>
        /\ token_last_price[m].price = at_storage_scale(market[m])
        /\ now - token_last_price[m].at <= MaxPriceAge

\* What the worker remembers as kept is in the table, or older than what is: an
\* insert that failed or died half-way holds no later price back ("After a
\* successful insert only, or a failed batch holds the price back",
\* kept_prices/model.rs, record).
RememberedIsWritten ==
    \A m \in DOMAIN kept :
        /\ m \in DOMAIN token_last_price
        /\ \/ kept[m] = token_last_price[m]
           \/ kept[m].at < token_last_price[m].at

\* A deviation that lasts is told: a detector tick that ends well leaves a
\* signal at least that severe within the cooldown, whether it inserted one or
\* dropped it as a repeat (signal_engine.rs, run_tick).
DeviationIsTold ==
    engine.stage = "idle" /\ owed # NoSignal =>
        \E s \in signals : s.severity >= owed /\ s.at > engine.at - Cooldown

\* Within a cooldown the signals of a pool only escalate, through failed and
\* half-failed inserts and restarts: "dedup only escalates within a window, so
\* its severity is also the max" (persistence signal.rs, latest_severity_by_pool).
SignalsEscalate ==
    \A s, t \in signals : s # t /\ s.at <= t.at /\ t.at - s.at < Cooldown =>
        s.severity < t.severity
=============================================================================
