---------------------------- MODULE SignalEngine ----------------------------
(***************************************************************************)
(* The loop the signal engine runs for the price-oracle-deviation detector *)
(* (crates/signals/src/application/workers/signal_engine.rs and            *)
(* detectors/price_oracle_deviation.rs): evaluate the pool from the tables *)
(* as they are, look up what was signalled within the cooldown, and insert *)
(* what is new or escalates.  The signals table is its only memory.        *)
(*                                                                         *)
(* A spot price is its decoded value: the ratio of the mints' prices the   *)
(* last swap left.                                                         *)
(***************************************************************************)
EXTENDS TokenPrices

CONSTANTS
    DetectorInterval,  \* SIGNALS_PRICE_DEVIATION_INTERVAL_SECS
    Cooldown,          \* SIGNALS_PRICE_DEVIATION_COOLDOWN_HOURS
    MaxPriceAge,       \* SIGNALS_PRICE_DEVIATION_MAX_PRICE_AGE_MINS
    MaxSpotAge,        \* SIGNALS_PRICE_DEVIATION_MAX_SPOT_AGE_HOURS
    MinTvl,            \* SIGNALS_PRICE_DEVIATION_MIN_TVL_USD
    Threshold,         \* of the deviation, in percent
    Critical

\* The order of the two thresholds is checked when the configuration is read.
ASSUME ThresholdsAssumption == Threshold \in Nat /\ Critical \in Nat /\ Threshold < Critical

\* Unsigned in the configuration.
ASSUME TimesAssumption == DetectorInterval \in Nat /\ Cooldown \in Nat

VARIABLES
    signals,           \* the signals table
    engine             \* where the detector's tick stands

\* Severity, in its order; NoSignal is below both.
NoSignal == 0
WarningLevel == 1
CriticalLevel == 2

Resting(due, at) == [stage |-> "idle", due |-> due, at |-> at, found |-> {}]

-----------------------------------------------------------------------------
(* The detector.                                                           *)

Abs(n) == IF n < 0 THEN -n ELSE n

\* |spot - oracle| / oracle in percent, where oracle = a / b, and what it is worth.
SeverityOf(spot, a, b) ==
    LET magnitude == 100 * Abs(spot * b - a)
    IN  CASE magnitude >= Critical * a -> CriticalLevel
          [] magnitude >= Threshold * a /\ magnitude < Critical * a -> WarningLevel
          [] OTHER -> NoSignal

Stale(snapshot, at) ==
    \/ snapshot.last_swap_at < at - MaxSpotAge
    \/ snapshot.a.at < at - MaxPriceAge
    \/ snapshot.b.at < at - MaxPriceAge

evaluate(at) ==
    {[severity |-> SeverityOf(s.spot, s.a.price, s.b.price), at |-> at] :
       s \in {x \in LatestSnapshots(MinTvl) :
                ~Stale(x, at) /\ SeverityOf(x.spot, x.a.price, x.b.price) # NoSignal}}

-----------------------------------------------------------------------------
(* The engine.                                                             *)

(* Mutation: the cooldown is not read. *)
LatestSeverityEver(since) ==
    {s.severity : s \in {x \in signals : \A y \in signals : y.at <= x.at}}

\* The most recent row since then, not the most severe.
latest_severity(since) ==
    LET recent == {s \in signals : s.at > since}
    IN  {s.severity : s \in {x \in recent : \A y \in recent : y.at <= x.at}}

(* Mutation: what is as severe as the last one is told again. *)
EmittableUnlessLower(candidates, recent) ==
    {c \in candidates : \A last \in recent : c.severity >= last}

emittable(candidates, recent) ==
    {c \in candidates : \A last \in recent : c.severity > last}

\* The clock tells a tick from the one before it, of an earlier process too.
DetectorDue == engine.stage = "idle" /\ now >= engine.due /\ now > engine.at

TickBegins ==
    /\ DetectorDue
    /\ engine' = [Resting(engine.due + DetectorInterval, now) EXCEPT !.stage = "evaluating"]
    /\ UNCHANGED signals

Evaluated ==
    /\ engine.stage = "evaluating"
    /\ LET found == evaluate(engine.at) IN
       engine' = IF found = {} THEN Resting(engine.due, engine.at)
                 ELSE [engine EXCEPT !.stage = "looking", !.found = found]
    /\ UNCHANGED signals

LookedUp ==
    /\ engine.stage = "looking"
    /\ LET to_emit == emittable(engine.found, latest_severity(engine.at - Cooldown)) IN
       engine' = IF to_emit = {} THEN Resting(engine.due, engine.at)
                 ELSE [engine EXCEPT !.stage = "inserting", !.found = to_emit]
    /\ UNCHANGED signals

Emitted ==
    /\ engine.stage = "inserting"
    /\ signals' = signals \cup engine.found
    /\ engine' = Resting(engine.due, engine.at)

\* An insert that failed, or that the process did not outlive, may have landed.
EmitLanded ==
    \/ engine.stage = "inserting" /\ signals' = signals \cup engine.found
    \/ UNCHANGED signals

\* eval_failed, dedup_failed and persist_failed: the tick is skipped.
TickFailed ==
    /\ engine.stage \in {"evaluating", "looking", "inserting"}
    /\ EmitLanded
    /\ engine' = Resting(engine.due, engine.at)

\* A kill, or the end of a stop: the loop leaves between two ticks.
EngineEnds ==
    /\ engine.stage # "down"
    /\ EmitLanded
    /\ engine' = [Resting(0, engine.at) EXCEPT !.stage = "down"]

EngineStarts ==
    /\ engine.stage = "down"
    /\ engine' = Resting(now, engine.at)
    /\ UNCHANGED signals

EngineInit ==
    /\ signals = {}
    /\ engine = Resting(now, now - 1)
=============================================================================
