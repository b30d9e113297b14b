------------------------ MODULE DeviationWatchProofs ------------------------
(***************************************************************************)
(* The signal engine's memory is the signals table, of which a tick reads  *)
(* one row: the latest within the cooldown.  That one row is enough, for   *)
(* every market, cooldown and interval, and whatever fails or restarts.    *)
(* And the price worker's memory, which holds prices back, never says more *)
(* than its table does.                                                    *)
(***************************************************************************)
EXTENDS DeviationWatch, NaturalsInduction, WellFoundedInduction, TLAPS

Severities == {WarningLevel, CriticalLevel}
Told == [severity : Severities, at : Int]
Stages == {"idle", "evaluating", "looking", "inserting", "down"}
UnderWay == {"evaluating", "looking", "inserting"}

EngineTyped ==
    /\ now \in Int
    /\ engine \in [stage : Stages, due : Int, at : Int, found : SUBSET Told]
    /\ signals \in SUBSET Told

\* Ticks are told apart by the clock: what is in the table was told by earlier
\* ticks than the one under way.
TicksAreOrdered ==
    /\ engine.at <= now
    /\ \A s \in signals : s.at <= engine.at
    /\ engine.stage \in UnderWay => \A s \in signals : s.at < engine.at

\* A tick has one pool to speak of, at its own instant; once it has looked, what
\* it holds is above everything told within the cooldown.
FoundIsFresh ==
    /\ \A c, d \in engine.found : c = d
    /\ \A c \in engine.found : c.at = engine.at
    /\ engine.stage = "inserting" =>
          \A c \in engine.found, s \in signals :
              s.at > engine.at - Cooldown => s.severity < c.severity

\* The inductive invariant.
IInv == EngineTyped /\ TicksAreOrdered /\ FoundIsFresh /\ SignalsEscalate

-----------------------------------------------------------------------------
\* Of rows no later than an instant, one is the latest.
LEMMA LatestExists ==
    ASSUME NEW rows \in SUBSET Told, NEW at \in Int, rows # {},
           \A r \in rows : r.at <= at
    PROVE  \E r \in rows : \A s \in rows : s.at <= r.at
<1> DEFINE ages == {at - r.at : r \in rows}
<1>1. ages \in SUBSET Nat /\ ages # {}
  BY DEF Told
<1> DEFINE LessThan == OpToRel(<, Nat)
<1>2. IsWellFoundedOn(LessThan, Nat)
  BY NatLessThanWellFounded
<1>3. \A m, n \in Nat : <<m, n>> \in LessThan <=> m < n
  BY DEF OpToRel
<1>4. PICK a \in ages : \A b \in ages : a <= b
  <2> HIDE DEF ages, LessThan
  <2>1. PICK a \in ages : \A b \in ages : ~(<<b, a>> \in LessThan)
    BY <1>1, <1>2, WFMin
  <2>2. ASSUME NEW b \in ages PROVE a <= b
    <3>1. a \in Nat /\ b \in Nat
      BY <1>1
    <3>2. ~(b < a)
      BY <1>3, <2>1, <3>1
    <3> QED
      BY <3>1, <3>2
  <2> QED
    BY <2>2
<1>5. PICK r \in rows : a = at - r.at
  OBVIOUS
<1>6. ASSUME NEW s \in rows PROVE s.at <= r.at
  <2>1. at - s.at \in ages
    OBVIOUS
  <2>2. a <= at - s.at
    BY <1>4, <2>1
  <2> QED
    BY <1>5, <2>2 DEF Told
<1> QED
  BY <1>6

\* dedup reads the latest row of the cooldown only, and what it lets through is
\* above every row of the cooldown, since those rows escalate.
LEMMA LatestIsEnough ==
    ASSUME EngineTyped, TicksAreOrdered, SignalsEscalate,
           NEW c \in emittable(engine.found, latest_severity(engine.at - Cooldown)),
           NEW s \in signals, s.at > engine.at - Cooldown
    PROVE  s.severity < c.severity
<1> DEFINE recent == {x \in signals : x.at > engine.at - Cooldown}
<1>1. recent \in SUBSET Told /\ s \in recent /\ engine.at \in Int /\ Cooldown \in Int
  BY TimesAssumption DEF EngineTyped
<1>2. \A x \in recent : x.at <= engine.at
  BY DEF TicksAreOrdered
<1>3. PICK x \in recent : \A y \in recent : y.at <= x.at
  BY <1>1, <1>2, LatestExists
<1>4. x.severity \in latest_severity(engine.at - Cooldown)
  BY <1>3 DEF latest_severity
<1>5. c \in engine.found /\ c.severity > x.severity
  BY <1>4 DEF emittable
<1>6. s.severity <= x.severity
  <2>1. CASE s = x
    BY <2>1, <1>1 DEF Told, Severities, WarningLevel, CriticalLevel
  <2>2. CASE s # x
    <3>1. s.at <= x.at /\ s.at \in Int /\ x.at \in Int
      BY <1>1, <1>3 DEF Told
    <3>2. x.at - s.at < Cooldown
      BY <3>1, <1>1, <1>2
    <3>3. s.severity < x.severity
      BY <2>2, <3>1, <3>2 DEF SignalsEscalate
    <3> QED
      BY <3>3, <1>1 DEF Told, Severities, WarningLevel, CriticalLevel
  <2> QED
    BY <2>1, <2>2
<1>7. s.severity \in Int /\ x.severity \in Int /\ c.severity \in Int
  BY <1>1, <1>5 DEF EngineTyped, Told, Severities, WarningLevel, CriticalLevel
<1> QED
  BY <1>5, <1>6, <1>7

\* The detector says one thing of the pool at most, at the tick's instant, and
\* only what reaches a threshold.
LEMMA EvaluateIsOne ==
    ASSUME NEW at \in Int
    PROVE  /\ evaluate(at) \in SUBSET Told
           /\ \A c, d \in evaluate(at) : c = d
           /\ \A c \in evaluate(at) : c.at = at
<1>1. \A x, y \in LatestSnapshots(MinTvl) : x = y
  BY DEF LatestSnapshots
<1>2. ASSUME NEW spot, NEW a, NEW b, SeverityOf(spot, a, b) # NoSignal
      PROVE  SeverityOf(spot, a, b) \in Severities
  BY <1>2 DEF SeverityOf, Severities
<1>3. ASSUME NEW c \in evaluate(at)
      PROVE  /\ c \in Told /\ c.at = at
             /\ \E x \in LatestSnapshots(MinTvl) :
                   c = [severity |-> SeverityOf(x.spot, x.a.price, x.b.price), at |-> at]
  BY <1>2 DEF evaluate, Told
<1>4. ASSUME NEW c \in evaluate(at), NEW d \in evaluate(at) PROVE c = d
  BY <1>1, <1>3
<1> QED
  BY <1>3, <1>4

-----------------------------------------------------------------------------
\* The first tick comes after the table's last row: there is none.
LEMMA InitWatch == Init => IInv
  BY DEF Init, EngineInit, Resting, IInv, EngineTyped, Stages, UnderWay,
         TicksAreOrdered, FoundIsFresh, SignalsEscalate

\* What a step that leaves the engine's state to itself and turns no clock back
\* keeps.
LEMMA OthersKeep ==
    ASSUME IInv, UNCHANGED <<signals, engine>>, now' \in Int, now <= now'
    PROVE  IInv'
  BY DEF IInv, EngineTyped, TicksAreOrdered, FoundIsFresh, SignalsEscalate

\* Rows that come to rest: a tick's signals land, or they do not.
LEMMA LandingKeeps ==
    ASSUME IInv, EmitLanded
    PROVE  /\ signals' \in SUBSET Told
           /\ SignalsEscalate'
           /\ \A s \in signals' : s.at <= engine.at
<1>1. CASE UNCHANGED signals
  BY <1>1 DEF IInv, EngineTyped, TicksAreOrdered, SignalsEscalate
<1>2. CASE engine.stage = "inserting" /\ signals' = signals \cup engine.found
  <2>1. signals' \in SUBSET Told /\ \A s \in signals' : s.at <= engine.at
    BY <1>2 DEF IInv, EngineTyped, TicksAreOrdered, FoundIsFresh
  <2>2. ASSUME NEW s \in signals', NEW t \in signals', s # t, s.at <= t.at,
               t.at - s.at < Cooldown
        PROVE  s.severity < t.severity
    <3>1. CASE s \in signals /\ t \in signals
      BY <2>2, <3>1 DEF IInv, SignalsEscalate
    <3>2. CASE s \in signals /\ t \in engine.found
      <4>1. t.at = engine.at /\ s.at \in Int /\ engine.at \in Int
        BY <3>2 DEF IInv, FoundIsFresh, EngineTyped, Told
      <4>2. s.at > engine.at - Cooldown
        BY <2>2, <4>1, TimesAssumption
      <4> QED
        BY <1>2, <3>2, <4>2 DEF IInv, FoundIsFresh
    <3>3. CASE s \in engine.found /\ t \in signals
      <4>1. s.at = engine.at /\ t.at < engine.at /\ t.at \in Int /\ engine.at \in Int
        BY <1>2, <3>3 DEF IInv, FoundIsFresh, TicksAreOrdered, UnderWay, EngineTyped, Told
      <4> QED
        BY <2>2, <4>1
    <3>4. CASE s \in engine.found /\ t \in engine.found
      BY <2>2, <3>4 DEF IInv, FoundIsFresh
    <3> QED
      BY <1>2, <3>1, <3>2, <3>3, <3>4
  <2>3. SignalsEscalate'
    BY <2>2 DEF SignalsEscalate
  <2> QED
    BY <2>1, <2>3
<1> QED
  BY <1>1, <1>2 DEF EmitLanded

\* A tick that ends, and a process that does, leave the table to the next.
LEMMA RestKeeps ==
    ASSUME IInv, EmitLanded, UNCHANGED now,
           NEW due \in Int, NEW stage \in {"idle", "down"},
           engine' = [Resting(due, engine.at) EXCEPT !.stage = stage]
    PROVE  IInv'
<1>1. /\ engine' \in [stage : Stages, due : Int, at : Int, found : SUBSET Told]
      /\ engine'.stage = stage /\ engine'.at = engine.at /\ engine'.found = {}
  BY DEF IInv, EngineTyped, Resting, Stages
<1>2. EngineTyped'
  BY <1>1, LandingKeeps DEF IInv, EngineTyped
<1>3. TicksAreOrdered'
  BY <1>1, LandingKeeps DEF IInv, TicksAreOrdered, UnderWay
<1>4. FoundIsFresh'
  BY <1>1 DEF FoundIsFresh
<1> QED
  BY <1>2, <1>3, <1>4, LandingKeeps DEF IInv

\* A tick begins later than every row.
LEMMA BeginKeeps ==
    ASSUME IInv, TickBegins, UNCHANGED now
    PROVE  IInv'
<1>1. /\ engine' \in [stage : Stages, due : Int, at : Int, found : SUBSET Told]
      /\ engine'.stage = "evaluating" /\ engine'.at = now /\ engine'.found = {}
  BY TimesAssumption DEF IInv, EngineTyped, TickBegins, Resting, Stages
<1>2. \A s \in signals : s.at < now
  BY DEF IInv, EngineTyped, Told, TicksAreOrdered, TickBegins, DetectorDue
<1>3. EngineTyped'
  BY <1>1 DEF IInv, EngineTyped, TickBegins
<1>4. TicksAreOrdered'
  BY <1>1, <1>2 DEF IInv, EngineTyped, Told, TicksAreOrdered, TickBegins
<1>5. FoundIsFresh' /\ SignalsEscalate'
  BY <1>1 DEF IInv, FoundIsFresh, SignalsEscalate, TickBegins
<1> QED
  BY <1>3, <1>4, <1>5 DEF IInv

\* What a tick evaluated, then what dedup let through.
LEMMA HoldKeeps ==
    ASSUME IInv, UNCHANGED <<signals, now>>, engine.stage \in UnderWay,
           NEW found \in SUBSET Told, NEW stage \in {"looking", "inserting"},
           \A c, d \in found : c = d,
           \A c \in found : c.at = engine.at,
           stage = "inserting" =>
              \A c \in found, s \in signals :
                  s.at > engine.at - Cooldown => s.severity < c.severity,
           engine' = [engine EXCEPT !.stage = stage, !.found = found]
    PROVE  IInv'
<1>1. /\ engine' \in [stage : Stages, due : Int, at : Int, found : SUBSET Told]
      /\ engine'.stage = stage /\ engine'.at = engine.at /\ engine'.found = found
  BY DEF IInv, EngineTyped, Stages
<1>2. EngineTyped'
  BY <1>1 DEF IInv, EngineTyped
<1>3. TicksAreOrdered'
  BY <1>1 DEF IInv, TicksAreOrdered, UnderWay
<1>4. FoundIsFresh' /\ SignalsEscalate'
  BY <1>1 DEF IInv, FoundIsFresh, SignalsEscalate
<1> QED
  BY <1>2, <1>3, <1>4 DEF IInv

\* Every step of the engine.
LEMMA SignalKeeps ==
    ASSUME IInv, Signal
    PROVE  IInv'
<1>0. UNCHANGED now
  BY DEF Signal, storeVars
<1>1. CASE TickBegins
  BY <1>0, <1>1, BeginKeeps
<1>2. CASE Evaluated
  <2>1. CASE evaluate(engine.at) = {}
    <3>1. engine' = [Resting(engine.due, engine.at) EXCEPT !.stage = "idle"]
      BY <1>2, <2>1 DEF Evaluated, Resting
    <3> QED
      BY <1>0, <1>2, <3>1, RestKeeps DEF Evaluated, EmitLanded, IInv, EngineTyped
  <2>2. CASE evaluate(engine.at) # {}
    <3>1. engine.at \in Int /\ engine.stage \in UnderWay
      BY <1>2 DEF Evaluated, UnderWay, IInv, EngineTyped
    <3>2. engine' = [engine EXCEPT !.stage = "looking", !.found = evaluate(engine.at)]
      BY <1>2, <2>2 DEF Evaluated
    <3> QED
      BY <1>0, <1>2, <3>1, <3>2, EvaluateIsOne, HoldKeeps DEF Evaluated
  <2> QED
    BY <2>1, <2>2
<1>3. CASE LookedUp
  <2> DEFINE emit == emittable(engine.found, latest_severity(engine.at - Cooldown))
  <2>1. CASE emit = {}
    <3>1. engine' = [Resting(engine.due, engine.at) EXCEPT !.stage = "idle"]
      BY <1>3, <2>1 DEF LookedUp, Resting
    <3> QED
      BY <1>0, <1>3, <3>1, RestKeeps DEF LookedUp, EmitLanded, IInv, EngineTyped
  <2>2. CASE emit # {}
    <3>1. emit \in SUBSET engine.found /\ emit \in SUBSET Told
      BY DEF emittable, IInv, EngineTyped
    <3>2. engine' = [engine EXCEPT !.stage = "inserting", !.found = emit]
      BY <1>3, <2>2 DEF LookedUp
    <3>3. \A c \in emit, s \in signals :
             s.at > engine.at - Cooldown => s.severity < c.severity
      BY LatestIsEnough DEF IInv
    <3>4. (\A c, d \in emit : c = d) /\ (\A c \in emit : c.at = engine.at)
      BY <3>1 DEF IInv, FoundIsFresh
    <3>5. engine.stage \in UnderWay /\ UNCHANGED signals
      BY <1>3 DEF LookedUp, UnderWay
    <3> HIDE DEF emit
    <3> QED
      BY <1>0, <3>1, <3>2, <3>3, <3>4, <3>5, HoldKeeps
  <2> QED
    BY <2>1, <2>2
<1>4. CASE Emitted \/ TickFailed
  <2>1. EmitLanded
    BY <1>4 DEF Emitted, TickFailed, EmitLanded
  <2>2. engine' = [Resting(engine.due, engine.at) EXCEPT !.stage = "idle"]
    BY <1>4 DEF Emitted, TickFailed, Resting
  <2> QED
    BY <1>0, <2>1, <2>2, RestKeeps DEF IInv, EngineTyped
<1>5. CASE EngineEnds
  <2>1. EmitLanded
    BY <1>5 DEF EngineEnds
  <2>2. PICK due \in Int : engine' = [Resting(due, engine.at) EXCEPT !.stage = "down"]
    BY <1>5 DEF EngineEnds
  <2> QED
    BY <1>0, <2>1, <2>2, RestKeeps
<1>6. CASE EngineStarts
  <2>1. engine' = [Resting(now, engine.at) EXCEPT !.stage = "idle"]
    BY <1>6 DEF EngineStarts, Resting
  <2> QED
    BY <1>0, <1>6, <2>1, RestKeeps DEF EngineStarts, EmitLanded, IInv, EngineTyped
<1> QED
  BY <1>1, <1>2, <1>3, <1>4, <1>5, <1>6 DEF Signal, Begin, Proceed, EngineMishaps

\* Every step of the system.
LEMMA NextWatch == IInv /\ [Next]_vars => IInv'
<1> SUFFICES ASSUME IInv, [Next]_vars PROVE IInv'
  OBVIOUS
<1>0. now \in Int
  BY DEF IInv, EngineTyped
<1>1. CASE PriceMoves
  BY <1>0, <1>1, OthersKeep DEF PriceMoves, storeVars, engineVars
<1>2. CASE Swap
  BY <1>0, <1>2, OthersKeep DEF Swap, engineVars
<1>3. CASE Price
  BY <1>0, <1>3, OthersKeep DEF Price, engineVars
<1>4. CASE Signal
  BY <1>4, SignalKeeps
<1>5. CASE Advance
  BY <1>0, <1>5, OthersKeep DEF Advance, engineVars
<1>6. CASE UNCHANGED vars
  BY <1>0, <1>6, OthersKeep DEF vars
<1> QED
  BY <1>1, <1>2, <1>3, <1>4, <1>5, <1>6 DEF Next

\* Within a cooldown a pool's signals only escalate, so that the latest is also
\* the most severe: for every market and cooldown, through failed and
\* half-failed inserts, kills and restarts of the engine.
THEOREM WatchEscalates == Spec => []SignalsEscalate
<1>1. Spec => []IInv
  BY InitWatch, NextWatch, PTL DEF Spec
<1> QED
  BY <1>1, PTL DEF IInv

-----------------------------------------------------------------------------
(* What the price worker remembers.                                        *)

WorkerTyped ==
    worker = [stage |-> worker.stage, tick |-> worker.tick, due |-> worker.due,
              began |-> worker.began, asked |-> worker.asked,
              priced |-> worker.priced, unpriced |-> worker.unpriced]

\* Rows are dated, and a batch about to be inserted is newer than all it meets.
BatchIsNewer ==
    /\ now \in Int
    /\ \A m \in DOMAIN token_last_price : token_last_price[m].at \in Int
    /\ worker.stage = "inserting" => \A m \in DOMAIN worker.priced :
          /\ worker.priced[m].at \in Int
          /\ m \in DOMAIN token_last_price => token_last_price[m].at < worker.priced[m].at

\* What is remembered is dated too.
KeptInv == \A m \in DOMAIN kept : kept[m].at \in Int

PriceInv == WorkerTyped /\ BatchIsNewer /\ KeptInv /\ RememberedIsWritten

\* The rows of a batch newer than all they meet replace them, and no others.
LEMMA BatchReplaces ==
    ASSUME NEW rows, InsertBatch(rows),
           \A m \in DOMAIN rows : m \in DOMAIN token_last_price =>
                                     token_last_price[m].at < rows[m].at
    PROVE  token_last_price' =
              [m \in DOMAIN rows \cup DOMAIN token_last_price |->
                  IF m \in DOMAIN rows THEN rows[m] ELSE token_last_price[m]]
<1>1. {m \in DOMAIN rows : m \in DOMAIN token_last_price =>
                               token_last_price[m].at < rows[m].at} = DOMAIN rows
  OBVIOUS
<1>2. token_last_price' = Over(Restrict(rows, DOMAIN rows), token_last_price)
  BY <1>1 DEF InsertBatch
<1> QED
  BY <1>2 DEF Restrict, Over

\* An insert that is not remembered leaves every memory in the table or behind it.
LEMMA LandedKeeps ==
    ASSUME PriceInv, worker.stage = "inserting", Landed
    PROVE  /\ \A m \in DOMAIN token_last_price' : token_last_price'[m].at \in Int
           /\ \A m \in DOMAIN kept :
                 /\ m \in DOMAIN token_last_price'
                 /\ \/ kept[m] = token_last_price'[m]
                    \/ kept[m].at < token_last_price'[m].at
<1>1. BatchIsNewer /\ KeptInv /\ RememberedIsWritten
  BY DEF PriceInv
<1>2. CASE UNCHANGED token_last_price
  BY <1>1, <1>2 DEF BatchIsNewer, RememberedIsWritten
<1>3. CASE InsertBatch(worker.priced)
  <2>1. PICK rows : rows = worker.priced
    OBVIOUS
  <2>2. \A m \in DOMAIN rows :
           /\ rows[m].at \in Int
           /\ m \in DOMAIN token_last_price => token_last_price[m].at < rows[m].at
    BY <1>1, <2>1 DEF BatchIsNewer
  <2>3. InsertBatch(rows)
    BY <1>3, <2>1
  <2>4. token_last_price' =
           [m \in DOMAIN rows \cup DOMAIN token_last_price |->
               IF m \in DOMAIN rows THEN rows[m] ELSE token_last_price[m]]
    BY <2>2, <2>3, BatchReplaces
  <2> QED
    BY <1>1, <2>2, <2>4 DEF BatchIsNewer, KeptInv, RememberedIsWritten
<1> QED
  BY <1>2, <1>3 DEF Landed

\* An answer becomes a batch dated now, later than the rows of its mints.
LEMMA AnsweredKeeps ==
    ASSUME PriceInv, NEW priced, NEW unpriced, Answered(priced, unpriced),
           UNCHANGED <<now, token_last_price, kept>>
    PROVE  PriceInv'
<1>1. /\ WorkerTyped /\ BatchIsNewer /\ KeptInv /\ RememberedIsWritten
  BY DEF PriceInv
<1>2. KeptInv' /\ RememberedIsWritten'
  BY <1>1 DEF KeptInv, RememberedIsWritten
<1>3. PICK batch : batch = Filtered(priced)
  OBVIOUS
<1>4. \A m \in DOMAIN batch : m \in DOMAIN priced /\ batch[m].at = now
  BY <1>3 DEF Filtered, Restrict, Row
<1>5. \A m \in DOMAIN priced : m \in DOMAIN token_last_price => token_last_price[m].at < now
  BY DEF Answered, LaterThanRows
<1>6. worker' = IF batch = <<>> THEN Idle(worker.tick, worker.due)
                ELSE [worker EXCEPT !.stage = "inserting", !.asked = {}, !.unpriced = {},
                                    !.priced = batch]
  BY <1>3 DEF Answered
<1>7. CASE batch = <<>>
  <2>1. worker' = Idle(worker.tick, worker.due)
    BY <1>6, <1>7
  <2>2. WorkerTyped' /\ worker'.stage = "idle"
    BY <2>1 DEF WorkerTyped, Idle
  <2> QED
    BY <1>1, <1>2, <2>2 DEF PriceInv, BatchIsNewer
<1>8. CASE batch # <<>>
  <2>1. WorkerTyped' /\ worker'.priced = batch
    BY <1>1, <1>6, <1>8 DEF WorkerTyped
  <2>2. BatchIsNewer'
    BY <1>1, <1>4, <1>5, <2>1 DEF BatchIsNewer
  <2> QED
    BY <1>2, <2>1, <2>2 DEF PriceInv
<1> QED
  BY <1>7, <1>8

\* Nothing else of the worker's touches its memory or a batch.
LEMMA PriceRests ==
    ASSUME PriceInv, WorkerTyped', worker'.stage # "inserting",
           UNCHANGED <<now, token_last_price, kept>>
    PROVE  PriceInv'
  BY DEF PriceInv, BatchIsNewer, KeptInv, RememberedIsWritten

\* One chunk's answer: the last one makes the batch.
LEMMA AddChunkKeeps ==
    ASSUME PriceInv, worker.stage = "fetching", NEW chunk, NEW priced, NEW unpriced,
           AddChunk(chunk, priced, unpriced), UNCHANGED <<now, token_last_price, kept>>
    PROVE  PriceInv'
<1>1. CASE chunk = worker.asked
  <2>1. PICK p, u : Answered(p, u)
    BY <1>1 DEF AddChunk
  <2> QED
    BY <2>1, AnsweredKeeps
<1>2. CASE chunk # worker.asked
  <2>1. PICK a, p, u : worker' = [worker EXCEPT !.asked = a, !.priced = p, !.unpriced = u]
    BY <1>2 DEF AddChunk
  <2>2. WorkerTyped' /\ worker'.stage = "fetching"
    BY <2>1 DEF PriceInv, WorkerTyped
  <2> QED
    BY <2>2, PriceRests
<1> QED
  BY <1>1, <1>2

LEMMA StepKeepsPrices ==
    ASSUME PriceInv, WorkerSteps, UNCHANGED now
    PROVE  PriceInv'
<1>1. CASE ListCandidates /\ UNCHANGED token_last_price
  <2>1. WorkerTyped' /\ worker'.stage # "inserting"
    BY <1>1 DEF ListCandidates, NextTick, Idle, WorkerTyped
  <2> QED
    BY <1>1, <2>1, PriceRests DEF ListCandidates
<1>2. CASE FetchChunk /\ UNCHANGED token_last_price
  <2>1. worker.stage = "fetching" /\ kept' = kept
    BY <1>2 DEF FetchChunk, Fetching
  <2>2. PICK chunk, p, u : AddChunk(chunk, p, u)
    BY <1>2 DEF FetchChunk
  <2> QED
    BY <1>2, <2>1, <2>2, AddChunkKeeps
<1>3. CASE FetchCut /\ UNCHANGED token_last_price
  BY <1>3, AnsweredKeeps DEF FetchCut
<1>4. CASE Inserted
  <2>1. /\ worker.stage = "inserting" /\ InsertBatch(worker.priced)
        /\ kept' = Over(worker.priced, kept) /\ worker' = Idle(worker.tick, worker.due)
    BY <1>4 DEF Inserted
  <2>2. PICK rows : rows = worker.priced
    OBVIOUS
  <2>3. \A m \in DOMAIN rows :
           /\ rows[m].at \in Int
           /\ m \in DOMAIN token_last_price => token_last_price[m].at < rows[m].at
    BY <2>1, <2>2 DEF PriceInv, BatchIsNewer
  <2>4. token_last_price' =
           [m \in DOMAIN rows \cup DOMAIN token_last_price |->
               IF m \in DOMAIN rows THEN rows[m] ELSE token_last_price[m]]
    <3>1. InsertBatch(rows)
      BY <2>1, <2>2
    <3> QED
      BY <2>3, <3>1, BatchReplaces
  <2>5. kept' = [m \in DOMAIN rows \cup DOMAIN kept |->
                    IF m \in DOMAIN rows THEN rows[m] ELSE kept[m]]
    BY <2>1, <2>2 DEF Over
  <2>6. WorkerTyped' /\ worker'.stage = "idle"
    BY <2>1 DEF WorkerTyped, Idle
  <2>7. BatchIsNewer'
    BY <2>3, <2>4, <2>6 DEF PriceInv, BatchIsNewer
  <2>8. KeptInv'
    BY <2>3, <2>5 DEF PriceInv, KeptInv
  <2>9. RememberedIsWritten'
    BY <2>4, <2>5 DEF PriceInv, RememberedIsWritten
  <2> QED
    BY <2>6, <2>7, <2>8, <2>9 DEF PriceInv
<1> QED
  BY <1>1, <1>2, <1>3, <1>4 DEF WorkerSteps

\* A worker that is gone remembers nothing, whatever its last insert did.
LEMMA GoneKeeps ==
    ASSUME PriceInv, Gone, UNCHANGED now,
           \A m \in DOMAIN token_last_price' : token_last_price'[m].at \in Int
    PROVE  PriceInv'
<1>1. WorkerTyped' /\ worker'.stage = "down" /\ kept' = <<>>
  BY DEF Gone, Down, Idle, WorkerTyped
<1>2. KeptInv' /\ RememberedIsWritten'
  BY <1>1 DEF KeptInv, RememberedIsWritten
<1> QED
  BY <1>1, <1>2 DEF PriceInv, BatchIsNewer

LEMMA MishapKeepsPrices ==
    ASSUME PriceInv, WorkerMishaps, UNCHANGED now
    PROVE  PriceInv'
<1>1. CASE ListFailed /\ UNCHANGED token_last_price
  <2>1. WorkerTyped' /\ worker'.stage # "inserting" /\ kept' = kept
    BY <1>1 DEF ListFailed, NextTick, Idle, WorkerTyped
  <2> QED
    BY <1>1, <2>1, PriceRests
<1>2. CASE ChunkFailed /\ UNCHANGED token_last_price
  <2>1. worker.stage = "fetching" /\ kept' = kept
    BY <1>2 DEF ChunkFailed, Fetching
  <2>2. PICK chunk, p, u : AddChunk(chunk, p, u)
    BY <1>2 DEF ChunkFailed
  <2> QED
    BY <1>2, <2>1, <2>2, AddChunkKeeps
<1>3. CASE StopAsked /\ UNCHANGED token_last_price
  BY <1>3 DEF StopAsked, PriceInv, WorkerTyped, BatchIsNewer, KeptInv, RememberedIsWritten
<1>4. CASE InsertFailed
  <2>1. worker.stage = "inserting" /\ Landed /\ kept' = kept
    BY <1>4 DEF InsertFailed
  <2>2. WorkerTyped' /\ worker'.stage = "idle"
    BY <1>4 DEF InsertFailed, WorkerTyped, Idle
  <2>3. KeptInv' /\ RememberedIsWritten'
    BY <2>1, LandedKeeps DEF PriceInv, KeptInv, RememberedIsWritten
  <2>4. BatchIsNewer'
    BY <2>1, <2>2, LandedKeeps DEF PriceInv, BatchIsNewer
  <2> QED
    BY <2>2, <2>3, <2>4 DEF PriceInv
<1>5. CASE WorkerKilled
  <2>1. \A m \in DOMAIN token_last_price' : token_last_price'[m].at \in Int
    <3>1. CASE worker.stage = "inserting"
      BY <1>5, <3>1, LandedKeeps DEF WorkerKilled
    <3>2. CASE worker.stage # "inserting"
      BY <1>5, <3>2 DEF WorkerKilled, PriceInv, BatchIsNewer
    <3> QED
      BY <3>1, <3>2
  <2> QED
    BY <1>5, <2>1, GoneKeeps DEF WorkerKilled
<1> QED
  BY <1>1, <1>2, <1>3, <1>4, <1>5 DEF WorkerMishaps

LEMMA PricesStep == PriceInv /\ [Next]_vars => PriceInv'
<1> SUFFICES ASSUME PriceInv, [Next]_vars PROVE PriceInv'
  OBVIOUS
<1>1. CASE Price
  <2>1. now' = now
    BY <1>1 DEF Price
  <2>2. CASE WorkerStops /\ UNCHANGED token_last_price
    <3>1. \A m \in DOMAIN token_last_price' : token_last_price'[m].at \in Int
      BY <2>2 DEF PriceInv, BatchIsNewer
    <3> QED
      BY <2>1, <2>2, <3>1, GoneKeeps DEF WorkerStops
  <2>3. CASE WorkerStarts /\ UNCHANGED token_last_price
    <3>1. WorkerTyped' /\ worker'.stage # "inserting" /\ kept' = kept
      BY <2>3 DEF WorkerStarts, Idle, WorkerTyped
    <3> QED
      BY <2>1, <2>3, <3>1, PriceRests
  <2> QED
    BY <1>1, <2>1, <2>2, <2>3, StepKeepsPrices, MishapKeepsPrices DEF Price, WorkerReturns
<1>2. CASE UNCHANGED <<token_last_price, kept, worker>> /\ now' \in Int
  BY <1>2 DEF PriceInv, WorkerTyped, BatchIsNewer, KeptInv, RememberedIsWritten
<1>3. now \in Int
  BY DEF PriceInv, BatchIsNewer
<1>4. CASE PriceMoves \/ Swap \/ Signal \/ Advance \/ UNCHANGED vars
  <2>1. UNCHANGED <<token_last_price, kept, worker>> /\ now' \in Int
    BY <1>3, <1>4 DEF PriceMoves, Swap, Signal, Advance, vars, storeVars, priceVars
  <2> QED
    BY <1>2, <2>1
<1> QED
  BY <1>1, <1>4 DEF Next

\* What the price worker remembers as kept is in the table or older than what
\* is, for every cadence, chunk and market and through any failed insert, kill
\* or restart (kept_prices/model.rs, record).
THEOREM RememberedHolds == Spec => []RememberedIsWritten
<1>1. Init => PriceInv
  <2> SUFFICES ASSUME Init PROVE PriceInv
    OBVIOUS
  <2>1. worker = Idle(0, now) /\ kept = <<>> /\ token_last_price = <<>> /\ now = 0
    BY DEF Init, PriceInit
  <2>2. WorkerTyped /\ worker.stage = "idle"
    BY <2>1 DEF WorkerTyped, Idle
  <2> QED
    BY <2>1, <2>2 DEF PriceInv, BatchIsNewer, KeptInv, RememberedIsWritten
<1>2. Spec => []PriceInv
  BY <1>1, PricesStep, PTL DEF Spec
<1> QED
  BY <1>2, PTL DEF PriceInv
=============================================================================
