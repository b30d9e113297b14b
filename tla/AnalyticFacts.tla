--------------------------- MODULE AnalyticFacts ---------------------------
(***************************************************************************)
(* yog-analytic: the tables of the analytic facts and the cycles that      *)
(* write them.  Time is counted in tranches of five minutes: an hour is    *)
(* the tranches h .. h + Hour - 1 and is named by its first one.           *)
(*                                                                         *)
(* What the facts are computed from is a set of indexed transactions, each *)
(* of which carries a swap, a liquidity move, a claim, a birth and a       *)
(* position change of one pool.  A figure (a count, a sum of amounts) is   *)
(* modelled by the set of the transactions it adds up: it tells apart what *)
(* was left out and what was counted, and leaves out the amounts, the      *)
(* prices they are valued at and the facts no price was found for.         *)
(* All the tables are one record, `db': a cycle is one transaction, which  *)
(* commits a new db or nothing.                                            *)
(***************************************************************************)
EXTENDS Integers, FiniteSets, FiniteSetsExt

CONSTANTS
    Writers,        \* the processes of yog-analytic: two while one is replaced
    Txs,            \* the transactions: [id, at, pool, size, marks]
    Late,           \* bound: those that may be stored after their tranche
    Hour,           \* the tranches of an hour
    Margin,         \* FREEZE_MARGIN, in tranches
    MaxHours,       \* MAX_HOURS_PER_CYCLE
    Day,            \* the hours of the shortest window of Window::ALL
    RunGap,         \* RUN_GAP, in tranches
    Mints,          \* the two mints of each pool
    None,           \* no row, no cursor, no cycle
    LastNow         \* bound: the instants of a behaviour

ASSUME TimesAssumption ==
    /\ Hour \in Nat \ {0} /\ Margin \in Nat /\ MaxHours \in Nat \ {0}
    /\ Day \in Nat \ {0} /\ RunGap \in Nat \ {0} /\ LastNow \in Nat

(* What the release before valued had been stored. *)
ASSUME TxsAssumption ==
    /\ \A x \in Txs : x.at \in Nat
    /\ \A x \in Late : x.at >= 2 * Hour

ASSUME NoneAssumption == None \notin Int

VARIABLES
    now,            \* the clock
    arrived,        \* the transactions the indexer has stored
    db,             \* the analytic tables
    cycle,          \* the cycle each writer has planned, or None
    seen,           \* history: the transactions stored when their tranche was valued
    refused,        \* history: a cycle broke a primary key
    current         \* history: this release has written a cycle

factVars == <<now, arrived, db, cycle, seen, refused, current>>

Pools == {x.pool : x \in Txs}

hour_of(at) == (at \div Hour) * Hour
HoursBetween(from, through) == {h \in from .. through : h % Hour = 0}
InSpan(X, from, end) == {x \in X : from <= x.at /\ x.at < end}

MaxOr(S, default) == IF S = {} THEN default ELSE Max(S)
MinOr(S, default) == IF S = {} THEN default ELSE Min(S)
(* GREATEST and LEAST of Postgres, and Option::max: a NULL is passed over. *)
Greatest(S) == MaxOr(S \ {None}, None)
Least(S) == MinOr(S \ {None}, None)

-----------------------------------------------------------------------------
(* The plan of a cycle. *)

MaxTranches == MaxHours * Hour

(* The hours and tranches the tables hold, as one row. *)
Progress(d) ==
    [first_hour   |-> MinOr(d.hours, None),
     last_frozen  |-> MaxOr(d.frozen, None),
     last_tranche |-> MaxOr(DOMAIN d.tranches, None)]

After(at, step) == IF at = None THEN None ELSE at + step

without_written(c, p) ==
    LET from == Greatest({c.from, After(p.last_frozen, Hour)})
        tranchesFrom == Greatest({c.tranches_from, After(p.last_tranche, 1), from})
        written == Greatest({p.last_tranche}
                     \union IF c.tranches_through >= tranchesFrom
                            THEN {c.tranches_through} ELSE {})
        freeze == IF c.freeze_through = None \/ written = None THEN None
                  ELSE Min({c.freeze_through, c.through, hour_of(written + 1) - Hour})
    IN  [c EXCEPT
            !.tranches_from = tranchesFrom,
            !.from = from,
            !.freeze_through = IF freeze # None /\ freeze >= from THEN freeze ELSE None,
            !.tvl_hour = IF @ # None /\ p.last_frozen # None /\ @ <= p.last_frozen
                         THEN None ELSE @]

(* Mutation: the hours to write start at the first one ever written. *)
PlanFromFirstHour(at, p) ==
    LET from == Least({p.first_hour, hour_of(at)})
        tranchesFrom == IF p.last_tranche = None THEN from ELSE p.last_tranche + 1
    IN  without_written(
          [tranches_from    |-> tranchesFrom,
           tranches_through |-> Min({at - 1 - Margin, tranchesFrom + MaxTranches - 1}),
           from             |-> from,
           through          |-> Min({hour_of(at), from + (MaxHours - 1) * Hour}),
           freeze_through   |-> hour_of(at - Hour - Margin),
           tvl_hour         |-> hour_of(at),
           at               |-> at], p)

plan(at, p) ==
    LET from == IF p.last_frozen # None THEN p.last_frozen + Hour
                ELSE IF p.first_hour # None THEN p.first_hour ELSE hour_of(at)
        tranchesFrom == IF p.last_tranche = None THEN from ELSE p.last_tranche + 1
    IN  without_written(
          [tranches_from    |-> tranchesFrom,
           tranches_through |-> Min({at - 1 - Margin, tranchesFrom + MaxTranches - 1}),
           from             |-> from,
           through          |-> Min({hour_of(at), from + (MaxHours - 1) * Hour}),
           freeze_through   |-> hour_of(at - Hour - Margin),
           tvl_hour         |-> hour_of(at),
           at               |-> at], p)

CycleHours(c) == HoursBetween(c.from, c.through)
CycleTranches(c) == c.tranches_from .. c.tranches_through

-----------------------------------------------------------------------------
(* The statements of a cycle, each from the tables it finds to those it     *)
(* leaves; A is what the indexer has stored.                                *)

OfTranches(A, c) == {x \in A : x.at \in CycleTranches(c)}

value_tranche(d, A, c) == [d EXCEPT !.swaps = @ \union OfTranches(A, c)]
value_liquidity_tranche(d, A, c) == [d EXCEPT !.moves = @ \union OfTranches(A, c)]
value_claims_tranche(d, A, c) == [d EXCEPT !.claims = @ \union OfTranches(A, c)]

(* Each tranche with what this release measures in it: rotations, claims. *)
record_tranches(d, c) ==
    [d EXCEPT !.tranches =
        [t \in DOMAIN @ \union CycleTranches(c) |-> t \in CycleTranches(c) \/ @[t]]]

(* The islands of a pool's marked tranches at most RunGap apart, through    *)
(* the last tranche written, whose end is recent.                           *)
Marked(d, p, through) == {x.at : x \in {y \in d.swaps :
    y.pool = p /\ y.marks /\ d.tranches[y.at] /\ y.at <= through}}
Islands(marks) ==
    LET Opens(t)  == ~\E u \in marks : u < t /\ t - u <= RunGap
        Closes(t) == ~\E u \in marks : u > t /\ u - t <= RunGap
    IN  {[start |-> s, last |-> Min({t \in marks : Closes(t) /\ t >= s})] :
            s \in {t \in marks : Opens(t)}}

(* The run of an island.  It is settled, for good, once it is extinct and   *)
(* its last hour has all its tranches.                                      *)
RunOf(d, p, i, through) ==
    LET extinct == i.last + RunGap <= through
    IN  [pool |-> p, start |-> i.start, last |-> i.last,
         swaps |-> {x \in d.swaps : x.pool = p /\ i.start <= x.at /\ x.at <= i.last},
         extinct |-> extinct,
         settled |-> extinct /\ hour_of(i.last) + Hour - 1 <= through]

write_rotation_runs(d, c) ==
    LET kept == {r \in d.runs : r.settled}
        recent == c.tranches_from - Max({RunGap, Hour})
        drawn == UNION {{RunOf(d, p, i, c.tranches_through) :
                           i \in {j \in Islands(Marked(d, p, c.tranches_through)) :
                                    j.last >= recent}} : p \in Pools}
    IN  IF CycleTranches(c) = {} THEN d
        ELSE [d EXCEPT !.runs = kept \union
                {r \in drawn : \A k \in kept :
                    k.pool = r.pool => k.last # r.last /\ k.start # r.start}]

(* The hours of the cycle summed again from the tranches valued. *)
upsert_pool_hourly(d, c) ==
    [d EXCEPT !.hourly =
        [h \in DOMAIN @ \union CycleHours(c) |->
            IF h \in CycleHours(c) THEN InSpan(d.swaps, h, h + Hour) ELSE @[h]]]

(* Every measured protocol's row of an hour sums its pools' rows. *)
upsert_protocol_hourly(d, c) ==
    [d EXCEPT !.protocolHourly =
        [h \in DOMAIN @ \union CycleHours(c) |->
            IF h \in CycleHours(c) THEN d.hourly[h] ELSE @[h]]]

(* No hour before the first whose tranches were all valued with their moves. *)
upsert_liquidity_hourly(d, c) ==
    LET first == MinOr(DOMAIN d.liquidityHourly, hour_of(c.tranches_from + Hour - 1))
        rows == {h \in CycleHours(c) : h >= first}
    IN  [d EXCEPT !.liquidityHourly =
            [h \in DOMAIN @ \union rows |->
                IF h \in rows THEN InSpan(d.moves, h, h + Hour) ELSE @[h]]]

(* Births and position changes are counted on the events themselves. *)
upsert_births(d, A, c) ==
    [d EXCEPT !.births =
        [h \in DOMAIN @ \union CycleHours(c) |->
            IF h \in CycleHours(c) THEN InSpan(A, h, h + Hour) ELSE @[h]]]

(* An hour missing since the last one written is written too, and only an   *)
(* hour of the cycle is written again.                                      *)
upsert_position_changes(d, A, c) ==
    LET first == Least({c.from, After(MaxOr(DOMAIN d.changes, None), Hour)})
        rows == HoursBetween(first, c.through)
    IN  [d EXCEPT !.changes =
            [h \in DOMAIN @ \union rows |->
                IF h \in DOMAIN @ /\ (h < c.from \/ h \notin rows) THEN @[h]
                ELSE InSpan(A, h, h + Hour)]]

record_hours(d, c) == [d EXCEPT !.hours = @ \union CycleHours(c)]

Freezing(c) == IF c.freeze_through = None THEN {}
               ELSE HoursBetween(c.from, c.freeze_through)

freeze(d, c) == [d EXCEPT !.frozen = @ \union (Freezing(c) \intersect d.hours)]

(* The hours of the window that ends with the hour `last'. *)
WindowHours(last) == HoursBetween(last - (Day - 1) * Hour, last)
WindowSwaps(d, last) ==
    UNION {d.hourly[h] : h \in WindowHours(last) \intersect DOMAIN d.hourly}

(* The distinct pools of each window that ends at an hour frozen. *)
write_protocol_periods(d, c) ==
    [d EXCEPT !.periods =
        [h \in DOMAIN @ \union Freezing(c) |->
            IF h \in Freezing(c) THEN {x.pool : x \in WindowSwaps(d, h)} ELSE @[h]]]

VolumeOf(X) ==
    LET mints == UNION {Mints[x.pool] : x \in X}
    IN  [m \in mints |-> MapThenSumSet(LAMBDA x : x.size,
                                       {x \in X : m \in Mints[x.pool]})]

(* A ranking is known by its rows: that of a window without swaps has none. *)
Ranking(last, X) ==
    IF X = {} THEN None ELSE [hour |-> last, volume |-> VolumeOf(X)]

(* The ranking of the window that ends at the last hour frozen, in place    *)
(* of the one before.                                                       *)
write_token_periods(d, c) ==
    IF c.freeze_through = None THEN d
    ELSE [d EXCEPT !.ranking =
            Ranking(c.freeze_through, WindowSwaps(d, c.freeze_through))]

(* The mints our pools' trades gave a price to; the window a price stays a  *)
(* witness for is longer than a behaviour of the model.                     *)
refresh_token_pool_ceilings(d) ==
    [d EXCEPT !.ceilings = UNION {Mints[x.pool] : x \in d.swaps}]

(* A stock is modelled by the instant it was measured at. *)
measure_tvl(d, c) ==
    IF c.tvl_hour = None THEN d
    ELSE [d EXCEPT !.tvl = [h \in DOMAIN @ \union {c.tvl_hour} |->
                              IF h = c.tvl_hour THEN c.at ELSE @[h]]]

(* What was discovered since the reading the change will start from. *)
measure_discovered_tvl(d, c) ==
    LET start == c.tvl_hour - Day * Hour
        since == IF start \in DOMAIN d.tvl THEN d.tvl[start] ELSE start + Hour
    IN  IF c.tvl_hour = None THEN d
        ELSE [d EXCEPT !.discovered = [h \in DOMAIN @ \union {c.tvl_hour} |->
                IF h = c.tvl_hour THEN [since |-> since, at |-> c.at] ELSE @[h]]]

(* The cycle, statement after statement. *)
Written(d0, A, c) ==
    LET d1 == value_claims_tranche(value_liquidity_tranche(value_tranche(d0, A, c), A, c), A, c)
        d2 == write_rotation_runs(record_tranches(d1, c), c)
        d3 == upsert_protocol_hourly(upsert_pool_hourly(d2, c), c)
        d4 == upsert_position_changes(upsert_births(upsert_liquidity_hourly(d3, c), A, c), A, c)
        d5 == freeze(record_hours(d4, c), c)
        d6 == write_token_periods(write_protocol_periods(d5, c), c)
    IN  measure_discovered_tvl(measure_tvl(refresh_token_pool_ceilings(d6), c), c)

(* A tranche or a period already there breaks a primary key: the cycle      *)
(* fails whole.                                                             *)
Duplicate(d, c) ==
    \/ CycleTranches(c) \intersect DOMAIN d.tranches # {}
    \/ Freezing(c) \intersect DOMAIN d.periods # {}

-----------------------------------------------------------------------------
(* The tables before the first cycle of this release: empty, or left by a   *)
(* release that valued no moves, no claims and no rotations, whose position *)
(* changes were filled in when it had frozen one hour less.                 *)

NoRows == [h \in {} |-> {}]

FreshTables ==
    [tranches |-> NoRows, swaps |-> {}, moves |-> {}, claims |-> {}, runs |-> {},
     hours |-> {}, frozen |-> {}, hourly |-> NoRows, protocolHourly |-> NoRows,
     liquidityHourly |-> NoRows, births |-> NoRows, changes |-> NoRows,
     periods |-> NoRows, ranking |-> None, ceilings |-> {}, tvl |-> NoRows,
     discovered |-> NoRows]

OldTables ==
    LET X == InSpan(Txs, 0, 2 * Hour)
        frozen == {0, Hour}
        hours == frozen \union {2 * Hour}
        rows == [h \in hours |-> InSpan(X, h, h + Hour)]
    IN  [FreshTables EXCEPT
            !.tranches = [t \in 0 .. 2 * Hour - 1 |-> FALSE],
            !.swaps = X, !.hours = hours, !.frozen = frozen,
            !.hourly = rows, !.protocolHourly = rows, !.births = rows,
            !.changes = [h \in {0} |-> rows[h]],
            !.periods = [h \in frozen |->
                            {x.pool : x \in InSpan(X, h + Hour - Day * Hour, h + Hour)}],
            !.ranking = Ranking(Hour, InSpan(X, 2 * Hour - Day * Hour, 2 * Hour)),
            !.ceilings = UNION {Mints[x.pool] : x \in X},
            !.tvl = [h \in hours |-> h + Hour - 1],
            !.discovered = [h \in hours |->
                LET start == h - Day * Hour
                IN  [since |-> IF start \in hours THEN start + Hour - 1 ELSE start + Hour,
                     at |-> h + Hour - 1]]]

FactsInit ==
    /\ now = 2 * Hour + Margin
    /\ arrived = {x \in Txs \ Late : x.at <= now}
    /\ \E old \in BOOLEAN :
          /\ db = IF old THEN OldTables ELSE FreshTables
          /\ seen = IF old THEN db.swaps ELSE {}
          /\ current = ~old
    /\ cycle = [w \in Writers |-> None]
    /\ refused = FALSE

(* STATEMENT_TIMEOUT ends, in less than a tranche, a cycle that waits for   *)
(* the lock of another: a plan crosses one boundary at most.                *)
Waits(w, at) == at - cycle[w].at <= 1

(* The clock, and the indexer, which stores a transaction in its tranche or *)
(* at any time after.                                                       *)
Pass == /\ now < LastNow
        /\ \A w \in Writers : cycle[w] # None => Waits(w, now + 1)
        /\ now' = now + 1
        /\ arrived' = arrived \union {x \in Txs \ Late : x.at = now'}
        /\ UNCHANGED <<db, cycle, seen, refused, current>>

Arrive(x) == /\ x \in Late \ arrived /\ x.at <= now
             /\ arrived' = arrived \union {x}
             /\ UNCHANGED <<now, db, cycle, seen, refused, current>>

(* A tick of the worker: the progress is read and the cycle planned. *)
PlanCycle(w) ==
    /\ cycle[w] = None
    /\ cycle' = [cycle EXCEPT ![w] = plan(now, Progress(db))]
    /\ UNCHANGED <<now, arrived, db, seen, refused, current>>

(* Mutation: the cycle is written as it was planned. *)
AsPlanned(w) == cycle[w]

(* The cycle as the transaction writes it: under the lock that keeps the    *)
(* other writers out, the progress is read again.                           *)
Locked(w) == without_written(cycle[w], Progress(db))

(* The transaction of the cycle, whole. *)
WriteCycle(w) ==
    /\ cycle[w] # None
    /\ LET c == Locked(w)
           broken == Duplicate(db, c)
       IN  /\ db' = IF broken THEN db ELSE Written(db, arrived, c)
           /\ seen' = IF broken THEN seen ELSE seen \union OfTranches(arrived, c)
           /\ refused' = (refused \/ broken)
    /\ cycle' = [cycle EXCEPT ![w] = None]
    /\ current' = TRUE
    /\ UNCHANGED <<now, arrived>>

(* A stop drops the cycle in flight and its transaction; so does an error   *)
(* of the database, which is only logged and reported.  The next tick, or   *)
(* the next start, plans again.                                             *)
DropCycle(w) ==
    /\ cycle[w] # None
    /\ cycle' = [cycle EXCEPT ![w] = None]
    /\ UNCHANGED <<now, arrived, db, seen, refused, current>>
=============================================================================
