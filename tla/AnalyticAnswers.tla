-------------------------- MODULE AnalyticAnswers --------------------------
(***************************************************************************)
(* What the API answers from the analytic facts: the period each read      *)
(* covers, the statement that reads its figures, and the services that put *)
(* the two together.  Everything here is a function of the tables a        *)
(* statement finds (`d') and of the rows the request has read before (`r').*)
(* A request of one protocol and one of every protocol read the same rows  *)
(* here: DAMM v2 is the only protocol measured.  The two longer windows    *)
(* are left out: the week differs from the day in its length only, and the *)
(* month is closed whatever the facts hold (CLOSED_WINDOWS).               *)
(***************************************************************************)
EXTENDS AnalyticFacts, TLC

Windows == {"1h", "24h"}
Duration(w) == IF w = "1h" THEN Hour ELSE Day * Hour

-----------------------------------------------------------------------------
(* The period of a read.  An absent row, None, gives no period. *)

(* Mutation: the last hour written is taken for the last one frozen. *)
FrozenHoursUnfiltered(d) ==
    IF d.frozen = {} THEN None
    ELSE [first |-> Min(d.hours), last_frozen |-> Max(d.hours)]

frozen_hours(d) ==
    IF d.frozen = {} THEN None
    ELSE [first |-> Min(d.hours), last_frozen |-> Max(d.frozen)]

written_tranches(d) ==
    IF d.swaps = {} THEN None
    ELSE [first |-> Min({x.at : x \in d.swaps}), through |-> Max(DOMAIN d.tranches) + 1]

(* step: how far the end of the period moves at a time. *)
FrozenPeriod(hours, w, offset) ==
    LET as_of == hours.last_frozen + Hour - offset
    IN  [from |-> as_of - Duration(w), as_of |-> as_of,
         covered_since |-> hours.first, step |-> Hour]

TranchePeriod(as_of, w, since) ==
    [from |-> as_of - Duration(w), as_of |-> as_of,
     covered_since |-> IF since = None THEN as_of ELSE since, step |-> 1]

hour_through(tranches, offset) ==
    TranchePeriod(tranches.through - offset, "1h", tranches.first)

is_covered(p) == p # None /\ p.from >= p.covered_since

ending_at(p, as_of) == [p EXCEPT !.from = as_of - (p.as_of - p.from), !.as_of = as_of]

first_whole_hour(at) == hour_of(at + Hour - 1)

(* Covered from the first tranche or hour of the measure, and only from the *)
(* end of the period on before it is measured.                              *)
measured_from(p, since) ==
    [p EXCEPT !.covered_since =
        IF since = None THEN p.as_of
        ELSE Max({@, IF p.step = Hour THEN first_whole_hour(since) ELSE since})]

build_frozen_period(r, w, offset) ==
    IF r.hours = None THEN None ELSE FrozenPeriod(r.hours, w, offset)

build_last_hour(r) == IF r.tranches = None THEN None ELSE hour_through(r.tranches, 0)

build_read_period(r, w, offset) ==
    IF w # "1h" THEN build_frozen_period(r, w, offset)
    ELSE IF r.tranches = None THEN None ELSE hour_through(r.tranches, offset)

(* Whether the window is open, judged at the end not moved back; the lateness *)
(* of the period, against the clock, is left out.  The windows of the model   *)
(* are none of CLOSED_WINDOWS.                                                *)
Open(w, offset, p, since) ==
    p # None /\ p.as_of + offset >= since + Duration(w) + offset

(* What the envelope says of the period, with the rows of the answer. *)
Envelope(w, offset, p, items) ==
    [period |-> p, open |-> p # None /\ Open(w, offset, p, p.covered_since),
     items |-> items]

(* A series is drawn once the facts cover its window, from the coverage of  *)
(* its own measure on.                                                      *)
DrawnEnvelope(w, p, factsSince, items) ==
    [period |-> p, open |-> p # None /\ Open(w, 0, p, factsSince), items |-> items]

-----------------------------------------------------------------------------
(* Reading a table of hours over a period: its sum, its rows from the       *)
(* coverage on, and its rows by buckets of `width' aligned on the end.      *)

HoursOf(table, p) == {h \in DOMAIN table : p.from <= h /\ h < p.as_of}
SumOf(table, p) == UNION {table[h] : h \in HoursOf(table, p)}
RowsOf(table, p) ==
    [h \in {g \in HoursOf(table, p) : g >= p.covered_since} |-> table[h]]

BucketOf(at, width, p) == p.as_of - ((p.as_of - at + width - 1) \div width) * width
BucketsOf(table, p, width) ==
    LET from(h) == BucketOf(h, width, p)
        starts == {b \in {from(h) : h \in HoursOf(table, p)} : b >= p.covered_since}
    IN  [b \in starts |-> UNION {table[h] : h \in {g \in HoursOf(table, p) : from(g) = b}}]

(* Rows read by tranche: one for each from the coverage on, maybe empty. *)
TranchesOf(X, p) ==
    [t \in Max({p.from, p.covered_since}) .. p.as_of - 1 |-> {x \in X : x.at = t}]
Within(X, p) == InSpan(X, p.from, p.as_of)
OfPool(table, pool) == [h \in DOMAIN table |-> {x \in table[h] : x.pool = pool}]

(* swap_activity.rs *)
find_protocol_totals(d, p) ==
    LET last == p.as_of - Hour
    IN  [swaps |-> SumOf(d.protocolHourly, p),
         pools |-> IF last \in DOMAIN d.periods THEN d.periods[last] ELSE None]
list_protocol_hourly(d, p) == RowsOf(d.protocolHourly, p)
list_protocol_buckets(d, p, width) == BucketsOf(d.protocolHourly, p, width)
find_protocol_totals_in_tranches(d, p) ==
    [swaps |-> Within(d.swaps, p), pools |-> {x.pool : x \in Within(d.swaps, p)}]
list_protocol_tranches(d, p) == TranchesOf(d.swaps, p)
(* A pool's rows start when it was first seen, or at its first fact. *)
find_pool_totals(d, p, pool) == SumOf(OfPool(d.hourly, pool), p)
list_pool_hourly(d, p, pool) == RowsOf(OfPool(d.hourly, pool), p)
list_pool_buckets(d, p, width, pool) == BucketsOf(OfPool(d.hourly, pool), p, width)
PoolFacts(d, pool) == {x \in d.swaps : x.pool = pool}
find_pool_totals_in_tranches(d, p, pool) == Within(PoolFacts(d, pool), p)
list_pool_tranches(d, p, pool) == TranchesOf(PoolFacts(d, pool), p)

(* liquidity_moves.rs; the hours sum, the owners are counted on the moves. *)
moves_measured_since(d) == MinOr(DOMAIN d.liquidityHourly, None)
find_move_totals(d, p) ==
    [moves |-> SumOf(d.liquidityHourly, p), owners |-> Within(d.moves, p)]
list_moves_hourly(d, p) == RowsOf(d.liquidityHourly, p)
list_moves_buckets(d, p, width) == BucketsOf(d.liquidityHourly, p, width)
find_move_totals_in_tranches(d, p) ==
    [moves |-> Within(d.moves, p), owners |-> Within(d.moves, p)]
list_moves_tranches(d, p) == TranchesOf(d.moves, p)

(* claim_totals.rs; the ledger says from which tranche claims, and *)
(* rotations, were measured.                                       *)
ledger_measured_since(d) == MinOr({t \in DOMAIN d.tranches : d.tranches[t]}, None)
claim_totals(d, p) == Within(d.claims, p)
claim_series(d, p, width) ==
    LET starts == {b \in p.from .. p.as_of - 1 :
                      (b - p.from) % width = 0 /\ b >= p.covered_since}
    IN  [b \in starts |-> InSpan(d.claims, b, b + width)]

(* position_change_counts.rs: a bucket without an hour written is no row; *)
(* the last hour is counted on the events stored.                        *)
find_change_totals(d, p) == SumOf(d.changes, p)
find_change_totals_in_tranches(A, p) == Within(A, p)
list_changes_tranches(A, p) == TranchesOf(A, p)
list_changes_frozen(d, p, width) ==
    LET starts == {b \in p.from .. p.as_of - 1 :
                      (b - p.from) % width = 0 /\ b >= p.covered_since}
        rows(b) == {h \in DOMAIN d.changes : b <= h /\ h < b + width}
    IN  [b \in {c \in starts : rows(c) # {}} |-> UNION {d.changes[h] : h \in rows(b)}]

(* pool_creations.rs *)
list_creation_totals(d, p) == SumOf(d.births, p)
list_creation_hourly(d, p) == RowsOf(d.births, p)
list_creation_buckets(d, p, width) == BucketsOf(d.births, p, width)
list_creation_totals_in_tranches(A, p) == Within(A, p)
list_creation_tranches(A, p) == TranchesOf(A, p)

(* protocol_tvl.rs and discovered_tvl.rs: a reading is [hour, at]. *)
Readings(d, hours) == {[hour |-> h, at |-> d.tvl[h]] : h \in hours}
list_latest(d, last) ==
    LET by == {h \in DOMAIN d.tvl : h <= last}
    IN  IF by = {} THEN {} ELSE Readings(d, {Max(by)})
list_tvl_hourly(d, from, last) == Readings(d, {h \in DOMAIN d.tvl : from <= h /\ h <= last})
list_changes(d, last) ==
    {[end |-> l,
      start |-> IF l.hour = last THEN Readings(d, {l.hour - Day * Hour} \intersect DOMAIN d.tvl)
                ELSE {},
      discovered |-> {d.discovered[h] : h \in {l.hour} \intersect DOMAIN d.discovered}] :
        l \in list_latest(d, last)}
list_discovered_totals(d, last) ==
    LET by == {h \in DOMAIN d.discovered : h <= last}
    IN  IF by = {} THEN {} ELSE {d.discovered[Max(by)]}

(* rotation_runs.rs *)
find_written_through(d) == IF DOMAIN d.tranches = {} THEN None ELSE Max(DOMAIN d.tranches) + 1
RunsStarted(d, p) == {r \in d.runs : p.from <= r.start /\ r.start < p.as_of}
find_run_totals(d, p) == RunsStarted(d, p)
(* The volume of each bar, and the runs' part of it from `since' on. *)
SplitBy(rows, d, since) ==
    [b \in DOMAIN rows |->
        [volume |-> rows[b],
         runs |-> IF since # None /\ b >= since
                  THEN {x \in UNION {r.swaps : r \in d.runs} : x \in rows[b]} ELSE None]]
list_run_hourly(d, p, since) == SplitBy(RowsOf(d.protocolHourly, p), d, since)
list_run_buckets(d, p, width, since) == SplitBy(BucketsOf(d.protocolHourly, p, width), d, since)
list_run_tranches(d, p, since) == SplitBy(TranchesOf(d.swaps, p), d, since)

-----------------------------------------------------------------------------
(* The services.  Totals give no row over a period that is not covered      *)
(* whole: {} ; a total that is there is a singleton.                        *)

IfCovered(p, frozen(_), tranches(_)) ==
    IF ~is_covered(p) THEN {}
    ELSE IF p.step = Hour THEN {frozen(p)} ELSE {tranches(p)}

Empty == [b \in {} |-> {}]
(* A series by hour or by day over a frozen period, by tranche over the     *)
(* last hour.                                                               *)
BySeries(p, interval, hourly(_), buckets(_, _), tranches(_)) ==
    IF p = None THEN Empty
    ELSE CASE interval = 1 -> tranches(p)
           [] interval = Hour -> hourly(p)
           [] OTHER -> buckets(p, interval)
fits(interval, w) == (interval = 1) <=> (w = "1h")
\* The steps a request of the window may name; the others are refused.
Intervals(w) == {i \in {1, Hour, Day * Hour} : fits(i, w)}

read_totals(d, p) ==
    IfCovered(p, LAMBDA q : find_protocol_totals(d, q),
                 LAMBDA q : find_protocol_totals_in_tranches(d, q))
get_swap_totals(r, d, w, offset) ==
    LET p == build_read_period(r, w, offset)
        before == IF p = None \/ offset # 0 THEN None ELSE ending_at(p, p.from)
    IN  Envelope(w, offset, p, read_totals(d, p)) @@
        [previous |-> read_totals(d, before), before |-> before]
list_swap_series(r, d, w, i) ==
    LET p == build_read_period(r, w, 0)
    IN  Envelope(w, 0, p, BySeries(p, i, LAMBDA q : list_protocol_hourly(d, q),
            LAMBDA q, v : list_protocol_buckets(d, q, v),
            LAMBDA q : list_protocol_tranches(d, q)))
get_pool_swap_totals(r, d, w, pool) ==
    LET p == build_read_period(r, w, 0)
    IN  Envelope(w, 0, p, IfCovered(p, LAMBDA q : find_pool_totals(d, q, pool),
                                       LAMBDA q : find_pool_totals_in_tranches(d, q, pool)))
list_pool_swap_series(r, d, w, i, pool) ==
    LET p == build_read_period(r, w, 0)
    IN  Envelope(w, 0, p, BySeries(p, i, LAMBDA q : list_pool_hourly(d, q, pool),
            LAMBDA q, v : list_pool_buckets(d, q, v, pool),
            LAMBDA q : list_pool_tranches(d, q, pool)))

Measured(p, since) == IF p = None THEN None ELSE measured_from(p, since)
build_liquidity_read_period(r, w) == Measured(build_read_period(r, w, 0), r.moves_since)
get_liquidity_totals(r, d, w) ==
    LET p == build_liquidity_read_period(r, w)
    IN  Envelope(w, 0, p, IfCovered(p, LAMBDA q : find_move_totals(d, q),
                                       LAMBDA q : find_move_totals_in_tranches(d, q)))
list_liquidity_series(r, d, w, i) ==
    LET facts == build_read_period(r, w, 0)
        p == Measured(facts, r.moves_since)
    IN  DrawnEnvelope(w, p, facts.covered_since,
            BySeries(p, i, LAMBDA q : list_moves_hourly(d, q),
                LAMBDA q, v : list_moves_buckets(d, q, v),
                LAMBDA q : list_moves_tranches(d, q)))

build_claims_period(r, w) == Measured(build_read_period(r, w, 0), r.ledger_since)
get_claim_totals(r, d, w) ==
    LET p == build_claims_period(r, w)
    IN  Envelope(w, 0, p, IfCovered(p, LAMBDA q : claim_totals(d, q),
                                       LAMBDA q : claim_totals(d, q)))
list_claim_series(r, d, w, i) ==
    LET facts == build_read_period(r, w, 0)
        p == Measured(facts, r.ledger_since)
    IN  DrawnEnvelope(w, p, facts.covered_since,
            IF p = None THEN Empty ELSE claim_series(d, p, i))

get_position_change_totals(r, d, A, w) ==
    LET p == build_read_period(r, w, 0)
    IN  Envelope(w, 0, p, IfCovered(p, LAMBDA q : find_change_totals(d, q),
                                       LAMBDA q : find_change_totals_in_tranches(A, q)))
list_position_change_series(r, d, A, w, i) ==
    LET p == build_read_period(r, w, 0)
    IN  Envelope(w, 0, p, BySeries(p, i, LAMBDA q : list_changes_frozen(d, q, Hour),
            LAMBDA q, v : list_changes_frozen(d, q, v),
            LAMBDA q : list_changes_tranches(A, q)))

get_pool_creation_totals(r, d, A, w) ==
    LET p == build_read_period(r, w, 0)
    IN  Envelope(w, 0, p, IfCovered(p, LAMBDA q : list_creation_totals(d, q),
                                       LAMBDA q : list_creation_totals_in_tranches(A, q)))
list_pool_creation_series(r, d, A, w, i) ==
    LET p == build_read_period(r, w, 0)
    IN  Envelope(w, 0, p, BySeries(p, i, LAMBDA q : list_creation_hourly(d, q),
            LAMBDA q, v : list_creation_buckets(d, q, v),
            LAMBDA q : list_creation_tranches(A, q)))

(* The runs are read through the last tranche written, whatever the window, *)
(* and covered a gap after the first tranche measured.                      *)
build_tranche_period(as_of, w, ledger_since) ==
    IF as_of = None THEN None ELSE TranchePeriod(as_of, w, After(ledger_since, RunGap))
find_split_since(r) ==
    IF r.ledger_since = None THEN None ELSE first_whole_hour(r.ledger_since + RunGap)
get_run_totals(r, d, w) ==
    LET p == build_tranche_period(r.through, w, r.ledger_since)
    IN  Envelope(w, 0, p, IF is_covered(p) THEN {find_run_totals(d, p)} ELSE {})
list_run_series(r, d, w, i) ==
    LET p == build_read_period(r, w, 0)
        since == IF w = "1h" THEN After(r.ledger_since, RunGap) ELSE find_split_since(r)
    IN  Envelope(w, 0, p, BySeries(p, i, LAMBDA q : list_run_hourly(d, q, since),
            LAMBDA q, v : list_run_buckets(d, q, v, since),
            LAMBDA q : list_run_tranches(d, q, since)))

(* The stock of a window is read by the last frozen hour, even over `1h'. *)
LastHour(p) == p.as_of - Hour
get_tvl(r, d) ==
    LET p == build_frozen_period(r, "24h", 0)
    IN  Envelope("24h", 0, p, IF p = None THEN {} ELSE list_latest(d, LastHour(p)))
list_tvl_readings(r, d, w) ==
    LET p == build_frozen_period(r, w, 0)
    IN  Envelope(w, 0, p,
            IF p = None THEN {} ELSE list_tvl_hourly(d, p.from - Hour, LastHour(p)))
get_tvl_change(r, d, w) ==
    LET p == build_frozen_period(r, w, 0)
    IN  Envelope(w, 0, p,
            IF p = None THEN {}
            ELSE IF w = "1h"
                 THEN {[end |-> l, start |-> {}, discovered |-> {}] :
                          l \in list_latest(d, LastHour(p))}
                 ELSE list_changes(d, LastHour(p)))
get_discovered_tvl(r, d, w) ==
    LET p == build_frozen_period(r, w, 0)
    IN  Envelope(w, 0, p,
            IF is_covered(p) THEN list_discovered_totals(d, LastHour(p)) ELSE {})

(* The swaps of the window over the stock of the last frozen hour, which a  *)
(* read of the last hour finds with a second read of the hours.             *)
TurnoverSwaps(r, d, w) == read_totals(d, build_read_period(r, w, 0))
get_turnover(r, d, w) ==
    LET p == build_read_period(r, w, 0)
        frozen == CASE r.turnover[w] = {} -> None
                    [] w = "1h" -> build_frozen_period([hours |-> r.hours_again], "24h", 0)
                    [] OTHER -> p
    IN  Envelope(w, 0, p, [swaps |-> r.turnover[w],
                           tvl |-> IF frozen = None THEN {} ELSE list_latest(d, LastHour(frozen))])

list_windows(r) == [w \in Windows |-> Envelope(w, 0, build_read_period(r, w, 0), {})]
=============================================================================
