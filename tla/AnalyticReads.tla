--------------------------- MODULE AnalyticReads ---------------------------
(***************************************************************************)
(* The writers of the analytic facts and a client of the API.  A request   *)
(* runs several statements on a pool of connections, outside any           *)
(* transaction: a cycle may commit between two of them.  The client asks   *)
(* for every measure of a window, whose services share their statements'   *)
(* order (the rows of the period, the start of the measure, the figures),  *)
(* or walks one of the lists, page after page.                             *)
(***************************************************************************)
EXTENDS AnalyticAnswers, Sequences, SequencesExt

CONSTANT Lists      \* the lists a client walks

VARIABLES
    req,            \* the measures asked for: what the statements have read
    walk            \* the walk: the pages read so far and the cursor

readVars == <<req, walk>>
vars == <<factVars, readVars>>

-----------------------------------------------------------------------------
(* The statements a request runs before the one that reads its figures. *)

Rows(d) == [hours |-> frozen_hours(d), tranches |-> written_tranches(d),
            through |-> find_written_through(d)]

Ask ==
    /\ req = None /\ walk = None
    /\ req' = [step |-> "rows"] @@ Rows(db)
    /\ UNCHANGED <<factVars, walk>>

(* The start of each measure; the turnover reads its swaps here, and the    *)
(* hours again: two statements of its own, here one step.                   *)
AskSince ==
    /\ req # None /\ req.step = "rows"
    /\ req' = [moves_since |-> moves_measured_since(db),
               ledger_since |-> ledger_measured_since(db),
               turnover |-> [w \in Windows |-> TurnoverSwaps(req, db, w)],
               hours_again |-> frozen_hours(db)]
              @@ [req EXCEPT !.step = "since"]
    /\ UNCHANGED <<factVars, walk>>

SwapAnswers(r, d, w) ==
    [totals |-> get_swap_totals(r, d, w, 0),
     moved |-> get_swap_totals(r, d, w, Duration(w)),
     series |-> [i \in Intervals(w) |-> list_swap_series(r, d, w, i)],
     pools |-> [p \in Pools |-> get_pool_swap_totals(r, d, w, p)],
     poolSeries |-> [p \in Pools |-> [i \in Intervals(w) |-> list_pool_swap_series(r, d, w, i, p)]]]
MoveAnswers(r, d, w) ==
    [totals |-> get_liquidity_totals(r, d, w),
     series |-> [i \in Intervals(w) |-> list_liquidity_series(r, d, w, i)]]
ClaimAnswers(r, d, w) ==
    [totals |-> get_claim_totals(r, d, w),
     series |-> [i \in Intervals(w) |-> list_claim_series(r, d, w, i)]]
ChangeAnswers(r, d, A, w) ==
    [totals |-> get_position_change_totals(r, d, A, w),
     series |-> [i \in Intervals(w) |-> list_position_change_series(r, d, A, w, i)]]
CreationAnswers(r, d, A, w) ==
    [totals |-> get_pool_creation_totals(r, d, A, w),
     series |-> [i \in Intervals(w) |-> list_pool_creation_series(r, d, A, w, i)]]
RunAnswers(r, d, w) ==
    [totals |-> get_run_totals(r, d, w),
     series |-> [i \in Intervals(w) |-> list_run_series(r, d, w, i)]]
TvlAnswers(r, d, w) ==
    [current |-> get_tvl(r, d), readings |-> list_tvl_readings(r, d, "24h"),
     change |-> get_tvl_change(r, d, w)]
DiscoveryAnswer(r, d) == get_discovered_tvl(r, d, "24h")
TurnoverAnswer(r, d, w) == get_turnover(r, d, w)
WindowsAnswer(r) == list_windows(r)

(* What the last statement of each service gives, run on the tables d. *)
Answers(r, d, A, w) ==
    [swaps |-> SwapAnswers(r, d, w), moves |-> MoveAnswers(r, d, w),
     claims |-> ClaimAnswers(r, d, w), changes |-> ChangeAnswers(r, d, A, w),
     creations |-> CreationAnswers(r, d, A, w), runs |-> RunAnswers(r, d, w),
     tvl |-> TvlAnswers(r, d, w), discovery |-> DiscoveryAnswer(r, d),
     turnover |-> TurnoverAnswer(r, d, w), windows |-> WindowsAnswer(r)]

(* The client is sent the Answers of its window, of which the API keeps     *)
(* nothing.                                                                 *)
Reply ==
    /\ req # None /\ req.step = "since"
    /\ req' = None
    /\ UNCHANGED <<factVars, walk>>

-----------------------------------------------------------------------------
(* The lists.  An item is the key it is ordered by, greatest first, and     *)
(* what it is about; a page holds one item, and its cursor is the item and  *)
(* the end of the period, or the hour of the ranking, it was read over.     *)

Items(volume) == {[key |-> <<volume[m], -m, 0>>, of |-> m] : m \in DOMAIN volume}
Before(i, j) == \E n \in 1 .. 3 : /\ i.key[n] > j.key[n]
                                  /\ \A k \in 1 .. n - 1 : i.key[k] = j.key[k]
Beyond(S, cursor) == IF cursor = None THEN S ELSE {i \in S : Before(cursor, i)}
(* PageBuilder: one item more than the page is read, to know whether it is  *)
(* the last.                                                                *)
Page(S, cursor) ==
    LET left == Beyond(S, cursor)
    IN  IF left = {} THEN [item |-> None, last |-> TRUE]
        ELSE [item |-> CHOOSE i \in left : \A j \in left \ {i} : Before(i, j),
              last |-> Cardinality(left) = 1]

list_tokens(d, cursor) == Page(Items(d.ranking.volume), cursor)
list_tokens_in_tranches(d, p, cursor) == Page(Items(VolumeOf(Within(d.swaps, p))), cursor)
(* The signature and the event's index are in the order of the ids.         *)
MoveItems(X, order) ==
    {[key |-> IF order = "amount" THEN <<x.size, x.at, -x.id>> ELSE <<x.at, -x.id, 0>>,
      of |-> x.id] : x \in X}
list_moves(d, p, order, cursor) == Page(MoveItems(Within(d.moves, p), order), cursor)
RunItem(pool, start) == [key |-> <<start, -pool, 0>>, of |-> <<pool, start>>]
RunItems(R) == {RunItem(r.pool, r.start) : r \in R}
list_runs(d, p, cursor) == Page(RunItems(RunsStarted(d, p)), cursor)

TokenList(l) == l.of = "tokens"

StartWalk(l) ==
    /\ req = None /\ walk = None
    /\ walk' = [list |-> l, end |-> None, cursor |-> None, got |-> <<>>, step |-> "ask",
                read |-> None]
    /\ UNCHANGED <<factVars, req>>

TakePage(end, page) ==
    walk' = [walk EXCEPT
        !.end = end,
        !.got = IF page.item = None THEN @ ELSE Append(@, page.item),
        !.cursor = page.item,
        !.read = None,
        !.step = IF page.last THEN "ended" ELSE "ask"]
(* A page whose period is not covered, or without a period or a ranking, is *)
(* empty, and a cursor that is refused ends the walk.                       *)
NoPage == walk' = None
RefuseCursor == walk' = None

(* Mutation: a cursor of another ranking is read in this one. *)
AnyRanking(end, hour) == FALSE

(* The ranking a cursor was taken in was rewritten since. *)
CursorExpired(end, hour) == end # None /\ end # hour

(* The frozen ranking and its hour are one statement; the first hour is     *)
(* read after it.                                                           *)
RankedPage ==
    /\ walk # None /\ walk.step = "ask" /\ TokenList(walk.list) /\ walk.list.window # "1h"
    /\ IF db.ranking = None THEN NoPage
       ELSE IF CursorExpired(walk.end, db.ranking.hour) THEN RefuseCursor
       ELSE walk' = [walk EXCEPT !.step = "page",
                !.read = [page |-> list_tokens(db, walk.cursor), hour |-> db.ranking.hour]]
    /\ UNCHANGED <<factVars, req>>

RankedPeriod ==
    /\ walk # None /\ walk.step = "page" /\ TokenList(walk.list) /\ walk.list.window # "1h"
    /\ LET hours == frozen_hours(db)
           p == FrozenPeriod([hours EXCEPT !.last_frozen = walk.read.hour], "24h", 0)
       IN  IF is_covered(p) THEN TakePage(walk.read.hour, walk.read.page) ELSE NoPage
    /\ UNCHANGED <<factVars, req>>

(* The other lists read their period first: the moves and the last hour's   *)
(* tokens through the services' rows, the runs through the last tranche.    *)
WalkRows ==
    /\ walk # None /\ walk.step = "ask"
    /\ ~(TokenList(walk.list) /\ walk.list.window # "1h")
    /\ walk' = [walk EXCEPT !.step = "rows", !.read = Rows(db)]
    /\ UNCHANGED <<factVars, req>>

HourTokens ==
    /\ walk # None /\ walk.step = "rows" /\ TokenList(walk.list)
    /\ LET p == build_last_hour(walk.read)
       IN  IF p = None THEN NoPage
           ELSE IF CursorExpired(walk.end, p.as_of) THEN RefuseCursor
           ELSE IF is_covered(p)
           THEN TakePage(p.as_of, list_tokens_in_tranches(db, p, walk.cursor))
           ELSE NoPage
    /\ UNCHANGED <<factVars, req>>

(* How far behind the latest end a cursor's end may be. *)
CursorEndMargin == Hour

WalkSince ==
    /\ walk # None /\ walk.step = "rows" /\ ~TokenList(walk.list)
    /\ walk' = [walk EXCEPT !.step = "since",
                            !.read = @ @@ [moves_since |-> moves_measured_since(db),
                                           ledger_since |-> ledger_measured_since(db)]]
    /\ UNCHANGED <<factVars, req>>

(* A later page of moves is read over its first page's end. *)
MovePage ==
    /\ walk # None /\ walk.step = "since" /\ walk.list.of = "moves"
    /\ LET latest == build_liquidity_read_period(walk.read, walk.list.window)
           behind == latest.as_of - walk.end
           p == IF latest = None \/ walk.end = None THEN latest ELSE ending_at(latest, walk.end)
       IN  IF latest # None /\ walk.end # None
              /\ (behind < 0 \/ behind > CursorEndMargin \/ behind % latest.step # 0)
           THEN RefuseCursor
           ELSE IF is_covered(p)
           THEN TakePage(p.as_of, list_moves(db, p, walk.list.order, walk.cursor))
           ELSE NoPage
    /\ UNCHANGED <<factVars, req>>

(* The runs by their start, the most recent first. *)
RunPage ==
    /\ walk # None /\ walk.step = "since" /\ walk.list.of = "runs"
    /\ LET through == walk.read.through
           as_of == IF walk.end = None THEN through ELSE walk.end
           p == build_tranche_period(as_of, walk.list.window, walk.read.ledger_since)
       IN  IF walk.end # None
              /\ (through = None \/ walk.end > through \/ walk.end < through - CursorEndMargin)
           THEN RefuseCursor
           ELSE IF is_covered(p) THEN TakePage(p.as_of, list_runs(db, p, walk.cursor))
           ELSE NoPage
    /\ UNCHANGED <<factVars, req>>

LeaveWalk == /\ walk # None /\ walk.step = "ended"
             /\ walk' = None
             /\ UNCHANGED <<factVars, req>>

-----------------------------------------------------------------------------
(* REQUEST_TIMEOUT is a thirtieth of a tranche, and no statement reads the  *)
(* clock: the end of a tranche is taken between two requests.               *)
InFlight == req # None \/ (walk # None /\ walk.step \notin {"ask", "ended"})
Clock == Pass /\ ~InFlight /\ UNCHANGED readVars

Writer(w) == (PlanCycle(w) \/ WriteCycle(w) \/ DropCycle(w)) /\ UNCHANGED readVars

Init == FactsInit /\ req = None /\ walk = None

Next == \/ Clock
        \/ \E x \in Txs : Arrive(x) /\ UNCHANGED readVars
        \/ \E w \in Writers : Writer(w)
        \/ Ask
        \/ \E l \in Lists : StartWalk(l)
        \/ AskSince \/ Reply
        \/ RankedPage \/ RankedPeriod \/ WalkRows \/ HourTokens \/ WalkSince
        \/ MovePage \/ RunPage \/ LeaveWalk

Spec == Init /\ [][Next]_vars

-----------------------------------------------------------------------------
(* The reference: what was stored when each tranche was valued. *)

Whole(from, end) == InSpan(seen, from, end)
WholeOf(p) == Whole(p.from, p.as_of)

(* The starts of a pool's runs: a marked tranche with none in the gap       *)
(* before it, measured by this release or not.                              *)
MarksOf(p) == {x.at : x \in {y \in seen : y.pool = p /\ y.marks}}
StartsOf(p) == {t \in MarksOf(p) : \A u \in MarksOf(p) : u < t => t - u > RunGap}
InRun(x) == \E s, t \in MarksOf(x.pool) : s <= x.at /\ x.at <= t /\ t - s <= RunGap

(* What a cycle freezes is whole and stays right: no cycle ever values a     *)
(* tranche or counts a window twice; a frozen hour has all its tranches, and *)
(* its figures are everything stored when they were valued; its window's     *)
(* pools are those figures', the ranking is that of the last hour frozen and *)
(* missing only if its window has no pool; a settled run holds every swap    *)
(* from its start to its end, and no later mark continues it                 *)
(* (core/src/domain/analytic/model.rs:48, persistence analytic.rs:36).       *)
FactsAreWhole ==
    /\ ~refused
    /\ \A h \in db.frozen :
          /\ h .. h + Hour - 1 \subseteq DOMAIN db.tranches
          /\ db.hourly[h] = Whole(h, h + Hour) /\ db.protocolHourly[h] = db.hourly[h]
          /\ h \in DOMAIN db.liquidityHourly => db.liquidityHourly[h] = Whole(h, h + Hour)
          /\ Whole(h, h + Hour) \subseteq db.births[h]
          /\ h \in DOMAIN db.changes => Whole(h, h + Hour) \subseteq db.changes[h]
          /\ current => h \in DOMAIN db.changes
          /\ h \in DOMAIN db.periods
          /\ db.periods[h] = {x.pool : x \in UNION {db.hourly[g] :
                                  g \in WindowHours(h) \intersect db.hours}}
          /\ h = Max(db.frozen) => IF db.periods[h] = {} THEN db.ranking = None
                                   ELSE db.ranking.hour = h
    /\ \A r \in db.runs : r.settled =>
          /\ r.swaps = {x \in Whole(r.start, r.last + 1) : x.pool = r.pool}
          /\ \A t \in MarksOf(r.pool) : ~(r.last < t /\ t <= r.last + RunGap)

(* Totals, series and counts against what their period holds.                *)
TotalsStand(a, V(_)) == /\ a.open <=> a.items # {}
                        /\ \A v \in a.items : V(v) = WholeOf(a.period)
SeriesStands(a, i) ==
    a.period # None =>
        /\ \A b \in DOMAIN a.items : a.items[b] = Whole(b, b + i)
        /\ DOMAIN a.items = {b \in a.period.from .. a.period.as_of - 1 :
                (b - a.period.from) % i = 0 /\ b >= a.period.covered_since}
CountsStand(a, i) ==
    a.period # None =>
        \A b \in DOMAIN a.items : Whole(b, b + i) \subseteq a.items[b]
Same(v) == v

SwapsStand(a) ==
    /\ TotalsStand(a.totals, LAMBDA v : v.swaps)
    /\ \A v \in a.totals.items : v.pools = {x.pool : x \in WholeOf(a.totals.period)}
    /\ \A v \in a.totals.previous : v.swaps = WholeOf(a.totals.before)
    /\ TotalsStand(a.moved, LAMBDA v : v.swaps)
    /\ \A i \in DOMAIN a.series : SeriesStands(a.series[i], i)
    /\ \A p \in Pools : LET t == a.pools[p] IN
          \A v \in t.items : v = {x \in WholeOf(t.period) : x.pool = p}
    /\ \A p \in Pools : \A i \in DOMAIN a.poolSeries[p] : LET s == a.poolSeries[p][i] IN
          s.period # None =>
              \A b \in DOMAIN s.items : s.items[b] = {x \in Whole(b, b + i) : x.pool = p}

ChangeOfTvlStands(v) ==
    \A d \in v.discovered, s \in v.start : d.since = s.at /\ d.at = v.end.at

(* Whenever the last statement of a request runs, and whatever cycles were   *)
(* committed since the first, each figure of the answer is what its period   *)
(* and its coverage say: everything stored when those tranches were valued.  *)
(* A window that says it is open has its figures.  The counts read on the    *)
(* events themselves hold at least that.  A change of the TVL counts what    *)
(* was discovered from the very reading it starts at                         *)
(* (period.rs:216, swap_activity_service.rs:137, liquidity_move_service.rs). *)
AnswersStand ==
    req # None /\ req.step = "since" => \A w \in Windows :
        LET a == Answers(req, db, arrived, w) IN
        /\ SwapsStand(a.swaps)
        /\ TotalsStand(a.moves.totals, LAMBDA v : v.moves)
        /\ \A v \in a.moves.totals.items : v.owners = v.moves
        /\ \A i \in DOMAIN a.moves.series : SeriesStands(a.moves.series[i], i)
        /\ TotalsStand(a.claims.totals, Same)
        /\ \A i \in DOMAIN a.claims.series : SeriesStands(a.claims.series[i], i)
        /\ current =>
              /\ \A v \in a.changes.totals.items : WholeOf(a.changes.totals.period) \subseteq v
              /\ \A i \in DOMAIN a.changes.series : CountsStand(a.changes.series[i], i)
        /\ \A v \in a.creations.totals.items : WholeOf(a.creations.totals.period) \subseteq v
        /\ \A i \in DOMAIN a.creations.series : CountsStand(a.creations.series[i], i)
        /\ LET t == a.runs.totals IN
            \A v \in t.items : {<<r.pool, r.start>> : r \in v} =
                {run \in Pools \X (t.period.from .. t.period.as_of - 1) : run[2] \in StartsOf(run[1])}
        /\ \A i \in DOMAIN a.runs.series : \A b \in DOMAIN a.runs.series[i].items :
              LET bar == a.runs.series[i].items[b] IN
              /\ bar.volume = Whole(b, b + i)
              /\ bar.runs # None => bar.runs = {x \in bar.volume : InRun(x)}
        /\ \A v \in a.tvl.change.items : ChangeOfTvlStands(v)
        /\ \A v \in a.turnover.items.swaps : v.swaps = WholeOf(a.turnover.period)
        /\ a.windows[w].open = a.swaps.totals.open

(* What a list holds of the period that ends at end.                         *)
Collection(l, end) ==
    LET from == end - Duration(l.window)
    IN  CASE l.of = "tokens" /\ l.window = "24h" ->
                Items(VolumeOf(Whole(end + Hour - Day * Hour, end + Hour)))
          [] l.of = "tokens" /\ l.window = "1h" -> Items(VolumeOf(Whole(from, end)))
          [] l.of = "moves" -> MoveItems(Whole(from, end), l.order)
          [] l.of = "runs" -> {RunItem(run[1], run[2]) :
                run \in {r \in Pools \X (from .. end - 1) : r[2] \in StartsOf(r[1])}}

(* A walk that reaches its last page has listed one collection, whole and    *)
(* once, in order, though cycles were written between its pages: the ranking *)
(* of one hour, the moves of one period, the runs started in one.  A walk    *)
(* that cannot is refused (swap_activity_service.rs:71,                      *)
(* liquidity_move_service.rs:139, rotation_run_service.rs:118).              *)
WalkIsOneList ==
    walk # None /\ walk.step = "ended" =>
        /\ Range(walk.got) = Collection(walk.list, walk.end)
        /\ \A i \in 1 .. Len(walk.got) - 1 : Before(walk.got[i], walk.got[i + 1])

(* No tick is idle while an hour is due: whatever the cycles before it left, *)
(* stale ones and dropped ones included, a cycle planned now values tranches *)
(* or freezes an hour as long as an hour closed for the margin is not frozen.*)
(* Both are bounded by the clock, so what an outage left behind is caught up *)
(* (core/src/domain/analytic/model.rs:48, worker.rs:36).                     *)
CyclesCatchUp ==
    db.hours # {} =>
        LET c == plan(now, Progress(db))
            due == HoursBetween(Min(db.hours), hour_of(now - Hour - Margin))
        IN  due \subseteq db.frozen \/ CycleTranches(c) # {} \/ Freezing(c) # {}
=============================================================================
