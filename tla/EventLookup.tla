---------------------------- MODULE EventLookup -----------------------------
(***************************************************************************)
(* The event lists of the API over the tables the indexer writes (crates/  *)
(* api/src/http/handlers, crates/api/src/application/services and crates/  *)
(* persistence/src/repositories/<collection>_event.rs): a client walks one *)
(* collection page by page while rows are still inserted.                  *)
(*                                                                         *)
(* A merged list and the swaps read in two statements, and rows may land   *)
(* between them.                                                           *)
(***************************************************************************)
EXTENDS EventStore, SequencesExt

CONSTANTS
    Limit,          \* the page size asked for
    WindowLength,   \* the length of each window
    Margin          \* CURSOR_WINDOW_MARGIN

ASSUME PagesAssumption ==
    /\ Limit \in Nat \ {0}
    /\ \A c \in Scenarios :
          /\ DOMAIN c.history \subseteq Nat \ {0}
          /\ \A s \in DOMAIN c.history : c.history[s].at \in Nat
          /\ \A w \in c.walks : w.collection \in Collections

VARIABLE reader

lookupVars == <<storeVars, reader>>

None == [at |-> 0, signature |-> 0, event_index |-> 0]

\* The root list, a protocol's, and a pool's.
AllScope == [of |-> "all", pool |-> 0]
DammV2Scope == [of |-> "meteora_damm_v2", pool |-> 0]
DlmmScope == [of |-> "meteora_dlmm", pool |-> 0]
PoolScope(p) == [of |-> "pool", pool |-> p]

-----------------------------------------------------------------------------
(* The routes: the scopes of each collection and the windows it serves.    *)

PoolScopes == {PoolScope(p) : p \in Pools}
ProtocolScopes == {DammV2Scope, DlmmScope}

SwapRoutes == {AllScope} \cup ProtocolScopes \cup PoolScopes
LiquidityChangeRoutes == {AllScope} \cup ProtocolScopes \cup PoolScopes
\* No list of one pool: it has one creation.
PoolCreationRoutes == {AllScope} \cup ProtocolScopes
PositionChangeRoutes == {AllScope} \cup ProtocolScopes \cup PoolScopes
PositionFeeClaimRoutes == {AllScope} \cup ProtocolScopes \cup PoolScopes
ProtocolFeeClaimRoutes == {AllScope} \cup ProtocolScopes \cup PoolScopes
RewardClaimRoutes == {AllScope} \cup ProtocolScopes \cup PoolScopes
RewardChangeRoutes == {AllScope} \cup ProtocolScopes \cup PoolScopes
PoolChangeRoutes == {AllScope} \cup ProtocolScopes \cup PoolScopes

Listed ==
    [swaps |-> SwapRoutes, liquidity_changes |-> LiquidityChangeRoutes,
     pool_creations |-> PoolCreationRoutes, position_changes |-> PositionChangeRoutes,
     position_fee_claims |-> PositionFeeClaimRoutes,
     protocol_fee_claims |-> ProtocolFeeClaimRoutes, reward_claims |-> RewardClaimRoutes,
     reward_changes |-> RewardChangeRoutes, pool_changes |-> PoolChangeRoutes]

\* Raw swaps are kept a week, and listed over a day but for a pool's.
ServedWindows(c, scope) ==
    CASE c # "swaps" -> {"day", "week", "month"}
      [] c = "swaps" /\ scope.of = "pool" -> {"day", "week"}
      [] c = "swaps" /\ scope.of # "pool" -> {"day"}

LONGEST(c, scope) ==
    CHOOSE w \in ServedWindows(c, scope) :
       \A v \in ServedWindows(c, scope) : WindowLength[v] <= WindowLength[w]

-----------------------------------------------------------------------------
(* One page.                                                               *)

Older(a, b) ==
    \/ a.signature < b.signature
    \/ a.signature = b.signature /\ a.event_index < b.event_index

\* Strictly after the key: the instant, then the signature and the index.
AfterKey(row, key) ==
    \/ key = None
    \/ row.timestamp < key.at
    \/ row.timestamp = key.at /\ Older(row, key)

\* Newest first, each row placed by the number of those before it.
Precedes(a, b) ==
    \/ a.timestamp > b.timestamp
    \/ a.timestamp = b.timestamp /\ Older(b, a)
Sorted(rows) ==
    [i \in 1 .. Cardinality(rows) |->
        CHOOSE row \in rows : Cardinality({a \in rows : Precedes(a, row)}) = i - 1]

FirstOf(seq, n) == SubSeq(seq, 1, IF n < Len(seq) THEN n ELSE Len(seq))

\* The rows of a table a page reads: a pool's or every one's, of the window and
\* after the key.
Readable(kind, scope, from, key) ==
    {row \in tables :
       /\ row.kind = kind
       /\ scope.of = "pool" => row.pool = scope.pool
       /\ row.timestamp >= from
       /\ AfterKey(row, key)}

\* The lists of one table, one row past the page.
OneTable(kind, scope, from, key) == FirstOf(Sorted(Readable(kind, scope, from, key)), Limit + 1)

LiquidityChanges(scope, from, key) == OneTable("liquidity_change", scope, from, key)
PoolCreations(scope, from, key) == OneTable("initialize_pool", scope, from, key)
PositionFeeClaims(scope, from, key) == OneTable("claim_position_fee", scope, from, key)
ProtocolFeeClaims(scope, from, key) == OneTable("claim_protocol_fee", scope, from, key)
RewardClaims(scope, from, key) == OneTable("claim_reward", scope, from, key)

\* The swaps, in two reads: the instant of the last one the page may need, by
\* the instant alone, then the ones from it on, read anew.
SwapFloor(scope, from, key) ==
    LET rows == Sorted(Readable("swap2", scope, from, key))
    IN IF Len(rows) <= Limit THEN from ELSE rows[Limit + 1].timestamp
Swaps(scope, from, key, floor) ==
    FirstOf(Sorted({row \in Readable("swap2", scope, from, key) : row.timestamp >= floor}),
            Limit + 1)

\* The merged lists: the keys of each table, cut, then merged and cut.
MergedKeys(kinds, scope, from, key) ==
    FirstOf(Sorted(UNION {ToSet(OneTable(kind, scope, from, key)) : kind \in kinds}), Limit + 1)
PositionChangeKeys(scope, from, key) == MergedKeys(PositionChangeTables, scope, from, key)
RewardChangeKeys(scope, from, key) == MergedKeys(RewardChangeTables, scope, from, key)
PoolChangeKeys(scope, from, key) == MergedKeys(PoolChangeTables, scope, from, key)

\* Then their rows, table by table within the instants of the keys, in the order
\* of the keys.
RowsOfKeys(kind, keys) ==
    {row \in tables :
       /\ row.kind = kind
       /\ row \in ToSet(keys)
       /\ \E first, last \in ToSet(keys) :
             first.timestamp <= row.timestamp /\ row.timestamp <= last.timestamp}
\* A key without its row would be an integrity error: no row is ever deleted.
InKeyOrder(keys, rows) == Selected(keys, {k \in DOMAIN keys : keys[k] \in rows})
PositionChanges(keys) ==
    InKeyOrder(keys, UNION {RowsOfKeys(kind, keys) : kind \in PositionChangeTables})
RewardChanges(keys) ==
    InKeyOrder(keys, UNION {RowsOfKeys(kind, keys) : kind \in RewardChangeTables})
PoolChanges(keys) ==
    InKeyOrder(keys, UNION {RowsOfKeys(kind, keys) : kind \in PoolChangeTables})

\* Mutation: the cursor is that of the row past the page.
FinishEventPagePast(rows) ==
    [items |-> FirstOf(rows, Limit),
     next |-> IF Len(rows) > Limit
              THEN [at |-> rows[Limit + 1].timestamp, signature |-> rows[Limit + 1].signature,
                    event_index |-> rows[Limit + 1].event_index]
              ELSE None]

\* The page: one row past the limit says there is more, and the cursor is the
\* last item's. Forward only.
FinishEventPage(rows) ==
    [items |-> FirstOf(rows, Limit),
     next |-> IF Len(rows) > Limit
              THEN [at |-> rows[Limit].timestamp, signature |-> rows[Limit].signature,
                    event_index |-> rows[Limit].event_index]
              ELSE None]

-----------------------------------------------------------------------------
(* The walk: ghosts are what was shown, and what was there at its start.   *)

Away == [phase |-> "away", collection |-> "none", scope |-> AllScope, from |-> 0,
         cursor |-> None, mid |-> <<>>, seen |-> <<>>, present |-> {}]

LookupInit == StoreInit /\ reader = Away

\* Now or at its first page, less the window.
WindowStart(window) == IF now > WindowLength[window] THEN now - WindowLength[window] ELSE 0

Shown(rows, r) ==
    LET page == FinishEventPage(rows)
    IN [r EXCEPT !.phase = IF page.next = None THEN "done" ELSE "walking",
                 !.cursor = page.next, !.mid = <<>>, !.seen = @ \o page.items]

Reading(mid, r) == [r EXCEPT !.phase = "reading", !.mid = mid]

\* A list of one table is read at once, the swaps and the merged ones in two.
\* Of DLMM there is nothing yet.
FirstRead(r) ==
    LET c == r.collection
    IN CASE r.scope = DlmmScope -> Shown(<<>>, r)
         [] r.scope # DlmmScope /\ c = "swaps" ->
              Reading(<<SwapFloor(r.scope, r.from, r.cursor)>>, r)
         [] r.scope # DlmmScope /\ c = "position_changes" ->
              Reading(PositionChangeKeys(r.scope, r.from, r.cursor), r)
         [] r.scope # DlmmScope /\ c = "reward_changes" ->
              Reading(RewardChangeKeys(r.scope, r.from, r.cursor), r)
         [] r.scope # DlmmScope /\ c = "pool_changes" ->
              Reading(PoolChangeKeys(r.scope, r.from, r.cursor), r)
         [] r.scope # DlmmScope /\ c = "liquidity_changes" ->
              Shown(LiquidityChanges(r.scope, r.from, r.cursor), r)
         [] r.scope # DlmmScope /\ c = "pool_creations" ->
              Shown(PoolCreations(r.scope, r.from, r.cursor), r)
         [] r.scope # DlmmScope /\ c = "position_fee_claims" ->
              Shown(PositionFeeClaims(r.scope, r.from, r.cursor), r)
         [] r.scope # DlmmScope /\ c = "protocol_fee_claims" ->
              Shown(ProtocolFeeClaims(r.scope, r.from, r.cursor), r)
         [] r.scope # DlmmScope /\ c = "reward_claims" ->
              Shown(RewardClaims(r.scope, r.from, r.cursor), r)

\* The first page: an unknown pool is not found, the window ends now.
ListEvents(c, scope, window) ==
    /\ reader = Away
    /\ scope \in Listed[c]
    /\ window \in ServedWindows(c, scope)
    /\ LET from == WindowStart(window)
           r == [Away EXCEPT !.collection = c, !.scope = scope, !.from = from,
                             !.present = UNION {Readable(kind, scope, from, None) :
                                                   kind \in IF scope = DlmmScope THEN {}
                                                            ELSE Tables[c]}]
       IN reader' = IF scope.of = "pool" /\ ~KnownPool(pools, scope.pool)
                    THEN [r EXCEPT !.phase = "not_found"]
                    ELSE FirstRead(r)
    /\ UNCHANGED storeVars

\* A cursor before its own window is refused, and one whose window no list
\* serves any more.
CursorServed(r) ==
    /\ r.cursor.at >= r.from
    /\ r.from + WindowLength[LONGEST(r.collection, r.scope)] + Margin >= now

NextPage ==
    /\ reader.phase = "walking"
    /\ reader' = IF CursorServed(reader) THEN FirstRead(reader)
                 ELSE [reader EXCEPT !.phase = "refused"]
    /\ UNCHANGED storeVars

SecondRead ==
    /\ reader.phase = "reading"
    /\ LET r == reader
       IN reader' = Shown(CASE r.collection = "swaps" ->
                                 Swaps(r.scope, r.from, r.cursor, r.mid[1])
                            [] r.collection = "position_changes" -> PositionChanges(r.mid)
                            [] r.collection = "reward_changes" -> RewardChanges(r.mid)
                            [] r.collection = "pool_changes" -> PoolChanges(r.mid), r)
    /\ UNCHANGED storeVars

LookupNext ==
    \/ StoreNext /\ UNCHANGED reader
    \/ \E w \in scenario.walks : ListEvents(w.collection, w.scope, w.window)
    \/ NextPage
    \/ SecondRead

Spec == LookupInit /\ [][LookupNext]_lookupVars

-----------------------------------------------------------------------------

\* A walk shows each row of its scope and window that was there at its first
\* page once, in one order, though rows are inserted between its pages and
\* between the two reads of a page: the keyset cursor, the floor of the swaps
\* and the merge lose and repeat nothing.
WalkIsWhole ==
    LET seen == reader.seen
    IN /\ \A j, k \in DOMAIN seen : j < k => Precedes(seen[j], seen[k])
       /\ reader.phase = "done" => reader.present \subseteq ToSet(seen)

\* What is shown is what the chain emitted: each number of the answer is one
\* wire number of that payload, no two of them the same one, none past what
\* its column holds, an end of rewards is left out only when no date tells it,
\* and a swap's sold side is what went in.
ReadsAsEmitted ==
    \A row \in ToSet(reader.seen) :
       LET p == PayloadAt(row.signature, row.event_index)
           shown == Response(row.kind, ReadRow(row.kind, row.stored), p.far)
           emitted == WireEvent(p.kind)
       IN /\ p.kind = row.kind
          /\ \A f \in DOMAIN shown :
                \/ shown[f] \in DOMAIN emitted
                \/ f = "rewardDurationEnd" /\ "reward_duration_end" \in p.far
          /\ row.kind = "fund_reward" /\ "reward_duration_end" \in p.far =>
                shown.rewardDurationEnd = NoDate
          /\ \A f, g \in DOMAIN shown : f # g => shown[f] # shown[g]
          /\ \A f \in DOMAIN shown :
                shown[f] \in p.beyond => shown[f] \in Mirrors[p.kind].u128 \cup {NoDate}
          /\ row.kind = "swap2" =>
                (IF p.enums.direction = "AtoB" THEN shown.amountA ELSE shown.amountB)
                   = "included_transfer_fee_amount_in"
=============================================================================
