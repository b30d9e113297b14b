------------------------------ MODULE LiveFeed ------------------------------
(***************************************************************************)
(* The live end of the collections (crates/api/src/application/live and    *)
(* crates/api/src/http/handlers/live.rs): one poller per table walks it by *)
(* id while somebody listens and broadcasts each new row on its topic; a   *)
(* connection subscribes to the topics it names and ends when it can no    *)
(* longer follow one of them.                                              *)
(*                                                                         *)
(* The tables are external: ids are taken at insert and become visible at  *)
(* commit, in any order, and an insert rolled back leaves a hole.          *)
(***************************************************************************)
EXTENDS Naturals, Sequences, FiniteSets, FiniteSetsExt, TLC

CONSTANTS
    Topics,            \* the topics whose tables are written in this instance
    LastId,            \* per table, the ids it may take: the bound of the model
    PollBatch,         \* POLL_BATCH_LIMIT
    GapSettle,         \* GAP_SETTLE, in ticks of the clock
    ChannelCapacity,   \* LIVE_CHANNEL_CAPACITY
    MaxStreams,        \* SSE_MAX_STREAMS
    Clients,
    Requests,          \* what a client may ask: topics, and a protocol or every one
    MaxFailures,       \* queries the database refuses, in all
    NoMark,            \* a poller without a watermark
    NoConn             \* a client without a connection

-----------------------------------------------------------------------------
(* The collections and how their tables are read.                          *)

\* A row that does not decode fails a strict read, and is passed over by the
\* others: live_records keeps its id, prepare drops it.
Feed(tables, strict) == [tables |-> tables, strict |-> strict]

SignalFeed == Feed({"signals"}, TRUE)
LiquidityChangeFeed == Feed({"liquidity"}, FALSE)
PoolCreationFeed == Feed({"initialize_pool"}, FALSE)
PositionFeeClaimFeed == Feed({"claim_position_fee"}, FALSE)
ProtocolFeeClaimFeed == Feed({"claim_protocol_fee"}, FALSE)
RewardClaimFeed == Feed({"claim_reward"}, FALSE)
PoolChangeFeed == Feed({"set_pool_status", "update_pool_fees"}, FALSE)

PositionLifeTables == {"create_position", "close_position"}
PositionLockTables == {"lock_position", "permanent_lock_position", "split_position"}
PositionChangeFeed == Feed(PositionLifeTables \cup PositionLockTables, FALSE)

RewardSetupTables == {"initialize_reward", "fund_reward"}
RewardUpdateTables == {"update_reward_duration", "update_reward_funder"}
RewardWithdrawTables == {"withdraw_ineligible_reward", "withdraw_dead_liquidity_reward"}
RewardChangeFeed ==
    Feed(RewardSetupTables \cup RewardUpdateTables \cup RewardWithdrawTables, FALSE)

\* swaps is not one of them.
Served ==
    [signals |-> SignalFeed,
     liquidity_changes |-> LiquidityChangeFeed,
     pool_creations |-> PoolCreationFeed,
     position_changes |-> PositionChangeFeed,
     position_fee_claims |-> PositionFeeClaimFeed,
     protocol_fee_claims |-> ProtocolFeeClaimFeed,
     reward_claims |-> RewardClaimFeed,
     reward_changes |-> RewardChangeFeed,
     pool_changes |-> PoolChangeFeed]

ASSUME TopicsServed == Topics \subseteq DOMAIN Served

Sources == UNION {Served[t].tables : t \in Topics}

\* GAP_SETTLE and POLL_BATCH_LIMIT are constants of the code, a request is one
\* of the route's topics and a protocol, and an id is a bigserial's.
ASSUME BoundsAssumption == GapSettle \in Nat \ {0} /\ PollBatch \in Nat
ASSUME RequestsAssumption == Requests \subseteq [topics : SUBSET Topics, other : BOOLEAN]
ASSUME IdsAssumption == LastId \in [Sources -> Nat]
TopicOf(s) == CHOOSE t \in Topics : s \in Served[t].tables
Strict(s) == Served[TopicOf(s)].strict

\* A broadcast holds ChannelCapacity messages per table writing in it.
Capacity(t) == ChannelCapacity * Cardinality(Served[t].tables)

Ids(s) == 1 .. LastId[s]

-----------------------------------------------------------------------------
VARIABLES
    rows,      \* per table and id: what became of the insert that took it
    poller,    \* per table: where its poller stands
    reads,     \* the tables waiting for the one read, the first one reading
    log,       \* per topic: everything broadcast
    conn,      \* per client: its connection
    shutdown,
    failures,  \* queries refused so far
    age,       \* per table: since when each id read after the anchor was last read
    late,      \* per table: rows committed too late for their hole
    crowded    \* per table: rows a full batch left out and the floor passed

vars == <<rows, poller, reads, log, conn, shutdown, failures, age, late, crowded>>

RowStates == {"none", "open", "good", "bad", "old", "void"}

\* The floor and the ids delivered above it, dated by their age. The anchor is
\* kept for the properties.
Anchored(tip) == [floor |-> tip, delivered |-> {}, anchor |-> tip]

Idle == [at |-> "tick", mark |-> NoMark, batch |-> {}, out |-> <<>>]

Init ==
    /\ rows = [s \in Sources |-> [i \in Ids(s) |-> "none"]]
    /\ poller = [s \in Sources |-> Idle]
    /\ reads = <<>>
    /\ log = [t \in Topics |-> <<>>]
    /\ conn = [c \in Clients |-> NoConn]
    /\ shutdown = FALSE
    /\ failures = 0
    /\ age = [s \in Sources |-> <<>>]
    /\ late = [s \in Sources |-> {}]
    /\ crowded = [s \in Sources |-> {}]

-----------------------------------------------------------------------------
(* The tables.                                                             *)

\* A read sees the committed rows stamped within the lookback.
Visible(s) == {i \in Ids(s) : rows[s][i] \in {"good", "bad"}}

LiveTip(s) == Max(Visible(s) \cup {0})

\* The first PollBatch rows above an id, in the order of the ids.
LiveAfter(s, id) ==
    LET above == {i \in Visible(s) : i > id}
    IN {i \in above : Cardinality({j \in above : j < i}) < PollBatch}

TakeId(s, i) ==
    /\ rows[s][i] = "none" /\ \A j \in 1 .. i - 1 : rows[s][j] # "none"
    /\ rows' = [rows EXCEPT ![s][i] = "open"]
    /\ UNCHANGED <<poller, reads, log, conn, shutdown, failures, age, late, crowded>>

\* The id that dates a hole: the first one read above it, unless the read under
\* way sees it again, or another one between them.
Dates(s, j, i) ==
    /\ j \in DOMAIN age[s] \ poller[s].batch /\ j > i
    /\ \A k \in DOMAIN age[s] \cup poller[s].batch : k > i => k >= j

\* A row comes too late once its hole was passed, under an id last read GapSettle
\* ago, or when a read that has not seen it is about to be judged by such an id.
HoleIsOver(s, i) ==
    /\ poller[s].mark # NoMark
    /\ \E j \in DOMAIN age[s] :
         /\ Dates(s, j, i)
         /\ \/ i <= poller[s].mark.floor /\ age[s][j] = GapSettle
            \/ poller[s].at = "answer"

\* A row stamped further back than the lookback commits and ages at once.
Commit(s, i, row) ==
    /\ rows[s][i] = "open"
    /\ rows' = [rows EXCEPT ![s][i] = row]
    /\ late' = IF row = "good" /\ HoleIsOver(s, i) THEN [late EXCEPT ![s] = @ \cup {i}] ELSE late
    /\ UNCHANGED <<poller, reads, log, conn, shutdown, failures, age, crowded>>

Rollback(s, i) ==
    /\ rows[s][i] = "open"
    /\ rows' = [rows EXCEPT ![s][i] = "void"]
    /\ UNCHANGED <<poller, reads, log, conn, shutdown, failures, age, late, crowded>>

\* A row leaves the lookback.
Age(s, i) ==
    /\ i \in Visible(s)
    /\ rows' = [rows EXCEPT ![s][i] = "old"]
    /\ UNCHANGED <<poller, reads, log, conn, shutdown, failures, age, late, crowded>>

-----------------------------------------------------------------------------
(* The watermark.                                                          *)

\* Mutation: an id already delivered above the floor is fresh again.
FreshAgain(mark, batch) == {i \in batch : i > mark.floor}

\* What is new of a batch: the ids fresh keeps.
Fresh(mark, batch) == {i \in batch : i > mark.floor /\ i \notin mark.delivered}

\* fresh dates every id of the batch above the floor, those it filters out too:
\* its insert replaces the instant of an id delivered before.
Dated(mark, batch, read) ==
    LET seen == {i \in batch : i > mark.floor}
    IN [i \in DOMAIN read \cup seen |-> IF i \in seen THEN 0 ELSE read[i]]

\* Mutation: a hole is passed as soon as an id above it is read.
SettleAtOnce(mark, read) ==
    [mark EXCEPT !.floor = Max({mark.floor} \cup mark.delivered), !.delivered = {}]

\* The floor moves over the ids delivered without a hole, and over each hole
\* under an id last read GapSettle ago: it stops below the first id that has a
\* hole under it and was read more recently.
Settle(mark, read) ==
    LET waiting == {i \in mark.delivered :
                      /\ i - 1 \notin mark.delivered \cup {mark.floor}
                      /\ read[i] < GapSettle}
        passed == {i \in mark.delivered : \A w \in waiting : i < w}
    IN [mark EXCEPT !.floor = Max({mark.floor} \cup passed), !.delivered = @ \ passed]

-----------------------------------------------------------------------------
(* The pollers.                                                            *)

Listeners(t) == {c \in Clients : conn[c] # NoConn /\ t \in conn[c].topics}

Watched(s) == Listeners(TopicOf(s)) # {}

\* Nobody connected: no read, and the watermark is dropped.
TickIdle(s) ==
    /\ poller[s].at = "tick" /\ ~shutdown
    /\ ~Watched(s)
    /\ poller' = [poller EXCEPT ![s].mark = NoMark]
    /\ UNCHANGED <<rows, reads, log, conn, shutdown, failures, age, late, crowded>>

\* The tick waits for the read the pollers share.
Tick(s) ==
    /\ poller[s].at = "tick" /\ ~shutdown
    /\ Watched(s)
    /\ poller' = [poller EXCEPT ![s].at = "queue"]
    /\ reads' = Append(reads, s)
    /\ UNCHANGED <<rows, log, conn, shutdown, failures, age, late, crowded>>

Reading(s) == poller[s].at = "queue" /\ Head(reads) = s

Anchor(s) ==
    /\ Reading(s) /\ poller[s].mark = NoMark
    /\ poller' = [poller EXCEPT ![s].mark = Anchored(LiveTip(s))]
    /\ age' = [age EXCEPT ![s] = <<>>]
    /\ UNCHANGED <<rows, reads, log, conn, shutdown, failures, late, crowded>>

\* A refused query ends the tick: unanchored, or with the mark it had.
QueryFails(s) ==
    /\ Reading(s) /\ failures < MaxFailures
    /\ failures' = failures + 1
    /\ poller' = [poller EXCEPT ![s].at = "tick"]
    /\ reads' = Tail(reads)
    /\ UNCHANGED <<rows, log, conn, shutdown, age, late, crowded>>

Undecodable(s) == {i \in Ids(s) : rows[s][i] = "bad"}

\* A strict read with a row that does not decode is a failed one: the mark
\* stays where it was and the next tick reads the same rows.
ReadRefused(s) ==
    /\ Reading(s) /\ poller[s].mark # NoMark
    /\ Strict(s) /\ LiveAfter(s, poller[s].mark.floor) \cap Undecodable(s) # {}
    /\ poller' = [poller EXCEPT ![s].at = "tick"]
    /\ reads' = Tail(reads)
    /\ UNCHANGED <<rows, log, conn, shutdown, failures, age, late, crowded>>

\* What the query sees; its answer comes later.
Read(s) ==
    /\ Reading(s) /\ poller[s].mark # NoMark
    /\ Strict(s) => LiveAfter(s, poller[s].mark.floor) \cap Undecodable(s) = {}
    /\ poller' = [poller EXCEPT ![s].at = "answer",
                                ![s].batch = LiveAfter(s, poller[s].mark.floor)]
    /\ UNCHANGED <<rows, reads, log, conn, shutdown, failures, age, late, crowded>>

\* The ids of a set, in order, without the rows prepare drops.
Prepared(s, ids) ==
    LET kept == ids \ Undecodable(s)
        before(i) == Cardinality({j \in kept : j < i})
    IN [k \in 1 .. Cardinality(kept) |-> CHOOSE i \in kept : before(i) = k - 1]

\* Mutation: a tick with nothing new gives the watermark up.
SettledForgetting(mark, fresh, read) ==
    IF fresh = {} THEN NoMark
    ELSE Settle([mark EXCEPT !.delivered = @ \cup fresh], read)

\* The fresh rows count as delivered, and the floor settles.
Settled(mark, fresh, read) == Settle([mark EXCEPT !.delivered = @ \cup fresh], read)

Answer(s) ==
    LET p == poller[s]
        fresh == Fresh(p.mark, p.batch)
        read == Dated(p.mark, p.batch, age[s])
        settled == Settled(p.mark, fresh, read)
        passed == {i \in Visible(s) \ DOMAIN read : settled # NoMark /\ i <= settled.floor}
    IN /\ p.at = "answer"
       /\ poller' = [poller EXCEPT
                       ![s] = [at |-> IF fresh = {} THEN "tick" ELSE "send",
                               mark |-> settled,
                               batch |-> {},
                               out |-> Prepared(s, fresh)]]
       /\ age' = [age EXCEPT ![s] = read]
       /\ reads' = IF fresh = {} THEN Tail(reads) ELSE reads
       /\ crowded' = IF Cardinality(p.batch) < PollBatch THEN crowded
                     ELSE [crowded EXCEPT ![s] = @ \cup {i \in passed : i > p.mark.floor}]
       /\ UNCHANGED <<rows, log, conn, shutdown, failures, late>>

\* Pairing fails nothing: unpaired, the rows still go out.
Send(s) ==
    /\ poller[s].at = "send"
    /\ log' = [log EXCEPT ![TopicOf(s)] =
                 @ \o [k \in DOMAIN poller[s].out |-> <<s, poller[s].out[k]>>]]
    /\ poller' = [poller EXCEPT ![s].at = "tick", ![s].out = <<>>]
    /\ reads' = Tail(reads)
    /\ UNCHANGED <<rows, conn, shutdown, failures, age, late, crowded>>

\* The stop wins over the tick and over the read under way, which it drops.
PollerStops(s) ==
    /\ shutdown /\ poller[s].at # "stopped"
    /\ poller' = [poller EXCEPT ![s] = [Idle EXCEPT !.at = "stopped"]]
    /\ reads' = SelectSeq(reads, LAMBDA x : x # s)
    /\ UNCHANGED <<rows, log, conn, shutdown, failures, age, late, crowded>>

-----------------------------------------------------------------------------
(* The connections.                                                        *)

\* A connection takes a slot before it subscribes. One of a protocol no table
\* is written for hears the signals, passing over each, and no collection.
Connect(c, request) ==
    /\ conn[c] = NoConn /\ ~shutdown
    /\ Cardinality({d \in Clients : conn[d] # NoConn}) < MaxStreams
    /\ conn' = [conn EXCEPT ![c] =
                  [topics |-> IF request.other THEN request.topics \cap {"signals"}
                              ELSE request.topics,
                   other |-> request.other,
                   from |-> [t \in Topics |-> Len(log[t])],
                   pos |-> [t \in Topics |-> Len(log[t])],
                   got |-> [t \in Topics |-> <<>>]]]
    /\ UNCHANGED <<rows, poller, reads, log, shutdown, failures, age, late, crowded>>

Lagged(c, t) == Len(log[t]) - conn[c].pos[t] > Capacity(t)

\* Mutation: a receiver that lagged goes on from the oldest message kept.
ReceiveSkipping(c, t) ==
    /\ conn[c] # NoConn /\ ~shutdown /\ t \in conn[c].topics
    /\ conn[c].pos[t] < Len(log[t])
    /\ LET next == Max({conn[c].pos[t] + 1, Len(log[t]) - Capacity(t) + 1})
       IN conn' = [conn EXCEPT
                     ![c].pos[t] = next,
                     ![c].got[t] = IF conn[c].other THEN @ ELSE Append(@, log[t][next])]
    /\ UNCHANGED <<rows, poller, reads, log, shutdown, failures, age, late, crowded>>

Receive(c, t) ==
    /\ conn[c] # NoConn /\ ~shutdown /\ t \in conn[c].topics
    /\ conn[c].pos[t] < Len(log[t]) /\ ~Lagged(c, t)
    /\ LET next == conn[c].pos[t] + 1
       IN conn' = [conn EXCEPT
                     ![c].pos[t] = next,
                     ![c].got[t] = IF conn[c].other THEN @ ELSE Append(@, log[t][next])]
    /\ UNCHANGED <<rows, poller, reads, log, shutdown, failures, age, late, crowded>>

Close(c) ==
    /\ conn' = [conn EXCEPT ![c] = NoConn]
    /\ UNCHANGED <<rows, poller, reads, log, shutdown, failures, age, late, crowded>>

\* Lagging on one topic ends the whole connection, and the stop ends them all.
End(c) ==
    /\ conn[c] # NoConn
    /\ shutdown \/ \E t \in conn[c].topics : Lagged(c, t)
    /\ Close(c)

Leave(c) == conn[c] # NoConn /\ Close(c)

-----------------------------------------------------------------------------
Stop ==
    /\ ~shutdown
    /\ shutdown' = TRUE
    /\ UNCHANGED <<rows, poller, reads, log, conn, failures, age, late, crowded>>

\* Time: what was read grows older, until it could be passed.
Clock ==
    /\ \E s \in Sources : \E i \in DOMAIN age[s] : age[s][i] < GapSettle
    /\ age' = [s \in Sources |->
                 [i \in DOMAIN age[s] |-> Min({age[s][i] + 1, GapSettle})]]
    /\ UNCHANGED <<rows, poller, reads, log, conn, shutdown, failures, late, crowded>>

Poll(s) ==
    \/ TickIdle(s) \/ Tick(s) \/ Anchor(s) \/ ReadRefused(s)
    \/ Read(s) \/ Answer(s) \/ Send(s) \/ PollerStops(s)

Table(s, i) ==
    \/ TakeId(s, i) \/ Rollback(s, i) \/ Age(s, i)
    \/ \E row \in {"good", "bad"} : Commit(s, i, row)

Connection(c) ==
    \/ \E request \in Requests : Connect(c, request)
    \/ \E t \in Topics : Receive(c, t)
    \/ End(c) \/ Leave(c)

Next ==
    \/ \E s \in Sources : Poll(s) \/ QueryFails(s)
    \/ ~shutdown /\ \E s \in Sources : \E i \in Ids(s) : Table(s, i)
    \/ \E c \in Clients : Connection(c)
    \/ Stop
    \/ Clock

\* The runtime polls every task, the ticker fires, time passes, and a query is
\* answered or refused. The semaphore is first come first served.
Fairness ==
    /\ \A s \in Sources : WF_vars(Poll(s))
    /\ WF_vars(Clock)

Spec == Init /\ [][Next]_vars /\ Fairness

-----------------------------------------------------------------------------
(* Properties.                                                             *)

Broadcast(s) == {log[TopicOf(s)][k] : k \in DOMAIN log[TopicOf(s)]}
IsSent(s, i) == <<s, i>> \in Broadcast(s)
Pending(s) == {poller[s].out[k] : k \in DOMAIN poller[s].out}

\* Each new item is broadcast once (live.rs), whatever holes were filled late,
\* ticks failed, and watermarks were dropped and anchored again.
BroadcastOnce ==
    \A t \in Topics : \A j, k \in DOMAIN log[t] : log[t][j] = log[t][k] => j = k

\* What the floor may have passed: above the anchor, visible, not broadcast.
Skipped(s) ==
    IF poller[s].mark = NoMark THEN {}
    ELSE {i \in poller[s].mark.anchor + 1 .. poller[s].mark.floor :
            rows[s][i] = "good" /\ ~IsSent(s, i) /\ i \notin Pending(s)}

\* The floor passes no row that can be streamed (watermark.rs, settle) but one
\* that a full batch left out, and one that committed too late: once its hole
\* was passed, under an id that had not been read for GapSettle, or under a read
\* made before it that did not see that id either.
NothingSkipped == \A s \in Sources : Skipped(s) \subseteq late[s] \cup crowded[s]

\* An open connection has missed nothing of its topics since it subscribed:
\* a gap ends the connection (handlers/live.rs, TopicStream).
NoSilentGap ==
    \A c \in Clients : conn[c] # NoConn /\ ~conn[c].other =>
        \A t \in conn[c].topics :
            conn[c].got[t] = SubSeq(log[t], conn[c].from[t] + 1, conn[c].pos[t])

\* A row the poller of its table has yet to read, and what may excuse it.
Streamable(s, i) ==
    /\ rows[s][i] = "good" /\ Watched(s) /\ ~shutdown
    /\ poller[s].mark # NoMark /\ i > poller[s].mark.floor

Excused(s, i) ==
    \/ ~Watched(s) \/ shutdown \/ rows[s][i] # "good"
    \/ i \in Skipped(s)
    \/ Strict(s) /\ Undecodable(s) # {}

\* The rows delivered above a hole and below this one fill the batch: each read
\* sees them again, and so dates them again, and the hole is never over.
Starved(s, i) ==
    /\ poller[s].mark # NoMark
    /\ Cardinality({j \in poller[s].mark.delivered \cap Visible(s) : j < i}) >= PollBatch

\* A row that can be streamed, above the floor of a table someone watches, is
\* broadcast, or the batch fills with delivered rows under it. Excepted:
\* everyone leaves, the stop, the row leaves the lookback or is one of those
\* NothingSkipped excuses, and a strict read meeting a row that does not decode.
FreshIsBroadcast ==
    \A s \in Sources : \A i \in Ids(s) :
        Streamable(s, i) ~> IsSent(s, i) \/ Excused(s, i) \/ Starved(s, i)

\* A hole is waited for up to GAP_SETTLE and then passed (api/README.md, of the
\* live end; watermark.rs, of settle), so a burst larger than the batch drains
\* over the next ticks (poller.rs, of POLL_BATCH_LIMIT) above a hole too: nothing
\* excuses a row that can be streamed but what FreshIsBroadcast excepts by name.
BurstDrains ==
    \A s \in Sources : \A i \in Ids(s) :
        Streamable(s, i) ~> IsSent(s, i) \/ Excused(s, i)

=============================================================================
