--------------------------- MODULE SlotsRecorder ---------------------------
(***************************************************************************)
(* The hand-over of received spans and the recorder that writes them       *)
(* (crates/indexer/src/infra/grpc/ranges_to_record.rs,                     *)
(* session/received_span.rs, listener/slots_recorder.rs and the upsert of  *)
(* crates/persistence/src/repositories/observed_slots.rs).                 *)
(*                                                                         *)
(* Every session leaves its latest span under its own key in `ranges`.  At *)
(* each tick, and once when it is stopped, the recorder writes the spans   *)
(* it read at the tick before, one row per protocol, and forgets a session *)
(* that has ended and whose last span is written.  A write may fail.  The  *)
(* block times of a span's ends follow its slots and are left out.         *)
(***************************************************************************)
EXTENDS Integers, FiniteSets

CONSTANTS
    Protocols,         \* the protocols watched whole
    MaxWriteFailures   \* bound on the rows that fail to be written

VARIABLES
    ranges,    \* RangesToRecord: session -> its latest span and whether it ended
    due,       \* the recorder's reading of `ranges` at the last tick
    written,   \* the recorder's local: session -> the span last written whole
    unwritten, \* the sessions the write under way has still to record
    recorder,  \* "idle", "writing", "stopping" (the last write) or "done"
    rows,      \* observed_slot_ranges: <<protocol, session>> -> span
    failures   \* how many rows failed to be written

recorderVars == <<ranges, due, written, unwritten, recorder, rows, failures>>

\* ReceivedSpan::include: widen to `slot`; a slot within changes nothing.
Include(span, slot) ==
    [first |-> IF slot < span.first THEN slot ELSE span.first,
     last  |-> IF slot > span.last  THEN slot ELSE span.last]

\* BTreeMap/HashMap updates
Put(map, key, value) ==
    [k \in DOMAIN map \cup {key} |-> IF k = key THEN value ELSE map[k]]
Without(map, keys) == [k \in DOMAIN map \ keys |-> map[k]]

\* RangesToRecord::publish
Published(session, span) == Put(ranges, session, [span |-> span, ended |-> FALSE])

\* RangesToRecord::end, called when the session's ReceivedSlots is dropped
Ended(session) ==
    [k \in DOMAIN ranges |->
        IF k = session THEN [ranges[k] EXCEPT !.ended = TRUE] ELSE ranges[k]]

\* Mutation: a session once written is never written again.
ChangedOnce == {k \in DOMAIN due : k \notin DOMAIN written}

\* The sessions whose span changed since it was last written.
Changed == {k \in DOMAIN due : ~(k \in DOMAIN written /\ written[k] = due[k].span)}

\* Mutation: an ended session is forgotten whether or not it is written.
FinishedUnwritten == {k \in DOMAIN due : due[k].ended}

\* The ended sessions whose last span is written.
Finished ==
    {k \in DOMAIN due : due[k].ended /\ k \in DOMAIN written /\ written[k] = due[k].span}

\* Mutation: the row takes the span as it comes, with an exclusive end.
UpsertedExclusive(key, span) == [first |-> span.first, last |-> span.last + 1]

\* The upsert of one row: each end moves only outwards.
Upserted(key, span) ==
    IF key \in DOMAIN rows THEN Include(Include(rows[key], span.first), span.last)
                           ELSE span

\* run's select and the first half of write: a tick, or the stop, opens a write.
OpenWrite(stopping) ==
    /\ recorder = "idle"
    /\ unwritten' = Changed
    /\ recorder' = IF stopping THEN "stopping" ELSE "writing"
    /\ UNCHANGED <<ranges, due, written, rows, failures>>

\* record: every protocol's row of one session; the rows in `refused` are not
\* written, and then the span stays due.
RecordSession(session, refused) ==
    /\ recorder \in {"writing", "stopping"}
    /\ session \in unwritten
    /\ \A k \in unwritten : session <= k
    /\ failures + Cardinality(refused) <= MaxWriteFailures
    /\ failures' = failures + Cardinality(refused)
    /\ LET recorded == {<<p, session>> : p \in Protocols \ refused}
       IN  rows' = [k \in DOMAIN rows \cup recorded |->
                      IF k \in recorded THEN Upserted(k, due[session].span) ELSE rows[k]]
    /\ written' = IF refused = {} THEN Put(written, session, due[session].span) ELSE written
    /\ unwritten' = unwritten \ {session}
    /\ UNCHANGED <<ranges, due, recorder>>

\* The end of write, and what run does after it: forget the finished sessions,
\* then return when stopping, else read the spans for the next tick.
CloseWrite ==
    /\ recorder \in {"writing", "stopping"}
    /\ unwritten = {}
    /\ ranges' = Without(ranges, Finished)
    /\ written' = Without(written, Finished)
    /\ IF recorder = "stopping"
       THEN recorder' = "done" /\ due' = due
       ELSE recorder' = "idle" /\ due' = ranges'
    /\ UNCHANGED <<unwritten, rows, failures>>

\* The slots some row says were watched, for `protocol`.
Observed(protocol) ==
    UNION {rows[k].first .. rows[k].last : k \in {r \in DOMAIN rows : r[1] = protocol}}

RecorderInit ==
    /\ ranges = <<>>
    /\ due = <<>>
    /\ written = <<>>
    /\ unwritten = {}
    /\ recorder = "idle"
    /\ rows = <<>>
    /\ failures = 0
=============================================================================
