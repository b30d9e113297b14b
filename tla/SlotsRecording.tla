--------------------------- MODULE SlotsRecording ---------------------------
(***************************************************************************)
(* The recorder against any sessions: sessions one after the other widen   *)
(* and publish their spans, end, and the next one starts, at any moment of *)
(* the recorder's ticks and of its writes, which may fail row by row       *)
(* (listener.rs joins the attempts and the recorder in one task; each      *)
(* await of a write lets the sessions run).                                *)
(***************************************************************************)
EXTENDS SlotsRecorder

CONSTANTS
    MaxSessions,  \* bound on the sessions of one process
    MaxSlot       \* bound on the slots they receive

ASSUME SessionsAssumption == MaxSessions \in Nat /\ MaxSlot \in Nat
ASSUME ProtocolsAssumption == IsFiniteSet(Protocols)

VARIABLES
    current,   \* the session under way
    running,   \* it has not ended
    stop,      \* the recorder's stop token
    lastSpan   \* the last span each session published

vars == <<recorderVars, current, running, stop, lastSpan>>

\* Publish a span that covers the one published before.
SessionPublishes ==
    /\ running
    /\ \E first, last \in 1..MaxSlot :
          /\ first <= last
          /\ current \in DOMAIN lastSpan =>
                first <= lastSpan[current].first /\ lastSpan[current].last <= last
          /\ ranges' = Published(current, [first |-> first, last |-> last])
          /\ lastSpan' = Put(lastSpan, current, [first |-> first, last |-> last])
    /\ UNCHANGED <<due, written, unwritten, recorder, rows, failures, current, running, stop>>

SessionEnds ==
    /\ running
    /\ running' = FALSE
    /\ ranges' = Ended(current)
    /\ UNCHANGED <<due, written, unwritten, recorder, rows, failures, current, stop, lastSpan>>

NextSessionStarts ==
    /\ ~running /\ ~stop
    /\ current < MaxSessions
    /\ current' = current + 1
    /\ running' = TRUE
    /\ UNCHANGED <<recorderVars, stop, lastSpan>>

\* The shutdown, or the attempts' end.
StopRequested ==
    /\ ~stop
    /\ stop' = TRUE
    /\ UNCHANGED <<recorderVars, current, running, lastSpan>>

others == <<current, running, stop, lastSpan>>

Tick == ~stop /\ OpenWrite(FALSE) /\ UNCHANGED others
Stop == stop /\ OpenWrite(TRUE) /\ UNCHANGED others
Record ==
    /\ \E k \in unwritten, refused \in SUBSET Protocols : RecordSession(k, refused)
    /\ UNCHANGED others
Read == CloseWrite /\ UNCHANGED others

Init ==
    /\ RecorderInit
    /\ current = 1
    /\ running = TRUE
    /\ stop = FALSE
    /\ lastSpan = <<>>

RecorderStep == Tick \/ Stop \/ Record \/ Read

Next ==
    \/ SessionPublishes
    \/ SessionEnds
    \/ NextSessionStarts
    \/ StopRequested
    \/ RecorderStep

\* The recorder's timer fires and its statements return; sessions and the stop
\* owe nothing.
Spec == Init /\ [][Next]_vars /\ WF_vars(RecorderStep)

-----------------------------------------------------------------------------
Span == {s \in [first : Nat, last : Nat] : s.first <= s.last}

\* The types of the spans, of the rows and of the recorder's locals; no span and
\* no row is inverted (observed_slot_ranges checks first_slot <= last_slot).
TypeOK ==
    /\ DOMAIN ranges \subseteq Nat
    /\ \A k \in DOMAIN ranges : ranges[k] \in [span : Span, ended : BOOLEAN]
    /\ DOMAIN due \subseteq Nat
    /\ \A k \in DOMAIN due : due[k] \in [span : Span, ended : BOOLEAN]
    /\ DOMAIN written \subseteq Nat
    /\ \A k \in DOMAIN written : written[k] \in Span
    /\ DOMAIN rows \subseteq Protocols \X Nat
    /\ \A k \in DOMAIN rows : rows[k] \in Span
    /\ unwritten \subseteq DOMAIN due
    /\ recorder \in {"idle", "writing", "stopping", "done"}
    /\ failures \in Nat
    /\ current \in Nat
    /\ running \in BOOLEAN
    /\ stop \in BOOLEAN
    /\ DOMAIN lastSpan \subseteq Nat
    /\ \A k \in DOMAIN lastSpan : lastSpan[k] \in Span

\* A session's last span is never lost to the next session, to a failed row or
\* to `forget`: it stays in `ranges` until every protocol's row holds it whole
\* (ranges_to_record.rs: "a session's last span must survive the next session's
\* first, or every reconnection reads as an unwatched range").
NoSpanIsForgotten ==
    \A k \in DOMAIN lastSpan :
        \/ k \in DOMAIN ranges /\ ranges[k].span = lastSpan[k]
        \/ \A p \in Protocols : <<p, k>> \in DOMAIN rows /\ rows[<<p, k>>] = lastSpan[k]

\* A row never says more than its session had received, and never gives back
\* slots it said were watched: what a failed or repeated write leaves behind is
\* within the session's span, and every step keeps what the rows hold.
RowsWithinSpans ==
    [][/\ \A r \in DOMAIN rows' :
            /\ r[2] \in DOMAIN lastSpan
            /\ lastSpan[r[2]].first <= rows'[r].first
            /\ rows'[r].last <= lastSpan[r[2]].last
       /\ \A r \in DOMAIN rows :
            /\ r \in DOMAIN rows'
            /\ rows'[r].first <= rows[r].first
            /\ rows[r].last <= rows'[r].last]_vars

\* Every session that ended is written and forgotten in the end, whatever
\* writes failed on the way, unless the recorder is stopped first: `ranges`
\* does not grow by a session at every reconnection.
EndedSessionsAreWritten ==
    \A k \in 1..MaxSessions :
        (k \in DOMAIN ranges /\ ranges[k].ended)
            ~> (stop \/ (k \notin DOMAIN ranges /\ \A p \in Protocols : <<p, k>> \in DOMAIN rows))

=============================================================================
