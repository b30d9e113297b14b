--------------------------- MODULE ListenerProofs ---------------------------
(***************************************************************************)
(* Proofs about the gRPC listener's two tasks, each for itself: its        *)
(* attempts (GrpcListener), for every attempts bound, every pair of        *)
(* backoffs and every stall timeout, and the recorder it runs beside them  *)
(* (SlotsRecording), for every finite set of protocols, any number of      *)
(* sessions, slots and failed writes.                                      *)
(***************************************************************************)
EXTENDS GrpcListener, SlotsRecording, FiniteSetTheorems, TLAPS

-----------------------------------------------------------------------------
(***************************************************************************)
(* The attempts and the retry budget.                                      *)
(***************************************************************************)

\* A doubled backoff, cut at the ceiling, stays between the two constants, and
\* a count cut at a bound stays below it.
LEMMA LesserBounds ==
    /\ \A b \in InitialBackoff..MaxBackoff :
          Lesser(2 * b, MaxBackoff) \in InitialBackoff..MaxBackoff
    /\ \A n \in 0..MaxAttempts : Lesser(n + 1, MaxAttempts) \in 0..MaxAttempts
  BY ListenerAssumption DEF Lesser

\* The budget counts the barren attempts and nothing else: as long as the
\* listener runs, RetryBudget::attempt is the number of attempts in a row that
\* brought no data; it has stopped exactly when run has returned.
BudgetCountsBarren ==
    /\ result = "none" => attempt = barren /\ barren < MaxAttempts
    /\ result = "exhausted" => barren = MaxAttempts
    /\ at = "stopped" <=> result # "none"

ListenerInv == ListenerTypeOK /\ BudgetCountsBarren

\* Only an attempt that brought no data is charged, and only one that brought
\* some is churn: Ending::verdict on every ending of listener.rs.
Fitting(verdict, brought) ==
    /\ verdict \in Verdicts
    /\ verdict = "Delivered" => brought
    /\ verdict \in {"ServerFailed", "Unanswered"} => ~brought

\* RetryBudget::settle on a fitting verdict keeps the locals typed and the
\* budget in step with the barren attempts, whatever the verdict.
LEMMA SettleKeepsBudget ==
    ASSUME ListenerInv, at # "stopped", NEW verdict, NEW brought \in BOOLEAN,
           Fitting(verdict, brought), SettleAttempt(verdict, brought)
    PROVE  ListenerInv'
<1> USE ListenerAssumption DEF ListenerInv, ListenerTypeOK, BudgetCountsBarren, Fitting
<1> DEFINE Clocks == /\ at' \in {"sleeping", "stopped"}
                     /\ attempt' \in Nat
                     /\ backoff' \in InitialBackoff..MaxBackoff
                     /\ wait' \in 0..MaxBackoff
                     /\ result' \in {"none", "ok", "exhausted", "no_targets"}
<1>1. result = "none" /\ attempt = barren /\ barren < MaxAttempts
  OBVIOUS
<1>2. /\ delivered' = FALSE /\ silent' = 0
      /\ consumer' = consumer /\ shutdown' = shutdown
      /\ barren' = IF brought THEN 0 ELSE Lesser(barren + 1, MaxAttempts)
  BY DEF SettleAttempt
<1>3. barren' \in 0..MaxAttempts
  BY <1>2, LesserBounds
<1>4. delivered' \in BOOLEAN /\ consumer' \in BOOLEAN /\ shutdown' \in BOOLEAN
  BY <1>2, Zenon
<1>5. SUFFICES Clocks /\ BudgetCountsBarren'
  BY <1>2, <1>3, <1>4
<1>6. CASE /\ verdict \in {"ShutdownRequested", "ConsumerGone"}
           /\ attempt' = attempt + 1
           /\ at' = "stopped"
           /\ result' = "ok"
           /\ UNCHANGED <<backoff, wait>>
  <2>1. Clocks
    BY <1>6
  <2>2. BudgetCountsBarren'
    BY <1>6
  <2> QED
    BY <2>1, <2>2
<1>7. CASE verdict = "Delivered" /\ Churn
  <2>1. barren' = 0
    BY <1>2, <1>7
  <2>2. Clocks
    BY <1>1, <1>7 DEF Churn
  <2>3. BudgetCountsBarren'
    BY <1>1, <1>7, <2>1 DEF Churn
  <2> QED
    BY <2>2, <2>3
<1>8. CASE verdict \in {"ServerFailed", "Unanswered"} /\ Charge
  <2>1. barren' = barren + 1
    BY <1>1, <1>2, <1>8 DEF Lesser
  <2>2. CASE attempt + 1 >= MaxAttempts
    <3>1. Clocks
      BY <1>8, <2>2 DEF Charge
    <3>2. BudgetCountsBarren'
      BY <1>1, <1>8, <2>1, <2>2 DEF Charge
    <3> QED
      BY <3>1, <3>2
  <2>3. CASE ~(attempt + 1 >= MaxAttempts)
    <3>1. backoff' \in InitialBackoff..MaxBackoff
      BY <1>8, <2>3, LesserBounds DEF Charge
    <3>2. Clocks
      BY <1>1, <1>8, <2>3, <3>1 DEF Charge
    <3>3. BudgetCountsBarren'
      BY <1>1, <1>8, <2>1, <2>3 DEF Charge
    <3> QED
      BY <3>2, <3>3
  <2> QED
    BY <2>2, <2>3
<1> QED
  BY <1>6, <1>7, <1>8 DEF SettleAttempt

\* The invariant holds when run is entered.
LEMMA InitListener == ListenerInit => ListenerInv
<1> SUFFICES ASSUME ListenerInit PROVE ListenerInv
  OBVIOUS
<1>1. delivered \in BOOLEAN /\ consumer \in BOOLEAN /\ shutdown \in BOOLEAN
  BY Zenon DEF ListenerInit
<1>2. /\ backoff \in InitialBackoff..MaxBackoff /\ wait \in 0..MaxBackoff
      /\ silent \in 0..StallTimeout /\ attempt \in Nat /\ barren \in 0..MaxAttempts
  BY ListenerAssumption DEF ListenerInit
<1>3. BudgetCountsBarren
  BY ListenerAssumption DEF ListenerInit, BudgetCountsBarren
<1> QED
  BY <1>1, <1>2, <1>3 DEF ListenerInit, ListenerInv, ListenerTypeOK

\* Every step of the listener, of time, of the consumer and of the stop keeps it.
LEMMA NextListener == ListenerInv /\ [ListenerNext]_listenerVars => ListenerInv'
<1> SUFFICES ASSUME ListenerInv, [ListenerNext]_listenerVars PROVE ListenerInv'
  OBVIOUS
<1> USE DEF ListenerInv
<1>1. CASE StartAttempt
  BY <1>1 DEF StartAttempt, ListenerTypeOK, BudgetCountsBarren
<1>2. CASE NothingToWatch
  BY <1>2 DEF NothingToWatch, ListenerTypeOK, BudgetCountsBarren
<1>3. CASE DialFails
  BY <1>3, SettleKeepsBudget DEF DialFails, Fitting, Verdicts
<1>4. CASE Dialled
  BY <1>4 DEF Dialled, budgetVars, ListenerTypeOK, BudgetCountsBarren
<1>5. CASE SubscribeStops
  BY <1>5, SettleKeepsBudget DEF SubscribeStops, Fitting, Verdicts
<1>6. CASE SubscribeFails
  BY <1>6, SettleKeepsBudget DEF SubscribeFails, Fitting, Verdicts
<1>7. CASE Subscribed
  BY <1>7 DEF Subscribed, budgetVars, ListenerTypeOK, BudgetCountsBarren
<1>8. CASE ReadStops
  BY <1>8, SettleKeepsBudget DEF ReadStops, Fitting, Verdicts, ListenerTypeOK
<1>9. CASE Stalls
  BY <1>9, SettleKeepsBudget DEF Stalls, OnStall, Fitting, Verdicts, ListenerTypeOK
<1>10. CASE ParkedStops
  BY <1>10, SettleKeepsBudget DEF ParkedStops, Fitting, Verdicts, ListenerTypeOK
<1>11. CASE Wakes
  BY <1>11, ListenerAssumption DEF Wakes, ListenerTypeOK, BudgetCountsBarren
<1>12. CASE TimePasses
  BY <1>12, ListenerAssumption DEF TimePasses, budgetVars, ListenerTypeOK, BudgetCountsBarren
<1>13. CASE ReadPing
  BY <1>13 DEF ReadPing, listenerVars, ListenerTypeOK, BudgetCountsBarren
<1>14. ASSUME NEW isBlockMeta \in BOOLEAN, ReadData(isBlockMeta) PROVE ListenerInv'
  BY <1>14, ListenerAssumption DEF ReadData, budgetVars, ListenerTypeOK, BudgetCountsBarren
<1>15. CASE ReadDataConsumerGone
  BY <1>15, SettleKeepsBudget DEF ReadDataConsumerGone, Fitting, Verdicts
<1>16. CASE StreamEnds
  BY <1>16, SettleKeepsBudget DEF StreamEnds, OnClose, Fitting, Verdicts, ListenerTypeOK
<1>17. CASE Unparks
  BY <1>17 DEF Unparks, budgetVars, ListenerTypeOK, BudgetCountsBarren
<1>18. CASE ConsumerLeaves
  BY <1>18 DEF ConsumerLeaves, budgetVars, ListenerTypeOK, BudgetCountsBarren
<1>19. CASE RequestShutdown
  BY <1>19 DEF RequestShutdown, budgetVars, ListenerTypeOK, BudgetCountsBarren
<1>20. CASE UNCHANGED listenerVars
  BY <1>20 DEF listenerVars, ListenerTypeOK, BudgetCountsBarren
<1> QED
  BY <1>1, <1>2, <1>3, <1>4, <1>5, <1>6, <1>7, <1>8, <1>9, <1>10, <1>11, <1>12,
     <1>13, <1>14, <1>15, <1>16, <1>17, <1>18, <1>19, <1>20 DEF ListenerNext, Progress

-----------------------------------------------------------------------------
\* The locals of the listener's loop keep their types: the backoff never leaves
\* its two constants however often it doubles, and the stall clock never runs
\* past its timeout.
THEOREM ListenerTyped == ListenerSpec => []ListenerTypeOK
<1>1. ListenerSpec => []ListenerInv
  BY InitListener, NextListener, PTL DEF ListenerSpec
<1> QED
  BY <1>1, PTL DEF ListenerInv

\* run gives up exactly when MaxAttempts attempts in a row brought no data, for
\* every bound: neither a stream that delivered nor a stop, a consumer that
\* leaves or a stall in between makes it give up early or dial once more.
THEOREM ListenerGivesUp == ListenerSpec => []GivesUpOnBarrenAttempts
<1>1. ListenerSpec => []ListenerInv
  BY InitListener, NextListener, PTL DEF ListenerSpec
<1>2. ListenerInv => GivesUpOnBarrenAttempts
  BY DEF ListenerInv, BudgetCountsBarren, GivesUpOnBarrenAttempts
<1> QED
  BY <1>1, <1>2, PTL

-----------------------------------------------------------------------------
(***************************************************************************)
(* The recorder: spans and the upsert.                                     *)
(***************************************************************************)

Within(s, t) == t.first <= s.first /\ s.last <= t.last

\* Within is an order on spans.
LEMMA WithinOrder ==
    ASSUME NEW s \in Span, NEW t \in Span, NEW u \in Span
    PROVE  /\ Within(s, s)
           /\ Within(s, t) /\ Within(t, u) => Within(s, u)
           /\ Within(s, t) /\ Within(t, s) => s = t
<1>1. Within(s, s) /\ (Within(s, t) /\ Within(t, u) => Within(s, u))
  BY DEF Span, Within
<1>2. ASSUME Within(s, t), Within(t, s) PROVE s = t
  <2>1. s.first = t.first /\ s.last = t.last
    BY <1>2 DEF Span, Within
  <2> QED
    BY <2>1 DEF Span
<1> QED
  BY <1>1, <1>2

\* ReceivedSpan::include gives the least span around the span and the slot.
LEMMA IncludeIsLeast ==
    ASSUME NEW s \in Span, NEW n \in Nat
    PROVE  /\ Include(s, n) \in Span
           /\ Within(s, Include(s, n))
           /\ Include(s, n).first <= n /\ n <= Include(s, n).last
           /\ \A t \in Span : Within(s, t) /\ t.first <= n /\ n <= t.last
                                => Within(Include(s, n), t)
  BY DEF Span, Within, Include

\* The upsert of a row gives the least span around the row and the new span:
\* each end moves outwards only, and no further than the spans it was given.
LEMMA UpsertIsLeast ==
    ASSUME \A r \in DOMAIN rows : rows[r] \in Span, NEW key, NEW span \in Span
    PROVE  /\ Upserted(key, span) \in Span
           /\ Within(span, Upserted(key, span))
           /\ key \in DOMAIN rows => Within(rows[key], Upserted(key, span))
           /\ \A t \in Span :
                Within(span, t) /\ (key \in DOMAIN rows => Within(rows[key], t))
                  => Within(Upserted(key, span), t)
<1>0. span.first \in Nat /\ span.last \in Nat
  BY DEF Span
<1>1. CASE key \in DOMAIN rows
  <2> DEFINE a == Include(rows[key], span.first)
             b == Include(a, span.last)
  <2>1. rows[key] \in Span
    BY <1>1
  <2>2. /\ a \in Span /\ Within(rows[key], a) /\ a.first <= span.first
        /\ \A t \in Span : Within(rows[key], t) /\ t.first <= span.first /\ span.first <= t.last
                             => Within(a, t)
    BY <1>0, <2>1, IncludeIsLeast
  <2>3. /\ b \in Span /\ Within(a, b) /\ span.last <= b.last
        /\ \A t \in Span : Within(a, t) /\ t.first <= span.last /\ span.last <= t.last
                             => Within(b, t)
    BY <1>0, <2>2, IncludeIsLeast
  <2>4. Upserted(key, span) = b
    BY <1>1 DEF Upserted
  <2> HIDE DEF a, b
  <2>5. Within(rows[key], b)
    BY <2>1, <2>2, <2>3, WithinOrder
  <2>6. Within(span, b)
    BY <1>0, <2>2, <2>3 DEF Within, Span
  <2>7. ASSUME NEW t \in Span, Within(span, t), Within(rows[key], t) PROVE Within(b, t)
    <3>1. /\ t.first <= span.first /\ span.first <= t.last
          /\ t.first <= span.last /\ span.last <= t.last
      BY <1>0, <2>7 DEF Within, Span
    <3> QED
      BY <2>2, <2>3, <2>7, <3>1
  <2> QED
    BY <1>1, <2>3, <2>4, <2>5, <2>6, <2>7
<1>2. CASE key \notin DOMAIN rows
  BY <1>2, WithinOrder DEF Upserted
<1> QED
  BY <1>1, <1>2

-----------------------------------------------------------------------------
(***************************************************************************)
(* The inductive invariant.                                                *)
(***************************************************************************)

\* A session that publishes no more.
Over(k) == k < current \/ (k = current /\ ~running)

\* What is left for the recorder is the session's last span, and an entry is
\* marked as ended only when no further span can come.
RangesAreLatest ==
    \A k \in DOMAIN ranges :
        /\ k \in DOMAIN lastSpan /\ ranges[k].span = lastSpan[k]
        /\ ranges[k].ended => Over(k)

\* The recorder's reading may be a tick old, but not once the session ended.
DueLagsBehind ==
    \A k \in DOMAIN due :
        /\ k \in DOMAIN lastSpan /\ Within(due[k].span, lastSpan[k])
        /\ due[k].ended => Over(k) /\ due[k].span = lastSpan[k]

\* A row lies within what its session published.
RowsWithin ==
    \A p \in Protocols, k \in Nat :
        <<p, k>> \in DOMAIN rows =>
            k \in DOMAIN lastSpan /\ Within(rows[<<p, k>>], lastSpan[k])

\* A span counts as written once every protocol's row holds it.
WrittenIsRecorded ==
    \A k \in DOMAIN written, p \in Protocols :
        <<p, k>> \in DOMAIN rows /\ Within(written[k], rows[<<p, k>>])

IInv == /\ TypeOK /\ RangesAreLatest /\ DueLagsBehind /\ RowsWithin
        /\ WrittenIsRecorded /\ NoSpanIsForgotten

-----------------------------------------------------------------------------
(***************************************************************************)
(* Every step keeps it.                                                    *)
(***************************************************************************)

\* A published span covers the session's spans before it, and is in `ranges`.
LEMMA PublishKeeps ==
    ASSUME IInv, SessionPublishes
    PROVE  IInv'
<1> USE DEF IInv
<1>1. PICK first \in 1..MaxSlot, last \in 1..MaxSlot :
          /\ first <= last
          /\ current \in DOMAIN lastSpan =>
                first <= lastSpan[current].first /\ lastSpan[current].last <= last
          /\ ranges' = Published(current, [first |-> first, last |-> last])
          /\ lastSpan' = Put(lastSpan, current, [first |-> first, last |-> last])
  BY DEF SessionPublishes
<1> DEFINE span == [first |-> first, last |-> last]
<1>2. /\ running /\ running' = running /\ current' = current /\ current \in Nat
      /\ due' = due /\ written' = written /\ rows' = rows /\ unwritten' = unwritten
      /\ recorder' = recorder /\ failures' = failures /\ stop' = stop
  BY DEF SessionPublishes, TypeOK
<1>3. /\ span \in Span
      /\ current \in DOMAIN lastSpan => Within(lastSpan[current], span)
  BY <1>1, SessionsAssumption DEF Span, Within
<1>4. /\ lastSpan' = Put(lastSpan, current, span)
      /\ ranges' = Put(ranges, current, [span |-> span, ended |-> FALSE])
  BY <1>1 DEF Published
<1> HIDE DEF span
<1>5. /\ DOMAIN lastSpan' = DOMAIN lastSpan \cup {current}
      /\ lastSpan'[current] = span
      /\ \A k \in DOMAIN lastSpan : k # current => lastSpan'[k] = lastSpan[k]
  BY <1>4 DEF Put
<1>6. /\ DOMAIN ranges' = DOMAIN ranges \cup {current}
      /\ ranges'[current] = [span |-> span, ended |-> FALSE]
      /\ \A k \in DOMAIN ranges : k # current => ranges'[k] = ranges[k]
  BY <1>4 DEF Put
<1>7. \A k \in DOMAIN lastSpan' : lastSpan'[k] \in Span
  BY <1>3, <1>5 DEF TypeOK
<1>8. \A k \in DOMAIN lastSpan : Within(lastSpan[k], lastSpan'[k])
  BY <1>3, <1>5, WithinOrder DEF TypeOK
<1>9. ASSUME NEW k \in DOMAIN lastSpan, NEW s \in Span, Within(s, lastSpan[k])
      PROVE  Within(s, lastSpan'[k])
  BY <1>5, <1>7, <1>8, <1>9, WithinOrder DEF TypeOK
<1>10. TypeOK'
  <2>1. running' \in BOOLEAN /\ stop' \in BOOLEAN
    BY <1>2, Zenon DEF TypeOK
  <2>2. [span |-> span, ended |-> FALSE] \in [span : Span, ended : BOOLEAN]
    BY <1>3
  <2>3. /\ DOMAIN ranges' \subseteq Nat
        /\ \A k \in DOMAIN ranges' : ranges'[k] \in [span : Span, ended : BOOLEAN]
    BY <1>2, <1>6, <2>2 DEF TypeOK
  <2> QED
    BY <1>2, <1>5, <1>7, <2>1, <2>3 DEF TypeOK
<1>11. RangesAreLatest'
  BY <1>2, <1>5, <1>6 DEF RangesAreLatest, Over
<1>12. DueLagsBehind'
  <2> SUFFICES ASSUME NEW k \in DOMAIN due
               PROVE  /\ k \in DOMAIN lastSpan' /\ Within(due[k].span, lastSpan'[k])
                      /\ due[k].ended => Over(k)' /\ due[k].span = lastSpan'[k]
    BY <1>2 DEF DueLagsBehind
  <2>1. due[k].span \in Span
    BY DEF TypeOK
  <2>2. Within(due[k].span, lastSpan'[k])
    BY <1>9, <2>1 DEF DueLagsBehind
  <2>3. due[k].ended => k # current
    BY <1>2 DEF DueLagsBehind, Over
  <2> QED
    BY <1>2, <1>5, <2>2, <2>3 DEF DueLagsBehind, Over
<1>13. RowsWithin'
  <2> SUFFICES ASSUME NEW p \in Protocols, NEW k \in Nat, <<p, k>> \in DOMAIN rows
               PROVE  k \in DOMAIN lastSpan' /\ Within(rows[<<p, k>>], lastSpan'[k])
    BY <1>2 DEF RowsWithin
  <2>1. rows[<<p, k>>] \in Span
    BY DEF TypeOK
  <2> QED
    BY <1>5, <1>9, <2>1 DEF RowsWithin
<1>14. WrittenIsRecorded'
  BY <1>2 DEF WrittenIsRecorded
<1>15. NoSpanIsForgotten'
  BY <1>2, <1>5, <1>6 DEF NoSpanIsForgotten
<1> QED
  BY <1>10, <1>11, <1>12, <1>13, <1>14, <1>15

\* The end of a session marks its entry, and changes no span.
LEMMA EndKeeps ==
    ASSUME IInv, SessionEnds
    PROVE  IInv'
<1> USE DEF IInv
<1>1. /\ running /\ running' = FALSE /\ current' = current /\ current \in Nat
      /\ lastSpan' = lastSpan
      /\ due' = due /\ written' = written /\ rows' = rows /\ unwritten' = unwritten
      /\ recorder' = recorder /\ failures' = failures /\ stop' = stop
  BY DEF SessionEnds, TypeOK
<1>2. /\ DOMAIN ranges' = DOMAIN ranges
      /\ \A k \in DOMAIN ranges : k # current => ranges'[k] = ranges[k]
      /\ current \in DOMAIN ranges =>
            ranges'[current] = [ranges[current] EXCEPT !.ended = TRUE]
  BY DEF SessionEnds, Ended
<1>3. \A k \in DOMAIN ranges : ranges'[k] \in [span : Span, ended : BOOLEAN]
                              /\ ranges'[k].span = ranges[k].span
  <2> SUFFICES ASSUME NEW k \in DOMAIN ranges
               PROVE  /\ ranges'[k] \in [span : Span, ended : BOOLEAN]
                      /\ ranges'[k].span = ranges[k].span
    OBVIOUS
  <2>1. ranges[k] \in [span : Span, ended : BOOLEAN]
    BY DEF TypeOK
  <2>2. CASE k # current
    BY <1>2, <2>1, <2>2
  <2>3. CASE k = current
    <3>1. ranges'[k] = [ranges[k] EXCEPT !.ended = TRUE]
      BY <1>2, <2>3
    <3> QED
      BY <2>1, <3>1
  <2> QED
    BY <2>2, <2>3
<1>4. TypeOK'
  <2>1. running' \in BOOLEAN /\ stop' \in BOOLEAN
    BY <1>1, Zenon DEF TypeOK
  <2> QED
    BY <1>1, <1>2, <1>3, <2>1 DEF TypeOK
<1>5. \A k : Over(k) => Over(k)'
  BY <1>1 DEF Over
<1>6. RangesAreLatest'
  BY <1>1, <1>2, <1>3 DEF RangesAreLatest, Over
<1>7. DueLagsBehind'
  BY <1>1, <1>5 DEF DueLagsBehind
<1> QED
  BY <1>1, <1>2, <1>3, <1>4, <1>6, <1>7
     DEF RowsWithin, WrittenIsRecorded, NoSpanIsForgotten

\* Neither the next session nor the stop touches a span; a session that was
\* over stays so.
LEMMA SessionsKeep ==
    ASSUME IInv, NextSessionStarts \/ StopRequested
    PROVE  IInv'
<1> USE DEF IInv
<1>0. running' \in BOOLEAN /\ stop' \in BOOLEAN
  BY Zenon DEF NextSessionStarts, StopRequested, TypeOK
<1>1. /\ UNCHANGED recorderVars /\ lastSpan' = lastSpan /\ current \in Nat
      /\ current' \in Nat
  BY DEF NextSessionStarts, StopRequested, TypeOK
<1>2. ASSUME NEW k \in Nat, Over(k) PROVE Over(k)'
  BY <1>1, <1>2 DEF NextSessionStarts, StopRequested, Over
<1>3. TypeOK'
  BY <1>0, <1>1 DEF recorderVars, TypeOK
<1>4. RangesAreLatest'
  BY <1>1, <1>2 DEF recorderVars, RangesAreLatest, TypeOK
<1>5. DueLagsBehind'
  BY <1>1, <1>2 DEF recorderVars, DueLagsBehind, TypeOK
<1> QED
  BY <1>1, <1>3, <1>4, <1>5 DEF recorderVars, RowsWithin, WrittenIsRecorded, NoSpanIsForgotten

\* Opening a write lists sessions of the reading, and changes nothing else.
LEMMA OpenKeeps ==
    ASSUME IInv, NEW stopping \in BOOLEAN, OpenWrite(stopping), UNCHANGED others
    PROVE  IInv'
<1> USE DEF IInv, others, OpenWrite
<1>1. Changed \subseteq DOMAIN due
  BY DEF Changed
<1>2. TypeOK'
  BY <1>1 DEF TypeOK
<1> QED
  BY <1>2 DEF RangesAreLatest, DueLagsBehind, RowsWithin, WrittenIsRecorded,
              NoSpanIsForgotten, Over

\* What `record` makes of the rows: every row it had grows or stays, the rows it
\* wrote hold the span, and none says more than its session published.
LEMMA RecordWidensRows ==
    ASSUME IInv, NEW s \in unwritten, NEW refused \in SUBSET Protocols,
           RecordSession(s, refused)
    PROVE  /\ DOMAIN rows' \subseteq Protocols \X Nat
           /\ DOMAIN rows \subseteq DOMAIN rows'
           /\ \A r \in DOMAIN rows' :
                 /\ rows'[r] \in Span
                 /\ r[2] \in DOMAIN lastSpan /\ Within(rows'[r], lastSpan[r[2]])
           /\ \A r \in DOMAIN rows : Within(rows[r], rows'[r])
           /\ \A p \in Protocols \ refused :
                 <<p, s>> \in DOMAIN rows' /\ Within(due[s].span, rows'[<<p, s>>])
<1> USE DEF IInv
<1> DEFINE recorded == {<<p, s>> : p \in Protocols \ refused}
           span == due[s].span
<1>1. /\ s \in DOMAIN due /\ s \in Nat /\ s \in DOMAIN lastSpan /\ span \in Span
      /\ lastSpan[s] \in Span /\ Within(span, lastSpan[s])
  BY DEF TypeOK, DueLagsBehind
<1>2. /\ \A r \in DOMAIN rows : rows[r] \in Span
      /\ DOMAIN rows \subseteq Protocols \X Nat
  BY DEF TypeOK
<1>3. rows' = [k \in DOMAIN rows \cup recorded |->
                  IF k \in recorded THEN Upserted(k, span) ELSE rows[k]]
  BY DEF RecordSession
<1>4. /\ DOMAIN rows' = DOMAIN rows \cup recorded
      /\ \A r \in recorded : rows'[r] = Upserted(r, span)
      /\ \A r \in DOMAIN rows \ recorded : rows'[r] = rows[r]
  BY <1>3
<1>5. \A r \in recorded : r \in Protocols \X Nat /\ r[2] = s
  BY <1>1
<1>6. \A p \in Protocols \ refused : <<p, s>> \in recorded
  OBVIOUS
<1> HIDE DEF recorded, span
<1>7. ASSUME NEW r \in DOMAIN rows
      PROVE  r[2] \in DOMAIN lastSpan /\ lastSpan[r[2]] \in Span
             /\ Within(rows[r], lastSpan[r[2]])
  <2>1. r = <<r[1], r[2]>> /\ r[1] \in Protocols /\ r[2] \in Nat
    BY <1>2
  <2>2. r[2] \in DOMAIN lastSpan /\ Within(rows[r], lastSpan[r[2]])
    BY <2>1 DEF RowsWithin
  <2> QED
    BY <2>2 DEF TypeOK
<1>8. ASSUME NEW r \in recorded
      PROVE  /\ rows'[r] \in Span /\ Within(span, rows'[r])
             /\ r \in DOMAIN rows => Within(rows[r], rows'[r])
             /\ Within(rows'[r], lastSpan[s])
  <2>1. r \in DOMAIN rows => Within(rows[r], lastSpan[s])
    BY <1>5, <1>7
  <2> QED
    BY <1>1, <1>2, <1>4, <2>1, UpsertIsLeast
<1>9. ASSUME NEW r \in DOMAIN rows' 
      PROVE  /\ rows'[r] \in Span
             /\ r[2] \in DOMAIN lastSpan /\ Within(rows'[r], lastSpan[r[2]])
  <2>1. CASE r \in recorded
    BY <1>1, <1>5, <1>8, <2>1
  <2>2. CASE r \notin recorded
    BY <1>2, <1>4, <1>7, <2>2
  <2> QED
    BY <2>1, <2>2
<1>10. ASSUME NEW r \in DOMAIN rows PROVE Within(rows[r], rows'[r])
  <2>1. CASE r \in recorded
    BY <1>8, <2>1
  <2>2. CASE r \notin recorded
    BY <1>2, <1>4, <2>2, WithinOrder
  <2> QED
    BY <2>1, <2>2
<1>11. \A p \in Protocols \ refused : <<p, s>> \in DOMAIN rows' /\ Within(span, rows'[<<p, s>>])
  BY <1>4, <1>6, <1>8
<1>12. DOMAIN rows' \subseteq Protocols \X Nat /\ DOMAIN rows \subseteq DOMAIN rows'
  BY <1>2, <1>4, <1>5
<1> QED
  BY <1>9, <1>10, <1>11, <1>12 DEF span

\* Writing one session, in whole or in part, forgets no span: a row that held a
\* last span still holds exactly it, and `written` follows a whole write only.
LEMMA RecordKeeps ==
    ASSUME IInv, NEW s \in unwritten, NEW refused \in SUBSET Protocols,
           RecordSession(s, refused), UNCHANGED others
    PROVE  IInv'
<1> USE DEF IInv
<1>1. /\ ranges' = ranges /\ due' = due /\ recorder' = recorder
      /\ unwritten' = unwritten \ {s} /\ UNCHANGED others
      /\ failures' = failures + Cardinality(refused)
      /\ written' = IF refused = {} THEN Put(written, s, due[s].span) ELSE written
  BY DEF RecordSession
<1>2. s \in Nat /\ due[s].span \in Span
  BY DEF TypeOK
<1>3. /\ DOMAIN rows' \subseteq Protocols \X Nat
      /\ DOMAIN rows \subseteq DOMAIN rows'
      /\ \A r \in DOMAIN rows' :
            /\ rows'[r] \in Span
            /\ r[2] \in DOMAIN lastSpan /\ Within(rows'[r], lastSpan[r[2]])
      /\ \A r \in DOMAIN rows : Within(rows[r], rows'[r])
      /\ \A p \in Protocols \ refused :
            <<p, s>> \in DOMAIN rows' /\ Within(due[s].span, rows'[<<p, s>>])
  BY RecordWidensRows
<1>4. failures' \in Nat
  <2>1. IsFiniteSet(refused)
    BY ProtocolsAssumption, FS_Subset
  <2> QED
    BY <1>1, <2>1, FS_CardinalityType DEF TypeOK
<1>5. /\ DOMAIN written' \subseteq Nat
      /\ \A k \in DOMAIN written' : written'[k] \in Span
  BY <1>1, <1>2 DEF TypeOK, Put
<1>6. TypeOK'
  <2>1. running' \in BOOLEAN /\ stop' \in BOOLEAN
    BY Zenon DEF TypeOK, others
  <2> QED
    BY <1>1, <1>3, <1>4, <1>5, <2>1 DEF TypeOK, others
<1>7. RangesAreLatest' /\ DueLagsBehind'
  BY <1>1 DEF RangesAreLatest, DueLagsBehind, Over, others
<1>8. RowsWithin'
  <2> SUFFICES ASSUME NEW p \in Protocols, NEW k \in Nat, <<p, k>> \in DOMAIN rows'
               PROVE  k \in DOMAIN lastSpan /\ Within(rows'[<<p, k>>], lastSpan[k])
    BY DEF RowsWithin, others
  <2>1. <<p, k>>[2] = k
    OBVIOUS
  <2> QED
    BY <1>3, <2>1
<1>9. ASSUME NEW p \in Protocols, NEW k \in DOMAIN written
      PROVE  <<p, k>> \in DOMAIN rows' /\ Within(written[k], rows'[<<p, k>>])
  <2>1. <<p, k>> \in DOMAIN rows /\ Within(written[k], rows[<<p, k>>])
    BY DEF WrittenIsRecorded
  <2>2. written[k] \in Span /\ rows[<<p, k>>] \in Span /\ rows'[<<p, k>>] \in Span
    BY <1>3, <2>1 DEF TypeOK
  <2> QED
    BY <1>3, <2>1, <2>2, WithinOrder
<1>10. WrittenIsRecorded'
  <2>1. CASE refused = {}
    <3>1. /\ DOMAIN written' = DOMAIN written \cup {s}
          /\ written'[s] = due[s].span
          /\ \A k \in DOMAIN written : k # s => written'[k] = written[k]
      BY <1>1, <2>1 DEF Put
    <3> QED
      BY <1>3, <1>9, <2>1, <3>1 DEF WrittenIsRecorded
  <2>2. CASE refused # {}
    BY <1>1, <1>9, <2>2 DEF WrittenIsRecorded
  <2> QED
    BY <2>1, <2>2
<1>11. NoSpanIsForgotten'
  <2> SUFFICES ASSUME NEW k \in DOMAIN lastSpan,
                      ~(k \in DOMAIN ranges /\ ranges[k].span = lastSpan[k]),
                      NEW p \in Protocols
               PROVE  <<p, k>> \in DOMAIN rows' /\ rows'[<<p, k>>] = lastSpan[k]
    BY <1>1 DEF NoSpanIsForgotten, others
  <2>1. <<p, k>> \in DOMAIN rows /\ rows[<<p, k>>] = lastSpan[k]
    BY DEF NoSpanIsForgotten
  <2>2. <<p, k>>[2] = k
    OBVIOUS
  <2>3. /\ <<p, k>> \in DOMAIN rows' /\ rows'[<<p, k>>] \in Span /\ lastSpan[k] \in Span
        /\ Within(lastSpan[k], rows'[<<p, k>>]) /\ Within(rows'[<<p, k>>], lastSpan[k])
    BY <1>3, <2>1, <2>2 DEF TypeOK
  <2> QED
    BY <2>3, WithinOrder
<1> QED
  BY <1>6, <1>7, <1>8, <1>10, <1>11

\* `forget` removes a session only when its last span is in every row, and the
\* next reading is what is left.
LEMMA CloseKeeps ==
    ASSUME IInv, CloseWrite, UNCHANGED others
    PROVE  IInv'
<1> USE DEF IInv
<1>1. /\ ranges' = Without(ranges, Finished) /\ written' = Without(written, Finished)
      /\ unwritten = {} /\ unwritten' = unwritten /\ rows' = rows /\ failures' = failures
      /\ UNCHANGED others
      /\ recorder' \in {"idle", "done"} /\ due' \in {due, ranges'}
  BY DEF CloseWrite
<1>2. /\ DOMAIN ranges' = DOMAIN ranges \ Finished
      /\ \A k \in DOMAIN ranges' : ranges'[k] = ranges[k]
      /\ DOMAIN written' = DOMAIN written \ Finished
      /\ \A k \in DOMAIN written' : written'[k] = written[k]
  BY <1>1 DEF Without
<1>3. TypeOK'
  <2>1. running' \in BOOLEAN /\ stop' \in BOOLEAN
    BY Zenon DEF TypeOK, others
  <2>2. /\ DOMAIN due' \subseteq Nat
        /\ \A k \in DOMAIN due' : due'[k] \in [span : Span, ended : BOOLEAN]
    BY <1>1, <1>2 DEF TypeOK
  <2> QED
    BY <1>1, <1>2, <2>1, <2>2 DEF TypeOK, others
<1>4. RangesAreLatest'
  BY <1>1, <1>2 DEF RangesAreLatest, Over, others
<1>5. DueLagsBehind'
  <2>1. CASE due' = due
    BY <1>1, <2>1 DEF DueLagsBehind, Over, others
  <2>2. CASE due' = ranges'
    <3> SUFFICES ASSUME NEW k \in DOMAIN ranges'
                 PROVE  /\ k \in DOMAIN lastSpan /\ Within(ranges'[k].span, lastSpan[k])
                        /\ ranges'[k].ended => Over(k)' /\ ranges'[k].span = lastSpan[k]
      BY <2>2 DEF DueLagsBehind, others
    <3>1. /\ k \in DOMAIN lastSpan /\ ranges'[k].span = lastSpan[k]
          /\ ranges'[k].ended => Over(k)'
      BY <1>4 DEF RangesAreLatest, others
    <3>2. lastSpan[k] \in Span
      BY <3>1 DEF TypeOK
    <3> QED
      BY <3>1, <3>2, WithinOrder
  <2> QED
    BY <1>1, <2>1, <2>2
<1>6. RowsWithin' /\ WrittenIsRecorded'
  BY <1>1, <1>2 DEF RowsWithin, WrittenIsRecorded, others
<1>7. ASSUME NEW k \in Finished, NEW p \in Protocols
      PROVE  k \in DOMAIN lastSpan /\ <<p, k>> \in DOMAIN rows /\ rows[<<p, k>>] = lastSpan[k]
  <2>1. /\ k \in DOMAIN due /\ due[k].ended
        /\ k \in DOMAIN written /\ written[k] = due[k].span
    BY DEF Finished
  <2>2. k \in DOMAIN lastSpan /\ written[k] = lastSpan[k] /\ k \in Nat
    BY <2>1 DEF DueLagsBehind, TypeOK
  <2>3. <<p, k>> \in DOMAIN rows /\ Within(lastSpan[k], rows[<<p, k>>])
    BY <2>1, <2>2 DEF WrittenIsRecorded
  <2>4. Within(rows[<<p, k>>], lastSpan[k])
    BY <2>2, <2>3 DEF RowsWithin
  <2>5. rows[<<p, k>>] \in Span /\ lastSpan[k] \in Span
    BY <2>2, <2>3 DEF TypeOK
  <2> QED
    BY <2>2, <2>3, <2>4, <2>5, WithinOrder
<1>8. NoSpanIsForgotten'
  <2> SUFFICES ASSUME NEW k \in DOMAIN lastSpan,
                      ~(k \in DOMAIN ranges' /\ ranges'[k].span = lastSpan[k]),
                      NEW p \in Protocols
               PROVE  <<p, k>> \in DOMAIN rows /\ rows[<<p, k>>] = lastSpan[k]
    BY <1>1 DEF NoSpanIsForgotten, others
  <2>1. CASE k \in Finished
    BY <1>7, <2>1
  <2>2. CASE k \notin Finished
    BY <1>2, <2>2 DEF NoSpanIsForgotten
  <2> QED
    BY <2>1, <2>2
<1> QED
  BY <1>3, <1>4, <1>5, <1>6, <1>8

-----------------------------------------------------------------------------
(***************************************************************************)
(* The theorems.                                                           *)
(***************************************************************************)

\* No session has published anything and no row is there.
LEMMA InitRecording == Init => IInv
<1> SUFFICES ASSUME Init PROVE IInv
  OBVIOUS
<1>1. /\ DOMAIN ranges = {} /\ DOMAIN due = {} /\ DOMAIN written = {}
      /\ DOMAIN rows = {} /\ DOMAIN lastSpan = {} /\ unwritten = {}
      /\ recorder = "idle" /\ failures = 0 /\ current = 1
  BY DEF Init, RecorderInit
<1>2. running \in BOOLEAN /\ stop \in BOOLEAN
  BY Zenon DEF Init
<1> QED
  BY <1>1, <1>2 DEF IInv, TypeOK, RangesAreLatest, DueLagsBehind, RowsWithin,
                    WrittenIsRecorded, NoSpanIsForgotten

\* Every step of the sessions and of the recorder keeps the invariant.
LEMMA NextRecording == IInv /\ [Next]_vars => IInv'
<1> SUFFICES ASSUME IInv, [Next]_vars PROVE IInv'
  OBVIOUS
<1>1. CASE SessionPublishes
  BY <1>1, PublishKeeps
<1>2. CASE SessionEnds
  BY <1>2, EndKeeps
<1>3. CASE NextSessionStarts \/ StopRequested
  BY <1>3, SessionsKeep
<1>4. CASE Tick \/ Stop
  BY <1>4, OpenKeeps DEF Tick, Stop
<1>5. CASE Record
  BY <1>5, RecordKeeps DEF Record
<1>6. CASE Read
  BY <1>6, CloseKeeps DEF Read
<1>7. CASE UNCHANGED vars
  BY <1>7 DEF vars, recorderVars, IInv, TypeOK, RangesAreLatest, DueLagsBehind, RowsWithin,
              WrittenIsRecorded, NoSpanIsForgotten, Over
<1> QED
  BY <1>1, <1>2, <1>3, <1>4, <1>5, <1>6, <1>7 DEF Next, RecorderStep

\* The invariant of every run of the sessions and the recorder.
LEMMA RecordingInvariant == Spec => []IInv
  BY InitRecording, NextRecording, PTL DEF Spec

\* No span, pending or in a row, is ever inverted, whatever rows fail to be
\* written and however sessions and ticks interleave.
THEOREM RecordingTyped == Spec => []TypeOK
  BY RecordingInvariant, PTL DEF IInv

\* A session's last span stays in `ranges` until every protocol's row holds
\* exactly it, for any number of sessions, protocols and failed rows.
THEOREM RecordingForgetsNoSpan == Spec => []NoSpanIsForgotten
  BY RecordingInvariant, PTL DEF IInv

\* A row never says more than its session received and never gives slots back,
\* at any step.
THEOREM RecordingRowsGrowWithin == Spec => RowsWithinSpans
<1> DEFINE RowsStep == /\ \A r \in DOMAIN rows' :
                            /\ r[2] \in DOMAIN lastSpan
                            /\ lastSpan[r[2]].first <= rows'[r].first
                            /\ rows'[r].last <= lastSpan[r[2]].last
                       /\ \A r \in DOMAIN rows :
                            /\ r \in DOMAIN rows'
                            /\ rows'[r].first <= rows[r].first
                            /\ rows[r].last <= rows'[r].last
<1>1. IInv /\ [Next]_vars => [RowsStep]_vars
  <2> SUFFICES ASSUME IInv, [Next]_vars PROVE RowsStep
    OBVIOUS
  <2>1. CASE Record
    <3>1. PICK s \in unwritten, refused \in SUBSET Protocols : RecordSession(s, refused)
      BY <2>1 DEF Record
    <3> QED
      BY <3>1, RecordWidensRows DEF Within
  <2>2. CASE rows' = rows
    <3>1. ASSUME NEW r \in DOMAIN rows
          PROVE  /\ r[2] \in DOMAIN lastSpan /\ Within(rows[r], lastSpan[r[2]])
                 /\ Within(rows[r], rows[r])
      <4>1. r = <<r[1], r[2]>> /\ r[1] \in Protocols /\ r[2] \in Nat /\ rows[r] \in Span
        BY DEF IInv, TypeOK
      <4> QED
        BY <4>1, WithinOrder DEF IInv, RowsWithin
    <3> QED
      BY <2>2, <3>1 DEF Within
  <2> QED
    BY <2>1, <2>2 DEF Next, vars, recorderVars, SessionPublishes, SessionEnds,
       NextSessionStarts, StopRequested, RecorderStep, Tick, Stop, OpenWrite, Read, CloseWrite
<1>2. Spec => [][RowsStep]_vars
  BY <1>1, RecordingInvariant, PTL DEF Spec
<1> QED
  BY <1>2 DEF RowsWithinSpans
=============================================================================
