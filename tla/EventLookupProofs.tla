------------------------- MODULE EventLookupProofs -------------------------
(***************************************************************************)
(* Proofs about EventStore and the lists of EventLookup that read it, for  *)
(* every history, every sequence of releases, and any number of            *)
(* deliveries, failed statements and restarts.                             *)
(***************************************************************************)
EXTENDS EventLookup, FiniteSetTheorems, SequenceTheorems, TLAPS

-----------------------------------------------------------------------------
(***************************************************************************)
(* The inductive invariant.                                                *)
(***************************************************************************)

\* The event of a payload, whatever the release that reads it.
Raw(s) == ExtractAnchorEventCpis(history[s].payloads)
EventOf(s, k) == DomainEvent(s, [event_index |-> k - 1, payload |-> Raw(s)[k]])
Events ==
    UNION {{EventOf(s, k) : k \in {j \in DOMAIN Raw(s) : Raw(s)[j].kind \in Kinds}} :
           s \in Signatures}

Positions == Nat \X Nat \X Nat

StoreTyped ==
    /\ scenario \in Scenarios
    /\ release \in DOMAIN Releases
    /\ current = [p \in Pools |-> current[p]]
    /\ \A p \in Pools : current[p].position \in Positions

\* A row is that of a payload, and says nothing of the release that stored it.
RowsAreOfPayloads == tables \subseteq {RowOf(e) : e \in Events}

Accounted(e) == RowOf(e) \in tables \/ EventId(e) \in counted

\* The pool's state is at least as new as the event.
Shows(e) ==
    e.kind \in {"swap2", "liquidity_change"} =>
        ~Before(current[e.pool].position, EventPosition(e))

\* The first n events of a delivery are done with; and show in the states.
DoneWith(s, r, n) == \A k \in 1 .. n : Accounted(OutcomeEvents(s, r)[k])
ShownBy(s, r, n) == \A k \in 1 .. n : Shows(OutcomeEvents(s, r)[k])

\* The delivery in hand holds the events left of its transaction; the n before
\* them are done with, and the one in hand is stored once its insert is behind.
Jobs == [signature : Signatures, events : Seq(Events), step : Nat, clean : BOOLEAN]
Follows(s, r, n) ==
    /\ job.signature = s /\ release = r
    /\ Len(OutcomeEvents(s, r)) = n + Len(job.events)
    /\ \A i \in 1 .. Len(job.events) : job.events[i] = OutcomeEvents(s, r)[n + i]
    /\ DoneWith(s, r, n)
    /\ job.clean => ShownBy(s, r, n)
Holds(e) ==
    /\ InHand = e
    /\ job.step \in 1 .. Len(Recipe(e.kind))
    /\ \A j \in 1 .. (job.step - 1) : Recipe(e.kind)[j] = "insert" => RowOf(e) \in tables
JobFollowsOutcome ==
    job # Idle =>
        /\ job \in Jobs /\ job.events # <<>>
        /\ \E s \in Signatures, r \in DOMAIN Releases, n \in Nat : Follows(s, r, n)
        /\ \E e \in Events : Holds(e)

IsDone(f) ==
    /\ f.signature \in Signatures /\ f.release \in DOMAIN Releases
    /\ \E n \in Nat : /\ Len(OutcomeEvents(f.signature, f.release)) = n
                      /\ DoneWith(f.signature, f.release, n)
                      /\ f.clean => ShownBy(f.signature, f.release, n)
FinishedAreDone == \A f \in finished : IsDone(f)

\* A state is that of an event stored.
StateIsStored ==
    \A p \in Pools : current[p] # NoState =>
        \E e \in Events :
            /\ RowOf(e) \in tables /\ e.pool = p
            /\ current[p].signature = e.signature
            /\ current[p].position[3] = e.event_index
            /\ current[p].reserves = <<e.numbers.reserve_a_after, e.numbers.reserve_b_after>>

IInv ==
    /\ StoreTyped /\ RowsAreOfPayloads /\ JobFollowsOutcome
    /\ FinishedAreDone /\ StateIsStored

-----------------------------------------------------------------------------
(***************************************************************************)
(* Extraction.                                                             *)
(***************************************************************************)

\* What is selected is a list of the entries at the positions asked for.
LEMMA SelectedIsOfList ==
    ASSUME NEW list, NEW at \in SUBSET Nat, IsFiniteSet(at)
    PROVE  /\ Cardinality(at) \in Nat
           /\ DOMAIN Selected(list, at) = 1 .. Cardinality(at)
           /\ \A i \in 1 .. Cardinality(at) : \E k \in at : Selected(list, at)[i] = list[k]
<1> DEFINE c == Cardinality(at)
           Below(k) == {j \in at : j < k}
           R == [k \in at |-> Cardinality(Below(k))]
<1>1. IsFiniteSet(at) /\ c \in Nat
  BY FS_CardinalityType
<1>2. IsFiniteSet(0 .. (c - 1)) /\ Cardinality(0 .. (c - 1)) = c
  <2>1. c - 1 \in Int /\ 0 \in Int
    BY <1>1
  <2> HIDE DEF c
  <2> QED
    BY <1>1, <2>1, FS_Interval
<1>3. ASSUME NEW k \in at PROVE IsFiniteSet(Below(k)) /\ R[k] \in 0 .. (c - 1)
  <2>1. Below(k) \subseteq at /\ k \notin Below(k) /\ k \in Nat
    OBVIOUS
  <2>2. /\ IsFiniteSet(Below(k)) /\ Cardinality(Below(k)) <= c
        /\ Cardinality(Below(k)) = c => Below(k) = at
    <3> HIDE DEF Below
    <3> QED
      BY <1>1, <2>1, FS_Subset
  <2>3. Cardinality(Below(k)) \in Nat
    BY <2>2, FS_CardinalityType
  <2>4. R[k] = Cardinality(Below(k))
    OBVIOUS
  <2> HIDE DEF Below, R, c
  <2> QED
    BY <1>1, <2>1, <2>2, <2>3, <2>4
<1>4. ASSUME NEW j \in at, NEW k \in at, j < k PROVE R[j] # R[k]
  <2>0. \A x \in at : x \in Nat
    OBVIOUS
  <2>1. j \in Nat /\ k \in Nat /\ j \in Below(k) /\ j \notin Below(j)
    BY <1>4, <2>0
  <2>4. \A x \in at : x < j => x < k
    BY <1>4, <2>0, <2>1
  <2>5. Below(j) \subseteq Below(k)
    BY <2>4
  <2>2. IsFiniteSet(Below(k))
    BY <1>3
  <2>3. R[j] = Cardinality(Below(j)) /\ R[k] = Cardinality(Below(k))
    OBVIOUS
  <2> HIDE DEF Below, R
  <2> QED
    BY <2>1, <2>2, <2>3, <2>5, FS_Subset
<1>5. R \in Injection(at, 0 .. (c - 1))
  <2>1. \A k \in at : R[k] \in 0 .. (c - 1)
    BY <1>3
  <2>2. R \in [at -> 0 .. (c - 1)]
    BY <2>1
  <2>3. \A j, k \in at : j < k \/ k < j \/ j = k
    OBVIOUS
  <2> HIDE DEF R
  <2>4. \A j, k \in at : R[j] = R[k] => j = k
    BY <1>4, <2>3
  <2> QED
    BY <2>2, <2>4 DEF Injection, IsInjective
<1>6. R \in Surjection(at, 0 .. (c - 1))
  <2> HIDE DEF R
  <2> QED
    BY <1>1, <1>2, <1>5, FS_Injection
<1>7. ASSUME NEW i \in 1 .. c PROVE \E k \in at : Cardinality(Below(k)) = i - 1
  <2>1. i - 1 \in 0 .. (c - 1)
    <3> HIDE DEF c
    <3> QED
      BY <1>1
  <2>2. \E k \in at : R[k] = i - 1
    <3> HIDE DEF R
    <3> QED
      BY <1>6, <2>1 DEF Surjection
  <2> QED
    BY <2>2
<1>8. ASSUME NEW i \in 1 .. c
      PROVE  \E k \in at : Selected(list, at)[i] = list[k]
  <2> DEFINE k == CHOOSE k \in at : Cardinality(Below(k)) = i - 1
  <2>1. k \in at
    <3> HIDE DEF Below
    <3> QED
      BY <1>7
  <2>2. Selected(list, at)[i] = list[k]
    BY DEF Selected
  <2> QED
    BY <2>1, <2>2
<1>9. DOMAIN Selected(list, at) = 1 .. Cardinality(at)
  BY DEF Selected
<1> QED
  BY <1>1, <1>8, <1>9

\* The payloads of a transaction are listed, each with a pool and a kind.
LEMMA RawIsAList ==
    ASSUME scenario \in Scenarios, NEW s \in Signatures
    PROVE  \E n \in Nat : /\ DOMAIN Raw(s) = 1 .. n
                          /\ \A k \in 1 .. n : Raw(s)[k] \in WirePayloads(Pools)
<1> DEFINE payloads == history[s].payloads
           at == {k \in DOMAIN payloads : payloads[k].to}
<1>1. payloads \in Seq(WirePayloads(Pools))
  BY HistoriesAssumption DEF Signatures, history
<1> HIDE DEF payloads
<1>2. PICK n \in Nat : DOMAIN payloads = 1 .. n
  BY <1>1
<1>3. at \subseteq 1 .. n /\ \A k \in at : payloads[k] \in WirePayloads(Pools)
  BY <1>1, <1>2
<1>6. at \in SUBSET Nat /\ IsFiniteSet(at)
  <2> HIDE DEF at
  <2>1. IsFiniteSet(1 .. n) /\ 1 .. n \subseteq Nat
    BY FS_Interval
  <2> QED
    BY <1>3, <2>1, FS_Subset
<1>4. Raw(s) = Selected(payloads, at)
  BY DEF Raw, ExtractAnchorEventCpis, payloads
<1> HIDE DEF at
<1>5. /\ Cardinality(at) \in Nat /\ DOMAIN Selected(payloads, at) = 1 .. Cardinality(at)
      /\ \A i \in 1 .. Cardinality(at) : \E k \in at : Selected(payloads, at)[i] = payloads[k]
  BY <1>6, SelectedIsOfList
<1> QED
  BY <1>3, <1>4, <1>5

\* An event names its transaction and its payload, and they are all it says.
LEMMA EventIsOfPayload ==
    ASSUME scenario \in Scenarios, NEW e \in Events
    PROVE  /\ e.signature \in Signatures
           /\ e.event_index \in Nat /\ e.event_index + 1 \in DOMAIN Raw(e.signature)
           /\ e.kind = Raw(e.signature)[e.event_index + 1].kind /\ e.kind \in Kinds
           /\ e = EventOf(e.signature, e.event_index + 1)
           /\ e.pool \in Pools
           /\ EventPosition(e) \in Positions
<1>0. PICK s \in Signatures :
        \E k \in DOMAIN Raw(s) : e = EventOf(s, k) /\ Raw(s)[k].kind \in Kinds
  BY DEF Events
<1>1. PICK k \in DOMAIN Raw(s) : e = EventOf(s, k) /\ Raw(s)[k].kind \in Kinds
  BY <1>0
<1>2. k \in Nat /\ k > 0 /\ Raw(s)[k].pool \in Pools
  BY <1>1, RawIsAList DEF WirePayloads
<1>3. /\ e.signature = s /\ e.event_index = k - 1
      /\ e.kind = Raw(s)[k].kind /\ e.pool = Raw(s)[k].pool
  BY <1>1 DEF EventOf, DomainEvent
<1>4. e.event_index + 1 = k /\ e.event_index \in Nat
  BY <1>2, <1>3
<1>5. EventPosition(e) \in Positions
  BY <1>3, <1>4, HistoriesAssumption DEF EventPosition, Positions, Signatures, history
<1> QED
  BY <1>1, <1>2, <1>3, <1>4, <1>5

\* What a release recognises are events of the history, translated, in a list.
LEMMA OutcomeIsOfEvents ==
    ASSUME scenario \in Scenarios, NEW s \in Signatures, NEW r \in DOMAIN Releases
    PROVE  /\ OutcomeEvents(s, r) \in Seq(Events)
           /\ \A k \in DOMAIN OutcomeEvents(s, r) : OutcomeEvents(s, r)[k].numbers # Failed
<1> DEFINE found == Extracted(s, r)
           at == {k \in DOMAIN found : Translated(s, found[k])}
           kept == Selected(found, at)
<1>1. PICK n \in Nat : DOMAIN Raw(s) = 1 .. n /\ \A k \in 1 .. n : Raw(s)[k] \in WirePayloads(Pools)
  BY RawIsAList
<1>2. Releases[r] \subseteq Kinds
  BY ReleasesAssumption
<1>3. /\ DOMAIN found = 1 .. n
      /\ \A k \in 1 .. n : found[k].event_index = k - 1 /\ found[k].payload = Raw(s)[k]
  BY <1>1 DEF Extracted, ExtractWireEvents, Raw
<1>4. ASSUME NEW k \in 1 .. n, found[k].fate = "recognized"
      PROVE  Raw(s)[k].kind \in Kinds
  <2> DEFINE p == Raw(s)[k]
  <2>1. p \in WirePayloads(Pools)
    BY <1>1
  <2>2. DecodeAnchorEventCpi(p) \in {"failed", "skipped", "decoded"}
    BY <2>1 DEF DecodeAnchorEventCpi, WirePayloads
  <2>3. /\ found[k].fate = IF k - 1 > MaxIndex THEN "failed"
                           ELSE IF DecodeAnchorEventCpi(p) # "decoded" THEN DecodeAnchorEventCpi(p)
                           ELSE Dispatch(p, Releases[r])
    BY <1>1 DEF Extracted, ExtractWireEvents, Raw
  <2>4. Dispatch(p, Releases[r]) = "recognized"
    <3> HIDE DEF p, found
    <3> QED
      BY <1>4, <2>2, <2>3
  <2>5. p.whole \in BOOLEAN
    BY <2>1 DEF WirePayloads
  <2>6. p.kind \in Releases[r]
    <3> HIDE DEF p
    <3> QED
      BY <2>4, <2>5 DEF Dispatch
  <2> QED
    BY <1>2, <2>6
<1>5. ASSUME NEW k \in at
      PROVE  DomainEvent(s, found[k]) \in Events /\ DomainEvent(s, found[k]).numbers # Failed
  <2>1. /\ k \in 1 .. n /\ found[k].fate = "recognized"
        /\ DomainEvent(s, found[k]).numbers # Failed
    BY <1>3 DEF Translated
  <2>2. Raw(s)[k].kind \in Kinds
    BY <1>4, <2>1
  <2>3. DomainEvent(s, found[k]) = EventOf(s, k)
    <3> HIDE DEF found
    <3> QED
      BY <1>3, <2>1 DEF DomainEvent, EventOf
  <2> QED
    BY <1>1, <2>1, <2>2, <2>3 DEF Events
<1>6. at \in SUBSET Nat /\ IsFiniteSet(at)
  <2>1. at \subseteq 1 .. n
    BY <1>3
  <2> HIDE DEF at
  <2>2. IsFiniteSet(1 .. n) /\ 1 .. n \subseteq Nat
    BY FS_Interval
  <2> QED
    BY <2>1, <2>2, FS_Subset
<1>7. OutcomeEvents(s, r) = [k \in DOMAIN kept |-> DomainEvent(s, kept[k])]
  BY DEF OutcomeEvents
<1> HIDE DEF at, found
<1>0. /\ Cardinality(at) \in Nat /\ DOMAIN Selected(found, at) = 1 .. Cardinality(at)
      /\ \A i \in 1 .. Cardinality(at) : \E k \in at : Selected(found, at)[i] = found[k]
  BY <1>6, SelectedIsOfList
<1>8. PICK c \in Nat : DOMAIN kept = 1 .. c /\ \A i \in 1 .. c : \E k \in at : kept[i] = found[k]
  BY <1>0
<1> HIDE DEF kept
<1>9. \A i \in 1 .. c : /\ DomainEvent(s, kept[i]) \in Events
                         /\ DomainEvent(s, kept[i]).numbers # Failed
  BY <1>5, <1>8
<1>10. OutcomeEvents(s, r) = [k \in 1 .. c |-> DomainEvent(s, kept[k])]
  BY <1>7, <1>8
<1> QED
  BY <1>9, <1>10

\* The history does not change, and neither does what is extracted from it.
LEMMA HistoryRests ==
    ASSUME scenario' = scenario
    PROVE  /\ Signatures' = Signatures /\ Events' = Events
           /\ \A s, r : OutcomeEvents(s, r)' = OutcomeEvents(s, r)
           /\ \A e : EventPosition(e)' = EventPosition(e)
<1>1. history' = history /\ Signatures' = Signatures
  BY DEF history, Signatures
<1>2. \A s, r : OutcomeEvents(s, r)' = OutcomeEvents(s, r)
  BY DEF OutcomeEvents, Extracted, Translated, DomainEvent, history
<1>3. \A e : EventPosition(e)' = EventPosition(e)
  BY DEF EventPosition, history
<1>4. Events' = Events
  BY DEF Events, Signatures, EventOf, Raw, DomainEvent, history
<1> QED
  BY <1>1, <1>2, <1>3, <1>4

-----------------------------------------------------------------------------
(***************************************************************************)
(* The recipes.                                                            *)
(***************************************************************************)

Projected == {"swap2", "liquidity_change"}

\* A recipe inserts; only one with reserves projects, and it does so last.
LEMMA RecipeForms ==
    ASSUME NEW kind \in Kinds
    PROVE  /\ Len(Recipe(kind)) \in Nat /\ Len(Recipe(kind)) > 1
           /\ kind \in Projected =>
                 /\ Len(Recipe(kind)) = 3
                 /\ Recipe(kind)[1] = "discover"
                 /\ Recipe(kind)[2] = "insert"
                 /\ Recipe(kind)[3] = "project"
           /\ kind \notin Projected =>
                 \A j \in 1 .. Len(Recipe(kind)) :
                     IF j = Len(Recipe(kind)) THEN Recipe(kind)[j] = "insert"
                     ELSE Recipe(kind)[j] \in {"discover", "touch", "mark"}
<1>1. kind \in {"swap2", "liquidity_change", "claim_position_fee", "claim_protocol_fee",
               "claim_reward", "initialize_reward", "fund_reward", "withdraw_ineligible_reward",
               "withdraw_dead_liquidity_reward", "update_reward_duration",
               "update_reward_funder", "split_position3", "create_position", "close_position",
               "lock_position", "permanent_lock_position", "initialize_pool",
               "set_pool_status", "update_pool_fees"}
  BY DEF Kinds, Mirrors
<1>2. \/ kind \in Projected /\ Recipe(kind) = <<"discover", "insert", "project">>
      \/ kind \notin Projected /\ Recipe(kind) = <<"discover", "insert">>
      \/ kind \notin Projected /\ Recipe(kind) = <<"touch", "mark", "insert">>
      \/ kind \notin Projected /\ Recipe(kind) = <<"touch", "insert">>
  BY <1>1 DEF Recipe, PersistSwap, PersistLiquidity, PersistInitializePool, PersistUpdatePoolFees,
     PersistClaim, PersistReward, PersistPosition, PersistSplitPosition, PersistSetPoolStatus,
     RewardChangeTables, PositionChangeTables, Projected
<1>3. CASE kind \in Projected /\ Recipe(kind) = <<"discover", "insert", "project">>
  BY <1>3
<1>4. CASE kind \notin Projected /\ Recipe(kind) = <<"discover", "insert">>
  BY <1>4
<1>5. CASE kind \notin Projected /\ Recipe(kind) = <<"touch", "mark", "insert">>
  BY <1>5
<1>6. CASE kind \notin Projected /\ Recipe(kind) = <<"touch", "insert">>
  BY <1>6
<1> QED
  BY <1>2, <1>3, <1>4, <1>5, <1>6

-----------------------------------------------------------------------------
(***************************************************************************)
(* What a step keeps.                                                      *)
(***************************************************************************)

\* A step forgets no event it had done with, and takes no state back.
Keeps ==
    /\ scenario' = scenario
    /\ \A e \in Events : Accounted(e) => Accounted(e)'
    /\ \A e \in Events : Shows(e) => Shows(e)'

\* A step that leaves rows, counts and states alone, or adds to the first two.
LEMMA GrowingKeeps ==
    ASSUME scenario' = scenario, current' = current,
           tables \subseteq tables', counted \subseteq counted'
    PROVE  Keeps
<1>1. \A e \in Events : Shows(e) => Shows(e)'
  BY HistoryRests DEF Shows
<1>2. \A e \in Events : Accounted(e) => Accounted(e)'
  BY DEF Accounted
<1> QED
  BY <1>1, <1>2 DEF Keeps

\* So the first events of a delivery stay done with.
LEMMA DoneStaysDone ==
    ASSUME scenario \in Scenarios, Keeps, NEW s \in Signatures, NEW r \in DOMAIN Releases,
           NEW n \in Nat, n <= Len(OutcomeEvents(s, r))
    PROVE  /\ DoneWith(s, r, n) => DoneWith(s, r, n)'
           /\ ShownBy(s, r, n) => ShownBy(s, r, n)'
<1> DEFINE O == OutcomeEvents(s, r)
<1>1. O \in Seq(Events) /\ OutcomeEvents(s, r)' = O
  BY OutcomeIsOfEvents, HistoryRests DEF Keeps
<1> HIDE DEF O
<1>2. \A k \in 1 .. n : O[k] \in Events
  BY <1>1 DEF O
<1>3. ASSUME DoneWith(s, r, n) PROVE DoneWith(s, r, n)'
  <2>1. \A k \in 1 .. n : Accounted(O[k])
    BY <1>3 DEF DoneWith, O
  <2>2. ASSUME NEW k \in 1 .. n PROVE Accounted(OutcomeEvents(s, r)[k])'
    <3>1. PICK e \in Events : e = O[k]
      BY <1>2
    <3>2. Accounted(e)'
      BY <2>1, <3>1 DEF Keeps
    <3> QED
      BY <1>1, <3>1, <3>2 DEF Accounted, RowOf, EventId
  <2> QED
    BY <2>2 DEF DoneWith
<1>4. ASSUME ShownBy(s, r, n) PROVE ShownBy(s, r, n)'
  <2>1. \A k \in 1 .. n : Shows(O[k])
    BY <1>4 DEF ShownBy, O
  <2>2. ASSUME NEW k \in 1 .. n PROVE Shows(OutcomeEvents(s, r)[k])'
    <3>1. PICK e \in Events : e = O[k]
      BY <1>2
    <3>2. Shows(e)'
      BY <2>1, <3>1 DEF Keeps
    <3> QED
      BY <1>1, <3>1, <3>2 DEF Shows, EventPosition
  <2> QED
    BY <2>2 DEF ShownBy
<1> QED
  BY <1>3, <1>4

\* Nothing is forgotten of the deliveries that ended.
LEMMA FinishedStay ==
    ASSUME IInv, Keeps
    PROVE  \A f \in finished : IsDone(f)'
<1> SUFFICES ASSUME NEW f \in finished PROVE IsDone(f)'
  OBVIOUS
<1>1. IsDone(f)
  BY DEF IInv, FinishedAreDone
<1>2. PICK s \in Signatures, r \in DOMAIN Releases, n \in Nat :
        /\ f.signature = s /\ f.release = r
        /\ Len(OutcomeEvents(s, r)) = n
        /\ DoneWith(s, r, n)
        /\ f.clean => ShownBy(s, r, n)
  BY <1>1 DEF IsDone
<1>3. /\ DoneWith(s, r, n)'
      /\ f.clean => ShownBy(s, r, n)'
  <2>1. scenario \in Scenarios /\ n <= Len(OutcomeEvents(s, r))
    BY <1>2 DEF IInv, StoreTyped
  <2> QED
    BY <1>2, <2>1, DoneStaysDone
<1>4. Signatures' = Signatures /\ OutcomeEvents(s, r)' = OutcomeEvents(s, r)
  BY HistoryRests DEF Keeps
<1> QED
  BY <1>2, <1>3, <1>4 DEF IsDone

\* A step that leaves the delivery in hand alone.
LEMMA JobStays ==
    ASSUME IInv, Keeps, tables \subseteq tables',
           job' = job, release' = release, finished' = finished
    PROVE  JobFollowsOutcome' /\ FinishedAreDone'
<1>1. FinishedAreDone'
  BY FinishedStay DEF FinishedAreDone
<1>2. Signatures' = Signatures /\ Events' = Events
  BY HistoryRests DEF Keeps
<1>3. ASSUME job # Idle PROVE JobFollowsOutcome'
  <2>1. /\ job \in Jobs /\ job.events # <<>>
        /\ \E s \in Signatures, r \in DOMAIN Releases, n \in Nat : Follows(s, r, n)
        /\ \E e \in Events : Holds(e)
    BY <1>3 DEF IInv, JobFollowsOutcome
  <2>2. PICK s \in Signatures, r \in DOMAIN Releases, n \in Nat : Follows(s, r, n)
    BY <2>1
  <2>3. PICK e \in Events : Holds(e)
    BY <2>1
  <2>4. Holds(e)'
    BY <2>3 DEF Holds, InHand
  <2>5. OutcomeEvents(s, r)' = OutcomeEvents(s, r)
    BY HistoryRests DEF Keeps
  <2>6. scenario \in Scenarios /\ n <= Len(OutcomeEvents(s, r))
    BY <2>1, <2>2 DEF IInv, StoreTyped, Follows, Jobs
  <2>7. Follows(s, r, n)'
    BY <2>2, <2>5, <2>6, DoneStaysDone DEF Follows
  <2> QED
    BY <1>2, <2>1, <2>4, <2>7 DEF JobFollowsOutcome, Jobs
<1>4. CASE job = Idle
  BY <1>1, <1>4 DEF JobFollowsOutcome
<1> QED
  BY <1>1, <1>3, <1>4

\* The event in hand is done with, and the delivery goes on to the next or ends.
LEMMA NextEventKeeps ==
    ASSUME IInv, Keeps, job # Idle, release' = release,
           NEW e \in Events, e = InHand, NEW clean \in BOOLEAN,
           Accounted(e)', clean => job.clean /\ Shows(e)', NextEvent(clean)
    PROVE  JobFollowsOutcome' /\ FinishedAreDone'
<1>1. /\ job \in Jobs /\ job.events # <<>>
      /\ \E s \in Signatures, r \in DOMAIN Releases, n \in Nat : Follows(s, r, n)
  BY DEF IInv, JobFollowsOutcome
<1>2. PICK s \in Signatures, r \in DOMAIN Releases, n \in Nat : Follows(s, r, n)
  BY <1>1
<1>3. PICK O : O = OutcomeEvents(s, r)
  OBVIOUS
<1>4. /\ Signatures' = Signatures /\ Events' = Events
      /\ OutcomeEvents(s, r)' = O
  BY <1>3, HistoryRests DEF Keeps
<1>5. scenario \in Scenarios /\ O \in Seq(Events)
  BY <1>3, OutcomeIsOfEvents DEF IInv, StoreTyped
<1>6. PICK q \in Seq(Events) : q = job.events
  BY <1>1 DEF Jobs
<1>7. /\ Len(O) = n + Len(q) /\ Len(q) > 0
      /\ \A i \in 1 .. Len(q) : q[i] = O[n + i]
      /\ q # <<>> /\ e = q[1]
      /\ job.signature = s /\ release = r
  BY <1>1, <1>2, <1>3, <1>6 DEF Follows, InHand
<1>8. e = O[n + 1] /\ n <= Len(O)
  BY <1>7
<1>9. DoneWith(s, r, n + 1)'
  <2>1. DoneWith(s, r, n)'
    BY <1>2, <1>3, <1>5, <1>8, DoneStaysDone DEF Follows
  <2>2. \A k \in 1 .. (n + 1) : k \in 1 .. n \/ k = n + 1
    OBVIOUS
  <2>3. Accounted(OutcomeEvents(s, r)[n + 1])'
    BY <1>4, <1>8 DEF Accounted
  <2> QED
    BY <2>1, <2>2, <2>3 DEF DoneWith
<1>10. clean => ShownBy(s, r, n + 1)'
  <2> SUFFICES ASSUME clean PROVE ShownBy(s, r, n + 1)'
    OBVIOUS
  <2>1. ShownBy(s, r, n)'
    BY <1>2, <1>3, <1>5, <1>8, DoneStaysDone DEF Follows
  <2>2. \A k \in 1 .. (n + 1) : k \in 1 .. n \/ k = n + 1
    OBVIOUS
  <2>3. Shows(OutcomeEvents(s, r)[n + 1])'
    BY <1>4, <1>8 DEF Shows, EventPosition
  <2> QED
    BY <2>1, <2>2, <2>3 DEF ShownBy
<1>11. CASE Tail(q) = <<>>
  <2>1. /\ job' = Idle
        /\ finished' = finished \cup {[signature |-> s, release |-> r, clean |-> clean]}
    BY <1>6, <1>7, <1>11 DEF NextEvent, Finish
  <2>2. Len(O) = n + 1
    <3>0. Tail(q) \in Seq(Events) /\ Len(Tail(q)) = Len(q) - 1 /\ Len(q) \in Nat
      BY <1>7
    <3>1. PICK t \in Seq(Events) : t = Tail(q) /\ Len(t) = Len(q) - 1 /\ Len(q) \in Nat
      BY <3>0, Zenon
    <3>2. Len(t) = 0
      BY <1>11, <3>1
    <3>3. Len(q) = 1
      BY <3>1, <3>2
    <3> QED
      BY <1>7, <3>3
  <2>3. PICK f : f = [signature |-> s, release |-> r, clean |-> clean]
    OBVIOUS
  <2>4. IsDone(f)'
    <3>1. /\ f.signature = s /\ f.release = r /\ f.clean = clean
      BY <2>3
    <3> QED
      BY <1>4, <1>9, <1>10, <2>2, <3>1 DEF IsDone
  <2>5. FinishedAreDone'
    BY <2>1, <2>3, <2>4, FinishedStay DEF FinishedAreDone
  <2> QED
    BY <2>1, <2>5 DEF JobFollowsOutcome
<1>12. CASE Tail(q) # <<>>
  <2>1. /\ job' = [job EXCEPT !.events = Tail(q), !.step = 1, !.clean = clean]
        /\ finished' = finished
    BY <1>6, <1>12 DEF NextEvent
  <2>2. /\ job' \in Jobs /\ job'.signature = s /\ job'.events = Tail(q)
        /\ job'.step = 1 /\ job'.clean = clean
    <3>1. job' = [signature |-> s, events |-> Tail(q), step |-> 1, clean |-> clean]
      BY <1>1, <1>7, <2>1 DEF Jobs
    <3>2. Tail(q) \in Seq(Events)
      BY <1>7
    <3> QED
      BY <3>1, <3>2 DEF Jobs
  <2>3. PICK d \in Events : d = q[2]
    BY <1>7, <1>12
  <2>4. Holds(d)'
    <3>1. InHand' = d
      BY <1>7, <1>12, <2>2, <2>3 DEF InHand
    <3>2. 1 \in 1 .. Len(Recipe(d.kind))
      <4>1. d.kind \in Kinds
        BY <1>5, EventIsOfPayload
      <4> QED
        BY <4>1, RecipeForms
    <3> QED
      BY <2>2, <3>1, <3>2 DEF Holds
  <2>5. Follows(s, r, n + 1)'
    <3>1. Len(O) = (n + 1) + Len(Tail(q)) /\ \A i \in 1 .. Len(Tail(q)) : Tail(q)[i] = O[(n + 1) + i]
      BY <1>7
    <3> QED
      BY <1>4, <1>7, <1>9, <1>10, <2>2, <3>1 DEF Follows
  <2>6. FinishedAreDone'
    BY <2>1, FinishedStay DEF FinishedAreDone
  <2>7. job' \in Jobs' /\ job'.events # <<>>
    BY <1>4, <1>12, <2>2 DEF Jobs
  <2> QED
    BY <1>4, <2>4, <2>5, <2>6, <2>7 DEF JobFollowsOutcome
<1> QED
  BY <1>11, <1>12

\* A step of the recipe is behind, and the delivery goes on.
LEMMA NextStepKeeps ==
    ASSUME IInv, Keeps, job # Idle, release' = release, tables \subseteq tables',
           NEW e \in Events, e = InHand, NEW clean \in BOOLEAN,
           Recipe(e.kind)[job.step] = "insert" => RowOf(e) \in tables',
           clean => job.clean,
           clean /\ job.step = Len(Recipe(e.kind)) => Shows(e)',
           NextStep(clean)
    PROVE  JobFollowsOutcome' /\ FinishedAreDone'
<1>1. /\ job \in Jobs /\ job.events # <<>>
      /\ \E s \in Signatures, r \in DOMAIN Releases, n \in Nat : Follows(s, r, n)
      /\ Holds(e)
  BY DEF IInv, JobFollowsOutcome, Holds
<1>2. PICK s \in Signatures, r \in DOMAIN Releases, n \in Nat : Follows(s, r, n)
  BY <1>1
<1>3. PICK recipe : recipe = Recipe(e.kind)
  OBVIOUS
<1>4. /\ job.step \in 1 .. Len(recipe)
      /\ \A j \in 1 .. (job.step - 1) : recipe[j] = "insert" => RowOf(e) \in tables
  BY <1>1, <1>3 DEF Holds
<1>5. e.kind \in Kinds
  BY EventIsOfPayload DEF IInv, StoreTyped
<1>6. CASE job.step = Len(recipe)
  <2>1. RowOf(e) \in tables'
    <3>1. CASE e.kind \in Projected
      <4>1. 2 \in 1 .. (job.step - 1) /\ recipe[2] = "insert"
        BY <1>3, <1>5, <1>6, <3>1, RecipeForms
      <4> QED
        BY <1>4, <4>1
    <3>2. CASE e.kind \notin Projected
      <4>1. Len(recipe) \in 1 .. Len(recipe)
        BY <1>3, <1>5, RecipeForms
      <4>2. recipe[Len(recipe)] = "insert"
        BY <1>3, <1>5, <3>2, <4>1, RecipeForms
      <4> QED
        BY <1>3, <1>6, <4>2
    <3> QED
      BY <3>1, <3>2
  <2>2. Accounted(e)'
    BY <2>1 DEF Accounted, RowOf
  <2>3. NextEvent(clean)
    BY <1>3, <1>6 DEF NextStep
  <2> QED
    BY <1>3, <1>6, <2>2, <2>3, NextEventKeeps
<1>7. CASE job.step # Len(recipe)
  <2>1. job' = [job EXCEPT !.step = job.step + 1, !.clean = clean] /\ finished' = finished
    BY <1>3, <1>7 DEF NextStep
  <2>2. /\ Signatures' = Signatures /\ Events' = Events
        /\ OutcomeEvents(s, r)' = OutcomeEvents(s, r)
    BY HistoryRests DEF Keeps
  <2>3. /\ job' \in Jobs /\ job'.signature = job.signature /\ job'.events = job.events
        /\ job'.step = job.step + 1 /\ job'.clean = clean
    <3>1. job' = [signature |-> job.signature, events |-> job.events, step |-> job.step + 1,
                  clean |-> clean]
      BY <1>1, <2>1 DEF Jobs
    <3>2. job.signature \in Signatures /\ job.events \in Seq(Events) /\ job.step + 1 \in Nat
      BY <1>1 DEF Jobs
    <3> QED
      BY <3>1, <3>2 DEF Jobs
  <2>4. Holds(e)'
    <3>1. InHand' = e
      BY <2>3 DEF InHand
    <3>2. job.step \in Nat /\ Len(recipe) \in Nat /\ job'.step \in 1 .. Len(recipe)
      BY <1>1, <1>3, <1>4, <1>5, <1>7, <2>3, RecipeForms DEF Jobs
    <3>3. ASSUME NEW j \in 1 .. (job'.step - 1), recipe[j] = "insert" PROVE RowOf(e) \in tables'
      <4>1. j \in 1 .. (job.step - 1) \/ j = job.step
        BY <2>3, <3>2
      <4> QED
        BY <1>3, <1>4, <3>3, <4>1
    <3>4. RowOf(e)' = RowOf(e)
      BY DEF RowOf
    <3> QED
      BY <1>3, <3>1, <3>2, <3>3, <3>4 DEF Holds
  <2>5. scenario \in Scenarios /\ n <= Len(OutcomeEvents(s, r))
    BY <1>1, <1>2 DEF IInv, StoreTyped, Follows, Jobs
  <2>6. Follows(s, r, n)'
    BY <1>2, <2>2, <2>3, <2>5, DoneStaysDone DEF Follows
  <2>7. FinishedAreDone'
    BY <2>1, FinishedStay DEF FinishedAreDone
  <2>8. job' \in Jobs' /\ job'.events # <<>>
    BY <1>1, <2>2, <2>3 DEF Jobs
  <2> QED
    BY <2>2, <2>4, <2>6, <2>7, <2>8 DEF JobFollowsOutcome
<1> QED
  BY <1>6, <1>7

-----------------------------------------------------------------------------
(***************************************************************************)
(* The actions.                                                            *)
(***************************************************************************)

\* After an insert the event's row is there, also when a row with its key was.
LEMMA InsertedStores ==
    ASSUME IInv, NEW e \in Events
    PROVE  /\ tables \subseteq Inserted(e) /\ RowOf(e) \in Inserted(e)
           /\ Inserted(e) \subseteq {RowOf(x) : x \in Events}
<1>1. ASSUME Skipped(e) PROVE RowOf(e) \in tables
  <2>1. PICK row \in tables : row.kind = e.kind /\ KeyOf(row) = KeyOf(e)
    BY <1>1 DEF Skipped
  <2>2. PICK x \in Events : row = RowOf(x)
    BY DEF IInv, RowsAreOfPayloads
  <2>3. row.signature = e.signature /\ row.event_index = e.event_index
    BY <2>1 DEF KeyOf
  <2>4. x.signature = e.signature /\ x.event_index = e.event_index
    BY <2>2, <2>3 DEF RowOf
  <2>5. scenario \in Scenarios
    BY DEF IInv, StoreTyped
  <2>6. x = EventOf(x.signature, x.event_index + 1) /\ e = EventOf(e.signature, e.event_index + 1)
    BY <2>5, EventIsOfPayload
  <2> QED
    BY <2>2, <2>4, <2>6
<1> QED
  BY <1>1 DEF Inserted, IInv, RowsAreOfPayloads

\* Positions are ordered, and from the first one on.
LEMMA PositionsAreOrdered ==
    /\ \A a \in Positions : ~Before(a, a)
    /\ \A a, b, c \in Positions : Before(a, b) /\ Before(b, c) => Before(a, c)
    /\ \A a, b \in Positions : ~Before(<<0, 0, 0>>, b) => ~Before(a, b)
  BY DEF Positions, Before

\* The upsert leaves a state at least as new as the event and as every event the
\* state showed before.
LEMMA UpsertShows ==
    ASSUME IInv, NEW e \in Events, scenario' = scenario, current' = UpsertCurrentState(e)
    PROVE  /\ Shows(e)'
           /\ \A x \in Events : Shows(x) => Shows(x)'
           /\ current' = [p \in Pools |-> current'[p]]
           /\ \A p \in Pools : current'[p].position \in Positions
<1>1. scenario \in Scenarios
  BY DEF IInv, StoreTyped
<1>2. /\ current = [p \in Pools |-> current[p]]
      /\ \A p \in Pools : current[p].position \in Positions
  BY DEF IInv, StoreTyped
<1>3. e.pool \in Pools /\ EventPosition(e) \in Positions
  BY <1>1, EventIsOfPayload
<1>4. \A x \in Events : x.pool \in Pools /\ EventPosition(x) \in Positions
  BY <1>1, EventIsOfPayload
<1>5. \A x : EventPosition(x)' = EventPosition(x)
  BY HistoryRests
<1>6. CASE current' = current /\ ~Before(current[e.pool].position, EventPosition(e))
  BY <1>2, <1>5, <1>6 DEF Shows
<1>7. CASE /\ current' = [current EXCEPT ![e.pool] = StateAfter(e)]
           /\ current[e.pool] = NoState \/ Before(current[e.pool].position, EventPosition(e))
  <2>1. StateAfter(e).position = EventPosition(e)
    BY DEF StateAfter
  <2> HIDE DEF StateAfter
  <2>2. /\ current' = [p \in Pools |-> current'[p]]
        /\ current'[e.pool].position = EventPosition(e)
        /\ \A p \in Pools : p # e.pool => current'[p] = current[p]
    BY <1>2, <1>3, <1>7, <2>1
  <2>3. \A p \in Pools : current'[p].position \in Positions
    BY <1>2, <1>3, <2>2
  <2>4. Shows(e)'
    BY <1>3, <1>5, <2>2, PositionsAreOrdered DEF Shows
  <2>5. ASSUME NEW x \in Events, Shows(x) PROVE Shows(x)'
    <3>1. CASE x.pool # e.pool
      BY <1>4, <1>5, <2>2, <2>5, <3>1 DEF Shows
    <3>2. CASE x.pool = e.pool
      <4> SUFFICES ASSUME x.kind \in {"swap2", "liquidity_change"}
                   PROVE  ~Before(EventPosition(e), EventPosition(x))
        BY <1>5, <2>2, <3>2 DEF Shows
      <4>1. ~Before(current[e.pool].position, EventPosition(x))
        BY <2>5, <3>2 DEF Shows
      <4>2. CASE Before(current[e.pool].position, EventPosition(e))
        BY <1>2, <1>3, <1>4, <4>1, <4>2, PositionsAreOrdered
      <4>3. CASE current[e.pool] = NoState
        <5>1. current[e.pool].position = <<0, 0, 0>>
          BY <4>3 DEF NoState
        <5> QED
          BY <1>3, <1>4, <4>1, <5>1, PositionsAreOrdered
      <4> QED
        BY <1>7, <4>2, <4>3
    <3> QED
      BY <3>1, <3>2
  <2> QED
    BY <2>2, <2>3, <2>4, <2>5
<1>8. \/ current' = current /\ ~Before(current[e.pool].position, EventPosition(e))
      \/ /\ current' = [current EXCEPT ![e.pool] = StateAfter(e)]
         /\ current[e.pool] = NoState \/ Before(current[e.pool].position, EventPosition(e))
  BY DEF UpsertCurrentState
<1> QED
  BY <1>6, <1>7, <1>8

\* The states and rows, under a step that projects nothing.
LEMMA RowsGrow ==
    ASSUME IInv, scenario' = scenario, release' \in DOMAIN Releases, current' = current,
           tables \subseteq tables', tables' \subseteq {RowOf(e) : e \in Events}
    PROVE  StoreTyped' /\ RowsAreOfPayloads' /\ StateIsStored'
<1>1. Events' = Events
  BY HistoryRests
<1>2. \A e : RowOf(e)' = RowOf(e)
  BY DEF RowOf
<1>3. StoreTyped'
  BY DEF IInv, StoreTyped
<1>4. RowsAreOfPayloads'
  BY <1>1, <1>2 DEF RowsAreOfPayloads
<1>5. StateIsStored'
  BY <1>1, <1>2 DEF IInv, StateIsStored
<1> QED
  BY <1>3, <1>4, <1>5

\* The event in hand, and the step it stands at.
LEMMA InHandIsAnEvent ==
    ASSUME IInv, job # Idle
    PROVE  /\ InHand \in Events /\ Holds(InHand) /\ InHand.kind \in Kinds
           /\ job.clean \in BOOLEAN /\ job.step \in 1 .. Len(Recipe(InHand.kind))
<1>1. job \in Jobs /\ \E e \in Events : Holds(e)
  BY DEF IInv, JobFollowsOutcome
<1>2. InHand \in Events /\ Holds(InHand)
  BY <1>1 DEF Holds
<1>3. InHand.kind \in Kinds
  BY <1>2, EventIsOfPayload DEF IInv, StoreTyped
<1>4. job.clean \in BOOLEAN
  BY <1>1 DEF Jobs
<1>5. job.step \in 1 .. Len(Recipe(InHand.kind))
  BY <1>2 DEF Holds
<1> QED
  BY <1>2, <1>3, <1>4, <1>5

\* A delivery begins, and ends at once when nothing is recognised.
LEMMA ProcessTransactionKeeps ==
    ASSUME IInv, NEW s \in Signatures, ProcessTransaction(s)
    PROVE  IInv'
<1>1. /\ scenario' = scenario /\ release' = release /\ tables' = tables /\ current' = current
      /\ counted \subseteq counted'
  BY DEF ProcessTransaction
<1>2. PICK r \in DOMAIN Releases : r = release
  BY DEF IInv, StoreTyped
<1>3. PICK O \in Seq(Events) : O = OutcomeEvents(s, r)
  BY OutcomeIsOfEvents DEF IInv, StoreTyped
<1>4. Keeps
  BY <1>1, GrowingKeeps
<1>5. /\ Signatures' = Signatures /\ Events' = Events
      /\ OutcomeEvents(s, r)' = O
  BY <1>1, <1>3, HistoryRests
<1>6. DoneWith(s, r, 0)' /\ ShownBy(s, r, 0)'
  BY DEF DoneWith, ShownBy
<1>7. StoreTyped' /\ RowsAreOfPayloads' /\ StateIsStored'
  BY <1>1, <1>2, RowsGrow DEF IInv, RowsAreOfPayloads
<1>8. CASE O = <<>>
  <2>1. /\ job' = Idle
        /\ finished' = finished \cup {[signature |-> s, release |-> r, clean |-> TRUE]}
    BY <1>2, <1>3, <1>8 DEF ProcessTransaction, Finish
  <2>2. PICK f : f = [signature |-> s, release |-> r, clean |-> TRUE]
    OBVIOUS
  <2>3. Len(O) = 0
    BY <1>8
  <2>4. IsDone(f)'
    <3>1. f.signature = s /\ f.release = r
      BY <2>2
    <3> QED
      BY <1>5, <1>6, <2>3, <3>1 DEF IsDone
  <2>5. FinishedAreDone'
    BY <1>4, <2>1, <2>2, <2>4, FinishedStay DEF FinishedAreDone
  <2> QED
    BY <1>7, <2>1, <2>5 DEF IInv, JobFollowsOutcome
<1>9. CASE O # <<>>
  <2>1. /\ job' = [signature |-> s, events |-> O, step |-> 1, clean |-> TRUE]
        /\ finished' = finished
    BY <1>2, <1>3, <1>9 DEF ProcessTransaction
  <2>2. job' \in Jobs' /\ job'.events # <<>>
    BY <1>5, <1>9, <2>1 DEF Jobs
  <2>3. Follows(s, r, 0)'
    BY <1>1, <1>2, <1>5, <1>6, <2>1 DEF Follows
  <2>4. PICK e \in Events : e = O[1]
    BY <1>9
  <2>5. Holds(e)'
    <3>1. e.kind \in Kinds
      BY EventIsOfPayload DEF IInv, StoreTyped
    <3>2. 1 \in 1 .. Len(Recipe(e.kind))
      BY <3>1, RecipeForms
    <3>3. InHand' = e
      BY <1>9, <2>1, <2>4 DEF InHand
    <3> QED
      BY <2>1, <3>2, <3>3 DEF Holds
  <2>6. FinishedAreDone'
    BY <1>4, <2>1, FinishedStay DEF FinishedAreDone
  <2>7. JobFollowsOutcome'
    BY <1>5, <2>2, <2>3, <2>5 DEF JobFollowsOutcome
  <2> QED
    BY <1>7, <2>6, <2>7 DEF IInv
<1> QED
  BY <1>8, <1>9

\* The registry's steps write neither rows nor states.
LEMMA RegistryKeeps ==
    ASSUME IInv, job # Idle,
           Recipe(InHand.kind)[job.step] \in {"discover", "touch", "mark"},
           NextStep(job.clean), scenario' = scenario, release' = release,
           tables' = tables, current' = current, counted' = counted
    PROVE  IInv'
<1>1. PICK e \in Events : e = InHand
  BY InHandIsAnEvent
<1>2. e.kind \in Kinds /\ job.step \in 1 .. Len(Recipe(e.kind))
  BY <1>1, InHandIsAnEvent
<1>3. PICK clean \in BOOLEAN : clean = job.clean
  BY InHandIsAnEvent
<1>4. Keeps
  BY GrowingKeeps
<1>5. job.step # Len(Recipe(e.kind))
  <2>1. Recipe(e.kind)[job.step] \in {"discover", "touch", "mark"}
    BY <1>1
  <2> QED
    BY <1>2, <2>1, RecipeForms
<1>6. Recipe(e.kind)[job.step] # "insert"
  BY <1>1
<1>7. NextStep(clean)
  BY <1>3
<1>8. JobFollowsOutcome' /\ FinishedAreDone'
  BY <1>1, <1>3, <1>4, <1>5, <1>6, <1>7, NextStepKeeps
<1>9. StoreTyped' /\ RowsAreOfPayloads' /\ StateIsStored'
  BY RowsGrow DEF IInv, RowsAreOfPayloads, StoreTyped
<1> QED
  BY <1>8, <1>9 DEF IInv

\* The row is there, or the event is counted.
LEMMA InsertEventKeeps ==
    ASSUME IInv, NEW fail \in BOOLEAN, InsertEvent(fail)
    PROVE  IInv'
<1>1. /\ job # Idle /\ Recipe(InHand.kind)[job.step] = "insert"
      /\ scenario' = scenario /\ release' = release /\ current' = current
  BY DEF InsertEvent, StepIs
<1>2. PICK e \in Events : e = InHand
  BY <1>1, InHandIsAnEvent
<1>3. e.kind \in Kinds /\ job.step \in 1 .. Len(Recipe(e.kind))
  BY <1>1, <1>2, InHandIsAnEvent
<1>4. \/ tables' = tables /\ counted' = counted \cup {EventId(e)} /\ NextEvent(FALSE)
      \/ tables' = Inserted(e) /\ counted' = counted /\ NextStep(job.clean)
  BY <1>2 DEF InsertEvent
<1>5. CASE tables' = tables /\ counted' = counted \cup {EventId(e)} /\ NextEvent(FALSE)
  <2>1. Keeps
    BY <1>1, <1>5, GrowingKeeps
  <2>2. Accounted(e)'
    BY <1>5 DEF Accounted, EventId
  <2>3. JobFollowsOutcome' /\ FinishedAreDone'
    BY <1>1, <1>2, <1>5, <2>1, <2>2, NextEventKeeps
  <2>4. StoreTyped' /\ RowsAreOfPayloads' /\ StateIsStored'
    BY <1>1, <1>5, RowsGrow DEF IInv, RowsAreOfPayloads, StoreTyped
  <2> QED
    BY <2>3, <2>4 DEF IInv
<1>6. CASE tables' = Inserted(e) /\ counted' = counted /\ NextStep(job.clean)
  <2>1. /\ tables \subseteq tables' /\ RowOf(e) \in tables'
        /\ tables' \subseteq {RowOf(x) : x \in Events}
    BY <1>6, InsertedStores
  <2>2. Keeps
    BY <1>1, <1>6, <2>1, GrowingKeeps
  <2>3. PICK clean \in BOOLEAN : clean = job.clean
    BY <1>1, InHandIsAnEvent
  <2>4. job.step = Len(Recipe(e.kind)) => Shows(e)'
    <3>1. Recipe(e.kind)[job.step] = "insert"
      BY <1>1, <1>2
    <3>2. job.step = Len(Recipe(e.kind)) => e.kind \notin Projected
      BY <1>3, <3>1, RecipeForms
    <3> QED
      BY <3>2 DEF Shows, Projected
  <2>5. NextStep(clean)
    BY <1>6, <2>3
  <2>6. JobFollowsOutcome' /\ FinishedAreDone'
    BY <1>1, <1>2, <2>1, <2>2, <2>3, <2>4, <2>5, NextStepKeeps
  <2>7. StoreTyped' /\ RowsAreOfPayloads' /\ StateIsStored'
    BY <1>1, <2>1, RowsGrow DEF IInv, StoreTyped
  <2> QED
    BY <2>6, <2>7 DEF IInv
<1> QED
  BY <1>4, <1>5, <1>6

\* The state is the event's or a newer one, and a failed projection is not clean.
LEMMA ProjectEventKeeps ==
    ASSUME IInv, NEW fail \in BOOLEAN, ProjectEvent(fail)
    PROVE  IInv'
<1>1. /\ job # Idle /\ Recipe(InHand.kind)[job.step] = "project"
      /\ scenario' = scenario /\ release' = release /\ tables' = tables /\ counted' = counted
      /\ NextStep(job.clean /\ ~fail)
  BY DEF ProjectEvent, StepIs
<1>2. PICK e \in Events : e = InHand
  BY <1>1, InHandIsAnEvent
<1>3. e.kind \in Kinds /\ job.step \in 1 .. Len(Recipe(e.kind)) /\ Holds(e)
  BY <1>1, <1>2, InHandIsAnEvent
<1>4. PICK clean \in BOOLEAN : clean = (job.clean /\ ~fail)
  BY Zenon
<1>5. CASE fail
  <2>1. current' = current /\ clean = FALSE /\ NextStep(FALSE)
    BY <1>1, <1>4, <1>5 DEF ProjectEvent
  <2>2. Keeps
    BY <1>1, <2>1, GrowingKeeps
  <2>3. JobFollowsOutcome' /\ FinishedAreDone'
    BY <1>1, <1>2, <2>1, <2>2, NextStepKeeps
  <2>4. StoreTyped' /\ RowsAreOfPayloads' /\ StateIsStored'
    BY <1>1, <2>1, RowsGrow DEF IInv, RowsAreOfPayloads, StoreTyped
  <2> QED
    BY <2>3, <2>4 DEF IInv
<1>6. CASE ~fail
  <2>1. current' = UpsertCurrentState(e) /\ clean = job.clean
    <3>1. current' = UpsertCurrentState(e)
      BY <1>2, <1>6 DEF ProjectEvent
    <3>2. job.clean \in BOOLEAN
      BY <1>1, InHandIsAnEvent
    <3>3. clean = job.clean
      BY <1>4, <1>6, <3>2, Zenon
    <3> QED
      BY <3>1, <3>3
  <2>2. /\ Shows(e)' /\ \A x \in Events : Shows(x) => Shows(x)'
        /\ current' = [p \in Pools |-> current'[p]]
        /\ \A p \in Pools : current'[p].position \in Positions
    BY <1>1, <2>1, UpsertShows
  <2>3. Keeps
    BY <1>1, <2>2 DEF Keeps, Accounted
  <2>4. NextStep(clean)
    BY <1>1, <1>6, <2>1
  <2>5. JobFollowsOutcome' /\ FinishedAreDone'
    BY <1>1, <1>2, <2>1, <2>2, <2>3, <2>4, NextStepKeeps
  <2>6. RowOf(e) \in tables
    <3>1. Recipe(e.kind)[job.step] = "project"
      BY <1>1, <1>2
    <3>2. e.kind \in Projected /\ job.step = 3 /\ Recipe(e.kind)[2] = "insert"
      BY <1>3, <3>1, RecipeForms
    <3>3. \A j \in 1 .. (job.step - 1) : Recipe(e.kind)[j] = "insert" => RowOf(e) \in tables
      BY <1>3 DEF Holds
    <3> QED
      BY <3>2, <3>3
  <2>7. StateIsStored'
    <3>1. Events' = Events /\ \A x : RowOf(x)' = RowOf(x)
      BY <1>1, HistoryRests DEF RowOf
    <3>2. CASE current' = current
      BY <1>1, <3>1, <3>2 DEF IInv, StateIsStored
    <3>3. CASE current' = [current EXCEPT ![e.pool] = StateAfter(e)]
      <4>1. e.pool \in Pools
        BY EventIsOfPayload DEF IInv, StoreTyped
      <4>2. /\ StateAfter(e).signature = e.signature
            /\ StateAfter(e).position[3] = e.event_index
            /\ StateAfter(e).reserves = <<e.numbers.reserve_a_after, e.numbers.reserve_b_after>>
        BY DEF StateAfter, EventPosition
      <4> HIDE DEF StateAfter
      <4>3. current = [p \in Pools |-> current[p]]
        BY DEF IInv, StoreTyped
      <4>4. /\ current'[e.pool] = StateAfter(e)
            /\ \A p \in Pools : p # e.pool => current'[p] = current[p]
        BY <3>3, <4>1, <4>3
      <4>5. ASSUME NEW p \in Pools, current'[p] # NoState
            PROVE  \E x \in Events :
                      /\ RowOf(x) \in tables /\ x.pool = p
                      /\ current'[p].signature = x.signature
                      /\ current'[p].position[3] = x.event_index
                      /\ current'[p].reserves
                           = <<x.numbers.reserve_a_after, x.numbers.reserve_b_after>>
        <5>1. CASE p = e.pool
          BY <2>6, <4>2, <4>4, <5>1
        <5>2. CASE p # e.pool
          BY <4>4, <4>5, <5>2 DEF IInv, StateIsStored
        <5> QED
          BY <5>1, <5>2
      <4> QED
        BY <1>1, <3>1, <4>5 DEF StateIsStored
    <3> QED
      BY <2>1, <3>2, <3>3 DEF UpsertCurrentState
  <2>8. StoreTyped' /\ RowsAreOfPayloads'
    <3>1. Events' = Events /\ \A x : RowOf(x)' = RowOf(x)
      BY <1>1, HistoryRests DEF RowOf
    <3> QED
      BY <1>1, <2>2, <3>1 DEF IInv, StoreTyped, RowsAreOfPayloads
  <2> QED
    BY <2>5, <2>7, <2>8 DEF IInv
<1> QED
  BY <1>5, <1>6

\* The process dies with what it has in hand; what it wrote stays.
LEMMA RestartKeeps ==
    ASSUME IInv, NEW r \in DOMAIN Releases, Restart(r)
    PROVE  IInv'
<1>1. /\ scenario' = scenario /\ release' = r /\ job' = Idle /\ tables' = tables
      /\ current' = current /\ counted' = counted /\ finished' = finished
  BY DEF Restart
<1>2. Keeps
  BY <1>1, GrowingKeeps
<1>3. FinishedAreDone'
  BY <1>1, <1>2, FinishedStay DEF FinishedAreDone
<1>4. StoreTyped' /\ RowsAreOfPayloads' /\ StateIsStored'
  BY <1>1, RowsGrow DEF IInv, RowsAreOfPayloads
<1> QED
  BY <1>1, <1>3, <1>4 DEF IInv, JobFollowsOutcome

\* Time and the readers touch nothing of the store.
LEMMA RestKeeps ==
    ASSUME IInv, scenario' = scenario, release' = release, job' = job, tables' = tables,
           current' = current, counted' = counted, finished' = finished
    PROVE  IInv'
<1>1. Keeps
  BY GrowingKeeps
<1>2. JobFollowsOutcome' /\ FinishedAreDone'
  BY <1>1, JobStays
<1>3. StoreTyped' /\ RowsAreOfPayloads' /\ StateIsStored'
  BY RowsGrow DEF IInv, RowsAreOfPayloads, StoreTyped
<1> QED
  BY <1>2, <1>3 DEF IInv

\* The invariant holds of empty tables.
LEMMA InitEstablishesIInv == LookupInit => IInv
<1> SUFFICES ASSUME LookupInit PROVE IInv
  OBVIOUS
<1> USE DEF LookupInit, StoreInit
<1>1. StoreTyped
  BY ReleasesAssumption DEF StoreTyped, NoState, Positions
<1>2. RowsAreOfPayloads /\ JobFollowsOutcome /\ FinishedAreDone
  BY DEF RowsAreOfPayloads, JobFollowsOutcome, FinishedAreDone
<1>3. StateIsStored
  BY DEF StateIsStored
<1> QED
  BY <1>1, <1>2, <1>3 DEF IInv

\* Every step of the indexer, the clock and the readers keeps it.
LEMMA NextKeepsIInv == IInv /\ [LookupNext]_lookupVars => IInv'
<1> SUFFICES ASSUME IInv, [LookupNext]_lookupVars PROVE IInv'
  OBVIOUS
<1>1. ASSUME NEW s \in Signatures, ProcessTransaction(s) PROVE IInv'
  BY <1>1, ProcessTransactionKeeps
<1>2. ASSUME NEW fail \in BOOLEAN, DiscoverPool(fail) PROVE IInv'
  BY <1>2, RegistryKeeps DEF DiscoverPool, StepIs
<1>3. ASSUME NEW fail \in BOOLEAN, MarkPool(fail) PROVE IInv'
  BY <1>3, RegistryKeeps DEF MarkPool, StepIs
<1>4. ASSUME NEW fail \in BOOLEAN, InsertEvent(fail) PROVE IInv'
  BY <1>4, InsertEventKeeps
<1>5. ASSUME NEW fail \in BOOLEAN, ProjectEvent(fail) PROVE IInv'
  BY <1>5, ProjectEventKeeps
<1>6. CASE TouchPool
  BY <1>6, RegistryKeeps DEF TouchPool, StepIs
<1>7. ASSUME NEW r \in DOMAIN Releases, Restart(r) PROVE IInv'
  BY <1>7, RestartKeeps
<1>8. CASE TimePasses
  BY <1>8, RestKeeps DEF TimePasses
<1>9. CASE StoreNext
  BY <1>1, <1>2, <1>3, <1>4, <1>5, <1>6, <1>7, <1>8, <1>9 DEF StoreNext
<1>10. CASE UNCHANGED storeVars
  BY <1>10, RestKeeps DEF storeVars
<1>11. StoreNext \/ UNCHANGED storeVars
  BY DEF LookupNext, ListEvents, NextPage, SecondRead, lookupVars
<1> QED
  BY <1>9, <1>10, <1>11

\* A key names one payload, and the row of it.
LEMMA RowsAreKeyed == IInv => EachEventOnce
<1> SUFFICES ASSUME IInv PROVE EachEventOnce
  OBVIOUS
<1>1. scenario \in Scenarios
  BY DEF IInv, StoreTyped
<1>2. ASSUME NEW a \in tables
      PROVE  \E e \in Events : /\ a = RowOf(e)
                               /\ a.signature = e.signature /\ a.event_index = e.event_index
                               /\ a.kind = e.kind
  BY DEF IInv, RowsAreOfPayloads, RowOf
<1>3. ASSUME NEW a \in tables
      PROVE  /\ a.event_index + 1 \in DOMAIN Raw(a.signature)
             /\ Raw(a.signature)[a.event_index + 1].kind = a.kind
  BY <1>1, <1>2, EventIsOfPayload
<1>4. ASSUME NEW a \in tables, NEW b \in tables, EventId(a) = EventId(b) PROVE a = b
  <2>1. PICK e \in Events : /\ a = RowOf(e)
                            /\ a.signature = e.signature /\ a.event_index = e.event_index
    BY <1>2
  <2>2. PICK f \in Events : /\ b = RowOf(f)
                            /\ b.signature = f.signature /\ b.event_index = f.event_index
    BY <1>2
  <2>3. e.signature = f.signature /\ e.event_index = f.event_index
    BY <1>4, <2>1, <2>2 DEF EventId
  <2>4. e = EventOf(e.signature, e.event_index + 1) /\ f = EventOf(f.signature, f.event_index + 1)
    BY <1>1, EventIsOfPayload
  <2> QED
    BY <2>1, <2>2, <2>3, <2>4
<1> QED
  BY <1>3, <1>4 DEF EachEventOnce, PayloadAt, Raw

-----------------------------------------------------------------------------
(***************************************************************************)
(* The theorems about the store.                                           *)
(***************************************************************************)

\* The inductive invariant of the store holds in every reachable state.
THEOREM StoreInvariance == Spec => []IInv
<1> QED
  BY InitEstablishesIInv, NextKeepsIInv, PTL DEF Spec

\* A payload has one row and its key names no other payload, across deliveries,
\* replays and releases that know more or fewer events: event_index counts every
\* payload addressed to the program, whoever reads it (anchor_event.rs).
THEOREM EventsStoredOnce == Spec => []EachEventOnce
<1> QED
  BY RowsAreKeyed, StoreInvariance, PTL

\* A delivery that ran to its end left each event it recognised in its table or
\* counted as a failure, whatever statement failed beside it and however often
\* the process died before (event_persistor.rs, persist).
THEOREM EventsStoredOrCounted == Spec => []StoredOrCounted
<1>1. IInv => StoredOrCounted
  <2> SUFFICES ASSUME IInv, NEW f \in finished,
                      NEW k \in DOMAIN OutcomeEvents(f.signature, f.release)
               PROVE  \/ RowOf(OutcomeEvents(f.signature, f.release)[k]) \in tables
                      \/ EventId(OutcomeEvents(f.signature, f.release)[k]) \in counted
    BY DEF StoredOrCounted
  <2>1. IsDone(f)
    BY DEF IInv, FinishedAreDone
  <2>2. PICK O \in Seq(Events) : O = OutcomeEvents(f.signature, f.release)
    BY <2>1, OutcomeIsOfEvents DEF IInv, StoreTyped, IsDone
  <2>3. \A j \in 1 .. Len(O) : Accounted(O[j])
    BY <2>1, <2>2 DEF IsDone, DoneWith
  <2>4. k \in 1 .. Len(O)
    BY <2>2
  <2> QED
    BY <2>2, <2>3, <2>4 DEF Accounted
<1> QED
  BY <1>1, StoreInvariance, PTL

\* A delivery that ran to its end without a failure left each pool's state at
\* least as new as its events, though an earlier one died between the row and
\* the state, and a state is always that of a stored event
\* (pool_current_state.rs).
THEOREM StatesCatchUp == Spec => []StateCatchesUp
<1>1. IInv => StateCatchesUp
  <2> SUFFICES ASSUME IInv PROVE StateCatchesUp
    OBVIOUS
  <2>1. ASSUME NEW f \in finished, f.clean, NEW k \in DOMAIN OutcomeEvents(f.signature, f.release)
        PROVE  Shows(OutcomeEvents(f.signature, f.release)[k])
    <3>1. IsDone(f)
      BY DEF IInv, FinishedAreDone
    <3>2. PICK O \in Seq(Events) : O = OutcomeEvents(f.signature, f.release)
      BY <3>1, OutcomeIsOfEvents DEF IInv, StoreTyped, IsDone
    <3>3. \A j \in 1 .. Len(O) : Shows(O[j])
      BY <2>1, <3>1, <3>2 DEF IsDone, ShownBy
    <3>4. k \in 1 .. Len(O)
      BY <3>2
    <3> QED
      BY <3>2, <3>3, <3>4
  <2>2. ASSUME NEW p \in Pools, current[p] # NoState
        PROVE  \E row \in tables :
                 /\ row.pool = p /\ row.signature = current[p].signature
                 /\ row.event_index = current[p].position[3]
                 /\ <<row.stored.reserve_a_after, row.stored.reserve_b_after>> = current[p].reserves
    <3>1. PICK e \in Events :
            /\ RowOf(e) \in tables /\ e.pool = p
            /\ current[p].signature = e.signature
            /\ current[p].position[3] = e.event_index
            /\ current[p].reserves = <<e.numbers.reserve_a_after, e.numbers.reserve_b_after>>
      BY <2>2 DEF IInv, StateIsStored
    <3>2. /\ RowOf(e).pool = e.pool /\ RowOf(e).signature = e.signature
          /\ RowOf(e).event_index = e.event_index /\ RowOf(e).stored = e.numbers
      BY DEF RowOf
    <3> QED
      BY <3>1, <3>2
  <2> QED
    BY <2>1, <2>2 DEF StateCatchesUp, Shows
<1> QED
  BY <1>1, StoreInvariance, PTL

-----------------------------------------------------------------------------
(***************************************************************************)
(* The order of the lists.                                                 *)
(***************************************************************************)

\* The keys of some rows: numbers, and no two rows share a transaction and an
\* index in it.
Sortable(R) ==
    /\ IsFiniteSet(R)
    /\ \A a \in R : a.timestamp \in Nat /\ a.signature \in Nat \ {0} /\ a.event_index \in Nat
    /\ \A a, b \in R : a.signature = b.signature /\ a.event_index = b.event_index => a = b

\* Each row before the next ones.
Ordered(list) == \A j, k \in 1 .. Len(list) : j < k => Precedes(list[j], list[k])

\* The first n rows of a set: in order, and before every row left out.
AreFirst(list, R, n) ==
    /\ list \in Seq(R) /\ Len(list) <= n /\ Ordered(list)
    /\ \A a \in R : \/ a \in ToSet(list)
                    \/ Len(list) = n /\ \A i \in 1 .. n : Precedes(list[i], a)

\* Some of the rows can be sorted if all can.
LEMMA PartsAreSortable ==
    ASSUME NEW R, Sortable(R), NEW S \in SUBSET R
    PROVE  Sortable(S)
<1>1. IsFiniteSet(S)
  BY FS_Subset DEF Sortable
<1> QED
  BY <1>1 DEF Sortable

\* The order of the keys is strict and total on such rows.
LEMMA RowsAreOrdered ==
    ASSUME NEW R, Sortable(R), NEW a \in R, NEW b \in R
    PROVE  /\ ~Precedes(a, a)
           /\ a = b \/ Precedes(a, b) \/ Precedes(b, a)
           /\ \A c \in R : Precedes(a, b) /\ Precedes(b, c) => Precedes(a, c)
<1>1. \A x \in R : x.timestamp \in Nat /\ x.signature \in Nat /\ x.event_index \in Nat
  BY DEF Sortable
<1>2. ~Precedes(a, a)
  BY <1>1 DEF Precedes, Older
<1>3. ASSUME a # b PROVE Precedes(a, b) \/ Precedes(b, a)
  <2>1. a.signature # b.signature \/ a.event_index # b.event_index
    BY <1>3 DEF Sortable
  <2> QED
    BY <1>1, <2>1 DEF Precedes, Older
<1>4. ASSUME NEW c \in R, Precedes(a, b), Precedes(b, c) PROVE Precedes(a, c)
  <2>1. /\ a.timestamp \in Nat /\ a.signature \in Nat /\ a.event_index \in Nat
        /\ b.timestamp \in Nat /\ b.signature \in Nat /\ b.event_index \in Nat
        /\ c.timestamp \in Nat /\ c.signature \in Nat /\ c.event_index \in Nat
    BY <1>1
  <2> QED
    BY <1>4, <2>1 DEF Precedes, Older
<1> QED
  BY <1>2, <1>3, <1>4

\* The place of a row among others: the number of those before it.
Ahead(R, a) == {x \in R : Precedes(x, a)}

\* A row has a later place than those before it.
LEMMA PlacesDiffer ==
    ASSUME NEW R, Sortable(R), NEW a \in R, NEW b \in R, Precedes(a, b)
    PROVE  /\ Cardinality(Ahead(R, a)) \in Nat /\ Cardinality(Ahead(R, b)) \in Nat
           /\ Cardinality(Ahead(R, a)) < Cardinality(Ahead(R, b))
<1>0. IsFiniteSet(R)
  BY DEF Sortable
<1>1. /\ Ahead(R, a) \subseteq R /\ Ahead(R, b) \subseteq R
      /\ a \in Ahead(R, b) /\ a \notin Ahead(R, a)
  BY RowsAreOrdered DEF Ahead
<1>2. Ahead(R, a) \subseteq Ahead(R, b)
  BY RowsAreOrdered DEF Ahead
<1>3. IsFiniteSet(Ahead(R, a)) /\ IsFiniteSet(Ahead(R, b))
  BY <1>0, <1>1, FS_Subset
<1>4. Cardinality(Ahead(R, a)) \in Nat /\ Cardinality(Ahead(R, b)) \in Nat
  BY <1>3, FS_CardinalityType
<1>5. /\ Cardinality(Ahead(R, a)) <= Cardinality(Ahead(R, b))
      /\ Cardinality(Ahead(R, a)) = Cardinality(Ahead(R, b)) => Ahead(R, a) = Ahead(R, b)
  BY <1>2, <1>3, FS_Subset
<1> QED
  BY <1>1, <1>4, <1>5

\* Sorting a set lists it.
LEMMA SortedIsTheSet ==
    ASSUME NEW R, Sortable(R)
    PROVE  /\ Cardinality(R) \in Nat
           /\ Sorted(R) \in Seq(R) /\ Len(Sorted(R)) = Cardinality(R) /\ Ordered(Sorted(R))
           /\ \A a \in R : \E i \in 1 .. Cardinality(R) : Sorted(R)[i] = a
<1> DEFINE c == Cardinality(R)
           P == [a \in R |-> Cardinality(Ahead(R, a))]
<1>1. IsFiniteSet(R) /\ c \in Nat
  BY FS_CardinalityType DEF Sortable
<1>2. IsFiniteSet(0 .. (c - 1)) /\ Cardinality(0 .. (c - 1)) = c
  <2>1. c - 1 \in Int /\ 0 \in Int
    BY <1>1
  <2> HIDE DEF c
  <2> QED
    BY <1>1, <2>1, FS_Interval
<1>3. ASSUME NEW a \in R PROVE P[a] \in 0 .. (c - 1)
  <2>1. Ahead(R, a) \subseteq R /\ a \notin Ahead(R, a)
    BY RowsAreOrdered DEF Ahead
  <2>2. /\ IsFiniteSet(Ahead(R, a)) /\ Cardinality(Ahead(R, a)) <= c
        /\ Cardinality(Ahead(R, a)) = c => Ahead(R, a) = R
    BY <1>1, <2>1, FS_Subset
  <2>3. Cardinality(Ahead(R, a)) \in Nat
    BY <2>2, FS_CardinalityType
  <2>4. P[a] = Cardinality(Ahead(R, a))
    OBVIOUS
  <2> HIDE DEF P, c
  <2> QED
    BY <1>1, <2>1, <2>2, <2>3, <2>4
<1>4. P \in Injection(R, 0 .. (c - 1))
  <2>1. P \in [R -> 0 .. (c - 1)]
    BY <1>3
  <2>2. ASSUME NEW a \in R, NEW b \in R, a # b PROVE P[a] # P[b]
    <3>1. P[a] = Cardinality(Ahead(R, a)) /\ P[b] = Cardinality(Ahead(R, b))
      OBVIOUS
    <3>2. Precedes(a, b) \/ Precedes(b, a)
      BY <2>2, RowsAreOrdered
    <3> HIDE DEF P
    <3>3. CASE Precedes(a, b)
      <4>1. /\ Cardinality(Ahead(R, a)) \in Nat /\ Cardinality(Ahead(R, b)) \in Nat
            /\ Cardinality(Ahead(R, a)) < Cardinality(Ahead(R, b))
        BY <3>3, PlacesDiffer
      <4> QED
        BY <3>1, <4>1
    <3>4. CASE Precedes(b, a)
      <4>1. /\ Cardinality(Ahead(R, a)) \in Nat /\ Cardinality(Ahead(R, b)) \in Nat
            /\ Cardinality(Ahead(R, b)) < Cardinality(Ahead(R, a))
        BY <3>4, PlacesDiffer
      <4> QED
        BY <3>1, <4>1
    <3> QED
      BY <3>2, <3>3, <3>4
  <2> HIDE DEF P
  <2> QED
    BY <2>1, <2>2 DEF Injection, IsInjective
<1>5. P \in Surjection(R, 0 .. (c - 1))
  <2> HIDE DEF P
  <2> QED
    BY <1>1, <1>2, <1>4, FS_Injection
<1>6. ASSUME NEW i \in 1 .. c
      PROVE  Sorted(R)[i] \in R /\ Cardinality(Ahead(R, Sorted(R)[i])) = i - 1
  <2>1. i - 1 \in 0 .. (c - 1)
    <3> HIDE DEF c
    <3> QED
      BY <1>1
  <2>2. \E a \in R : P[a] = i - 1
    <3> HIDE DEF P
    <3> QED
      BY <1>5, <2>1 DEF Surjection
  <2>3. \E a \in R : Cardinality(Ahead(R, a)) = i - 1
    BY <2>2
  <2>4. Sorted(R)[i] = CHOOSE a \in R : Cardinality(Ahead(R, a)) = i - 1
    BY DEF Sorted, Ahead
  <2> QED
    BY <2>3, <2>4
<1>7. Sorted(R) \in [1 .. c -> R]
  <2>1. Sorted(R) = [i \in 1 .. c |-> Sorted(R)[i]]
    <3> DEFINE F(i) == CHOOSE row \in R : Cardinality({a \in R : Precedes(a, row)}) = i - 1
    <3>1. Sorted(R) = [i \in 1 .. c |-> F(i)]
      BY DEF Sorted
    <3> HIDE DEF F
    <3> QED
      BY <3>1
  <2> HIDE DEF c
  <2> QED
    BY <1>6, <2>1
<1>8. Sorted(R) \in Seq(R) /\ Len(Sorted(R)) = c
  <2> HIDE DEF c
  <2> QED
    BY <1>1, <1>7
<1>9. ASSUME NEW j \in 1 .. c, NEW k \in 1 .. c, j < k PROVE Precedes(Sorted(R)[j], Sorted(R)[k])
  <2> DEFINE a == Sorted(R)[j]
             b == Sorted(R)[k]
  <2>1. a \in R /\ b \in R /\ Cardinality(Ahead(R, a)) = j - 1 /\ Cardinality(Ahead(R, b)) = k - 1
    BY <1>6
  <2> HIDE DEF a, b, c
  <2>2. a # b
    BY <1>1, <1>9, <2>1
  <2>3. ~Precedes(b, a)
    <3> SUFFICES ASSUME Precedes(b, a) PROVE FALSE
      OBVIOUS
    <3>1. Cardinality(Ahead(R, b)) < Cardinality(Ahead(R, a))
      BY <2>1, PlacesDiffer
    <3> QED
      BY <1>1, <1>9, <2>1, <3>1
  <2>4. Precedes(a, b)
    BY <2>1, <2>2, <2>3, RowsAreOrdered
  <2> QED
    BY <2>4 DEF a, b
<1>10. ASSUME NEW a \in R PROVE \E i \in 1 .. c : Sorted(R)[i] = a
  <2>1. P[a] \in 0 .. (c - 1) /\ P[a] = Cardinality(Ahead(R, a))
    BY <1>3
  <2> HIDE DEF P, c
  <2>2. PICK i \in 1 .. c : i - 1 = Cardinality(Ahead(R, a))
    <3>1. P[a] + 1 \in 1 .. c /\ (P[a] + 1) - 1 = P[a]
      BY <1>1, <2>1
    <3> QED
      BY <2>1, <3>1
  <2>3. PICK b \in R : b = Sorted(R)[i] /\ Cardinality(Ahead(R, b)) = i - 1
    BY <1>6
  <2>4. /\ ~(Cardinality(Ahead(R, b)) < Cardinality(Ahead(R, a)))
        /\ ~(Cardinality(Ahead(R, a)) < Cardinality(Ahead(R, b)))
    BY <1>1, <2>2, <2>3
  <2>5. a = b
    BY <2>4, PlacesDiffer, RowsAreOrdered
  <2> QED
    BY <2>3, <2>5
<1> QED
  BY <1>1, <1>8, <1>9, <1>10 DEF Ordered

\* The first n of a list.
LEMMA FirstOfIsAPrefix ==
    ASSUME NEW R, NEW list \in Seq(R), NEW n \in Nat
    PROVE  /\ FirstOf(list, n) \in Seq(R)
           /\ Len(FirstOf(list, n)) = IF n < Len(list) THEN n ELSE Len(list)
           /\ \A i \in 1 .. Len(FirstOf(list, n)) : FirstOf(list, n)[i] = list[i]
<1> DEFINE m == IF n < Len(list) THEN n ELSE Len(list)
<1>1. m \in Nat /\ m <= Len(list) /\ Len(list) \in Nat
  OBVIOUS
<1> HIDE DEF m
<1>2. /\ SubSeq(list, 1, m) \in Seq(R) /\ Len(SubSeq(list, 1, m)) = m
      /\ \A i \in 1 .. m : SubSeq(list, 1, m)[i] = list[i]
  <2>1. SubSeq(list, 1, m) = [i \in 1 .. m |-> list[i]]
    BY <1>1
  <2>2. \A i \in 1 .. m : list[i] \in R
    BY <1>1
  <2> QED
    BY <1>1, <2>1, <2>2
<1>3. FirstOf(list, n) = SubSeq(list, 1, m)
  BY DEF FirstOf, m
<1> QED
  BY <1>2, <1>3 DEF m

\* The first n rows of a set.
LEMMA FirstOfSorted ==
    ASSUME NEW R, Sortable(R), NEW n \in Nat
    PROVE  AreFirst(FirstOf(Sorted(R), n), R, n)
<1> DEFINE all == Sorted(R)
           list == FirstOf(all, n)
           c == Cardinality(R)
<1>1. /\ c \in Nat /\ all \in Seq(R) /\ Len(all) = c /\ Ordered(all)
      /\ \A a \in R : \E i \in 1 .. c : all[i] = a
  BY SortedIsTheSet
<1> HIDE DEF all, c
<1>2. /\ list \in Seq(R) /\ Len(list) = IF n < Len(all) THEN n ELSE Len(all)
      /\ \A i \in 1 .. Len(list) : list[i] = all[i]
  BY <1>1, FirstOfIsAPrefix
<1> HIDE DEF list
<1>3. Ordered(list)
  BY <1>1, <1>2 DEF Ordered
<1>4. ASSUME NEW a \in R
      PROVE  \/ a \in ToSet(list)
             \/ Len(list) = n /\ \A i \in 1 .. n : Precedes(list[i], a)
  <2>1. PICK i \in 1 .. c : all[i] = a
    BY <1>1
  <2>2. CASE i <= n
    <3>1. i \in DOMAIN list /\ list[i] = a
      BY <1>1, <1>2, <2>1, <2>2
    <3> QED
      BY <3>1 DEF ToSet
  <2>3. CASE n < i
    <3>1. Len(list) = n /\ n < c
      BY <1>1, <1>2, <2>3
    <3>2. \A j \in 1 .. n : j \in 1 .. Len(all) /\ i \in 1 .. Len(all) /\ j < i
      BY <1>1, <2>3, <3>1
    <3>3. \A j \in 1 .. n : Precedes(all[j], all[i])
      BY <1>1, <3>2 DEF Ordered
    <3> QED
      BY <1>2, <2>1, <3>1, <3>3
  <2> QED
    BY <2>2, <2>3
<1>5. Len(list) <= n
  BY <1>1, <1>2
<1> QED
  BY <1>2, <1>3, <1>4, <1>5 DEF AreFirst, list, all

\* A list in order has no row twice.
LEMMA OrderedCounts ==
    ASSUME NEW R, Sortable(R), NEW list \in Seq(R), Ordered(list)
    PROVE  /\ ToSet(list) \subseteq R /\ IsFiniteSet(ToSet(list))
           /\ Cardinality(ToSet(list)) = Len(list)
<1> DEFINE n == Len(list)
<1>1. n \in Nat /\ DOMAIN list = 1 .. n /\ \A i \in 1 .. n : list[i] \in R
  OBVIOUS
<1> HIDE DEF n
<1>2. IsFiniteSet(1 .. n) /\ Cardinality(1 .. n) = n
  <2>1. 1 \in Int /\ n \in Int
    BY <1>1
  <2> QED
    BY <1>1, <2>1, FS_Interval
<1>3. ToSet(list) = {list[i] : i \in 1 .. n}
  BY <1>1 DEF ToSet
<1>4. \A i, j \in 1 .. n : list[i] = list[j] => i = j
  <2> SUFFICES ASSUME NEW i \in 1 .. n, NEW j \in 1 .. n, i < j PROVE list[i] # list[j]
    BY <1>1
  <2>1. Precedes(list[i], list[j]) /\ list[i] \in R
    BY <1>1 DEF Ordered, n
  <2> QED
    BY <2>1, RowsAreOrdered
<1>5. list \in Bijection(1 .. n, ToSet(list))
  <2>1. list \in [1 .. n -> ToSet(list)]
    BY <1>1, <1>3
  <2>2. \A a \in ToSet(list) : \E i \in 1 .. n : list[i] = a
    BY <1>3
  <2> QED
    BY <1>4, <2>1, <2>2 DEF Bijection, Injection, IsInjective, Surjection
<1>6. IsFiniteSet(ToSet(list)) /\ Cardinality(ToSet(list)) = Cardinality(1 .. n)
  BY <1>2, <1>5, FS_Bijection DEF ExistsBijection
<1> QED
  BY <1>1, <1>2, <1>3, <1>6 DEF n

-----------------------------------------------------------------------------
(***************************************************************************)
(* What a walk keeps while rows are inserted.                              *)
(***************************************************************************)

\* The rows a page may read, of given tables.
ReadableIn(T, kind, r) ==
    {row \in T : /\ row.kind = kind
                 /\ r.scope.of = "pool" => row.pool = r.scope.pool
                 /\ row.timestamp >= r.from
                 /\ AfterKey(row, r.cursor)}
\* The cursor a row gives.
KeyAt(row) == [at |-> row.timestamp, signature |-> row.signature, event_index |-> row.event_index]

\* A page to be shown to a reader: rows after the cursor, in order, and of what
\* was there at the start everything up to the last of them.
IsPage(list, r, T) ==
    /\ list \in Seq(T) /\ Ordered(list)
    /\ \A i \in 1 .. Len(list) : AfterKey(list[i], r.cursor)
    /\ \A p \in r.present : AfterKey(p, r.cursor) =>
          \/ p \in ToSet(list)
          \/ Len(list) > Limit /\ \A i \in 1 .. Len(list) : Precedes(list[i], p)

\* A reader, by its fields.
Fields(r) ==
    r = [phase |-> r.phase, collection |-> r.collection, scope |-> r.scope, from |-> r.from,
         cursor |-> r.cursor, mid |-> r.mid, seen |-> r.seen, present |-> r.present]

\* What was there at the start is of the collection, the scope and the window.
IsAsked(p, r) ==
    /\ r.scope # DlmmScope
    /\ p.kind \in Tables[r.collection]
    /\ r.scope.of = "pool" => p.pool = r.scope.pool
    /\ p.timestamp >= r.from
Asked(r, T) ==
    /\ r.collection \in Collections
    /\ r.present \subseteq T
    /\ \A p \in r.present : IsAsked(p, r)

\* The cursor is the last row shown, and what was not shown is after it.
AtCursor(r) ==
    /\ r.cursor = None => r.seen = <<>>
    /\ r.cursor # None => /\ Len(r.seen) > 0
                          /\ r.cursor = KeyAt(r.seen[Len(r.seen)])
    /\ \A p \in r.present : p \in ToSet(r.seen) \/ AfterKey(p, r.cursor)

\* Between the two reads of a page: the floor leaves a page above it unless
\* nothing is below it, and the merged keys are a page.
Floor(r, T, floor) ==
    \/ \A p \in r.present : p.timestamp >= floor
    \/ /\ floor \in Nat
       /\ Cardinality({row \in ReadableIn(T, "swap2", r) : row.timestamp >= floor}) > Limit
Halfway(r, T) ==
    \/ /\ r.collection = "swaps" /\ r.scope # DlmmScope
       /\ Floor(r, T, r.mid[1])
    \/ /\ r.collection \in {"position_changes", "reward_changes", "pool_changes"}
       /\ IsPage(r.mid, r, T)
       /\ \A i \in 1 .. Len(r.mid) : r.mid[i].kind \in Tables[r.collection]

\* What holds of a reader over the rows stored.
Sound(r, T) ==
    /\ Fields(r)
    /\ r.seen \in Seq(T) /\ Ordered(r.seen)
    /\ r.phase \in {"walking", "reading"} => Asked(r, T) /\ AtCursor(r)
    /\ r.phase = "reading" => Halfway(r, T)
    /\ r.phase = "done" => r.present \subseteq ToSet(r.seen)

\* To come after the cursor is to come after the row it was taken from.
LEMMA AfterKeyIsPrecedes ==
    ASSUME NEW R, Sortable(R), NEW a \in R, NEW b \in R
    PROVE  KeyAt(a) # None /\ (AfterKey(b, KeyAt(a)) <=> Precedes(a, b))
<1>1. /\ a.timestamp \in Nat /\ a.signature \in Nat \ {0} /\ a.event_index \in Nat
      /\ b.timestamp \in Nat /\ b.signature \in Nat \ {0} /\ b.event_index \in Nat
  BY DEF Sortable
<1>2. /\ KeyAt(a).at = a.timestamp /\ KeyAt(a).signature = a.signature
      /\ KeyAt(a).event_index = a.event_index
  BY DEF KeyAt
<1>3. KeyAt(a) # None
  <2>1. None.signature = 0
    BY DEF None
  <2> QED
    BY <1>1, <1>2, <2>1
<1> QED
  BY <1>1, <1>2, <1>3 DEF AfterKey, Precedes, Older

\* The reader after a page: the page's rows appended, its cursor kept.
LEMMA ShownFields ==
    ASSUME NEW r, Fields(r), NEW list, NEW items, NEW next,
           FinishEventPage(list) = [items |-> items, next |-> next]
    PROVE  Shown(list, r) =
              [phase |-> IF next = None THEN "done" ELSE "walking",
               collection |-> r.collection, scope |-> r.scope, from |-> r.from, cursor |-> next,
               mid |-> <<>>, seen |-> r.seen \o items, present |-> r.present]
<1>1. PICK phase, collection, scope, from, cursor, mid, seen, present :
        /\ r = [phase |-> phase, collection |-> collection, scope |-> scope, from |-> from,
                cursor |-> cursor, mid |-> mid, seen |-> seen, present |-> present]
        /\ r.collection = collection /\ r.scope = scope /\ r.from = from
        /\ r.seen = seen /\ r.present = present
  BY DEF Fields
<1>2. /\ FinishEventPage(list).items = items /\ FinishEventPage(list).next = next
  OBVIOUS
<1>3. Shown(list, r) =
        [r EXCEPT !.phase = IF next = None THEN "done" ELSE "walking", !.cursor = next,
                  !.mid = <<>>, !.seen = @ \o items]
  BY <1>2, Zenon DEF Shown
<1>4. ASSUME NEW a, NEW b, NEW c, NEW d
      PROVE  [r EXCEPT !.phase = a, !.cursor = b, !.mid = c, !.seen = d] =
                [phase |-> a, collection |-> collection, scope |-> scope, from |-> from,
                 cursor |-> b, mid |-> c, seen |-> d, present |-> present]
  <2> DEFINE x == [r EXCEPT !.phase = a, !.cursor = b, !.mid = c, !.seen = d]
  <2>1. DOMAIN x = {"phase", "collection", "scope", "from", "cursor", "mid", "seen", "present"}
    <3>1. DOMAIN x = DOMAIN r
      OBVIOUS
    <3> QED
      BY <1>1, <3>1
  <2>2. x.phase = a /\ x.cursor = b /\ x.mid = c /\ x.seen = d
    BY <1>1
  <2>3. x.collection = collection /\ x.scope = scope /\ x.from = from /\ x.present = present
    BY <1>1
  <2>4. x = [f \in DOMAIN x |-> x[f]]
    OBVIOUS
  <2> HIDE DEF x
  <2>5. x = [phase |-> a, collection |-> collection, scope |-> scope, from |-> from,
             cursor |-> b, mid |-> c, seen |-> d, present |-> present]
    BY <2>1, <2>2, <2>3, <2>4
  <2> QED
    BY <2>5 DEF x
<1> QED
  BY <1>1, <1>3, <1>4, Zenon

\* A page shown leaves the walk sound.
LEMMA PageIsShown ==
    ASSUME NEW T, Sortable(T), NEW r, Fields(r), r.seen \in Seq(T), Ordered(r.seen),
           Asked(r, T), AtCursor(r), NEW list, IsPage(list, r, T)
    PROVE  Sound(Shown(list, r), T)
<1> DEFINE items == FirstOf(list, Limit)
           old == r.seen
           new == old \o items
           q == Shown(list, r)
<1>0. Limit \in Nat /\ Limit > 0
  BY PagesAssumption
<1>1. /\ list \in Seq(T) /\ Ordered(list)
      /\ \A i \in 1 .. Len(list) : AfterKey(list[i], r.cursor)
      /\ \A p \in r.present : AfterKey(p, r.cursor) =>
            \/ p \in ToSet(list)
            \/ Len(list) > Limit /\ \A i \in 1 .. Len(list) : Precedes(list[i], p)
  BY DEF IsPage
<1>2. /\ items \in Seq(T) /\ Len(items) = IF Limit < Len(list) THEN Limit ELSE Len(list)
      /\ \A i \in 1 .. Len(items) : items[i] = list[i]
  BY <1>0, <1>1, FirstOfIsAPrefix
<1> HIDE DEF items
<1>3. /\ new \in Seq(T) /\ Len(new) = Len(old) + Len(items)
      /\ \A i \in 1 .. Len(old) : new[i] = old[i]
      /\ \A i \in 1 .. Len(items) : new[Len(old) + i] = items[i]
      /\ Len(old) \in Nat /\ Len(items) \in Nat /\ Len(list) \in Nat
  <2>1. Len(old) \in Nat /\ Len(items) \in Nat /\ Len(list) \in Nat
    BY <1>1, <1>2
  <2>2. old \in Seq(T)
    OBVIOUS
  <2> HIDE DEF old
  <2>3. /\ new \in Seq(T) /\ Len(new) = Len(old) + Len(items)
        /\ \A i \in 1 .. Len(new) : new[i] = IF i <= Len(old) THEN old[i] ELSE items[i - Len(old)]
    <3>1. /\ new \in Seq(T) /\ Len(new) = Len(old) + Len(items)
          /\ \A i \in 1 .. Len(old) + Len(items) :
                new[i] = IF i <= Len(old) THEN old[i] ELSE items[i - Len(old)]
      BY <1>2, <2>2, ConcatProperties, Zenon
    <3> HIDE DEF new
    <3> QED
      BY <3>1
  <2> HIDE DEF new
  <2>4. \A i \in 1 .. Len(items) : /\ Len(old) + i \in 1 .. Len(new)
                                   /\ ~(Len(old) + i <= Len(old))
                                   /\ (Len(old) + i) - Len(old) = i
    <3>1. PICK m \in Nat : m = Len(old)
      BY <2>1
    <3>2. PICK n \in Nat : n = Len(items)
      BY <2>1
    <3>3. Len(new) = m + n
      BY <2>3, <3>1, <3>2
    <3>4. \A i \in 1 .. n : m + i \in 1 .. m + n /\ ~(m + i <= m) /\ (m + i) - m = i
      OBVIOUS
    <3> QED
      BY <3>1, <3>2, <3>3, <3>4
  <2>5. \A i \in 1 .. Len(items) : new[Len(old) + i] = items[i]
    BY <2>3, <2>4
  <2>6. \A i \in 1 .. Len(old) : i \in 1 .. Len(new) /\ i <= Len(old)
    BY <2>1, <2>3
  <2>7. \A i \in 1 .. Len(old) : new[i] = old[i]
    BY <2>3, <2>6
  <2> QED
    BY <2>1, <2>3, <2>5, <2>7, Zenon
<1>4. ASSUME NEW j \in 1 .. Len(old), NEW k \in 1 .. Len(items)
      PROVE  Precedes(old[j], items[k])
  <2> DEFINE a == old[j]
             b == old[Len(old)]
             c == items[k]
  <2>1. a \in T /\ b \in T /\ c \in T /\ Len(old) > 0
    BY <1>2, <1>3
  <2>2. r.cursor = KeyAt(b)
    <3>1. old # <<>>
      BY <2>1
    <3> QED
      BY <3>1 DEF AtCursor
  <2>3. AfterKey(c, r.cursor)
    BY <1>1, <1>2, <1>3
  <2> HIDE DEF b, c
  <2>4. Precedes(b, c)
    BY <2>1, <2>2, <2>3, AfterKeyIsPrecedes
  <2>5. j = Len(old) => a = b
    BY DEF b
  <2>6. j # Len(old) => Precedes(a, b)
    BY <1>3, <2>1 DEF Ordered, b
  <2> HIDE DEF a
  <2>7. Precedes(a, c)
    BY <2>1, <2>4, <2>5, <2>6, RowsAreOrdered
  <2> QED
    BY <2>7 DEF a, c
<1>5. Ordered(new)
  <2> SUFFICES ASSUME NEW j \in 1 .. Len(new), NEW k \in 1 .. Len(new), j < k
               PROVE  Precedes(new[j], new[k])
    BY DEF Ordered
  <2> HIDE DEF new, old
  <2>1. CASE k <= Len(old)
    <3>1. j \in 1 .. Len(old) /\ k \in 1 .. Len(old)
      BY <1>3, <2>1
    <3> QED
      BY <1>3, <3>1 DEF Ordered, old
  <2>2. CASE j <= Len(old) /\ Len(old) < k
    <3>1. PICK i \in 1 .. Len(items) : k = Len(old) + i
      <4>1. k - Len(old) \in 1 .. Len(items) /\ k = Len(old) + (k - Len(old))
        BY <1>3, <2>2
      <4> QED
        BY <4>1
    <3> QED
      BY <1>3, <1>4, <2>2, <3>1
  <2>3. CASE Len(old) < j
    <3>1. PICK h \in 1 .. Len(items) : j = Len(old) + h
      <4>1. j - Len(old) \in 1 .. Len(items) /\ j = Len(old) + (j - Len(old))
        BY <1>3, <2>3
      <4> QED
        BY <4>1
    <3>2. PICK i \in 1 .. Len(items) : k = Len(old) + i
      <4>1. k - Len(old) \in 1 .. Len(items) /\ k = Len(old) + (k - Len(old))
        BY <1>3, <2>3
      <4> QED
        BY <4>1
    <3>3. h < i /\ h \in 1 .. Len(list) /\ i \in 1 .. Len(list)
      BY <1>0, <1>2, <1>3, <3>1, <3>2
    <3>4. Precedes(list[h], list[i])
      BY <1>1, <3>3 DEF Ordered
    <3> QED
      BY <1>2, <1>3, <3>1, <3>2, <3>4
  <2> QED
    BY <1>3, <2>1, <2>2, <2>3
<1>6. /\ \A p \in ToSet(old) : p \in ToSet(new)
      /\ \A i \in 1 .. Len(items) : list[i] \in ToSet(new)
  <2>1. DOMAIN new = 1 .. Len(new) /\ DOMAIN old = 1 .. Len(old)
    BY <1>3
  <2> HIDE DEF new, old
  <2>2. \A i \in 1 .. Len(old) : i \in DOMAIN new
    BY <1>3, <2>1
  <2>3. \A i \in 1 .. Len(items) : Len(old) + i \in DOMAIN new
    BY <1>3, <2>1
  <2> QED
    BY <1>2, <1>3, <2>1, <2>2, <2>3 DEF ToSet
<1>7. CASE Len(list) > Limit
  <2> DEFINE key == KeyAt(list[Limit])
  <2>1. Len(items) = Limit /\ Limit \in 1 .. Len(items) /\ Limit \in 1 .. Len(list)
    BY <1>0, <1>2, <1>3, <1>7
  <2>2. key # None /\ \A p \in T : Precedes(list[Limit], p) => AfterKey(p, key)
    <3>1. list[Limit] \in T
      BY <1>1, <2>1
    <3> QED
      BY <3>1, AfterKeyIsPrecedes
  <2>3. q = [phase |-> "walking", collection |-> r.collection, scope |-> r.scope,
             from |-> r.from, cursor |-> key, mid |-> <<>>, seen |-> new, present |-> r.present]
    <3>1. FinishEventPage(list) = [items |-> items, next |-> key]
      BY <1>7 DEF FinishEventPage, items, KeyAt
    <3>2. key # None
      BY <2>2
    <3> HIDE DEF key
    <3>3. q = [phase |-> IF key = None THEN "done" ELSE "walking",
               collection |-> r.collection, scope |-> r.scope, from |-> r.from, cursor |-> key,
               mid |-> <<>>, seen |-> new, present |-> r.present]
      BY <3>1, ShownFields
    <3> HIDE DEF q, new
    <3> QED
      BY <3>2, <3>3
  <2>4. ASSUME NEW p \in r.present PROVE p \in ToSet(new) \/ AfterKey(p, key)
    <3>0. p \in T
      BY DEF Asked
    <3>1. CASE p \in ToSet(old)
      BY <1>6, <3>1
    <3>2. CASE p \notin ToSet(old)
      <4>1. AfterKey(p, r.cursor)
        BY <3>2 DEF AtCursor
      <4>2. CASE p \in ToSet(list)
        <5>1. PICK i \in 1 .. Len(list) : p = list[i]
          BY <1>1, <4>2 DEF ToSet
        <5>2. CASE i <= Limit
          BY <1>6, <2>1, <5>1, <5>2
        <5>3. CASE Limit < i
          <6>1. Precedes(list[Limit], list[i])
            BY <1>1, <2>1, <5>3 DEF Ordered
          <6> QED
            BY <2>2, <3>0, <5>1, <6>1
        <5> QED
          BY <1>0, <5>2, <5>3
      <4>3. CASE p \notin ToSet(list)
        <5>1. Precedes(list[Limit], p)
          BY <1>1, <2>1, <4>1, <4>3
        <5> QED
          BY <2>2, <3>0, <5>1
      <4> QED
        BY <4>2, <4>3
    <3> QED
      BY <3>1, <3>2
  <2>5. new[Len(new)] = list[Limit] /\ Len(new) > 0
    <3>1. new[Len(old) + Limit] = items[Limit] /\ Len(new) = Len(old) + Limit
      BY <1>3, <2>1
    <3>2. items[Limit] = list[Limit]
      BY <1>2, <2>1
    <3> HIDE DEF new, old
    <3> QED
      BY <1>0, <1>3, <3>1, <3>2
  <2> HIDE DEF q, new
  <2>6. Fields(q) /\ q.phase = "walking" /\ q.seen = new /\ q.cursor = key /\ q.present = r.present
    BY <2>3 DEF Fields
  <2>7. Asked(q, T)
    BY <2>3 DEF Asked, IsAsked
  <2>8. AtCursor(q)
    BY <2>2, <2>4, <2>5, <2>6 DEF AtCursor
  <2>9. Sound(q, T)
    BY <1>3, <1>5, <2>6, <2>7, <2>8 DEF Sound
  <2> QED
    BY <2>9 DEF q
<1>8. CASE ~(Len(list) > Limit)
  <2>1. Len(items) = Len(list)
    BY <1>0, <1>2, <1>3, <1>8
  <2>2. q = [phase |-> "done", collection |-> r.collection, scope |-> r.scope,
             from |-> r.from, cursor |-> None, mid |-> <<>>, seen |-> new, present |-> r.present]
    <3>1. FinishEventPage(list) = [items |-> items, next |-> None]
      BY <1>8 DEF FinishEventPage, items
    <3>2. q = [phase |-> IF None = None THEN "done" ELSE "walking",
               collection |-> r.collection, scope |-> r.scope, from |-> r.from, cursor |-> None,
               mid |-> <<>>, seen |-> new, present |-> r.present]
      BY <3>1, ShownFields
    <3> HIDE DEF q, new
    <3> QED
      BY <3>2
  <2>3. ASSUME NEW p \in r.present PROVE p \in ToSet(new)
    <3>1. CASE p \in ToSet(old)
      BY <1>6, <3>1
    <3>2. CASE p \notin ToSet(old)
      <4>1. AfterKey(p, r.cursor)
        BY <3>2 DEF AtCursor
      <4>2. p \in ToSet(list)
        BY <1>1, <1>8, <4>1
      <4>3. PICK i \in 1 .. Len(list) : p = list[i]
        BY <1>1, <4>2 DEF ToSet
      <4> QED
        BY <1>6, <2>1, <4>3
    <3> QED
      BY <3>1, <3>2
  <2> HIDE DEF q, new
  <2>4. Fields(q) /\ q.phase = "done" /\ q.seen = new /\ q.present = r.present
    BY <2>2 DEF Fields
  <2>5. Sound(q, T)
    BY <1>3, <1>5, <2>3, <2>4 DEF Sound
  <2> QED
    BY <2>5 DEF q
<1> QED
  BY <1>7, <1>8

-----------------------------------------------------------------------------
(***************************************************************************)
(* The pages: one table, a merge of several, and the swaps above a floor.  *)
(***************************************************************************)

\* What was there at the start and is after the cursor can be read.
LEMMA AskedIsReadable ==
    ASSUME NEW T, NEW r, Asked(r, T), NEW p \in r.present, AfterKey(p, r.cursor)
    PROVE  p.kind \in Tables[r.collection] /\ p \in ReadableIn(T, p.kind, r)
BY DEF Asked, IsAsked, ReadableIn

\* The first rows of one table are a page.
LEMMA OneTableIsAPage ==
    ASSUME NEW T, Sortable(T), NEW r, Asked(r, T), NEW kind, Tables[r.collection] = {kind}
    PROVE  IsPage(FirstOf(Sorted(ReadableIn(T, kind, r)), Limit + 1), r, T)
<1> DEFINE R == ReadableIn(T, kind, r)
           list == FirstOf(Sorted(R), Limit + 1)
<1>0. Limit \in Nat /\ Limit + 1 \in Nat
  BY PagesAssumption
<1>1. R \subseteq T /\ \A a \in R : AfterKey(a, r.cursor)
  BY DEF ReadableIn
<1>2. \A p \in r.present : AfterKey(p, r.cursor) => p \in R
  BY AskedIsReadable
<1> HIDE DEF R
<1>3. Sortable(R)
  BY <1>1, PartsAreSortable
<1>4. AreFirst(list, R, Limit + 1)
  BY <1>0, <1>3, FirstOfSorted
<1> HIDE DEF list
<1>5. list \in Seq(T)
  BY <1>1, <1>4 DEF AreFirst
<1>6. \A i \in 1 .. Len(list) : AfterKey(list[i], r.cursor)
  BY <1>1, <1>4 DEF AreFirst
<1>7. ASSUME NEW p \in r.present, AfterKey(p, r.cursor), p \notin ToSet(list)
      PROVE  Len(list) > Limit /\ \A i \in 1 .. Len(list) : Precedes(list[i], p)
  BY <1>0, <1>2, <1>4, <1>7 DEF AreFirst
<1> QED
  BY <1>4, <1>5, <1>6, <1>7 DEF IsPage, AreFirst, list, R

\* The merge of the first rows of several tables is a page: a row cut from its
\* table has Limit + 1 rows of that table before it, and no more are merged.
LEMMA MergeIsAPage ==
    ASSUME NEW T, Sortable(T), NEW r, Asked(r, T)
    PROVE  LET Cut(kind) == FirstOf(Sorted(ReadableIn(T, kind, r)), Limit + 1)
               list == FirstOf(Sorted(UNION {ToSet(Cut(kind)) : kind \in Tables[r.collection]}),
                               Limit + 1)
           IN /\ IsPage(list, r, T)
              /\ \A i \in 1 .. Len(list) : list[i].kind \in Tables[r.collection]
<1> DEFINE Cut(kind) == FirstOf(Sorted(ReadableIn(T, kind, r)), Limit + 1)
           kinds == Tables[r.collection]
           U == UNION {ToSet(Cut(kind)) : kind \in kinds}
           list == FirstOf(Sorted(U), Limit + 1)
<1>0. Limit \in Nat /\ Limit + 1 \in Nat
  BY PagesAssumption
<1>1. ASSUME NEW kind
      PROVE  /\ ReadableIn(T, kind, r) \in SUBSET T
             /\ \A a \in ReadableIn(T, kind, r) : AfterKey(a, r.cursor) /\ a.kind = kind
  BY DEF ReadableIn
<1>2. ASSUME NEW kind
      PROVE  /\ Sortable(ReadableIn(T, kind, r))
             /\ AreFirst(Cut(kind), ReadableIn(T, kind, r), Limit + 1)
  BY <1>0, <1>1, PartsAreSortable, FirstOfSorted
<1> HIDE DEF Cut, kinds
<1>3. ASSUME NEW kind PROVE ToSet(Cut(kind)) \subseteq ReadableIn(T, kind, r)
  BY <1>2 DEF AreFirst, ToSet
<1>4. U \subseteq T /\ \A a \in U : AfterKey(a, r.cursor) /\ a.kind \in kinds
  BY <1>1, <1>3
<1>5. \A kind \in kinds : ToSet(Cut(kind)) \subseteq U
  OBVIOUS
<1> HIDE DEF U
<1>6. Sortable(U)
  BY <1>4, PartsAreSortable
<1>7. AreFirst(list, U, Limit + 1)
  BY <1>0, <1>6, FirstOfSorted
<1> HIDE DEF list
<1>8. list \in Seq(U) /\ Ordered(list) /\ Len(list) <= Limit + 1 /\ Len(list) \in Nat
  BY <1>7 DEF AreFirst
<1>9. \A i \in 1 .. Len(list) : list[i] \in U
  BY <1>8
<1>10. list \in Seq(T)
  BY <1>4, <1>8
<1>11. ASSUME NEW p \in r.present, AfterKey(p, r.cursor), p \notin ToSet(list)
       PROVE  Len(list) > Limit /\ \A i \in 1 .. Len(list) : Precedes(list[i], p)
  <2>1. CASE p \in U
    BY <1>0, <1>7, <1>11, <2>1 DEF AreFirst
  <2>2. CASE p \notin U
    <3> DEFINE cut == Cut(p.kind)
               S == ReadableIn(T, p.kind, r)
    <3>1. p.kind \in kinds /\ p \in S
      BY <1>11, AskedIsReadable DEF kinds
    <3>2. Sortable(S) /\ AreFirst(cut, S, Limit + 1) /\ ToSet(cut) \subseteq U
      BY <1>2, <1>5, <3>1
    <3> HIDE DEF cut, S
    <3>3. p \notin ToSet(cut)
      BY <2>2, <3>2
    <3>4. /\ Len(cut) = Limit + 1 /\ \A i \in 1 .. (Limit + 1) : Precedes(cut[i], p)
          /\ cut \in Seq(S) /\ Ordered(cut)
      BY <3>1, <3>2, <3>3 DEF AreFirst
    <3>5. IsFiniteSet(ToSet(cut)) /\ Cardinality(ToSet(cut)) = Limit + 1
      BY <3>2, <3>4, OrderedCounts
    <3>6. IsFiniteSet(ToSet(list)) /\ Cardinality(ToSet(list)) = Len(list) /\ ToSet(list) \subseteq U
      BY <1>6, <1>8, OrderedCounts
    <3>7. \A a \in ToSet(cut) : Precedes(a, p)
      BY <3>4 DEF ToSet
    <3>8. p \in T
      BY DEF Asked
    <3>9. ASSUME NEW i \in 1 .. Len(list), ~Precedes(list[i], p) PROVE FALSE
      <4> DEFINE b == list[i]
      <4>1. b \in U /\ b \in T /\ b # p /\ b \in ToSet(list)
        BY <1>4, <1>8, <1>9, <2>2 DEF ToSet
      <4> HIDE DEF b
      <4>2. Precedes(p, b)
        BY <3>8, <3>9, <4>1, RowsAreOrdered DEF b
      <4>3. ASSUME NEW a \in ToSet(cut) PROVE a \in ToSet(list) \ {b}
        <5>1. a \in U /\ a \in T /\ Precedes(a, b)
          BY <1>4, <3>2, <3>7, <3>8, <4>1, <4>2, RowsAreOrdered
        <5>2. ~Precedes(b, a) /\ a # b
          BY <4>1, <5>1, RowsAreOrdered
        <5>3. a \in ToSet(list)
          <6> SUFFICES ASSUME a \notin ToSet(list) PROVE FALSE
            OBVIOUS
          <6>1. Len(list) = Limit + 1 /\ \A j \in 1 .. (Limit + 1) : Precedes(list[j], a)
            BY <1>7, <5>1 DEF AreFirst
          <6> QED
            BY <5>2, <6>1 DEF b
        <5> QED
          BY <5>2, <5>3
      <4>4. ToSet(cut) \subseteq ToSet(list) \ {b}
        BY <4>3
      <4>5. /\ IsFiniteSet(ToSet(list) \ {b})
            /\ Cardinality(ToSet(list) \ {b}) = Cardinality(ToSet(list)) - 1
        BY <3>6, <4>1, FS_RemoveElement
      <4>6. Cardinality(ToSet(cut)) <= Cardinality(ToSet(list) \ {b})
        BY <4>4, <4>5, FS_Subset
      <4> QED
        BY <1>0, <1>8, <3>5, <3>6, <4>5, <4>6
    <3>10. Len(list) > Limit
      <4> SUFFICES ASSUME Len(list) # Limit + 1 PROVE FALSE
        BY <1>0, <1>8
      <4>1. U \subseteq ToSet(list)
        BY <1>7 DEF AreFirst
      <4>2. ToSet(cut) \subseteq ToSet(list)
        BY <3>2, <4>1
      <4>3. Cardinality(ToSet(cut)) <= Cardinality(ToSet(list))
        BY <3>6, <4>2, FS_Subset
      <4> QED
        BY <1>0, <1>8, <3>5, <3>6, <4>3
    <3> QED
      BY <3>9, <3>10
  <2> QED
    BY <2>1, <2>2
<1>12. IsPage(list, r, T)
  BY <1>4, <1>8, <1>9, <1>10, <1>11 DEF IsPage
<1> QED
  BY <1>4, <1>9, <1>12 DEF list, U, Cut, kinds

\* The instant of the last swap a page may need is a floor.
LEMMA FloorIsLow ==
    ASSUME NEW T, Sortable(T), NEW r, Asked(r, T), NEW floor,
           LET rows == Sorted(ReadableIn(T, "swap2", r))
           IN floor = IF Len(rows) <= Limit THEN r.from ELSE rows[Limit + 1].timestamp
    PROVE  Floor(r, T, floor)
<1> DEFINE R == ReadableIn(T, "swap2", r)
           rows == Sorted(R)
<1>0. Limit \in Nat /\ Limit + 1 \in Nat
  BY PagesAssumption
<1>1. R \in SUBSET T
  BY DEF ReadableIn
<1>2. \A p \in r.present : p.timestamp >= r.from
  BY DEF Asked, IsAsked
<1>3. floor = IF Len(rows) <= Limit THEN r.from ELSE rows[Limit + 1].timestamp
  OBVIOUS
<1>4. CASE Len(rows) <= Limit
  BY <1>2, <1>3, <1>4 DEF Floor
<1>5. CASE ~(Len(rows) <= Limit)
  <2> DEFINE above == {row \in R : row.timestamp >= floor}
             list == FirstOf(rows, Limit + 1)
  <2> HIDE DEF R
  <2>1. Sortable(R)
    BY <1>1, PartsAreSortable
  <2>2. rows \in Seq(R) /\ Ordered(rows) /\ Len(rows) \in Nat
    BY <2>1, SortedIsTheSet
  <2>3. AreFirst(list, R, Limit + 1)
    BY <1>0, <2>1, FirstOfSorted
  <2>4. Limit + 1 \in 1 .. Len(rows) /\ floor = rows[Limit + 1].timestamp
    BY <1>0, <1>3, <1>5, <2>2
  <2> HIDE DEF rows
  <2>5. Len(list) = Limit + 1 /\ \A i \in 1 .. Len(list) : list[i] = rows[i]
    BY <1>0, <2>2, <2>4, FirstOfIsAPrefix
  <2> HIDE DEF list
  <2>6. ASSUME NEW i \in 1 .. (Limit + 1) PROVE list[i] \in above
    <3>1. i \in 1 .. Len(rows) /\ rows[i] \in R /\ rows[Limit + 1] \in R
      BY <1>0, <2>2, <2>4
    <3>2. i = Limit + 1 \/ Precedes(rows[i], rows[Limit + 1])
      BY <1>0, <2>2, <2>4, <3>1 DEF Ordered
    <3>3. rows[i].timestamp \in Nat /\ rows[Limit + 1].timestamp \in Nat
      BY <2>1, <3>1 DEF Sortable
    <3>4. rows[i].timestamp >= rows[Limit + 1].timestamp
      BY <3>2, <3>3 DEF Precedes
    <3> QED
      BY <2>4, <2>5, <3>1, <3>4
  <2>7. ToSet(list) \subseteq above
    <3> HIDE DEF above
    <3>1. DOMAIN list = 1 .. (Limit + 1)
      BY <2>3, <2>5 DEF AreFirst
    <3> QED
      BY <2>6, <3>1 DEF ToSet
  <2>8. Cardinality(ToSet(list)) = Limit + 1
    BY <2>1, <2>3, <2>5, OrderedCounts DEF AreFirst
  <2>9. IsFiniteSet(above)
    BY <2>1, FS_Subset DEF Sortable
  <2>10. Cardinality(above) \in Nat /\ Cardinality(ToSet(list)) <= Cardinality(above)
    <3> HIDE DEF above
    <3> QED
      BY <2>7, <2>9, FS_Subset, FS_CardinalityType
  <2>11. Cardinality(above) > Limit
    <3> HIDE DEF above
    <3> QED
      BY <1>0, <2>8, <2>10
  <2>12. floor \in Nat
    BY <2>1, <2>2, <2>4 DEF Sortable
  <2> QED
    BY <2>11, <2>12 DEF Floor, R
<1> QED
  BY <1>4, <1>5

\* From the floor on, read anew, the first swaps are a page.
LEMMA SwapsAreAPage ==
    ASSUME NEW T, Sortable(T), NEW r, Asked(r, T), r.collection = "swaps",
           NEW floor, Floor(r, T, floor)
    PROVE  IsPage(FirstOf(Sorted({row \in ReadableIn(T, "swap2", r) : row.timestamp >= floor}),
                          Limit + 1), r, T)
<1> DEFINE R == {row \in ReadableIn(T, "swap2", r) : row.timestamp >= floor}
           list == FirstOf(Sorted(R), Limit + 1)
<1>0. Limit \in Nat /\ Limit + 1 \in Nat
  BY PagesAssumption
<1>1. R \subseteq T /\ \A a \in R : AfterKey(a, r.cursor) /\ a.timestamp >= floor
  BY DEF ReadableIn
<1>2. ASSUME NEW p \in r.present, AfterKey(p, r.cursor)
      PROVE  p \in R \/ ~(p.timestamp >= floor)
  <2>1. p.kind = "swap2"
    BY <1>2, AskedIsReadable DEF Tables
  <2> QED
    BY <1>2, <2>1, AskedIsReadable
<1>3. \/ \A p \in r.present : p.timestamp >= floor
      \/ floor \in Nat /\ Cardinality(R) > Limit
  BY DEF Floor
<1> HIDE DEF R
<1>4. Sortable(R)
  BY <1>1, PartsAreSortable
<1>5. AreFirst(list, R, Limit + 1)
  BY <1>0, <1>4, FirstOfSorted
<1>6. Cardinality(R) \in Nat /\ Len(list) = IF Limit + 1 < Cardinality(R) THEN Limit + 1 ELSE Cardinality(R)
  BY <1>0, <1>4, SortedIsTheSet, FirstOfIsAPrefix
<1> HIDE DEF list
<1>7. list \in Seq(T) /\ list \in Seq(R)
  BY <1>1, <1>5 DEF AreFirst
<1>8. \A i \in 1 .. Len(list) : list[i] \in R
  BY <1>7
<1>9. ASSUME NEW p \in r.present, AfterKey(p, r.cursor), p \notin ToSet(list)
      PROVE  Len(list) > Limit /\ \A i \in 1 .. Len(list) : Precedes(list[i], p)
  <2>1. CASE p \in R
    BY <1>0, <1>5, <1>9, <2>1 DEF AreFirst
  <2>2. CASE p \notin R
    <3>1. ~(p.timestamp >= floor)
      BY <1>2, <1>9, <2>2
    <3>2. Len(list) > Limit /\ floor \in Nat
      BY <1>0, <1>3, <1>6, <3>1
    <3>3. p.timestamp \in Nat
      BY DEF Asked, Sortable
    <3>4. \A a \in R : a.timestamp \in Nat /\ a.timestamp >= floor
      BY <1>1, <1>4 DEF Sortable
    <3>5. \A a \in R : a.timestamp > p.timestamp
      BY <3>1, <3>2, <3>3, <3>4
    <3> QED
      BY <1>8, <3>2, <3>5 DEF Precedes
  <2> QED
    BY <2>1, <2>2
<1> QED
  BY <1>1, <1>5, <1>7, <1>8, <1>9 DEF IsPage, AreFirst, list, R

\* The keys of a page, whose rows are still there, are shown as they are.
LEMMA KeysAreShown ==
    ASSUME NEW T, NEW keys \in Seq(T), NEW rows, \A i \in 1 .. Len(keys) : keys[i] \in rows
    PROVE  InKeyOrder(keys, rows) = keys
<1> DEFINE n == Len(keys)
           at == {k \in DOMAIN keys : keys[k] \in rows}
<1>1. n \in Nat /\ DOMAIN keys = 1 .. n /\ keys = [i \in 1 .. n |-> keys[i]]
  OBVIOUS
<1>2. at = 1 .. n
  BY <1>1
<1> HIDE DEF n, at
<1>3. ASSUME NEW i \in 1 .. n PROVE {j \in at : j < i} = 1 .. (i - 1) /\ Cardinality(1 .. (i - 1)) = i - 1
  <2>1. {j \in 1 .. n : j < i} = 1 .. (i - 1)
    BY <1>1
  <2>2. 1 \in Int /\ i - 1 \in Int /\ i - 1 >= 0
    BY <1>1
  <2>3. Cardinality(1 .. (i - 1)) = i - 1
    BY <2>2, FS_Interval
  <2> QED
    BY <1>2, <2>1, <2>3
<1>4. Cardinality(at) = n
  <2>1. 1 \in Int /\ n \in Int
    BY <1>1
  <2> QED
    BY <1>1, <1>2, <2>1, FS_Interval
<1>5. ASSUME NEW i \in 1 .. n
      PROVE  (CHOOSE k \in at : Cardinality({j \in at : j < k}) = i - 1) = i
  <2>1. \A k \in at : Cardinality({j \in at : j < k}) = k - 1
    BY <1>2, <1>3
  <2>2. \A k \in at : Cardinality({j \in at : j < k}) = i - 1 => k = i
    BY <1>1, <1>2, <2>1
  <2>3. i \in at /\ Cardinality({j \in at : j < i}) = i - 1
    BY <1>2, <2>1
  <2> QED
    BY <2>2, <2>3
<1>6. Selected(keys, at) = [i \in 1 .. n |-> keys[i]]
  <2>1. Selected(keys, at) =
          [i \in 1 .. n |-> keys[CHOOSE k \in at : Cardinality({j \in at : j < k}) = i - 1]]
    BY <1>4 DEF Selected
  <2> DEFINE Place(i) == CHOOSE k \in at : Cardinality({j \in at : j < k}) = i - 1
  <2>2. Selected(keys, at) = [i \in 1 .. n |-> keys[Place(i)]]
    BY <2>1
  <2>3. \A i \in 1 .. n : Place(i) = i
    BY <1>5
  <2> HIDE DEF Place
  <2> QED
    BY <2>2, <2>3
<1> QED
  BY <1>1, <1>6 DEF InKeyOrder, at

-----------------------------------------------------------------------------
(***************************************************************************)
(* The two reads of a page.                                                *)
(***************************************************************************)

\* The rows stored have keys, and no two of them the same.
LEMMA TablesAreSortable ==
    ASSUME IInv, IsFiniteSet(tables)
    PROVE  Sortable(tables)
<1>1. scenario \in Scenarios /\ EachEventOnce
  BY RowsAreKeyed DEF IInv, StoreTyped
<1>2. ASSUME NEW a \in tables
      PROVE  a.timestamp \in Nat /\ a.signature \in Nat \ {0} /\ a.event_index \in Nat
  <2>1. PICK e \in Events : a = RowOf(e)
    BY DEF IInv, RowsAreOfPayloads
  <2>2. /\ a.timestamp = e.timestamp /\ a.signature = e.signature
        /\ a.event_index = e.event_index
    BY <2>1 DEF RowOf
  <2>3. /\ e.signature \in Signatures /\ e.event_index \in Nat
        /\ e = EventOf(e.signature, e.event_index + 1)
    BY <1>1, EventIsOfPayload
  <2>4. e.timestamp = history[e.signature].at
    BY <2>3 DEF EventOf, DomainEvent
  <2> QED
    BY <1>1, <2>2, <2>3, <2>4, PagesAssumption DEF Signatures, history
<1>3. ASSUME NEW a \in tables, NEW b \in tables,
             a.signature = b.signature, a.event_index = b.event_index
      PROVE  a = b
  BY <1>1, <1>3 DEF EachEventOnce, EventId
<1> QED
  BY <1>2, <1>3 DEF Sortable

\* Rows inserted, whatever they are, leave the walk sound.
LEMMA SoundGrows ==
    ASSUME NEW r, NEW T, NEW U, Sound(r, T), T \subseteq U, IsFiniteSet(U)
    PROVE  Sound(r, U)
<1>1. \A list : list \in Seq(T) => list \in Seq(U)
  OBVIOUS
<1>2. Asked(r, T) => Asked(r, U)
  BY DEF Asked
<1>3. \A list : IsPage(list, r, T) => IsPage(list, r, U)
  BY <1>1 DEF IsPage
<1>4. ASSUME NEW floor, Floor(r, T, floor) PROVE Floor(r, U, floor)
  <2> DEFINE Over(V) == {row \in ReadableIn(V, "swap2", r) : row.timestamp >= floor}
  <2>1. Over(T) \subseteq Over(U) /\ Over(U) \subseteq U
    BY DEF ReadableIn
  <2>2. CASE \A p \in r.present : p.timestamp >= floor
    BY <2>2 DEF Floor
  <2>3. CASE floor \in Nat /\ Cardinality(Over(T)) > Limit
    <3> HIDE DEF Over
    <3>1. IsFiniteSet(Over(U))
      BY <2>1, FS_Subset
    <3>2. IsFiniteSet(Over(T)) /\ Cardinality(Over(T)) <= Cardinality(Over(U))
      BY <2>1, <3>1, FS_Subset
    <3>3. Cardinality(Over(T)) \in Nat /\ Cardinality(Over(U)) \in Nat
      BY <3>1, <3>2, FS_CardinalityType
    <3>4. Limit \in Nat
      BY PagesAssumption
    <3>5. Cardinality(Over(U)) > Limit
      BY <2>3, <3>2, <3>3, <3>4
    <3> QED
      BY <2>3, <3>5 DEF Floor, Over
  <2> QED
    BY <1>4, <2>2, <2>3 DEF Floor
<1>5. Halfway(r, T) => Halfway(r, U)
  BY <1>3, <1>4 DEF Halfway
<1> QED
  BY <1>1, <1>2, <1>5 DEF Sound

\* The first of the two reads of a page leaves the walk sound.
LEMMA ReadingIsSound ==
    ASSUME NEW T, NEW r, Fields(r), r.seen \in Seq(T), Ordered(r.seen), Asked(r, T), AtCursor(r),
           NEW mid,
           \/ /\ r.collection = "swaps" /\ r.scope # DlmmScope
              /\ Floor(r, T, mid[1])
           \/ /\ r.collection \in {"position_changes", "reward_changes", "pool_changes"}
              /\ IsPage(mid, r, T)
              /\ \A i \in 1 .. Len(mid) : mid[i].kind \in Tables[r.collection]
    PROVE  Sound(Reading(mid, r), T)
<1> DEFINE q == Reading(mid, r)
<1>1. PICK phase, collection, scope, from, cursor, old, seen, present :
        r = [phase |-> phase, collection |-> collection, scope |-> scope, from |-> from,
             cursor |-> cursor, mid |-> old, seen |-> seen, present |-> present]
  BY DEF Fields
<1>2. q = [r EXCEPT !.phase = "reading", !.mid = mid]
  BY DEF Reading
<1>3. /\ q.phase = "reading" /\ q.mid = mid
      /\ DOMAIN q = {"phase", "collection", "scope", "from", "cursor", "mid", "seen", "present"}
  <2>1. DOMAIN q = DOMAIN r
    BY <1>2
  <2> HIDE DEF q
  <2> QED
    BY <1>1, <1>2, <2>1
<1>4. /\ q.collection = r.collection /\ q.scope = r.scope /\ q.from = r.from
      /\ q.cursor = r.cursor /\ q.seen = r.seen /\ q.present = r.present
  <2> HIDE DEF q
  <2> QED
    BY <1>1, <1>2
<1>5. q = [f \in DOMAIN q |-> q[f]]
  BY <1>2
<1> HIDE DEF q
<1>6. Fields(q)
  BY <1>3, <1>5 DEF Fields
<1>7. Asked(q, T) /\ AtCursor(q)
  BY <1>4 DEF Asked, IsAsked, AtCursor
<1>8. \A kind : ReadableIn(T, kind, q) = ReadableIn(T, kind, r)
  BY <1>4 DEF ReadableIn
<1>9. Halfway(q, T)
  <2>1. Floor(r, T, mid[1]) => Floor(q, T, mid[1])
    BY <1>4, <1>8 DEF Floor
  <2>2. IsPage(mid, r, T) => IsPage(mid, q, T)
    BY <1>4 DEF IsPage
  <2> QED
    BY <1>3, <1>4, <2>1, <2>2 DEF Halfway
<1>10. Sound(q, T)
  BY <1>3, <1>4, <1>6, <1>7, <1>9 DEF Sound
<1> QED
  BY <1>10 DEF q

\* The first read of a page, of every collection and scope.
LEMMA FirstReadIsSound ==
    ASSUME Sortable(tables), NEW r, Fields(r), r.seen \in Seq(tables), Ordered(r.seen),
           Asked(r, tables), AtCursor(r)
    PROVE  Sound(FirstRead(r), tables)
<1>0. \A kind : Readable(kind, r.scope, r.from, r.cursor) = ReadableIn(tables, kind, r)
  BY DEF Readable, ReadableIn
<1>1. ASSUME NEW kind, Tables[r.collection] = {kind}
      PROVE  Sound(Shown(OneTable(kind, r.scope, r.from, r.cursor), r), tables)
  <2>1. OneTable(kind, r.scope, r.from, r.cursor) =
          FirstOf(Sorted(ReadableIn(tables, kind, r)), Limit + 1)
    BY <1>0 DEF OneTable
  <2>2. IsPage(OneTable(kind, r.scope, r.from, r.cursor), r, tables)
    BY <1>1, <2>1, OneTableIsAPage
  <2> QED
    BY <2>2, PageIsShown
<1>2. ASSUME r.collection \in {"position_changes", "reward_changes", "pool_changes"}
      PROVE  Sound(Reading(MergedKeys(Tables[r.collection], r.scope, r.from, r.cursor), r), tables)
  <2> DEFINE keys == MergedKeys(Tables[r.collection], r.scope, r.from, r.cursor)
             Cut(kind) == FirstOf(Sorted(ReadableIn(tables, kind, r)), Limit + 1)
  <2>1. keys = FirstOf(Sorted(UNION {ToSet(Cut(kind)) : kind \in Tables[r.collection]}), Limit + 1)
    BY <1>0 DEF MergedKeys, OneTable
  <2>2. IsPage(keys, r, tables) /\ \A i \in 1 .. Len(keys) : keys[i].kind \in Tables[r.collection]
    BY <2>1, MergeIsAPage
  <2> HIDE DEF keys
  <2>3. Sound(Reading(keys, r), tables)
    BY <1>2, <2>2, ReadingIsSound
  <2> QED
    BY <2>3 DEF keys
<1>3. CASE r.scope = DlmmScope
  <2>1. IsPage(<<>>, r, tables)
    BY <1>3 DEF IsPage, Ordered, Asked, IsAsked
  <2>2. FirstRead(r) = Shown(<<>>, r)
    BY <1>3 DEF FirstRead
  <2> QED
    BY <2>1, <2>2, PageIsShown
<1>4. CASE r.scope # DlmmScope /\ r.collection = "swaps"
  <2> DEFINE floor == SwapFloor(r.scope, r.from, r.cursor)
  <2>1. FirstRead(r) = Reading(<<floor>>, r)
    BY <1>4 DEF FirstRead
  <2>2. LET rows == Sorted(ReadableIn(tables, "swap2", r))
        IN floor = IF Len(rows) <= Limit THEN r.from ELSE rows[Limit + 1].timestamp
    BY <1>0 DEF SwapFloor
  <2> HIDE DEF floor
  <2>3. Floor(r, tables, floor)
    BY <2>2, FloorIsLow
  <2>4. <<floor>>[1] = floor
    OBVIOUS
  <2> QED
    BY <1>4, <2>1, <2>3, <2>4, ReadingIsSound
<1>5. CASE r.scope # DlmmScope /\ r.collection = "position_changes"
  BY <1>2, <1>5 DEF FirstRead, PositionChangeKeys, Tables
<1>6. CASE r.scope # DlmmScope /\ r.collection = "reward_changes"
  BY <1>2, <1>6 DEF FirstRead, RewardChangeKeys, Tables
<1>7. CASE r.scope # DlmmScope /\ r.collection = "pool_changes"
  BY <1>2, <1>7 DEF FirstRead, PoolChangeKeys, Tables
<1>8. CASE r.scope # DlmmScope /\ r.collection = "liquidity_changes"
  BY <1>1, <1>8 DEF FirstRead, LiquidityChanges, Tables
<1>9. CASE r.scope # DlmmScope /\ r.collection = "pool_creations"
  BY <1>1, <1>9 DEF FirstRead, PoolCreations, Tables
<1>10. CASE r.scope # DlmmScope /\ r.collection = "position_fee_claims"
  BY <1>1, <1>10 DEF FirstRead, PositionFeeClaims, Tables
<1>11. CASE r.scope # DlmmScope /\ r.collection = "protocol_fee_claims"
  BY <1>1, <1>11 DEF FirstRead, ProtocolFeeClaims, Tables
<1>12. CASE r.scope # DlmmScope /\ r.collection = "reward_claims"
  BY <1>1, <1>12 DEF FirstRead, RewardClaims, Tables
<1>13. r.collection \in {"swaps", "liquidity_changes", "pool_creations", "position_changes",
                         "position_fee_claims", "protocol_fee_claims", "reward_claims",
                         "reward_changes", "pool_changes"}
  BY DEF Asked, Collections, Tables
<1> QED
  BY <1>3, <1>4, <1>5, <1>6, <1>7, <1>8, <1>9, <1>10, <1>11, <1>12, <1>13

\* The rows of the keys are all still there.
LEMMA RowsOfKeysAreThere ==
    ASSUME Sortable(tables), NEW keys \in Seq(tables), NEW kinds,
           \A i \in 1 .. Len(keys) : keys[i].kind \in kinds
    PROVE  InKeyOrder(keys, UNION {RowsOfKeys(kind, keys) : kind \in kinds}) = keys
<1> DEFINE rows == UNION {RowsOfKeys(kind, keys) : kind \in kinds}
<1>1. ASSUME NEW i \in 1 .. Len(keys) PROVE keys[i] \in rows
  <2>1. keys[i] \in tables /\ keys[i] \in ToSet(keys)
    BY DEF ToSet
  <2>2. keys[i].timestamp <= keys[i].timestamp
    BY <2>1 DEF Sortable
  <2>3. keys[i] \in RowsOfKeys(keys[i].kind, keys)
    BY <2>1, <2>2 DEF RowsOfKeys
  <2> QED
    BY <2>3
<1> HIDE DEF rows
<1>2. InKeyOrder(keys, rows) = keys
  BY <1>1, KeysAreShown
<1> QED
  BY <1>2 DEF rows

\* The second read of a page: the swaps above the floor, or the rows of the keys.
LEMMA SecondReadIsSound ==
    ASSUME Sortable(tables), Sound(reader, tables), SecondRead
    PROVE  \E q : q = reader' /\ Sound(q, tables)
<1> DEFINE r == reader
<1>1. /\ r.phase = "reading" /\ Fields(r) /\ r.seen \in Seq(tables) /\ Ordered(r.seen)
      /\ Asked(r, tables) /\ AtCursor(r) /\ Halfway(r, tables)
  BY DEF SecondRead, Sound
<1>0. \A kind : Readable(kind, r.scope, r.from, r.cursor) = ReadableIn(tables, kind, r)
  BY DEF Readable, ReadableIn
<1>2. CASE r.collection = "swaps"
  <2>1. reader' = Shown(Swaps(r.scope, r.from, r.cursor, r.mid[1]), r)
    BY <1>2 DEF SecondRead
  <2>2. Floor(r, tables, r.mid[1])
    BY <1>1, <1>2 DEF Halfway
  <2>3. Swaps(r.scope, r.from, r.cursor, r.mid[1]) =
          FirstOf(Sorted({row \in ReadableIn(tables, "swap2", r) : row.timestamp >= r.mid[1]}),
                  Limit + 1)
    BY <1>0 DEF Swaps
  <2>4. IsPage(Swaps(r.scope, r.from, r.cursor, r.mid[1]), r, tables)
    BY <1>1, <1>2, <2>2, <2>3, SwapsAreAPage
  <2>5. Sound(Shown(Swaps(r.scope, r.from, r.cursor, r.mid[1]), r), tables)
    BY <1>1, <2>4, PageIsShown
  <2> QED
    BY <2>1, <2>5
<1>3. CASE r.collection \in {"position_changes", "reward_changes", "pool_changes"}
  <2>1. /\ IsPage(r.mid, r, tables) /\ r.mid \in Seq(tables)
        /\ \A i \in 1 .. Len(r.mid) : r.mid[i].kind \in Tables[r.collection]
    BY <1>1, <1>3 DEF Halfway, IsPage
  <2>2. InKeyOrder(r.mid, UNION {RowsOfKeys(kind, r.mid) : kind \in Tables[r.collection]}) = r.mid
    BY <2>1, RowsOfKeysAreThere
  <2>3. reader' = Shown(r.mid, r)
    <3>1. CASE r.collection = "position_changes"
      BY <2>2, <3>1 DEF SecondRead, PositionChanges, Tables
    <3>2. CASE r.collection = "reward_changes"
      BY <2>2, <3>2 DEF SecondRead, RewardChanges, Tables
    <3>3. CASE r.collection = "pool_changes"
      BY <2>2, <3>3 DEF SecondRead, PoolChanges, Tables
    <3> QED
      BY <1>3, <3>1, <3>2, <3>3
  <2>4. Sound(Shown(r.mid, r), tables)
    BY <1>1, <2>1, PageIsShown
  <2> QED
    BY <2>3, <2>4
<1> QED
  BY <1>1, <1>2, <1>3 DEF Halfway

-----------------------------------------------------------------------------
(***************************************************************************)
(* The walk.                                                               *)
(***************************************************************************)

\* The inductive invariant of the store and a walk over it.
WalkInv ==
    /\ IInv
    /\ IsFiniteSet(tables)
    /\ Sound(reader, tables)

\* The first page: what is there is what the walk owes.
LEMMA ListEventsIsSound ==
    ASSUME Sortable(tables), NEW c \in Collections, NEW scope, NEW window, ListEvents(c, scope, window)
    PROVE  \E q : q = reader' /\ Sound(q, tables)
<1> DEFINE from == WindowStart(window)
           kinds == IF scope = DlmmScope THEN {} ELSE Tables[c]
           present == UNION {Readable(kind, scope, from, None) : kind \in kinds}
           r == [Away EXCEPT !.collection = c, !.scope = scope, !.from = from,
                             !.present = present]
           Walk(phase) ==
              [phase |-> phase, collection |-> c, scope |-> scope, from |-> from,
               cursor |-> None, mid |-> <<>>, seen |-> <<>>, present |-> present]
<1>1. reader' = IF scope.of = "pool" /\ ~KnownPool(pools, scope.pool)
                THEN [r EXCEPT !.phase = "not_found"] ELSE FirstRead(r)
  BY DEF ListEvents
<1>2. ASSUME NEW p \in present
      PROVE  /\ p \in tables /\ scope # DlmmScope /\ p.kind \in Tables[c]
             /\ scope.of = "pool" => p.pool = scope.pool
             /\ p.timestamp >= from
  BY DEF Readable
<1>7. \A p \in present : AfterKey(p, None)
  BY DEF AfterKey
<1> HIDE DEF from, present
<1>3. r = Walk("away") /\ [r EXCEPT !.phase = "not_found"] = Walk("not_found")
  <2> DEFINE fields == {"phase", "collection", "scope", "from", "cursor", "mid", "seen", "present"}
  <2>1. ASSUME NEW scope1, NEW from1, NEW present1,
               NEW q, q = [Away EXCEPT !.collection = c, !.scope = scope1, !.from = from1,
                                       !.present = present1]
        PROVE  q = [phase |-> "away", collection |-> c, scope |-> scope1, from |-> from1,
                    cursor |-> None, mid |-> <<>>, seen |-> <<>>, present |-> present1]
    <3>1. DOMAIN q = fields /\ q = [f \in DOMAIN q |-> q[f]]
      BY <2>1 DEF Away
    <3>2. /\ q.collection = c /\ q.scope = scope1 /\ q.from = from1 /\ q.present = present1
          /\ q.phase = "away" /\ q.cursor = None /\ q.mid = <<>> /\ q.seen = <<>>
      BY <2>1 DEF Away
    <3> QED
      BY <3>1, <3>2
  <2>2. r = Walk("away")
    BY <2>1
  <2> HIDE DEF r
  <2>3. [r EXCEPT !.phase = "not_found"] = Walk("not_found")
    BY <2>2
  <2> QED
    BY <2>2, <2>3
<1> HIDE DEF r
<1>4. ASSUME NEW phase
      PROVE  /\ Fields(Walk(phase)) /\ Walk(phase).seen \in Seq(tables) /\ Ordered(Walk(phase).seen)
             /\ Walk(phase).phase = phase
  <2>1. /\ Walk(phase).phase = phase /\ Walk(phase).collection = c /\ Walk(phase).scope = scope
        /\ Walk(phase).from = from /\ Walk(phase).cursor = None /\ Walk(phase).mid = <<>>
        /\ Walk(phase).seen = <<>> /\ Walk(phase).present = present
    OBVIOUS
  <2>2. Fields(Walk(phase))
    BY <2>1 DEF Fields
  <2> HIDE DEF Walk
  <2> QED
    BY <2>1, <2>2 DEF Ordered
<1>5. CASE reader' = FirstRead(r)
  <2>1. /\ r.collection = c /\ r.scope = scope /\ r.from = from /\ r.cursor = None
        /\ r.seen = <<>> /\ r.present = present
    BY <1>3
  <2>2. Asked(r, tables)
    BY <1>2, <2>1 DEF Asked, IsAsked
  <2>3. AtCursor(r)
    BY <1>7, <2>1 DEF AtCursor
  <2>4. Fields(r) /\ r.seen \in Seq(tables) /\ Ordered(r.seen)
    BY <1>3, <1>4
  <2>5. Sound(FirstRead(r), tables)
    BY <2>2, <2>3, <2>4, FirstReadIsSound
  <2> QED
    BY <1>5, <2>5
<1>6. CASE reader' = Walk("not_found")
  <2> HIDE DEF Walk
  <2>1. Sound(Walk("not_found"), tables)
    BY <1>4 DEF Sound
  <2> QED
    BY <1>6, <2>1
<1> QED
  BY <1>1, <1>3, <1>5, <1>6

\* The next page, or a cursor refused.
LEMMA NextPageIsSound ==
    ASSUME Sortable(tables), Sound(reader, tables), NextPage
    PROVE  \E q : q = reader' /\ Sound(q, tables)
<1> DEFINE r == reader
           q == [r EXCEPT !.phase = "refused"]
<1>1. /\ r.phase = "walking" /\ Fields(r) /\ r.seen \in Seq(tables) /\ Ordered(r.seen)
      /\ Asked(r, tables) /\ AtCursor(r)
  BY DEF NextPage, Sound
<1>2. reader' = FirstRead(r) \/ reader' = q
  BY DEF NextPage
<1>3. Sound(FirstRead(r), tables)
  BY <1>1, FirstReadIsSound
<1>4. Sound(q, tables)
  <2>0. PICK phase, collection, scope, from, cursor, mid, seen, present :
          r = [phase |-> phase, collection |-> collection, scope |-> scope, from |-> from,
               cursor |-> cursor, mid |-> mid, seen |-> seen, present |-> present]
    BY <1>1 DEF Fields
  <2>1. DOMAIN q = DOMAIN r /\ q = [f \in DOMAIN q |-> q[f]]
    OBVIOUS
  <2>2. q.phase = "refused" /\ q.seen = r.seen
    BY <2>0
  <2> HIDE DEF q
  <2>3. DOMAIN q = {"phase", "collection", "scope", "from", "cursor", "mid", "seen", "present"}
    BY <2>0, <2>1
  <2>4. Fields(q)
    BY <2>1, <2>3 DEF Fields
  <2> QED
    BY <1>1, <2>2, <2>4 DEF Sound
<1> QED
  BY <1>2, <1>3, <1>4

\* The indexer only adds rows.
LEMMA TablesGrow ==
    ASSUME StoreNext, IsFiniteSet(tables)
    PROVE  tables \subseteq tables' /\ IsFiniteSet(tables')
<1>1. tables' = tables \/ \E e : tables' = tables \cup {e}
  <2>1. \A e : Inserted(e) = tables \/ Inserted(e) = tables \cup {RowOf(e)}
    BY DEF Inserted
  <2> QED
    BY <2>1 DEF StoreNext, ProcessTransaction, DiscoverPool, TouchPool, MarkPool, InsertEvent,
                ProjectEvent, Restart, TimePasses
<1> QED
  BY <1>1, FS_AddElement

\* Nobody reads at first.
LEMMA InitEstablishesWalkInv == LookupInit => WalkInv
<1> SUFFICES ASSUME LookupInit PROVE WalkInv
  OBVIOUS
<1>1. IInv
  BY InitEstablishesIInv
<1>2. tables = {} /\ reader = Away
  BY DEF LookupInit, StoreInit
<1>3. IsFiniteSet(tables)
  BY <1>2, FS_EmptySet
<1>4. /\ Away.phase = "away" /\ Away.seen = <<>>
  BY DEF Away
<1>5. Fields(Away)
  BY DEF Fields, Away
<1>6. Ordered(Away.seen) /\ Away.seen \in Seq(tables)
  BY <1>4 DEF Ordered
<1>7. Sound(Away, tables)
  BY <1>4, <1>5, <1>6 DEF Sound
<1> QED
  BY <1>1, <1>2, <1>3, <1>7 DEF WalkInv

\* Every step of the indexer and of the reader keeps the walk sound.
LEMMA NextKeepsWalkInv == WalkInv /\ [LookupNext]_lookupVars => WalkInv'
<1> SUFFICES ASSUME WalkInv, [LookupNext]_lookupVars PROVE WalkInv'
  OBVIOUS
<1>1. IInv /\ IInv' /\ IsFiniteSet(tables) /\ Sound(reader, tables) /\ scenario \in Scenarios
  BY NextKeepsIInv DEF WalkInv, IInv, StoreTyped
<1>2. Sortable(tables)
  BY <1>1, TablesAreSortable
<1>3. CASE StoreNext /\ UNCHANGED reader
  <2>1. tables \subseteq tables' /\ IsFiniteSet(tables')
    BY <1>1, <1>3, TablesGrow
  <2>2. PICK T : T = tables'
    OBVIOUS
  <2>3. Sound(reader, T)
    BY <1>1, <2>1, <2>2, SoundGrows
  <2> QED
    BY <1>1, <1>3, <2>1, <2>2, <2>3 DEF WalkInv
<1>4. ASSUME tables' = tables, \E q : q = reader' /\ Sound(q, tables) PROVE WalkInv'
  BY <1>1, <1>4 DEF WalkInv
<1>5. ASSUME NEW w \in scenario.walks, ListEvents(w.collection, w.scope, w.window) PROVE WalkInv'
  <2>1. w.collection \in Collections
    BY <1>1, PagesAssumption
  <2>2. tables' = tables
    BY <1>5 DEF ListEvents, storeVars
  <2> QED
    BY <1>2, <1>4, <1>5, <2>1, <2>2, ListEventsIsSound
<1>6. CASE NextPage
  <2>1. tables' = tables
    BY <1>6 DEF NextPage, storeVars
  <2> QED
    BY <1>1, <1>2, <1>4, <1>6, <2>1, NextPageIsSound
<1>7. CASE SecondRead
  <2>1. tables' = tables
    BY <1>7 DEF SecondRead, storeVars
  <2> QED
    BY <1>1, <1>2, <1>4, <1>7, <2>1, SecondReadIsSound
<1>8. CASE UNCHANGED lookupVars
  <2>1. tables' = tables /\ reader' = reader
    BY <1>8 DEF lookupVars, storeVars
  <2> QED
    BY <1>1, <1>4, <2>1
<1> QED
  BY <1>3, <1>5, <1>6, <1>7, <1>8 DEF LookupNext

\* A walk shows each row that was there at its first page once, in one order, for
\* any page size, any collection and scope, and whatever is inserted between its
\* pages and between the two reads of a page.
THEOREM WalksAreWhole == Spec => []WalkIsWhole
<1>1. WalkInv => WalkIsWhole
  <2> SUFFICES ASSUME WalkInv PROVE WalkIsWhole
    OBVIOUS
  <2>1. reader.seen \in Seq(tables) /\ Ordered(reader.seen)
    BY DEF WalkInv, Sound
  <2>2. DOMAIN reader.seen = 1 .. Len(reader.seen)
    BY <2>1
  <2>3. reader.phase = "done" => reader.present \subseteq ToSet(reader.seen)
    BY DEF WalkInv, Sound
  <2> QED
    BY <2>1, <2>2, <2>3 DEF WalkIsWhole, Ordered
<1> QED
  BY <1>1, InitEstablishesWalkInv, NextKeepsWalkInv, PTL DEF Spec

-----------------------------------------------------------------------------
(***************************************************************************)
(* What the answers say.                                                   *)
(***************************************************************************)

\* What is answered of an event: each number is one the chain emitted or a date
\* that cannot be shown, no two are the same one, what is past 63 bits is in a
\* column that holds it, and no far date is shown.
IsEmitted(answer, kind, beyond, far) ==
    /\ \A f \in DOMAIN answer :
          \/ answer[f] \in Mirrors[kind].u64 \cup Mirrors[kind].u128
          \/ f = "rewardDurationEnd" /\ "reward_duration_end" \in far
    /\ kind = "fund_reward" /\ "reward_duration_end" \in far => answer.rewardDurationEnd = NoDate
    /\ \A f, g \in DOMAIN answer : f # g => answer[f] # answer[g]
    /\ \A f \in DOMAIN answer :
          answer[f] \in beyond => answer[f] \in Mirrors[kind].u128 \cup {NoDate}

\* The event was translated and its row was not refused.
Fits(kind, enums, beyond) ==
    /\ TranslateWireEvent(kind, enums) # Failed
    /\ ~ConvertU64ToI64Fails(kind, TranslateWireEvent(kind, enums), beyond)

Answer(kind, enums, far) == Response(kind, ReadRow(kind, TranslateWireEvent(kind, enums)), far)

\* Each table is of one collection.
LEMMA CollectionIsFound ==
    ASSUME NEW c \in Collections, NEW kind \in Tables[c]
    PROVE  CollectionOf(kind) = c
<1>1. ASSUME NEW d \in Collections, kind \in Tables[d] PROVE d = c
  BY <1>1 DEF Collections, Tables, PositionChangeTables, RewardChangeTables, PoolChangeTables
<1> QED
  BY <1>1 DEF CollectionOf

\* Column by column, for each kind of event.
LEMMA AnswersAreEmitted ==
    ASSUME NEW kind \in Kinds, NEW enums, NEW beyond, NEW far, Fits(kind, enums, beyond)
    PROVE  /\ IsEmitted(Answer(kind, enums, far), kind, beyond, far)
           /\ kind = "swap2" =>
                 (IF enums.direction = "AtoB" THEN Answer(kind, enums, far).amountA
                  ELSE Answer(kind, enums, far).amountB) = "included_transfer_fee_amount_in"
<1> DEFINE e == WireEvent(kind)
           numbers == TranslateWireEvent(kind, enums)
           read == ReadRow(kind, numbers)
           shown == Response(kind, read, far)
<1>a. /\ \A f \in Mirrors[kind].u64 \cup Mirrors[kind].u128 : e[f] = f
      /\ numbers # Failed
      /\ \A column \in Checked[kind] : numbers[column] \notin beyond
  BY DEF WireEvent, Fits, ConvertU64ToI64Fails
<1>b. \A column \in RowColumns(kind) : read[column] = numbers[column]
  BY DEF ReadRow
<1>1. CASE kind = "liquidity_change"
  <2>1. CollectionOf(kind) = "liquidity_changes"
    BY <1>1, CollectionIsFound DEF Collections, Tables
  <2>2. numbers = [amount_a |-> "token_a_amount", amount_b |-> "token_b_amount",
                   reserve_a_after |-> "reserve_a_amount",
                   reserve_b_after |-> "reserve_b_amount",
                   liquidity_delta |-> "liquidity_delta"]
    <3>1. numbers = TranslateLiquidity(e, enums)
      BY <1>1 DEF TranslateWireEvent
    <3> HIDE DEF e, numbers
    <3> QED
      BY <1>a, <1>1, <3>1 DEF TranslateLiquidity, Mirrors, EvtLiquidityChange, Mirror
  <2> HIDE DEF numbers, e
  <2>3. shown = [amountA |-> "token_a_amount", amountB |-> "token_b_amount",
                 reserveAAfter |-> "reserve_a_amount", reserveBAfter |-> "reserve_b_amount",
                 liquidityDelta |-> "liquidity_delta"]
    <3> HIDE DEF read
    <3>1. shown = LiquidityChangeEventResponse(read)
      BY <1>1, <2>1 DEF Response
    <3>2. RowColumns(kind) = LiquidityEventRow
      BY <1>1 DEF RowColumns, RewardChangeRows, PoolChangeRows, PositionLockRows
    <3>3. /\ read.amount_a = "token_a_amount"
          /\ read.amount_b = "token_b_amount"
          /\ read.reserve_a_after = "reserve_a_amount"
          /\ read.reserve_b_after = "reserve_b_amount"
          /\ read.liquidity_delta = "liquidity_delta"
      BY <1>b, <1>1, <2>2, <3>2 DEF LiquidityEventRow
    <3> HIDE DEF shown
    <3> QED
      BY <1>1, <3>1, <3>3 DEF LiquidityChangeEventResponse
  <2> HIDE DEF shown
  <2>4. IsEmitted(shown, kind, beyond, far)
    BY <1>a, <1>1, <2>2, <2>3 DEF IsEmitted, Mirrors, EvtLiquidityChange, Mirror, Checked,
       InsertLiquidity
  <2> QED
    BY <1>1, <2>4 DEF Answer, shown, read, numbers
<1>2. CASE kind = "claim_position_fee"
  <2>1. CollectionOf(kind) = "position_fee_claims"
    BY <1>2, CollectionIsFound DEF Collections, Tables
  <2>2. numbers = [fee_a_claimed |-> "fee_a_claimed", fee_b_claimed |-> "fee_b_claimed"]
    <3>1. numbers = TranslateClaimPositionFee(e)
      BY <1>2 DEF TranslateWireEvent
    <3> HIDE DEF e, numbers
    <3> QED
      BY <1>a, <1>2, <3>1 DEF TranslateClaimPositionFee, Mirrors, EvtClaimPositionFee, Mirror
  <2> HIDE DEF numbers, e
  <2>3. shown = [feeA |-> "fee_a_claimed", feeB |-> "fee_b_claimed"]
    <3> HIDE DEF read
    <3>1. shown = PositionFeeClaimEventResponse(read)
      BY <1>2, <2>1 DEF Response
    <3>2. RowColumns(kind) = ClaimPositionFeeEventRow
      BY <1>2 DEF RowColumns, RewardChangeRows, PoolChangeRows, PositionLockRows
    <3>3. /\ read.fee_a_claimed = "fee_a_claimed"
          /\ read.fee_b_claimed = "fee_b_claimed"
      BY <1>b, <1>2, <2>2, <3>2 DEF ClaimPositionFeeEventRow
    <3> HIDE DEF shown
    <3> QED
      BY <1>2, <3>1, <3>3 DEF PositionFeeClaimEventResponse
  <2> HIDE DEF shown
  <2>4. IsEmitted(shown, kind, beyond, far)
    BY <1>a, <1>2, <2>2, <2>3 DEF IsEmitted, Mirrors, EvtClaimPositionFee, Mirror, Checked,
       InsertClaimPositionFee
  <2> QED
    BY <1>2, <2>4 DEF Answer, shown, read, numbers
<1>3. CASE kind = "claim_protocol_fee"
  <2>1. CollectionOf(kind) = "protocol_fee_claims"
    BY <1>3, CollectionIsFound DEF Collections, Tables
  <2>2. numbers = [token_a_amount |-> "token_a_amount", token_b_amount |-> "token_b_amount"]
    <3>1. numbers = TranslateClaimProtocolFee(e)
      BY <1>3 DEF TranslateWireEvent
    <3> HIDE DEF e, numbers
    <3> QED
      BY <1>a, <1>3, <3>1 DEF TranslateClaimProtocolFee, Mirrors, EvtClaimProtocolFee, Mirror
  <2> HIDE DEF numbers, e
  <2>3. shown = [amountA |-> "token_a_amount", amountB |-> "token_b_amount"]
    <3> HIDE DEF read
    <3>1. shown = ProtocolFeeClaimEventResponse(read)
      BY <1>3, <2>1 DEF Response
    <3>2. RowColumns(kind) = ClaimProtocolFeeEventRow
      BY <1>3 DEF RowColumns, RewardChangeRows, PoolChangeRows, PositionLockRows
    <3>3. /\ read.token_a_amount = "token_a_amount"
          /\ read.token_b_amount = "token_b_amount"
      BY <1>b, <1>3, <2>2, <3>2 DEF ClaimProtocolFeeEventRow
    <3> HIDE DEF shown
    <3> QED
      BY <1>3, <3>1, <3>3 DEF ProtocolFeeClaimEventResponse
  <2> HIDE DEF shown
  <2>4. IsEmitted(shown, kind, beyond, far)
    BY <1>a, <1>3, <2>2, <2>3 DEF IsEmitted, Mirrors, EvtClaimProtocolFee, Mirror, Checked,
       InsertClaimProtocolFee
  <2> QED
    BY <1>3, <2>4 DEF Answer, shown, read, numbers
<1>4. CASE kind = "claim_reward"
  <2>1. CollectionOf(kind) = "reward_claims"
    BY <1>4, CollectionIsFound DEF Collections, Tables
  <2>2. numbers = [total_reward |-> "total_reward"]
    <3>1. numbers = TranslateClaimReward(e)
      BY <1>4 DEF TranslateWireEvent
    <3> HIDE DEF e, numbers
    <3> QED
      BY <1>a, <1>4, <3>1 DEF TranslateClaimReward, Mirrors, EvtClaimReward, Mirror
  <2> HIDE DEF numbers, e
  <2>3. shown = [amount |-> "total_reward"]
    <3> HIDE DEF read
    <3>1. shown = RewardClaimEventResponse(read)
      BY <1>4, <2>1 DEF Response
    <3>2. RowColumns(kind) = ClaimRewardEventRow
      BY <1>4 DEF RowColumns, RewardChangeRows, PoolChangeRows, PositionLockRows
    <3>3. /\ read.total_reward = "total_reward"
      BY <1>b, <1>4, <2>2, <3>2 DEF ClaimRewardEventRow
    <3> HIDE DEF shown
    <3> QED
      BY <1>4, <3>1, <3>3 DEF RewardClaimEventResponse
  <2> HIDE DEF shown
  <2>4. IsEmitted(shown, kind, beyond, far)
    BY <1>a, <1>4, <2>2, <2>3 DEF IsEmitted, Mirrors, EvtClaimReward, Mirror, Checked,
       InsertClaimReward
  <2> QED
    BY <1>4, <2>4 DEF Answer, shown, read, numbers
<1>5. CASE kind = "initialize_reward"
  <2>1. CollectionOf(kind) = "reward_changes"
    BY <1>5, CollectionIsFound DEF Collections, Tables, RewardChangeTables
  <2>2. numbers = [reward_duration |-> "reward_duration"]
    <3>1. numbers = TranslateInitializeReward(e)
      BY <1>5 DEF TranslateWireEvent
    <3> HIDE DEF e, numbers
    <3> QED
      BY <1>a, <1>5, <3>1 DEF TranslateInitializeReward, Mirrors, EvtInitializeReward, Mirror
  <2> HIDE DEF numbers, e
  <2>3. shown = [rewardDuration |-> "reward_duration"]
    <3> HIDE DEF read
    <3>1. shown = RewardChangeEventResponse(kind, read, far)
      BY <1>5, <2>1 DEF Response
    <3>2. RowColumns(kind) = RewardChangeRows["initialize_reward"]
      BY <1>5 DEF RowColumns, RewardChangeRows, PoolChangeRows, PositionLockRows
    <3>3. /\ read.reward_duration = "reward_duration"
      BY <1>b, <1>5, <2>2, <3>2 DEF RewardChangeRows
    <3> HIDE DEF shown
    <3> QED
      BY <1>5, <3>1, <3>3 DEF RewardChangeEventResponse
  <2> HIDE DEF shown
  <2>4. IsEmitted(shown, kind, beyond, far)
    BY <1>a, <1>5, <2>2, <2>3 DEF IsEmitted, Mirrors, EvtInitializeReward, Mirror, Checked,
       InsertInitializeReward
  <2> QED
    BY <1>5, <2>4 DEF Answer, shown, read, numbers
<1>6. CASE kind = "fund_reward"
  <2>1. CollectionOf(kind) = "reward_changes"
    BY <1>6, CollectionIsFound DEF Collections, Tables, RewardChangeTables
  <2>2. numbers = [amount |-> "amount",
                   transfer_fee_excluded_amount_in |-> "transfer_fee_excluded_amount_in",
                   reward_duration_end |-> "reward_duration_end",
                   pre_reward_rate |-> "pre_reward_rate",
                   post_reward_rate |-> "post_reward_rate"]
    <3>1. numbers = TranslateFundReward(e)
      BY <1>6 DEF TranslateWireEvent
    <3> HIDE DEF e, numbers
    <3> QED
      BY <1>a, <1>6, <3>1 DEF TranslateFundReward, Mirrors, EvtFundReward, Mirror
  <2> HIDE DEF numbers, e
  <2>3. shown = [amount |-> "amount",
                 transferFeeExcludedAmountIn |-> "transfer_fee_excluded_amount_in",
                 rewardDurationEnd |-> Date("reward_duration_end", far),
                 preRewardRate |-> "pre_reward_rate", postRewardRate |-> "post_reward_rate"]
    <3> HIDE DEF read
    <3>1. shown = RewardChangeEventResponse(kind, read, far)
      BY <1>6, <2>1 DEF Response
    <3>2. RowColumns(kind) = RewardChangeRows["fund_reward"]
      BY <1>6 DEF RowColumns, RewardChangeRows, PoolChangeRows, PositionLockRows
    <3>3. /\ read.amount = "amount"
          /\ read.transfer_fee_excluded_amount_in = "transfer_fee_excluded_amount_in"
          /\ read.reward_duration_end = "reward_duration_end"
          /\ read.pre_reward_rate = "pre_reward_rate"
          /\ read.post_reward_rate = "post_reward_rate"
      BY <1>b, <1>6, <2>2, <3>2 DEF RewardChangeRows
    <3> HIDE DEF shown
    <3> QED
      BY <1>6, <3>1, <3>3 DEF RewardChangeEventResponse
  <2> HIDE DEF shown
  <2>4. IsEmitted(shown, kind, beyond, far)
    BY <1>a, <1>6, <2>2, <2>3 DEF IsEmitted, Mirrors, EvtFundReward, Mirror, Checked,
       InsertFundReward, Date, NoDate
  <2> QED
    BY <1>6, <2>4 DEF Answer, shown, read, numbers
<1>7. CASE kind = "withdraw_ineligible_reward"
  <2>1. CollectionOf(kind) = "reward_changes"
    BY <1>7, CollectionIsFound DEF Collections, Tables, RewardChangeTables
  <2>2. numbers = [amount |-> "amount"]
    <3>1. numbers = TranslateWithdrawIneligibleReward(e)
      BY <1>7 DEF TranslateWireEvent
    <3> HIDE DEF e, numbers
    <3> QED
      BY <1>a, <1>7, <3>1 DEF TranslateWithdrawIneligibleReward, Mirrors,
         EvtWithdrawIneligibleReward, Mirror
  <2> HIDE DEF numbers, e
  <2>3. shown = [amount |-> "amount"]
    <3> HIDE DEF read
    <3>1. shown = RewardChangeEventResponse(kind, read, far)
      BY <1>7, <2>1 DEF Response
    <3>2. RowColumns(kind) = RewardChangeRows["withdraw_ineligible_reward"]
      BY <1>7 DEF RowColumns, RewardChangeRows, PoolChangeRows, PositionLockRows
    <3>3. /\ read.amount = "amount"
      BY <1>b, <1>7, <2>2, <3>2 DEF RewardChangeRows
    <3> HIDE DEF shown
    <3> QED
      BY <1>7, <3>1, <3>3 DEF RewardChangeEventResponse
  <2> HIDE DEF shown
  <2>4. IsEmitted(shown, kind, beyond, far)
    BY <1>a, <1>7, <2>2, <2>3 DEF IsEmitted, Mirrors, EvtWithdrawIneligibleReward, Mirror,
       Checked, InsertWithdrawIneligibleReward
  <2> QED
    BY <1>7, <2>4 DEF Answer, shown, read, numbers
<1>8. CASE kind = "withdraw_dead_liquidity_reward"
  <2>1. CollectionOf(kind) = "reward_changes"
    BY <1>8, CollectionIsFound DEF Collections, Tables, RewardChangeTables
  <2>2. numbers = [amount |-> "amount"]
    <3>1. numbers = TranslateWithdrawDeadLiquidityReward(e)
      BY <1>8 DEF TranslateWireEvent
    <3> HIDE DEF e, numbers
    <3> QED
      BY <1>a, <1>8, <3>1 DEF TranslateWithdrawDeadLiquidityReward, Mirrors,
         EvtWithdrawDeadLiquidityReward, Mirror
  <2> HIDE DEF numbers, e
  <2>3. shown = [amount |-> "amount"]
    <3> HIDE DEF read
    <3>1. shown = RewardChangeEventResponse(kind, read, far)
      BY <1>8, <2>1 DEF Response
    <3>2. RowColumns(kind) = RewardChangeRows["withdraw_dead_liquidity_reward"]
      BY <1>8 DEF RowColumns, RewardChangeRows, PoolChangeRows, PositionLockRows
    <3>3. /\ read.amount = "amount"
      BY <1>b, <1>8, <2>2, <3>2 DEF RewardChangeRows
    <3> HIDE DEF shown
    <3> QED
      BY <1>8, <3>1, <3>3 DEF RewardChangeEventResponse
  <2> HIDE DEF shown
  <2>4. IsEmitted(shown, kind, beyond, far)
    BY <1>a, <1>8, <2>2, <2>3 DEF IsEmitted, Mirrors, EvtWithdrawDeadLiquidityReward, Mirror,
       Checked, InsertWithdrawDeadLiquidityReward
  <2> QED
    BY <1>8, <2>4 DEF Answer, shown, read, numbers
<1>9. CASE kind = "update_reward_duration"
  <2>1. CollectionOf(kind) = "reward_changes"
    BY <1>9, CollectionIsFound DEF Collections, Tables, RewardChangeTables
  <2>2. numbers = [old_reward_duration |-> "old_reward_duration",
                   new_reward_duration |-> "new_reward_duration"]
    <3>1. numbers = TranslateUpdateRewardDuration(e)
      BY <1>9 DEF TranslateWireEvent
    <3> HIDE DEF e, numbers
    <3> QED
      BY <1>a, <1>9, <3>1 DEF TranslateUpdateRewardDuration, Mirrors, EvtUpdateRewardDuration,
         Mirror
  <2> HIDE DEF numbers, e
  <2>3. shown = [oldRewardDuration |-> "old_reward_duration",
                 newRewardDuration |-> "new_reward_duration"]
    <3> HIDE DEF read
    <3>1. shown = RewardChangeEventResponse(kind, read, far)
      BY <1>9, <2>1 DEF Response
    <3>2. RowColumns(kind) = RewardChangeRows["update_reward_duration"]
      BY <1>9 DEF RowColumns, RewardChangeRows, PoolChangeRows, PositionLockRows
    <3>3. /\ read.old_reward_duration = "old_reward_duration"
          /\ read.new_reward_duration = "new_reward_duration"
      BY <1>b, <1>9, <2>2, <3>2 DEF RewardChangeRows
    <3> HIDE DEF shown
    <3> QED
      BY <1>9, <3>1, <3>3 DEF RewardChangeEventResponse
  <2> HIDE DEF shown
  <2>4. IsEmitted(shown, kind, beyond, far)
    BY <1>a, <1>9, <2>2, <2>3 DEF IsEmitted, Mirrors, EvtUpdateRewardDuration, Mirror, Checked,
       InsertUpdateRewardDuration
  <2> QED
    BY <1>9, <2>4 DEF Answer, shown, read, numbers
<1>10. CASE kind = "update_reward_funder"
  <2>1. CollectionOf(kind) = "reward_changes"
    BY <1>10, CollectionIsFound DEF Collections, Tables, RewardChangeTables
  <2>2. DOMAIN shown = {}
    <3>1. DOMAIN read = {}
      BY <1>10 DEF ReadRow, RowColumns, RewardChangeRows, PoolChangeRows, PositionLockRows
    <3> HIDE DEF read
    <3> QED
      BY <1>10, <2>1, <3>1 DEF Response, RewardChangeEventResponse
  <2> QED
    BY <1>10, <2>2 DEF Answer, IsEmitted
<1>11. CASE kind = "create_position"
  <2>1. CollectionOf(kind) = "position_changes"
    BY <1>11, CollectionIsFound DEF Collections, Tables, PositionChangeTables
  <2>2. DOMAIN shown = {}
    <3>1. DOMAIN read = {}
      BY <1>11 DEF ReadRow, RowColumns, PositionLockRows, RewardChangeRows, PoolChangeRows
    <3> HIDE DEF read
    <3> QED
      BY <1>11, <2>1, <3>1 DEF Response, PositionChangeEventResponse
  <2> QED
    BY <1>11, <2>2 DEF Answer, IsEmitted
<1>12. CASE kind = "close_position"
  <2>1. CollectionOf(kind) = "position_changes"
    BY <1>12, CollectionIsFound DEF Collections, Tables, PositionChangeTables
  <2>2. DOMAIN shown = {}
    <3>1. DOMAIN read = {}
      BY <1>12 DEF ReadRow, RowColumns, PositionLockRows, RewardChangeRows, PoolChangeRows
    <3> HIDE DEF read
    <3> QED
      BY <1>12, <2>1, <3>1 DEF Response, PositionChangeEventResponse
  <2> QED
    BY <1>12, <2>2 DEF Answer, IsEmitted
<1>13. CASE kind = "lock_position"
  <2>1. CollectionOf(kind) = "position_changes"
    BY <1>13, CollectionIsFound DEF Collections, Tables, PositionChangeTables
  <2>2. numbers = [cliff_point |-> "cliff_point", period_frequency |-> "period_frequency",
                   cliff_unlock_liquidity |-> "cliff_unlock_liquidity",
                   liquidity_per_period |-> "liquidity_per_period"]
    <3>1. numbers = TranslateLockPosition(e)
      BY <1>13 DEF TranslateWireEvent
    <3> HIDE DEF e, numbers
    <3> QED
      BY <1>a, <1>13, <3>1 DEF TranslateLockPosition, Mirrors, EvtLockPosition, Mirror
  <2> HIDE DEF numbers, e
  <2>3. shown = [cliffPoint |-> "cliff_point", periodFrequency |-> "period_frequency",
                 cliffUnlockLiquidity |-> "cliff_unlock_liquidity",
                 liquidityPerPeriod |-> "liquidity_per_period"]
    <3> HIDE DEF read
    <3>1. shown = VestingLockResponse(read)
      BY <1>13, <2>1 DEF Response, PositionChangeEventResponse
    <3>2. RowColumns(kind) = PositionLockRows["lock_position"]
      BY <1>13 DEF RowColumns, RewardChangeRows, PoolChangeRows, PositionLockRows
    <3>3. /\ read.cliff_point = "cliff_point"
          /\ read.period_frequency = "period_frequency"
          /\ read.cliff_unlock_liquidity = "cliff_unlock_liquidity"
          /\ read.liquidity_per_period = "liquidity_per_period"
      BY <1>b, <1>13, <2>2, <3>2 DEF PositionLockRows
    <3> HIDE DEF shown
    <3> QED
      BY <1>13, <3>1, <3>3 DEF VestingLockResponse
  <2> HIDE DEF shown
  <2>4. IsEmitted(shown, kind, beyond, far)
    BY <1>a, <1>13, <2>2, <2>3 DEF IsEmitted, Mirrors, EvtLockPosition, Mirror, Checked,
       InsertLockPosition
  <2> QED
    BY <1>13, <2>4 DEF Answer, shown, read, numbers
<1>14. CASE kind = "permanent_lock_position"
  <2>1. CollectionOf(kind) = "position_changes"
    BY <1>14, CollectionIsFound DEF Collections, Tables, PositionChangeTables
  <2>2. numbers = [lock_liquidity_amount |-> "lock_liquidity_amount",
                   total_permanent_locked_liquidity |-> "total_permanent_locked_liquidity"]
    <3>1. numbers = TranslatePermanentLockPosition(e)
      BY <1>14 DEF TranslateWireEvent
    <3> HIDE DEF e, numbers
    <3> QED
      BY <1>a, <1>14, <3>1 DEF TranslatePermanentLockPosition, Mirrors, EvtPermanentLockPosition,
         Mirror
  <2> HIDE DEF numbers, e
  <2>3. shown = [lockedLiquidity |-> "lock_liquidity_amount",
                 totalPermanentLockedLiquidity |-> "total_permanent_locked_liquidity"]
    <3> HIDE DEF read
    <3>1. shown = PermanentLockResponse(read)
      BY <1>14, <2>1 DEF Response, PositionChangeEventResponse
    <3>2. RowColumns(kind) = PositionLockRows["permanent_lock_position"]
      BY <1>14 DEF RowColumns, RewardChangeRows, PoolChangeRows, PositionLockRows
    <3>3. /\ read.lock_liquidity_amount = "lock_liquidity_amount"
          /\ read.total_permanent_locked_liquidity = "total_permanent_locked_liquidity"
      BY <1>b, <1>14, <2>2, <3>2 DEF PositionLockRows
    <3> HIDE DEF shown
    <3> QED
      BY <1>14, <3>1, <3>3 DEF PermanentLockResponse
  <2> HIDE DEF shown
  <2>4. IsEmitted(shown, kind, beyond, far)
    BY <1>a, <1>14, <2>2, <2>3 DEF IsEmitted, Mirrors, EvtPermanentLockPosition, Mirror, Checked,
       InsertPermanentLockPosition
  <2> QED
    BY <1>14, <2>4 DEF Answer, shown, read, numbers
<1>15. CASE kind = "initialize_pool"
  <2>1. CollectionOf(kind) = "pool_creations"
    BY <1>15, CollectionIsFound DEF Collections, Tables
  <2>2. numbers = [sqrt_min_price |-> "sqrt_min_price", sqrt_max_price |-> "sqrt_max_price",
                   sqrt_price |-> "sqrt_price", liquidity |-> "liquidity",
                   activation_point |-> "activation_point", token_a_amount |-> "token_a_amount",
                   token_b_amount |-> "token_b_amount", total_amount_a |-> "total_amount_a",
                   total_amount_b |-> "total_amount_b"]
    <3>1. numbers = TranslateInitializePool(e)
      BY <1>15 DEF TranslateWireEvent
    <3> HIDE DEF e, numbers
    <3> QED
      BY <1>a, <1>15, <3>1 DEF TranslateInitializePool, Mirrors, EvtInitializePool, Mirror
  <2> HIDE DEF numbers, e
  <2>3. shown = [sqrtMinPrice |-> "sqrt_min_price", sqrtMaxPrice |-> "sqrt_max_price",
                 sqrtPrice |-> "sqrt_price", liquidity |-> "liquidity",
                 activationPoint |-> "activation_point", tokenAAmount |-> "token_a_amount",
                 tokenBAmount |-> "token_b_amount", totalAmountA |-> "total_amount_a",
                 totalAmountB |-> "total_amount_b"]
    <3> HIDE DEF read
    <3>1. shown = PoolCreationEventResponse(read)
      BY <1>15, <2>1 DEF Response
    <3>2. RowColumns(kind) = InitializePoolEventRow
      BY <1>15 DEF RowColumns, RewardChangeRows, PoolChangeRows, PositionLockRows
    <3>3. /\ read.sqrt_min_price = "sqrt_min_price"
          /\ read.sqrt_max_price = "sqrt_max_price"
          /\ read.sqrt_price = "sqrt_price"
          /\ read.liquidity = "liquidity"
          /\ read.activation_point = "activation_point"
          /\ read.token_a_amount = "token_a_amount"
          /\ read.token_b_amount = "token_b_amount"
          /\ read.total_amount_a = "total_amount_a"
          /\ read.total_amount_b = "total_amount_b"
      BY <1>b, <1>15, <2>2, <3>2 DEF InitializePoolEventRow
    <3> HIDE DEF shown
    <3> QED
      BY <1>15, <3>1, <3>3 DEF PoolCreationEventResponse
  <2> HIDE DEF shown
  <2>4. IsEmitted(shown, kind, beyond, far)
    BY <1>a, <1>15, <2>2, <2>3 DEF IsEmitted, Mirrors, EvtInitializePool, Mirror, Checked,
       InsertInitializePool
  <2> QED
    BY <1>15, <2>4 DEF Answer, shown, read, numbers
<1>16. CASE kind = "set_pool_status"
  <2>1. CollectionOf(kind) = "pool_changes"
    BY <1>16, CollectionIsFound DEF Collections, Tables, PoolChangeTables
  <2>2. DOMAIN shown = {}
    <3>1. DOMAIN read = {}
      BY <1>16 DEF ReadRow, RowColumns, PoolChangeRows, RewardChangeRows, PositionLockRows
    <3> HIDE DEF read
    <3> QED
      BY <1>16, <2>1, <3>1 DEF Response, PoolChangeEventResponse
  <2> QED
    BY <1>16, <2>2 DEF Answer, IsEmitted
<1>17. CASE kind = "update_pool_fees"
  <2>1. CollectionOf(kind) = "pool_changes"
    BY <1>17, CollectionIsFound DEF Collections, Tables, PoolChangeTables
  <2>2. DOMAIN shown = {}
    <3>1. DOMAIN read = {}
      BY <1>17 DEF ReadRow, RowColumns, PoolChangeRows, RewardChangeRows, PositionLockRows
    <3> HIDE DEF read
    <3> QED
      BY <1>17, <2>1, <3>1 DEF Response, PoolChangeEventResponse
  <2> QED
    BY <1>17, <2>2 DEF Answer, IsEmitted
<1>18. CASE kind = "split_position3"
  <2>1. CollectionOf(kind) = "position_changes"
    BY <1>18, CollectionIsFound DEF Collections, Tables, PositionChangeTables
  <2>2. \A f \in Mirrors[kind].u64 \cup Mirrors[kind].u128 : numbers[f] = f
    <3>1. numbers = [part \in DOMAIN e |-> e[part]]
      BY <1>18 DEF TranslateWireEvent, TranslateSplitPosition
    <3>2. DOMAIN e = Mirrors[kind].u64 \cup Mirrors[kind].u128
      BY DEF WireEvent
    <3> HIDE DEF e, numbers
    <3> QED
      BY <1>a, <3>1, <3>2
  <2>3. RowColumns(kind) = Mirrors[kind].u64 \cup Mirrors[kind].u128
    BY <1>18 DEF RowColumns, SplitPositionEventRow, RewardChangeRows, PoolChangeRows,
                 PositionLockRows, Mirrors, EvtSplitPosition3, Mirror
  <2>4. Checked[kind] = Mirrors[kind].u64
    BY <1>18 DEF Checked, InsertSplitPosition, Mirrors, EvtSplitPosition3, Mirror
  <2>5. shown = read /\ DOMAIN read = RowColumns(kind)
    <3>1. DOMAIN read = RowColumns(kind)
      BY DEF ReadRow
    <3> HIDE DEF read
    <3> QED
      BY <1>18, <2>1, <3>1 DEF Response, PositionChangeEventResponse, SplitResponse
  <2> HIDE DEF numbers, read, shown
  <2>6. IsEmitted(shown, kind, beyond, far)
    BY <1>18, <1>a, <1>b, <2>2, <2>3, <2>4, <2>5 DEF IsEmitted
  <2> QED
    BY <1>18, <2>6 DEF Answer, shown, read, numbers
<1>19. CASE kind = "swap2"
  <2> DEFINE in == "included_transfer_fee_amount_in"
             out == "included_transfer_fee_amount_out"
             a == IF enums.direction = "AtoB" THEN in ELSE out
             b == IF enums.direction = "AtoB" THEN out ELSE in
  <2>1. CollectionOf(kind) = "swaps"
    BY <1>19, CollectionIsFound DEF Collections, Tables
  <2>2. numbers = [amount_a |-> a, amount_b |-> b, reserve_a_after |-> "reserve_a_amount",
                   reserve_b_after |-> "reserve_b_amount", next_sqrt_price |-> "next_sqrt_price",
                   claiming_fee |-> "claiming_fee", protocol_fee |-> "protocol_fee",
                   compounding_fee |-> "compounding_fee", referral_fee |-> "referral_fee"]
    <3>1. numbers = TranslateSwap(e, enums)
      BY <1>19 DEF TranslateWireEvent
    <3>2. /\ e.included_transfer_fee_amount_in = in /\ e.included_transfer_fee_amount_out = out
          /\ e.reserve_a_amount = "reserve_a_amount" /\ e.reserve_b_amount = "reserve_b_amount"
          /\ e.next_sqrt_price = "next_sqrt_price" /\ e.claiming_fee = "claiming_fee"
          /\ e.protocol_fee = "protocol_fee" /\ e.compounding_fee = "compounding_fee"
          /\ e.referral_fee = "referral_fee"
      <4> HIDE DEF e
      <4> QED
        BY <1>a, <1>19 DEF Mirrors, EvtSwap2, Mirror
    <3> HIDE DEF e, numbers
    <3> QED
      BY <1>a, <3>1, <3>2 DEF TranslateSwap
  <2>3. a \in {in, out} /\ b \in {in, out} /\ a # b
    OBVIOUS
  <2> HIDE DEF numbers, e, a, b
  <2>4. shown = [amountA |-> a, amountB |-> b, reserveAAfter |-> "reserve_a_amount",
                 reserveBAfter |-> "reserve_b_amount", nextSqrtPrice |-> "next_sqrt_price",
                 claimingFee |-> "claiming_fee", protocolFee |-> "protocol_fee",
                 compoundingFee |-> "compounding_fee", referralFee |-> "referral_fee"]
    <3> HIDE DEF read
    <3>1. shown = SwapEventResponse(read)
      BY <1>19, <2>1 DEF Response
    <3>2. RowColumns(kind) = SwapEventRow
      BY <1>19 DEF RowColumns, RewardChangeRows, PoolChangeRows, PositionLockRows
    <3> QED
      BY <1>b, <2>2, <3>1, <3>2 DEF SwapEventResponse, SwapEventRow
  <2> HIDE DEF shown
  <2>5. IsEmitted(shown, kind, beyond, far)
    <3>1. \A f \in DOMAIN shown : shown[f] \in Mirrors[kind].u64 \cup Mirrors[kind].u128
      BY <1>19, <2>3, <2>4 DEF Mirrors, EvtSwap2, Mirror
    <3>2. \A f, g \in DOMAIN shown : f # g => shown[f] # shown[g]
      BY <2>3, <2>4
    <3>3. \A f \in DOMAIN shown : shown[f] \in beyond => shown[f] \in Mirrors[kind].u128
      BY <1>a, <1>19, <2>2, <2>4 DEF Mirrors, EvtSwap2, Mirror, Checked, InsertSwap
    <3> QED
      BY <1>19, <3>1, <3>2, <3>3 DEF IsEmitted
  <2>6. (IF enums.direction = "AtoB" THEN shown.amountA ELSE shown.amountB) = in
    BY <2>4 DEF a, b
  <2> QED
    BY <2>5, <2>6 DEF Answer, shown, read, numbers
<1> QED
  BY <1>1, <1>2, <1>3, <1>4, <1>5, <1>6, <1>7, <1>8, <1>9, <1>10, <1>11, <1>12, <1>13, <1>14,
     <1>15, <1>16, <1>17, <1>18, <1>19 DEF Kinds, Mirrors

-----------------------------------------------------------------------------
(***************************************************************************)
(* The rows that are read.                                                 *)
(***************************************************************************)

\* A row was stored because its event was translated and its numbers fit.
Stored(e) == e.numbers # Failed /\ ~ConvertU64ToI64Fails(e.kind, e.numbers, e.beyond)
RowsFit == \A row \in tables : \E e \in Events : row = RowOf(e) /\ Stored(e)

ReadInv == WalkInv /\ RowsFit

\* The one that inserts, after its conversion; the history stays.
LEMMA NextKeepsRowsFit ==
    ASSUME IInv, RowsFit, [LookupNext]_lookupVars
    PROVE  RowsFit'
<1>1. scenario' = scenario
  BY DEF LookupNext, StoreNext, ProcessTransaction, DiscoverPool, TouchPool, MarkPool,
     InsertEvent,
         ProjectEvent, Restart, TimePasses, ListEvents, NextPage, SecondRead, lookupVars, storeVars
<1>2. Events' = Events
  BY <1>1, HistoryRests
<1>3. ASSUME tables' \subseteq tables \cup {RowOf(e) : e \in {x \in Events : Stored(x)}}
      PROVE  RowsFit'
  BY <1>2, <1>3 DEF RowsFit
<1>4. ASSUME NEW fail \in BOOLEAN, InsertEvent(fail) PROVE RowsFit'
  <2>1. job # Idle
    BY <1>4 DEF InsertEvent, StepIs
  <2>2. /\ job \in Jobs /\ job.events # <<>>
        /\ \E s \in Signatures, r \in DOMAIN Releases, n \in Nat : Follows(s, r, n)
    BY <2>1 DEF IInv, JobFollowsOutcome
  <2>3. PICK s \in Signatures, r \in DOMAIN Releases, n \in Nat : Follows(s, r, n)
    BY <2>2
  <2>4. scenario \in Scenarios
    BY DEF IInv, StoreTyped
  <2>5. job.events \in Seq(Events) /\ Len(job.events) \in Nat /\ Len(job.events) >= 1
    BY <2>2 DEF Jobs
  <2>6. InHand = job.events[1] /\ InHand \in Events
    BY <2>2, <2>5 DEF InHand
  <2>7. InHand = OutcomeEvents(s, r)[n + 1] /\ n + 1 \in 1 .. Len(OutcomeEvents(s, r))
    BY <2>3, <2>5, <2>6 DEF Follows
  <2>8. InHand.numbers # Failed
    <3>1. /\ OutcomeEvents(s, r) \in Seq(Events)
          /\ \A k \in DOMAIN OutcomeEvents(s, r) : OutcomeEvents(s, r)[k].numbers # Failed
      BY <2>4, OutcomeIsOfEvents
    <3> QED
      BY <2>7, <3>1
  <2>9. \/ tables' = tables
        \/ /\ ~ConvertU64ToI64Fails(InHand.kind, InHand.numbers, InHand.beyond)
           /\ tables' = tables \cup {RowOf(InHand)}
    BY <1>4 DEF InsertEvent, Inserted
  <2>10. tables' \subseteq tables \cup {RowOf(e) : e \in {x \in Events : Stored(x)}}
    BY <2>6, <2>8, <2>9 DEF Stored
  <2> QED
    BY <1>3, <2>10
<1>5. CASE tables' = tables
  BY <1>3, <1>5
<1> QED
  BY <1>4, <1>5 DEF LookupNext, StoreNext, ProcessTransaction, DiscoverPool, TouchPool, MarkPool,
                    ProjectEvent, Restart, TimePasses, ListEvents, NextPage, SecondRead,
                    lookupVars, storeVars

\* What is shown of a row is what the chain emitted, for every payload, every
\* release and every walk: the translation, the columns and the answer together
\* swap, repeat and truncate no number.
THEOREM AnswersAreAsEmitted == Spec => []ReadsAsEmitted
<1>1. LookupInit => ReadInv
  BY InitEstablishesWalkInv DEF ReadInv, RowsFit, LookupInit, StoreInit
<1>2. ReadInv /\ [LookupNext]_lookupVars => ReadInv'
  BY NextKeepsWalkInv, NextKeepsRowsFit DEF ReadInv, WalkInv
<1>3. ReadInv => ReadsAsEmitted
  <2> SUFFICES ASSUME ReadInv, NEW row \in ToSet(reader.seen)
               PROVE  LET p == PayloadAt(row.signature, row.event_index)
                          shown == Response(row.kind, ReadRow(row.kind, row.stored), p.far)
                          emitted == WireEvent(p.kind)
                      IN /\ p.kind = row.kind
                         /\ \A f \in DOMAIN shown :
                               \/ shown[f] \in DOMAIN emitted
                               \/ f = "rewardDurationEnd" /\ "reward_duration_end" \in p.far
                         /\ row.kind = "fund_reward" /\ "reward_duration_end" \in p.far =>
                               shown.rewardDurationEnd = NoDate
                         /\ \A f, g \in DOMAIN shown : f # g => shown[f] # shown[g]
                         /\ \A f \in DOMAIN shown :
                               shown[f] \in p.beyond => shown[f] \in Mirrors[p.kind].u128 \cup {NoDate}
                         /\ row.kind = "swap2" =>
                               (IF p.enums.direction = "AtoB" THEN shown.amountA
                                ELSE shown.amountB) = "included_transfer_fee_amount_in"
    BY DEF ReadsAsEmitted
  <2>1. row \in tables
    <3>1. reader.seen \in Seq(tables)
      BY DEF ReadInv, WalkInv, Sound
    <3> QED
      BY <3>1 DEF ToSet
  <2>2. PICK e \in Events : row = RowOf(e) /\ Stored(e)
    BY <2>1 DEF ReadInv, RowsFit
  <2>3. scenario \in Scenarios
    BY DEF ReadInv, WalkInv, IInv, StoreTyped
  <2> DEFINE p == Raw(e.signature)[e.event_index + 1]
  <2>4. e.kind = p.kind /\ e.kind \in Kinds /\ e = EventOf(e.signature, e.event_index + 1)
    BY <2>3, EventIsOfPayload
  <2>5. e.numbers = TranslateWireEvent(p.kind, p.enums) /\ e.beyond = p.beyond
    BY <2>4 DEF EventOf, DomainEvent
  <2>6. /\ row.kind = e.kind /\ row.signature = e.signature
        /\ row.event_index = e.event_index /\ row.stored = e.numbers
    BY <2>2 DEF RowOf
  <2>7. PayloadAt(row.signature, row.event_index) = p
    BY <2>6 DEF PayloadAt, Raw
  <2> HIDE DEF p
  <2>8. Fits(p.kind, p.enums, p.beyond)
    BY <2>2, <2>4, <2>5 DEF Fits, Stored
  <2>9. Response(row.kind, ReadRow(row.kind, row.stored), p.far) = Answer(p.kind, p.enums, p.far)
    BY <2>4, <2>5, <2>6 DEF Answer
  <2>10. DOMAIN WireEvent(p.kind) = Mirrors[p.kind].u64 \cup Mirrors[p.kind].u128
    BY DEF WireEvent
  <2>11. /\ IsEmitted(Answer(p.kind, p.enums, p.far), p.kind, p.beyond, p.far)
         /\ p.kind = "swap2" =>
               (IF p.enums.direction = "AtoB" THEN Answer(p.kind, p.enums, p.far).amountA
                ELSE Answer(p.kind, p.enums, p.far).amountB) = "included_transfer_fee_amount_in"
    BY <2>4, <2>8, AnswersAreEmitted
  <2> QED
    BY <2>4, <2>6, <2>7, <2>9, <2>10, <2>11 DEF IsEmitted
<1> QED
  BY <1>1, <1>2, <1>3, PTL DEF Spec
=============================================================================
