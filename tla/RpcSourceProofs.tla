--------------------------- MODULE RpcSourceProofs ---------------------------
(***************************************************************************)
(* Proofs about RpcSource, for every set of targets, every capacity of the *)
(* channels, every number of permits, retries and notifications: that no   *)
(* notification is lost unaccounted, that no failure is swallowed, and     *)
(* that the source implements the port of TransactionSource.               *)
(***************************************************************************)
EXTENDS RpcSource, FiniteSetTheorems, TLAPS

StageSet == {"listener", "dispatcher", "fetch"}
NoStageFailed == \A s \in StageSet : stage[s] # "err"

-----------------------------------------------------------------------------
(***************************************************************************)
(* The channels and the sets of notifications by their ids.                *)
(***************************************************************************)

\* Notifications told apart by their ids, in a channel and in a set.
Distinct(s) == \A i, j \in 1..Len(s) : s[i].id = s[j].id => i = j
ToldApart(S) == \A m, n \in S : m.id = n.id => m = n

\* The ids in a channel, and where they are.
LEMMA IdsOfChannel ==
    ASSUME NEW s \in Seq(Note), NEW x
    PROVE  x \in Ids(ToSet(s)) <=> \E i \in 1..Len(s) : s[i].id = x
  BY DEF Ids, ToSet

\* An empty channel holds none.
LEMMA IdsOfEmpty == Ids(ToSet(<<>>)) = {} /\ Distinct(<<>>) /\ Ids({}) = {}
  BY DEF Ids, ToSet, Distinct

\* Sending a notification with a new id adds that id and tells it apart.
LEMMA IdsOfAppend ==
    ASSUME NEW s \in Seq(Note), NEW n \in Note, Distinct(s), n.id \notin Ids(ToSet(s))
    PROVE  /\ Append(s, n) \in Seq(Note) /\ Len(Append(s, n)) = Len(s) + 1
           /\ Ids(ToSet(Append(s, n))) = Ids(ToSet(s)) \cup {n.id}
           /\ Distinct(Append(s, n))
<1>1. Append(s, n) \in Seq(Note) /\ Len(Append(s, n)) = Len(s) + 1 /\ Len(s) \in Nat
  OBVIOUS
<1>2. \A i \in 1..Len(s) : Append(s, n)[i] = s[i] /\ s[i].id # n.id
  BY IdsOfChannel
<1>3. Append(s, n)[Len(s) + 1] = n
  OBVIOUS
<1>4. \A i \in 1..(Len(s) + 1) : i \in 1..Len(s) \/ i = Len(s) + 1
  BY <1>1
<1>5. \A i \in 1..Len(s) : i \in 1..(Len(s) + 1)
  BY <1>1
<1>6. Len(s) + 1 \in 1..(Len(s) + 1)
  BY <1>1
<1>7. ASSUME NEW x
      PROVE  x \in Ids(ToSet(Append(s, n))) <=> x \in Ids(ToSet(s)) \cup {n.id}
  <2>1. x \in Ids(ToSet(Append(s, n))) <=> \E i \in 1..(Len(s) + 1) : Append(s, n)[i].id = x
    BY <1>1, IdsOfChannel
  <2>2. x \in Ids(ToSet(s)) <=> \E i \in 1..Len(s) : s[i].id = x
    BY IdsOfChannel
  <2> QED
    BY <1>2, <1>3, <1>4, <1>5, <1>6, <2>1, <2>2
<1>8. Distinct(Append(s, n))
  BY <1>1, <1>2, <1>3, <1>4 DEF Distinct
<1> QED
  BY <1>1, <1>7, <1>8

\* Taking the head takes its id, and only that.
LEMMA IdsOfTail ==
    ASSUME NEW s \in Seq(Note), s # <<>>, Distinct(s)
    PROVE  /\ Tail(s) \in Seq(Note) /\ Len(Tail(s)) = Len(s) - 1 /\ Len(s) \in Nat
           /\ Head(s) \in Note /\ Head(s).id \in Ids(ToSet(s))
           /\ Ids(ToSet(Tail(s))) = Ids(ToSet(s)) \ {Head(s).id}
           /\ Distinct(Tail(s))
<1>1. /\ Len(s) \in Nat /\ Len(s) >= 1 /\ Tail(s) \in Seq(Note)
      /\ Len(Tail(s)) = Len(s) - 1 /\ Head(s) \in Note
  OBVIOUS
<1>2. Head(s) = s[1] /\ \A i \in 1..(Len(s) - 1) : Tail(s)[i] = s[i + 1]
  OBVIOUS
<1>3. \A i \in 1..(Len(s) - 1) : i + 1 \in 1..Len(s) /\ i + 1 # 1
  BY <1>1
<1>4. 1 \in 1..Len(s)
  BY <1>1
<1>5. Distinct(Tail(s))
  <2> SUFFICES ASSUME NEW i \in 1..(Len(s) - 1), NEW j \in 1..(Len(s) - 1),
                      Tail(s)[i].id = Tail(s)[j].id
               PROVE  i = j
    BY <1>1 DEF Distinct
  <2>1. i + 1 = j + 1
    BY <1>2, <1>3 DEF Distinct
  <2> QED
    BY <2>1
<1>6. Head(s).id \in Ids(ToSet(s))
  BY <1>2, <1>4, IdsOfChannel
<1>7. ASSUME NEW i \in 1..(Len(s) - 1)
      PROVE  Tail(s)[i].id \in Ids(ToSet(s)) /\ Tail(s)[i].id # Head(s).id
  BY <1>2, <1>3, <1>4, IdsOfChannel DEF Distinct
<1>8. ASSUME NEW i \in 1..Len(s), s[i].id # Head(s).id
      PROVE  \E j \in 1..(Len(s) - 1) : Tail(s)[j].id = s[i].id
  <2>1. i # 1
    BY <1>2, <1>8
  <2>2. i - 1 \in 1..(Len(s) - 1) /\ (i - 1) + 1 = i
    BY <1>1, <2>1
  <2> QED
    BY <1>2, <2>2
<1>9. ASSUME NEW x
      PROVE  x \in Ids(ToSet(Tail(s))) <=> x \in Ids(ToSet(s)) \ {Head(s).id}
  <2>1. x \in Ids(ToSet(Tail(s))) <=> \E i \in 1..(Len(s) - 1) : Tail(s)[i].id = x
    BY <1>1, IdsOfChannel
  <2>2. x \in Ids(ToSet(s)) <=> \E i \in 1..Len(s) : s[i].id = x
    BY IdsOfChannel
  <2> QED
    BY <1>7, <1>8, <2>1, <2>2
<1> QED
  BY <1>1, <1>5, <1>6, <1>9

\* Adding a notification to a set, and taking one out.
LEMMA IdsOfAdded ==
    ASSUME NEW S, NEW n, ToldApart(S), n.id \notin Ids(S)
    PROVE  Ids(S \cup {n}) = Ids(S) \cup {n.id} /\ ToldApart(S \cup {n})
  BY DEF Ids, ToldApart

\* Taking out a notification that is told apart takes exactly its id.
LEMMA IdsOfRemoved ==
    ASSUME NEW S, NEW n \in S, ToldApart(S)
    PROVE  Ids(S \ {n}) = Ids(S) \ {n.id} /\ ToldApart(S \ {n}) /\ n.id \in Ids(S)
  BY DEF Ids, ToldApart

\* What is in hand.
LEMMA IdsOfHand ==
    /\ Ids({NoNote} \ {NoNote}) = {}
    /\ \A n \in Note : Ids({n} \ {NoNote}) = {n.id}
<1>1. {NoNote} \ {NoNote} = {}
  OBVIOUS
<1>2. ASSUME NEW n \in Note PROVE {n} \ {NoNote} = {n}
  BY NoNoteAssumption
<1> QED
  BY <1>1, <1>2, IdsOfEmpty DEF Ids

\* The stages, as a set.
LEMMA StagesListed ==
    /\ ToSet(Stages) = StageSet
    /\ DOMAIN Stages = 1..3
    /\ \A i \in 1..3 : Stages[i] \in StageSet
    /\ \A s \in StageSet : \E i \in 1..3 : Stages[i] = s
<1>1. DOMAIN Stages = 1..3
  BY DEF Stages
<1>2. Stages[1] = "listener" /\ Stages[2] = "dispatcher" /\ Stages[3] = "fetch"
  BY DEF Stages
<1>3. ToSet(Stages) = StageSet
  BY DEF ToSet, Stages, StageSet
<1>4. 1 \in 1..3 /\ 2 \in 1..3 /\ 3 \in 1..3 /\ \A i \in 1..3 : i \in {1, 2, 3}
  OBVIOUS
<1> QED
  BY <1>1, <1>2, <1>3, <1>4 DEF StageSet

-----------------------------------------------------------------------------
(***************************************************************************)
(* The inductive invariant.                                                *)
(***************************************************************************)

\* Each notification is in one place, and the places tell them apart by id.
OnePlace == \A id \in 1..MaxNotes : Places(id) = IF id <= notified THEN 1 ELSE 0
Apart ==
    /\ Distinct(raw) /\ Distinct(signatures)
    /\ ToldApart(DOMAIN fetching) /\ ToldApart(fetched) /\ ToldApart(sending)

\* The stages and the fleet start with run, once; run returns when all three
\* stages have ended, and never without the token cancelled.
Lifecycle ==
    /\ source = "configuring" =>
          (\A s \in StageSet : stage[s] = "idle") /\ (\A t \in Targets : worker[t] = "unborn")
    /\ source # "configuring" => \A s \in StageSet : stage[s] # "idle"
    /\ FleetUnborn \/ \A t \in watched : worker[t] # "unborn"
    /\ source \in {"draining", "ok", "err"} => shutdown
    /\ source \in {"ok", "err"} => \A s \in StageSet : stage[s] \in {"ok", "err"}
    /\ source = "ok" => \A s \in StageSet : stage[s] = "ok"
    /\ asked => shutdown

\* Nothing ends well by itself: with the consumer there, no stop asked for and
\* no stage failed, every stage is still at work, and so is every worker that
\* did not give up.
NothingEndsByItself ==
    consumer /\ ~asked /\ NoStageFailed =>
        /\ ~shutdown
        /\ \A s \in StageSet : stage[s] # "ok"
        /\ \A t \in Targets : worker[t] # "ok"

LossIsExplained == lost # {} => shutdown \/ ~consumer \/ ~NoStageFailed

\* The types of what a notification passes through.
PipeTyped ==
    /\ notified \in 0..MaxNotes
    /\ raw \in Seq(Note) /\ Len(raw) <= StageCapacity
    /\ signatures \in Seq(Note) /\ Len(signatures) <= StageCapacity
    /\ hand \in Note \cup {NoNote}
    /\ \A n \in DOMAIN fetching : n \in Note /\ fetching[n] \in 0..FetchRetries
    /\ fetched \subseteq Note /\ sending \subseteq Note
    /\ IsFiniteSet(InFlight) /\ Cardinality(InFlight) <= MaxFetches
    /\ channel \in Seq(Note) /\ Len(channel) <= Room

\* The types of the fleet, of the stages and of run.
RunTyped ==
    /\ watched \subseteq Targets
    /\ worker \in [Targets -> {"unborn", "between", "connecting", "streaming", "ok", "gave_up"}]
    /\ failures \in [Targets -> 0..(MaxAttempts - 1)]
    /\ consumer \in BOOLEAN /\ asked \in BOOLEAN /\ shutdown \in BOOLEAN
    /\ stage \in [StageSet -> {"idle", "running", "ok", "err"}]
    /\ source \in {"configuring", "running", "draining", "ok", "err"}
    /\ outcome \in {"ok", "err"}

PipeInv == PipeTyped /\ OnePlace /\ Apart
RunInv == RunTyped /\ Lifecycle /\ NothingEndsByItself /\ LossIsExplained
IInv == PipeInv /\ RunInv

-----------------------------------------------------------------------------
(***************************************************************************)
(* Every step keeps the pipeline's part.                                   *)
(***************************************************************************)

\* The permits stay within their number when no fetch is spawned.
LEMMA PermitsShrink ==
    ASSUME PipeTyped, NEW T, T \subseteq InFlight
    PROVE  IsFiniteSet(T) /\ Cardinality(T) <= MaxFetches
<1>1. IsFiniteSet(InFlight) /\ Cardinality(InFlight) <= MaxFetches
  BY DEF PipeTyped
<1>2. IsFiniteSet(T) /\ Cardinality(T) <= Cardinality(InFlight)
  BY <1>1, FS_Subset
<1>3. Cardinality(T) \in Nat /\ Cardinality(InFlight) \in Nat /\ MaxFetches \in Nat
  BY <1>1, <1>2, FS_CardinalityType, RpcAssumption
<1> QED
  BY <1>1, <1>2, <1>3

\* forward_stream's try_send: a new notification is queued, or its drop logged, or
\* it meets a closed channel.
LEMMA ForwardKeepsPipe ==
    ASSUME PipeInv, NEW t \in Targets, WorkerForwards(t)
    PROVE  PipeInv'
<1> USE DEF PipeInv, PipeTyped, Apart
<1> DEFINE new == notified + 1
<1>1. /\ notified < MaxNotes /\ notified' = new /\ new \in 1..MaxNotes
      /\ signatures' = signatures /\ hand' = hand /\ fetching' = fetching
      /\ fetched' = fetched /\ sending' = sending /\ channel' = channel
      /\ delivered' = delivered /\ counted' = counted
  BY RpcAssumption DEF WorkerForwards, fetchVars
<1>2. /\ new \notin Ids(ToSet(raw)) /\ new \notin Ids(ToSet(signatures))
      /\ new \notin Ids({hand} \ {NoNote}) /\ new \notin Ids(DOMAIN fetching)
      /\ new \notin Ids(fetched) /\ new \notin Ids(sending) /\ new \notin delivered
      /\ new \notin counted /\ new \notin warned /\ new \notin lost
  <2>1. Places(new) = 0
    BY <1>1 DEF OnePlace
  <2> QED
    BY <2>1 DEF Places
<1>3. PICK what \in Contents : ForwardsTo(t, [id |-> new, holds |-> what])
  BY DEF WorkerForwards
<1> DEFINE note == [id |-> new, holds |-> what]
<1>4. note \in Note /\ note.id = new
  BY <1>1 DEF Note
<1> HIDE DEF note, new
<1>5. \/ /\ Len(raw) < StageCapacity /\ raw' = Append(raw, note)
         /\ warned' = warned /\ lost' = lost
      \/ raw' = raw /\ warned' = warned \cup {new} /\ lost' = lost
      \/ raw' = raw /\ warned' = warned /\ lost' = lost \cup {new}
  BY <1>3, <1>4 DEF ForwardsTo, note
<1>6. /\ raw' \in Seq(Note) /\ Len(raw') <= StageCapacity /\ Distinct(raw')
      /\ \/ /\ Ids(ToSet(raw')) = Ids(ToSet(raw)) \cup {new}
            /\ warned' = warned /\ lost' = lost
         \/ /\ Ids(ToSet(raw')) = Ids(ToSet(raw))
            /\ warned' = warned \cup {new} /\ lost' = lost
         \/ /\ Ids(ToSet(raw')) = Ids(ToSet(raw))
            /\ warned' = warned /\ lost' = lost \cup {new}
  <2>1. CASE Len(raw) < StageCapacity /\ raw' = Append(raw, note)
             /\ warned' = warned /\ lost' = lost
    <3>1. /\ raw' \in Seq(Note) /\ Len(raw') = Len(raw) + 1 /\ Distinct(raw')
          /\ Ids(ToSet(raw')) = Ids(ToSet(raw)) \cup {new}
      BY <1>2, <1>4, <2>1, IdsOfAppend
    <3> QED
      BY <2>1, <3>1, RpcAssumption
  <2> QED
    BY <1>5, <2>1
<1>7. InFlight' = InFlight
  BY <1>1 DEF InFlight
<1>8. PipeTyped' /\ Apart'
  BY <1>1, <1>6, <1>7
<1>9. ASSUME NEW id \in 1..MaxNotes
      PROVE  Places(id)' = IF id <= notified' THEN 1 ELSE 0
  <2>1. Places(id) = IF id <= notified THEN 1 ELSE 0
    BY DEF OnePlace
  <2>2. CASE id = new
    BY <1>1, <1>2, <1>6, <2>2 DEF Places, new
  <2>3. CASE id # new
    <3>1. id <= notified' <=> id <= notified
      BY <1>1, <2>3 DEF new
    <3>2. Places(id)' = Places(id)
      BY <1>1, <1>6, <2>3 DEF Places
    <3> QED
      BY <2>1, <3>1, <3>2
  <2> QED
    BY <2>2, <2>3
<1> QED
  BY <1>8, <1>9 DEF OnePlace

\* A step that moves notifications from place to place: it keeps the types and
\* the ids apart, gives out no new id, and leaves every id as often as it was.
LEMMA MovesKeepPipe ==
    ASSUME PipeInv, notified' = notified, PipeTyped', Apart',
           \A id \in 1..MaxNotes : Places(id) \in {0, 1} => Places(id)' = Places(id)
    PROVE  PipeInv'
<1>1. ASSUME NEW id \in 1..MaxNotes PROVE Places(id)' = IF id <= notified' THEN 1 ELSE 0
  <2>1. Places(id) = IF id <= notified THEN 1 ELSE 0
    BY DEF PipeInv, OnePlace
  <2> QED
    BY <2>1
<1> QED
  BY <1>1 DEF PipeInv, OnePlace

\* The dispatcher takes a notification: it is counted out, queued for its fetch,
\* counted as dropped on a full queue, or met a closed one.
LEMMA DispatchKeepsPipe ==
    ASSUME PipeInv, DispatcherHandles
    PROVE  PipeInv'
<1> USE DEF PipeInv, PipeTyped, Apart
<1> DEFINE h == Head(raw)
<1>1. /\ raw # <<>> /\ raw' = Tail(raw) /\ notified' = notified
      /\ hand' = hand /\ fetching' = fetching /\ fetched' = fetched /\ sending' = sending
      /\ channel' = channel /\ delivered' = delivered /\ warned' = warned
  BY DEF DispatcherHandles, fetchVars
<1>2. /\ raw' \in Seq(Note) /\ Len(raw') <= StageCapacity /\ Distinct(raw')
      /\ h \in Note /\ h.id \in Ids(ToSet(raw))
      /\ Ids(ToSet(raw')) = Ids(ToSet(raw)) \ {h.id}
  BY <1>1, IdsOfTail, RpcAssumption
<1>3. h.id \in 1..MaxNotes
  BY <1>2 DEF Note
<1>4. Places(h.id) \in {0, 1}
  BY <1>3 DEF OnePlace
<1>5. /\ h.id \notin Ids(ToSet(signatures)) /\ h.id \notin counted /\ h.id \notin lost
  BY <1>2, <1>4 DEF Places
<1>6. \/ /\ Len(signatures) < StageCapacity /\ signatures' = Append(signatures, h)
         /\ counted' = counted /\ lost' = lost
      \/ signatures' = signatures /\ counted' = counted \cup {h.id} /\ lost' = lost
      \/ signatures' = signatures /\ counted' = counted /\ lost' = lost \cup {h.id}
  BY DEF DispatcherHandles, Emit
<1> HIDE DEF h
<1>7. /\ signatures' \in Seq(Note) /\ Len(signatures') <= StageCapacity
      /\ Distinct(signatures')
      /\ \/ /\ Ids(ToSet(signatures')) = Ids(ToSet(signatures)) \cup {h.id}
            /\ counted' = counted /\ lost' = lost
         \/ /\ Ids(ToSet(signatures')) = Ids(ToSet(signatures))
            /\ counted' = counted \cup {h.id} /\ lost' = lost
         \/ /\ Ids(ToSet(signatures')) = Ids(ToSet(signatures))
            /\ counted' = counted /\ lost' = lost \cup {h.id}
  <2>1. CASE Len(signatures) < StageCapacity /\ signatures' = Append(signatures, h)
             /\ counted' = counted /\ lost' = lost
    <3>1. /\ signatures' \in Seq(Note) /\ Len(signatures') = Len(signatures) + 1
          /\ Distinct(signatures')
          /\ Ids(ToSet(signatures')) = Ids(ToSet(signatures)) \cup {h.id}
      BY <1>2, <1>5, <2>1, IdsOfAppend
    <3> QED
      BY <2>1, <3>1, RpcAssumption
  <2> QED
    BY <1>6, <2>1
<1>8. InFlight' = InFlight
  BY <1>1 DEF InFlight
<1>9. PipeTyped' /\ Apart'
  BY <1>1, <1>2, <1>7, <1>8
<1>10. ASSUME NEW id \in 1..MaxNotes, Places(id) \in {0, 1} PROVE Places(id)' = Places(id)
  BY <1>1, <1>2, <1>5, <1>7, <1>10 DEF Places
<1> QED
  BY <1>1, <1>9, <1>10, MovesKeepPipe

\* A stage that returns or panics takes its queue with it: what was queued is lost
\* and nothing else is.
LEMMA StageEndKeepsPipe ==
    ASSUME PipeInv, DispatcherReturns \/ FetchReturns \/ \E s \in ToSet(Stages) : StagePanics(s)
    PROVE  PipeInv'
<1> USE DEF PipeInv, PipeTyped, Apart
<1>1. /\ notified' = notified /\ fetching' = fetching /\ fetched' = fetched
      /\ sending' = sending /\ channel' = channel /\ delivered' = delivered
      /\ warned' = warned /\ counted' = counted
  BY DEF DispatcherReturns, FetchReturns, StagePanics, BesidesFetch, fetchVars
<1>2. hand = NoNote \/ hand \in Note
  OBVIOUS
<1>3. \/ /\ raw' = <<>> /\ signatures' = signatures /\ hand' = hand
         /\ lost' = lost \cup Ids(ToSet(raw))
      \/ /\ raw' = raw /\ signatures' = <<>> /\ hand' = hand
         /\ lost' = lost \cup Ids(ToSet(signatures))
      \/ /\ raw' = raw /\ signatures' = <<>> /\ hand' = NoNote
         /\ lost' = lost \cup Ids(ToSet(signatures)) \cup Ids({hand} \ {NoNote})
      \/ raw' = raw /\ signatures' = signatures /\ hand' = hand /\ lost' = lost
  <2>1. Ids(ToSet(signatures) \cup ({hand} \ {NoNote}))
          = Ids(ToSet(signatures)) \cup Ids({hand} \ {NoNote})
    BY DEF Ids
  <2>2. CASE DispatcherReturns
    BY <2>2 DEF DispatcherReturns, fetchVars
  <2>3. CASE FetchReturns
    BY <2>3 DEF FetchReturns, fetchVars, BesidesFetch
  <2>4. ASSUME NEW s \in StageSet, StagePanics(s)
        PROVE  \/ /\ raw' = <<>> /\ signatures' = signatures /\ hand' = hand
                  /\ lost' = lost \cup Ids(ToSet(raw))
               \/ /\ raw' = raw /\ signatures' = <<>> /\ hand' = NoNote
                  /\ lost' = lost \cup Ids(ToSet(signatures)) \cup Ids({hand} \ {NoNote})
               \/ raw' = raw /\ signatures' = signatures /\ hand' = hand /\ lost' = lost
    <3>1. CASE s = "listener"
      BY <2>4, <3>1 DEF StagePanics
    <3>2. CASE s = "dispatcher"
      BY <2>4, <3>2 DEF StagePanics
    <3>3. CASE s = "fetch"
      BY <2>1, <2>4, <3>3 DEF StagePanics
    <3> QED
      BY <3>1, <3>2, <3>3 DEF StageSet
  <2> QED
    BY <2>2, <2>3, <2>4, StagesListed
<1>4. InFlight' = InFlight
  BY <1>1 DEF InFlight
<1>5. PipeTyped' /\ Apart'
  <2>1. <<>> \in Seq(Note) /\ Len(<<>>) <= StageCapacity /\ Distinct(<<>>)
    BY IdsOfEmpty, RpcAssumption
  <2> QED
    BY <1>1, <1>3, <1>4, <2>1
<1>6. ASSUME NEW id \in 1..MaxNotes, Places(id) \in {0, 1} PROVE Places(id)' = Places(id)
  <2>1. CASE raw' = <<>> /\ signatures' = signatures /\ hand' = hand
             /\ lost' = lost \cup Ids(ToSet(raw))
    BY <1>1, <1>6, <2>1, IdsOfEmpty DEF Places
  <2>2. CASE raw' = raw /\ signatures' = <<>> /\ hand' = hand
             /\ lost' = lost \cup Ids(ToSet(signatures))
    BY <1>1, <1>6, <2>2, IdsOfEmpty DEF Places
  <2>3. CASE raw' = raw /\ signatures' = <<>> /\ hand' = NoNote
             /\ lost' = lost \cup Ids(ToSet(signatures)) \cup Ids({hand} \ {NoNote})
    <3>1. /\ id \notin Ids({hand'} \ {NoNote})
          /\ id \notin Ids(ToSet(signatures'))
      BY <2>3, IdsOfEmpty, IdsOfHand
    <3>2. id \in lost' <=> \/ id \in lost \/ id \in Ids(ToSet(signatures))
                            \/ id \in Ids({hand} \ {NoNote})
      BY <2>3
    <3>3. raw' = raw
      BY <2>3
    <3> QED
      BY <1>1, <1>6, <3>1, <3>2, <3>3 DEF Places
  <2>4. CASE raw' = raw /\ signatures' = signatures /\ hand' = hand /\ lost' = lost
    BY <1>1, <2>4 DEF Places
  <2> QED
    BY <1>3, <2>1, <2>2, <2>3, <2>4
<1> QED
  BY <1>1, <1>5, <1>6, MovesKeepPipe

\* The fetch worker takes a signature off its queue and holds it.
LEMMA TakeKeepsPipe ==
    ASSUME PipeInv, FetchTakes
    PROVE  PipeInv'
<1> USE DEF PipeInv, PipeTyped, Apart
<1>1. /\ notified' = notified /\ raw' = raw /\ fetching' = fetching /\ fetched' = fetched
      /\ sending' = sending /\ channel' = channel /\ delivered' = delivered
      /\ warned' = warned /\ counted' = counted /\ lost' = lost
      /\ hand = NoNote /\ signatures # <<>>
      /\ hand' = Head(signatures) /\ signatures' = Tail(signatures)
  BY DEF FetchTakes, BesidesFetch, tallyVars
<1>2. /\ signatures' \in Seq(Note) /\ Len(signatures') <= StageCapacity
      /\ Distinct(signatures') /\ hand' \in Note /\ hand'.id \in Ids(ToSet(signatures))
      /\ Ids(ToSet(signatures')) = Ids(ToSet(signatures)) \ {hand'.id}
  BY <1>1, IdsOfTail, RpcAssumption
<1>3. InFlight' = InFlight
  BY <1>1 DEF InFlight
<1>4. PipeTyped' /\ Apart'
  BY <1>1, <1>2, <1>3
<1>5. ASSUME NEW id \in 1..MaxNotes, Places(id) \in {0, 1} PROVE Places(id)' = Places(id)
  <2>1. /\ id \notin Ids({hand} \ {NoNote})
        /\ id \in Ids({hand'} \ {NoNote}) <=> id = hand'.id
    BY <1>1, <1>2, IdsOfHand, IdsOfEmpty
  <2>2. id \in Ids(ToSet(signatures')) <=> id \in Ids(ToSet(signatures)) /\ id # hand'.id
    BY <1>2
  <2>3. id = hand'.id => id \in Ids(ToSet(signatures))
    BY <1>2
  <2> QED
    BY <1>1, <1>5, <2>1, <2>2, <2>3 DEF Places
<1> QED
  BY <1>1, <1>4, <1>5, MovesKeepPipe

\* dispatch_one: a permit is free and the fetch is spawned with it, or the stop
\* counts what was in hand as dropped.
LEMMA HandKeepsPipe ==
    ASSUME PipeInv, SpawnFetch \/ DropInHand
    PROVE  PipeInv'
<1> USE DEF PipeInv, PipeTyped, Apart
<1>0. /\ notified' = notified /\ raw' = raw /\ signatures' = signatures /\ fetched' = fetched
      /\ sending' = sending /\ channel' = channel /\ delivered' = delivered
      /\ warned' = warned /\ lost' = lost
  BY DEF SpawnFetch, DropInHand, BesidesFetch, tallyVars
<1>1. /\ hand # NoNote /\ hand \in Note /\ hand' = NoNote
  BY DEF SpawnFetch, DropInHand, BesidesFetch, tallyVars
<1>2. hand.id \in 1..MaxNotes
  BY <1>1 DEF Note
<1>3. Ids({hand} \ {NoNote}) = {hand.id}
  BY <1>1, IdsOfHand
<1>4. Places(hand.id) \in {0, 1}
  BY <1>2 DEF OnePlace
<1>5. /\ hand.id \notin Ids(DOMAIN fetching) /\ hand.id \notin counted
      /\ hand.id \notin Ids(fetched) /\ hand.id \notin Ids(sending)
  BY <1>3, <1>4 DEF Places
<1>6. hand \notin InFlight
  BY <1>5 DEF InFlight, Ids
<1>7. ASSUME NEW id \in 1..MaxNotes
      PROVE  /\ id \notin Ids({hand'} \ {NoNote})
             /\ id \in Ids({hand} \ {NoNote}) <=> id = hand.id
  BY <1>1, <1>3, IdsOfHand, IdsOfEmpty
<1>8. CASE SpawnFetch
  <2>1. /\ DOMAIN fetching' = DOMAIN fetching \cup {hand} /\ counted' = counted
        /\ \A n \in DOMAIN fetching' :
              fetching'[n] = IF n = hand THEN 0 ELSE fetching[n]
        /\ Cardinality(InFlight) < MaxFetches
    BY <1>8 DEF SpawnFetch, tallyVars
  <2>2. /\ Ids(DOMAIN fetching') = Ids(DOMAIN fetching) \cup {hand.id}
        /\ ToldApart(DOMAIN fetching')
    BY <1>5, <2>1, IdsOfAdded
  <2>3. InFlight' = InFlight \cup {hand}
    BY <1>0, <2>1 DEF InFlight
  <2>4. IsFiniteSet(InFlight') /\ Cardinality(InFlight') = Cardinality(InFlight) + 1
    BY <1>6, <2>3, FS_AddElement
  <2>5. Cardinality(InFlight') <= MaxFetches
    BY <2>1, <2>4, FS_CardinalityType, RpcAssumption
  <2>6. \A n \in DOMAIN fetching' : n \in Note /\ fetching'[n] \in 0..FetchRetries
    BY <1>1, <2>1, RpcAssumption
  <2>7. PipeTyped' /\ Apart'
    BY <1>0, <1>1, <2>2, <2>4, <2>5, <2>6
  <2>8. ASSUME NEW id \in 1..MaxNotes, Places(id) \in {0, 1} PROVE Places(id)' = Places(id)
    <3>1. /\ id \notin Ids({hand'} \ {NoNote})
          /\ id \in Ids({hand} \ {NoNote}) <=> id = hand.id
      BY <1>7
    <3>2. id \in Ids(DOMAIN fetching') <=> id \in Ids(DOMAIN fetching) \/ id = hand.id
      BY <2>2
    <3>3. counted' = counted
      BY <2>1
    <3> QED
      BY <1>0, <1>5, <2>8, <3>1, <3>2, <3>3 DEF Places
  <2> QED
    BY <1>0, <2>7, <2>8, MovesKeepPipe
<1>9. CASE DropInHand
  <2>1. fetching' = fetching /\ counted' = counted \cup {hand.id}
    BY <1>9 DEF DropInHand
  <2>2. InFlight' = InFlight
    BY <1>0, <2>1 DEF InFlight
  <2>3. PipeTyped' /\ Apart'
    BY <1>0, <1>1, <2>1, <2>2
  <2>4. ASSUME NEW id \in 1..MaxNotes, Places(id) \in {0, 1} PROVE Places(id)' = Places(id)
    <3>1. /\ id \notin Ids({hand'} \ {NoNote})
          /\ id \in Ids({hand} \ {NoNote}) <=> id = hand.id
      BY <1>7
    <3> QED
      BY <1>0, <1>5, <2>1, <2>4, <3>1 DEF Places
  <2> QED
    BY <1>0, <2>3, <2>4, MovesKeepPipe
<1> QED
  BY <1>8, <1>9

\* A detached fetch asks again, is counted as failed, or has its transaction.
LEMMA FetchKeepsPipe ==
    ASSUME PipeInv, NEW note \in DOMAIN fetching,
           FetchRetried(note) \/ FetchFails(note) \/ FetchAnswers(note)
    PROVE  PipeInv'
<1> USE DEF PipeInv, PipeTyped, Apart
<1>1. /\ notified' = notified /\ raw' = raw /\ signatures' = signatures /\ hand' = hand
      /\ sending' = sending /\ channel' = channel /\ delivered' = delivered
      /\ warned' = warned /\ lost' = lost
  BY DEF FetchRetried, FetchFails, FetchAnswers, BesidesFetch, tallyVars
<1>2. note \in Note /\ note.id \in 1..MaxNotes
  BY DEF Note
<1>3. Places(note.id) \in {0, 1}
  BY <1>2 DEF OnePlace
<1>4. /\ Ids(DOMAIN fetching \ {note}) = Ids(DOMAIN fetching) \ {note.id}
      /\ ToldApart(DOMAIN fetching \ {note}) /\ note.id \in Ids(DOMAIN fetching)
  BY IdsOfRemoved
<1>5. note.id \notin Ids(fetched) /\ note.id \notin counted
  BY <1>3, <1>4 DEF Places
<1>6. CASE FetchRetried(note)
  <2>1. /\ DOMAIN fetching' = DOMAIN fetching /\ fetched' = fetched /\ counted' = counted
        /\ \A n \in DOMAIN fetching' : fetching'[n] \in 0..FetchRetries
    BY <1>6, RpcAssumption DEF FetchRetried, tallyVars
  <2>2. InFlight' = InFlight
    BY <1>1, <2>1 DEF InFlight
  <2>3. PipeTyped' /\ Apart'
    BY <1>1, <2>1, <2>2
  <2>4. ASSUME NEW id \in 1..MaxNotes PROVE Places(id)' = Places(id)
    BY <1>1, <2>1 DEF Places
  <2> QED
    BY <1>1, <2>3, <2>4, MovesKeepPipe
<1>7. CASE FetchFails(note) \/ FetchAnswers(note)
  <2>1. /\ DOMAIN fetching' = DOMAIN fetching \ {note}
        /\ \A n \in DOMAIN fetching' : fetching'[n] = fetching[n]
    BY <1>7 DEF FetchFails, FetchAnswers, WithoutFetch
  <2>2. \/ fetched' = fetched /\ counted' = counted \cup {note.id}
        \/ fetched' = fetched \cup {note} /\ counted' = counted
    BY <1>7 DEF FetchFails, FetchAnswers, tallyVars
  <2>3. /\ Ids(fetched \cup {note}) = Ids(fetched) \cup {note.id}
        /\ ToldApart(fetched \cup {note})
    BY <1>5, IdsOfAdded
  <2>4. InFlight' \subseteq InFlight
    BY <1>1, <2>1, <2>2 DEF InFlight
  <2>5. IsFiniteSet(InFlight') /\ Cardinality(InFlight') <= MaxFetches
    BY <2>4, PermitsShrink
  <2>6. PipeTyped' /\ Apart'
    BY <1>1, <1>2, <1>4, <2>1, <2>2, <2>3, <2>5
  <2>7. ASSUME NEW id \in 1..MaxNotes, Places(id) \in {0, 1} PROVE Places(id)' = Places(id)
    <3>1. id \in Ids(DOMAIN fetching') <=> id \in Ids(DOMAIN fetching) /\ id # note.id
      BY <1>4, <2>1
    <3>2. CASE fetched' = fetched /\ counted' = counted \cup {note.id}
      BY <1>1, <1>4, <1>5, <2>7, <3>1, <3>2 DEF Places
    <3>3. CASE fetched' = fetched \cup {note} /\ counted' = counted
      <4>1. id \in Ids(fetched') <=> id \in Ids(fetched) \/ id = note.id
        BY <2>3, <3>3
      <4> QED
        BY <1>1, <1>4, <1>5, <2>7, <3>1, <3>3, <4>1 DEF Places
    <3> QED
      BY <2>2, <3>2, <3>3
  <2> QED
    BY <1>1, <2>6, <2>7, MovesKeepPipe
<1> QED
  BY <1>6, <1>7

\* The handover: it sees the stop, starts the send, or the send ends in the
\* channel or in a closed one; each with the permit it held.
LEMMA HandoverKeepsPipe ==
    ASSUME PipeInv, NEW note \in InFlight,
           HandoverSeesStop(note) \/ HandoverStarts(note) \/ HandoverSends(note)
    PROVE  PipeInv'
<1> USE DEF PipeInv, PipeTyped, Apart
<1>1. /\ notified' = notified /\ raw' = raw /\ signatures' = signatures /\ hand' = hand
      /\ fetching' = fetching /\ warned' = warned /\ lost' = lost
  BY DEF HandoverSeesStop, HandoverStarts, HandoverSends, BesidesFetch, tallyVars
<1>2. note \in Note /\ note.id \in 1..MaxNotes
  BY DEF Note, InFlight
<1>3. Places(note.id) \in {0, 1}
  BY <1>2 DEF OnePlace
<1>4. note \in fetched =>
        /\ Ids(fetched \ {note}) = Ids(fetched) \ {note.id}
        /\ ToldApart(fetched \ {note}) /\ note.id \in Ids(fetched)
  BY IdsOfRemoved
<1>5. note \in sending =>
        /\ Ids(sending \ {note}) = Ids(sending) \ {note.id}
        /\ ToldApart(sending \ {note}) /\ note.id \in Ids(sending)
  BY IdsOfRemoved
<1>6. /\ note \in fetched => note.id \notin Ids(sending)
      /\ note \in sending => note.id \notin Ids(fetched)
      /\ note \in fetched \cup sending => note.id \notin counted /\ note.id \notin delivered
  BY <1>3, <1>4, <1>5 DEF Places
<1>7. /\ note \in fetched => note \notin sending
      /\ note \in sending => note \notin fetched
  BY <1>4, <1>5, <1>6
<1>8. CASE HandoverStarts(note)
  <2>1. /\ note \in fetched /\ fetched' = fetched \ {note} /\ sending' = sending \cup {note}
        /\ channel' = channel /\ counted' = counted /\ delivered' = delivered
    BY <1>8 DEF HandoverStarts, tallyVars
  <2>2. /\ Ids(sending') = Ids(sending) \cup {note.id} /\ ToldApart(sending')
        /\ Ids(fetched') = Ids(fetched) \ {note.id} /\ ToldApart(fetched')
    BY <1>4, <1>6, <2>1, IdsOfAdded
  <2>3. InFlight' \subseteq InFlight
    BY <1>1, <2>1 DEF InFlight
  <2>4. PipeTyped' /\ Apart'
    BY <1>1, <1>2, <2>1, <2>2, <2>3, PermitsShrink
  <2>5. ASSUME NEW id \in 1..MaxNotes, Places(id) \in {0, 1} PROVE Places(id)' = Places(id)
    <3>1. /\ id \in Ids(sending') <=> id \in Ids(sending) \/ id = note.id
          /\ id \in Ids(fetched') <=> id \in Ids(fetched) /\ id # note.id
          /\ note.id \in Ids(fetched) /\ note.id \notin Ids(sending)
          /\ counted' = counted /\ delivered' = delivered
      BY <1>4, <1>6, <2>1, <2>2
    <3> QED
      BY <1>1, <2>5, <3>1 DEF Places
  <2> QED
    BY <1>1, <2>4, <2>5, MovesKeepPipe
<1>9. CASE HandoverSeesStop(note) \/ HandoverSends(note)
  <2>1. /\ note \in fetched \cup sending
        /\ fetched' = fetched \ {note} /\ sending' = sending \ {note}
        /\ \/ counted' = counted \cup {note.id} /\ delivered' = delivered
           \/ counted' = counted /\ delivered' = delivered \cup {note.id}
    BY <1>7, <1>9 DEF HandoverSeesStop, HandoverSends
  <2>2. /\ Ids(fetched') = Ids(fetched) \ {note.id} /\ ToldApart(fetched')
    <3>1. CASE note \in fetched
      BY <1>4, <2>1, <3>1
    <3>2. CASE note \notin fetched
      <4>1. fetched' = fetched /\ note.id \notin Ids(fetched)
        BY <1>6, <2>1, <3>2
      <4> QED
        BY <4>1
    <3> QED
      BY <3>1, <3>2
  <2>3. /\ Ids(sending') = Ids(sending) \ {note.id} /\ ToldApart(sending')
    <3>1. CASE note \in sending
      BY <1>5, <2>1, <3>1
    <3>2. CASE note \notin sending
      <4>1. sending' = sending /\ note.id \notin Ids(sending)
        BY <1>6, <2>1, <3>2
      <4> QED
        BY <4>1
    <3> QED
      BY <3>1, <3>2
  <2>4. channel' \in Seq(Note) /\ Len(channel') <= Room
    <3>1. channel' = channel \/ (Len(channel) < Room /\ channel' = Append(channel, note))
      BY <1>9 DEF HandoverSeesStop, HandoverSends
    <3>2. /\ Append(channel, note) \in Seq(Note)
          /\ Len(Append(channel, note)) = Len(channel) + 1 /\ Len(channel) \in Nat
      BY <1>2
    <3>3. CASE channel' = channel
      BY <3>3
    <3>4. CASE Len(channel) < Room /\ channel' = Append(channel, note)
      <4>1. Len(channel') = Len(channel) + 1 /\ Room \in Nat
        BY <3>2, <3>4, RpcAssumption
      <4>2. Len(channel') <= Room
        BY <3>2, <3>4, <4>1
      <4> QED
        BY <3>2, <3>4, <4>2
    <3> QED
      BY <3>1, <3>3, <3>4
  <2>5. InFlight' \subseteq InFlight
    BY <1>1, <2>1 DEF InFlight
  <2>6. PipeTyped' /\ Apart'
    BY <1>1, <2>1, <2>2, <2>3, <2>4, <2>5, PermitsShrink
  <2>7. ASSUME NEW id \in 1..MaxNotes, Places(id) \in {0, 1} PROVE Places(id)' = Places(id)
    <3>1. note.id \in Ids(fetched) \/ note.id \in Ids(sending)
      BY <1>4, <1>5, <2>1
    <3>2. /\ id \in Ids(fetched') <=> id \in Ids(fetched) /\ id # note.id
          /\ id \in Ids(sending') <=> id \in Ids(sending) /\ id # note.id
      BY <2>2, <2>3
    <3>3. \/ /\ id \in counted' <=> id \in counted \/ id = note.id
             /\ id \in delivered' <=> id \in delivered
          \/ /\ id \in counted' <=> id \in counted
             /\ id \in delivered' <=> id \in delivered \/ id = note.id
      BY <2>1
    <3>4. /\ ~(note.id \in Ids(fetched) /\ note.id \in Ids(sending))
          /\ note.id \notin counted /\ note.id \notin delivered
      BY <1>6, <1>4, <1>5, <2>1
    <3> QED
      BY <1>1, <2>7, <3>1, <3>2, <3>3, <3>4 DEF Places
  <2> QED
    BY <1>1, <2>6, <2>7, MovesKeepPipe
<1> QED
  BY <1>8, <1>9

\* The consumer takes what was delivered, or leaves with it; nothing upstream moves.
LEMMA ConsumerKeepsPipe ==
    ASSUME PipeInv, Consume \/ ConsumerLeaves
    PROVE  PipeInv'
<1> USE DEF PipeInv, PipeTyped, Apart
<1>1. /\ notified' = notified /\ raw' = raw /\ signatures' = signatures /\ hand' = hand
      /\ fetching' = fetching /\ fetched' = fetched /\ sending' = sending
      /\ delivered' = delivered /\ counted' = counted /\ warned' = warned /\ lost' = lost
  BY DEF Consume, ConsumerLeaves, fetchVars, tallyVars
<1>2. channel' \in Seq(Note) /\ Len(channel') <= Room
  <2>1. CASE Consume
    <3>1. channel # <<>> /\ channel' = Tail(channel)
      BY <2>1 DEF Consume
    <3>2. channel' \in Seq(Note) /\ Len(channel') = Len(channel) - 1 /\ Len(channel) \in Nat
      BY <3>1
    <3> QED
      BY <3>2, RpcAssumption
  <2>2. CASE ConsumerLeaves
    <3>1. channel' = <<>>
      BY <2>2 DEF ConsumerLeaves
    <3> QED
      BY <3>1, RpcAssumption
  <2> QED
    BY <2>1, <2>2
<1>3. PipeTyped' /\ Apart'
  BY <1>1, <1>2 DEF InFlight
<1>4. ASSUME NEW id \in 1..MaxNotes PROVE Places(id)' = Places(id)
  BY <1>1 DEF Places
<1> QED
  BY <1>1, <1>3, <1>4, MovesKeepPipe

\* The steps that touch no notification.
Still == UNCHANGED <<notified, pipeVars, tallyVars>>

\* Every other step of the fleet, the listener and run leaves the pipeline alone.
LEMMA StepKinds ==
    ASSUME [Next]_vars
    PROVE  \/ Still
           \/ \E t \in Targets : WorkerForwards(t)
           \/ DispatcherHandles
           \/ DispatcherReturns \/ FetchReturns \/ \E s \in ToSet(Stages) : StagePanics(s)
           \/ FetchTakes
           \/ SpawnFetch \/ DropInHand
           \/ FetchEnds
           \/ Consume \/ ConsumerLeaves
<1>1. ASSUME NEW t \in Targets,
             Watch(t) \/ WorkerStep(t) \/ StreamCloses(t) \/ WorkerPanics(t)
      PROVE  Still
  BY <1>1 DEF Watch, WorkerStep, WorkerStops, WorkerTries, WorkerConnects, WorkerFails,
              WorkerUnsubscribes, StreamCloses, WorkerPanics, BesidesWorkers, Still
<1>2. CASE ListenerStep
  BY <1>2 DEF ListenerStep, StartFleet, ListenerRefuses, ListenerReturns, Still
<1>3. CASE Run \/ SourceStep \/ AskStop
  BY <1>3 DEF Run, SourceStep, SourceSelects, DrainStages, AskStop, BesidesRun, Still
<1>4. CASE UNCHANGED vars
  BY <1>4 DEF vars, Still
<1> QED
  BY <1>1, <1>2, <1>3, <1>4 DEF Next, FetchStep

\* The pipeline's part of the invariant survives every step.
LEMMA PipeStep ==
    ASSUME PipeInv, [Next]_vars
    PROVE  PipeInv'
<1>1. CASE Still
  <2>1. /\ notified' = notified /\ raw' = raw /\ signatures' = signatures /\ hand' = hand
        /\ fetching' = fetching /\ fetched' = fetched /\ sending' = sending
        /\ channel' = channel
        /\ delivered' = delivered /\ counted' = counted /\ warned' = warned /\ lost' = lost
    BY <1>1 DEF Still, pipeVars, fetchVars, tallyVars
  <2>2. PipeTyped' /\ Apart'
    BY <2>1 DEF PipeInv, PipeTyped, Apart, InFlight
  <2>3. ASSUME NEW id \in 1..MaxNotes PROVE Places(id)' = Places(id)
    BY <2>1 DEF Places
  <2> QED
    BY <2>1, <2>2, <2>3, MovesKeepPipe
<1>2. CASE FetchEnds
  BY <1>2, FetchKeepsPipe, HandoverKeepsPipe DEF FetchEnds
<1> QED
  BY <1>1, <1>2, StepKinds, ForwardKeepsPipe, DispatchKeepsPipe, StageEndKeepsPipe,
     TakeKeepsPipe, HandKeepsPipe, ConsumerKeepsPipe

-----------------------------------------------------------------------------
(***************************************************************************)
(* Every step keeps the part of the fleet, the stages and run.             *)
(***************************************************************************)

runVars == <<watched, worker, failures, consumer, stage, lost, endVars>>

\* The fetch worker at work and the consumer that takes leave all of it alone.
LEMMA CalmKeepsRun ==
    ASSUME RunInv, UNCHANGED runVars
    PROVE  RunInv'
<1>1. /\ watched' = watched /\ worker' = worker /\ failures' = failures
      /\ consumer' = consumer /\ stage' = stage /\ lost' = lost /\ asked' = asked
      /\ shutdown' = shutdown /\ source' = source /\ outcome' = outcome
  BY DEF runVars, endVars
<1>2. RunTyped'
  BY <1>1 DEF RunInv, RunTyped
<1>3. Lifecycle'
  BY <1>1 DEF RunInv, Lifecycle, FleetUnborn
<1>4. NothingEndsByItself'
  BY <1>1 DEF RunInv, NothingEndsByItself, NoStageFailed
<1>5. LossIsExplained'
  BY <1>1 DEF RunInv, LossIsExplained, NoStageFailed
<1> QED
  BY <1>2, <1>3, <1>4, <1>5 DEF RunInv

\* A worker goes from state to state; it ends well only under the token or when
\* its channel is closed.
LEMMA WorkersKeepRun ==
    ASSUME RunInv, NEW t \in Targets,
           WorkerStep(t) \/ WorkerForwards(t) \/ StreamCloses(t) \/ WorkerPanics(t)
    PROVE  RunInv'
<1> USE DEF RunInv, RunTyped
<1>1. /\ watched' = watched /\ consumer' = consumer /\ stage' = stage /\ asked' = asked
      /\ shutdown' = shutdown /\ source' = source /\ outcome' = outcome
  BY DEF WorkerStep, WorkerStops, WorkerTries, WorkerConnects, WorkerFails,
     WorkerUnsubscribes, WorkerForwards, StreamCloses, WorkerPanics, BesidesWorkers,
     pipeVars, endVars
<1>2. worker[t] # "unborn"
  BY DEF WorkerStep, WorkerStops, WorkerTries, WorkerConnects, WorkerFails,
     WorkerUnsubscribes, WorkerForwards, StreamCloses, WorkerPanics, WorkerEnded
<1>3. source # "configuring" /\ \A s \in StageSet : stage[s] # "idle"
  BY <1>2 DEF Lifecycle
<1>4. /\ worker' \in [Targets -> {"unborn", "between", "connecting", "streaming", "ok", "gave_up"}]
      /\ \A u \in Targets : u # t => worker'[u] = worker[u]
      /\ worker'[t] # "unborn"
      /\ worker'[t] = "ok" => worker[t] = "ok" \/ shutdown \/ stage["dispatcher"] # "running"
  BY <1>2 DEF WorkerStep, WorkerStops, WorkerTries, WorkerConnects, WorkerFails,
     WorkerUnsubscribes, WorkerForwards, ForwardsTo, StreamCloses, WorkerPanics, WorkerTo
<1>5. failures' \in [Targets -> 0..(MaxAttempts - 1)]
  <2>1. CASE WorkerFails(t)
    <3>1. failures[t] \in 0..(MaxAttempts - 1) /\ MaxAttempts \in Nat \ {0}
      BY RpcAssumption
    <3>2. failures[t] + 1 >= MaxAttempts \/ failures[t] + 1 \in 0..(MaxAttempts - 1)
      BY <3>1
    <3>3. 0 \in 0..(MaxAttempts - 1)
      BY <3>1
    <3>4. \/ failures' = [failures EXCEPT ![t] = 0]
          \/ /\ failures[t] + 1 \in 0..(MaxAttempts - 1)
             /\ failures' = [failures EXCEPT ![t] = failures[t] + 1]
      BY <2>1, <3>2 DEF WorkerFails
    <3> QED
      BY <3>3, <3>4
  <2>2. CASE ~WorkerFails(t)
    <3>1. failures' = failures \/ failures' = [failures EXCEPT ![t] = 0]
      BY <2>2 DEF WorkerStep, WorkerStops, WorkerTries, WorkerConnects,
         WorkerUnsubscribes, WorkerForwards, StreamCloses, WorkerPanics
    <3>2. 0 \in 0..(MaxAttempts - 1)
      BY RpcAssumption
    <3> QED
      BY <3>1, <3>2
  <2> QED
    BY <2>1, <2>2
<1>6. lost' = lost \/ stage["dispatcher"] # "running"
  BY DEF WorkerStep, WorkerStops, WorkerTries, WorkerConnects, WorkerFails,
     WorkerUnsubscribes, WorkerForwards, ForwardsTo, StreamCloses, WorkerPanics,
     BesidesWorkers, tallyVars
<1>7. RunTyped'
  BY <1>1, <1>4, <1>5
<1>8. Lifecycle'
  BY <1>1, <1>2, <1>3, <1>4 DEF Lifecycle, FleetUnborn
<1>9. consumer /\ ~asked /\ NoStageFailed => stage["dispatcher"] = "running"
  BY <1>3 DEF NothingEndsByItself, NoStageFailed, StageSet
<1>10. NothingEndsByItself'
  BY <1>1, <1>4, <1>9 DEF NothingEndsByItself, NoStageFailed
<1>11. LossIsExplained'
  BY <1>1, <1>6, <1>9 DEF LossIsExplained, NoStageFailed, Lifecycle
<1> QED
  BY <1>7, <1>8, <1>10, <1>11

\* Before run, a target is added; with it, the fleet is spawned, once.
LEMMA FleetKeepsRun ==
    ASSUME RunInv, (\E t \in Targets : Watch(t)) \/ StartFleet
    PROVE  RunInv'
<1> USE DEF RunInv, RunTyped
<1>1. /\ failures' = failures /\ consumer' = consumer /\ stage' = stage /\ asked' = asked
      /\ shutdown' = shutdown /\ source' = source /\ outcome' = outcome /\ lost' = lost
  BY DEF Watch, StartFleet, pipeVars, tallyVars, endVars
<1>2. CASE \E t \in Targets : Watch(t)
  <2>1. source = "configuring" /\ watched' \subseteq Targets /\ worker' = worker
    BY <1>2 DEF Watch
  <2>2. \A t \in watched' : worker'[t] = "unborn"
    BY <2>1 DEF Lifecycle
  <2>3. RunTyped'
    BY <1>1, <2>1
  <2>4. Lifecycle'
    BY <1>1, <2>1, <2>2 DEF Lifecycle, FleetUnborn
  <2> QED
    BY <1>1, <2>1, <2>3, <2>4 DEF NothingEndsByItself, NoStageFailed, LossIsExplained
<1>3. CASE StartFleet
  <2>1. /\ watched' = watched /\ stage["listener"] = "running"
        /\ worker' = [t \in Targets |-> IF t \in watched THEN "between" ELSE worker[t]]
    BY <1>3 DEF StartFleet
  <2>2. source # "configuring"
    BY <2>1 DEF Lifecycle, StageSet
  <2>3. /\ RunTyped' /\ \A t \in watched : worker'[t] # "unborn"
        /\ \A t \in Targets : worker'[t] = "ok" => worker[t] = "ok"
    BY <1>1, <2>1
  <2>4. Lifecycle'
    BY <1>1, <2>1, <2>2, <2>3 DEF Lifecycle
  <2> QED
    BY <1>1, <2>3, <2>4 DEF NothingEndsByItself, NoStageFailed, LossIsExplained
<1> QED
  BY <1>2, <1>3

\* A stage ends: as failed, or well with the token cancelled, the consumer gone
\* or another stage failed.
LEMMA StageEndKeepsRun ==
    ASSUME RunInv, NEW s \in StageSet, NEW r \in {"ok", "err"}, stage[s] = "running",
           stage' = [stage EXCEPT ![s] = r],
           UNCHANGED <<watched, worker, failures, consumer, endVars>>,
           r = "ok" => shutdown \/ ~consumer \/ ~NoStageFailed
    PROVE  RunInv'
<1> USE DEF RunInv, RunTyped
<1>1. /\ watched' = watched /\ worker' = worker /\ failures' = failures
      /\ consumer' = consumer /\ asked' = asked /\ shutdown' = shutdown
      /\ source' = source /\ outcome' = outcome
  BY DEF endVars
<1>2. /\ stage'[s] = r /\ \A u \in StageSet : u # s => stage'[u] = stage[u]
      /\ stage' \in [StageSet -> {"idle", "running", "ok", "err"}]
  OBVIOUS
<1>3. RunTyped'
  BY <1>1, <1>2
<1>4. source # "configuring" /\ source \notin {"ok", "err"}
  BY DEF Lifecycle
<1>5. Lifecycle'
  BY <1>1, <1>2, <1>4 DEF Lifecycle, FleetUnborn
<1>6. (NoStageFailed' => NoStageFailed /\ r = "ok") /\ (~NoStageFailed => ~NoStageFailed')
  BY <1>2 DEF NoStageFailed
<1>7. NothingEndsByItself'
  BY <1>1, <1>6 DEF NothingEndsByItself
<1>8. LossIsExplained'
  BY <1>1, <1>6 DEF LossIsExplained
<1> QED
  BY <1>3, <1>5, <1>7, <1>8

\* RpcListener::run, the dispatcher and the fetch worker return, or panic.
LEMMA StagesKeepRun ==
    ASSUME RunInv, \/ ListenerRefuses \/ ListenerReturns \/ DispatcherReturns \/ FetchReturns
                   \/ \E s \in ToSet(Stages) : StagePanics(s)
    PROVE  RunInv'
<1> USE DEF RunInv, RunTyped
<1>1. \A s \in StageSet : stage[s] = "running" => \A u \in StageSet : stage[u] # "idle"
  BY DEF Lifecycle
<1>2. ASSUME consumer, ~asked, NoStageFailed, NEW s \in StageSet, stage[s] = "running"
      PROVE  ~shutdown /\ \A u \in StageSet : stage[u] = "running"
  BY <1>1, <1>2 DEF NothingEndsByItself, NoStageFailed
<1>3. asked => shutdown
  BY DEF Lifecycle
<1>4. "listener" \in StageSet /\ "dispatcher" \in StageSet /\ "fetch" \in StageSet
  BY DEF StageSet
<1>5. CASE ListenerRefuses
  BY <1>4, <1>5, StageEndKeepsRun DEF ListenerRefuses, StageTo, pipeVars
<1>6. CASE ListenerReturns
  <2> DEFINE r == IF shutdown THEN "ok" ELSE FleetOutcome
  <2>1. /\ stage["listener"] = "running" /\ ~FleetUnborn
        /\ \A t \in watched : WorkerEnded(t)
        /\ stage' = [stage EXCEPT !["listener"] = r]
        /\ UNCHANGED <<watched, worker, failures, consumer, endVars>>
    BY <1>6 DEF ListenerReturns, StageTo, pipeVars
  <2>2. r \in {"ok", "err"}
    BY DEF FleetOutcome
  <2>3. ASSUME ~shutdown, consumer, NoStageFailed PROVE FleetOutcome = "err"
    <3>1. \A t \in Targets : worker[t] # "ok"
      BY <1>3, <2>3 DEF NothingEndsByItself
    <3>2. \A t \in watched : worker[t] = "gave_up"
      BY <2>1, <3>1 DEF WorkerEnded, Lifecycle
    <3>3. GaveUp = watched /\ watched # {}
      BY <2>1, <3>2 DEF GaveUp, FleetUnborn
    <3> QED
      BY <3>3 DEF FleetOutcome
  <2>4. r = "ok" => shutdown \/ ~consumer \/ ~NoStageFailed
    BY <2>3
  <2> HIDE DEF r
  <2> QED
    BY <1>4, <2>1, <2>2, <2>4, StageEndKeepsRun
<1>7. CASE DispatcherReturns
  <2>1. /\ stage["dispatcher"] = "running"
        /\ shutdown \/ stage["listener"] # "running"
        /\ stage' = [stage EXCEPT !["dispatcher"] = "ok"]
        /\ UNCHANGED <<watched, worker, failures, consumer, endVars>>
    BY <1>7 DEF DispatcherReturns, StageTo, RawClosed
  <2>2. shutdown \/ ~consumer \/ ~NoStageFailed
    BY <1>2, <1>3, <1>4, <2>1
  <2> QED
    BY <1>4, <2>1, <2>2, StageEndKeepsRun
<1>8. CASE FetchReturns
  <2>1. /\ stage["fetch"] = "running"
        /\ shutdown \/ ~consumer \/ stage["dispatcher"] # "running"
        /\ stage' = [stage EXCEPT !["fetch"] = "ok"]
        /\ UNCHANGED <<watched, worker, failures, consumer, endVars>>
    BY <1>8 DEF FetchReturns, StageTo, BesidesFetch
  <2>2. shutdown \/ ~consumer \/ ~NoStageFailed
    BY <1>2, <1>3, <1>4, <2>1
  <2> QED
    BY <1>4, <2>1, <2>2, StageEndKeepsRun
<1>9. ASSUME NEW s \in StageSet, StagePanics(s) PROVE RunInv'
  <2>1. /\ stage[s] = "running" /\ stage' = [stage EXCEPT ![s] = "err"]
        /\ UNCHANGED <<watched, worker, failures, consumer, endVars>>
    BY <1>9 DEF StagePanics, StageTo
  <2> QED
    BY <2>1, StageEndKeepsRun
<1> QED
  BY <1>5, <1>6, <1>7, <1>8, <1>9, StagesListed

\* The dispatcher loses a signature only into a closed queue.
LEMMA DispatchKeepsRun ==
    ASSUME RunInv, DispatcherHandles
    PROVE  RunInv'
<1> USE DEF RunInv, RunTyped
<1>1. /\ watched' = watched /\ worker' = worker /\ failures' = failures
      /\ consumer' = consumer /\ stage' = stage /\ asked' = asked
      /\ shutdown' = shutdown /\ source' = source /\ outcome' = outcome
  BY DEF DispatcherHandles, endVars
<1>2. /\ stage["dispatcher"] = "running"
      /\ lost' = lost \/ stage["fetch"] # "running"
  BY DEF DispatcherHandles, Emit
<1>3. stage["fetch"] # "running" => shutdown \/ ~consumer \/ ~NoStageFailed
  BY <1>2 DEF NothingEndsByItself, NoStageFailed, Lifecycle, StageSet
<1>4. RunTyped' /\ Lifecycle'
  BY <1>1 DEF Lifecycle, FleetUnborn
<1>5. NothingEndsByItself'
  BY <1>1 DEF NothingEndsByItself, NoStageFailed
<1>6. LossIsExplained'
  BY <1>1, <1>2, <1>3 DEF LossIsExplained, NoStageFailed
<1> QED
  BY <1>4, <1>5, <1>6

\* The biased select! picks a stage that has ended.
LEMMA SelectPicksEnded ==
    ASSUME Ended # {}
    PROVE  Min(Ended) \in Ended /\ Stages[Min(Ended)] \in StageSet
           /\ stage[Stages[Min(Ended)]] \in {"ok", "err"}
<1>1. Ended \subseteq {1, 2, 3}
  BY StagesListed DEF Ended
<1>2. \E x \in Ended : \A y \in Ended : x <= y
  <2>1. CASE 1 \in Ended
    BY <1>1, <2>1
  <2>2. CASE 1 \notin Ended /\ 2 \in Ended
    BY <1>1, <2>2
  <2>3. CASE 1 \notin Ended /\ 2 \notin Ended
    <3>1. Ended = {3}
      BY <1>1, <2>3
    <3> QED
      BY <3>1
  <2> QED
    BY <2>1, <2>2, <2>3
<1>3. Min(Ended) \in Ended
  BY <1>2 DEF Min
<1> QED
  BY <1>3, StagesListed DEF Ended

\* run itself: it starts the stages, takes the first that ended, joins the others
\* and returns; the consumer leaves; a stop is asked for.
LEMMA SourceKeepsRun ==
    ASSUME RunInv, Run \/ SourceSelects \/ DrainStages \/ ConsumerLeaves \/ AskStop
    PROVE  RunInv'
<1> USE DEF RunInv, RunTyped
<1>1. /\ watched' = watched /\ worker' = worker /\ failures' = failures /\ lost' = lost
  BY DEF Run, SourceSelects, DrainStages, ConsumerLeaves, AskStop, BesidesRun, tallyVars
<1>2. CASE Run
  <2>1. /\ source = "configuring" /\ source' = "running"
        /\ stage' = [s \in StageSet |-> "running"] /\ consumer' = consumer
        /\ asked' = asked /\ shutdown' = shutdown /\ outcome' = outcome
    BY <1>2, StagesListed DEF Run, BesidesRun, pipeVars
  <2>2. RunTyped'
    BY <1>1, <2>1
  <2>3. Lifecycle'
    BY <1>1, <2>1 DEF Lifecycle, FleetUnborn
  <2>4. NoStageFailed
    BY <2>1 DEF NoStageFailed, Lifecycle
  <2>5. NothingEndsByItself'
    BY <1>1, <2>1, <2>4 DEF NothingEndsByItself
  <2>6. LossIsExplained'
    BY <1>1, <2>1, <2>4 DEF LossIsExplained
  <2> QED
    BY <2>2, <2>3, <2>5, <2>6
<1>3. CASE SourceSelects
  <2>1. /\ source = "running" /\ source' = "draining" /\ Ended # {} /\ shutdown' = TRUE
        /\ outcome' = stage[Stages[Min(Ended)]] /\ stage' = stage
        /\ consumer' = consumer /\ asked' = asked
    BY <1>3 DEF SourceSelects, BesidesRun, pipeVars
  <2>2. outcome' \in {"ok", "err"} /\ \E s \in StageSet : stage[s] \in {"ok", "err"}
    BY <2>1, SelectPicksEnded
  <2>3. RunTyped'
    <3>1. shutdown' \in BOOLEAN
      BY <2>1, Zenon
    <3> QED
      BY <1>1, <2>1, <2>2, <3>1
  <2>4. Lifecycle'
    BY <1>1, <2>1 DEF Lifecycle, FleetUnborn
  <2>5. ~(consumer /\ ~asked /\ NoStageFailed)
    BY <2>2 DEF NothingEndsByItself, NoStageFailed
  <2>6. NothingEndsByItself' /\ LossIsExplained'
    BY <2>1, <2>5 DEF NothingEndsByItself, LossIsExplained, NoStageFailed
  <2> QED
    BY <2>3, <2>4, <2>6
<1>4. CASE DrainStages
  <2>1. /\ source = "draining" /\ Ended = DOMAIN Stages /\ stage' = stage
        /\ source' = IF \E i \in DOMAIN Stages : stage[Stages[i]] = "err"
                     THEN "err" ELSE outcome
        /\ consumer' = consumer /\ asked' = asked /\ shutdown' = shutdown
        /\ outcome' = outcome
    BY <1>4 DEF DrainStages, BesidesRun, pipeVars
  <2>2. \A s \in StageSet : stage[s] \in {"ok", "err"}
    BY <2>1, StagesListed DEF Ended
  <2>3. source' \in {"ok", "err"} /\ (source' = "ok" => \A s \in StageSet : stage[s] = "ok")
    BY <2>1, <2>2, StagesListed
  <2>4. RunTyped'
    BY <1>1, <2>1, <2>3
  <2>5. Lifecycle'
    BY <1>1, <2>1, <2>2, <2>3 DEF Lifecycle, FleetUnborn
  <2>6. NothingEndsByItself' /\ LossIsExplained'
    BY <1>1, <2>1 DEF NothingEndsByItself, LossIsExplained, NoStageFailed
  <2> QED
    BY <2>4, <2>5, <2>6
<1>5. CASE ConsumerLeaves
  <2>1. /\ consumer' = FALSE /\ stage' = stage /\ asked' = asked /\ shutdown' = shutdown
        /\ source' = source /\ outcome' = outcome
    BY <1>5 DEF ConsumerLeaves, endVars
  <2>2. consumer' \in BOOLEAN
    BY <2>1, Zenon
  <2>3. RunTyped'
    BY <1>1, <2>1, <2>2
  <2>4. Lifecycle'
    BY <1>1, <2>1 DEF Lifecycle, FleetUnborn
  <2> QED
    BY <2>1, <2>3, <2>4 DEF NothingEndsByItself, LossIsExplained
<1>6. CASE AskStop
  <2>1. /\ asked' = TRUE /\ shutdown' = TRUE /\ stage' = stage /\ consumer' = consumer
        /\ source' = source /\ outcome' = outcome
    BY <1>6 DEF AskStop, BesidesRun, pipeVars
  <2>2. asked' \in BOOLEAN /\ shutdown' \in BOOLEAN
    BY <2>1, Zenon
  <2>3. RunTyped'
    BY <1>1, <2>1, <2>2
  <2>4. Lifecycle'
    BY <1>1, <2>1 DEF Lifecycle, FleetUnborn
  <2> QED
    BY <2>1, <2>3, <2>4 DEF NothingEndsByItself, LossIsExplained
<1> QED
  BY <1>2, <1>3, <1>4, <1>5, <1>6

\* The run's part of the invariant survives every step.
LEMMA RunStep ==
    ASSUME RunInv, [Next]_vars
    PROVE  RunInv'
<1>1. CASE FetchTakes \/ SpawnFetch \/ DropInHand
  <2>1. UNCHANGED runVars
    BY <1>1 DEF FetchTakes, SpawnFetch, DropInHand, BesidesFetch, runVars, tallyVars
  <2> QED
    BY <2>1, CalmKeepsRun
<1>2. CASE FetchEnds
  <2>1. ASSUME NEW note, FetchRetried(note) \/ FetchFails(note) \/ FetchAnswers(note)
        PROVE  UNCHANGED runVars
    BY <2>1 DEF FetchRetried, FetchFails, FetchAnswers, BesidesFetch, runVars, tallyVars
  <2>2. ASSUME NEW note,
               HandoverSeesStop(note) \/ HandoverStarts(note) \/ HandoverSends(note)
        PROVE  UNCHANGED runVars
    BY <2>2 DEF HandoverSeesStop, HandoverStarts, HandoverSends, BesidesFetch, runVars,
                tallyVars
  <2>3. UNCHANGED runVars
    BY <1>2, <2>1, <2>2 DEF FetchEnds
  <2> QED
    BY <2>3, CalmKeepsRun
<1>3. CASE Consume \/ UNCHANGED vars
  <2>1. UNCHANGED runVars
    BY <1>3 DEF Consume, runVars, vars, pipeVars, tallyVars
  <2> QED
    BY <2>1, CalmKeepsRun
<1> QED
  BY <1>1, <1>2, <1>3, WorkersKeepRun, FleetKeepsRun, StagesKeepRun, DispatchKeepsRun,
     SourceKeepsRun DEF Next, ListenerStep, FetchStep, SourceStep

-----------------------------------------------------------------------------
(***************************************************************************)
(* The theorems.                                                           *)
(***************************************************************************)

\* Nothing is watched, notified or under way.
LEMMA InitRpc == Init => IInv
<1> SUFFICES ASSUME Init PROVE IInv
  OBVIOUS
<1> USE DEF Init
<1>1. DOMAIN fetching = {} /\ InFlight = {}
  BY DEF InFlight
<1>2. IsFiniteSet(InFlight) /\ Cardinality(InFlight) = 0
  BY <1>1, FS_EmptySet
<1>3. PipeTyped
  BY <1>1, <1>2, RpcAssumption DEF PipeTyped
<1>4. Apart
  BY <1>1, IdsOfEmpty DEF Apart, ToldApart
<1>5. OnePlace
  <2> SUFFICES ASSUME NEW id \in 1..MaxNotes PROVE Places(id) = 0
    BY DEF OnePlace
  <2>1. /\ id \notin Ids(ToSet(raw)) /\ id \notin Ids(ToSet(signatures))
        /\ id \notin Ids({hand} \ {NoNote}) /\ id \notin Ids(DOMAIN fetching)
        /\ id \notin Ids(fetched) /\ id \notin Ids(sending)
    BY <1>1, IdsOfEmpty, IdsOfHand
  <2>2. id \notin delivered /\ id \notin counted /\ id \notin warned /\ id \notin lost
    OBVIOUS
  <2> HIDE DEF Init
  <2> QED
    BY <2>1, <2>2 DEF Places
<1>6. RunTyped
  <2>1. consumer \in BOOLEAN /\ asked \in BOOLEAN /\ shutdown \in BOOLEAN
    BY Zenon
  <2> QED
    BY <2>1, StagesListed, RpcAssumption DEF RunTyped
<1>7. Lifecycle /\ NothingEndsByItself /\ LossIsExplained
  BY StagesListed DEF Lifecycle, FleetUnborn, NothingEndsByItself, NoStageFailed,
     LossIsExplained
<1> QED
  BY <1>3, <1>4, <1>5, <1>6, <1>7 DEF IInv, PipeInv, RunInv

\* The invariant of every run of the source.
LEMMA RpcInvariant == Spec => []IInv
<1>1. IInv /\ [Next]_vars => IInv'
  BY PipeStep, RunStep DEF IInv
<1> QED
  BY <1>1, InitRpc, PTL DEF Spec

\* The stages' locals keep their types, the two channels and the consumer's their
\* capacities, and the fetches their permits, however handovers wait.
THEOREM RpcTyped == Spec => []TypeOK
<1>1. IInv => TypeOK
  BY StagesListed DEF IInv, PipeInv, PipeTyped, RunInv, RunTyped, TypeOK
<1> QED
  BY <1>1, RpcInvariant, PTL

\* A notification is in one place or has one account of its end, and goes without
\* one only when the pipeline is coming down, for every capacity and fleet.
THEOREM RpcLosesNothingSilently == Spec => []NoSilentLoss
<1>1. IInv => NoSilentLoss
  <2> SUFFICES ASSUME IInv PROVE NoSilentLoss
    OBVIOUS
  <2>1. ASSUME lost # {}, ~shutdown, consumer
        PROVE  \E i \in Ended : stage[Stages[i]] = "err"
    <3>1. PICK s \in StageSet : stage[s] = "err"
      BY <2>1 DEF IInv, RunInv, LossIsExplained, NoStageFailed
    <3>2. PICK i \in DOMAIN Stages : Stages[i] = s
      BY StagesListed
    <3> QED
      BY <3>1, <3>2 DEF Ended
  <2> QED
    BY <2>1 DEF IInv, PipeInv, OnePlace, NoSilentLoss
<1> QED
  BY <1>1, RpcInvariant, PTL

\* A source that returns Ok had no stage that failed, whichever ended first and
\* whatever failed while the others were joined.
THEOREM RpcSwallowsNoFailure == Spec => []NoFailureSwallowed
<1>1. IInv => NoFailureSwallowed
  BY StagesListed DEF IInv, RunInv, Lifecycle, NoFailureSwallowed
<1> QED
  BY <1>1, RpcInvariant, PTL

-----------------------------------------------------------------------------
(***************************************************************************)
(* The refinement: every step is a step of the port or leaves it as it is. *)
(***************************************************************************)

\* What the port sees of the source.
Result == IF source \in {"ok", "err"} THEN source ELSE "running"

\* What leaves the fetches, the channel, the consumer and run alone is a stutter.
LEMMA PortStutters ==
    ASSUME DOMAIN fetching' = DOMAIN fetching,
           (fetched \cup sending)' = fetched \cup sending,
           channel' = channel, consumer' = consumer, asked' = asked, shutdown' = shutdown,
           Result' = Result
    PROVE  UNCHANGED Port!vars
  BY DEF Port!vars, Result

\* A spawned fetch is taken on: nobody has stopped, and it is in no other place.
LEMMA SpawnTakesOn ==
    ASSUME IInv, SpawnFetch
    PROVE  Port!Next
<1>1. /\ stage["fetch"] = "running" /\ hand # NoNote /\ ~shutdown
      /\ DOMAIN fetching' = DOMAIN fetching \cup {hand}
      /\ fetched' = fetched /\ sending' = sending /\ channel' = channel
      /\ consumer' = consumer /\ asked' = asked /\ shutdown' = shutdown /\ source' = source
  BY DEF SpawnFetch, BesidesFetch, endVars
<1>2. hand \in Note /\ hand.id \in 1..MaxNotes
  BY <1>1 DEF IInv, PipeInv, PipeTyped, Note
<1>3. Ids({hand} \ {NoNote}) = {hand.id}
  BY <1>2, IdsOfHand
<1>4. Places(hand.id) \in {0, 1}
  BY <1>2 DEF IInv, PipeInv, OnePlace
<1>5. /\ hand.id \notin Ids(DOMAIN fetching)
      /\ hand.id \notin Ids(fetched) /\ hand.id \notin Ids(sending)
  BY <1>3, <1>4 DEF Places
<1>6. hand \notin DOMAIN fetching \cup (fetched \cup sending)
  BY <1>5 DEF Ids
<1>7. source \notin {"ok", "err"}
  BY <1>1 DEF IInv, RunInv, Lifecycle, StageSet
<1>8. Port!TakeOn(hand)
  BY <1>1, <1>6, <1>7 DEF Port!TakeOn
<1> QED
  BY <1>2, <1>8 DEF Port!Next

\* A fetch that ends is obtained or skipped; a handover is made, or dropped for
\* the stop or the departed consumer, and never because the consumer is full.
LEMMA FetchesFollowPort ==
    ASSUME IInv, FetchEnds
    PROVE  Port!Next \/ UNCHANGED Port!vars
<1>1. ASSUME NEW note \in DOMAIN fetching,
             FetchRetried(note) \/ FetchFails(note) \/ FetchAnswers(note)
      PROVE  Port!Next \/ UNCHANGED Port!vars
  <2>1. /\ note \in Note /\ sending' = sending /\ channel' = channel
        /\ consumer' = consumer /\ asked' = asked /\ shutdown' = shutdown /\ source' = source
    BY <1>1 DEF FetchRetried, FetchFails, FetchAnswers, BesidesFetch, endVars, IInv, PipeInv,
                PipeTyped
  <2>2. CASE FetchRetried(note)
    <3>1. DOMAIN fetching' = DOMAIN fetching /\ fetched' = fetched
      BY <2>2 DEF FetchRetried
    <3> QED
      BY <2>1, <3>1, PortStutters DEF Result
  <2>3. CASE FetchFails(note)
    <3>1. DOMAIN fetching' = DOMAIN fetching \ {note} /\ fetched' = fetched
      BY <2>3 DEF FetchFails, WithoutFetch
    <3>2. Port!Skip(note)
      BY <1>1, <2>1, <3>1 DEF Port!Skip
    <3> QED
      BY <2>1, <3>2 DEF Port!Next
  <2>4. CASE FetchAnswers(note)
    <3>1. DOMAIN fetching' = DOMAIN fetching \ {note} /\ fetched' = fetched \cup {note}
      BY <2>4 DEF FetchAnswers, WithoutFetch
    <3>2. (fetched \cup sending)' = (fetched \cup sending) \cup {note}
      BY <2>1, <3>1
    <3>3. Port!Obtain(note)
      BY <1>1, <2>1, <3>1, <3>2 DEF Port!Obtain
    <3> QED
      BY <2>1, <3>3 DEF Port!Next
  <2> QED
    BY <1>1, <2>2, <2>3, <2>4
<1>2. ASSUME NEW note \in InFlight,
             HandoverSeesStop(note) \/ HandoverStarts(note) \/ HandoverSends(note)
      PROVE  Port!Next \/ UNCHANGED Port!vars
  <2>1. /\ fetching' = fetching /\ consumer' = consumer /\ asked' = asked
        /\ shutdown' = shutdown /\ source' = source
    BY <1>2 DEF HandoverSeesStop, HandoverStarts, HandoverSends, BesidesFetch, endVars
  <2>2. note \in Note /\ note.id \in 1..MaxNotes
    BY DEF IInv, PipeInv, PipeTyped, InFlight, Note
  <2>3. CASE HandoverStarts(note)
    <3>1. /\ note \in fetched /\ fetched' = fetched \ {note}
          /\ sending' = sending \cup {note} /\ channel' = channel
      BY <2>3 DEF HandoverStarts
    <3>2. (fetched \cup sending)' = fetched \cup sending
      BY <3>1
    <3> QED
      BY <2>1, <3>1, <3>2, PortStutters DEF Result
  <2>4. CASE HandoverSeesStop(note)
    <3>1. /\ note \in fetched \cup sending /\ shutdown /\ channel' = channel
          /\ (fetched \cup sending)' = (fetched \cup sending) \ {note}
      BY <2>4 DEF HandoverSeesStop
    <3>2. Port!Drop(note)
      BY <2>1, <3>1 DEF Port!Drop
    <3> QED
      BY <2>2, <3>2 DEF Port!Next
  <2>5. CASE HandoverSends(note)
    <3>1. note \in sending /\ fetched' = fetched /\ sending' = sending \ {note}
      BY <2>5 DEF HandoverSends
    <3>2. note \notin fetched
      <4>1. Places(note.id) \in {0, 1}
        BY <2>2 DEF IInv, PipeInv, OnePlace
      <4>2. note.id \in Ids(sending)
        BY <3>1 DEF Ids
      <4>3. note.id \notin Ids(fetched)
        BY <4>1, <4>2 DEF Places
      <4> QED
        BY <4>3 DEF Ids
    <3>3. (fetched \cup sending)' = (fetched \cup sending) \ {note}
      BY <3>1, <3>2
    <3>4. CASE consumer /\ Len(channel) < Room /\ channel' = Append(channel, note)
      <4>1. Port!HandOver(note)
        BY <2>1, <3>1, <3>3, <3>4 DEF Port!HandOver
      <4> QED
        BY <2>2, <4>1 DEF Port!Next
    <3>5. CASE ~consumer /\ channel' = channel
      <4>1. Port!Drop(note)
        BY <2>1, <3>1, <3>3, <3>5 DEF Port!Drop
      <4> QED
        BY <2>2, <4>1 DEF Port!Next
    <3> QED
      BY <2>5, <3>4, <3>5 DEF HandoverSends
  <2> QED
    BY <1>2, <2>3, <2>4, <2>5
<1> QED
  BY <1>1, <1>2 DEF FetchEnds

\* run cancels the token by itself at most once, and returns Ok only for a stop
\* that was asked for or a departed consumer.
LEMMA SourceFollowsPort ==
    ASSUME IInv, SourceSelects \/ DrainStages
    PROVE  Port!Next \/ UNCHANGED Port!vars
<1>1. /\ fetching' = fetching /\ fetched' = fetched /\ sending' = sending
      /\ channel' = channel /\ consumer' = consumer /\ asked' = asked /\ stage' = stage
  BY DEF SourceSelects, DrainStages, BesidesRun, pipeVars, fetchVars
<1>2. CASE SourceSelects
  <2>1. shutdown' = TRUE /\ source = "running" /\ source' = "draining"
    BY <1>2 DEF SourceSelects
  <2>2. CASE ~shutdown
    <3>1. Port!StopItself
      BY <1>1, <2>1, <2>2 DEF Port!StopItself
    <3> QED
      BY <3>1 DEF Port!Next
  <2>3. CASE shutdown
    <3>1. shutdown' = shutdown
      BY <2>1, <2>3, Zenon DEF IInv, RunInv, RunTyped
    <3> QED
      BY <1>1, <2>1, <3>1, PortStutters DEF Result
  <2> QED
    BY <2>2, <2>3
<1>3. CASE DrainStages
  <2>1. /\ source = "draining" /\ shutdown' = shutdown /\ shutdown
    BY <1>3 DEF DrainStages, IInv, RunInv, Lifecycle
  <2>2. RunInv'
    BY <1>3, SourceKeepsRun DEF IInv
  <2>3. source' \in {"ok", "err"}
    BY <1>3 DEF DrainStages, IInv, RunInv, RunTyped
  <2>4. source' = "ok" => asked \/ ~consumer
    <3>1. source' = "ok" => \A s \in StageSet : stage[s] = "ok"
      BY <1>1, <2>2 DEF RunInv, Lifecycle
    <3>2. "fetch" \in StageSet
      BY DEF StageSet
    <3> QED
      BY <3>1, <3>2 DEF IInv, RunInv, NothingEndsByItself, NoStageFailed
  <2>5. \E r \in {"ok", "err"} : source' = r
    BY <2>3
  <2>6. PICK r \in {"ok", "err"} : source' = r
    BY <2>5
  <2>7. Port!Return(r)
    BY <1>1, <2>1, <2>4, <2>6 DEF Port!Return
  <2> QED
    BY <2>6, <2>7 DEF Port!Next
<1> QED
  BY <1>2, <1>3

\* The consumer and the stop are the port's own.
LEMMA OutsideFollowsPort ==
    ASSUME Consume \/ ConsumerLeaves \/ AskStop
    PROVE  Port!Next
<1>1. CASE Consume
  <2>1. Port!Consume
    BY <1>1 DEF Consume, Port!Consume, fetchVars, endVars
  <2> QED
    BY <2>1 DEF Port!Next
<1>2. CASE ConsumerLeaves
  <2>1. Port!ConsumerLeaves
    BY <1>2 DEF ConsumerLeaves, Port!ConsumerLeaves, fetchVars, endVars
  <2> QED
    BY <2>1 DEF Port!Next
<1>3. CASE AskStop
  <2>1. Port!AskStop
    BY <1>3 DEF AskStop, Port!AskStop, BesidesRun, pipeVars, fetchVars
  <2> QED
    BY <2>1 DEF Port!Next
<1> QED
  BY <1>1, <1>2, <1>3

\* Everything else is out of the port's sight.
LEMMA RestStutters ==
    ASSUME \/ \E t \in Targets : \/ Watch(t) \/ WorkerStep(t) \/ WorkerForwards(t)
                                 \/ StreamCloses(t) \/ WorkerPanics(t)
           \/ ListenerStep \/ DispatcherHandles \/ DispatcherReturns
           \/ FetchTakes \/ FetchReturns \/ DropInHand \/ Run
           \/ \E s \in ToSet(Stages) : StagePanics(s)
           \/ UNCHANGED vars
    PROVE  UNCHANGED Port!vars
<1> DEFINE Unseen == /\ fetching' = fetching /\ fetched' = fetched /\ sending' = sending
                     /\ channel' = channel /\ consumer' = consumer /\ asked' = asked
                     /\ shutdown' = shutdown
                     /\ \/ source' = source
                        \/ source = "configuring" /\ source' = "running"
<1>0. SUFFICES Unseen
  BY PortStutters DEF Result
<1>1. ASSUME NEW t \in Targets,
             Watch(t) \/ WorkerStep(t) \/ WorkerForwards(t) \/ StreamCloses(t) \/ WorkerPanics(t)
      PROVE  Unseen
  BY <1>1 DEF Watch, WorkerStep, WorkerStops, WorkerTries, WorkerConnects, WorkerFails,
     WorkerUnsubscribes, WorkerForwards, StreamCloses, WorkerPanics, BesidesWorkers,
     pipeVars, fetchVars, endVars
<1>2. CASE ListenerStep \/ DispatcherHandles \/ DispatcherReturns
  BY <1>2 DEF ListenerStep, StartFleet, ListenerRefuses, ListenerReturns, DispatcherHandles,
     DispatcherReturns, pipeVars, fetchVars, endVars
<1>3. CASE FetchTakes \/ FetchReturns \/ DropInHand
  BY <1>3 DEF FetchTakes, FetchReturns, DropInHand, BesidesFetch, fetchVars, endVars
<1>4. CASE Run
  BY <1>4 DEF Run, BesidesRun, pipeVars, fetchVars
<1>5. ASSUME NEW s, StagePanics(s) PROVE Unseen
  BY <1>5 DEF StagePanics, endVars
<1>6. CASE UNCHANGED vars
  BY <1>6 DEF vars, pipeVars, fetchVars, endVars
<1> QED
  BY <1>1, <1>2, <1>3, <1>4, <1>5, <1>6

\* The JSON-RPC source implements the port the pipeline takes its work from: it
\* takes nothing on after the stop, waits on a full consumer rather than drop,
\* and returns Ok only for a stop or a departed consumer.
THEOREM RpcImplementsPort == Spec => ImplementsPort
<1>1. Init => Port!Init
  <2>1. Init => DOMAIN fetching = {} /\ fetched \cup sending = {}
    BY DEF Init
  <2> QED
    BY <2>1 DEF Init, Port!Init
<1>2. IInv /\ [Next]_vars => [Port!Next]_(Port!vars)
  BY SpawnTakesOn, FetchesFollowPort, SourceFollowsPort, OutsideFollowsPort, RestStutters
     DEF Next, FetchStep, SourceStep
<1> QED
  BY <1>1, <1>2, RpcInvariant, PTL DEF Spec, ImplementsPort, Port!Spec
=============================================================================
