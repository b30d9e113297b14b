------------------------ MODULE IndexerDaemonProofs ------------------------
(***************************************************************************)
(* Proofs about IndexerDaemon, for every set of transactions, every channel *)
(* capacity, every number of permits and every grace.                      *)
(***************************************************************************)
EXTENDS IndexerDaemon, TLAPS

StageSet == {"indexer", "source", "reporter", "alarm"}

-----------------------------------------------------------------------------
(***************************************************************************)
(* The channel and the list of stages as sets.                             *)
(***************************************************************************)

\* What a sequence holds, and where it says so.
LEMMA ElementsOfSeq ==
    ASSUME NEW S, NEW s \in Seq(S)
    PROVE  /\ Elements(s) \subseteq S
           /\ \A x : x \in Elements(s) <=> \E i \in 1..Len(s) : s[i] = x
  BY DEF Elements

\* An empty channel holds nothing.
LEMMA ElementsOfEmpty == Elements(<<>>) = {}
  BY DEF Elements

\* Sending adds the one transaction.
LEMMA ElementsOfAppend ==
    ASSUME NEW S, NEW s \in Seq(S), NEW x \in S
    PROVE  Elements(Append(s, x)) = Elements(s) \cup {x}
<1>1. Append(s, x) \in Seq(S) /\ Len(Append(s, x)) = Len(s) + 1
  OBVIOUS
<1>2. \A i \in 1..Len(s) : Append(s, x)[i] = s[i]
  OBVIOUS
<1>3. Append(s, x)[Len(s) + 1] = x
  OBVIOUS
<1>4. \A i \in 1..(Len(s) + 1) : i \in 1..Len(s) \/ i = Len(s) + 1
  OBVIOUS
<1>5. ASSUME NEW y
      PROVE  y \in Elements(Append(s, x)) <=> y \in Elements(s) \cup {x}
  <2>1. y \in Elements(Append(s, x)) <=> \E i \in 1..(Len(s) + 1) : Append(s, x)[i] = y
    BY <1>1, ElementsOfSeq
  <2>2. y \in Elements(s) <=> \E i \in 1..Len(s) : s[i] = y
    BY ElementsOfSeq
  <2>3. ASSUME NEW i \in 1..Len(s) PROVE i \in 1..(Len(s) + 1)
    OBVIOUS
  <2>4. Len(s) + 1 \in 1..(Len(s) + 1)
    OBVIOUS
  <2> QED
    BY <1>2, <1>3, <1>4, <2>1, <2>2, <2>3, <2>4
<1> QED
  BY <1>5

\* Taking the head leaves what the tail holds.
LEMMA ElementsOfTail ==
    ASSUME NEW S, NEW s \in Seq(S), s # <<>>
    PROVE  /\ Tail(s) \in Seq(S) /\ Head(s) \in Elements(s)
           /\ Elements(s) = Elements(Tail(s)) \cup {Head(s)}
<1>1. Len(s) \in Nat /\ Len(s) >= 1 /\ Tail(s) \in Seq(S) /\ Len(Tail(s)) = Len(s) - 1
  OBVIOUS
<1>2. Head(s) = s[1] /\ \A i \in 1..(Len(s) - 1) : Tail(s)[i] = s[i + 1]
  OBVIOUS
<1>3. ASSUME NEW y
      PROVE  y \in Elements(s) <=> y \in Elements(Tail(s)) \cup {Head(s)}
  <2>1. y \in Elements(Tail(s)) <=> \E i \in 1..(Len(s) - 1) : Tail(s)[i] = y
    BY <1>1, ElementsOfSeq
  <2>2. y \in Elements(s) <=> \E i \in 1..Len(s) : s[i] = y
    BY ElementsOfSeq
  <2>3. ASSUME NEW i \in 1..(Len(s) - 1), Tail(s)[i] = y PROVE y \in Elements(s)
    <3>1. i + 1 \in 1..Len(s) /\ s[i + 1] = y
      BY <1>1, <1>2, <2>3
    <3> QED
      BY <2>2, <3>1
  <2>4. ASSUME NEW i \in 1..Len(s), s[i] = y, y # Head(s) PROVE y \in Elements(Tail(s))
    <3>1. i - 1 \in 1..(Len(s) - 1) /\ s[(i - 1) + 1] = y
      BY <1>1, <1>2, <2>4
    <3>2. Tail(s)[i - 1] = y
      BY <1>2, <3>1
    <3> QED
      BY <2>1, <3>1, <3>2
  <2>5. Head(s) \in Elements(s)
    BY <1>1, <1>2, ElementsOfSeq
  <2> QED
    BY <2>1, <2>2, <2>3, <2>4, <2>5
<1> QED
  BY <1>1, <1>3

\* A channel that holds each transaction once.
NoDuplicates(s) == \A i, j \in 1..Len(s) : s[i] = s[j] => i = j

\* The head of a channel without duplicates is not in its tail, which has none
\* either.
LEMMA NoDuplicatesTail ==
    ASSUME NEW S, NEW s \in Seq(S), s # <<>>, NoDuplicates(s)
    PROVE  NoDuplicates(Tail(s)) /\ Head(s) \notin Elements(Tail(s))
<1>1. Len(s) \in Nat /\ Len(s) >= 1 /\ Tail(s) \in Seq(S) /\ Len(Tail(s)) = Len(s) - 1
  OBVIOUS
<1>2. Head(s) = s[1] /\ \A i \in 1..(Len(s) - 1) : Tail(s)[i] = s[i + 1]
  OBVIOUS
<1>3. \A i \in 1..(Len(s) - 1) : i + 1 \in 1..Len(s) /\ i + 1 # 1
  BY <1>1
<1>4. 1 \in 1..Len(s)
  BY <1>1
<1>5. NoDuplicates(Tail(s))
  <2> SUFFICES ASSUME NEW i \in 1..(Len(s) - 1), NEW j \in 1..(Len(s) - 1),
                      Tail(s)[i] = Tail(s)[j]
               PROVE  i = j
    BY <1>1 DEF NoDuplicates
  <2>1. i + 1 = j + 1
    BY <1>2, <1>3 DEF NoDuplicates
  <2> QED
    BY <2>1
<1>6. ASSUME NEW i \in 1..(Len(s) - 1), Tail(s)[i] = Head(s) PROVE FALSE
  BY <1>2, <1>3, <1>4, <1>6 DEF NoDuplicates
<1> QED
  BY <1>1, <1>5, <1>6, ElementsOfSeq

\* A transaction that is not in the channel yet may be sent without becoming a
\* duplicate.
LEMMA NoDuplicatesAppend ==
    ASSUME NEW S, NEW s \in Seq(S), NEW x \in S, NoDuplicates(s), x \notin Elements(s)
    PROVE  NoDuplicates(Append(s, x))
<1>1. Append(s, x) \in Seq(S) /\ Len(Append(s, x)) = Len(s) + 1 /\ Len(s) \in Nat
  OBVIOUS
<1>2. \A i \in 1..Len(s) : Append(s, x)[i] = s[i] /\ s[i] # x
  BY ElementsOfSeq
<1>3. Append(s, x)[Len(s) + 1] = x
  OBVIOUS
<1>4. \A i \in 1..(Len(s) + 1) : i \in 1..Len(s) \/ i = Len(s) + 1
  BY <1>1
<1> QED
  BY <1>1, <1>2, <1>3, <1>4 DEF NoDuplicates

\* Stages names each of the four stages.
LEMMA StagesListed == Stages \in Seq(StageSet) /\ Elements(Stages) = StageSet
<1>1. Stages \in Seq(StageSet) /\ Len(Stages) = 4
  BY DEF Stages, StageSet
<1>2. /\ Stages[1] = "indexer" /\ Stages[2] = "source"
      /\ Stages[3] = "reporter" /\ Stages[4] = "alarm"
  BY DEF Stages
<1>3. 1 \in 1..4 /\ 2 \in 1..4 /\ 3 \in 1..4 /\ 4 \in 1..4
  OBVIOUS
<1>4. ASSUME NEW x \in StageSet PROVE x \in Elements(Stages)
  <2>1. \E i \in 1..4 : Stages[i] = x
    BY <1>2, <1>3 DEF StageSet
  <2> QED
    BY <1>1, <2>1, ElementsOfSeq
<1>5. Elements(Stages) \subseteq StageSet
  BY <1>1, ElementsOfSeq
<1> QED
  BY <1>1, <1>4, <1>5

-----------------------------------------------------------------------------
(***************************************************************************)
(* The inductive invariant.                                                *)
(***************************************************************************)

\* Only what the source sent is anywhere, and the channel holds it once.
PlacesHoldSent ==
    /\ Elements(queue) \subseteq sent /\ NoDuplicates(queue)
    /\ hand \in sent \cup {NoTx}
    /\ inFlight \subseteq sent
    /\ persisted \subseteq sent /\ failed \subseteq sent /\ discarded \subseteq sent

\* run has returned: every permit was back, and none is taken again.
DoneIsIdle == worker = "done" => inFlight = {}

\* A stage with a result, which the process's own reflects.
Accounted(stage) ==
    /\ ResultOf(stage) # "running"
    /\ outcome = "ok" => ResultOf(stage) = "ok"

\* Once the stop is open, a stage that settle has been called for is named as
\* still running or accounted for; so is the one the select! took.
StopAccount ==
    /\ phase = "exited" => pending = <<>>
    /\ \A stage \in StageSet : collected = stage => Accounted(stage)
    /\ phase # "serving" =>
          \A stage \in StageSet \ Elements(pending) :
              stage \in stillRunning \/ Accounted(stage)

IInv == TypeOK /\ PlacesHoldSent /\ EachTxOnce /\ DoneIsIdle /\ StopAccount

-----------------------------------------------------------------------------
(***************************************************************************)
(* Every step keeps it, part by part.                                      *)
(***************************************************************************)

\* The steps of the process that move no transaction.
Still == UNCHANGED <<workerVars, sent>>

\* What a step is: one of the moves of a transaction, or none.
LEMMA StepsSplit ==
    ASSUME [Next]_vars
    PROVE  \/ SourceSends
           \/ Up /\ Recv(shutdown) /\ sent' = sent
           \/ Up /\ Dispatch(shutdown) /\ sent' = sent
           \/ Up /\ DropInHand(shutdown) /\ sent' = sent
           \/ Up /\ StopOnShutdown(shutdown) /\ sent' = sent
           \/ Up /\ StopOnClosed(shutdown, task["source"] # "running") /\ sent' = sent
           \/ Up /\ WorkerReturns /\ sent' = sent
           \/ Up /\ (\E tx \in inFlight, ok \in BOOLEAN : IndexOne(tx, ok)) /\ sent' = sent
           \/ Still
<1>1. CASE WorkerStep
  BY <1>1 DEF WorkerStep
<1>2. CASE Index
  BY <1>2 DEF Index
<1>3. CASE Signal
  BY <1>3 DEF Signal, Still
<1>4. CASE \E stage \in Others : TaskEnds(stage)
  BY <1>4 DEF TaskEnds, Still
<1>5. CASE DaemonStep
  BY <1>5 DEF DaemonStep, OpenStop, SkipCollected, SettleEnded, SettleOverrun,
              GracePasses, Exit, Still
<1>6. CASE UNCHANGED vars
  BY <1>6 DEF vars, Still
<1> QED
  BY <1>1, <1>2, <1>3, <1>4, <1>5, <1>6 DEF Next

\* The worker's part of the state keeps its types.
LEMMA WorkerTyped ==
    ASSUME TypeOK, [Next]_vars
    PROVE  /\ queue' \in Seq(Txs) /\ hand' \in Txs \cup {NoTx} /\ inFlight' \subseteq Txs
           /\ worker' \in {"running", "draining", "done"}
           /\ persisted' \subseteq Txs /\ failed' \subseteq Txs /\ discarded' \subseteq Txs
           /\ sent' \subseteq Txs
<1> USE DEF TypeOK
<1>0. Elements(queue) \subseteq Txs
  BY ElementsOfSeq
<1>1. CASE SourceSends
  BY <1>1 DEF SourceSends
<1>2. CASE Recv(shutdown) /\ sent' = sent
  <2>1. Head(queue) \in Txs /\ Tail(queue) \in Seq(Txs)
    BY <1>2 DEF Recv
  <2> QED
    BY <1>2, <2>1 DEF Recv
<1>3. CASE Dispatch(shutdown) /\ sent' = sent
  BY <1>3 DEF Dispatch
<1>4. CASE DropInHand(shutdown) /\ sent' = sent
  BY <1>4 DEF DropInHand
<1>5. CASE StopOnShutdown(shutdown) /\ sent' = sent
  BY <1>0, <1>5 DEF StopOnShutdown
<1>6. CASE StopOnClosed(shutdown, task["source"] # "running") /\ sent' = sent
  BY <1>6 DEF StopOnClosed
<1>7. CASE WorkerReturns /\ sent' = sent
  BY <1>0, <1>7 DEF WorkerReturns
<1>8. ASSUME NEW tx \in inFlight, NEW ok \in BOOLEAN, IndexOne(tx, ok), sent' = sent
      PROVE  /\ queue' = queue /\ hand' = hand /\ inFlight' \subseteq Txs
             /\ worker' = worker /\ persisted' \subseteq Txs
             /\ failed' \subseteq Txs /\ discarded' = discarded
  <2>1. CASE ok
    BY <1>8, <2>1 DEF IndexOne
  <2>2. CASE ~ok
    BY <1>8, <2>2 DEF IndexOne
  <2> QED
    BY <2>1, <2>2
<1>9. CASE (\E tx \in inFlight, ok \in BOOLEAN : IndexOne(tx, ok)) /\ sent' = sent
  BY <1>8, <1>9
<1>10. CASE Still
  BY <1>10 DEF Still, workerVars
<1> QED
  BY <1>1, <1>2, <1>3, <1>4, <1>5, <1>6, <1>7, <1>9, <1>10, StepsSplit

\* So does Stop's, and the tasks'.
LEMMA StopTyped ==
    ASSUME TypeOK, [Next]_vars
    PROVE  /\ task' \in [Others -> {"running", "ok", "err"}]
           /\ shutdown' \in BOOLEAN
           /\ phase' \in {"serving", "stopping", "exited"}
           /\ grace' \in 0..Grace
           /\ pending' \in Seq(StageSet)
           /\ collected' \in StageSet \cup {NoStage}
           /\ outcome' \in {"ok", "err"}
           /\ stillRunning' \subseteq StageSet
<1> DEFINE Goal == /\ task' \in [Others -> {"running", "ok", "err"}]
                   /\ shutdown' \in BOOLEAN
                   /\ phase' \in {"serving", "stopping", "exited"}
                   /\ grace' \in 0..Grace
                   /\ pending' \in Seq(StageSet)
                   /\ collected' \in StageSet \cup {NoStage}
                   /\ outcome' \in {"ok", "err"}
                   /\ stillRunning' \subseteq StageSet
<1>0. /\ task \in [Others -> {"running", "ok", "err"}]
      /\ shutdown \in BOOLEAN
      /\ phase \in {"serving", "stopping", "exited"}
      /\ grace \in 0..Grace
      /\ pending \in Seq(StageSet)
      /\ collected \in StageSet \cup {NoStage}
      /\ outcome \in {"ok", "err"}
      /\ stillRunning \subseteq StageSet
  BY DEF TypeOK, StageSet
<1>1. \A stage \in StageSet : ResultOf(stage) \in {"running", "ok", "err"}
  BY <1>0 DEF ResultOf, StageSet, Others
<1>2. CASE SourceSends \/ WorkerStep \/ Index
  BY <1>0, <1>2 DEF SourceSends, WorkerStep, Index, daemonVars
<1>3. ASSUME NEW stage \in Others, TaskEnds(stage) PROVE Goal
  <2>1. task' \in [Others -> {"running", "ok", "err"}]
    BY <1>0, <1>3 DEF TaskEnds
  <2>2. shutdown' \in BOOLEAN
    BY <1>0, <1>3, Zenon DEF TaskEnds
  <2> QED
    BY <1>0, <1>3, <2>1, <2>2 DEF TaskEnds, daemonVars
<1>4. CASE Signal
  BY <1>0, <1>4 DEF Signal, daemonVars
<1>5. CASE OpenStop
  <2>1. \A i \in DOMAIN Stages : Stages[i] \in StageSet
    BY StagesListed
  <2>2. /\ collected' \in StageSet \cup {NoStage}
        /\ outcome' \in {"ok", "err"}
    BY <1>1, <1>5, <2>1 DEF OpenStop
  <2>3. shutdown' \in BOOLEAN /\ pending' \in Seq(StageSet)
    BY <1>5, StagesListed DEF OpenStop
  <2> QED
    BY <1>0, <1>5, <2>2, <2>3 DEF OpenStop
<1>6. CASE SkipCollected
  BY <1>0, <1>6 DEF SkipCollected
<1>7. CASE SettleEnded
  <2>1. Head(pending) \in StageSet /\ Tail(pending) \in Seq(StageSet)
    BY <1>0, <1>7 DEF SettleEnded
  <2>2. outcome' \in {"ok", "err"}
    BY <1>0, <1>1, <1>7, <2>1 DEF SettleEnded
  <2> QED
    BY <1>0, <1>7, <2>1, <2>2 DEF SettleEnded
<1>8. CASE SettleOverrun
  <2>1. Head(pending) \in StageSet /\ Tail(pending) \in Seq(StageSet)
    BY <1>0, <1>8 DEF SettleOverrun
  <2> QED
    BY <1>0, <1>8, <2>1 DEF SettleOverrun
<1>9. CASE GracePasses
  BY <1>0, <1>9, GraceAssumption DEF GracePasses
<1>10. CASE Exit
  BY <1>0, <1>10 DEF Exit
<1>11. CASE UNCHANGED vars
  BY <1>0, <1>11 DEF vars, daemonVars
<1> QED
  BY <1>2, <1>3, <1>4, <1>5, <1>6, <1>7, <1>8, <1>9, <1>10, <1>11 DEF Next, DaemonStep

\* A transaction moves from one place to one other, and only the source brings
\* a new one.
LEMMA PlacesStep ==
    ASSUME TypeOK, PlacesHoldSent, EachTxOnce, [Next]_vars
    PROVE  PlacesHoldSent' /\ EachTxOnce'
<1> DEFINE Goal == PlacesHoldSent' /\ EachTxOnce'
<1>0. queue \in Seq(Txs) /\ NoTx \notin sent
  BY NoTxAssumption DEF TypeOK
<1>1. CASE SourceSends
  <2>1. PICK tx \in Txs \ sent : sent' = sent \cup {tx} /\ queue' = Append(queue, tx)
    BY <1>1 DEF SourceSends
  <2>2. Elements(queue') = Elements(queue) \cup {tx}
    BY <1>0, <2>1, ElementsOfAppend
  <2>3. NoDuplicates(queue')
    BY <1>0, <2>1, NoDuplicatesAppend DEF PlacesHoldSent
  <2>4. /\ hand' = hand /\ inFlight' = inFlight /\ persisted' = persisted
        /\ failed' = failed /\ discarded' = discarded
    BY <1>1 DEF SourceSends
  <2>5. /\ tx \notin Elements(queue) /\ tx # hand /\ tx \notin inFlight
        /\ tx \notin persisted /\ tx \notin failed /\ tx \notin discarded
    BY <2>1, NoTxAssumption DEF PlacesHoldSent
  <2>6. PlacesHoldSent'
    BY <2>1, <2>2, <2>3, <2>4 DEF PlacesHoldSent
  <2>7. EachTxOnce'
    BY <2>1, <2>2, <2>4, <2>5 DEF EachTxOnce
  <2> QED
    BY <2>6, <2>7
<1>2. CASE Recv(shutdown) /\ sent' = sent
  <2>1. /\ Elements(queue) = Elements(queue') \cup {hand'}
        /\ NoDuplicates(queue') /\ hand' \notin Elements(queue')
    BY <1>0, <1>2, ElementsOfTail, NoDuplicatesTail DEF Recv, PlacesHoldSent
  <2>2. /\ hand = NoTx /\ inFlight' = inFlight /\ persisted' = persisted
        /\ failed' = failed /\ discarded' = discarded
    BY <1>2 DEF Recv
  <2>3. PlacesHoldSent'
    BY <1>2, <2>1, <2>2 DEF PlacesHoldSent
  <2>4. EachTxOnce'
    BY <1>0, <1>2, <2>1, <2>2 DEF EachTxOnce
  <2> QED
    BY <2>3, <2>4
<1>3. CASE Dispatch(shutdown) /\ sent' = sent
  <2>1. PlacesHoldSent'
    BY <1>3 DEF PlacesHoldSent, Dispatch
  <2>2. EachTxOnce'
    BY <1>0, <1>3 DEF EachTxOnce, Dispatch
  <2> QED
    BY <2>1, <2>2
<1>4. CASE DropInHand(shutdown) /\ sent' = sent
  <2>1. PlacesHoldSent'
    BY <1>4 DEF PlacesHoldSent, DropInHand
  <2>2. EachTxOnce'
    BY <1>0, <1>4 DEF EachTxOnce, DropInHand
  <2> QED
    BY <2>1, <2>2
<1>5. CASE (StopOnShutdown(shutdown) \/ WorkerReturns) /\ sent' = sent
  <2>1. /\ queue' = <<>> /\ discarded' = discarded \cup Elements(queue)
        /\ hand' = hand /\ inFlight' = inFlight
        /\ persisted' = persisted /\ failed' = failed
    BY <1>5 DEF StopOnShutdown, WorkerReturns
  <2>2. Elements(queue') = {} /\ NoDuplicates(queue')
    BY <2>1, ElementsOfEmpty DEF NoDuplicates
  <2>3. PlacesHoldSent'
    BY <1>5, <2>1, <2>2 DEF PlacesHoldSent
  <2>4. EachTxOnce'
    BY <1>5, <2>1, <2>2 DEF EachTxOnce
  <2> QED
    BY <2>3, <2>4
<1>6. CASE StopOnClosed(shutdown, task["source"] # "running") /\ sent' = sent
  BY <1>6 DEF StopOnClosed, PlacesHoldSent, EachTxOnce
<1>7. ASSUME NEW tx \in inFlight, NEW ok \in BOOLEAN, IndexOne(tx, ok), sent' = sent
      PROVE  Goal
  <2>1. CASE ok
    <3>1. /\ inFlight' = inFlight \ {tx} /\ persisted' = persisted \cup {tx}
          /\ failed' = failed /\ queue' = queue /\ hand' = hand /\ discarded' = discarded
      BY <1>7, <2>1 DEF IndexOne
    <3> QED
      BY <1>7, <3>1 DEF PlacesHoldSent, EachTxOnce
  <2>2. CASE ~ok
    <3>1. /\ inFlight' = inFlight \ {tx} /\ persisted' = persisted
          /\ failed' = failed \cup {tx} /\ queue' = queue /\ hand' = hand
          /\ discarded' = discarded
      BY <1>7, <2>2 DEF IndexOne
    <3> QED
      BY <1>7, <3>1 DEF PlacesHoldSent, EachTxOnce
  <2> QED
    BY <2>1, <2>2
<1>8. CASE Still
  BY <1>8 DEF Still, workerVars, PlacesHoldSent, EachTxOnce
<1> QED
  BY <1>1, <1>2, <1>3, <1>4, <1>5, <1>6, <1>7, <1>8, StepsSplit

\* No permit is out once run has returned: nothing is dispatched any more.
LEMMA DoneStep ==
    ASSUME DoneIsIdle, [Next]_vars
    PROVE  DoneIsIdle'
<1>1. CASE SourceSends
  BY <1>1 DEF SourceSends, DoneIsIdle
<1>2. CASE Still
  BY <1>2 DEF Still, workerVars, DoneIsIdle
<1>3. ASSUME NEW tx \in inFlight, NEW ok \in BOOLEAN, IndexOne(tx, ok) PROVE DoneIsIdle'
  BY <1>3 DEF IndexOne, DoneIsIdle
<1> QED
  BY <1>1, <1>2, <1>3, StepsSplit
     DEF DoneIsIdle, Recv, Dispatch, DropInHand, StopOnShutdown, StopOnClosed, WorkerReturns

\* A stage's result, once there, is never another one.
LEMMA ResultsStand ==
    ASSUME TypeOK, [Next]_vars, NEW stage \in StageSet, ResultOf(stage) # "running"
    PROVE  ResultOf(stage)' = ResultOf(stage)
<1>1. worker = "done" => worker' = "done"
  <2>1. CASE SourceSends
    BY <2>1 DEF SourceSends
  <2>2. CASE Still
    BY <2>2 DEF Still, workerVars
  <2>3. ASSUME NEW tx \in inFlight, NEW ok \in BOOLEAN, IndexOne(tx, ok)
        PROVE  worker' = worker
    BY <2>3 DEF IndexOne
  <2> QED
    BY <2>1, <2>2, <2>3, StepsSplit
       DEF Recv, Dispatch, DropInHand, StopOnShutdown, StopOnClosed, WorkerReturns
<1>2. ASSUME NEW t \in Others, task[t] # "running" PROVE task'[t] = task[t]
  <2>1. CASE task' = task
    BY <2>1
  <2>2. ASSUME NEW u \in Others, TaskEnds(u) PROVE task'[t] = task[t]
    BY <1>2, <2>2 DEF TaskEnds, TypeOK
  <2> QED
    BY <2>1, <2>2 DEF Next, vars, SourceSends, WorkerStep, Index, Signal, DaemonStep,
       OpenStop, SkipCollected, SettleEnded, SettleOverrun, GracePasses, Exit
<1> QED
  BY <1>1, <1>2 DEF ResultOf, StageSet, Others

\* Stop's account of the stages: settle moves one out of the pending ones only
\* with its result taken into the outcome, or with its name written down.
LEMMA StopStep ==
    ASSUME TypeOK, StopAccount, [Next]_vars
    PROVE  StopAccount'
<1>0. /\ pending \in Seq(StageSet)
      /\ \A stage \in StageSet : ResultOf(stage) \in {"running", "ok", "err"}
  BY DEF TypeOK, ResultOf, StageSet, Others
<1>1. ASSUME NEW stage \in StageSet, Accounted(stage), outcome' = "ok" => outcome = "ok"
      PROVE  Accounted(stage)'
  <2>1. ResultOf(stage)' = ResultOf(stage)
    BY <1>1, ResultsStand DEF Accounted
  <2> QED
    BY <1>1, <2>1 DEF Accounted
<1>2. CASE UNCHANGED daemonVars
  BY <1>1, <1>2 DEF daemonVars, StopAccount
<1>3. CASE OpenStop
  <2>1. Elements(pending') = StageSet /\ phase' = "stopping"
    BY <1>3, StagesListed DEF OpenStop
  <2>2. NoStage \notin StageSet
    BY DEF NoStage, StageSet
  <2>3. ASSUME NEW stage \in StageSet, collected' = stage PROVE Accounted(stage)'
    <3>1. ResultOf(stage) # "running" /\ outcome' = ResultOf(stage)
      BY <1>3, <2>2, <2>3 DEF OpenStop
    <3>2. ResultOf(stage)' = ResultOf(stage)
      BY <3>1, ResultsStand
    <3> QED
      BY <3>1, <3>2 DEF Accounted
  <2> QED
    BY <2>1, <2>3 DEF StopAccount
<1>4. ASSUME pending # <<>>, NEW h \in StageSet, h = Head(pending),
             pending' = Tail(pending), phase' = phase, phase = "stopping",
             collected' = collected, outcome' = "ok" => outcome = "ok",
             stillRunning \subseteq stillRunning',
             h \in stillRunning' \/ Accounted(h)'
      PROVE  StopAccount'
  <2>1. Elements(pending) = Elements(pending') \cup {h}
    BY <1>0, <1>4, ElementsOfTail
  <2>2. ASSUME NEW stage \in StageSet \ Elements(pending')
        PROVE  stage \in stillRunning' \/ Accounted(stage)'
    <3>1. CASE stage = h
      BY <1>4, <3>1
    <3>2. CASE stage # h
      <4>1. stage \in stillRunning \/ Accounted(stage)
        BY <1>4, <2>1, <3>2 DEF StopAccount
      <4> QED
        BY <1>1, <1>4, <4>1
    <3> QED
      BY <3>1, <3>2
  <2>3. ASSUME NEW stage \in StageSet, collected' = stage PROVE Accounted(stage)'
    BY <1>1, <1>4, <2>3 DEF StopAccount
  <2> QED
    BY <1>4, <2>2, <2>3 DEF StopAccount
<1>5. pending # <<>> => \E h \in StageSet : h = Head(pending)
  BY <1>0, ElementsOfTail, ElementsOfSeq
<1>6. CASE SkipCollected
  <2>1. PICK h \in StageSet : h = Head(pending)
    BY <1>5, <1>6 DEF SkipCollected
  <2>2. Accounted(h)
    BY <1>6, <2>1 DEF SkipCollected, StopAccount
  <2>3. Accounted(h)'
    BY <1>1, <1>6, <2>2 DEF SkipCollected
  <2> QED
    BY <1>4, <1>6, <2>1, <2>3 DEF SkipCollected
<1>7. CASE SettleEnded
  <2>1. PICK h \in StageSet : h = Head(pending)
    BY <1>5, <1>7 DEF SettleEnded
  <2>2. ResultOf(h) # "running" /\ ResultOf(h)' = ResultOf(h)
    BY <1>7, <2>1, ResultsStand DEF SettleEnded
  <2>3. outcome' = "ok" => outcome = "ok" /\ ResultOf(h) = "ok"
    BY <1>7, <2>1 DEF SettleEnded
  <2>4. Accounted(h)'
    BY <2>2, <2>3 DEF Accounted
  <2> QED
    BY <1>4, <1>7, <2>1, <2>3, <2>4 DEF SettleEnded
<1>8. CASE SettleOverrun
  <2>1. PICK h \in StageSet : h = Head(pending)
    BY <1>5, <1>8 DEF SettleOverrun
  <2> QED
    BY <1>4, <1>8, <2>1 DEF SettleOverrun
<1>9. CASE GracePasses \/ Exit
  <2>1. /\ pending' = pending /\ collected' = collected /\ outcome' = outcome
        /\ stillRunning' = stillRunning /\ phase # "serving"
        /\ phase' = "exited" => pending = <<>>
    BY <1>9 DEF GracePasses, Exit
  <2>2. ASSUME NEW stage \in StageSet, Accounted(stage) PROVE Accounted(stage)'
    BY <1>1, <2>1, <2>2
  <2> QED
    BY <2>1, <2>2 DEF StopAccount
<1> QED
  BY <1>2, <1>3, <1>6, <1>7, <1>8, <1>9
     DEF Next, vars, DaemonStep, SourceSends, TaskEnds, WorkerStep, Index, Signal

-----------------------------------------------------------------------------
(***************************************************************************)
(* The theorems.                                                           *)
(***************************************************************************)

\* The process as it starts serving.
LEMMA InitDaemon == Init => IInv
<1> SUFFICES ASSUME Init PROVE IInv
  OBVIOUS
<1>1. Elements(queue) = {} /\ NoDuplicates(queue)
  BY ElementsOfEmpty DEF Init, WorkerInit, NoDuplicates
<1>2. shutdown \in BOOLEAN
  BY Zenon DEF Init
<1>3. /\ queue \in Seq(Txs) /\ pending \in Seq(StageSet) /\ grace \in 0..Grace
      /\ task \in [Others -> {"running", "ok", "err"}]
  BY GraceAssumption DEF Init, WorkerInit
<1>4. TypeOK
  BY <1>2, <1>3 DEF Init, WorkerInit, TypeOK, NoStage, StageSet
<1> QED
  BY <1>1, <1>4 DEF IInv, Init, WorkerInit, PlacesHoldSent, EachTxOnce, DoneIsIdle,
     StopAccount, StageSet, NoStage

\* Every step of the tasks, the clock and the stop keeps the invariant.
LEMMA NextDaemon == IInv /\ [Next]_vars => IInv'
<1> SUFFICES ASSUME IInv, [Next]_vars PROVE IInv'
  OBVIOUS
<1>1. TypeOK'
  BY WorkerTyped, StopTyped DEF IInv, TypeOK, StageSet
<1> QED
  BY <1>1, PlacesStep, DoneStep, StopStep DEF IInv

\* The invariant of every run of the process.
LEMMA DaemonInvariant == Spec => []IInv
  BY InitDaemon, NextDaemon, PTL DEF Spec

\* The worker's, the tasks' and Stop's state keep their types.
THEOREM DaemonTyped == Spec => []TypeOK
  BY DaemonInvariant, PTL DEF IInv

\* However the stop interrupts the source, the worker and its indexing tasks, a
\* delivered transaction is in exactly one place, for every channel capacity and
\* number of permits: none is lost uncounted, none persisted and reported dropped.
THEOREM DaemonKeepsEachTx == Spec => []EachTxOnce
  BY DaemonInvariant, PTL DEF IInv

\* Whatever the grace and whichever task opened the stop, main drops the runtime
\* under an INSERT only after naming the indexer worker as still running.
THEOREM DaemonDestroysNoInsert == Spec => []NoInsertDestroyed
<1>1. IInv => NoInsertDestroyed
  <2> SUFFICES ASSUME IInv, phase = "exited", inFlight # {} PROVE "indexer" \in stillRunning
    BY DEF NoInsertDestroyed
  <2>1. worker # "done" /\ "indexer" \in StageSet \ Elements(pending)
    BY ElementsOfEmpty DEF IInv, DoneIsIdle, StopAccount, StageSet
  <2>2. ~Accounted("indexer")
    BY <2>1 DEF Accounted, ResultOf
  <2> QED
    BY <2>1, <2>2 DEF IInv, StopAccount
<1> QED
  BY <1>1, DaemonInvariant, PTL

\* A clean exit means that no stage failed other than one the grace gave up on,
\* in whatever order the stages ended and were settled.
THEOREM DaemonExitIsHonest == Spec => []CleanExitMeansNoError
<1>1. IInv => CleanExitMeansNoError
  <2> SUFFICES ASSUME IInv, phase = "exited", outcome = "ok",
                      NEW stage \in Others \ stillRunning
               PROVE  task[stage] = "ok"
    BY DEF CleanExitMeansNoError
  <2>1. stage \in StageSet \ Elements(pending) /\ stage # "indexer"
    BY ElementsOfEmpty DEF IInv, StopAccount, StageSet, Others
  <2>2. Accounted(stage)
    BY <2>1 DEF IInv, StopAccount
  <2> QED
    BY <2>1, <2>2 DEF Accounted, ResultOf
<1> QED
  BY <1>1, DaemonInvariant, PTL
=============================================================================
