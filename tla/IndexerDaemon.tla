--------------------------- MODULE IndexerDaemon ---------------------------
(***************************************************************************)
(* The indexer process as its composition root runs and stops it           *)
(* (crates/indexer/src/bootstrap/daemon.rs, daemon/tasks.rs and            *)
(* crates/bootstrap/src/shutdown.rs): four tasks, one channel from the     *)
(* source to the indexer worker, and a stop that gives all of them one     *)
(* grace.  The first task that ends, or the cancelled token, opens the     *)
(* stop; the stages are then awaited in a fixed order until the one        *)
(* deadline; on return the runtime is dropped with whatever still runs.    *)
(***************************************************************************)
EXTENDS IndexerWorker

CONSTANTS
    Txs,    \* the transactions the source may deliver
    Grace   \* SHUTDOWN_GRACE, in steps of the clock

ASSUME GraceAssumption == Grace \in Nat
ASSUME NoTxAssumption == NoTx \notin Txs

VARIABLES
    sent,          \* what the source has put in the channel
    task,          \* the other three tasks: "running", "ok" or "err"
    shutdown,      \* the cancellation token
    phase,         \* "serving", "stopping" or "exited"
    grace,         \* what is left of the grace
    pending,       \* the stages Stop::settle has still to be called for
    collected,     \* Stop::collected, the stage the select! already took
    outcome,       \* Stop::outcome
    stillRunning   \* Stop::still_running

daemonVars == <<phase, grace, pending, collected, outcome, stillRunning>>
vars == <<workerVars, sent, task, shutdown, daemonVars>>

Stages == <<"indexer", "source", "reporter", "alarm">>
Others == {"source", "reporter", "alarm"}
NoStage == "none"

\* What a stage's JoinHandle gives: nothing yet, or its result.  Only the
\* source returns an error; any other "err" is a panic.
ResultOf(stage) ==
    IF stage = "indexer" THEN (IF worker = "done" THEN "ok" ELSE "running")
                         ELSE task[stage]

Up == phase # "exited"

-----------------------------------------------------------------------------
(***************************************************************************)
(* The tasks.                                                              *)
(***************************************************************************)

\* The source delivers, and keeps doing so until it hears the stop.
SourceSends ==
    /\ Up
    /\ task["source"] = "running"
    /\ ~QueueFull /\ ~ReceiverGone
    /\ \E tx \in Txs \ sent :
          /\ sent' = sent \cup {tx}
          /\ queue' = Append(queue, tx)
    /\ UNCHANGED <<hand, inFlight, worker, persisted, failed, discarded,
                   task, shutdown, daemonVars>>

\* A task ends: well (it heard the stop, or its consumer is gone), or not.  The
\* source may cancel the token on its way out.
TaskEnds(stage) ==
    /\ Up
    /\ task[stage] = "running"
    /\ \/ /\ shutdown \/ (stage = "source" /\ ReceiverGone)
          /\ task' = [task EXCEPT ![stage] = "ok"]
          /\ UNCHANGED shutdown
       \/ /\ task' = [task EXCEPT ![stage] = "err"]
          /\ shutdown' \in (IF stage = "source" THEN {shutdown, TRUE} ELSE {shutdown})
    /\ UNCHANGED <<workerVars, sent, daemonVars>>

WorkerStep ==
    /\ Up
    /\ \/ Recv(shutdown)
       \/ Dispatch(shutdown)
       \/ DropInHand(shutdown)
       \/ StopOnShutdown(shutdown)
       \/ StopOnClosed(shutdown, task["source"] # "running")
       \/ WorkerReturns
    /\ UNCHANGED <<sent, task, shutdown, daemonVars>>

Index ==
    /\ Up
    /\ \E tx \in inFlight, ok \in BOOLEAN : IndexOne(tx, ok)
    /\ UNCHANGED <<sent, task, shutdown, daemonVars>>

\* Ctrl-C or SIGTERM: main cancels the token.
Signal ==
    /\ Up /\ ~shutdown
    /\ shutdown' = TRUE
    /\ UNCHANGED <<workerVars, sent, task, daemonVars>>

-----------------------------------------------------------------------------
(***************************************************************************)
(* The stop.                                                               *)
(***************************************************************************)

\* The select!: a task's result, or the token, which carries no verdict.
OpenStop ==
    /\ phase = "serving"
    /\ \/ \E i \in DOMAIN Stages :
             /\ ResultOf(Stages[i]) # "running"
             /\ collected' = Stages[i]
             /\ outcome' = ResultOf(Stages[i])
       \/ /\ shutdown
          /\ collected' = NoStage
          /\ outcome' = "ok"
    /\ shutdown' = TRUE
    /\ phase' = "stopping"
    /\ pending' = Stages
    /\ UNCHANGED <<workerVars, sent, task, grace, stillRunning>>

\* Stop::settle, one stage: skipped when already collected, collected when it
\* has ended (even past the deadline), named when the grace is out.
SkipCollected ==
    /\ phase = "stopping" /\ pending # <<>>
    /\ Head(pending) = collected
    /\ pending' = Tail(pending)
    /\ UNCHANGED <<workerVars, sent, task, shutdown, phase, grace, collected,
                   outcome, stillRunning>>

\* Mutation: the last stage's result stands for the process's.
SettleEndedLast ==
    /\ phase = "stopping" /\ pending # <<>>
    /\ Head(pending) # collected
    /\ ResultOf(Head(pending)) # "running"
    /\ outcome' = ResultOf(Head(pending))
    /\ pending' = Tail(pending)
    /\ UNCHANGED <<workerVars, sent, task, shutdown, phase, grace, collected, stillRunning>>

SettleEnded ==
    /\ phase = "stopping" /\ pending # <<>>
    /\ Head(pending) # collected
    /\ ResultOf(Head(pending)) # "running"
    /\ outcome' = IF outcome = "ok" THEN ResultOf(Head(pending)) ELSE outcome
    /\ pending' = Tail(pending)
    /\ UNCHANGED <<workerVars, sent, task, shutdown, phase, grace, collected, stillRunning>>

\* Mutation: the deadline is one tick past the end of the grace.
SettleOverrunNever ==
    /\ phase = "stopping" /\ pending # <<>>
    /\ Head(pending) # collected
    /\ ResultOf(Head(pending)) = "running"
    /\ grace < 0
    /\ stillRunning' = stillRunning \cup {Head(pending)}
    /\ pending' = Tail(pending)
    /\ UNCHANGED <<workerVars, sent, task, shutdown, phase, grace, collected, outcome>>

SettleOverrun ==
    /\ phase = "stopping" /\ pending # <<>>
    /\ Head(pending) # collected
    /\ ResultOf(Head(pending)) = "running"
    /\ grace = 0
    /\ stillRunning' = stillRunning \cup {Head(pending)}
    /\ pending' = Tail(pending)
    /\ UNCHANGED <<workerVars, sent, task, shutdown, phase, grace, collected, outcome>>

GracePasses ==
    /\ phase = "stopping" /\ pending # <<>>
    /\ grace > 0
    /\ grace' = grace - 1
    /\ UNCHANGED <<workerVars, sent, task, shutdown, phase, pending, collected,
                   outcome, stillRunning>>

\* Stop::finish; main returns and the runtime is dropped with what still runs.
Exit ==
    /\ phase = "stopping" /\ pending = <<>>
    /\ phase' = "exited"
    /\ UNCHANGED <<workerVars, sent, task, shutdown, grace, pending, collected,
                   outcome, stillRunning>>

DaemonStep ==
    OpenStop \/ SkipCollected \/ SettleEnded \/ SettleOverrun \/ GracePasses \/ Exit

Init ==
    /\ WorkerInit
    /\ sent = {}
    /\ task = [t \in Others |-> "running"]
    /\ shutdown = FALSE
    /\ phase = "serving"
    /\ grace = Grace
    /\ pending = <<>>
    /\ collected = NoStage
    /\ outcome = "ok"
    /\ stillRunning = {}

Next ==
    \/ SourceSends
    \/ \E stage \in Others : TaskEnds(stage)
    \/ WorkerStep
    \/ Index
    \/ Signal
    \/ DaemonStep

\* The main task is scheduled and its deadline passes; nothing bounds how long
\* a statement or a source takes, so the tasks owe nothing.
Spec == Init /\ [][Next]_vars /\ WF_vars(DaemonStep)

-----------------------------------------------------------------------------
(***************************************************************************)
(* Properties.                                                             *)
(***************************************************************************)

\* The types of the tasks' states and of Stop's fields.
TypeOK ==
    /\ queue \in Seq(Txs)
    /\ hand \in Txs \cup {NoTx}
    /\ inFlight \subseteq Txs
    /\ worker \in {"running", "draining", "done"}
    /\ persisted \subseteq Txs /\ failed \subseteq Txs /\ discarded \subseteq Txs
    /\ sent \subseteq Txs
    /\ task \in [Others -> {"running", "ok", "err"}]
    /\ shutdown \in BOOLEAN
    /\ phase \in {"serving", "stopping", "exited"}
    /\ grace \in 0..Grace
    /\ pending \in Seq({"indexer", "source", "reporter", "alarm"})
    /\ collected \in {"indexer", "source", "reporter", "alarm", NoStage}
    /\ outcome \in {"ok", "err"}
    /\ stillRunning \subseteq {"indexer", "source", "reporter", "alarm"}

\* A delivered transaction is in one place only, whatever the stop interrupts:
\* in the channel, in hand, in a task, or settled as persisted, failed or
\* dropped; none is both persisted and reported dropped.
EachTxOnce ==
    \A tx \in sent :
        (IF tx \in Elements(queue) THEN 1 ELSE 0) + (IF tx = hand THEN 1 ELSE 0)
          + (IF tx \in inFlight THEN 1 ELSE 0) + (IF tx \in persisted THEN 1 ELSE 0)
          + (IF tx \in failed THEN 1 ELSE 0) + (IF tx \in discarded THEN 1 ELSE 0) = 1

\* The process exits with an INSERT in flight only when the indexer worker
\* itself outlived the grace and is named for it: whichever task ended first,
\* the stop waits for every permit (daemon.rs: "the waiting is the point: main
\* drops the runtime on return, destroying an INSERT in flight").
NoInsertDestroyed ==
    phase = "exited" /\ inFlight # {} => "indexer" \in stillRunning

\* The first error wins: a process that exits cleanly had no stage that failed,
\* other than one the grace gave up on, even when the error came after the
\* token was cancelled.
CleanExitMeansNoError ==
    phase = "exited" /\ outcome = "ok" =>
        \A stage \in Others \ stillRunning : task[stage] = "ok"

\* A stop ends: once the token is cancelled or a task has ended, the process
\* exits within the grace, whatever the tasks do.
StopEnds == (shutdown \/ \E s \in Others : task[s] # "running") ~> phase = "exited"
=============================================================================
