---------------------------- MODULE GrpcListener ----------------------------
(***************************************************************************)
(* The gRPC listener's attempts (crates/indexer/src/infra/grpc/listener.rs *)
(* and its children connector.rs, ending.rs, retry_budget.rs,              *)
(* stall_clock.rs): dial, subscribe, read until the stream ends, stalls or *)
(* a stop comes, then let the retry budget decide between another attempt  *)
(* after a wait and giving up.                                             *)
(*                                                                         *)
(* Time is a tick.  Only what the listener's control depends on is kept of *)
(* an update: whether it is data, whether it is a block-meta, and whether  *)
(* what it releases finds the consumer's channel full.                     *)
(***************************************************************************)
EXTENDS Integers

CONSTANTS
    MaxAttempts,     \* GRPC max attempts
    InitialBackoff,  \* INITIAL_BACKOFF_SECS
    MaxBackoff,      \* MAX_BACKOFF_SECS
    StallTimeout     \* STALL_TIMEOUT, in ticks

ASSUME ListenerAssumption ==
    /\ MaxAttempts \in Nat \ {0}
    /\ InitialBackoff \in Nat \ {0}
    /\ MaxBackoff \in Nat /\ InitialBackoff <= MaxBackoff
    /\ StallTimeout \in Nat \ {0}

VARIABLES
    at,         \* "between" attempts, "dialling", "subscribing", "reading",
                \* "parked" on a full consumer, "sleeping", "stopped"
    attempt,    \* RetryBudget::attempt
    backoff,    \* RetryBudget::backoff
    wait,       \* what is left of the sleep before the next attempt
    delivered,  \* StreamSession::received_data
    silent,     \* time spent waiting on the server since its last block-meta
    consumer,   \* the consumer's receiver is there
    shutdown,   \* the cancellation token
    result,     \* what run returned: "none", "ok" or "exhausted"
    barren      \* attempts in a row that brought no data, counted to MaxAttempts

listenerVars == <<at, attempt, backoff, wait, delivered, silent, consumer, shutdown,
                  result, barren>>

budgetVars == <<attempt, backoff, wait, result, barren>>

Verdicts == {"ShutdownRequested", "ConsumerGone", "Delivered", "ServerFailed", "Unanswered"}

Lesser(a, b) == IF a < b THEN a ELSE b

\* Mutation: a stream that delivered does not start the budget over.
ChurnCharged ==
    /\ attempt' = attempt + 1
    /\ backoff' = InitialBackoff
    /\ wait' = InitialBackoff
    /\ at' = "sleeping"
    /\ result' = result

\* RetryBudget::churn
Churn ==
    /\ attempt' = 0
    /\ backoff' = InitialBackoff
    /\ wait' = InitialBackoff
    /\ at' = "sleeping"
    /\ result' = result

\* RetryBudget::charge, after the attempt was counted
Charge ==
    IF attempt + 1 >= MaxAttempts
    THEN /\ attempt' = attempt + 1
         /\ at' = "stopped"
         /\ result' = "exhausted"
         /\ UNCHANGED <<backoff, wait>>
    ELSE /\ attempt' = attempt + 1
         /\ wait' = backoff
         /\ backoff' = Lesser(2 * backoff, MaxBackoff)
         /\ at' = "sleeping"
         /\ result' = result

\* RetryBudget::settle on a verdict, and what the attempts loop does with it;
\* `brought` says whether the attempt's session took data off its stream.
SettleAttempt(verdict, brought) ==
    /\ \/ /\ verdict \in {"ShutdownRequested", "ConsumerGone"}
          /\ attempt' = attempt + 1
          /\ at' = "stopped"
          /\ result' = "ok"
          /\ UNCHANGED <<backoff, wait>>
       \/ verdict = "Delivered" /\ Churn
       \/ verdict \in {"ServerFailed", "Unanswered"} /\ Charge
    /\ barren' = IF brought THEN 0 ELSE Lesser(barren + 1, MaxAttempts)
    /\ delivered' = FALSE
    /\ silent' = 0
    /\ UNCHANGED <<consumer, shutdown>>

\* Ending::verdict for the endings of a stream
OnClose == IF delivered THEN "Delivered" ELSE "ServerFailed"
\* Mutation: a stalled stream counts as one that delivered.
OnStallChurn == "Delivered"

OnStall == IF delivered THEN "Delivered" ELSE "Unanswered"

-----------------------------------------------------------------------------
\* attempts, the top of the loop: a stop is seen before anything is dialled.
StartAttempt ==
    /\ at = "between"
    /\ IF shutdown THEN at' = "stopped" /\ result' = "ok"
                   ELSE at' = "dialling" /\ result' = result
    /\ UNCHANGED <<attempt, backoff, wait, delivered, silent, consumer, shutdown,
                   barren>>

\* attempts, subscription()?: the watched set has become empty since.
NothingToWatch ==
    /\ at = "between" /\ ~shutdown
    /\ at' = "stopped"
    /\ result' = "no_targets"
    /\ UNCHANGED <<attempt, backoff, wait, delivered, silent, consumer, shutdown,
                   barren>>

\* open: the dial, which nothing but its own timeout interrupts.
DialFails ==
    /\ at = "dialling"
    /\ SettleAttempt("Unanswered", FALSE)

Dialled ==
    /\ at = "dialling"
    /\ at' = "subscribing"
    /\ UNCHANGED <<budgetVars, delivered, silent, consumer, shutdown>>

\* subscribe: the stop first, then the server's answer or the stall timeout.
SubscribeStops ==
    /\ at = "subscribing" /\ shutdown
    /\ SettleAttempt("ShutdownRequested", FALSE)

SubscribeFails ==
    /\ at = "subscribing" /\ ~shutdown
    /\ \/ SettleAttempt("Unanswered", FALSE)    \* our transport gave way, or silence
       \/ SettleAttempt("ServerFailed", FALSE)  \* the server refused

Subscribed ==
    /\ at = "subscribing" /\ ~shutdown
    /\ at' = "reading"
    /\ UNCHANGED <<budgetVars, delivered, silent, consumer, shutdown>>

\* read, the shutdown arm, polled first.
ReadStops ==
    /\ at = "reading" /\ shutdown
    /\ SettleAttempt("ShutdownRequested", delivered)

\* read, the message arm: what on_message does with one update.  Data may meet
\* a full channel (the listener parks), an open one, or a closed one.
ReadPing ==
    /\ at = "reading" /\ ~shutdown
    /\ UNCHANGED listenerVars

ReadData(isBlockMeta) ==
    /\ at = "reading" /\ ~shutdown
    /\ delivered' = TRUE
    /\ silent' = IF isBlockMeta THEN 0 ELSE silent
    /\ at' \in {"reading"} \cup (IF consumer THEN {"parked"} ELSE {})
    /\ UNCHANGED <<budgetVars, consumer, shutdown>>

ReadDataConsumerGone ==
    /\ at = "reading" /\ ~shutdown
    /\ ~consumer
    /\ SettleAttempt("ConsumerGone", TRUE)

StreamEnds ==
    /\ at = "reading" /\ ~shutdown
    /\ SettleAttempt(OnClose, delivered)

\* Mutation: off by one, a silence of exactly the timeout is not a stall.
StallsNever ==
    /\ at = "reading" /\ ~shutdown
    /\ silent > StallTimeout
    /\ SettleAttempt(OnStall, delivered)

\* read, the sleep arm: the server was silent for the whole timeout.
Stalls ==
    /\ at = "reading" /\ ~shutdown
    /\ silent >= StallTimeout
    /\ SettleAttempt(OnStall, delivered)

\* wait_for_room: the consumer takes it, goes away, or a stop comes.
Unparks ==
    /\ at = "parked"
    /\ consumer
    /\ at' = "reading"
    /\ UNCHANGED <<budgetVars, delivered, silent, consumer, shutdown>>

\* Mutation: the wait for room does not hear the stop.
ParkedStopsDeaf ==
    /\ at = "parked"
    /\ ~consumer /\ SettleAttempt("ConsumerGone", delivered)

ParkedStops ==
    /\ at = "parked"
    /\ \/ shutdown  /\ SettleAttempt("ShutdownRequested", delivered)
       \/ ~consumer /\ SettleAttempt("ConsumerGone", delivered)

\* sleep_or_cancel
Wakes ==
    /\ at = "sleeping"
    /\ wait = 0 \/ shutdown
    /\ at' = "between"
    /\ wait' = 0
    /\ UNCHANGED <<attempt, backoff, delivered, silent, consumer, shutdown, result,
                   barren>>

\* A tick: the stall clock counts only while the listener waits on the server.
TimePasses ==
    \/ /\ at = "reading" /\ silent < StallTimeout
       /\ silent' = silent + 1
       /\ UNCHANGED <<at, budgetVars, delivered, consumer, shutdown>>
    \/ /\ at = "sleeping" /\ wait > 0
       /\ wait' = wait - 1
       /\ UNCHANGED <<at, attempt, backoff, result, barren, delivered, silent,
                      consumer, shutdown>>

ConsumerLeaves ==
    /\ consumer /\ at # "stopped"
    /\ consumer' = FALSE
    /\ UNCHANGED <<at, budgetVars, delivered, silent, shutdown>>

RequestShutdown ==
    /\ ~shutdown /\ at # "stopped"
    /\ shutdown' = TRUE
    /\ UNCHANGED <<at, budgetVars, delivered, silent, consumer>>
-----------------------------------------------------------------------------
ListenerInit ==
    /\ at = "between"
    /\ attempt = 0
    /\ backoff = InitialBackoff
    /\ wait = 0
    /\ delivered = FALSE
    /\ silent = 0
    /\ consumer = TRUE
    /\ shutdown = FALSE
    /\ result = "none"
    /\ barren = 0

\* What the listener, its timers and its connect timeout bring about.
Progress ==
    \/ StartAttempt
    \/ NothingToWatch
    \/ DialFails
    \/ Dialled
    \/ SubscribeStops
    \/ SubscribeFails
    \/ Subscribed
    \/ ReadStops
    \/ Stalls
    \/ ParkedStops
    \/ Wakes

ListenerNext ==
    \/ Progress
    \/ TimePasses
    \/ ReadPing
    \/ \E isBlockMeta \in BOOLEAN : ReadData(isBlockMeta)
    \/ ReadDataConsumerGone
    \/ StreamEnds
    \/ Unparks
    \/ ConsumerLeaves
    \/ RequestShutdown

\* The listener's task is polled and time passes.  The server owes nothing: it
\* may send data or pings for ever, or nothing at all, but leaves moments with
\* no message waiting (the sleep arm is polled after the message arm).
Fairness == WF_listenerVars(Progress) /\ WF_listenerVars(TimePasses)

ListenerSpec == ListenerInit /\ [][ListenerNext]_listenerVars /\ Fairness

-----------------------------------------------------------------------------
(***************************************************************************)
(* Properties.                                                             *)
(***************************************************************************)

\* The types of the listener's locals; the backoff and the stall clock stay
\* within the constants of retry_budget.rs and stall_clock.rs.
ListenerTypeOK ==
    /\ at \in {"between", "dialling", "subscribing", "reading", "parked", "sleeping", "stopped"}
    /\ attempt \in Nat
    /\ backoff \in InitialBackoff..MaxBackoff
    /\ wait \in 0..MaxBackoff
    /\ delivered \in BOOLEAN
    /\ silent \in 0..StallTimeout
    /\ consumer \in BOOLEAN
    /\ shutdown \in BOOLEAN
    /\ result \in {"none", "ok", "exhausted", "no_targets"}
    /\ barren \in 0..MaxAttempts

\* The listener gives up exactly when MaxAttempts attempts in a row brought no
\* data, never earlier because of streams that delivered and then broke, and
\* never dials a further time (retry_budget.rs: "a stream that delivered is
\* churn whatever ended it").
GivesUpOnBarrenAttempts ==
    /\ result = "exhausted" => barren = MaxAttempts
    /\ result = "none" => barren < MaxAttempts

\* A requested stop ends the listener, wherever it is: dialling, waiting for
\* an answer, reading, parked on a full consumer or sleeping out a backoff.
ShutdownStopsListener == shutdown ~> at = "stopped"

\* Neither pings nor transactions keep a stream alive: a listener that waits on
\* the server sees a block-meta, or leaves the stream, again and again.
SilentStreamIsLeft == []<>(at # "reading" \/ silent = 0)

\* A provider that brings no data any more is not redialled for ever, whether
\* it refuses, closes, stalls or only pings: the listener stops (retry_budget.rs
\* on `settle`: "or an exhausted quota would redial a billed provider for ever").
BarrenListenerStops == <>[](~delivered) => <>(at = "stopped")
=============================================================================
