------------------------- MODULE TransactionSource -------------------------
(***************************************************************************)
(* What the pipeline is promised by the port it takes its work from        *)
(* (crates/indexer/src/application/source.rs, trait TransactionSource): a  *)
(* source takes on transactions until the stop, skips what it cannot       *)
(* obtain, waits on a full consumer rather than drop, lets the stop        *)
(* interrupt that wait, and returns Ok only for a stop or a departed       *)
(* consumer.                                                               *)
(*                                                                         *)
(* How a source obtains a transaction is not said: that is what the two    *)
(* implementations differ in.                                              *)
(***************************************************************************)
EXTENDS Naturals, Sequences

CONSTANTS
    Items,   \* the deliveries a source may make
    Room     \* capacity of the channel to the consumer

VARIABLES
    sought,    \* what the source has taken on and not obtained yet
    obtained,  \* what it holds for the consumer
    channel,   \* what it has handed over
    consumer,  \* the consumer's receiver is there
    asked,     \* a stop was asked for from outside
    stopping,  \* the cancellation token
    result     \* "running", or what run returned: "ok" or "err"

vars == <<sought, obtained, channel, consumer, asked, stopping, result>>

Init ==
    /\ sought = {}
    /\ obtained = {}
    /\ channel = <<>>
    /\ consumer = TRUE
    /\ asked = FALSE
    /\ stopping = FALSE
    /\ result = "running"

\* Nothing is taken on once the token is cancelled or run has returned.
TakeOn(i) ==
    /\ result = "running" /\ ~stopping
    /\ i \notin sought \cup obtained
    /\ sought' = sought \cup {i}
    /\ UNCHANGED <<obtained, channel, consumer, asked, stopping, result>>

Obtain(i) ==
    /\ i \in sought
    /\ sought' = sought \ {i}
    /\ obtained' = obtained \cup {i}
    /\ UNCHANGED <<channel, consumer, asked, stopping, result>>

Skip(i) ==
    /\ i \in sought
    /\ sought' = sought \ {i}
    /\ UNCHANGED <<obtained, channel, consumer, asked, stopping, result>>

HandOver(i) ==
    /\ i \in obtained
    /\ consumer /\ Len(channel) < Room
    /\ obtained' = obtained \ {i}
    /\ channel' = Append(channel, i)
    /\ UNCHANGED <<sought, consumer, asked, stopping, result>>

\* A full consumer is waited for: only a stop or its departure drops.
Drop(i) ==
    /\ i \in obtained
    /\ stopping \/ ~consumer
    /\ obtained' = obtained \ {i}
    /\ UNCHANGED <<sought, channel, consumer, asked, stopping, result>>

\* The consumer takes what it was handed, or leaves.
Consume ==
    /\ consumer /\ channel # <<>>
    /\ channel' = Tail(channel)
    /\ UNCHANGED <<sought, obtained, consumer, asked, stopping, result>>

ConsumerLeaves ==
    /\ consumer
    /\ consumer' = FALSE
    /\ channel' = <<>>
    /\ UNCHANGED <<sought, obtained, asked, stopping, result>>

AskStop ==
    /\ ~stopping
    /\ asked' = TRUE
    /\ stopping' = TRUE
    /\ UNCHANGED <<sought, obtained, channel, consumer, result>>

\* A source that ends by itself cancels the token on its way out.
StopItself ==
    /\ ~stopping
    /\ stopping' = TRUE
    /\ UNCHANGED <<sought, obtained, channel, consumer, asked, result>>

\* An end nobody asked for is an error: a process left running and silent, or
\* stopped as if it had been told to, is the hardest failure to notice.
Return(r) ==
    /\ result = "running" /\ stopping
    /\ r = "ok" => asked \/ ~consumer
    /\ result' = r
    /\ UNCHANGED <<sought, obtained, channel, consumer, asked, stopping>>

Next ==
    \/ \E i \in Items : TakeOn(i) \/ Obtain(i) \/ Skip(i) \/ HandOver(i) \/ Drop(i)
    \/ Consume
    \/ ConsumerLeaves
    \/ AskStop
    \/ StopItself
    \/ \E r \in {"ok", "err"} : Return(r)

Spec == Init /\ [][Next]_vars
=============================================================================
