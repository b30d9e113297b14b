----------------------------- MODULE MCLiveFeed -----------------------------
(***************************************************************************)
(* Model-checking instance of LiveFeed: a strict table, which is written,  *)
(* and one that stays empty, on a topic each.  A behaviour is in one of    *)
(* two settings, which bound what the tables and the clients do.           *)
(***************************************************************************)
EXTENDS LiveFeed

VARIABLE setting

MCTopics == {"signals", "reward_claims"}
MCRequests == {[topics |-> T, other |-> o] : T \in {{"signals"}, MCTopics}, o \in BOOLEAN}

\* A hole, a row delivered above it, and one more.
MCLastId == [s \in Sources |-> IF s = "signals" THEN 3 ELSE 0]

\* Shared: clients of both topics, whose pollers compete for the read, a failed
\* query, and two ids.  Alone: one topic, and the three ids.
Shared == [ids |-> 2, failures |-> 1, requests |-> {r \in Requests : r.topics = MCTopics}]
Alone == [ids |-> 3, failures |-> 0, requests |-> {[topics |-> {"signals"}, other |-> FALSE]}]

MCNext ==
    /\ \/ \E s \in Sources : Poll(s)
       \/ failures < setting.failures /\ \E s \in Sources : QueryFails(s)
       \/ ~shutdown /\ \E s \in Sources : \E i \in Ids(s) : i <= setting.ids /\ Table(s, i)
       \/ \E c \in Clients :
             \/ \E request \in setting.requests : Connect(c, request)
             \/ \E t \in Topics : Receive(c, t)
             \/ End(c) \/ Leave(c)
       \/ Stop
       \/ Clock
    /\ UNCHANGED setting

MCInit == Init /\ setting \in {Shared, Alone}

MCSpec ==
    /\ MCInit
    /\ [][MCNext]_<<vars, setting>>
    /\ Fairness

=============================================================================
