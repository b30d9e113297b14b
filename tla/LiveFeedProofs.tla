--------------------------- MODULE LiveFeedProofs ---------------------------
(***************************************************************************)
(* What a poller reads, delivers and passes, and what a connection is      *)
(* told, for any number of tables, ids, clients and failures and every     *)
(* batch limit, settling time and channel capacity.                        *)
(***************************************************************************)
EXTENDS LiveFeed, FiniteSetTheorems, NaturalsInduction, WellFoundedInduction, TLAPS

(***************************************************************************)
(* The inductive invariant.                                                *)
(***************************************************************************)

Stages == {"tick", "queue", "answer", "send", "stopped"}
MarkSet == [floor : Nat, delivered : SUBSET Nat, anchor : Nat]
PollerSet == [at : Stages, mark : MarkSet \cup {NoMark}, batch : SUBSET Nat, out : Seq(Nat)]

FeedTyped ==
    /\ rows = [s \in Sources |-> rows[s]]
    /\ \A s \in Sources : rows[s] \in [Ids(s) -> RowStates]
    /\ poller \in [Sources -> PollerSet]
    /\ log \in [Topics -> Seq(Sources \X Nat)]
    /\ age = [s \in Sources |-> age[s]]
    /\ \A s \in Sources : /\ DOMAIN age[s] \subseteq Ids(s)
                          /\ \A i \in DOMAIN age[s] : age[s][i] \in 0 .. GapSettle
    /\ late \in [Sources -> SUBSET Nat]
    /\ crowded \in [Sources -> SUBSET Nat]

\* A row a read may have seen: it never becomes one again that was not there.
Seen == {"good", "bad", "old"}

\* What a poller holds between two awaits.
Held(s) ==
    /\ poller[s].at # "send" => DOMAIN poller[s].out = {}
    /\ poller[s].at # "answer" => poller[s].batch = {}
    /\ poller[s].at = "answer" => poller[s].mark # NoMark
    /\ \A i \in poller[s].batch : /\ i \in Ids(s) /\ rows[s][i] \in Seen
                                  /\ poller[s].mark # NoMark => i > poller[s].mark.floor

\* What went out, or is about to, was seen; and the poller cannot read it again:
\* it is behind the mark, or has left the lookback for good.
NeverAgain(s) ==
    /\ \A i \in Pending(s) : i \in Ids(s) /\ rows[s][i] \in Seen /\ ~IsSent(s, i)
    /\ \A i \in Nat : IsSent(s, i) => i \in Ids(s) /\ rows[s][i] \in Seen
    /\ \A j, k \in DOMAIN poller[s].out : poller[s].out[j] = poller[s].out[k] => j = k
    /\ poller[s].mark # NoMark =>
         \A i \in Nat : IsSent(s, i) \/ i \in Pending(s) =>
             \/ i <= poller[s].mark.floor
             \/ i \in poller[s].mark.delivered
             \/ rows[s][i] = "old" /\ i \notin poller[s].batch

\* The floor and the ids above it are what was read since the anchor.
MarkIsWhatWasRead(s, mark) ==
    /\ mark.anchor <= mark.floor /\ mark.floor \in 0 .. LastId[s]
    /\ mark.floor = mark.anchor \/ mark.floor \in DOMAIN age[s]
    /\ \A i \in mark.delivered : i > mark.floor /\ i \in DOMAIN age[s]
    /\ \A i \in DOMAIN age[s] : i > mark.floor => i \in mark.delivered

\* The id read next above a hole was last read long enough ago for the hole to be
\* passed. No read sees it again once it is.
Over(s, i) ==
    \E j \in DOMAIN age[s] :
        /\ j > i /\ \A k \in DOMAIN age[s] : k > i => k >= j
        /\ age[s][j] = GapSettle

\* What was read went out or cannot be shown; what was passed unread is a hole
\* that could be, or is excused; and what an answer under way leaves out came
\* late, is crowded out, or is under no id that could date its hole.
PassedIsExcused(s) ==
    poller[s].mark # NoMark =>
      /\ MarkIsWhatWasRead(s, poller[s].mark)
      /\ \A i \in DOMAIN age[s] :
            IsSent(s, i) \/ i \in Pending(s) \/ rows[s][i] \in {"bad", "old"}
      /\ \A i \in poller[s].mark.anchor + 1 .. poller[s].mark.floor :
            i \notin DOMAIN age[s] =>
               /\ Over(s, i)
               /\ rows[s][i] = "good" => i \in late[s] \cup crowded[s]
      /\ poller[s].at = "answer" =>
            \A i \in Ids(s) :
               /\ i > poller[s].mark.floor /\ rows[s][i] = "good"
               /\ i \notin DOMAIN age[s] /\ i \notin poller[s].batch
               => \/ i \in late[s]
                  \/ Cardinality(poller[s].batch) >= PollBatch
                  \/ \A j \in DOMAIN age[s] : ~Dates(s, j, i)

TableInv(s) == Held(s) /\ NeverAgain(s) /\ PassedIsExcused(s)

ConnSet == [topics : SUBSET Topics, other : BOOLEAN, from : [Topics -> Nat],
            pos : [Topics -> Nat], got : [Topics -> Seq(Sources \X Nat)]]

\* A connection that listens to everything holds what its topics broadcast from
\* where it subscribed to where it stands.
ConnInv ==
    /\ conn \in [Clients -> ConnSet \cup {NoConn}]
    /\ \A c \in Clients : conn[c] # NoConn =>
         \A t \in Topics :
            /\ conn[c].from[t] <= conn[c].pos[t] /\ conn[c].pos[t] <= Len(log[t])
            /\ ~conn[c].other =>
                 conn[c].got[t] = SubSeq(log[t], conn[c].from[t] + 1, conn[c].pos[t])

IInv == FeedTyped /\ (\A s \in Sources : TableInv(s)) /\ BroadcastOnce /\ ConnInv

-----------------------------------------------------------------------------
(***************************************************************************)
(* Numbers in order.                                                       *)
(***************************************************************************)

\* The least element of a set of naturals.
LEMMA LeastId ==
    ASSUME NEW S, S \subseteq Nat, S # {}
    PROVE  \E n \in S : \A m \in S : n <= m
<1> DEFINE Below == OpToRel(<, Nat)
<1>1. IsWellFoundedOn(Below, Nat)
  BY NatLessThanWellFounded
<1>2. \A m, n \in Nat : <<m, n>> \in Below <=> m < n
  BY DEF OpToRel
<1> HIDE DEF Below
<1>3. PICK n \in S : \A m \in S : ~(<<m, n>> \in Below)
  BY <1>1, WFMin
<1>4. ASSUME NEW m \in S PROVE n <= m
  <2>1. ~(m < n)
    BY <1>2, <1>3
  <2> QED
    BY <2>1
<1> QED
  BY <1>4

\* The greatest of a set of naturals below a bound, which Max returns.
LEMMA GreatestId ==
    ASSUME NEW S, S \subseteq Nat, S # {}, NEW b \in Nat, \A s \in S : s <= b
    PROVE  Max(S) \in S /\ \A m \in S : m <= Max(S)
<1> DEFINE Gaps == {b - s : s \in S}
<1>1. Gaps \subseteq Nat /\ Gaps # {}
  <2>1. \A s \in S : b - s \in Nat
    OBVIOUS
  <2>2. \E s \in S : b - s \in Gaps
    OBVIOUS
  <2> QED
    BY <2>1, <2>2
<1>2. PICK g \in Gaps : \A h \in Gaps : g <= h
  <2> HIDE DEF Gaps
  <2> QED
    BY <1>1, LeastId
<1>3. PICK n \in S : g = b - n
  OBVIOUS
<1>4. ASSUME NEW m \in S PROVE n >= m
  <2>1. b - m \in Gaps
    OBVIOUS
  <2>2. g <= b - m
    BY <1>2, <2>1
  <2> QED
    BY <1>3, <2>2
<1>5. \A m \in S : Max(S) >= m /\ Max(S) \in S
  BY <1>4 DEF Max
<1> QED
  BY <1>5

\* How many of a set are below a number: each element has its own rank.
Rank(S, i) == Cardinality({j \in S : j < i})

LEMMA RanksDiffer ==
    ASSUME NEW S, S \subseteq Nat, IsFiniteSet(S), NEW i \in S, NEW k \in S, i < k
    PROVE  Rank(S, i) \in Nat /\ Rank(S, k) \in Nat /\ Rank(S, i) < Rank(S, k)
<1> DEFINE A == {j \in S : j < i}
           B == {j \in S : j < k}
<1>1. IsFiniteSet(A) /\ IsFiniteSet(B)
  BY FS_Subset
<1>2. A \subseteq B /\ i \in B /\ i \notin A
  <2>1. \A j \in S : j \in Nat /\ (j < i => j < k)
    OBVIOUS
  <2>2. ~(i < i)
    BY <2>1
  <2> QED
    BY <2>1, <2>2
<1> HIDE DEF A, B
<1>3. Cardinality(A) \in Nat /\ Cardinality(B) \in Nat
  BY <1>1, FS_CardinalityType
<1>4. Cardinality(A) <= Cardinality(B) /\ (Cardinality(A) = Cardinality(B) => A = B)
  BY <1>1, <1>2, FS_Subset
<1>5. Cardinality(A) # Cardinality(B)
  BY <1>2, <1>4
<1> QED
  BY <1>3, <1>4, <1>5 DEF Rank, A, B

\* A rank is below the size of the set.
LEMMA RankInside ==
    ASSUME NEW S, S \subseteq Nat, IsFiniteSet(S), NEW i \in S
    PROVE  Rank(S, i) \in Nat /\ Cardinality(S) \in Nat /\ Rank(S, i) < Cardinality(S)
<1> DEFINE A == {j \in S : j < i}
<1>1. IsFiniteSet(A) /\ A \subseteq S /\ i \notin A
  <2>1. A \subseteq S /\ i \notin A
    OBVIOUS
  <2> QED
    BY <2>1, FS_Subset
<1> HIDE DEF A
<1>2. Cardinality(A) \in Nat /\ Cardinality(S) \in Nat
  BY <1>1, FS_CardinalityType
<1>3. Cardinality(A) <= Cardinality(S) /\ (Cardinality(A) = Cardinality(S) => A = S)
  BY <1>1, FS_Subset
<1>4. Cardinality(A) # Cardinality(S)
  BY <1>1, <1>3
<1> QED
  BY <1>2, <1>3, <1>4 DEF Rank, A

\* Of a finite set of naturals, one element has all the others below it.
LEMMA LastOfFinite ==
    ASSUME NEW S, S \subseteq Nat, IsFiniteSet(S), S # {}
    PROVE  \E m \in S : Rank(S, m) = Cardinality(S) - 1
<1>0. Cardinality(S) \in Nat
  BY FS_CardinalityType
<1> DEFINE Gaps == {Cardinality(S) - Rank(S, i) : i \in S}
<1>1. Gaps \subseteq Nat /\ Gaps # {}
  <2>1. ASSUME NEW i \in S PROVE Cardinality(S) - Rank(S, i) \in Nat
    <3>1. Rank(S, i) \in Nat /\ Rank(S, i) < Cardinality(S)
      BY RankInside
    <3> QED
      BY <1>0, <3>1
  <2> QED
    BY <2>1
<1>2. PICK g \in Gaps : \A h \in Gaps : g <= h
  <2> HIDE DEF Gaps
  <2> QED
    BY <1>1, LeastId
<1>3. PICK m \in S : g = Cardinality(S) - Rank(S, m)
  OBVIOUS
<1>4. ASSUME NEW j \in S PROVE j <= m
  <2> SUFFICES ASSUME m < j PROVE FALSE
    OBVIOUS
  <2>1. Rank(S, m) \in Nat /\ Rank(S, j) \in Nat /\ Rank(S, m) < Rank(S, j)
    BY RanksDiffer
  <2>2. Cardinality(S) - Rank(S, j) \in Gaps
    OBVIOUS
  <2>3. g <= Cardinality(S) - Rank(S, j)
    BY <1>2, <2>2
  <2> QED
    BY <1>0, <1>3, <2>1, <2>3
<1>5. {j \in S : j < m} = S \ {m}
  <2>1. \A j \in S : j < m <=> j # m
    <3>1. \A j \in S : j \in Nat /\ m \in Nat /\ j <= m
      BY <1>4
    <3> QED
      BY <3>1
  <2> QED
    BY <2>1
<1>6. Cardinality(S \ {m}) = Cardinality(S) - 1
  BY FS_RemoveElement
<1> QED
  BY <1>5, <1>6 DEF Rank

\* Every rank below the size is some element's.
LEMMA EveryRank ==
    ASSUME NEW S, S \subseteq Nat, IsFiniteSet(S), NEW n \in Nat, n < Cardinality(S)
    PROVE  \E i \in S : Rank(S, i) = n
<1>0. Cardinality(S) \in Nat
  BY FS_CardinalityType
<1> DEFINE High == {i \in S : Rank(S, i) >= n}
<1>1. High # {}
  <2>1. S # {}
    BY FS_EmptySet
  <2>2. PICK m \in S : Rank(S, m) = Cardinality(S) - 1
    BY <2>1, LastOfFinite
  <2>3. Rank(S, m) >= n
    BY <1>0, <2>2
  <2> QED
    BY <2>3
<1>2. PICK i \in High : \A k \in High : i <= k
  <2>1. High \subseteq Nat
    OBVIOUS
  <2> HIDE DEF High
  <2> QED
    BY <1>1, <2>1, LeastId
<1>3. i \in S /\ Rank(S, i) \in Nat /\ Rank(S, i) >= n
  BY RankInside
<1>4. ASSUME Rank(S, i) > n PROVE FALSE
  <2> DEFINE B == {j \in S : j < i}
  <2>1. B \subseteq Nat /\ IsFiniteSet(B) /\ B \subseteq S
    <3>1. B \subseteq Nat /\ B \subseteq S
      OBVIOUS
    <3> QED
      BY <3>1, FS_Subset
  <2>2. Cardinality(B) = Rank(S, i)
    BY DEF Rank
  <2>3. B # {}
    <3> HIDE DEF B
    <3> QED
      BY <1>3, <1>4, <2>2, FS_EmptySet
  <2>4. PICK j \in B : Rank(B, j) = Cardinality(B) - 1
    <3> HIDE DEF B
    <3> QED
      BY <2>1, <2>3, LastOfFinite
  <2>5. {k \in B : k < j} = {k \in S : k < j}
    <3>1. j \in Nat /\ i \in Nat /\ j < i /\ S \subseteq Nat
      BY <1>3
    <3>2. \A k \in S : k < j => k < i
      BY <3>1
    <3> QED
      BY <3>2
  <2>6. Rank(S, j) = Rank(S, i) - 1
    BY <2>2, <2>4, <2>5 DEF Rank
  <2>7. j \in High
    BY <1>3, <1>4, <2>6
  <2> QED
    BY <1>2, <2>7
<1> QED
  BY <1>3, <1>4

\* prepare keeps the order of the ids and each of them once.
LEMMA PreparedLists ==
    ASSUME NEW s \in Sources, NEW ids, ids \subseteq Nat, IsFiniteSet(ids)
    PROVE  LET kept == ids \ Undecodable(s)
               out == Prepared(s, ids)
           IN  /\ out \in Seq(Nat)
               /\ {out[k] : k \in DOMAIN out} = kept
               /\ \A j, k \in DOMAIN out : out[j] = out[k] => j = k
<1> DEFINE kept == ids \ Undecodable(s)
           out == Prepared(s, ids)
           n == Cardinality(kept)
<1>1. kept \subseteq Nat /\ IsFiniteSet(kept)
  <2>1. kept \subseteq ids
    OBVIOUS
  <2> HIDE DEF kept
  <2> QED
    BY <2>1, FS_Subset
<1>2. n \in Nat
  BY <1>1, FS_CardinalityType
<1>3. out = [k \in 1 .. n |-> CHOOSE i \in kept : Rank(kept, i) = k - 1]
  BY DEF Prepared, Rank
<1> HIDE DEF kept, out, n
<1>4. ASSUME NEW k \in 1 .. n PROVE out[k] \in kept /\ Rank(kept, out[k]) = k - 1
  <2>1. k - 1 \in Nat /\ k - 1 < n
    BY <1>2
  <2>2. \E i \in kept : Rank(kept, i) = k - 1
    BY <1>1, <2>1, EveryRank DEF n
  <2> QED
    BY <1>3, <2>2
<1>5. DOMAIN out = 1 .. n
  BY <1>3
<1>6. out \in Seq(Nat)
  <2>1. \A k \in 1 .. n : out[k] \in Nat
    BY <1>1, <1>4
  <2> QED
    BY <1>2, <1>3, <2>1
<1>7. \A j, k \in DOMAIN out : out[j] = out[k] => j = k
  BY <1>2, <1>4, <1>5
<1>8. ASSUME NEW i \in kept PROVE \E k \in DOMAIN out : out[k] = i
  <2>1. Rank(kept, i) \in Nat /\ Rank(kept, i) < n
    BY <1>1, RankInside DEF n
  <2> DEFINE k == Rank(kept, i) + 1
  <2>2. k \in 1 .. n /\ k - 1 = Rank(kept, i)
    BY <1>2, <2>1
  <2>3. out[k] \in kept /\ Rank(kept, out[k]) = Rank(kept, i)
    BY <1>4, <2>2
  <2>4. out[k] = i
    <3>1. out[k] \in Nat /\ i \in Nat
      BY <1>1, <2>3
    <3>2. ASSUME out[k] < i PROVE FALSE
      <4>1. Rank(kept, out[k]) < Rank(kept, i)
        BY <1>1, <2>3, <3>2, RanksDiffer
      <4> QED
        BY <2>1, <2>3, <4>1
    <3>3. ASSUME i < out[k] PROVE FALSE
      <4>1. Rank(kept, i) < Rank(kept, out[k])
        BY <1>1, <2>3, <3>3, RanksDiffer
      <4> QED
        BY <2>1, <2>3, <4>1
    <3> QED
      BY <3>1, <3>2, <3>3
  <2> QED
    BY <1>5, <2>2, <2>4
<1>9. {out[k] : k \in DOMAIN out} = kept
  BY <1>4, <1>5, <1>8
<1> QED
  BY <1>6, <1>7, <1>9 DEF kept, out

\* A batch that leaves a row out is full.
LEMMA LeftOutOfAFullBatch ==
    ASSUME NEW above, above \subseteq Nat, IsFiniteSet(above), NEW limit \in Nat,
           NEW i \in above, ~(Rank(above, i) < limit)
    PROVE  Cardinality({j \in above : Rank(above, j) < limit}) >= limit
<1> DEFINE batch == {j \in above : Rank(above, j) < limit}
           out == above \ batch
<1>1. out \subseteq Nat /\ i \in out
  OBVIOUS
<1>2. PICK x \in out : \A y \in out : x <= y
  <2> HIDE DEF out
  <2> QED
    BY <1>1, LeastId
<1>3. Rank(above, x) \in Nat /\ Rank(above, x) >= limit
  <2>1. x \in above /\ ~(Rank(above, x) < limit)
    OBVIOUS
  <2>2. Rank(above, x) \in Nat
    BY <2>1, RankInside
  <2> QED
    BY <2>1, <2>2
<1> DEFINE below == {j \in above : j < x}
<1>4. below \subseteq batch /\ batch \subseteq above
  <2>1. \A j \in below : j \notin out
    BY <1>2
  <2> QED
    BY <2>1
<1>5. Cardinality(below) = Rank(above, x)
  BY DEF Rank
<1> HIDE DEF below, batch
<1>6. IsFiniteSet(batch)
  BY <1>4, FS_Subset
<1>7. Cardinality(below) <= Cardinality(batch) /\ Cardinality(batch) \in Nat
  BY <1>4, <1>6, FS_Subset, FS_CardinalityType
<1> QED
  BY <1>3, <1>5, <1>7 DEF batch

-----------------------------------------------------------------------------
(***************************************************************************)
(* Types.                                                                  *)
(***************************************************************************)

\* A table is some topic's, and its ids are the first naturals.
LEMMA SourceFacts ==
    ASSUME NEW s \in Sources
    PROVE  /\ TopicOf(s) \in Topics
           /\ LastId[s] \in Nat /\ Ids(s) \subseteq Nat /\ IsFiniteSet(Ids(s))
           /\ \A i \in Ids(s) : i \in 1 .. LastId[s]
<1>1. TopicOf(s) \in Topics
  BY DEF TopicOf, Sources
<1>2. LastId[s] \in Nat
  BY IdsAssumption
<1>3. IsFiniteSet(Ids(s))
  BY <1>2, FS_Interval DEF Ids
<1> QED
  BY <1>1, <1>2, <1>3 DEF Ids

\* What a read sees, and the highest of it.
LEMMA VisibleFacts ==
    ASSUME NEW s \in Sources
    PROVE  /\ Visible(s) \subseteq Ids(s) /\ Visible(s) \subseteq Nat
           /\ IsFiniteSet(Visible(s))
           /\ LiveTip(s) \in 0 .. LastId[s]
           /\ \A i \in Visible(s) : i <= LiveTip(s)
<1> DEFINE S == Visible(s) \cup {0}
<1>1. Visible(s) \subseteq Ids(s)
  BY DEF Visible
<1>2. Visible(s) \subseteq Nat /\ IsFiniteSet(Visible(s))
  BY <1>1, SourceFacts, FS_Subset
<1>3. S \subseteq Nat /\ S # {} /\ \A i \in S : i <= LastId[s]
  BY <1>1, SourceFacts
<1>4. Max(S) \in S /\ \A m \in S : m <= Max(S)
  <2> HIDE DEF S
  <2> QED
    BY <1>3, SourceFacts, GreatestId
<1> QED
  BY <1>1, <1>2, <1>3, <1>4, SourceFacts DEF LiveTip

\* What settling does to the floor and to the ids above it.
LEMMA SettleFacts ==
    ASSUME NEW mark \in MarkSet, NEW read, NEW b \in Nat, mark.floor <= b,
           \A i \in mark.delivered : i <= b
    PROVE  LET waiting == {i \in mark.delivered :
                             /\ i - 1 \notin mark.delivered \cup {mark.floor}
                             /\ read[i] < GapSettle}
               passed == {i \in mark.delivered : \A w \in waiting : i < w}
               after == Settle(mark, read)
           IN  /\ after \in MarkSet
               /\ after.anchor = mark.anchor
               /\ after.floor \in {mark.floor} \cup passed
               /\ mark.floor <= after.floor
               /\ \A i \in passed : i <= after.floor
               /\ after.delivered = mark.delivered \ passed
<1> DEFINE waiting == {i \in mark.delivered :
                         /\ i - 1 \notin mark.delivered \cup {mark.floor}
                         /\ read[i] < GapSettle}
           passed == {i \in mark.delivered : \A w \in waiting : i < w}
           S == {mark.floor} \cup passed
<1>1. mark.floor \in Nat /\ mark.delivered \subseteq Nat
  BY DEF MarkSet
<1>2. S \subseteq Nat /\ S # {} /\ \A i \in S : i <= b
  BY <1>1
<1>3. Max(S) \in S /\ \A m \in S : m <= Max(S)
  <2> HIDE DEF S
  <2> QED
    BY <1>2, GreatestId
<1>4. Settle(mark, read) = [mark EXCEPT !.floor = Max(S), !.delivered = @ \ passed]
  BY DEF Settle
<1> HIDE DEF passed, waiting
<1>5. Max(S) \in Nat
  BY <1>2, <1>3
<1>6. /\ Settle(mark, read) \in MarkSet
      /\ Settle(mark, read).anchor = mark.anchor
      /\ Settle(mark, read).floor = Max(S)
      /\ Settle(mark, read).delivered = mark.delivered \ passed
  BY <1>4, <1>5 DEF MarkSet
<1> QED
  BY <1>3, <1>6 DEF passed, waiting

\* The locals of an answer: what is new, when everything was read, the mark.
NewIds(s) == Fresh(poller[s].mark, poller[s].batch)
ReadAt(s) == Dated(poller[s].mark, poller[s].batch, age[s])
MarkWith(s) == [poller[s].mark EXCEPT !.delivered = @ \cup NewIds(s)]
MarkAfter(s) == Settle(MarkWith(s), ReadAt(s))

\* An answer in these terms.
LEMMA AnswerFacts ==
    ASSUME FeedTyped, NEW s \in Sources, Held(s), Answer(s)
    PROVE  /\ poller[s].at = "answer" /\ poller[s].mark \in MarkSet
           /\ NewIds(s) \subseteq poller[s].batch
           /\ NewIds(s) \subseteq Ids(s) /\ IsFiniteSet(NewIds(s))
           /\ MarkWith(s) \in MarkSet
           /\ MarkWith(s).floor = poller[s].mark.floor
           /\ MarkWith(s).anchor = poller[s].mark.anchor
           /\ MarkWith(s).delivered = poller[s].mark.delivered \cup NewIds(s)
           /\ poller' = [poller EXCEPT
                ![s] = [at |-> IF NewIds(s) = {} THEN "tick" ELSE "send",
                        mark |-> MarkAfter(s),
                        batch |-> {},
                        out |-> Prepared(s, NewIds(s))]]
           /\ age' = [age EXCEPT ![s] = ReadAt(s)]
           /\ crowded' = IF Cardinality(poller[s].batch) < PollBatch THEN crowded
                         ELSE [crowded EXCEPT ![s] = @ \cup
                                {i \in {j \in Visible(s) \ DOMAIN ReadAt(s) :
                                          MarkAfter(s) # NoMark /\ j <= MarkAfter(s).floor} :
                                    i > poller[s].mark.floor}]
           /\ UNCHANGED <<rows, log, conn, late>>
<1>1. poller[s].at = "answer"
  BY DEF Answer
<1>2. poller[s] \in PollerSet
  BY DEF FeedTyped
<1>3. poller[s].mark \in MarkSet
  BY <1>1, <1>2 DEF Held, PollerSet
<1>4. NewIds(s) \subseteq poller[s].batch
  BY DEF NewIds, Fresh
<1>5. NewIds(s) \subseteq Ids(s)
  BY <1>4 DEF Held
<1>6. IsFiniteSet(NewIds(s))
  BY <1>5, SourceFacts, FS_Subset
<1>7. /\ MarkWith(s) \in MarkSet
      /\ MarkWith(s).floor = poller[s].mark.floor
      /\ MarkWith(s).anchor = poller[s].mark.anchor
      /\ MarkWith(s).delivered = poller[s].mark.delivered \cup NewIds(s)
  BY <1>3, <1>5, SourceFacts DEF MarkWith, MarkSet
<1>8. UNCHANGED <<rows, log, conn, late>>
  BY DEF Answer
<1>9. /\ poller' = [poller EXCEPT
            ![s] = [at |-> IF NewIds(s) = {} THEN "tick" ELSE "send",
                    mark |-> MarkAfter(s),
                    batch |-> {},
                    out |-> Prepared(s, NewIds(s))]]
      /\ age' = [age EXCEPT ![s] = ReadAt(s)]
  BY DEF Answer, Settled, NewIds, ReadAt, MarkWith, MarkAfter
<1>10. crowded' = IF Cardinality(poller[s].batch) < PollBatch THEN crowded
                  ELSE [crowded EXCEPT ![s] = @ \cup
                         {i \in {j \in Visible(s) \ DOMAIN ReadAt(s) :
                                   MarkAfter(s) # NoMark /\ j <= MarkAfter(s).floor} :
                             i > poller[s].mark.floor}]
  BY DEF Answer, Settled, NewIds, ReadAt, MarkWith, MarkAfter
<1> QED
  BY <1>1, <1>3, <1>4, <1>5, <1>6, <1>7, <1>8, <1>9, <1>10

\* When each id was last read, after an answer: now, for all of the batch.
LEMMA ReadAtFacts ==
    ASSUME FeedTyped, NEW s \in Sources, TableInv(s), Answer(s)
    PROVE  /\ DOMAIN ReadAt(s) = NewIds(s) \cup DOMAIN age[s]
           /\ DOMAIN ReadAt(s) = poller[s].batch \cup DOMAIN age[s]
           /\ \A i \in poller[s].batch : ReadAt(s)[i] = 0
           /\ \A i \in DOMAIN age[s] \ poller[s].batch : ReadAt(s)[i] = age[s][i]
<1>1. Held(s) /\ poller[s].mark # NoMark
  BY DEF TableInv, Held, Answer
<1>2. {i \in poller[s].batch : i > poller[s].mark.floor} = poller[s].batch
  BY <1>1 DEF Held
<1>3. ReadAt(s) = [i \in DOMAIN age[s] \cup poller[s].batch |->
                     IF i \in poller[s].batch THEN 0 ELSE age[s][i]]
  BY <1>2 DEF ReadAt, Dated
<1>4. MarkIsWhatWasRead(s, poller[s].mark)
  BY <1>1 DEF TableInv, PassedIsExcused
<1>5. poller[s].batch \subseteq NewIds(s) \cup DOMAIN age[s]
  BY <1>2, <1>4 DEF NewIds, Fresh, MarkIsWhatWasRead
<1>6. NewIds(s) \subseteq poller[s].batch
  BY DEF NewIds, Fresh
<1> QED
  BY <1>3, <1>5, <1>6

\* The mark an answer leaves: every id read is behind the floor or above it.
LEMMA MarkAfterFacts ==
    ASSUME FeedTyped, NEW s \in Sources, TableInv(s), Answer(s)
    PROVE  LET D == poller[s].mark.delivered \cup NewIds(s)
               floor == poller[s].mark.floor
               waiting == {i \in D : i - 1 \notin D \cup {floor} /\ ReadAt(s)[i] < GapSettle}
               passed == {i \in D : \A w \in waiting : i < w}
               after == MarkAfter(s)
           IN  /\ after \in MarkSet
               /\ after.anchor = poller[s].mark.anchor
               /\ after.floor \in {floor} \cup passed
               /\ floor <= after.floor /\ after.floor <= LastId[s]
               /\ \A i \in passed : i <= after.floor
               /\ after.delivered = D \ passed
               /\ \A i \in D : i > floor /\ i \in Ids(s)
<1> DEFINE D == poller[s].mark.delivered \cup NewIds(s)
           floor == poller[s].mark.floor
           waiting == {i \in D : i - 1 \notin D \cup {floor} /\ ReadAt(s)[i] < GapSettle}
           passed == {i \in D : \A w \in waiting : i < w}
<1>0. Held(s) /\ PassedIsExcused(s)
  BY DEF TableInv
<1>1. /\ poller[s].mark \in MarkSet /\ MarkWith(s) \in MarkSet
      /\ MarkWith(s).floor = floor /\ MarkWith(s).anchor = poller[s].mark.anchor
      /\ MarkWith(s).delivered = D
      /\ NewIds(s) \subseteq Ids(s)
  BY <1>0, AnswerFacts
<1>2. MarkIsWhatWasRead(s, poller[s].mark)
  BY <1>0, AnswerFacts DEF Held, PassedIsExcused
<1>3. LastId[s] \in Nat /\ floor <= LastId[s]
  BY <1>2, SourceFacts DEF MarkIsWhatWasRead
<1>4. \A i \in D : i > floor /\ i \in Ids(s)
  <2>1. \A i \in NewIds(s) : i > floor
    BY DEF NewIds, Fresh
  <2>2. \A i \in poller[s].mark.delivered : i > floor /\ i \in Ids(s)
    BY <1>2 DEF MarkIsWhatWasRead, FeedTyped
  <2> QED
    BY <1>1, <2>1, <2>2
<1>5. \A i \in D : i <= LastId[s]
  BY <1>4, SourceFacts
<1> HIDE DEF D, floor
<1>6. /\ MarkAfter(s) \in MarkSet
      /\ MarkAfter(s).anchor = MarkWith(s).anchor
      /\ MarkAfter(s).floor \in {floor} \cup passed
      /\ floor <= MarkAfter(s).floor
      /\ \A i \in passed : i <= MarkAfter(s).floor
      /\ MarkAfter(s).delivered = D \ passed
  BY <1>1, <1>3, <1>5, SettleFacts DEF MarkAfter
<1>7. MarkAfter(s).floor <= LastId[s]
  BY <1>3, <1>5, <1>6
<1> QED
  BY <1>1, <1>4, <1>6, <1>7 DEF D, floor

\* The clock's two ends.
LEMMA MinOfTwo ==
    ASSUME NEW a \in Nat, NEW b \in Nat
    PROVE  Min({a, b}) = IF a <= b THEN a ELSE b
<1>1. \E x \in {a, b} : \A y \in {a, b} : x =< y
  OBVIOUS
<1>2. Min({a, b}) \in {a, b} /\ \A y \in {a, b} : Min({a, b}) =< y
  BY <1>1 DEF Min
<1> QED
  BY <1>2

\* Time moves ages up to GapSettle, and changes nothing else.
LEMMA ClockFacts ==
    ASSUME FeedTyped, Clock, NEW s \in Sources
    PROVE  /\ DOMAIN age'[s] = DOMAIN age[s]
           /\ \A i \in DOMAIN age[s] :
                 age'[s][i] \in 0 .. GapSettle /\ (age[s][i] = GapSettle => age'[s][i] = GapSettle)
<1>1. age'[s] = [i \in DOMAIN age[s] |-> Min({age[s][i] + 1, GapSettle})]
  BY DEF Clock
<1>2. ASSUME NEW i \in DOMAIN age[s]
      PROVE  age'[s][i] \in 0 .. GapSettle /\ (age[s][i] = GapSettle => age'[s][i] = GapSettle)
  <2>1. age[s][i] \in 0 .. GapSettle /\ GapSettle \in Nat
    BY BoundsAssumption DEF FeedTyped
  <2>2. Min({age[s][i] + 1, GapSettle}) =
          IF age[s][i] + 1 <= GapSettle THEN age[s][i] + 1 ELSE GapSettle
    BY <2>1, MinOfTwo
  <2> QED
    BY <1>1, <2>1, <2>2
<1> QED
  BY <1>1, <1>2

\* The poller's steps keep the types.
LEMMA PollTyped ==
    ASSUME FeedTyped, NEW s \in Sources, TableInv(s), Poll(s) \/ QueryFails(s)
    PROVE  FeedTyped'
<1>0. poller[s] \in PollerSet
  BY DEF FeedTyped
<1>1. ASSUME UNCHANGED <<rows, log, age, late, crowded>>, poller' \in [Sources -> PollerSet]
      PROVE  FeedTyped'
  BY <1>1 DEF FeedTyped
<1>2. CASE TickIdle(s)
  <2>1. poller' = [poller EXCEPT ![s].mark = NoMark]
    BY <1>2 DEF TickIdle
  <2>2. poller' \in [Sources -> PollerSet]
    BY <2>1 DEF FeedTyped, PollerSet
  <2> QED
    BY <1>1, <1>2, <2>2 DEF TickIdle
<1>3. CASE Tick(s) \/ QueryFails(s) \/ ReadRefused(s)
  <2>1. PICK at \in Stages : poller' = [poller EXCEPT ![s].at = at]
    BY <1>3 DEF Tick, QueryFails, ReadRefused, Stages
  <2>2. poller' \in [Sources -> PollerSet]
    BY <2>1 DEF FeedTyped, PollerSet
  <2> QED
    BY <1>1, <1>3, <2>2 DEF Tick, QueryFails, ReadRefused
<1>4. CASE Anchor(s)
  <2>1. poller' = [poller EXCEPT ![s].mark = Anchored(LiveTip(s))]
    BY <1>4 DEF Anchor
  <2>2. Anchored(LiveTip(s)) \in MarkSet
    BY VisibleFacts, SourceFacts DEF Anchored, MarkSet
  <2>3. poller' \in [Sources -> PollerSet]
    BY <2>1, <2>2 DEF FeedTyped, PollerSet
  <2>4. age' = [age EXCEPT ![s] = <<>>] /\ UNCHANGED <<rows, log, late, crowded>>
    BY <1>4 DEF Anchor
  <2>5. /\ age' = [r \in Sources |-> age'[r]]
        /\ DOMAIN age'[s] = {} /\ \A r \in Sources \ {s} : age'[r] = age[r]
    BY <2>4 DEF FeedTyped
  <2> QED
    BY <2>3, <2>4, <2>5 DEF FeedTyped
<1>5. CASE Read(s)
  <2>1. poller' = [poller EXCEPT ![s].at = "answer",
                                 ![s].batch = LiveAfter(s, poller[s].mark.floor)]
    BY <1>5 DEF Read
  <2>2. LiveAfter(s, poller[s].mark.floor) \subseteq Nat
    BY VisibleFacts DEF LiveAfter
  <2>3. poller' \in [Sources -> PollerSet]
    <3> DEFINE q == [poller[s] EXCEPT !.at = "answer",
                                      !.batch = LiveAfter(s, poller[s].mark.floor)]
    <3>1. q \in PollerSet
      BY <1>0, <2>2 DEF PollerSet, Stages
    <3>2. poller' = [poller EXCEPT ![s] = q]
      BY <2>1
    <3> HIDE DEF q
    <3> QED
      BY <3>1, <3>2 DEF FeedTyped
  <2> QED
    BY <1>1, <1>5, <2>3 DEF Read
<1>6. CASE Answer(s)
  <2>0. Held(s)
    BY DEF TableInv
  <2>1. MarkAfter(s) \in MarkSet
    BY <1>6, MarkAfterFacts
  <2>2. Prepared(s, NewIds(s)) \in Seq(Nat)
    <3>1. NewIds(s) \subseteq Nat /\ IsFiniteSet(NewIds(s))
      BY <1>6, <2>0, AnswerFacts, SourceFacts
    <3> QED
      BY <3>1, PreparedLists
  <2>3. poller' \in [Sources -> PollerSet]
    <3> DEFINE q == [at |-> IF NewIds(s) = {} THEN "tick" ELSE "send",
                     mark |-> MarkAfter(s), batch |-> {}, out |-> Prepared(s, NewIds(s))]
    <3>1. q \in PollerSet
      BY <2>1, <2>2 DEF PollerSet, Stages
    <3>2. poller' = [poller EXCEPT ![s] = q]
      BY <1>6, <2>0, AnswerFacts
    <3> HIDE DEF q
    <3> QED
      BY <3>1, <3>2 DEF FeedTyped
  <2>4. age' = [age EXCEPT ![s] = ReadAt(s)] /\ NewIds(s) \subseteq Ids(s)
    BY <1>6, <2>0, AnswerFacts
  <2>5. /\ DOMAIN ReadAt(s) \subseteq Ids(s)
        /\ \A i \in DOMAIN ReadAt(s) : ReadAt(s)[i] \in 0 .. GapSettle
    <3>1. DOMAIN age[s] \subseteq Ids(s) /\ \A i \in DOMAIN age[s] : age[s][i] \in 0 .. GapSettle
      BY DEF FeedTyped
    <3>2. 0 \in 0 .. GapSettle
      BY BoundsAssumption
    <3>3. /\ DOMAIN ReadAt(s) = NewIds(s) \cup DOMAIN age[s]
          /\ DOMAIN ReadAt(s) = poller[s].batch \cup DOMAIN age[s]
          /\ \A i \in poller[s].batch : ReadAt(s)[i] = 0
          /\ \A i \in DOMAIN age[s] \ poller[s].batch : ReadAt(s)[i] = age[s][i]
      BY <1>6, ReadAtFacts
    <3> QED
      BY <2>4, <3>1, <3>2, <3>3
  <2>6. age' = [r \in Sources |-> age'[r]] /\ age'[s] = ReadAt(s)
        /\ \A r \in Sources \ {s} : age'[r] = age[r]
    BY <2>4 DEF FeedTyped
  <2>7. crowded' \in [Sources -> SUBSET Nat]
    <3> DEFINE more == {i \in {j \in Visible(s) \ DOMAIN ReadAt(s) :
                                 MarkAfter(s) # NoMark /\ j <= MarkAfter(s).floor} :
                           i > poller[s].mark.floor}
    <3>1. more \subseteq Nat
      BY VisibleFacts
    <3>2. crowded' = crowded \/ crowded' = [crowded EXCEPT ![s] = @ \cup more]
      BY <1>6, <2>0, AnswerFacts
    <3> HIDE DEF more
    <3> QED
      BY <3>1, <3>2 DEF FeedTyped
  <2>8. UNCHANGED <<rows, log, late>>
    BY <1>6 DEF Answer
  <2> QED
    BY <2>3, <2>5, <2>6, <2>7, <2>8 DEF FeedTyped
<1>7. CASE Send(s)
  <2> DEFINE new == [k \in DOMAIN poller[s].out |-> <<s, poller[s].out[k]>>]
  <2>0. PICK none \in Seq(Nat) : none = <<>>
    <3>1. <<>> \in Seq(Nat)
      OBVIOUS
    <3> QED
      BY <3>1, Zenon
  <2>1. poller' = [poller EXCEPT ![s].at = "tick", ![s].out = none]
    BY <1>7, <2>0 DEF Send
  <2>2. poller' \in [Sources -> PollerSet]
    <3> DEFINE q == [poller[s] EXCEPT !.at = "tick", !.out = none]
    <3>1. q \in PollerSet
      BY <1>0 DEF PollerSet, Stages
    <3>2. poller' = [poller EXCEPT ![s] = q]
      BY <2>1
    <3> HIDE DEF q
    <3> QED
      BY <3>1, <3>2 DEF FeedTyped
  <2>3. new \in Seq(Sources \X Nat)
    <3>1. poller[s].out \in Seq(Nat)
      BY <1>0 DEF PollerSet
    <3>2. ASSUME NEW out \in Seq(Nat)
          PROVE  [k \in DOMAIN out |-> <<s, out[k]>>] \in Seq(Sources \X Nat)
      <4>1. Len(out) \in Nat /\ DOMAIN out = 1 .. Len(out)
        OBVIOUS
      <4>2. \A k \in 1 .. Len(out) : out[k] \in Nat
        OBVIOUS
      <4>3. \A k \in 1 .. Len(out) : <<s, out[k]>> \in Sources \X Nat
        BY <4>2
      <4>4. [k \in 1 .. Len(out) |-> <<s, out[k]>>] \in Seq(Sources \X Nat)
        BY <4>1, <4>3
      <4> QED
        BY <4>1, <4>4
    <3> QED
      BY <3>1, <3>2
  <2>4. log' = [log EXCEPT ![TopicOf(s)] = @ \o new]
    BY <1>7 DEF Send
  <2>5. log' \in [Topics -> Seq(Sources \X Nat)]
    <3> HIDE DEF new
    <3>1. log[TopicOf(s)] \o new \in Seq(Sources \X Nat)
      BY <2>3, SourceFacts DEF FeedTyped
    <3> QED
      BY <2>4, <3>1 DEF FeedTyped
  <2>6. UNCHANGED <<rows, age, late, crowded>>
    BY <1>7 DEF Send
  <2> QED
    BY <2>2, <2>5, <2>6 DEF FeedTyped
<1>8. CASE PollerStops(s)
  <2>1. poller' = [poller EXCEPT ![s] = [Idle EXCEPT !.at = "stopped"]]
    BY <1>8 DEF PollerStops
  <2>2. [Idle EXCEPT !.at = "stopped"] \in PollerSet
    <3>1. [Idle EXCEPT !.at = "stopped"] =
            [at |-> "stopped", mark |-> NoMark, batch |-> {}, out |-> <<>>]
      BY DEF Idle
    <3>2. <<>> \in Seq(Nat) /\ {} \in SUBSET Nat
      OBVIOUS
    <3> QED
      BY <3>1, <3>2 DEF PollerSet, Stages
  <2>3. poller' \in [Sources -> PollerSet]
    BY <2>1, <2>2 DEF FeedTyped
  <2> QED
    BY <1>1, <1>8, <2>3 DEF PollerStops
<1> QED
  BY <1>2, <1>3, <1>4, <1>5, <1>6, <1>7, <1>8 DEF Poll

\* So do the tables'.
LEMMA TableTyped ==
    ASSUME FeedTyped, NEW s \in Sources, NEW i \in Ids(s), Table(s, i)
    PROVE  FeedTyped'
<1>1. PICK row \in RowStates : rows' = [rows EXCEPT ![s][i] = row]
  BY DEF Table, TakeId, Rollback, Age, Commit, RowStates
<1>2. UNCHANGED <<poller, log, age, crowded>>
  BY DEF Table, TakeId, Rollback, Age, Commit
<1>3. late' \in [Sources -> SUBSET Nat]
  <2>1. late' = late \/ late' = [late EXCEPT ![s] = @ \cup {i}]
    BY DEF Table, TakeId, Rollback, Age, Commit
  <2>2. i \in Nat /\ late \in [Sources -> SUBSET Nat]
    BY SourceFacts DEF FeedTyped
  <2>3. late[s] \cup {i} \in SUBSET Nat
    BY <2>2
  <2> QED
    BY <2>1, <2>2, <2>3
<1>4. rows' = [r \in Sources |-> rows'[r]] /\ \A r \in Sources : rows'[r] \in [Ids(r) -> RowStates]
  BY <1>1 DEF FeedTyped
<1> QED
  BY <1>2, <1>3, <1>4 DEF FeedTyped

\* Every step keeps the types.
LEMMA TypedStep ==
    ASSUME FeedTyped, \A s \in Sources : TableInv(s), [Next]_vars
    PROVE  FeedTyped'
<1>1. ASSUME NEW s \in Sources, Poll(s) \/ QueryFails(s) PROVE FeedTyped'
  BY <1>1, PollTyped
<1>2. ASSUME NEW s \in Sources, NEW i \in Ids(s), Table(s, i) PROVE FeedTyped'
  BY <1>2, TableTyped
<1>3. CASE Clock
  <2>1. age' = [s \in Sources |-> age'[s]]
    BY <1>3 DEF Clock
  <2>2. \A s \in Sources : /\ DOMAIN age'[s] \subseteq Ids(s)
                           /\ \A i \in DOMAIN age'[s] : age'[s][i] \in 0 .. GapSettle
    BY <1>3, ClockFacts DEF FeedTyped
  <2>3. UNCHANGED <<rows, poller, log, late, crowded>>
    BY <1>3 DEF Clock
  <2> QED
    BY <2>1, <2>2, <2>3 DEF FeedTyped
<1>4. ASSUME UNCHANGED <<rows, poller, log, age, late, crowded>> PROVE FeedTyped'
  BY <1>4 DEF FeedTyped
<1>5. CASE Stop \/ UNCHANGED vars \/ \E c \in Clients : Connection(c)
  <2>1. CASE Stop \/ UNCHANGED vars
    BY <1>4, <2>1 DEF Stop, vars
  <2>2. ASSUME NEW c \in Clients, Connection(c)
        PROVE  UNCHANGED <<rows, poller, log, age, late, crowded>>
    BY <2>2 DEF Connection, Connect, Receive, End, Leave, Close
  <2> QED
    BY <1>4, <1>5, <2>1, <2>2
<1> QED
  BY <1>1, <1>2, <1>3, <1>5 DEF Next

-----------------------------------------------------------------------------
(***************************************************************************)
(* One table and its poller.                                               *)
(***************************************************************************)

\* A step that leaves a table, its poller and its rows in the log alone.
LEMMA TableFrame ==
    ASSUME NEW s \in Sources, TableInv(s),
           poller'[s] = poller[s], rows'[s] = rows[s], age'[s] = age[s],
           late'[s] = late[s], crowded'[s] = crowded[s],
           \A i : IsSent(s, i)' <=> IsSent(s, i)
    PROVE  TableInv(s)'
<1>1. Pending(s)' = Pending(s)
  BY DEF Pending
<1>2. Held(s)'
  BY DEF TableInv, Held
<1>3. NeverAgain(s)'
  BY <1>1 DEF TableInv, NeverAgain
<1>4. PassedIsExcused(s)'
  BY <1>1 DEF TableInv, PassedIsExcused, MarkIsWhatWasRead, Over, Dates
<1> QED
  BY <1>2, <1>3, <1>4 DEF TableInv

\* A log that is not written has the same rows.
LEMMA SameLogSameSent ==
    ASSUME UNCHANGED log, NEW s
    PROVE  \A i : IsSent(s, i)' <=> IsSent(s, i)
  BY DEF IsSent, Broadcast

\* A poller between two reads, whose mark stays or is dropped.
LEMMA WaitingKeeps ==
    ASSUME NEW s \in Sources, TableInv(s), UNCHANGED <<rows, log, age, late, crowded>>,
           poller[s].at \in {"tick", "queue"}, poller'[s].at \in {"tick", "queue"},
           poller'[s].mark \in {poller[s].mark, NoMark},
           poller'[s].batch = poller[s].batch, poller'[s].out = poller[s].out
    PROVE  TableInv(s)'
<1>1. Pending(s)' = Pending(s) /\ \A i : IsSent(s, i)' <=> IsSent(s, i)
  BY SameLogSameSent DEF Pending
<1>2. Held(s)'
  BY DEF TableInv, Held
<1>3. NeverAgain(s)'
  BY <1>1 DEF TableInv, NeverAgain
<1>4. PassedIsExcused(s)'
  BY <1>1 DEF TableInv, PassedIsExcused, MarkIsWhatWasRead, Over, Dates
<1> QED
  BY <1>2, <1>3, <1>4 DEF TableInv

\* A stopped poller holds nothing.
LEMMA StoppedKeeps ==
    ASSUME NEW s \in Sources, TableInv(s), UNCHANGED <<rows, log, age, late, crowded>>,
           poller'[s].at = "stopped", poller'[s].mark = NoMark,
           poller'[s].batch = {}, DOMAIN poller'[s].out = {}
    PROVE  TableInv(s)'
<1>1. Pending(s)' = {} /\ \A i : IsSent(s, i)' <=> IsSent(s, i)
  BY SameLogSameSent DEF Pending
<1>2. Held(s)'
  BY DEF Held
<1>3. NeverAgain(s)'
  BY <1>1 DEF TableInv, NeverAgain
<1>4. PassedIsExcused(s)'
  BY DEF PassedIsExcused
<1> QED
  BY <1>2, <1>3, <1>4 DEF TableInv

\* The anchor is at the highest row a read can see, so that what went out
\* before it, if it can still be seen, is behind it.
LEMMA AnchorKeeps ==
    ASSUME FeedTyped, NEW s \in Sources, TableInv(s), Anchor(s)
    PROVE  TableInv(s)'
<1> DEFINE tip == LiveTip(s)
           mark == [floor |-> tip, delivered |-> {}, anchor |-> tip]
<1>0. UNCHANGED <<rows, log, late, crowded>> /\ poller[s].at = "queue"
  BY DEF Anchor, Reading
<1>1. /\ poller'[s].mark = mark /\ poller'[s].at = "queue"
      /\ poller'[s].batch = poller[s].batch /\ poller'[s].out = poller[s].out
  BY <1>0 DEF Anchor, Anchored, FeedTyped, PollerSet
<1>2. DOMAIN age'[s] = {}
  BY DEF Anchor, FeedTyped
<1>3. Pending(s)' = Pending(s) /\ Pending(s) = {} /\ \A i : IsSent(s, i)' <=> IsSent(s, i)
  <2>1. DOMAIN poller[s].out = {}
    BY <1>0 DEF TableInv, Held
  <2> QED
    BY <1>0, <1>1, <2>1, SameLogSameSent DEF Pending
<1>4. poller[s].batch = {}
  BY <1>0 DEF TableInv, Held
<1>5. Held(s)'
  BY <1>0, <1>1 DEF TableInv, Held
<1>6. NeverAgain(s)'
  <2>1. ASSUME NEW i \in Nat, IsSent(s, i) PROVE i <= tip \/ rows[s][i] = "old"
    <3>1. i \in Ids(s) /\ rows[s][i] \in Seen
      BY <2>1 DEF TableInv, NeverAgain
    <3>2. rows[s][i] # "old" => i \in Visible(s)
      BY <3>1 DEF Visible, Seen
    <3> QED
      BY <3>2, VisibleFacts
  <2> HIDE DEF tip
  <2>2. \A i \in Nat : IsSent(s, i)' \/ i \in Pending(s)' =>
             \/ i <= poller'[s].mark.floor
             \/ i \in poller'[s].mark.delivered
             \/ rows'[s][i] = "old" /\ i \notin poller'[s].batch
    BY <1>0, <1>1, <1>3, <1>4, <2>1
  <2> QED
    BY <1>0, <1>1, <1>3, <2>2 DEF TableInv, NeverAgain
<1>7. PassedIsExcused(s)'
  <2>1. tip \in 0 .. LastId[s] /\ LastId[s] \in Nat
    BY VisibleFacts, SourceFacts
  <2> HIDE DEF tip
  <2>2. MarkIsWhatWasRead(s, poller[s].mark)'
    BY <1>1, <1>2, <2>1 DEF MarkIsWhatWasRead
  <2>3. poller'[s].mark.anchor + 1 .. poller'[s].mark.floor = {}
    BY <1>1, <2>1
  <2> QED
    BY <1>1, <1>2, <2>2, <2>3 DEF PassedIsExcused
<1> QED
  BY <1>5, <1>6, <1>7 DEF TableInv

\* A read sees what is visible above the floor, all of it or a full batch.
LEMMA ReadKeeps ==
    ASSUME FeedTyped, NEW s \in Sources, TableInv(s), Read(s)
    PROVE  TableInv(s)'
<1> DEFINE floor == poller[s].mark.floor
           batch == LiveAfter(s, floor)
           above == {i \in Visible(s) : i > floor}
<1>0. /\ UNCHANGED <<rows, log, age, late, crowded>>
      /\ poller[s].at = "queue" /\ poller[s].mark # NoMark
  BY DEF Read, Reading
<1>1. /\ poller'[s].mark = poller[s].mark /\ poller'[s].at = "answer"
      /\ poller'[s].batch = batch /\ poller'[s].out = poller[s].out
  BY <1>0 DEF Read, FeedTyped, PollerSet
<1>2. Pending(s)' = Pending(s) /\ \A i : IsSent(s, i)' <=> IsSent(s, i)
  BY <1>0, <1>1, SameLogSameSent DEF Pending
<1>3. batch = {i \in above : Rank(above, i) < PollBatch}
  BY DEF LiveAfter, Rank
<1>4. \A i \in batch : i \in Ids(s) /\ rows[s][i] \in {"good", "bad"} /\ i > floor
  BY <1>3 DEF Visible
<1>5. Held(s)'
  BY <1>0, <1>1, <1>4 DEF TableInv, Held, Seen
<1>6. NeverAgain(s)'
  BY <1>0, <1>1, <1>2, <1>4 DEF TableInv, NeverAgain
<1>7. ASSUME NEW i \in Ids(s), i > floor, rows[s][i] = "good", i \notin batch
      PROVE  Cardinality(batch) >= PollBatch
  <2>1. above \subseteq Nat /\ IsFiniteSet(above) /\ i \in above
    <3>1. above \subseteq Visible(s)
      OBVIOUS
    <3>2. i \in above
      BY <1>7 DEF Visible
    <3> HIDE DEF above
    <3> QED
      BY <3>1, <3>2, VisibleFacts, FS_Subset
  <2>2. ~(Rank(above, i) < PollBatch)
    BY <1>3, <1>7, <2>1
  <2> HIDE DEF above, batch
  <2> QED
    BY <1>3, <2>1, <2>2, BoundsAssumption, LeftOutOfAFullBatch
<1>8. PassedIsExcused(s)'
  <2> HIDE DEF batch, above
  <2> QED
    BY <1>0, <1>1, <1>2, <1>7 DEF TableInv, PassedIsExcused, MarkIsWhatWasRead, Over
<1> QED
  BY <1>5, <1>6, <1>8 DEF TableInv

\* The id read next above another, among those read.
LEMMA NextReadAbove ==
    ASSUME NEW R, R \subseteq Nat, NEW i \in Nat, NEW x \in R, x > i
    PROVE  \E j \in R : /\ j > i /\ j <= x
                        /\ \A k \in R : k > i => k >= j
<1> DEFINE higher == {k \in R : k > i}
<1>1. higher \subseteq Nat /\ x \in higher
  OBVIOUS
<1>2. PICK j \in higher : \A k \in higher : j <= k
  <2> HIDE DEF higher
  <2> QED
    BY <1>1, LeastId
<1> QED
  BY <1>1, <1>2

\* An answer delivers what is new, once, and moves the floor over what was read
\* and over the holes that were waited for.
LEMMA AnswerKeeps ==
    ASSUME FeedTyped, NEW s \in Sources, TableInv(s), Answer(s)
    PROVE  TableInv(s)'
<1> DEFINE p == poller[s]
           new == NewIds(s)
           read == ReadAt(s)
           after == MarkAfter(s)
           D == p.mark.delivered \cup new
           floor == p.mark.floor
           waiting == {i \in D : i - 1 \notin D \cup {floor} /\ read[i] < GapSettle}
           passed == {i \in D : \A w \in waiting : i < w}
<1>0. Held(s) /\ NeverAgain(s) /\ PassedIsExcused(s)
  BY DEF TableInv
<1>1. /\ p.at = "answer" /\ p.mark \in MarkSet /\ p.mark # NoMark
      /\ new \subseteq p.batch /\ new \subseteq Ids(s) /\ IsFiniteSet(new)
      /\ UNCHANGED <<rows, log, late>>
  BY <1>0, AnswerFacts DEF Held
<1>2. /\ poller'[s].at = IF new = {} THEN "tick" ELSE "send"
      /\ poller'[s].mark = after /\ poller'[s].batch = {}
      /\ poller'[s].out = Prepared(s, new)
      /\ age'[s] = read
  BY <1>0, AnswerFacts DEF FeedTyped
<1>3. /\ after \in MarkSet /\ after.anchor = p.mark.anchor
      /\ after.floor \in {floor} \cup passed
      /\ floor <= after.floor /\ after.floor <= LastId[s]
      /\ \A i \in passed : i <= after.floor
      /\ after.delivered = D \ passed
      /\ \A i \in D : i > floor /\ i \in Ids(s)
  BY MarkAfterFacts
<1>4. /\ DOMAIN read = new \cup DOMAIN age[s]
      /\ DOMAIN read = p.batch \cup DOMAIN age[s]
      /\ \A i \in p.batch : read[i] = 0
      /\ \A i \in DOMAIN age[s] \ p.batch : read[i] = age[s][i]
  BY ReadAtFacts
<1>5. /\ floor \in Nat /\ after.floor \in Nat /\ p.mark.anchor \in Nat
      /\ D \subseteq Nat /\ LastId[s] \in Nat /\ DOMAIN age[s] \subseteq Nat
      /\ Ids(s) \subseteq Nat /\ DOMAIN read \subseteq Nat
  BY <1>1, <1>3, <1>4, SourceFacts DEF MarkSet, FeedTyped
<1>6. /\ Pending(s)' = new \ Undecodable(s)
      /\ \A j, k \in DOMAIN poller'[s].out : poller'[s].out[j] = poller'[s].out[k] => j = k
  <2>1. new \subseteq Nat /\ IsFiniteSet(new)
    BY <1>1, <1>5
  <2> HIDE DEF new
  <2> DEFINE out == Prepared(s, new)
  <2>2. /\ {out[k] : k \in DOMAIN out} = new \ Undecodable(s)
        /\ \A j, k \in DOMAIN out : out[j] = out[k] => j = k
    BY <2>1, PreparedLists
  <2>3. poller'[s].out = out
    BY <1>2
  <2>4. Pending(s)' = {out[k] : k \in DOMAIN out}
    BY <2>3 DEF Pending
  <2> HIDE DEF out
  <2> QED
    BY <2>2, <2>3, <2>4
<1>7. \A i : IsSent(s, i)' <=> IsSent(s, i)
  BY <1>1, SameLogSameSent
<1>8. Pending(s) = {}
  BY <1>0, <1>1 DEF Held, Pending
<1>9. MarkIsWhatWasRead(s, p.mark)
  BY <1>0, <1>1 DEF PassedIsExcused
<1>10. \A i \in D : i \in DOMAIN read
  BY <1>4, <1>9 DEF MarkIsWhatWasRead
<1>11. \A i \in DOMAIN read : i > floor => i \in D
  BY <1>4, <1>9 DEF MarkIsWhatWasRead
<1>12. \A i \in new : i \in p.batch /\ i > floor /\ i \notin p.mark.delivered
  BY DEF NewIds, Fresh
<1>13. \A i \in p.batch : i > floor => i \in D
  BY DEF NewIds, Fresh
<1>14. \A i \in new : rows[s][i] \in Seen /\ ~IsSent(s, i)
  <2>1. \A i \in new : rows[s][i] \in Seen
    BY <1>0, <1>1 DEF Held
  <2>2. ASSUME NEW i \in new, IsSent(s, i) PROVE FALSE
    <3>1. i \in Nat /\ ~(i <= floor)
      BY <1>1, <1>5, <1>12
    <3> QED
      BY <1>0, <1>1, <1>12, <2>2, <3>1 DEF NeverAgain
  <2> QED
    BY <2>1, <2>2
<1>15. Held(s)'
  <2>1. new = {} => DOMAIN poller'[s].out = {}
    <3>1. ASSUME new = {}, NEW k \in DOMAIN poller'[s].out PROVE FALSE
      <4>1. poller'[s].out[k] \in Pending(s)'
        BY <3>1 DEF Pending
      <4> QED
        BY <1>6, <3>1, <4>1
    <3> QED
      BY <3>1
  <2> HIDE DEF new, after
  <2> QED
    BY <1>2, <2>1 DEF Held
<1> HIDE DEF new, read, after
<1>16. \A i \in D : i <= after.floor \/ i \in after.delivered
  BY <1>3
<1>17. NeverAgain(s)'
  <2>1. \A i \in Pending(s)' : i \in Ids(s)' /\ rows'[s][i] \in Seen /\ ~IsSent(s, i)'
    BY <1>1, <1>6, <1>7, <1>14 DEF Ids
  <2>2. \A i \in Nat : IsSent(s, i)' => i \in Ids(s)' /\ rows'[s][i] \in Seen
    BY <1>0, <1>1, <1>7 DEF NeverAgain, Ids
  <2>3. ASSUME NEW i \in Nat, IsSent(s, i)' \/ i \in Pending(s)'
        PROVE  \/ i <= after.floor \/ i \in after.delivered
               \/ rows'[s][i] = "old" /\ i \notin poller'[s].batch
    <3>1. CASE i \in D
      BY <1>16, <3>1
    <3>2. CASE i \notin D
      <4>1. IsSent(s, i)
        BY <1>6, <1>7, <2>3, <3>2
      <4>2. i <= floor \/ rows[s][i] = "old"
        BY <1>0, <1>1, <3>2, <4>1 DEF NeverAgain
      <4> QED
        BY <1>1, <1>2, <1>3, <1>5, <4>2
    <3> QED
      BY <3>1, <3>2
  <2> QED
    BY <1>2, <1>6, <2>1, <2>2, <2>3 DEF NeverAgain
<1>18. MarkIsWhatWasRead(s, poller[s].mark)'
  <2>1. after.anchor <= after.floor /\ after.floor \in 0 .. LastId[s]
    BY <1>3, <1>5, <1>9 DEF MarkIsWhatWasRead
  <2>2. after.floor = after.anchor \/ after.floor \in DOMAIN read
    BY <1>3, <1>4, <1>9, <1>10 DEF MarkIsWhatWasRead
  <2>3. ASSUME NEW i \in after.delivered PROVE i > after.floor /\ i \in DOMAIN read
    <3>1. i \in D /\ i \notin passed
      BY <1>3
    <3>2. PICK w \in waiting : ~(i < w)
      BY <3>1
    <3>3. w \in Nat /\ i \in Nat /\ i > floor
      BY <1>3, <1>5, <3>1
    <3>4. \A x \in passed : x < w
      OBVIOUS
    <3>5. after.floor < i
      BY <1>3, <1>5, <3>2, <3>3, <3>4
    <3> QED
      BY <1>10, <3>1, <3>5
  <2>4. \A i \in DOMAIN read : i > after.floor => i \in after.delivered
    <3>1. ASSUME NEW i \in DOMAIN read, i > after.floor PROVE i \in after.delivered
      <4>1. i \in D
        BY <1>3, <1>5, <1>11, <3>1
      <4>2. i \notin passed
        BY <1>3, <1>5, <3>1
      <4> QED
        BY <1>3, <4>1, <4>2
    <3> QED
      BY <3>1
  <2> QED
    BY <1>2, <2>1, <2>2, <2>3, <2>4 DEF MarkIsWhatWasRead
<1>19. \A i \in DOMAIN read :
          IsSent(s, i)' \/ i \in Pending(s)' \/ rows'[s][i] \in {"bad", "old"}
  <2>1. \A i \in new : i \in Pending(s)' \/ rows[s][i] = "bad"
    BY <1>6 DEF Undecodable
  <2>2. \A i \in DOMAIN age[s] : IsSent(s, i) \/ rows[s][i] \in {"bad", "old"}
    BY <1>0, <1>1, <1>8 DEF PassedIsExcused
  <2> QED
    BY <1>1, <1>4, <1>7, <2>1, <2>2
<1> HIDE DEF D, waiting, passed
<1>20. ASSUME NEW i \in p.mark.anchor + 1 .. floor, i \notin DOMAIN read
       PROVE  /\ Over(s, i)'
              /\ rows'[s][i] = "good" => i \in late[s] \cup crowded[s]
  <2>1. i \in Nat /\ i \notin DOMAIN age[s]
    BY <1>4, <1>5, <1>20
  <2>2. Over(s, i) /\ (rows[s][i] = "good" => i \in late[s] \cup crowded[s])
    BY <1>0, <1>1, <1>20, <2>1 DEF PassedIsExcused
  <2>3. PICK j \in DOMAIN age[s] : /\ j > i /\ \A k \in DOMAIN age[s] : k > i => k >= j
                                   /\ age[s][j] = GapSettle
    BY <2>2 DEF Over
  <2>4. j <= floor
    <3>1. floor \in DOMAIN age[s]
      BY <1>5, <1>9, <1>20 DEF MarkIsWhatWasRead
    <3>2. floor > i
      BY <1>5, <1>20, <2>1, <3>1
    <3> QED
      BY <2>3, <3>1, <3>2, <1>5
  <2>5. \A k \in p.batch : k > floor /\ k \in Nat
    BY <1>0, <1>1, <1>5 DEF Held
  <2>6. j \notin p.batch /\ read[j] = GapSettle /\ j \in DOMAIN read
    BY <1>4, <1>5, <2>3, <2>4, <2>5
  <2>7. \A k \in DOMAIN read : k > i => k >= j
    BY <1>4, <1>5, <2>3, <2>4, <2>5
  <2> QED
    BY <1>1, <1>2, <2>2, <2>3, <2>6, <2>7 DEF Over
<1>21. ASSUME NEW i \in floor + 1 .. after.floor, i \notin DOMAIN read
       PROVE  \E j \in DOMAIN read \ p.batch :
                 /\ j > i /\ \A k \in DOMAIN read : k > i => k >= j
                 /\ read[j] = GapSettle
  <2>1. i \in Nat /\ i > floor /\ i <= after.floor /\ i \notin D
    BY <1>5, <1>10, <1>21
  <2>2. after.floor \in passed /\ after.floor \in D
    <3>1. after.floor # floor
      BY <1>5, <2>1
    <3> QED
      BY <1>3, <3>1 DEF passed
  <2>3. after.floor \in DOMAIN read /\ after.floor > i
    BY <1>5, <1>10, <2>1, <2>2
  <2>4. PICK j \in DOMAIN read : /\ j > i /\ j <= after.floor
                                 /\ \A k \in DOMAIN read : k > i => k >= j
    BY <1>5, <2>1, <2>3, NextReadAbove
  <2>5. j \in D /\ j \in Nat
    BY <1>5, <1>11, <2>1, <2>4
  <2>6. j - 1 \notin D \cup {floor}
    <3>1. j - 1 # floor
      BY <1>5, <2>1, <2>4, <2>5
    <3>2. ASSUME j - 1 \in D PROVE FALSE
      <4>1. j - 1 \in DOMAIN read /\ j - 1 # i
        BY <1>10, <2>1, <3>2
      <4>2. j - 1 > i
        BY <2>1, <2>4, <2>5, <4>1
      <4>3. j - 1 >= j
        BY <2>4, <4>1, <4>2
      <4> QED
        BY <2>5, <4>3
    <3> QED
      BY <3>1, <3>2
  <2>7. j \notin waiting
    <3>1. ASSUME j \in waiting PROVE FALSE
      <4>1. after.floor < j
        BY <2>2, <3>1 DEF passed
      <4> QED
        BY <1>5, <2>4, <2>5, <4>1
    <3> QED
      BY <3>1
  <2>8. ~(read[j] < GapSettle)
    BY <2>5, <2>6, <2>7 DEF waiting
  <2>9. j \notin p.batch
    BY <1>4, <2>8, BoundsAssumption
  <2>10. j \in DOMAIN age[s] /\ read[j] = age[s][j] /\ age[s][j] \in 0 .. GapSettle
    BY <1>4, <2>4, <2>9 DEF FeedTyped
  <2>11. read[j] = GapSettle
    BY <2>8, <2>10, BoundsAssumption
  <2> QED
    BY <2>4, <2>9, <2>11
<1>22. ASSUME NEW i \in floor + 1 .. after.floor, i \notin DOMAIN read,
              rows[s][i] = "good", after # NoMark
       PROVE  i \in late[s] \cup crowded'[s]
  <2>1. PICK j \in DOMAIN read \ p.batch :
           j > i /\ \A k \in DOMAIN read : k > i => k >= j
    BY <1>21, <1>22
  <2>2. j \in DOMAIN age[s] /\ j \in Nat
    BY <1>4, <1>5, <2>1
  <2>3. i \in Nat /\ i > floor /\ i <= after.floor /\ i \in Ids(s)
    BY <1>3, <1>5, <1>22 DEF Ids
  <2>4. i \notin p.batch /\ i \notin DOMAIN age[s]
    BY <1>4, <1>10, <1>13, <1>22, <2>3
  <2>5. i \in late[s] \/ Cardinality(p.batch) >= PollBatch
    <3>1. Dates(s, j, i)
      BY <1>4, <2>1, <2>2 DEF Dates
    <3> QED
      BY <1>0, <1>1, <1>22, <2>2, <2>3, <2>4, <3>1 DEF PassedIsExcused
  <2>6. ASSUME Cardinality(p.batch) >= PollBatch PROVE i \in crowded'[s]
    <3>1. ~(Cardinality(p.batch) < PollBatch)
      <4>1. p.batch \subseteq Ids(s)
        BY <1>0 DEF Held
      <4>2. Cardinality(p.batch) \in Nat
        BY <4>1, SourceFacts, FS_Subset, FS_CardinalityType
      <4> QED
        BY <2>6, <4>2, BoundsAssumption
    <3> DEFINE more == {x \in {y \in Visible(s) \ DOMAIN read :
                                 after # NoMark /\ y <= after.floor} : x > floor}
    <3>2. crowded' = [crowded EXCEPT ![s] = @ \cup more]
      BY <1>0, <3>1, AnswerFacts DEF read, after
    <3>3. i \in more
      BY <1>22, <2>3 DEF Visible
    <3> HIDE DEF more
    <3> QED
      BY <3>2, <3>3 DEF FeedTyped
  <2> QED
    BY <2>5, <2>6
<1>23. \A i \in crowded[s] : i \in crowded'[s]
  <2> DEFINE more == {x \in {y \in Visible(s) \ DOMAIN read :
                               after # NoMark /\ y <= after.floor} : x > floor}
  <2>1. crowded' = crowded \/ crowded' = [crowded EXCEPT ![s] = @ \cup more]
    BY <1>0, AnswerFacts DEF read, after
  <2> HIDE DEF more
  <2> QED
    BY <2>1 DEF FeedTyped
<1>24. PassedIsExcused(s)'
  <2> SUFFICES ASSUME after # NoMark PROVE PassedIsExcused(s)'
    BY <1>2 DEF PassedIsExcused
  <2>1. ASSUME NEW i \in after.anchor + 1 .. after.floor, i \notin DOMAIN read
        PROVE  /\ Over(s, i)'
               /\ rows'[s][i] = "good" => i \in late'[s] \cup crowded'[s]
    <3>1. CASE i <= floor
      <4>1. i \in p.mark.anchor + 1 .. floor
        BY <1>3, <1>5, <2>1, <3>1
      <4> QED
        BY <1>1, <1>20, <1>23, <2>1, <4>1
    <3>2. CASE ~(i <= floor)
      <4>1. i \in floor + 1 .. after.floor
        BY <1>3, <1>5, <2>1, <3>2
      <4>2. Over(s, i)'
        BY <1>2, <1>21, <2>1, <4>1 DEF Over
      <4>3. rows[s][i] = "good" => i \in late[s] \cup crowded'[s]
        BY <1>22, <2>1, <4>1
      <4> QED
        BY <1>1, <4>2, <4>3
    <3> QED
      BY <3>1, <3>2
  <2>2. poller'[s].at # "answer"
    BY <1>2
  <2> QED
    BY <1>2, <1>18, <1>19, <2>1, <2>2 DEF PassedIsExcused
<1> QED
  BY <1>15, <1>17, <1>24 DEF TableInv

\* What a send puts at the end of its topic's log.
Sending(s) == [k \in DOMAIN poller[s].out |-> <<s, poller[s].out[k]>>]

LEMMA SendFacts ==
    ASSUME FeedTyped, NEW s \in Sources, Send(s)
    PROVE  LET t == TopicOf(s)
           IN  /\ t \in Topics /\ log[t] \in Seq(Sources \X Nat)
               /\ Sending(s) \in Seq(Sources \X Nat)
               /\ DOMAIN Sending(s) = DOMAIN poller[s].out
               /\ log'[t] = log[t] \o Sending(s)
               /\ \A u \in Topics \ {t} : log'[u] = log[u]
<1>1. TopicOf(s) \in Topics /\ log \in [Topics -> Seq(Sources \X Nat)]
  BY SourceFacts DEF FeedTyped
<1>2. poller[s].out \in Seq(Nat)
  BY DEF FeedTyped, PollerSet
<1>3. Sending(s) \in Seq(Sources \X Nat) /\ DOMAIN Sending(s) = DOMAIN poller[s].out
  BY <1>2 DEF Sending
<1>4. log' = [log EXCEPT ![TopicOf(s)] = @ \o Sending(s)]
  BY DEF Send, Sending
<1> QED
  BY <1>1, <1>3, <1>4

\* The entries of a log that was appended to.
LEMMA AppendedEntries ==
    ASSUME NEW E, NEW a \in Seq(E), NEW b \in Seq(E)
    PROVE  /\ Len(a \o b) = Len(a) + Len(b)
           /\ \A k \in DOMAIN a : k \in DOMAIN (a \o b) /\ (a \o b)[k] = a[k]
           /\ \A k \in DOMAIN b : Len(a) + k \in DOMAIN (a \o b) /\ (a \o b)[Len(a) + k] = b[k]
           /\ \A k \in DOMAIN (a \o b) :
                 \/ k \in DOMAIN a
                 \/ k - Len(a) \in DOMAIN b /\ (a \o b)[k] = b[k - Len(a)]
  OBVIOUS

\* What is sent after a send: what was, and what the poller held.
LEMMA SentAfterSend ==
    ASSUME FeedTyped, NEW s \in Sources, Send(s)
    PROVE  /\ \A i : IsSent(s, i)' <=> IsSent(s, i) \/ i \in Pending(s)
           /\ \A r \in Sources \ {s} : \A i : IsSent(r, i)' <=> IsSent(r, i)
<1> DEFINE t == TopicOf(s)
           old == log[t]
           new == Sending(s)
<1>1. /\ t \in Topics /\ old \in Seq(Sources \X Nat) /\ new \in Seq(Sources \X Nat)
      /\ log'[t] = old \o new /\ \A u \in Topics \ {t} : log'[u] = log[u]
      /\ DOMAIN new = DOMAIN poller[s].out
  BY SendFacts
<1>2. \A k \in DOMAIN new : new[k] = <<s, poller[s].out[k]>>
  BY <1>1 DEF Sending
<1> HIDE DEF old, new
<1>3. ASSUME NEW x
      PROVE  (\E k \in DOMAIN (old \o new) : (old \o new)[k] = x)
               <=> (\E k \in DOMAIN old : old[k] = x) \/ (\E k \in DOMAIN new : new[k] = x)
  <2>1. ASSUME NEW k \in DOMAIN (old \o new), (old \o new)[k] = x
        PROVE  (\E j \in DOMAIN old : old[j] = x) \/ (\E j \in DOMAIN new : new[j] = x)
    BY <1>1, <2>1, AppendedEntries
  <2>2. ASSUME NEW k \in DOMAIN old, old[k] = x
        PROVE  \E j \in DOMAIN (old \o new) : (old \o new)[j] = x
    BY <1>1, <2>2, AppendedEntries
  <2>3. ASSUME NEW k \in DOMAIN new, new[k] = x
        PROVE  \E j \in DOMAIN (old \o new) : (old \o new)[j] = x
    <3>1. Len(old) + k \in DOMAIN (old \o new) /\ (old \o new)[Len(old) + k] = new[k]
      BY <1>1, <2>3, AppendedEntries
    <3> QED
      BY <2>3, <3>1, Zenon
  <2> QED
    BY <2>1, <2>2, <2>3
<1>4. ASSUME NEW r \in Sources, NEW i
      PROVE  IsSent(r, i)' <=> IsSent(r, i) \/ (r = s /\ i \in Pending(s))
  <2>1. IsSent(r, i) <=> \E k \in DOMAIN log[TopicOf(r)] : log[TopicOf(r)][k] = <<r, i>>
    BY DEF IsSent, Broadcast
  <2>2. IsSent(r, i)' <=> \E k \in DOMAIN log'[TopicOf(r)] : log'[TopicOf(r)][k] = <<r, i>>
    BY DEF IsSent, Broadcast
  <2>3. (\E k \in DOMAIN new : new[k] = <<r, i>>) <=> r = s /\ i \in Pending(s)
    BY <1>1, <1>2 DEF Pending
  <2>4. CASE TopicOf(r) = t
    <3>1. log[TopicOf(r)] = old /\ log'[TopicOf(r)] = old \o new
      BY <1>1, <2>4 DEF old
    <3>2. (\E k \in DOMAIN (old \o new) : (old \o new)[k] = <<r, i>>)
            <=> (\E k \in DOMAIN old : old[k] = <<r, i>>)
                  \/ (\E k \in DOMAIN new : new[k] = <<r, i>>)
      BY <1>3
    <3> QED
      BY <2>1, <2>2, <2>3, <3>1, <3>2, Zenon
  <2>5. CASE TopicOf(r) # t
    <3>1. TopicOf(r) \in Topics
      BY SourceFacts
    <3>2. log'[TopicOf(r)] = log[TopicOf(r)]
      BY <1>1, <2>5, <3>1
    <3> QED
      BY <2>1, <2>2, <2>5, <3>2
  <2> QED
    BY <2>4, <2>5
<1> QED
  BY <1>4

\* A send empties the poller's hands into the log.
LEMMA SendKeeps ==
    ASSUME FeedTyped, NEW s \in Sources, TableInv(s), Send(s)
    PROVE  TableInv(s)'
<1>1. UNCHANGED <<rows, age, late, crowded>> /\ poller[s].at = "send"
  BY DEF Send
<1>2. /\ poller'[s].mark = poller[s].mark /\ poller'[s].at = "tick"
      /\ poller'[s].batch = poller[s].batch /\ DOMAIN poller'[s].out = {}
  BY DEF Send, FeedTyped, PollerSet
<1>3. Pending(s)' = {}
  BY <1>2 DEF Pending
<1>4. \A i : IsSent(s, i)' <=> IsSent(s, i) \/ i \in Pending(s)
  BY SentAfterSend
<1>5. Held(s)'
  BY <1>1, <1>2 DEF TableInv, Held
<1>6. NeverAgain(s)'
  BY <1>1, <1>2, <1>3, <1>4 DEF TableInv, NeverAgain
<1>7. PassedIsExcused(s)'
  BY <1>1, <1>2, <1>4 DEF TableInv, PassedIsExcused, MarkIsWhatWasRead, Over, Dates
<1> QED
  BY <1>5, <1>6, <1>7 DEF TableInv

\* Every step of the table's own poller.
LEMMA PollKeeps ==
    ASSUME FeedTyped, NEW s \in Sources, TableInv(s), Poll(s) \/ QueryFails(s)
    PROVE  TableInv(s)'
<1>0. poller[s] \in PollerSet
  BY DEF FeedTyped
<1>1. CASE TickIdle(s) \/ Tick(s) \/ QueryFails(s) \/ ReadRefused(s)
  <2>1. UNCHANGED <<rows, log, age, late, crowded>> /\ poller[s].at \in {"tick", "queue"}
    BY <1>1 DEF TickIdle, Tick, QueryFails, ReadRefused, Reading
  <2>2. /\ poller'[s].at \in {"tick", "queue"} /\ poller'[s].mark \in {poller[s].mark, NoMark}
        /\ poller'[s].batch = poller[s].batch /\ poller'[s].out = poller[s].out
    BY <1>0, <1>1, <2>1 DEF TickIdle, Tick, QueryFails, ReadRefused, FeedTyped, PollerSet
  <2> QED
    BY <2>1, <2>2, WaitingKeeps
<1>2. CASE PollerStops(s)
  <2>1. UNCHANGED <<rows, log, age, late, crowded>>
    BY <1>2 DEF PollerStops
  <2>2. /\ poller'[s].at = "stopped" /\ poller'[s].mark = NoMark
        /\ poller'[s].batch = {} /\ DOMAIN poller'[s].out = {}
    BY <1>2 DEF PollerStops, Idle, FeedTyped
  <2> QED
    BY <2>1, <2>2, StoppedKeeps
<1> QED
  BY <1>1, <1>2, AnchorKeeps, ReadKeeps, AnswerKeeps, SendKeeps DEF Poll

\* Another table's poller.
LEMMA PollOfAnother ==
    ASSUME FeedTyped, NEW r \in Sources, TableInv(r), Poll(r) \/ QueryFails(r),
           NEW s \in Sources, s # r, TableInv(s)
    PROVE  TableInv(s)'
<1>1. poller'[s] = poller[s] /\ age'[s] = age[s] /\ crowded'[s] = crowded[s]
  BY DEF Poll, TickIdle, Tick, Anchor, ReadRefused, Read, Answer, Send, PollerStops, QueryFails,
         FeedTyped
<1>2. UNCHANGED <<rows, late>>
  BY DEF Poll, TickIdle, Tick, Anchor, ReadRefused, Read, Answer, Send, PollerStops, QueryFails
<1>3. \A i : IsSent(s, i)' <=> IsSent(s, i)
  <2>1. CASE Send(r)
    BY <2>1, SentAfterSend
  <2>2. CASE ~Send(r)
    <3>1. UNCHANGED log
      BY <2>2 DEF Poll, TickIdle, Tick, Anchor, ReadRefused, Read, Answer, PollerStops, QueryFails
    <3> QED
      BY <3>1, SameLogSameSent
  <2> QED
    BY <2>1, <2>2
<1> QED
  BY <1>1, <1>2, <1>3, TableFrame

\* What may become of a table's rows: what was seen stays seen, and a row that
\* appears was not there, and is late if its hole could be passed.
LEMMA RowFacts ==
    ASSUME FeedTyped, NEW s \in Sources, NEW i \in Ids(s), Table(s, i)
    PROVE  /\ \A k \in Ids(s) : rows[s][k] \in Seen => rows'[s][k] \in Seen
           /\ \A k \in Ids(s) : rows[s][k] = "old" => rows'[s][k] = "old"
           /\ \A k \in Ids(s) : rows[s][k] \in {"bad", "old"} => rows'[s][k] \in {"bad", "old"}
           /\ \A k \in Ids(s) : rows'[s][k] = "good" =>
                 \/ rows[s][k] = "good"
                 \/ rows[s][k] = "open" /\ (HoleIsOver(s, k) => k \in late'[s])
           /\ late[s] \subseteq late'[s]
           /\ UNCHANGED <<poller, log, age, crowded>>
           /\ \A r \in Sources \ {s} : rows'[r] = rows[r] /\ late'[r] = late[r]
<1>0. UNCHANGED <<poller, log, age, crowded>>
  BY DEF Table, TakeId, Rollback, Age, Commit
<1>1. ASSUME NEW row, rows' = [rows EXCEPT ![s][i] = row]
      PROVE  /\ rows'[s][i] = row /\ \A k \in Ids(s) \ {i} : rows'[s][k] = rows[s][k]
             /\ \A r \in Sources \ {s} : rows'[r] = rows[r]
  BY <1>1 DEF FeedTyped
<1>2. CASE TakeId(s, i)
  <2>1. rows[s][i] = "none" /\ rows' = [rows EXCEPT ![s][i] = "open"] /\ late' = late
    BY <1>2 DEF TakeId
  <2> QED
    BY <1>0, <1>1, <2>1 DEF Seen
<1>3. CASE Rollback(s, i)
  <2>1. rows[s][i] = "open" /\ rows' = [rows EXCEPT ![s][i] = "void"] /\ late' = late
    BY <1>3 DEF Rollback
  <2> QED
    BY <1>0, <1>1, <2>1 DEF Seen
<1>4. CASE Age(s, i)
  <2>1. rows[s][i] \in {"good", "bad"} /\ rows' = [rows EXCEPT ![s][i] = "old"] /\ late' = late
    BY <1>4 DEF Age, Visible
  <2> QED
    BY <1>0, <1>1, <2>1 DEF Seen
<1>5. ASSUME NEW row \in {"good", "bad"}, Commit(s, i, row)
      PROVE  /\ \A k \in Ids(s) : rows[s][k] \in Seen => rows'[s][k] \in Seen
             /\ \A k \in Ids(s) : rows[s][k] = "old" => rows'[s][k] = "old"
             /\ \A k \in Ids(s) : rows[s][k] \in {"bad", "old"} => rows'[s][k] \in {"bad", "old"}
             /\ \A k \in Ids(s) : rows'[s][k] = "good" =>
                   \/ rows[s][k] = "good"
                   \/ rows[s][k] = "open" /\ (HoleIsOver(s, k) => k \in late'[s])
             /\ late[s] \subseteq late'[s]
             /\ \A r \in Sources \ {s} : rows'[r] = rows[r] /\ late'[r] = late[r]
  <2>1. /\ rows[s][i] = "open" /\ rows' = [rows EXCEPT ![s][i] = row]
        /\ late' = IF row = "good" /\ HoleIsOver(s, i)
                   THEN [late EXCEPT ![s] = @ \cup {i}] ELSE late
    BY <1>5 DEF Commit
  <2>2. /\ late[s] \subseteq late'[s] /\ (row = "good" /\ HoleIsOver(s, i) => i \in late'[s])
        /\ \A r \in Sources \ {s} : late'[r] = late[r]
    BY <2>1 DEF FeedTyped
  <2>3. /\ rows'[s][i] = row /\ \A k \in Ids(s) \ {i} : rows'[s][k] = rows[s][k]
        /\ \A r \in Sources \ {s} : rows'[r] = rows[r]
    BY <1>1, <2>1
  <2>4. \A k \in Ids(s) : rows'[s][k] = "good" =>
           \/ rows[s][k] = "good"
           \/ rows[s][k] = "open" /\ (HoleIsOver(s, k) => k \in late'[s])
    BY <2>1, <2>2, <2>3
  <2> QED
    BY <1>5, <2>1, <2>2, <2>3, <2>4 DEF Seen
<1> QED
  BY <1>0, <1>2, <1>3, <1>4, <1>5 DEF Table

\* The table a row belongs to.
LEMMA RowKeeps ==
    ASSUME FeedTyped, NEW s \in Sources, TableInv(s), NEW i \in Ids(s), Table(s, i)
    PROVE  TableInv(s)'
<1>0. Held(s) /\ NeverAgain(s) /\ PassedIsExcused(s)
  BY DEF TableInv
<1>1. /\ \A k \in Ids(s) : rows[s][k] \in Seen => rows'[s][k] \in Seen
      /\ \A k \in Ids(s) : rows[s][k] = "old" => rows'[s][k] = "old"
      /\ \A k \in Ids(s) : rows[s][k] \in {"bad", "old"} => rows'[s][k] \in {"bad", "old"}
      /\ \A k \in Ids(s) : rows'[s][k] = "good" =>
            \/ rows[s][k] = "good"
            \/ rows[s][k] = "open" /\ (HoleIsOver(s, k) => k \in late'[s])
      /\ late[s] \subseteq late'[s]
      /\ UNCHANGED <<poller, log, age, crowded>>
  BY RowFacts
<1>2. Pending(s)' = Pending(s) /\ \A k : IsSent(s, k)' <=> IsSent(s, k)
  BY <1>1, SameLogSameSent DEF Pending
<1>3. Held(s)'
  BY <1>0, <1>1 DEF Held
<1>4. NeverAgain(s)'
  BY <1>0, <1>1, <1>2 DEF NeverAgain
<1>5. PassedIsExcused(s)'
  <2> SUFFICES ASSUME poller[s].mark # NoMark PROVE PassedIsExcused(s)'
    BY <1>1 DEF PassedIsExcused
  <2> DEFINE mark == poller[s].mark
  <2>0. /\ mark \in MarkSet /\ mark.floor \in Nat /\ mark.anchor \in Nat
        /\ DOMAIN age[s] \subseteq Ids(s) /\ Ids(s) \subseteq Nat /\ LastId[s] \in Nat
    BY SourceFacts DEF FeedTyped, PollerSet, MarkSet
  <2>1. MarkIsWhatWasRead(s, mark)
    BY <1>0 DEF PassedIsExcused
  <2>2. MarkIsWhatWasRead(s, poller[s].mark)'
    BY <1>1, <2>1 DEF MarkIsWhatWasRead
  <2>3. \A k \in DOMAIN age[s] :
           IsSent(s, k) \/ k \in Pending(s) \/ rows'[s][k] \in {"bad", "old"}
    BY <1>0, <1>1, <2>0 DEF PassedIsExcused
  <2>4. ASSUME NEW k \in mark.anchor + 1 .. mark.floor, k \notin DOMAIN age[s]
        PROVE  Over(s, k) /\ (rows'[s][k] = "good" => k \in late'[s] \cup crowded[s])
    <3>1. Over(s, k) /\ (rows[s][k] = "good" => k \in late[s] \cup crowded[s])
      BY <1>0, <2>4 DEF PassedIsExcused
    <3>2. k \in Ids(s)
      BY <2>0, <2>1, <2>4 DEF MarkIsWhatWasRead, Ids
    <3>3. HoleIsOver(s, k)
      <4>1. PICK j \in DOMAIN age[s] : /\ j > k /\ \A l \in DOMAIN age[s] : l > k => l >= j
                                       /\ age[s][j] = GapSettle
        BY <3>1 DEF Over
      <4>2. k \in Nat /\ j \in Nat /\ k <= mark.floor /\ j <= mark.floor
        <5>1. k \in Nat /\ k <= mark.floor /\ k # mark.anchor /\ k > mark.anchor
          BY <2>0, <2>4
        <5>2. mark.floor \in DOMAIN age[s]
          BY <2>0, <2>1, <5>1 DEF MarkIsWhatWasRead
        <5>3. k < mark.floor
          BY <2>0, <2>4, <5>1, <5>2
        <5> QED
          BY <2>0, <4>1, <5>1, <5>2, <5>3
      <4>3. \A l \in poller[s].batch : l > mark.floor /\ l \in Nat
        BY <1>0, <2>0 DEF Held
      <4>4. Dates(s, j, k)
        BY <2>0, <4>1, <4>2, <4>3 DEF Dates
      <4> QED
        BY <4>1, <4>2, <4>4 DEF HoleIsOver
    <3> QED
      BY <1>1, <3>1, <3>2, <3>3
  <2>5. ASSUME poller[s].at = "answer", NEW k \in Ids(s), k > mark.floor, rows'[s][k] = "good",
               k \notin DOMAIN age[s], k \notin poller[s].batch
        PROVE  \/ k \in late'[s]
               \/ Cardinality(poller[s].batch) >= PollBatch
               \/ \A j \in DOMAIN age[s] : ~Dates(s, j, k)
    <3>1. CASE rows[s][k] = "good"
      BY <1>0, <1>1, <2>5, <3>1 DEF PassedIsExcused
    <3>2. CASE HoleIsOver(s, k) => k \in late'[s]
      <4>1. ASSUME NEW j \in DOMAIN age[s], Dates(s, j, k) PROVE HoleIsOver(s, k)
        BY <2>5, <4>1 DEF HoleIsOver
      <4> QED
        BY <3>2, <4>1
    <3> QED
      BY <1>1, <2>5, <3>1, <3>2
  <2>6. \A k \in Nat : Over(s, k)' <=> Over(s, k)
    BY <1>1 DEF Over
  <2>7. \A j, k : Dates(s, j, k)' <=> Dates(s, j, k)
    BY <1>1 DEF Dates
  <2> QED
    BY <1>1, <1>2, <2>0, <2>2, <2>3, <2>4, <2>5, <2>6, <2>7 DEF PassedIsExcused, Ids
<1> QED
  BY <1>3, <1>4, <1>5 DEF TableInv

\* Time.
LEMMA ClockKeeps ==
    ASSUME FeedTyped, NEW s \in Sources, TableInv(s), Clock
    PROVE  TableInv(s)'
<1>0. UNCHANGED <<rows, poller, log, late, crowded>>
  BY DEF Clock
<1>1. /\ DOMAIN age'[s] = DOMAIN age[s]
      /\ \A i \in DOMAIN age[s] : age[s][i] = GapSettle => age'[s][i] = GapSettle
  BY ClockFacts
<1>2. Pending(s)' = Pending(s) /\ \A k : IsSent(s, k)' <=> IsSent(s, k)
  BY <1>0, SameLogSameSent DEF Pending
<1>3. Held(s)'
  BY <1>0 DEF TableInv, Held
<1>4. NeverAgain(s)'
  BY <1>0, <1>2 DEF TableInv, NeverAgain
<1>5. \A i : Over(s, i) => Over(s, i)'
  BY <1>1 DEF Over
<1>6. \A j, i : Dates(s, j, i)' <=> Dates(s, j, i)
  BY <1>0, <1>1 DEF Dates
<1>7. PassedIsExcused(s)'
  BY <1>0, <1>1, <1>2, <1>5, <1>6 DEF TableInv, PassedIsExcused, MarkIsWhatWasRead
<1> QED
  BY <1>3, <1>4, <1>7 DEF TableInv

\* Every step, for every table.
LEMMA TablesStep ==
    ASSUME FeedTyped, \A s \in Sources : TableInv(s), [Next]_vars
    PROVE  \A s \in Sources : TableInv(s)'
<1> SUFFICES ASSUME NEW s \in Sources PROVE TableInv(s)'
  OBVIOUS
<1>1. ASSUME NEW r \in Sources, Poll(r) \/ QueryFails(r) PROVE TableInv(s)'
  <2>1. CASE r = s
    BY <1>1, <2>1, PollKeeps
  <2>2. CASE r # s
    BY <1>1, <2>2, PollOfAnother
  <2> QED
    BY <2>1, <2>2
<1>2. ASSUME NEW r \in Sources, NEW i \in Ids(r), Table(r, i) PROVE TableInv(s)'
  <2>1. CASE r = s
    BY <1>2, <2>1, RowKeeps
  <2>2. CASE r # s
    <3>1. rows'[s] = rows[s] /\ late'[s] = late[s] /\ UNCHANGED <<poller, log, age, crowded>>
      BY <1>2, <2>2, RowFacts
    <3>2. \A k : IsSent(s, k)' <=> IsSent(s, k)
      BY <3>1, SameLogSameSent
    <3> QED
      BY <3>1, <3>2, TableFrame
  <2> QED
    BY <2>1, <2>2
<1>3. CASE Clock
  BY <1>3, ClockKeeps
<1>4. CASE Stop \/ UNCHANGED vars \/ \E c \in Clients : Connection(c)
  <2>1. UNCHANGED <<rows, poller, log, age, late, crowded>>
    BY <1>4 DEF Stop, vars, Connection, Connect, Receive, End, Leave, Close
  <2>2. \A i : IsSent(s, i)' <=> IsSent(s, i)
    BY <2>1, SameLogSameSent
  <2> QED
    BY <2>1, <2>2, TableFrame
<1> QED
  BY <1>1, <1>2, <1>3, <1>4 DEF Next

-----------------------------------------------------------------------------
(***************************************************************************)
(* The logs and the connections.                                           *)
(***************************************************************************)

\* Only a send writes a log.
LEMMA OnlySendsWrite ==
    ASSUME [Next]_vars
    PROVE  UNCHANGED log \/ \E s \in Sources : Send(s)
  BY DEF Next, Poll, TickIdle, Tick, Anchor, ReadRefused, Read, Answer, PollerStops, QueryFails,
         Table, TakeId, Rollback, Age, Commit, Connection, Connect, Receive, End, Leave, Close,
         Stop, Clock, vars

\* A topic hears of each row of its tables once.
LEMMA LogStep ==
    ASSUME FeedTyped, \A s \in Sources : TableInv(s), BroadcastOnce, [Next]_vars
    PROVE  BroadcastOnce'
<1>1. CASE UNCHANGED log
  BY <1>1 DEF BroadcastOnce
<1>2. ASSUME NEW s \in Sources, Send(s) PROVE BroadcastOnce'
  <2> DEFINE t == TopicOf(s)
             old == log[t]
             new == Sending(s)
             cat == old \o new
  <2>1. /\ t \in Topics /\ old \in Seq(Sources \X Nat) /\ new \in Seq(Sources \X Nat)
        /\ log'[t] = cat /\ \A u \in Topics \ {t} : log'[u] = log[u]
        /\ DOMAIN new = DOMAIN poller[s].out
    BY <1>2, SendFacts
  <2>2. \A k \in DOMAIN new : new[k] = <<s, poller[s].out[k]>>
    BY <2>1 DEF Sending
  <2>3. \A j, k \in DOMAIN new : new[j] = new[k] => j = k
    BY <2>1, <2>2 DEF TableInv, NeverAgain
  <2>4. ASSUME NEW j \in DOMAIN old, NEW k \in DOMAIN new, old[j] = new[k] PROVE FALSE
    <3>1. old[j] = <<s, poller[s].out[k]>>
      BY <2>2, <2>4
    <3>2. IsSent(s, poller[s].out[k])
      BY <3>1 DEF IsSent, Broadcast
    <3>3. poller[s].out[k] \in Pending(s)
      BY <2>1 DEF Pending
    <3> QED
      BY <3>2, <3>3 DEF TableInv, NeverAgain
  <2>5. \A j, k \in DOMAIN old : old[j] = old[k] => j = k
    BY <2>1 DEF BroadcastOnce
  <2> HIDE DEF old, new, t
  <2>6. /\ Len(old) \in Nat /\ DOMAIN cat \subseteq Nat
        /\ \A k \in DOMAIN old : cat[k] = old[k]
        /\ \A k \in DOMAIN cat :
              k \in DOMAIN old \/ (k - Len(old) \in DOMAIN new /\ cat[k] = new[k - Len(old)])
    <3>1. Len(old) \in Nat /\ DOMAIN cat \subseteq Nat
      BY <2>1
    <3> QED
      BY <2>1, <3>1, AppendedEntries
  <2> HIDE DEF cat
  <2>7. \A j, k \in DOMAIN cat : cat[j] = cat[k] => j = k
    <3> SUFFICES ASSUME NEW j \in DOMAIN cat, NEW k \in DOMAIN cat, cat[j] = cat[k] PROVE j = k
      OBVIOUS
    <3>1. CASE j \in DOMAIN old /\ k \in DOMAIN old
      BY <2>5, <2>6, <3>1
    <3>2. CASE j \in DOMAIN old /\ k \notin DOMAIN old
      BY <2>4, <2>6, <3>2
    <3>3. CASE j \notin DOMAIN old /\ k \in DOMAIN old
      BY <2>4, <2>6, <3>3
    <3>4. CASE j \notin DOMAIN old /\ k \notin DOMAIN old
      <4>1. j - Len(old) = k - Len(old)
        BY <2>3, <2>6, <3>4
      <4> QED
        BY <2>6, <4>1
    <3> QED
      BY <3>1, <3>2, <3>3, <3>4
  <2>8. ASSUME NEW u \in Topics
         PROVE  \A j, k \in DOMAIN log'[u] : log'[u][j] = log'[u][k] => j = k
    <3>1. CASE u = t
      BY <2>1, <2>7, <3>1
    <3>2. CASE u # t
      BY <2>1, <3>2 DEF BroadcastOnce
    <3> QED
      BY <3>1, <3>2
  <2> QED
    BY <2>8 DEF BroadcastOnce
<1> QED
  BY <1>1, <1>2, OnlySendsWrite

\* A log only grows at its end, so what was received stays what was broadcast.
LEMMA GrownLog ==
    ASSUME NEW E, NEW a \in Seq(E), NEW b \in Seq(E), NEW m \in Nat, NEW n \in Nat, n <= Len(a)
    PROVE  SubSeq(a \o b, m + 1, n) = SubSeq(a, m + 1, n)
  OBVIOUS

\* One more message received is one more of the log.
LEMMA OneMore ==
    ASSUME NEW E, NEW a \in Seq(E), NEW m \in Nat, NEW n \in Nat, m <= n, n < Len(a)
    PROVE  Append(SubSeq(a, m + 1, n), a[n + 1]) = SubSeq(a, m + 1, n + 1)
  OBVIOUS

\* The connections and the logs they follow.
LEMMA ConnStep ==
    ASSUME FeedTyped, ConnInv, [Next]_vars
    PROVE  ConnInv'
<1>0. \A u \in Topics : log[u] \in Seq(Sources \X Nat) /\ Len(log[u]) \in Nat
  BY DEF FeedTyped
<1>1. CASE UNCHANGED <<conn, log>>
  BY <1>1 DEF ConnInv
<1>2. ASSUME NEW s \in Sources, Send(s) PROVE ConnInv'
  <2> DEFINE t == TopicOf(s)
             old == log[t]
             new == Sending(s)
  <2>1. /\ t \in Topics /\ old \in Seq(Sources \X Nat) /\ new \in Seq(Sources \X Nat)
        /\ log'[t] = old \o new /\ \A u \in Topics \ {t} : log'[u] = log[u]
    BY <1>2, SendFacts
  <2>2. UNCHANGED conn
    BY <1>2 DEF Send
  <2> HIDE DEF new
  <2>3. ASSUME NEW c \in Clients, conn[c] # NoConn, NEW u \in Topics
        PROVE  /\ conn[c].from[u] <= conn[c].pos[u] /\ conn[c].pos[u] <= Len(log'[u])
               /\ ~conn[c].other =>
                    conn[c].got[u] = SubSeq(log'[u], conn[c].from[u] + 1, conn[c].pos[u])
    <3>1. /\ conn[c].from[u] \in Nat /\ conn[c].pos[u] \in Nat
          /\ conn[c].from[u] <= conn[c].pos[u] /\ conn[c].pos[u] <= Len(log[u])
          /\ ~conn[c].other =>
               conn[c].got[u] = SubSeq(log[u], conn[c].from[u] + 1, conn[c].pos[u])
      BY <2>3 DEF ConnInv, ConnSet
    <3>2. CASE u = t
      <4>1. Len(old \o new) = Len(old) + Len(new) /\ Len(new) \in Nat
        BY <2>1
      <4>2. SubSeq(old \o new, conn[c].from[u] + 1, conn[c].pos[u])
              = SubSeq(old, conn[c].from[u] + 1, conn[c].pos[u])
        <5>1. conn[c].pos[u] <= Len(old)
          BY <3>1, <3>2
        <5>2. \A m, n \in Nat : n <= Len(old) => SubSeq(old \o new, m + 1, n) = SubSeq(old, m + 1, n)
          <6> HIDE DEF old
          <6> QED
            BY <2>1, GrownLog
        <5> HIDE DEF old
        <5> QED
          BY <3>1, <5>1, <5>2, Zenon
      <4>3. conn[c].pos[u] <= Len(old \o new)
        BY <1>0, <2>1, <3>1, <3>2, <4>1
      <4> QED
        BY <2>1, <3>1, <3>2, <4>2, <4>3
    <3>3. CASE u # t
      BY <2>1, <3>1, <3>3
    <3> QED
      BY <3>2, <3>3
  <2> QED
    BY <2>2, <2>3 DEF ConnInv
<1>3. ASSUME NEW c \in Clients, UNCHANGED log, NEW new \in ConnSet \cup {NoConn},
             conn' = [conn EXCEPT ![c] = new],
             new # NoConn =>
               \A t \in Topics :
                  /\ new.from[t] <= new.pos[t] /\ new.pos[t] <= Len(log[t])
                  /\ ~new.other => new.got[t] = SubSeq(log[t], new.from[t] + 1, new.pos[t])
      PROVE  ConnInv'
  <2>1. conn' \in [Clients -> ConnSet \cup {NoConn}]
    BY <1>3 DEF ConnInv
  <2>2. conn'[c] = new /\ \A d \in Clients \ {c} : conn'[d] = conn[d]
    BY <1>3 DEF ConnInv
  <2> QED
    BY <1>3, <2>1, <2>2 DEF ConnInv
<1>4. ASSUME NEW c \in Clients, NEW request \in Requests, Connect(c, request) PROVE ConnInv'
  <2> DEFINE here == [t \in Topics |-> Len(log[t])]
             topics == IF request.other THEN request.topics \cap {"signals"} ELSE request.topics
             none == [t \in Topics |-> <<>>]
             new == [topics |-> topics, other |-> request.other,
                     from |-> here, pos |-> here, got |-> none]
  <2>1. conn' = [conn EXCEPT ![c] = new] /\ UNCHANGED log
    BY <1>4 DEF Connect
  <2>2. topics \in SUBSET Topics
    BY RequestsAssumption
  <2>3. request.other \in BOOLEAN
    BY RequestsAssumption, Zenon
  <2>4. here \in [Topics -> Nat]
    BY <1>0
  <2>5. none \in [Topics -> Seq(Sources \X Nat)]
    OBVIOUS
  <2>6. new \in ConnSet
    <3> HIDE DEF topics, here, none
    <3> QED
      BY <2>2, <2>3, <2>4, <2>5, Zenon DEF ConnSet
  <2>7. ASSUME NEW t \in Topics
        PROVE  new.from[t] <= new.pos[t] /\ new.pos[t] <= Len(log[t])
               /\ new.got[t] = SubSeq(log[t], new.from[t] + 1, new.pos[t])
    <3>1. new.from[t] = Len(log[t]) /\ new.pos[t] = Len(log[t]) /\ new.got[t] = <<>>
      OBVIOUS
    <3>2. SubSeq(log[t], Len(log[t]) + 1, Len(log[t])) = <<>>
      BY <1>0
    <3> HIDE DEF new
    <3>3. Len(log[t]) <= Len(log[t])
      BY <1>0
    <3> QED
      BY <3>1, <3>2, <3>3, Zenon
  <2> HIDE DEF new
  <2> QED
    BY <1>3, <2>1, <2>6, <2>7
<1>5. ASSUME NEW c \in Clients, NEW t \in Topics, Receive(c, t) PROVE ConnInv'
  <2> DEFINE old == conn[c]
             next == old.pos[t] + 1
             told == IF old.other THEN old.got[t] ELSE Append(old.got[t], log[t][next])
             new == [old EXCEPT !.pos[t] = next, !.got[t] = told]
  <2>1. old \in ConnSet /\ old # NoConn /\ UNCHANGED log /\ old.pos[t] < Len(log[t])
    BY <1>5 DEF Receive, ConnInv
  <2>2. conn' = [conn EXCEPT ![c] = new]
    BY <1>5, <2>1 DEF Receive, ConnInv, ConnSet
  <2>3. /\ old.from \in [Topics -> Nat] /\ old.pos \in [Topics -> Nat]
        /\ old.got \in [Topics -> Seq(Sources \X Nat)]
    BY <2>1 DEF ConnSet
  <2>4. told \in Seq(Sources \X Nat)
    <3>1. next \in 1 .. Len(log[t])
      BY <1>0, <2>1, <2>3
    <3>2. log[t][next] \in Sources \X Nat
      BY <1>0, <3>1
    <3> HIDE DEF next
    <3> QED
      BY <2>3, <3>2
  <2>5. /\ new.from = old.from /\ new.other = old.other
        /\ new.pos = [old.pos EXCEPT ![t] = next] /\ new.got = [old.got EXCEPT ![t] = told]
        /\ new \in ConnSet
    <3>1. next \in Nat
      BY <2>3
    <3> HIDE DEF next, told
    <3> QED
      BY <2>1, <2>3, <2>4, <3>1 DEF ConnSet
  <2>6. ASSUME NEW u \in Topics
        PROVE  /\ old.from[u] <= old.pos[u] /\ old.pos[u] <= Len(log[u])
               /\ ~old.other => old.got[u] = SubSeq(log[u], old.from[u] + 1, old.pos[u])
    BY <2>1 DEF ConnInv
  <2>7. ASSUME NEW u \in Topics
        PROVE  /\ new.from[u] <= new.pos[u] /\ new.pos[u] <= Len(log[u])
               /\ ~new.other => new.got[u] = SubSeq(log[u], new.from[u] + 1, new.pos[u])
    <3>1. CASE u = t
      <4>1. new.from[u] = old.from[u] /\ new.pos[u] = old.pos[t] + 1 /\ new.got[u] = told
        BY <2>3, <2>5, <3>1
      <4>2. old.from[t] \in Nat /\ old.pos[t] \in Nat
        BY <2>3
      <4>3. ~old.other => told = SubSeq(log[t], old.from[t] + 1, old.pos[t] + 1)
        <5>1. ASSUME ~old.other PROVE told = Append(old.got[t], log[t][old.pos[t] + 1])
          BY <5>1
        <5>2. ASSUME ~old.other
              PROVE  old.got[t] = SubSeq(log[t], old.from[t] + 1, old.pos[t])
          BY <2>6, <5>2
        <5>3. /\ log[t] \in Seq(Sources \X Nat) /\ old.from[t] <= old.pos[t]
              /\ old.pos[t] < Len(log[t])
          BY <1>0, <2>1, <2>6
        <5> HIDE DEF told, old
        <5>4. Append(SubSeq(log[t], old.from[t] + 1, old.pos[t]), log[t][old.pos[t] + 1])
                = SubSeq(log[t], old.from[t] + 1, old.pos[t] + 1)
          BY <4>2, <5>3, OneMore
        <5> QED
          BY <5>1, <5>2, <5>4
      <4>4. old.from[t] <= old.pos[t] + 1 /\ old.pos[t] + 1 <= Len(log[t])
        BY <1>0, <2>1, <2>6, <4>2
      <4>5. new.other = old.other
        BY <2>5
      <4> HIDE DEF new, told, old
      <4> QED
        BY <3>1, <4>1, <4>3, <4>4, <4>5, Zenon
    <3>2. CASE u # t
      <4>1. new.from[u] = old.from[u] /\ new.pos[u] = old.pos[u] /\ new.got[u] = old.got[u]
        BY <2>3, <2>5, <3>2
      <4> HIDE DEF new
      <4> QED
        BY <2>5, <2>6, <4>1
    <3> QED
      BY <3>1, <3>2
  <2> HIDE DEF new
  <2> QED
    BY <1>3, <2>1, <2>2, <2>5, <2>7
<1>6. ASSUME NEW c \in Clients, End(c) \/ Leave(c) PROVE ConnInv'
  BY <1>3, <1>6 DEF End, Leave, Close
<1>7. CASE \E c \in Clients : Connection(c)
  BY <1>4, <1>5, <1>6, <1>7 DEF Connection
<1>8. CASE \E s \in Sources : Send(s)
  BY <1>2, <1>8
<1>9. UNCHANGED <<conn, log>> \/ (\E c \in Clients : Connection(c)) \/ (\E s \in Sources : Send(s))
  BY DEF Next, Poll, TickIdle, Tick, Anchor, ReadRefused, Read, Answer, PollerStops, QueryFails,
         Table, TakeId, Rollback, Age, Commit, Stop, Clock, vars
<1> QED
  BY <1>1, <1>7, <1>8, <1>9

-----------------------------------------------------------------------------
\* Before anything is inserted, read or asked.
LEMMA InitFeed == Init => IInv
<1> SUFFICES ASSUME Init PROVE IInv
  OBVIOUS
<1>1. FeedTyped
  <2>1. poller \in [Sources -> PollerSet]
    <3>1. <<>> \in Seq(Nat) /\ {} \in SUBSET Nat
      OBVIOUS
    <3>2. Idle \in PollerSet
      BY <3>1 DEF Idle, PollerSet, Stages
    <3> QED
      BY <3>2 DEF Init
  <2>2. log \in [Topics -> Seq(Sources \X Nat)]
    BY DEF Init
  <2>3. age = [s \in Sources |-> age[s]] /\ \A s \in Sources : DOMAIN age[s] = {}
    BY DEF Init
  <2>4. late \in [Sources -> SUBSET Nat] /\ crowded \in [Sources -> SUBSET Nat]
    BY DEF Init
  <2>5. rows = [s \in Sources |-> rows[s]] /\ \A s \in Sources : rows[s] \in [Ids(s) -> RowStates]
    BY DEF Init, RowStates
  <2> QED
    BY <2>1, <2>2, <2>3, <2>4, <2>5 DEF FeedTyped
<1>2. ASSUME NEW s \in Sources PROVE TableInv(s)
  <2>1. /\ poller[s].at = "tick" /\ poller[s].mark = NoMark /\ poller[s].batch = {}
        /\ DOMAIN poller[s].out = {}
    BY DEF Init, Idle
  <2>2. Pending(s) = {}
    BY <2>1 DEF Pending
  <2>3. \A i : ~IsSent(s, i)
    BY SourceFacts DEF Init, IsSent, Broadcast
  <2> QED
    BY <2>1, <2>2, <2>3 DEF TableInv, Held, NeverAgain, PassedIsExcused
<1>3. BroadcastOnce
  BY DEF Init, BroadcastOnce
<1>4. ConnInv
  BY DEF Init, ConnInv
<1> QED
  BY <1>1, <1>2, <1>3, <1>4 DEF IInv

\* The invariant of every run of the tables, the pollers and the connections.
LEMMA FeedInvariant == Spec => []IInv
<1>1. IInv /\ [Next]_vars => IInv'
  BY TypedStep, TablesStep, LogStep, ConnStep DEF IInv
<1> QED
  BY <1>1, InitFeed, PTL DEF Spec

\* Each row is broadcast once on its topic, though watermarks are dropped when
\* nobody listens and anchored again, holes are filled late and ticks fail.
THEOREM FeedBroadcastsOnce == Spec => []BroadcastOnce
  BY FeedInvariant, PTL DEF IInv

\* The floor passes no row that can be streamed, save one that a full batch left
\* out and one that came too late: once its hole was passed, under an id no read
\* had seen for GapSettle, or under a read made before it.
THEOREM FeedSkipsNothing == Spec => []NothingSkipped
<1>1. IInv => NothingSkipped
  <2> SUFFICES ASSUME IInv, NEW s \in Sources, NEW i \in Skipped(s)
               PROVE  i \in late[s] \cup crowded[s]
    BY DEF NothingSkipped
  <2>1. /\ poller[s].mark # NoMark /\ rows[s][i] = "good" /\ ~IsSent(s, i) /\ i \notin Pending(s)
        /\ i \in poller[s].mark.anchor + 1 .. poller[s].mark.floor
    BY DEF Skipped
  <2>2. PassedIsExcused(s)
    BY DEF IInv, TableInv
  <2>3. i \notin DOMAIN age[s]
    BY <2>1, <2>2 DEF PassedIsExcused
  <2> QED
    BY <2>1, <2>2, <2>3 DEF PassedIsExcused
<1> QED
  BY <1>1, FeedInvariant, PTL

\* An open connection has everything its topics broadcast since it subscribed,
\* for every channel capacity: a gap ends it.
THEOREM FeedHasNoGap == Spec => []NoSilentGap
<1>1. IInv => NoSilentGap
  BY DEF IInv, ConnInv, ConnSet, NoSilentGap
<1> QED
  BY <1>1, FeedInvariant, PTL
=============================================================================
