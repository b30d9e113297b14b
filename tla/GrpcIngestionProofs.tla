------------------------ MODULE GrpcIngestionProofs ------------------------
(***************************************************************************)
(* Proofs about the gRPC side of the indexer, in two parts.                *)
(*                                                                         *)
(* First the buffer by itself (SlotTimestampBuffer, BufferSpec): for every *)
(* set of slots, banks and instants and every value of the bounds that     *)
(* keeps MaxKnownSlots >= MaxPendingSlots + 1.                             *)
(*                                                                         *)
(* Then the buffer among sessions, channel, worker and recorder            *)
(* (GrpcIngestion, Spec): for every set of slots, every number of          *)
(* transactions in them, every stream no later than what the session holds *)
(* back, and every value of the buffer's, the channel's and the worker's   *)
(* bounds.                                                                 *)
(***************************************************************************)
EXTENDS GrpcIngestion, FiniteSetTheorems, SequenceTheorems, WellFoundedInduction, TLAPS

-----------------------------------------------------------------------------
(***************************************************************************)
(* First part: the buffer.                                                 *)
(***************************************************************************)

-----------------------------------------------------------------------------
(***************************************************************************)
(* Finite sets and least elements.                                         *)
(***************************************************************************)

\* Taking a part away from a finite set takes its size away.
LEMMA DifferenceSize ==
    ASSUME NEW S, NEW T, IsFiniteSet(S), T \subseteq S
    PROVE  /\ IsFiniteSet(T) /\ IsFiniteSet(S \ T)
           /\ Cardinality(S) \in Nat /\ Cardinality(T) \in Nat
           /\ Cardinality(S \ T) = Cardinality(S) - Cardinality(T)
<1>1. IsFiniteSet(T) /\ IsFiniteSet(S \ T)
  BY FS_Subset
<1>2. /\ Cardinality(S) \in Nat
      /\ Cardinality(T) \in Nat
      /\ Cardinality(S \ T) \in Nat
  BY <1>1, FS_CardinalityType
<1>3. (S \ T) \cup T = S /\ (S \ T) \cap T = {}
  OBVIOUS
<1>4. Cardinality((S \ T) \cup T) =
        Cardinality(S \ T) + Cardinality(T) - Cardinality((S \ T) \cap T)
  BY <1>1, FS_Union
<1>5. Cardinality(S) = Cardinality(S \ T) + Cardinality(T) - Cardinality({})
  BY <1>3, <1>4, Zenon
<1>6. Cardinality({}) = 0
  BY FS_EmptySet
<1> QED
  BY <1>1, <1>2, <1>5, <1>6

\* A non-empty set of naturals has a least element.
LEMMA LeastExists ==
    ASSUME NEW S, S \subseteq Nat, S # {}
    PROVE  \E n \in S : \A m \in S : n <= m
<1> DEFINE LessThan == OpToRel(<, Nat)
<1>1. IsWellFoundedOn(LessThan, Nat)
  BY NatLessThanWellFounded
<1>2. \A m, n \in Nat : <<m, n>> \in LessThan <=> m < n
  BY DEF OpToRel
<1> HIDE DEF LessThan
<1>3. \E n \in S : \A m \in S : ~(<<m, n>> \in LessThan)
  BY <1>1, WFMin
<1>4. PICK n \in S : \A m \in S : ~(<<m, n>> \in LessThan)
  BY <1>3
<1>5. ASSUME NEW m \in S PROVE n <= m
  <2>1. ~(m < n)
    BY <1>2, <1>4
  <2> QED
    BY <2>1
<1> QED
  BY <1>5

-----------------------------------------------------------------------------
(***************************************************************************)
(* The operators on facts.                                                 *)
(***************************************************************************)

\* An instant told of a bank keeps the slot's facts well typed.
LEMMA FactsStayTyped ==
    ASSUME NEW f \in Facts, NEW bank \in Bank, NEW at \in Times
    PROVE  Resolve(f, bank, at) \in Facts
<1> DEFINE Entry == [bank : Bank, outcome : SlotOutcome]
<1>1. f.times \in Seq(Entry) /\ f.kept \in Bank \cup {None}
  BY DEF Facts
<1>2. Append(f.times, [bank |-> bank, outcome |-> at]) \in Seq(Entry)
  BY <1>1 DEF SlotOutcome
<1>3. [i \in DOMAIN f.times |->
         IF f.times[i].bank = bank
         THEN [bank |-> bank, outcome |-> at] ELSE f.times[i]] \in Seq(Entry)
  BY <1>1 DEF SlotOutcome
<1> HIDE DEF Entry
<1> QED
  BY <1>1, <1>2, <1>3 DEF Resolve, Facts, Entry

\* So does giving a bank up.
LEMMA GiveUpStaysTyped ==
    ASSUME NEW f \in Facts, NEW bank \in Bank
    PROVE  GiveUp(f, bank) \in Facts
<1> DEFINE Entry == [bank : Bank, outcome : SlotOutcome]
<1>1. f.times \in Seq(Entry) /\ f.kept \in Bank \cup {None}
  BY DEF Facts
<1>2. Append(f.times, [bank |-> bank, outcome |-> GivenUp]) \in Seq(Entry)
  BY <1>1 DEF SlotOutcome
<1> HIDE DEF Entry
<1> QED
  BY <1>1, <1>2 DEF GiveUp, Facts, Entry

\* And keeping one.
LEMMA KeepStaysTyped ==
    ASSUME NEW f \in Facts, NEW bank \in Bank
    PROVE  Keep(f, bank) \in Facts
  BY DEF Keep, Facts

\* Whose bank is not kept has no time; what was kept or timed was remembered.
LEMMA DecidedIsRemembered ==
    ASSUME NEW known, NEW slot, NEW bank
    PROVE  /\ KeptIn(known, slot) # None => slot \in DOMAIN known
           /\ KeptIn(known, slot) = None => IsPending(known, slot, bank)
<1>1. KeptIn(known, slot) # None => slot \in DOMAIN known
  BY DEF KeptIn, FactsOf, NoFacts
<1>2. KeptIn(known, slot) = None => IsPending(known, slot, bank)
  BY DEF IsPending, IsLosing, TimeIn
<1> QED
  BY <1>1, <1>2

\* The greatest element of a set of naturals with a bound.
LEMMA GreatestExists ==
    ASSUME NEW S, S \subseteq Nat, S # {}, NEW b \in Nat, \A s \in S : s <= b
    PROVE  \E n \in S : \A m \in S : m <= n
<1> DEFINE Gaps == {b - s : s \in S}
<1>1. Gaps \subseteq Nat /\ Gaps # {}
  <2>1. \A s \in S : b - s \in Nat
    OBVIOUS
  <2>2. PICK s \in S : TRUE
    OBVIOUS
  <2>3. b - s \in Gaps
    OBVIOUS
  <2> QED
    BY <2>1, <2>3
<1>2. PICK g \in Gaps : \A h \in Gaps : g <= h
  BY <1>1, LeastExists
<1>3. PICK n \in S : g = b - n
  OBVIOUS
<1>4. ASSUME NEW m \in S PROVE m <= n
  <2>1. b - n <= b - m
    BY <1>2, <1>3
  <2>2. m \in Nat /\ n \in Nat
    OBVIOUS
  <2> HIDE DEF Gaps
  <2> QED
    BY <2>1, <2>2
<1> QED
  BY <1>4

\* Trimming keeps entries as they are, keeps no more than MaxKnownSlots, and
\* never takes one of the MaxKnownSlots highest above any slot `s`.
LEMMA TrimProperties ==
    ASSUME NEW known, DOMAIN known \subseteq Nat, IsFiniteSet(DOMAIN known),
           NEW b \in Nat, \A t \in DOMAIN known : t <= b
    PROVE  /\ DOMAIN Trim(known) \subseteq DOMAIN known
           /\ \A s \in DOMAIN Trim(known) : Trim(known)[s] = known[s]
           /\ IsFiniteSet(DOMAIN Trim(known))
           /\ Cardinality(DOMAIN Trim(known)) <= MaxKnownSlots
           /\ \A s \in Nat :
                 Cardinality({t \in DOMAIN known : t > s}) >= MaxKnownSlots
                   => Cardinality({t \in DOMAIN Trim(known) : t > s}) >= MaxKnownSlots
           /\ \A s \in DOMAIN known \ DOMAIN Trim(known) :
                 Cardinality({t \in DOMAIN known : t > s}) >= MaxKnownSlots
           /\ \A s \in DOMAIN Trim(known) :
                 ~(Cardinality({t \in DOMAIN known : t > s}) >= MaxKnownSlots)
<1> DEFINE D == DOMAIN known
           From(s) == {t \in D : t >= s}
           Above(s) == {t \in D : t > s}
           K == {t \in D : Cardinality(From(t)) <= MaxKnownSlots}
<1>1. DOMAIN Trim(known) = K /\ \A s \in K : Trim(known)[s] = known[s]
  BY DEF Trim
<1>2. IsFiniteSet(K) /\ Cardinality(K) \in Nat
  BY FS_Subset, FS_CardinalityType
<1>3. \A s : /\ IsFiniteSet(From(s)) /\ Cardinality(From(s)) \in Nat
             /\ IsFiniteSet(Above(s)) /\ Cardinality(Above(s)) \in Nat
  BY FS_Subset, FS_CardinalityType
<1>4. \A s \in D : Cardinality(From(s)) = Cardinality(Above(s)) + 1
  <2> SUFFICES ASSUME NEW s \in D PROVE Cardinality(From(s)) = Cardinality(Above(s)) + 1
    OBVIOUS
  <2>1. From(s) = Above(s) \cup {s} /\ s \notin Above(s)
    OBVIOUS
  <2>2. Cardinality(Above(s) \cup {s}) =
          IF s \in Above(s) THEN Cardinality(Above(s)) ELSE Cardinality(Above(s)) + 1
    BY <1>3, FS_AddElement
  <2> QED
    BY <2>1, <2>2
<1>5. Cardinality(K) <= MaxKnownSlots
  <2>1. CASE K = {}
    <3>1. Cardinality({}) = 0
      BY FS_EmptySet
    <3> HIDE DEF K
    <3> QED
      BY <2>1, <3>1, BoundsAssumption
  <2>2. CASE K # {}
    <3>1. PICK m \in K : \A t \in K : m <= t
      BY <2>2, LeastExists
    <3>2. K \subseteq From(m)
      BY <3>1
    <3>3. Cardinality(K) <= Cardinality(From(m))
      BY <1>3, <3>2, FS_Subset
    <3>4. Cardinality(From(m)) <= MaxKnownSlots /\ Cardinality(From(m)) \in Nat
      BY <1>3
    <3> HIDE DEF K, From
    <3> QED
      BY <1>2, <3>3, <3>4, BoundsAssumption
  <2> QED
    BY <2>1, <2>2
<1>6. \A s \in D \ K : Cardinality(Above(s)) >= MaxKnownSlots
  BY <1>3, <1>4, BoundsAssumption
<1>7. ASSUME NEW s \in K PROVE ~(Cardinality(Above(s)) >= MaxKnownSlots)
  <2>1. /\ Cardinality(From(s)) <= MaxKnownSlots
        /\ Cardinality(From(s)) = Cardinality(Above(s)) + 1
        /\ Cardinality(Above(s)) \in Nat
    BY <1>3, <1>4
  <2> HIDE DEF K, From, Above
  <2> QED
    BY <2>1, BoundsAssumption
<1>8. ASSUME NEW s \in Nat, Cardinality(Above(s)) >= MaxKnownSlots
      PROVE  Cardinality({t \in K : t > s}) >= MaxKnownSlots
  <2> DEFINE Cut == Above(s) \ K
             Left == {t \in K : t > s}
  <2>0. IsFiniteSet(Left) /\ Cardinality(Left) \in Nat
    BY <1>2, FS_Subset, FS_CardinalityType
  <2>1. CASE Cut = {}
    <3>1. Left = Above(s)
      BY <2>1
    <3> QED
      BY <1>8, <3>1
  <2>2. CASE Cut # {}
    <3>1. PICK m \in Cut : \A t \in Cut : t <= m
      BY <2>2, GreatestExists
    <3>2. Above(m) \subseteq Left
      BY <3>1
    <3>3. Cardinality(Above(m)) <= Cardinality(Left)
      BY <2>0, <3>2, FS_Subset
    <3>4. Cardinality(Above(m)) >= MaxKnownSlots
      BY <1>6, <3>1
    <3> QED
      BY <1>3, <2>0, <3>3, <3>4, BoundsAssumption
  <2> QED
    BY <2>1, <2>2
<1> QED
  BY <1>1, <1>2, <1>5, <1>6, <1>7, <1>8

-----------------------------------------------------------------------------
(***************************************************************************)
(* The two bounds.                                                         *)
(***************************************************************************)

\* The head moves only forwards, to `slot` at least.
LEMMA SeenProperties ==
    ASSUME head \in Slots \cup {None}, NEW slot \in Slots
    PROVE  /\ Seen(slot) \in Slots /\ Seen(slot) \in Nat
           /\ slot <= Seen(slot)
           /\ head # None => head <= Seen(slot)
  BY SlotsAssumption DEF Seen

\* The payload bound leaves no more than it allows, and takes only slots newer
\* than all that stay.
LEMMA PayloadBound ==
    ASSUME NEW held, held \subseteq Held, IsFiniteSet(held),
           NEW b \in Nat, \A h \in held : h.slot <= b
    PROVE  LET over == Overflowing(held, Cardinality(held))
           IN  /\ Cardinality(held \ over) <= MaxPendingPayloads
               /\ \A d \in over, h \in held \ over : h.slot < d.slot
<1> DEFINE over == Overflowing(held, Cardinality(held))
           left == held \ over
           Newer(h) == {g \in held : g.slot > h.slot}
           UpTo(h) == held \ Newer(h)
<1>0. \A h \in held : h.slot \in Nat
  BY SlotsAssumption DEF Held
<1>1. \A h : /\ IsFiniteSet(Newer(h)) /\ IsFiniteSet(UpTo(h))
             /\ Cardinality(Newer(h)) \in Nat /\ Cardinality(held) \in Nat
             /\ Cardinality(UpTo(h)) = Cardinality(held) - Cardinality(Newer(h))
  BY DifferenceSize
<1>2. \A h \in held : h \in over <=> Cardinality(held) - Cardinality(Newer(h)) > MaxPendingPayloads
  BY DEF Overflowing
<1>3. IsFiniteSet(left) /\ Cardinality(left) \in Nat
  BY FS_Subset, FS_CardinalityType
<1> HIDE DEF over
<1>4. Cardinality(left) <= MaxPendingPayloads
  <2>1. CASE left = {}
    <3>1. Cardinality({}) = 0
      BY FS_EmptySet
    <3> HIDE DEF left
    <3> QED
      BY <2>1, <3>1, BoundsAssumption
  <2>2. CASE left # {}
    <3> DEFINE slots == {h.slot : h \in left}
    <3>1. slots \subseteq Nat /\ slots # {} /\ \A s \in slots : s <= b
      BY <1>0, <2>2
    <3>2. PICK n \in slots : \A m \in slots : m <= n
      BY <3>1, GreatestExists
    <3>3. PICK top \in left : top.slot = n
      OBVIOUS
    <3>4. \A h \in left : h.slot <= top.slot
      BY <3>2, <3>3
    <3>5. left \subseteq UpTo(top)
      BY <1>0, <3>4
    <3>6. Cardinality(left) <= Cardinality(UpTo(top))
      BY <1>1, <3>5, FS_Subset
    <3>7. ~(Cardinality(held) - Cardinality(Newer(top)) > MaxPendingPayloads)
      BY <1>2
    <3>8. /\ Cardinality(Newer(top)) \in Nat /\ Cardinality(held) \in Nat
          /\ Cardinality(UpTo(top)) = Cardinality(held) - Cardinality(Newer(top))
      BY <1>1
    <3> HIDE DEF left, UpTo, Newer
    <3> QED
      BY <1>3, <3>6, <3>7, <3>8, BoundsAssumption
  <2> QED
    BY <2>1, <2>2
<1>5. ASSUME NEW d \in over, NEW h \in left PROVE h.slot < d.slot
  <2>0. d \in held /\ h \in held /\ d.slot \in Nat /\ h.slot \in Nat
    BY <1>0 DEF over, Overflowing
  <2>1. SUFFICES ASSUME d.slot <= h.slot PROVE FALSE
    BY <2>0
  <2>2. Newer(h) \subseteq Newer(d)
    BY <1>0, <2>0, <2>1
  <2>3. Cardinality(Newer(h)) <= Cardinality(Newer(d))
    BY <1>1, <2>2, FS_Subset
  <2>4. /\ Cardinality(held) - Cardinality(Newer(d)) > MaxPendingPayloads
        /\ ~(Cardinality(held) - Cardinality(Newer(h)) > MaxPendingPayloads)
    BY <1>2, <2>0
  <2>5. /\ Cardinality(Newer(d)) \in Nat /\ Cardinality(Newer(h)) \in Nat
        /\ Cardinality(held) \in Nat
    BY <1>1
  <2> HIDE DEF Newer
  <2> QED
    BY <2>3, <2>4, <2>5, BoundsAssumption
<1> QED
  BY <1>4, <1>5 DEF over

\* What see and enforce_bounds leave behind, whatever was held before.
LEMMA HoldProperties ==
    ASSUME head \in Slots \cup {None},
           NEW held, held \subseteq Held, IsFiniteSet(held),
           NEW slot \in Slots, \A h \in held : h.slot <= Seen(slot),
           NEW lost, HoldWithinBounds(held, Cardinality(held), slot, lost)
    PROVE  /\ head' = Seen(slot)
           /\ waiting' \subseteq held /\ IsFiniteSet(waiting')
           /\ count' = Cardinality(waiting') /\ count' \in Int
           /\ \A h \in waiting' : head' - h.slot <= MaxPendingSlots
           /\ Cardinality(waiting') <= MaxPendingPayloads
           /\ dropped \subseteq dropped'
           /\ \A d \in dropped' \ (dropped \cup lost) :
                 /\ d \in DroppedPayload
                 /\ d.reason \in {"slot_bound", "payload_bound"}
                 /\ \A h \in waiting' :
                      /\ d.reason = "slot_bound" => d.slot < h.slot
                      /\ d.reason = "payload_bound" => h.slot < d.slot
           /\ lost \subseteq dropped'
<1> DEFINE late == OutOfWindow(held, Seen(slot))
           inside == held \ late
           over == Overflowing(inside, Cardinality(inside))
<1>0. Seen(slot) \in Nat /\ \A h \in held : h.slot \in Nat
  BY SeenProperties, SlotsAssumption DEF Held
<1>1. late \subseteq held /\ \A h \in held : h \in late <=> Seen(slot) - h.slot > MaxPendingSlots
  BY DEF OutOfWindow
<1>2. IsFiniteSet(inside) /\ Cardinality(inside) = Cardinality(held) - Cardinality(late)
  BY <1>1, DifferenceSize
<1>3. over \subseteq inside
  BY DEF Overflowing
<1>4. /\ head' = Seen(slot)
      /\ waiting' = inside \ over
      /\ count' = Cardinality(held) - Cardinality(late) - Cardinality(over)
      /\ dropped' = dropped \cup lost \cup Lost(late, "slot_bound")
                             \cup Lost(over, "payload_bound")
  BY <1>2 DEF HoldWithinBounds
<1>5. /\ Cardinality(inside \ over) <= MaxPendingPayloads
      /\ \A d \in over, h \in inside \ over : h.slot < d.slot
  BY <1>0, <1>2, PayloadBound
<1> HIDE DEF late, over
<1>6. /\ IsFiniteSet(inside \ over)
      /\ Cardinality(inside \ over) = Cardinality(inside) - Cardinality(over)
      /\ Cardinality(inside \ over) \in Nat
  BY <1>2, <1>3, DifferenceSize, FS_CardinalityType
<1>7. count' = Cardinality(waiting') /\ count' \in Int
  BY <1>2, <1>4, <1>6
<1>8. \A h \in waiting' : head' - h.slot <= MaxPendingSlots
  BY <1>0, <1>1, <1>4, BoundsAssumption
<1>9. ASSUME NEW d \in Lost(late, "slot_bound"), NEW h \in waiting'
      PROVE  d.slot < h.slot
  <2>1. PICK g \in late : d.slot = g.slot
    BY DEF Lost
  <2>2. Seen(slot) - g.slot > MaxPendingSlots /\ Seen(slot) - h.slot <= MaxPendingSlots
    BY <1>1, <1>4, <1>8, <2>1
  <2>3. g.slot \in Nat /\ h.slot \in Nat
    BY <1>0, <1>1, <1>4
  <2> QED
    BY <1>0, <2>1, <2>2, <2>3, BoundsAssumption
<1>10. ASSUME NEW d \in Lost(over, "payload_bound"), NEW h \in waiting'
       PROVE  h.slot < d.slot
  <2>1. PICK g \in over : d.slot = g.slot
    BY DEF Lost
  <2> QED
    BY <1>4, <1>5, <2>1
<1>11. /\ \A d \in Lost(late, "slot_bound") : d \in DroppedPayload /\ d.reason = "slot_bound"
       /\ \A d \in Lost(over, "payload_bound") : d \in DroppedPayload /\ d.reason = "payload_bound"
  BY <1>1, <1>3 DEF Lost, DroppedPayload, DropReason, Held
<1>12. \A d \in dropped' \ (dropped \cup lost) :
          d \in Lost(late, "slot_bound") \/ d \in Lost(over, "payload_bound")
  BY <1>4
<1>13. ASSUME NEW d \in dropped' \ (dropped \cup lost)
       PROVE  /\ d \in DroppedPayload
              /\ d.reason \in {"slot_bound", "payload_bound"}
              /\ \A h \in waiting' :
                   /\ d.reason = "slot_bound" => d.slot < h.slot
                   /\ d.reason = "payload_bound" => h.slot < d.slot
  BY <1>9, <1>10, <1>11, <1>12
<1>14. waiting' \subseteq held /\ dropped \subseteq dropped' /\ lost \subseteq dropped'
  BY <1>4
<1> QED
  BY <1>4, <1>5, <1>6, <1>7, <1>8, <1>13, <1>14

-----------------------------------------------------------------------------
(***************************************************************************)
(* What a settlement does to what waits for the slot.                      *)
(***************************************************************************)

\* The verdicts of DecidedByTheStream, read off the table `known`.
ReleaseFollows(known, r) ==
    /\ r \in Resolved
    /\ ~IsLosing(known, r.slot, r.bank)
    /\ TimeIn(known, r.slot) = r.at
DropFollows(known, d) ==
    /\ d \in DroppedPayload
    /\ d.reason \in {"losing_bank", "unresolvable"}
    /\ d.reason = "losing_bank" => IsLosing(known, d.slot, d.bank)
    /\ d.reason = "unresolvable" =>
          ~IsLosing(known, d.slot, d.bank) /\ TimeIn(known, d.slot) = GivenUp

\* Two tables that agree on a slot decide it alike.
LEMMA SameFactsSameVerdict ==
    ASSUME NEW known, NEW other, NEW slot, FactsOf(known, slot) = FactsOf(other, slot)
    PROVE  /\ KeptIn(known, slot) = KeptIn(other, slot)
           /\ TimeIn(known, slot) = TimeIn(other, slot)
           /\ \A bank : IsLosing(known, slot, bank) <=> IsLosing(other, slot, bank)
           /\ \A bank : IsPending(known, slot, bank) <=> IsPending(other, slot, bank)
<1>1. KeptIn(known, slot) = KeptIn(other, slot)
  BY DEF KeptIn
<1>2. TimeIn(known, slot) = TimeIn(other, slot)
  BY <1>1 DEF TimeIn
<1>3. \A bank : IsLosing(known, slot, bank) <=> IsLosing(other, slot, bank)
  BY <1>1 DEF IsLosing
<1>4. \A bank : IsPending(known, slot, bank) <=> IsPending(other, slot, bank)
  BY <1>2, <1>3 DEF IsPending
<1> QED
  BY <1>1, <1>2, <1>3, <1>4

\* Every settlement takes some of the slot's payloads out, counts them, holds
\* the rest within the bounds, and leaves only undecided ones waiting.
LEMMA SettleProperties ==
    ASSUME waiting \subseteq Held, IsFiniteSet(waiting), CountIsTrue,
           NEW slot \in Slots, Settle(slot)
    PROVE  \E gone, lost :
              /\ gone \subseteq waiting
              /\ HoldWithinBounds(waiting \ gone, Cardinality(waiting \ gone), slot, lost)
              /\ \A h \in waiting \ gone : h.slot = slot => IsPending(facts', slot, h.bank)
              /\ \A d \in lost : d.slot = slot /\ DropFollows(facts', d)
              /\ \A r \in released' \ released : r.slot = slot /\ ReleaseFollows(facts', r)
              /\ lost # {} \/ released' # released => KeptIn(facts', slot) # None
<1> DEFINE Lose == LosingIn(slot)
           Win == WinningIn(slot)
           Both == Lose \cup Win
<1>1. /\ Lose \subseteq waiting /\ Win \subseteq waiting /\ Win \subseteq waiting \ Lose
      /\ \A h \in waiting : h.slot = slot => h \in Lose \/ h \in Win
      /\ \A h \in Lose : h.slot = slot /\ ~Admits(KeptIn(facts', slot), h.bank)
      /\ \A h \in Win : h.slot = slot /\ Admits(KeptIn(facts', slot), h.bank)
  BY DEF LosingIn, WinningIn
<1>2. Cardinality(waiting) = count /\ waiting \ {} = waiting
  BY DEF CountIsTrue
<1>3. Cardinality(waiting \ Lose) = count - Cardinality(Lose) /\ IsFiniteSet(waiting \ Lose)
  BY <1>1, <1>2, DifferenceSize
<1>4. Cardinality(waiting \ Both) = count - Cardinality(Lose) - Cardinality(Win)
  <2>1. Cardinality((waiting \ Lose) \ Win) = Cardinality(waiting \ Lose) - Cardinality(Win)
    BY <1>1, <1>3, DifferenceSize
  <2>2. (waiting \ Lose) \ Win = waiting \ Both
    OBVIOUS
  <2> HIDE DEF Both, Lose, Win
  <2> QED
    BY <1>3, <2>1, <2>2
<1> HIDE DEF Lose, Win
<1>5. KeptIn(facts', slot) # None =>
        \A d \in Lost(Lose, "losing_bank") : d.slot = slot /\ DropFollows(facts', d)
  BY <1>1 DEF Lost, DropFollows, DroppedPayload, DropReason, Held, IsLosing
<1>6. KeptIn(facts', slot) # None /\ TimeIn(facts', slot) = GivenUp =>
        \A d \in Lost(Win, "unresolvable") : d.slot = slot /\ DropFollows(facts', d)
  BY <1>1 DEF Lost, DropFollows, DroppedPayload, DropReason, Held, IsLosing
<1>7. TimeIn(facts', slot) \in Times =>
        \A r \in Timed(Win, TimeIn(facts', slot)) : r.slot = slot /\ ReleaseFollows(facts', r)
  BY <1>1 DEF Timed, ReleaseFollows, Resolved, Held, IsLosing
<1>8. CASE SettleUndecided(slot)
  <2>1. /\ HoldWithinBounds(waiting \ {}, Cardinality(waiting \ {}), slot, {})
        /\ released' = released /\ KeptIn(facts', slot) = None
    BY <1>2, <1>8 DEF SettleUndecided
  <2>2. \A h \in waiting : IsPending(facts', slot, h.bank)
    BY <2>1, DecidedIsRemembered
  <2> QED
    BY <2>1, <2>2
<1>9. CASE SettleUntimed(slot)
  <2>1. /\ HoldWithinBounds(waiting \ Lose, Cardinality(waiting \ Lose), slot,
                            Lost(Lose, "losing_bank"))
        /\ released' = released
        /\ KeptIn(facts', slot) # None /\ TimeIn(facts', slot) = None
    BY <1>3, <1>9 DEF SettleUntimed, Lose
  <2>2. \A h \in waiting \ Lose : h.slot = slot => IsPending(facts', slot, h.bank)
    BY <1>1, <2>1 DEF IsPending, IsLosing
  <2> QED
    BY <1>1, <1>5, <2>1, <2>2
<1>10. CASE SettleGivenUp(slot)
  <2>1. /\ HoldWithinBounds(waiting \ Both, Cardinality(waiting \ Both), slot,
                            Lost(Lose, "losing_bank") \cup Lost(Win, "unresolvable"))
        /\ released' = released
        /\ KeptIn(facts', slot) # None /\ TimeIn(facts', slot) = GivenUp
    BY <1>4, <1>10 DEF SettleGivenUp, Lose, Win
  <2>2. \A h \in waiting \ Both : h.slot # slot
    BY <1>1
  <2>3. Both \subseteq waiting
    BY <1>1
  <2> DEFINE Gone == Lost(Lose, "losing_bank") \cup Lost(Win, "unresolvable")
  <2>4. \A d \in Gone : d.slot = slot /\ DropFollows(facts', d)
    BY <1>5, <1>6, <2>1
  <2>5. HoldWithinBounds(waiting \ Both, Cardinality(waiting \ Both), slot, Gone)
    BY <2>1
  <2> HIDE DEF Both, Gone
  <2> QED
    BY <2>1, <2>2, <2>3, <2>4, <2>5
<1>11. CASE SettleTimed(slot)
  <2>1. /\ HoldWithinBounds(waiting \ Both, Cardinality(waiting \ Both), slot,
                            Lost(Lose, "losing_bank"))
        /\ released' = released \cup Timed(Win, TimeIn(facts', slot))
        /\ KeptIn(facts', slot) # None /\ TimeIn(facts', slot) \in Times
    BY <1>4, <1>11 DEF SettleTimed, Lose, Win
  <2>2. \A h \in waiting \ Both : h.slot # slot
    BY <1>1
  <2>3. Both \subseteq waiting
    BY <1>1
  <2> HIDE DEF Both
  <2> QED
    BY <1>5, <1>7, <2>1, <2>2, <2>3
<1> QED
  BY <1>8, <1>9, <1>10, <1>11 DEF Settle

-----------------------------------------------------------------------------
(***************************************************************************)
(* The inductive invariant, one lemma per kind of step.                    *)
(***************************************************************************)

\* A slot behind a full table of newer ones is out of the window.
LEMMA FullTableIsPastTheWindow ==
    ASSUME NEW D, D \subseteq Nat, NEW top \in Nat, \A t \in D : t <= top,
           NEW s \in Nat, Cardinality({t \in D : t > s}) >= MaxKnownSlots
    PROVE  top - s > MaxPendingSlots
<1> DEFINE Newer == {t \in D : t > s}
<1>1. Newer \subseteq (s + 1)..top
  <2> SUFFICES ASSUME NEW t \in D, t > s PROVE t \in (s + 1)..top
    OBVIOUS
  <2>1. t \in Nat /\ t <= top
    OBVIOUS
  <2> HIDE DEF Newer
  <2> QED
    BY <2>1
<1>2. /\ IsFiniteSet((s + 1)..top)
      /\ Cardinality((s + 1)..top) = IF s + 1 > top THEN 0 ELSE top - (s + 1) + 1
  BY FS_Interval
<1>3. /\ Cardinality(Newer) \in Nat
      /\ Cardinality(Newer) <= Cardinality((s + 1)..top)
  BY <1>1, <1>2, FS_Subset, FS_CardinalityType
<1>4. Cardinality(Newer) >= MaxKnownSlots
  OBVIOUS
<1> HIDE DEF Newer
<1> QED
  BY <1>2, <1>3, <1>4, BoundsAssumption

\* Of a slot in the window the table knows all that was told, or nothing was.
LEMMA WindowIsKnown ==
    ASSUME NEW known, NEW all, NEW top \in Nat,
           DOMAIN known \subseteq Nat, DOMAIN all \subseteq Nat,
           \A s \in DOMAIN known : s \in DOMAIN all /\ known[s] = all[s],
           \A s \in DOMAIN all : s <= top,
           \A s \in DOMAIN all \ DOMAIN known :
               Cardinality({t \in DOMAIN known : t > s}) >= MaxKnownSlots,
           NEW slot \in Nat, top - slot <= MaxPendingSlots
    PROVE  /\ FactsOf(known, slot) = FactsOf(all, slot)
           /\ slot \in DOMAIN all => slot \in DOMAIN known
<1>1. slot \in DOMAIN all => slot \in DOMAIN known
  <2> SUFFICES ASSUME slot \in DOMAIN all \ DOMAIN known PROVE FALSE
    OBVIOUS
  <2>1. top - slot > MaxPendingSlots
    BY FullTableIsPastTheWindow
  <2> QED
    BY <2>1, BoundsAssumption
<1> QED
  BY <1>1 DEF FactsOf

\* The invariant the sub-invariants of IndInv give at once.
LEMMA IndInvKnowsTheWindow == IndInv => KnownInWindow
<1> SUFFICES ASSUME IndInv, NEW s \in DOMAIN told, head - s <= MaxPendingSlots
             PROVE  s \in DOMAIN facts /\ facts[s] = told[s]
  BY DEF KnownInWindow
<1>1. head \in Nat /\ DOMAIN facts \subseteq Nat /\ DOMAIN told \subseteq Nat
  BY SlotsAssumption DEF IndInv, TypeOK, HeadSawEverything
<1>2. s \in DOMAIN facts
  BY <1>1, WindowIsKnown
    DEF IndInv, HeadSawEverything, NothingHalfRemembered, ForgottenBehindAFullTable
<1> QED
  BY <1>2 DEF IndInv, NothingHalfRemembered

\* Learning `f` of a slot, when all that was told of it becomes `g`.
LEMMA LearnStep ==
    ASSUME IndInv, NEW slot \in Slots, NEW f \in Facts, NEW g \in Facts,
           FactsOf(facts, slot) = FactsOf(told, slot) => f = g,
           told' = WithFacts(told, slot, g), Learn(slot, f)
    PROVE  IndInv' /\ DecidedByTheStream /\ EvictsFromItsEnd
<1> DEFINE W == WithFacts(facts, slot, f)
           top == Seen(slot)
<1>0. /\ TypeOK /\ IsFiniteSet(waiting) /\ IsFiniteSet(DOMAIN facts)
      /\ waiting \subseteq Held /\ head \in Slots \cup {None}
      /\ DOMAIN facts \subseteq Nat /\ DOMAIN told \subseteq Nat /\ slot \in Nat
      /\ \A h \in waiting : h.slot \in Nat
  BY SlotsAssumption DEF IndInv, TypeOK, Held
<1>1. /\ top \in Slots /\ top \in Nat /\ slot <= top
      /\ head # None => head <= top
  BY <1>0, SeenProperties
<1>2. /\ \A h \in waiting : h.slot <= top
      /\ \A s \in DOMAIN told : s <= top
      /\ \A s \in DOMAIN facts : s <= top
  <2>1. head # None => head \in Nat
    BY <1>0, SlotsAssumption
  <2> HIDE DEF top
  <2> QED
    BY <1>0, <1>1, <2>1 DEF IndInv, HeadSawEverything, NothingHalfRemembered
<1>3. /\ DOMAIN W = DOMAIN facts \cup {slot} /\ W[slot] = f
      /\ \A s \in DOMAIN facts : s # slot => W[s] = facts[s]
      /\ DOMAIN told' = DOMAIN told \cup {slot} /\ told'[slot] = g
      /\ \A s \in DOMAIN told : s # slot => told'[s] = told[s]
  BY DEF WithFacts
<1>4. /\ facts' = Trim(W) /\ Settle(slot) /\ arrived' = arrived
  BY DEF Learn
<1>5. /\ DOMAIN W \subseteq Nat /\ IsFiniteSet(DOMAIN W)
      /\ \A s \in DOMAIN W : s <= top
  <2>1. IsFiniteSet(DOMAIN facts \cup {slot})
    BY <1>0, FS_AddElement
  <2> HIDE DEF top, W
  <2> QED
    BY <1>0, <1>1, <1>2, <1>3, <2>1
<1> HIDE DEF W, top
<1>6. /\ DOMAIN facts' \subseteq DOMAIN W
      /\ \A s \in DOMAIN facts' : facts'[s] = W[s]
      /\ IsFiniteSet(DOMAIN facts')
      /\ Cardinality(DOMAIN facts') <= MaxKnownSlots
      /\ \A s \in Nat :
            Cardinality({t \in DOMAIN W : t > s}) >= MaxKnownSlots
              => Cardinality({t \in DOMAIN facts' : t > s}) >= MaxKnownSlots
      /\ \A s \in DOMAIN W \ DOMAIN facts' :
            Cardinality({t \in DOMAIN W : t > s}) >= MaxKnownSlots
      /\ \A s \in DOMAIN facts' :
            ~(Cardinality({t \in DOMAIN W : t > s}) >= MaxKnownSlots)
  BY <1>1, <1>4, <1>5, TrimProperties
<1>7. PICK gone, lost :
        /\ gone \subseteq waiting
        /\ HoldWithinBounds(waiting \ gone, Cardinality(waiting \ gone), slot, lost)
        /\ \A h \in waiting \ gone : h.slot = slot => IsPending(facts', slot, h.bank)
        /\ \A d \in lost : d.slot = slot /\ DropFollows(facts', d)
        /\ \A r \in released' \ released : r.slot = slot /\ ReleaseFollows(facts', r)
        /\ lost # {} \/ released' # released => KeptIn(facts', slot) # None
  BY <1>0, <1>4, SettleProperties DEF IndInv
<1>8. /\ head' = top
      /\ waiting' \subseteq waiting \ gone /\ IsFiniteSet(waiting')
      /\ count' = Cardinality(waiting') /\ count' \in Int
      /\ \A h \in waiting' : head' - h.slot <= MaxPendingSlots
      /\ Cardinality(waiting') <= MaxPendingPayloads
      /\ \A d \in dropped' \ (dropped \cup lost) :
            /\ d \in DroppedPayload
            /\ d.reason \in {"slot_bound", "payload_bound"}
            /\ \A h \in waiting' :
                 /\ d.reason = "slot_bound" => d.slot < h.slot
                 /\ d.reason = "payload_bound" => h.slot < d.slot
  <2>1. waiting \ gone \subseteq Held /\ IsFiniteSet(waiting \ gone)
    BY <1>0, FS_Subset
  <2>2. \A h \in waiting \ gone : h.slot <= Seen(slot)
    BY <1>2 DEF top
  <2> QED
    BY <1>0, <1>7, <2>1, <2>2, HoldProperties DEF top
<1>9. NothingHalfRemembered'
  <2> SUFFICES ASSUME NEW s \in DOMAIN facts'
               PROVE  s \in DOMAIN told' /\ facts'[s] = told'[s]
    BY DEF NothingHalfRemembered
  <2>1. CASE s # slot
    BY <1>3, <1>6, <2>1 DEF IndInv, NothingHalfRemembered
  <2>2. CASE s = slot
    <3>1. FactsOf(facts, slot) = FactsOf(told, slot)
      <4>1. CASE slot \in DOMAIN facts
        BY <4>1 DEF FactsOf, IndInv, NothingHalfRemembered
      <4>2. CASE slot \notin DOMAIN told
        BY <4>2 DEF FactsOf, IndInv, NothingHalfRemembered
      <4>3. CASE slot \in DOMAIN told \ DOMAIN facts
        <5>1. Cardinality({t \in DOMAIN facts : t > slot}) >= MaxKnownSlots
          BY <4>3 DEF IndInv, ForgottenBehindAFullTable
        <5>2. {t \in DOMAIN W : t > slot} = {t \in DOMAIN facts : t > slot}
          BY <1>0, <1>3
        <5> QED
          BY <1>6, <2>2, <5>1, <5>2
      <4> QED
        BY <4>1, <4>2, <4>3
    <3> QED
      BY <1>3, <1>6, <2>2, <3>1
  <2> QED
    BY <2>1, <2>2
<1>10. ForgottenBehindAFullTable'
  <2> SUFFICES ASSUME NEW s \in DOMAIN told' \ DOMAIN facts'
               PROVE  Cardinality({t \in DOMAIN facts' : t > s}) >= MaxKnownSlots
    BY DEF ForgottenBehindAFullTable
  <2>1. s \in Nat
    BY <1>0, <1>3
  <2>2. Cardinality({t \in DOMAIN W : t > s}) >= MaxKnownSlots
    <3>1. CASE s \in DOMAIN W
      BY <1>6, <3>1
    <3>2. CASE s \notin DOMAIN W
      <4> DEFINE Old == {t \in DOMAIN facts : t > s}
                 New == {t \in DOMAIN W : t > s}
      <4>1. s \in DOMAIN told \ DOMAIN facts
        BY <1>3, <3>2
      <4>2. Cardinality(Old) >= MaxKnownSlots
        BY <4>1 DEF IndInv, ForgottenBehindAFullTable
      <4>3. Old \subseteq New /\ IsFiniteSet(New) /\ IsFiniteSet(Old)
        BY <1>0, <1>3, <1>5, FS_Subset
      <4>4. /\ Cardinality(Old) <= Cardinality(New)
            /\ Cardinality(Old) \in Nat /\ Cardinality(New) \in Nat
        BY <4>3, FS_Subset, FS_CardinalityType
      <4>5. Cardinality(New) >= MaxKnownSlots
        <5> HIDE DEF Old, New
        <5> QED
          BY <4>2, <4>4, BoundsAssumption
      <4> QED
        BY <4>5
    <3> QED
      BY <3>1, <3>2
  <2> QED
    BY <1>6, <2>1, <2>2
<1>11. HeadSawEverything'
  <2>1. top # None
    BY <1>1, MarkersAssumption
  <2> QED
    BY <1>1, <1>2, <1>3, <1>8, <2>1 DEF HeadSawEverything
<1>12. IdsAreFresh'
  BY <1>4, <1>8 DEF IndInv, IdsAreFresh
<1>13. CountIsTrue' /\ WithinBounds'
  BY <1>6, <1>8 DEF CountIsTrue, WithinBounds
<1>14. NothingDecidedWaits'
  <2> SUFFICES ASSUME NEW h \in waiting' PROVE IsPending(told', h.slot, h.bank)
    BY DEF NothingDecidedWaits
  <2>1. h \in waiting \ gone /\ h.slot \in Nat
    BY <1>0, <1>8
  <2>2. CASE h.slot # slot
    <3>1. FactsOf(told', h.slot) = FactsOf(told, h.slot)
      BY <1>3, <2>2 DEF FactsOf
    <3>2. IsPending(told, h.slot, h.bank)
      BY <2>1 DEF IndInv, NothingDecidedWaits
    <3> QED
      BY <3>1, <3>2, SameFactsSameVerdict
  <2>3. CASE h.slot = slot
    <3>1. IsPending(facts', slot, h.bank)
      BY <1>7, <2>1, <2>3
    <3>2. /\ DOMAIN facts' \subseteq Nat /\ DOMAIN told' \subseteq Nat
          /\ \A s \in DOMAIN told' : s <= top
      BY <1>0, <1>1, <1>2, <1>3, <1>5, <1>6
    <3>3. top - slot <= MaxPendingSlots
      BY <1>8, <2>3
    <3>4. FactsOf(facts', slot) = FactsOf(told', slot)
      BY <1>0, <1>1, <1>9, <1>10, <3>2, <3>3, WindowIsKnown
        DEF NothingHalfRemembered, ForgottenBehindAFullTable
    <3> QED
      BY <2>3, <3>1, <3>4, SameFactsSameVerdict
  <2> QED
    BY <2>2, <2>3
<1>15. TypeOK'
  <2>1. waiting' \subseteq Held /\ count' \in Int /\ head' \in Slots \cup {None}
    BY <1>0, <1>1, <1>8
  <2>2. DOMAIN facts' \subseteq Slots /\ \A s \in DOMAIN facts' : facts'[s] \in Facts
    BY <1>0, <1>3, <1>6 DEF TypeOK
  <2>3. DOMAIN told' \subseteq Slots /\ \A s \in DOMAIN told' : told'[s] \in Facts
    BY <1>0, <1>3 DEF TypeOK
  <2>4. released' \subseteq Resolved
    BY <1>0, <1>7 DEF TypeOK, ReleaseFollows
  <2>5. dropped' \subseteq DroppedPayload
    BY <1>0, <1>7, <1>8 DEF TypeOK, DropFollows
  <2> QED
    BY <1>0, <1>4, <2>1, <2>2, <2>3, <2>4, <2>5 DEF TypeOK
<1>16. KeptIn(facts', slot) # None => FactsOf(facts', slot) = FactsOf(told', slot)
  BY <1>9, DecidedIsRemembered DEF FactsOf, NothingHalfRemembered
<1>17. DecidedByTheStream
  <2>1. ASSUME NEW r \in released' \ released
        PROVE  ~IsLosing(told', r.slot, r.bank) /\ TimeIn(told', r.slot) = r.at
    <3>1. r.slot = slot /\ ReleaseFollows(facts', r)
      BY <1>7
    <3>2. FactsOf(facts', slot) = FactsOf(told', slot)
      BY <1>7, <1>16
    <3> QED
      BY <3>1, <3>2, SameFactsSameVerdict DEF ReleaseFollows
  <2>2. ASSUME NEW d \in dropped' \ dropped
        PROVE  /\ d.reason = "losing_bank" => IsLosing(told', d.slot, d.bank)
               /\ d.reason = "unresolvable" =>
                     ~IsLosing(told', d.slot, d.bank) /\ TimeIn(told', d.slot) = GivenUp
    <3>1. CASE d \in lost
      <4>1. d.slot = slot /\ DropFollows(facts', d)
        BY <1>7, <3>1
      <4>2. FactsOf(facts', slot) = FactsOf(told', slot)
        BY <1>7, <1>16, <3>1
      <4> QED
        BY <4>1, <4>2, SameFactsSameVerdict DEF DropFollows
    <3>2. CASE d \notin lost
      BY <1>8, <3>2
    <3> QED
      BY <3>1, <3>2
  <2> QED
    BY <2>1, <2>2 DEF DecidedByTheStream
<1>18. EvictsFromItsEnd
  <2>1. \A d \in lost : d.reason \notin {"slot_bound", "payload_bound"}
    BY <1>7 DEF DropFollows
  <2> QED
    BY <1>8, <2>1 DEF EvictsFromItsEnd
<1> QED
  BY <1>6, <1>8, <1>9, <1>10, <1>11, <1>12, <1>13, <1>14, <1>15, <1>17, <1>18 DEF IndInv

\* A payload arrives.
LEMMA PayloadStep ==
    ASSUME IndInv, NEW slot \in Slots, NEW bank \in Bank, OnPayload(slot, bank)
    PROVE  IndInv' /\ DecidedByTheStream /\ EvictsFromItsEnd
<1> DEFINE new == Arriving(slot, bank)
<1>0. /\ TypeOK /\ IsFiniteSet(waiting) /\ IsFiniteSet(DOMAIN facts)
      /\ waiting \subseteq Held /\ head \in Slots \cup {None}
      /\ DOMAIN facts \subseteq Nat /\ DOMAIN told \subseteq Nat /\ slot \in Nat
      /\ \A h \in waiting : h.slot \in Nat
      /\ arrived \in Nat /\ arrived' = arrived + 1
      /\ facts' = facts /\ told' = told
  BY SlotsAssumption DEF IndInv, TypeOK, Held, OnPayload
<1>1. new \in Held /\ new.slot = slot /\ new.bank = bank /\ new.id = arrived + 1
  BY <1>0 DEF Arriving, Held
<1>2. KeptIn(facts, slot) # None => FactsOf(facts, slot) = FactsOf(told, slot)
  BY DecidedIsRemembered DEF FactsOf, IndInv, NothingHalfRemembered
<1> HIDE DEF new
<1>3. CASE /\ UNCHANGED <<waiting, count, head>>
           /\ \A r \in released' \ released :
                 r.slot = slot /\ KeptIn(facts, slot) # None /\ ReleaseFollows(facts, r)
           /\ \A d \in dropped' \ dropped :
                 d.slot = slot /\ KeptIn(facts, slot) # None /\ DropFollows(facts, d)
  <2>1. TypeOK'
    <3>1. released' \subseteq Resolved
      BY <1>0, <1>3 DEF TypeOK, ReleaseFollows
    <3>2. dropped' \subseteq DroppedPayload
      BY <1>0, <1>3 DEF TypeOK, DropFollows
    <3> QED
      BY <1>0, <1>3, <3>1, <3>2 DEF TypeOK
  <2>2. IdsAreFresh'
    BY <1>0, <1>3 DEF IndInv, IdsAreFresh, Held
  <2>3. /\ HeadSawEverything' /\ NothingHalfRemembered' /\ ForgottenBehindAFullTable'
        /\ CountIsTrue' /\ WithinBounds' /\ NothingDecidedWaits'
    BY <1>0, <1>3 DEF IndInv, HeadSawEverything, NothingHalfRemembered,
       ForgottenBehindAFullTable, CountIsTrue, WithinBounds, NothingDecidedWaits
  <2>4. DecidedByTheStream
    BY <1>0, <1>2, <1>3, SameFactsSameVerdict
      DEF DecidedByTheStream, ReleaseFollows, DropFollows
  <2>5. EvictsFromItsEnd
    BY <1>3 DEF EvictsFromItsEnd, DropFollows
  <2> QED
    BY <1>0, <1>3, <2>1, <2>2, <2>3, <2>4, <2>5 DEF IndInv
<1>4. CASE PayloadLosing(slot, bank)
  <2>1. /\ UNCHANGED <<waiting, count, head, released>>
        /\ dropped' = dropped \cup Lost({new}, "losing_bank")
        /\ IsLosing(facts, slot, bank)
    BY <1>4 DEF PayloadLosing, new
  <2>2. \A d \in Lost({new}, "losing_bank") : d.slot = slot /\ DropFollows(facts, d)
    BY <1>1, <2>1 DEF Lost, DropFollows, DroppedPayload, DropReason, Held
  <2>3. KeptIn(facts, slot) # None
    BY <2>1 DEF IsLosing
  <2> QED
    BY <1>3, <2>1, <2>2, <2>3
<1>5. CASE PayloadGivenUp(slot, bank)
  <2>1. /\ UNCHANGED <<waiting, count, head, released>>
        /\ dropped' = dropped \cup Lost({new}, "unresolvable")
        /\ ~IsLosing(facts, slot, bank) /\ TimeIn(facts, slot) = GivenUp
    BY <1>5 DEF PayloadGivenUp, new
  <2>2. \A d \in Lost({new}, "unresolvable") : d.slot = slot /\ DropFollows(facts, d)
    BY <1>1, <2>1 DEF Lost, DropFollows, DroppedPayload, DropReason, Held
  <2>3. KeptIn(facts, slot) # None
    BY <2>1, MarkersAssumption DEF TimeIn
  <2> QED
    BY <1>3, <2>1, <2>2, <2>3
<1>6. CASE PayloadReleased(slot, bank)
  <2>1. /\ UNCHANGED <<waiting, count, head, dropped>>
        /\ released' = released \cup Timed({new}, TimeIn(facts, slot))
        /\ ~IsLosing(facts, slot, bank) /\ TimeIn(facts, slot) \in Times
    BY <1>6 DEF PayloadReleased, new
  <2>2. \A r \in Timed({new}, TimeIn(facts, slot)) : r.slot = slot /\ ReleaseFollows(facts, r)
    BY <1>1, <2>1 DEF Timed, ReleaseFollows, Resolved, Held
  <2>3. KeptIn(facts, slot) # None
    BY <2>1, MarkersAssumption DEF TimeIn
  <2> QED
    BY <1>3, <2>1, <2>2, <2>3
<1>7. CASE PayloadHeld(slot, bank)
  <2> DEFINE held == waiting \cup {new}
             top == Seen(slot)
  <2>1. /\ HoldWithinBounds(held, count + 1, slot, {})
        /\ released' = released /\ IsPending(facts, slot, bank)
    BY <1>7 DEF PayloadHeld, new
  <2>2. held \subseteq Held /\ IsFiniteSet(held) /\ Cardinality(held) = count + 1
    <3>1. new \notin waiting
      BY <1>0, <1>1 DEF IndInv, IdsAreFresh
    <3>2. /\ IsFiniteSet(waiting \cup {new})
          /\ Cardinality(waiting \cup {new}) =
                IF new \in waiting THEN Cardinality(waiting) ELSE Cardinality(waiting) + 1
      BY <1>0, FS_AddElement
    <3>3. Cardinality(waiting) = count
      BY DEF IndInv, CountIsTrue
    <3> QED
      BY <1>0, <1>1, <3>1, <3>2, <3>3
  <2>3. /\ top \in Slots /\ top \in Nat /\ slot <= top
        /\ head # None => head <= top
    BY <1>0, SeenProperties
  <2>4. head # None => head \in Nat
    BY <1>0, SlotsAssumption
  <2> HIDE DEF top
  <2>5. /\ \A h \in waiting : h.slot <= top
        /\ \A s \in DOMAIN told : s <= top
    BY <1>0, <2>3, <2>4 DEF IndInv, HeadSawEverything
  <2>6. \A h \in held : h.slot <= Seen(slot)
    BY <1>1, <2>3, <2>5 DEF top
  <2> HIDE DEF held
  <2>7. /\ head' = top
        /\ waiting' \subseteq held /\ IsFiniteSet(waiting')
        /\ count' = Cardinality(waiting') /\ count' \in Int
        /\ \A h \in waiting' : head' - h.slot <= MaxPendingSlots
        /\ Cardinality(waiting') <= MaxPendingPayloads
        /\ \A d \in dropped' \ (dropped \cup {}) :
              /\ d \in DroppedPayload
              /\ d.reason \in {"slot_bound", "payload_bound"}
              /\ \A h \in waiting' :
                   /\ d.reason = "slot_bound" => d.slot < h.slot
                   /\ d.reason = "payload_bound" => h.slot < d.slot
    <3>1. HoldWithinBounds(held, Cardinality(held), slot, {})
      BY <2>1, <2>2
    <3> QED
      BY <1>0, <2>2, <2>6, <3>1, HoldProperties DEF top
  <2>8. TypeOK'
    <3>1. waiting' \subseteq Held /\ head' \in Slots \cup {None} /\ arrived' \in Nat
      BY <1>0, <2>2, <2>3, <2>7
    <3>2. dropped' \subseteq DroppedPayload
      BY <1>0, <2>7 DEF TypeOK
    <3> QED
      BY <1>0, <2>1, <2>7, <3>1, <3>2 DEF TypeOK
  <2>9. HeadSawEverything'
    <3>1. top # None
      BY <2>3, MarkersAssumption
    <3> QED
      BY <1>0, <2>5, <2>6, <2>7, <3>1 DEF HeadSawEverything, top
  <2>10. IdsAreFresh'
    BY <1>0, <1>1, <2>7 DEF IndInv, IdsAreFresh, Held, held
  <2>11. NothingHalfRemembered' /\ ForgottenBehindAFullTable'
    BY <1>0 DEF IndInv, NothingHalfRemembered, ForgottenBehindAFullTable
  <2>12. CountIsTrue' /\ WithinBounds'
    BY <1>0, <2>7 DEF IndInv, CountIsTrue, WithinBounds
  <2>13. NothingDecidedWaits'
    <3> SUFFICES ASSUME NEW h \in waiting' PROVE IsPending(told, h.slot, h.bank)
      BY <1>0 DEF NothingDecidedWaits
    <3>1. CASE h \in waiting
      BY <3>1 DEF IndInv, NothingDecidedWaits
    <3>2. CASE h = new
      <4>1. top - slot <= MaxPendingSlots
        BY <1>1, <2>7, <3>2
      <4>2. FactsOf(facts, slot) = FactsOf(told, slot)
        BY <1>0, <2>3, <2>5, <4>1, WindowIsKnown
          DEF IndInv, NothingHalfRemembered, ForgottenBehindAFullTable
      <4> QED
        BY <1>1, <2>1, <3>2, <4>2, SameFactsSameVerdict
    <3> QED
      BY <2>7, <3>1, <3>2 DEF held
  <2>14. DecidedByTheStream
    BY <2>1, <2>7 DEF DecidedByTheStream
  <2>15. EvictsFromItsEnd
    BY <2>7 DEF EvictsFromItsEnd
  <2> QED
    BY <1>0, <2>7, <2>8, <2>9, <2>10, <2>11, <2>12, <2>13, <2>14, <2>15 DEF IndInv
<1> QED
  BY <1>4, <1>5, <1>6, <1>7 DEF OnPayload

-----------------------------------------------------------------------------
(***************************************************************************)
(* The theorems.                                                           *)
(***************************************************************************)

\* Every step of the buffer keeps the invariant, and decides and evicts as it
\* should.
LEMMA NextStep ==
    ASSUME IndInv, BufferNext
    PROVE  IndInv' /\ DecidedByTheStream /\ EvictsFromItsEnd
<1>1. PICK slot \in Slots, bank \in Bank :
        \/ OnPayload(slot, bank)
        \/ \E at \in Times : OnBlockTime(slot, bank, at)
        \/ OnSlotUnresolvable(slot, bank)
        \/ OnFinalized(slot, bank)
  BY DEF BufferNext
<1>2. FactsOf(facts, slot) \in Facts /\ FactsOf(told, slot) \in Facts
  <2>1. NoFacts \in Facts
    BY DEF NoFacts, Facts
  <2> QED
    BY <2>1 DEF IndInv, TypeOK, FactsOf
<1>3. CASE OnPayload(slot, bank)
  BY <1>3, PayloadStep
<1>4. ASSUME NEW at \in Times, OnBlockTime(slot, bank, at)
      PROVE  IndInv' /\ DecidedByTheStream /\ EvictsFromItsEnd
  <2> DEFINE f == Resolve(FactsOf(facts, slot), bank, at)
             g == Resolve(FactsOf(told, slot), bank, at)
  <2>1. f \in Facts /\ g \in Facts
    BY <1>2, FactsStayTyped
  <2>2. told' = WithFacts(told, slot, g) /\ Learn(slot, f)
    BY <1>4 DEF OnBlockTime
  <2>3. FactsOf(facts, slot) = FactsOf(told, slot) => f = g
    OBVIOUS
  <2> HIDE DEF f, g
  <2> QED
    BY <2>1, <2>2, <2>3, LearnStep
<1>5. CASE OnSlotUnresolvable(slot, bank)
  <2> DEFINE f == GiveUp(FactsOf(facts, slot), bank)
             g == GiveUp(FactsOf(told, slot), bank)
  <2>1. f \in Facts /\ g \in Facts
    BY <1>2, GiveUpStaysTyped
  <2>2. told' = WithFacts(told, slot, g) /\ Learn(slot, f)
    BY <1>5 DEF OnSlotUnresolvable
  <2>3. FactsOf(facts, slot) = FactsOf(told, slot) => f = g
    OBVIOUS
  <2> HIDE DEF f, g
  <2> QED
    BY <2>1, <2>2, <2>3, LearnStep
<1>6. CASE OnFinalized(slot, bank)
  <2> DEFINE f == Keep(FactsOf(facts, slot), bank)
             g == Keep(FactsOf(told, slot), bank)
  <2>1. f \in Facts /\ g \in Facts
    BY <1>2, KeepStaysTyped
  <2>2. told' = WithFacts(told, slot, g) /\ Learn(slot, f)
    BY <1>6 DEF OnFinalized
  <2>3. FactsOf(facts, slot) = FactsOf(told, slot) => f = g
    OBVIOUS
  <2> HIDE DEF f, g
  <2> QED
    BY <2>1, <2>2, <2>3, LearnStep
<1> QED
  BY <1>1, <1>3, <1>4, <1>5, <1>6

\* The invariant IndInv holds in every reachable state of the buffer, whatever
\* the payloads, block-metas and statuses and their order.
THEOREM Invariance == BufferSpec => []IndInv
<1>1. BufferInit => IndInv
  <2> SUFFICES ASSUME BufferInit PROVE IndInv
    OBVIOUS
  <2>1. IsFiniteSet({}) /\ Cardinality({}) = 0
    BY FS_EmptySet
  <2>2. /\ waiting = {} /\ count = 0 /\ head = None /\ DOMAIN facts = {}
        /\ arrived = 0 /\ released = {} /\ dropped = {} /\ DOMAIN told = {}
    BY DEF BufferInit
  <2>3. TypeOK
    BY <2>2 DEF TypeOK
  <2>4. /\ HeadSawEverything /\ IdsAreFresh /\ NothingHalfRemembered
        /\ ForgottenBehindAFullTable /\ NothingDecidedWaits
    BY <2>2 DEF HeadSawEverything, IdsAreFresh, NothingHalfRemembered,
       ForgottenBehindAFullTable, NothingDecidedWaits
  <2>5. CountIsTrue /\ WithinBounds
    BY <2>1, <2>2, BoundsAssumption DEF CountIsTrue, WithinBounds
  <2> QED
    BY <2>1, <2>2, <2>3, <2>4, <2>5 DEF IndInv
<1>2. IndInv /\ [BufferNext]_bufferVars => IndInv'
  <2> SUFFICES ASSUME IndInv, [BufferNext]_bufferVars PROVE IndInv'
    OBVIOUS
  <2>1. CASE BufferNext
    BY <2>1, NextStep
  <2>2. CASE UNCHANGED bufferVars
    BY <2>2 DEF bufferVars, IndInv, TypeOK, HeadSawEverything, IdsAreFresh,
       NothingHalfRemembered, ForgottenBehindAFullTable, CountIsTrue, WithinBounds,
       NothingDecidedWaits
  <2> QED
    BY <2>1, <2>2
<1> QED
  BY <1>1, <1>2, PTL DEF BufferSpec

\* The buffer's fields keep their types.
THEOREM TypeCorrect == BufferSpec => []TypeOK
<1>1. IndInv => TypeOK
  BY DEF IndInv
<1> QED
  BY <1>1, Invariance, PTL

\* Running total and bounds: `count` never drifts from what waits, no payload
\* waits behind the window, no more payloads wait and no more slots are
\* remembered than the bounds allow.
THEOREM BoundsHold == BufferSpec => [](CountIsTrue /\ WithinBounds)
<1>1. IndInv => CountIsTrue /\ WithinBounds
  BY DEF IndInv
<1> QED
  BY <1>1, Invariance, PTL

\* The table remembers the whole window: MaxKnownSlots >= MaxPendingSlots + 1
\* is all that this takes.
THEOREM WindowKnown == BufferSpec => []KnownInWindow
  BY Invariance, IndInvKnowsTheWindow, PTL

\* No payload waits for what the stream has already said.
THEOREM NothingDecidedIsHeld == BufferSpec => []NothingDecidedWaits
<1>1. IndInv => NothingDecidedWaits
  BY DEF IndInv
<1> QED
  BY <1>1, Invariance, PTL

\* Trimming the table never changes a verdict: whatever the buffer hands back
\* or drops, it does by all that the stream has said.
THEOREM VerdictsSound == BufferSpec => VerdictsFollowTheStream
<1>1. IndInv /\ [BufferNext]_bufferVars => [DecidedByTheStream]_bufferVars
  BY NextStep
<1> QED
  BY <1>1, Invariance, PTL DEF BufferSpec, VerdictsFollowTheStream

\* The slot bound takes only from the old end, the payload bound only from the
\* new end.
THEOREM BoundsSound == BufferSpec => BoundsTakeTheirOwnEnd
<1>1. IndInv /\ [BufferNext]_bufferVars => [EvictsFromItsEnd]_bufferVars
  BY NextStep
<1> QED
  BY <1>1, Invariance, PTL DEF BufferSpec, BoundsTakeTheirOwnEnd

-----------------------------------------------------------------------------
(***************************************************************************)
(* Every payload has one place: it waits, it was handed back, or it was    *)
(* counted as lost.                                                        *)
(***************************************************************************)

\* A payload is told by its number; its slot comes with it wherever it goes.
Tag(x) == <<x.id, x.slot>>

\* Among the payloads held, those handed back and those lost, each payload of N
\* is found, once, and nothing else is.
OneEntryEach(N, held, back, lost) ==
    /\ \A n \in N : \/ \E h \in held : Tag(h) = n
                    \/ \E r \in back : Tag(r) = n
                    \/ \E d \in lost : Tag(d) = n
    /\ \A x \in held \cup back \cup lost : Tag(x) \in N
    /\ \A h, g \in held : h.id = g.id => h = g
    /\ \A r, q \in back : r.id = q.id => r = q
    /\ \A d, e \in lost : d.id = e.id => d = e
    /\ \A h \in held, r \in back : h.id # r.id
    /\ \A h \in held, d \in lost : h.id # d.id
    /\ \A r \in back, d \in lost : r.id # d.id

\* Counting payloads out as lost keeps one entry for each.
LEMMA LosingKeepsOne ==
    ASSUME NEW N, NEW held, NEW back, NEW lost, OneEntryEach(N, held, back, lost),
           NEW gone, gone \subseteq held, NEW reason
    PROVE  OneEntryEach(N, held \ gone, back, lost \cup Lost(gone, reason))
<1> DEFINE after == Lost(gone, reason)
<1>1. \A d \in after : \E h \in gone : d.id = h.id /\ Tag(d) = Tag(h)
  BY DEF Lost, Tag
<1>2. ASSUME NEW h \in gone PROVE \E d \in after : Tag(d) = Tag(h)
  <2>1. [id |-> h.id, slot |-> h.slot, bank |-> h.bank, reason |-> reason] \in after
    BY DEF Lost
  <2> QED
    BY <2>1 DEF Tag
<1>3. ASSUME NEW d \in after, NEW e \in after, d.id = e.id PROVE d = e
  <2>1. PICK h \in gone : d = [id |-> h.id, slot |-> h.slot, bank |-> h.bank, reason |-> reason]
    BY DEF Lost
  <2>2. PICK g \in gone : e = [id |-> g.id, slot |-> g.slot, bank |-> g.bank, reason |-> reason]
    BY DEF Lost
  <2>3. h = g
    BY <1>3, <2>1, <2>2 DEF OneEntryEach
  <2> QED
    BY <2>1, <2>2, <2>3
<1> HIDE DEF after
<1>4. \A n \in N : \/ \E h \in held \ gone : Tag(h) = n
                   \/ \E r \in back : Tag(r) = n
                   \/ \E d \in lost \cup after : Tag(d) = n
  BY <1>2 DEF OneEntryEach
<1>5. \A x \in (held \ gone) \cup back \cup (lost \cup after) : Tag(x) \in N
  BY <1>1 DEF OneEntryEach
<1>6. \A d, e \in lost \cup after : d.id = e.id => d = e
  BY <1>1, <1>3 DEF OneEntryEach
<1>7. \A h \in held \ gone, d \in lost \cup after : h.id # d.id
  BY <1>1 DEF OneEntryEach
<1>8. \A r \in back, d \in lost \cup after : r.id # d.id
  BY <1>1 DEF OneEntryEach
<1>9. /\ \A h, g \in held \ gone : h.id = g.id => h = g
      /\ \A r, q \in back : r.id = q.id => r = q
      /\ \A h \in held \ gone, r \in back : h.id # r.id
  BY DEF OneEntryEach
<1> QED
  BY <1>4, <1>5, <1>6, <1>7, <1>8, <1>9 DEF OneEntryEach, after

\* So does handing payloads back with an instant.
LEMMA TimingKeepsOne ==
    ASSUME NEW N, NEW held, NEW back, NEW lost, OneEntryEach(N, held, back, lost),
           NEW gone, gone \subseteq held, NEW at
    PROVE  OneEntryEach(N, held \ gone, back \cup Timed(gone, at), lost)
<1> DEFINE after == Timed(gone, at)
<1>1. \A r \in after : \E h \in gone : r.id = h.id /\ Tag(r) = Tag(h)
  BY DEF Timed, Tag
<1>2. ASSUME NEW h \in gone PROVE \E r \in after : Tag(r) = Tag(h)
  <2>1. [id |-> h.id, slot |-> h.slot, bank |-> h.bank, at |-> at] \in after
    BY DEF Timed
  <2> QED
    BY <2>1 DEF Tag
<1>3. ASSUME NEW r \in after, NEW q \in after, r.id = q.id PROVE r = q
  <2>1. PICK h \in gone : r = [id |-> h.id, slot |-> h.slot, bank |-> h.bank, at |-> at]
    BY DEF Timed
  <2>2. PICK g \in gone : q = [id |-> g.id, slot |-> g.slot, bank |-> g.bank, at |-> at]
    BY DEF Timed
  <2>3. h = g
    BY <1>3, <2>1, <2>2 DEF OneEntryEach
  <2> QED
    BY <2>1, <2>2, <2>3
<1> HIDE DEF after
<1>4. \A n \in N : \/ \E h \in held \ gone : Tag(h) = n
                   \/ \E r \in back \cup after : Tag(r) = n
                   \/ \E d \in lost : Tag(d) = n
  BY <1>2 DEF OneEntryEach
<1>5. \A x \in (held \ gone) \cup (back \cup after) \cup lost : Tag(x) \in N
  BY <1>1 DEF OneEntryEach
<1>6. \A r, q \in back \cup after : r.id = q.id => r = q
  BY <1>1, <1>3 DEF OneEntryEach
<1>7. \A h \in held \ gone, r \in back \cup after : h.id # r.id
  BY <1>1 DEF OneEntryEach
<1>8. \A r \in back \cup after, d \in lost : r.id # d.id
  BY <1>1 DEF OneEntryEach
<1>9. /\ \A h, g \in held \ gone : h.id = g.id => h = g
      /\ \A d, e \in lost : d.id = e.id => d = e
      /\ \A h \in held \ gone, d \in lost : h.id # d.id
  BY DEF OneEntryEach
<1> QED
  BY <1>4, <1>5, <1>6, <1>7, <1>8, <1>9 DEF OneEntryEach, after

\* Both evictions count out what they take.
LEMMA HoldingKeepsOne ==
    ASSUME NEW N, NEW held, NEW total, NEW slot, NEW back, NEW lost,
           OneEntryEach(N, held, back, dropped \cup lost),
           HoldWithinBounds(held, total, slot, lost)
    PROVE  OneEntryEach(N, waiting', back, dropped')
<1> DEFINE late == OutOfWindow(held, Seen(slot))
           inside == held \ late
           over == Overflowing(inside, total - Cardinality(late))
<1>1. late \subseteq held /\ over \subseteq inside
  BY DEF OutOfWindow, Overflowing
<1>2. /\ waiting' = inside \ over
      /\ dropped' = dropped \cup lost \cup Lost(late, "slot_bound") \cup Lost(over, "payload_bound")
  BY DEF HoldWithinBounds
<1> HIDE DEF late, over
<1>3. OneEntryEach(N, inside, back, (dropped \cup lost) \cup Lost(late, "slot_bound"))
  BY <1>1, LosingKeepsOne
<1> HIDE DEF inside
<1>4. OneEntryEach(N, inside \ over, back,
        ((dropped \cup lost) \cup Lost(late, "slot_bound")) \cup Lost(over, "payload_bound"))
  BY <1>1, <1>3, LosingKeepsOne
<1> QED
  BY <1>2, <1>4

\* A payload that arrives is one more held payload, under a number of its own.
LEMMA ArrivalKeepsOne ==
    ASSUME NEW N, NEW held, NEW back, NEW lost, OneEntryEach(N, held, back, lost),
           NEW new, \A n \in N : n[1] # new.id
    PROVE  /\ OneEntryEach(N \cup {Tag(new)}, held \cup {new}, back, lost)
           /\ new \notin held \cup back \cup lost
<1>1. \A x \in held \cup back \cup lost : Tag(x) \in N /\ x.id # new.id
  <2> SUFFICES ASSUME NEW x \in held \cup back \cup lost
               PROVE  Tag(x) \in N /\ x.id # new.id
    OBVIOUS
  <2>1. Tag(x) \in N
    BY DEF OneEntryEach
  <2>2. Tag(x)[1] = x.id
    BY DEF Tag
  <2> QED
    BY <2>1, <2>2
<1>2. \A n \in N \cup {Tag(new)} :
         \/ \E h \in held \cup {new} : Tag(h) = n
         \/ \E r \in back : Tag(r) = n
         \/ \E d \in lost : Tag(d) = n
  BY DEF OneEntryEach
<1>3. \A x \in (held \cup {new}) \cup back \cup lost : Tag(x) \in N \cup {Tag(new)}
  BY <1>1
<1>4. \A h, g \in held \cup {new} : h.id = g.id => h = g
  BY <1>1 DEF OneEntryEach
<1>5. /\ \A h \in held \cup {new}, r \in back : h.id # r.id
      /\ \A h \in held \cup {new}, d \in lost : h.id # d.id
  BY <1>1 DEF OneEntryEach
<1>6. /\ \A r, q \in back : r.id = q.id => r = q
      /\ \A d, e \in lost : d.id = e.id => d = e
      /\ \A r \in back, d \in lost : r.id # d.id
  BY DEF OneEntryEach
<1> QED
  BY <1>1, <1>2, <1>3, <1>4, <1>5, <1>6 DEF OneEntryEach

\* A payload is settled at once, or held within the bounds.  `aside` is what the
\* buffer's caller has put aside itself.
LEMMA PayloadKeepsOne ==
    ASSUME NEW N, NEW aside, OneEntryEach(N, waiting, released \cup aside, dropped),
           \A n \in N : n[1] # arrived + 1,
           NEW slot, NEW bank, OnPayload(slot, bank)
    PROVE  OneEntryEach(N \cup {<<arrived + 1, slot>>}, waiting', released' \cup aside, dropped')
<1> DEFINE new == Arriving(slot, bank)
           held == waiting \cup {new}
           back == released \cup aside
           M == N \cup {Tag(new)}
<1>1. new.id = arrived + 1 /\ Tag(new) = <<arrived + 1, slot>>
  BY DEF Arriving, Tag
<1>2. OneEntryEach(M, held, back, dropped) /\ new \notin waiting
  <2> HIDE DEF new, back
  <2> QED
    BY <1>1, ArrivalKeepsOne DEF back
<1>3. held \ {new} = waiting
  BY <1>2
<1> SUFFICES OneEntryEach(M, waiting', released' \cup aside, dropped')
  BY <1>1
<1> HIDE DEF new, M
<1>4. ASSUME NEW reason, dropped' = dropped \cup Lost({new}, reason),
             UNCHANGED <<waiting, released>>
      PROVE  OneEntryEach(M, waiting', released' \cup aside, dropped')
  <2>1. OneEntryEach(M, held \ {new}, back, dropped \cup Lost({new}, reason))
    <3> HIDE DEF back
    <3> QED
      BY <1>2, LosingKeepsOne
  <2> QED
    BY <1>3, <1>4, <2>1
<1>5. CASE PayloadLosing(slot, bank)
  BY <1>4, <1>5 DEF PayloadLosing, new
<1>6. CASE PayloadGivenUp(slot, bank)
  BY <1>4, <1>6 DEF PayloadGivenUp, new
<1>7. CASE PayloadReleased(slot, bank)
  <2> DEFINE timed == Timed({new}, TimeIn(facts, slot))
  <2>1. OneEntryEach(M, held \ {new}, back \cup timed, dropped)
    <3> HIDE DEF back
    <3> QED
      BY <1>2, TimingKeepsOne
  <2>2. released' = released \cup timed /\ UNCHANGED <<waiting, dropped>>
    BY <1>7 DEF PayloadReleased, new
  <2>3. back \cup timed = released' \cup aside
    BY <2>2
  <2> HIDE DEF back, timed
  <2> QED
    BY <1>3, <2>1, <2>2, <2>3
<1>8. CASE PayloadHeld(slot, bank)
  <2>1. HoldWithinBounds(held, count + 1, slot, {}) /\ released' = released
    BY <1>8 DEF PayloadHeld, new
  <2>2. OneEntryEach(M, held, back, dropped \cup {})
    BY <1>2
  <2>3. OneEntryEach(M, waiting', back, dropped')
    <3> HIDE DEF back, held
    <3> QED
      BY <2>1, <2>2, HoldingKeepsOne
  <2> QED
    BY <2>1, <2>3
<1> QED
  BY <1>5, <1>6, <1>7, <1>8 DEF OnPayload

\* A fact settles what it decides of the slot, then what is left is held within
\* the bounds.
LEMMA SettleKeepsOne ==
    ASSUME NEW N, NEW aside, OneEntryEach(N, waiting, released \cup aside, dropped),
           NEW slot, Settle(slot)
    PROVE  OneEntryEach(N, waiting', released' \cup aside, dropped')
<1> DEFINE kept == released \cup aside
           lose == LosingIn(slot)
           win == WinningIn(slot)
           losing == Lost(lose, "losing_bank")
<1>1. lose \subseteq waiting /\ win \subseteq waiting /\ win \subseteq waiting \ lose
  BY DEF LosingIn, WinningIn
<1>2. waiting \ (lose \cup win) = (waiting \ lose) \ win
  OBVIOUS
<1>3. CASE SettleUndecided(slot)
  <2>1. HoldWithinBounds(waiting, count, slot, {}) /\ released' = released
    BY <1>3 DEF SettleUndecided
  <2>2. OneEntryEach(N, waiting, kept, dropped \cup {})
    OBVIOUS
  <2>3. OneEntryEach(N, waiting', kept, dropped')
    BY <2>1, <2>2, HoldingKeepsOne
  <2> QED
    BY <2>1, <2>3
<1>4. OneEntryEach(N, waiting \ lose, kept, dropped \cup losing)
  <2> HIDE DEF lose
  <2> QED
    BY <1>1, LosingKeepsOne
<1>5. CASE SettleUntimed(slot)
  <2>1. HoldWithinBounds(waiting \ lose, count - Cardinality(lose), slot, losing)
        /\ released' = released
    BY <1>5 DEF SettleUntimed
  <2>2. OneEntryEach(N, waiting', kept, dropped')
    <3> HIDE DEF lose, losing
    <3> QED
      BY <1>4, <2>1, HoldingKeepsOne
  <2> QED
    BY <2>1, <2>2
<1>6. CASE SettleGivenUp(slot)
  <2> DEFINE total == count - Cardinality(lose) - Cardinality(win)
             lost == losing \cup Lost(win, "unresolvable")
  <2>1. HoldWithinBounds(waiting \ (lose \cup win), total, slot, lost)
        /\ released' = released
    BY <1>6 DEF SettleGivenUp
  <2>2. OneEntryEach(N, (waiting \ lose) \ win, kept,
                     (dropped \cup losing) \cup Lost(win, "unresolvable"))
    <3> HIDE DEF lose, win, losing
    <3> QED
      BY <1>1, <1>4, LosingKeepsOne
  <2>3. OneEntryEach(N, waiting \ (lose \cup win), kept, dropped \cup lost)
    <3>1. (dropped \cup losing) \cup Lost(win, "unresolvable") = dropped \cup lost
      OBVIOUS
    <3> HIDE DEF lose, win, losing, lost
    <3> QED
      BY <1>2, <2>2, <3>1
  <2>4. OneEntryEach(N, waiting', kept, dropped')
    <3> HIDE DEF lose, win, lost, total
    <3> QED
      BY <2>1, <2>3, HoldingKeepsOne
  <2> QED
    BY <2>1, <2>4
<1>7. CASE SettleTimed(slot)
  <2> DEFINE total == count - Cardinality(lose) - Cardinality(win)
             timed == Timed(win, TimeIn(facts', slot))
             back == kept \cup timed
  <2>1. HoldWithinBounds(waiting \ (lose \cup win), total, slot, losing)
        /\ released' = released \cup timed
    BY <1>7 DEF SettleTimed
  <2>2. OneEntryEach(N, (waiting \ lose) \ win, back, dropped \cup losing)
    <3> HIDE DEF lose, win, losing
    <3> QED
      BY <1>1, <1>4, TimingKeepsOne
  <2>3. OneEntryEach(N, waiting', back, dropped')
    <3> HIDE DEF lose, win, losing, back, total
    <3> QED
      BY <1>2, <2>1, <2>2, HoldingKeepsOne
  <2>4. back = released' \cup aside
    BY <2>1
  <2> HIDE DEF back
  <2> QED
    BY <2>3, <2>4
<1> QED
  BY <1>3, <1>5, <1>6, <1>7 DEF Settle

\* One entry each, by the numbers the run counts.
LEMMA OneEntryIsOne ==
    ASSUME NEW N, OneEntryEach(N, waiting, released, dropped),
           \A id \in 1..arrived : \E n \in N : n[1] = id
    PROVE  EachPayloadOnce
<1> SUFFICES ASSUME NEW id \in 1..arrived
             PROVE  Cardinality({h \in waiting : h.id = id})
                      + Cardinality({r \in released : r.id = id})
                      + Cardinality({d \in dropped : d.id = id}) = 1
  BY DEF EachPayloadOnce
<1> DEFINE H == {h \in waiting : h.id = id}
           R == {r \in released : r.id = id}
           D == {d \in dropped : d.id = id}
<1>1. Cardinality({}) = 0 /\ \A x : Cardinality({x}) = 1
  BY FS_EmptySet, FS_Singleton
<1>2. CASE H # {}
  <2>1. PICK h \in H : H = {h}
    BY <1>2 DEF OneEntryEach
  <2>2. R = {} /\ D = {}
    BY <1>2 DEF OneEntryEach
  <2>3. Cardinality(H) = 1 /\ Cardinality(R) = 0 /\ Cardinality(D) = 0
    <3> HIDE DEF H, R, D
    <3> QED
      BY <1>1, <2>1, <2>2
  <2> QED
    BY <2>3
<1>3. CASE R # {}
  <2>1. PICK r \in R : R = {r}
    BY <1>3 DEF OneEntryEach
  <2>2. H = {} /\ D = {}
    BY <1>3 DEF OneEntryEach
  <2>3. Cardinality(R) = 1 /\ Cardinality(H) = 0 /\ Cardinality(D) = 0
    <3> HIDE DEF H, R, D
    <3> QED
      BY <1>1, <2>1, <2>2
  <2> QED
    BY <2>3
<1>4. CASE D # {}
  <2>1. PICK d \in D : D = {d}
    BY <1>4 DEF OneEntryEach
  <2>2. H = {} /\ R = {}
    BY <1>4 DEF OneEntryEach
  <2>3. Cardinality(D) = 1 /\ Cardinality(H) = 0 /\ Cardinality(R) = 0
    <3> HIDE DEF H, R, D
    <3> QED
      BY <1>1, <2>1, <2>2
  <2> QED
    BY <2>3
<1>5. H # {} \/ R # {} \/ D # {}
  <2>1. PICK n \in N : n[1] = id
    OBVIOUS
  <2>2. \A x : Tag(x) = n => x.id = id
    BY <2>1 DEF Tag
  <2> QED
    BY <2>2 DEF OneEntryEach
<1> QED
  BY <1>2, <1>3, <1>4, <1>5

\* Through every settlement, eviction and trim, each payload the buffer was
\* given waits, was handed back or was counted as lost, and only one of these.
THEOREM PayloadsAccounted == BufferSpec => []EachPayloadOnce
<1> DEFINE Tags == {Tag(x) : x \in waiting \cup (released \cup {}) \cup dropped}
           Once == /\ OneEntryEach(Tags, waiting, released \cup {}, dropped)
                   /\ \A n \in Tags : n[1] \in 1..arrived
                   /\ \A id \in 1..arrived : \E n \in Tags : n[1] = id
<1>1. BufferInit => Once
  BY DEF BufferInit, OneEntryEach
<1>2. TypeOK /\ Once /\ [BufferNext]_bufferVars => Once'
  <2> SUFFICES ASSUME TypeOK, Once, [BufferNext]_bufferVars PROVE Once'
    OBVIOUS
  <2>1. CASE UNCHANGED bufferVars
    BY <2>1 DEF bufferVars
  <2>2. CASE BufferNext
    <3>1. PICK slot \in Slots, bank \in Bank :
            \/ OnPayload(slot, bank)
            \/ UNCHANGED arrived /\ Settle(slot)
      BY <2>2 DEF BufferNext, OnBlockTime, OnSlotUnresolvable, OnFinalized, Learn
    <3>2. arrived \in Nat
      BY DEF TypeOK
    <3>3. CASE OnPayload(slot, bank)
      <4> DEFINE M == Tags \cup {<<arrived + 1, slot>>}
      <4>1. OneEntryEach(M, waiting', released' \cup {}, dropped')
        <5>1. \A n \in Tags : n[1] # arrived + 1
          BY <3>2
        <5> HIDE DEF Tags
        <5> QED
          BY <3>3, <5>1, PayloadKeepsOne
      <4>2. Tags' = M
        <5> HIDE DEF M
        <5> QED
          BY <4>1 DEF OneEntryEach
      <4>3. arrived' = arrived + 1 /\ 1..(arrived + 1) = (1..arrived) \cup {arrived + 1}
        BY <3>2, <3>3 DEF OnPayload
      <4>4. /\ \A n \in M : n[1] \in 1..(arrived + 1)
            /\ \A id \in 1..(arrived + 1) : \E n \in M : n[1] = id
        <5> HIDE DEF Tags
        <5>1. <<arrived + 1, slot>>[1] = arrived + 1
          OBVIOUS
        <5> QED
          BY <4>3, <5>1
      <4> HIDE DEF M, Tags
      <4> QED
        BY <4>1, <4>2, <4>3, <4>4
    <3>4. CASE UNCHANGED arrived /\ Settle(slot)
      <4>1. OneEntryEach(Tags, waiting', released' \cup {}, dropped')
        <5> HIDE DEF Tags
        <5> QED
          BY <3>4, SettleKeepsOne
      <4>2. Tags' = Tags
        <5> DEFINE M == Tags
        <5>1. OneEntryEach(M, waiting', released' \cup {}, dropped')
          BY <4>1
        <5> HIDE DEF M
        <5>2. Tags' = M
          BY <5>1 DEF OneEntryEach
        <5> QED
          BY <5>2 DEF M
      <4> HIDE DEF Tags
      <4> QED
        BY <3>4, <4>1, <4>2
    <3> QED
      BY <3>1, <3>3, <3>4
  <2> QED
    BY <2>1, <2>2
<1>3. Once => EachPayloadOnce
  <2> SUFFICES ASSUME Once PROVE EachPayloadOnce
    OBVIOUS
  <2>1. released \cup {} = released
    OBVIOUS
  <2> HIDE DEF Tags
  <2> QED
    BY <2>1, OneEntryIsOne
<1> QED
  BY <1>1, <1>2, <1>3, TypeCorrect, PTL DEF BufferSpec

-----------------------------------------------------------------------------
(***************************************************************************)
(* What a remembered slot was judged by stays: the first bank kept, and    *)
(* that an instant was found.                                              *)
(***************************************************************************)

\* An entry that gives the kept bank's instant.
HasInstant(f, kept) ==
    \E i \in DOMAIN f.times : Admits(kept, f.times[i].bank) /\ f.times[i].outcome \in Times

\* Facts::time finds an instant exactly when some admitted entry has one,
\* wherever it stands among entries given up.
LEMMA InstantIsFound ==
    ASSUME NEW f \in Facts, NEW kept
    PROVE  TimeOf(f.times, kept) \in Times <=> HasInstant(f, kept)
<1> DEFINE admitted == {i \in DOMAIN f.times : Admits(kept, f.times[i].bank)}
           found    == {i \in admitted : f.times[i].outcome # GivenUp}
<1>1. /\ DOMAIN f.times \subseteq Nat
      /\ \A i \in DOMAIN f.times : f.times[i].outcome \in Times \cup {GivenUp}
  <2> DEFINE Entry == [bank : Bank, outcome : SlotOutcome]
  <2>1. f.times \in Seq(Entry)
    BY DEF Facts
  <2>2. ASSUME NEW E, NEW t \in Seq(E)
        PROVE  DOMAIN t \subseteq Nat /\ \A i \in DOMAIN t : t[i] \in E
    BY <2>2
  <2> HIDE DEF Entry
  <2>3. DOMAIN f.times \subseteq Nat /\ \A i \in DOMAIN f.times : f.times[i] \in Entry
    BY <2>1, <2>2
  <2> QED
    BY <2>3 DEF Entry, SlotOutcome
<1>2. \A S : S \subseteq Nat /\ S # {} => Least(S) \in S
  <2> SUFFICES ASSUME NEW S, S \subseteq Nat, S # {} PROVE Least(S) \in S
    OBVIOUS
  <2>1. \E n \in S : \A m \in S : n <= m
    BY LeastExists
  <2> QED
    BY <2>1, Zenon DEF Least
<1>3. found # {} <=> HasInstant(f, kept)
  BY <1>1, MarkersAssumption DEF HasInstant
<1>4. CASE found # {}
  <2>1. TimeOf(f.times, kept) = f.times[Least(found)].outcome
    BY <1>4 DEF TimeOf
  <2>2. Least(found) \in found
    BY <1>1, <1>2, <1>4
  <2> QED
    BY <1>1, <1>3, <1>4, <2>1, <2>2
<1>5. CASE found = {} /\ admitted # {}
  <2>1. TimeOf(f.times, kept) = f.times[Least(admitted)].outcome
    BY <1>5 DEF TimeOf
  <2>2. Least(admitted) \in admitted
    BY <1>1, <1>2, <1>5
  <2>3. f.times[Least(admitted)].outcome = GivenUp
    BY <1>5, <2>2
  <2> QED
    BY <1>3, <1>5, <2>1, <2>3, MarkersAssumption
<1>6. CASE found = {} /\ admitted = {}
  <2>1. TimeOf(f.times, kept) = None
    BY <1>6 DEF TimeOf
  <2> QED
    BY <1>3, <1>6, <2>1, MarkersAssumption
<1> QED
  BY <1>4, <1>5, <1>6

\* What a slot's facts may become: the bank kept stays, and so does an instant
\* found for it.
Stands(f, g) ==
    /\ f.kept # None => g.kept = f.kept
    /\ f.kept # None /\ HasInstant(f, f.kept) => HasInstant(g, g.kept)

\* A block-meta's instant replaces only what its own bank's entry said.
LEMMA ResolveStands ==
    ASSUME NEW f \in Facts, NEW bank \in Bank, NEW at \in Times
    PROVE  Stands(f, Resolve(f, bank, at))
<1> DEFINE g == Resolve(f, bank, at)
<1>1. g.kept = f.kept
  BY DEF Resolve, Facts
<1>2. ASSUME NEW i \in DOMAIN f.times
      PROVE  /\ i \in DOMAIN g.times
             /\ g.times[i].bank = f.times[i].bank
             /\ g.times[i].outcome = f.times[i].outcome \/ g.times[i].outcome = at
  BY DEF Resolve, Facts
<1> HIDE DEF g
<1>3. HasInstant(f, f.kept) => HasInstant(g, f.kept)
  BY <1>2 DEF HasInstant
<1> QED
  BY <1>1, <1>3 DEF Stands, g

\* An empty block-meta writes over no entry.
LEMMA GiveUpStands ==
    ASSUME NEW f \in Facts, NEW bank \in Bank
    PROVE  Stands(f, GiveUp(f, bank))
<1> DEFINE g == GiveUp(f, bank)
<1>1. g.kept = f.kept
  BY DEF GiveUp, Facts
<1>2. ASSUME NEW i \in DOMAIN f.times
      PROVE  i \in DOMAIN g.times /\ g.times[i] = f.times[i]
  BY DEF GiveUp, Facts
<1> HIDE DEF g
<1>3. HasInstant(f, f.kept) => HasInstant(g, f.kept)
  BY <1>2 DEF HasInstant
<1> QED
  BY <1>1, <1>3 DEF Stands, g

\* A second status changes nothing.
LEMMA KeepStands ==
    ASSUME NEW f \in Facts, NEW bank \in Bank
    PROVE  Stands(f, Keep(f, bank))
<1>1. CASE f.kept = None
  BY <1>1 DEF Stands
<1>2. CASE f.kept # None
  BY <1>2 DEF Stands, Keep
<1> QED
  BY <1>1, <1>2

\* While a slot is remembered, whatever its later messages say and in whatever
\* order, the bank kept for it stays and an instant found is not lost.
THEOREM VerdictsStand == BufferSpec => VerdictIsStable
<1> DEFINE Stable == \A s \in DOMAIN facts \cap DOMAIN facts' :
                        /\ facts[s].kept # None => facts'[s].kept = facts[s].kept
                        /\ TimeIn(facts, s) \in Times => TimeIn(facts', s) \in Times
<1>1. TypeOK /\ TypeOK' /\ [BufferNext]_bufferVars => [Stable]_bufferVars
  <2> SUFFICES ASSUME TypeOK, TypeOK', BufferNext PROVE Stable
    OBVIOUS
  <2> SUFFICES ASSUME NEW s \in DOMAIN facts, s \in DOMAIN facts'
               PROVE  /\ facts[s].kept # None => facts'[s].kept = facts[s].kept
                      /\ TimeIn(facts, s) \in Times => TimeIn(facts', s) \in Times
    OBVIOUS
  <2>1. facts[s] \in Facts /\ facts'[s] \in Facts
    BY DEF TypeOK
  <2>2. Stands(facts[s], facts'[s])
    <3>1. facts'[s] = facts[s] => Stands(facts[s], facts'[s])
      BY DEF Stands
    <3>2. ASSUME NEW slot \in Slots, NEW f, Learn(slot, f), slot = s => Stands(FactsOf(facts, s), f)
          PROVE  Stands(facts[s], facts'[s])
      <4>1. facts'[s] = IF s = slot THEN f ELSE facts[s]
        BY <3>2 DEF Learn, Trim, WithFacts
      <4> QED
        BY <3>1, <3>2, <4>1 DEF FactsOf
    <3>3. FactsOf(facts, s) \in Facts
      BY <2>1 DEF FactsOf
    <3>4. PICK slot \in Slots, bank \in Bank :
            \/ OnPayload(slot, bank)
            \/ \E at \in Times : OnBlockTime(slot, bank, at)
            \/ OnSlotUnresolvable(slot, bank)
            \/ OnFinalized(slot, bank)
      BY DEF BufferNext
    <3>5. CASE OnPayload(slot, bank)
      BY <3>1, <3>5 DEF OnPayload
    <3>6. ASSUME NEW at \in Times, OnBlockTime(slot, bank, at)
          PROVE  Stands(facts[s], facts'[s])
      BY <3>2, <3>3, <3>6, ResolveStands DEF OnBlockTime
    <3>7. CASE OnSlotUnresolvable(slot, bank)
      BY <3>2, <3>3, <3>7, GiveUpStands DEF OnSlotUnresolvable
    <3>8. CASE OnFinalized(slot, bank)
      BY <3>2, <3>3, <3>8, KeepStands DEF OnFinalized
    <3> QED
      BY <3>4, <3>5, <3>6, <3>7, <3>8
  <2>3. /\ FactsOf(facts, s) = facts[s] /\ FactsOf(facts', s) = facts'[s]
    BY DEF FactsOf
  <2>4. TimeIn(facts, s) \in Times <=> facts[s].kept # None /\ HasInstant(facts[s], facts[s].kept)
    BY <2>1, <2>3, InstantIsFound, MarkersAssumption DEF TimeIn, KeptIn
  <2>5. TimeIn(facts', s) \in Times <=> facts'[s].kept # None /\ HasInstant(facts'[s], facts'[s].kept)
    BY <2>1, <2>3, InstantIsFound, MarkersAssumption DEF TimeIn, KeptIn
  <2> QED
    BY <2>2, <2>4, <2>5 DEF Stands
<1> QED
  BY <1>1, TypeCorrect, PTL DEF BufferSpec, VerdictIsStable
-----------------------------------------------------------------------------
(***************************************************************************)
(* Second part: the ingestion.                                             *)
(***************************************************************************)

-----------------------------------------------------------------------------
(***************************************************************************)
(* The inductive invariant.                                                *)
(***************************************************************************)

\* The transactions the sessions were given and no cut took from a buffer.
Payloads == {Tag(x) : x \in waiting \cup (released \cup skipped) \cup dropped}
OfSlot(N, s) == {n \in N : n[2] = s}

\* What was sent of the slot was received.
NothingMissed(s) == Cardinality(OfSlot(Payloads, s)) = sentTxs[s]

\* What the worker or the session has finished with.
Done == persisted \cup failed \cup skipped

\* Every transaction of the slot was sent and received, and none still waits.
Complete(s) ==
    /\ sentTxs[s] = TxCount[s]
    /\ Cardinality(OfSlot(Payloads, s)) = TxCount[s]
    /\ \A h \in waiting : h.slot # s

\* And what the buffer handed on of it is finished with, save `excused`.
FinishedBut(s, excused) ==
    /\ Complete(s)
    /\ \A x \in released : x.slot = s => x \in Done \cup atStop \cup excused
Settled(s) == FinishedBut(s, {})

\* Each transaction received is in one place, under a number of its own.
OneEntryOfEach ==
    /\ waiting \subseteq Held /\ released \subseteq Resolved /\ arrived \in Nat
    /\ OneEntryEach(Payloads, waiting, released \cup skipped, dropped)
    /\ \A n \in Payloads : n[1] \in 1..arrived

\* The stream is no later than Lateness, and no more is received than is sent.
StreamIsOrdered ==
    /\ sentTxs \in [Slots -> Nat] /\ sentMetas \subseteq Slots
    /\ \A s \in Slots : sentTxs[s] > 0 \/ s \in sentMetas => InOrder(s)
    /\ \A s \in Slots : /\ IsFiniteSet(OfSlot(Payloads, s))
                        /\ Cardinality(OfSlot(Payloads, s)) <= sentTxs[s]

\* What was handed on is finished with, on its way, or was at the stop.
HandedOnIsTracked ==
    /\ batch \in Seq(Resolved) /\ queue \in Seq(Resolved)
    /\ Underway \subseteq released
    /\ persisted \subseteq released /\ failed \subseteq released /\ atStop \subseteq released
    /\ alive => released \subseteq Done \cup Underway \cup atStop
    /\ alive /\ RecorderStopped => Underway \subseteq atStop
    /\ ~RecorderStopped => atStop = {}
    /\ alive /\ worker # "running" => RecorderStopped
    /\ attemptsOver => ~open

\* A session misses nothing of the slots it counts from on, and its span is of
\* slots it has whole.
Span == {s \in [first : Nat, last : Nat] : s.first <= s.last}
SessionIsWhole ==
    /\ session \in Nat
    /\ ~open => waiting = {} /\ batch = <<>> /\ highestMeta = None /\ countedFrom = None
    /\ highestMeta # None => highestMeta \in sentMetas
    /\ countedFrom = None => notYet = {} /\ span = None
    /\ countedFrom # None =>
          /\ countedFrom \in Nat
          /\ notYet \subseteq Slots /\ \A s \in notYet : countedFrom <= s
          /\ \A s \in Slots : countedFrom <= s => NothingMissed(s)
    /\ span # None =>
          /\ span \in Span /\ countedFrom <= span.first
          /\ \A s \in Slots \cap (countedFrom .. span.last) : Complete(s)

\* The slots of a span.
SlotsOf(s) == Slots \cap (s.first .. s.last)

\* What is due may still be on its way, until the write opens.
Excused == IF recorder = "idle" THEN onTheirWay ELSE {}

RangesAreComplete ==
    \A k \in DOMAIN ranges :
        /\ k \in Nat /\ k <= session
        /\ ranges[k] \in [span : Span, ended : BOOLEAN]
        /\ \A s \in SlotsOf(ranges[k].span) : Complete(s)
DueIsFinished ==
    /\ unwritten \subseteq DOMAIN due
    /\ \A k \in DOMAIN due :
        /\ k \in Nat /\ k <= session
        /\ due[k] \in [span : Span, ended : BOOLEAN]
        /\ \A s \in SlotsOf(due[k].span) : FinishedBut(s, Excused)
RowsAreSettled ==
    \A r \in DOMAIN rows :
        /\ r \in Protocols \X Nat /\ r[2] <= session
        /\ rows[r] \in Span
        /\ \A s \in SlotsOf(rows[r]) : Settled(s)

\* A session's row lies within what is due of it, and that within its range, so
\* the upsert never joins two spans over slots that neither of them holds.
Within(s, t) == t.first <= s.first /\ s.last <= t.last
SpansAreNested ==
    /\ \A r \in DOMAIN rows : r[2] \in DOMAIN due => Within(rows[r], due[r[2]].span)
    /\ \A r \in DOMAIN rows : r[2] \in DOMAIN ranges => Within(rows[r], ranges[r[2]].span)
    /\ \A k \in DOMAIN due \cap DOMAIN ranges : Within(due[k].span, ranges[k].span)

\* The session that reads is not forgotten, and its range is its span.
OpenIsRemembered ==
    open =>
      /\ session \in DOMAIN ranges =>
            span # None /\ ranges[session].span = span /\ ~ranges[session].ended
      /\ session \in DOMAIN due => session \in DOMAIN ranges /\ ~due[session].ended
      /\ \A r \in DOMAIN rows : r[2] = session => session \in DOMAIN ranges

RecordsAreSound ==
    /\ RangesAreComplete /\ DueIsFinished /\ RowsAreSettled
    /\ SpansAreNested /\ OpenIsRemembered

IngestionInv ==
    /\ OneEntryOfEach /\ StreamIsOrdered /\ HandedOnIsTracked
    /\ SessionIsWhole /\ RecordsAreSound

-----------------------------------------------------------------------------
(***************************************************************************)
(* Listing and counting.                                                   *)
(***************************************************************************)

\* A batch lists what the buffer released: every transaction of it.
LEMMA SortedListing ==
    ASSUME NEW S, IsFiniteSet(S), \A x \in S : x.id \in Nat,
           \A x, y \in S : x.id = y.id => x = y
    PROVE  LET n == Cardinality(S)
               q == CHOOSE q \in [1..n -> S] : \A i, j \in 1..n : i < j => q[i].id < q[j].id
           IN  q \in [1..n -> S] /\ n \in Nat /\ Elements(q) = S
<1> DEFINE n == Cardinality(S)
           UpTo(x) == {y \in S : y.id <= x.id}
           R == [x \in S |-> Cardinality(UpTo(x))]
           Sorted(q) == \A i, j \in 1..n : i < j => q[i].id < q[j].id
<1>1. n \in Nat
  BY FS_CardinalityType
<1>2. IsFiniteSet(1..n) /\ Cardinality(1..n) = n
  <2> HIDE DEF n
  <2> QED
    BY <1>1, FS_Interval
<1>3. ASSUME NEW x \in S
      PROVE  IsFiniteSet(UpTo(x)) /\ UpTo(x) \subseteq S /\ x \in UpTo(x) /\ R[x] \in 1..n
  <2>0. x.id \in Nat
    OBVIOUS
  <2>1. UpTo(x) \subseteq S /\ x \in UpTo(x)
    BY <2>0
  <2>2. IsFiniteSet(UpTo(x)) /\ Cardinality(UpTo(x)) <= n
    <3> HIDE DEF UpTo
    <3> QED
      BY <2>1, FS_Subset
  <2>3. Cardinality(UpTo(x)) \in Nat /\ Cardinality(UpTo(x)) # 0
    <3> HIDE DEF UpTo
    <3> QED
      BY <2>1, <2>2, FS_CardinalityType, FS_EmptySet
  <2> QED
    BY <1>1, <2>1, <2>2, <2>3
<1>4. ASSUME NEW x \in S, NEW y \in S, x.id < y.id PROVE R[x] < R[y]
  <2>1. UpTo(x) \subseteq UpTo(y) /\ y \notin UpTo(x)
    BY <1>4
  <2>2. IsFiniteSet(UpTo(y)) /\ y \in UpTo(y) /\ R[x] \in Nat /\ R[y] \in Nat
    <3>1. 1..n \subseteq Nat
      BY <1>1
    <3> HIDE DEF UpTo, R, n
    <3> QED
      BY <1>3, <3>1
  <2>3. R[x] <= R[y] /\ (R[y] = R[x] => UpTo(y) = UpTo(x))
    <3> HIDE DEF UpTo
    <3> QED
      BY <2>1, <2>2, FS_Subset
  <2> HIDE DEF UpTo, R
  <2> QED
    BY <2>1, <2>2, <2>3
<1> HIDE DEF UpTo, n
<1>5. /\ R \in [S -> 1..n]
      /\ \A x, y \in S : R[x] = R[y] => x = y
  <2>1. \A x \in S : R[x] \in 1..n
    BY <1>3
  <2>2. R \in [S -> 1..n]
    BY <2>1
  <2> HIDE DEF R
  <2>3. \A x, y \in S : R[x] = R[y] => ~(x.id < y.id) /\ ~(y.id < x.id)
    BY <1>1, <1>4, <2>1
  <2> QED
    BY <2>2, <2>3
<1> HIDE DEF R
<1>6. \A i \in 1..n : \E x \in S : R[x] = i
  <2>1. R \in Injection(S, 1..n)
    BY <1>5 DEF Injection, IsInjective
  <2>2. R \in Surjection(S, 1..n)
    BY <1>2, <2>1, FS_Injection DEF n
  <2> QED
    BY <2>2 DEF Surjection
<1> DEFINE q0 == [i \in 1..n |-> CHOOSE x \in S : R[x] = i]
<1>7. /\ q0 \in [1..n -> S]
      /\ \A i \in 1..n : q0[i] \in S /\ R[q0[i]] = i
  BY <1>6
<1> HIDE DEF q0
<1>8. Sorted(q0)
  <2> SUFFICES ASSUME NEW i \in 1..n, NEW j \in 1..n, i < j, ~(q0[i].id < q0[j].id)
               PROVE  FALSE
    OBVIOUS
  <2>1. q0[i] \in S /\ q0[j] \in S /\ R[q0[i]] = i /\ R[q0[j]] = j
    BY <1>7
  <2>2. q0[j].id < q0[i].id \/ q0[i] = q0[j]
    BY <2>1
  <2>3. i \in Nat /\ j \in Nat
    BY <1>1
  <2>4. CASE q0[j].id < q0[i].id
    <3>1. R[q0[j]] < R[q0[i]]
      BY <1>4, <2>1, <2>4
    <3> QED
      BY <2>1, <2>3, <3>1
  <2>5. CASE q0[i] = q0[j]
    BY <2>1, <2>3, <2>5
  <2> QED
    BY <2>2, <2>4, <2>5
<1> DEFINE q == CHOOSE t \in [1..n -> S] : Sorted(t)
<1>9. q \in [1..n -> S] /\ Sorted(q)
  <2> HIDE DEF Sorted
  <2> QED
    BY <1>7, <1>8
<1> HIDE DEF q
<1>10. Elements(q) = S
  <2>1. \A i, j \in 1..n : q[i] = q[j] => i = j
    <3>1. \A i, j \in 1..n : i \in Nat /\ j \in Nat /\ (i < j \/ j < i \/ i = j)
      BY <1>1
    <3>2. \A i \in 1..n : ~(q[i].id < q[i].id)
      <4>1. \A i \in 1..n : q[i].id \in Nat
        BY <1>9
      <4> QED
        BY <4>1
    <3> QED
      BY <1>9, <3>1, <3>2
  <2>2. q \in Injection(1..n, S)
    BY <1>9, <2>1 DEF Injection, IsInjective
  <2>3. q \in Surjection(1..n, S)
    BY <1>2, <2>2, FS_Injection DEF n
  <2>4. \A x \in S : \E i \in 1..n : q[i] = x
    BY <2>3 DEF Surjection
  <2> QED
    BY <1>9, <2>4 DEF Elements
<1> QED
  BY <1>1, <1>9, <1>10 DEF q, n

\* A slot with nothing waiting has as many transactions handed back and lost as
\* were received of it.
LEMMA SlotIsCounted ==
    ASSUME NEW N, NEW held, NEW back, NEW lost, OneEntryEach(N, held, back, lost),
           NEW s, IsFiniteSet(OfSlot(N, s)), \A h \in held : h.slot # s
    PROVE  Cardinality({x \in back : x.slot = s}) + Cardinality({x \in lost : x.slot = s})
             = Cardinality(OfSlot(N, s))
<1> DEFINE B == {x \in back : x.slot = s}
           D == {x \in lost : x.slot = s}
           TB == {Tag(x) : x \in B}
           TD == {Tag(x) : x \in D}
<1>0. \A x : Tag(x)[1] = x.id /\ Tag(x)[2] = x.slot
  BY DEF Tag
<1>1. TB \cup TD = OfSlot(N, s)
  <2>1. TB \cup TD \subseteq OfSlot(N, s)
    BY <1>0 DEF OneEntryEach, OfSlot
  <2>2. ASSUME NEW n \in OfSlot(N, s) PROVE n \in TB \cup TD
    <3>1. n \in N /\ n[2] = s
      BY DEF OfSlot
    <3>2. \/ \E h \in held : Tag(h) = n
          \/ \E r \in back : Tag(r) = n
          \/ \E d \in lost : Tag(d) = n
      BY <3>1 DEF OneEntryEach
    <3> QED
      BY <1>0, <3>1, <3>2
  <2> QED
    BY <2>1, <2>2
<1>2. TB \cap TD = {}
  BY <1>0 DEF OneEntryEach
<1>3. /\ \A x, y \in B : Tag(x) = Tag(y) => x = y
      /\ \A x, y \in D : Tag(x) = Tag(y) => x = y
  <2>1. /\ \A x, y \in B : x.id = y.id => x = y
        /\ \A x, y \in D : x.id = y.id => x = y
    BY DEF OneEntryEach
  <2>2. \A x, y : Tag(x) = Tag(y) => x.id = y.id
    BY DEF Tag
  <2> HIDE DEF B, D
  <2> QED
    BY <2>1, <2>2
<1> HIDE DEF TB, TD
<1>4. IsFiniteSet(TB) /\ IsFiniteSet(TD)
  BY <1>1, FS_Subset
<1>5. ASSUME NEW X, NEW T, T = {Tag(x) : x \in X}, IsFiniteSet(T),
             \A x, y \in X : Tag(x) = Tag(y) => x = y
      PROVE  Cardinality(X) = Cardinality(T)
  <2> DEFINE f == [x \in X |-> Tag(x)]
  <2>1. f \in Injection(X, T)
    BY <1>5 DEF Injection, IsInjective
  <2>2. f \in Surjection(X, T)
    BY <1>5 DEF Surjection
  <2> HIDE DEF f
  <2> QED
    BY <1>5, <2>1, <2>2, FS_Injection
<1>6. Cardinality(B) = Cardinality(TB) /\ Cardinality(D) = Cardinality(TD)
  <2>1. TB = {Tag(x) : x \in B} /\ TD = {Tag(x) : x \in D}
    BY DEF TB, TD
  <2> HIDE DEF B, D
  <2> QED
    BY <1>3, <1>4, <1>5, <2>1
<1>7. Cardinality(TB \cup TD) = Cardinality(TB) + Cardinality(TD) - Cardinality(TB \cap TD)
  BY <1>4, FS_Union
<1>8. Cardinality(TB \cap TD) = 0 /\ Cardinality(TB) \in Nat /\ Cardinality(TD) \in Nat
  BY <1>2, <1>4, FS_EmptySet, FS_CardinalityType
<1>9. Cardinality(B) + Cardinality(D) = Cardinality(OfSlot(N, s))
  <2> HIDE DEF B, D
  <2>1. Cardinality(TB \cup TD) = Cardinality(OfSlot(N, s))
    BY <1>1, Zenon
  <2> QED
    BY <1>6, <1>7, <1>8, <2>1
<1> QED
  BY <1>9

\* Of a slot that nothing waits for and nothing new arrives of, nothing comes to
\* wait and nothing is handed back.
LEMMA NothingNewOfSlot ==
    ASSUME NEW N, NEW held, NEW back, NEW lost, OneEntryEach(N, held, back, lost),
           NEW M, NEW held2, NEW back2, NEW lost2, OneEntryEach(M, held2, back2, lost2),
           back \subseteq back2, lost \subseteq lost2,
           NEW s, OfSlot(M, s) \subseteq OfSlot(N, s), \A h \in held : h.slot # s
    PROVE  /\ \A h \in held2 : h.slot # s
           /\ \A r \in back2 : r.slot = s => r \in back
<1>0. \A x : Tag(x)[1] = x.id /\ Tag(x)[2] = x.slot
  BY DEF Tag
<1>1. ASSUME NEW x \in held2 \cup back2, x.slot = s
      PROVE  \/ \E r \in back : r.id = x.id
             \/ \E d \in lost : d.id = x.id
  <2>1. Tag(x) \in OfSlot(M, s)
    BY <1>0, <1>1 DEF OneEntryEach, OfSlot
  <2>2. Tag(x) \in N
    BY <2>1 DEF OfSlot
  <2>3. \/ \E h \in held : Tag(h) = Tag(x)
        \/ \E r \in back : Tag(r) = Tag(x)
        \/ \E d \in lost : Tag(d) = Tag(x)
    BY <2>2 DEF OneEntryEach
  <2>4. \A y : Tag(y) = Tag(x) => y.id = x.id /\ y.slot = s
    BY <1>0, <1>1
  <2> QED
    BY <2>3, <2>4
<1>2. \A h \in held2 : h.slot # s
  BY <1>1 DEF OneEntryEach
<1>3. ASSUME NEW r \in back2, r.slot = s PROVE r \in back
  BY <1>1, <1>3 DEF OneEntryEach
<1> QED
  BY <1>2, <1>3

-----------------------------------------------------------------------------
(***************************************************************************)
(* What an update does to the payloads.                                    *)
(***************************************************************************)

\* Holding within the bounds adds nothing to what is held and takes nothing
\* back from what was lost.
LEMMA HoldingOnlyTakes ==
    ASSUME NEW held, NEW total, NEW slot, NEW lost, HoldWithinBounds(held, total, slot, lost)
    PROVE  waiting' \subseteq held /\ dropped \subseteq dropped'
  BY DEF HoldWithinBounds, OutOfWindow, Overflowing

\* The payloads are the tags their entries have.
LEMMA PayloadsAre ==
    ASSUME NEW M, OneEntryEach(M, waiting', released' \cup skipped', dropped')
    PROVE  Payloads' = M
  BY DEF OneEntryEach, Payloads

\* A payload that arrives has a number no other has.
LEMMA NumberIsFresh ==
    ASSUME OneEntryOfEach, NEW slot
    PROVE  /\ \A n \in Payloads : n[1] # arrived + 1
           /\ <<arrived + 1, slot>> \notin Payloads
           /\ \A n \in Payloads \cup {<<arrived + 1, slot>>} : n[1] \in 1..(arrived + 1)
<1>1. arrived \in Nat /\ \A n \in Payloads : n[1] \in 1..arrived
  BY DEF OneEntryOfEach
<1>2. <<arrived + 1, slot>>[1] = arrived + 1
  OBVIOUS
<1> QED
  BY <1>1, <1>2

\* A routed transaction: one more payload, held, handed back or lost.
LEMMA RoutedArrives ==
    ASSUME OneEntryOfEach, NEW slot \in Slots, OnPayload(slot, StreamBank), skipped' = skipped
    PROVE  /\ OneEntryOfEach'
           /\ Payloads' = Payloads \cup {<<arrived + 1, slot>>}
           /\ released \subseteq released' /\ dropped \subseteq dropped'
<1> DEFINE N == Payloads
           M == N \cup {<<arrived + 1, slot>>}
           new == Arriving(slot, StreamBank)
<1>1. /\ \A n \in N : n[1] # arrived + 1
      /\ \A n \in M : n[1] \in 1..(arrived + 1)
  BY NumberIsFresh
<1>2. /\ OneEntryEach(N, waiting, released \cup skipped, dropped)
      /\ waiting \subseteq Held /\ released \subseteq Resolved /\ arrived \in Nat
  BY DEF OneEntryOfEach
<1>3. arrived' = arrived + 1
  BY DEF OnPayload
<1>4. new \in Held
  BY <1>2, StreamAssumption DEF Arriving, Held
<1>5. \A at \in Times : Timed({new}, at) \subseteq Resolved
  BY <1>4 DEF Timed, Held, Resolved
<1> HIDE DEF N, new
<1>6. OneEntryEach(M, waiting', released' \cup skipped', dropped')
  BY <1>1, <1>2, PayloadKeepsOne
<1> HIDE DEF M
<1>7. Payloads' = M
  BY <1>6, PayloadsAre
<1>8. /\ waiting' \subseteq waiting \cup {new}
      /\ released \subseteq released' /\ released' \subseteq Resolved /\ dropped \subseteq dropped'
  <2>1. CASE PayloadLosing(slot, StreamBank)
    BY <1>2, <2>1 DEF PayloadLosing
  <2>2. CASE PayloadGivenUp(slot, StreamBank)
    BY <1>2, <2>2 DEF PayloadGivenUp
  <2>3. CASE PayloadReleased(slot, StreamBank)
    <3>1. /\ released' = released \cup Timed({new}, TimeIn(facts, slot))
          /\ TimeIn(facts, slot) \in Times
          /\ waiting' = waiting /\ dropped' = dropped
      BY <2>3 DEF PayloadReleased, new
    <3> QED
      BY <1>2, <1>5, <3>1
  <2>4. CASE PayloadHeld(slot, StreamBank)
    <3>1. HoldWithinBounds(waiting \cup {new}, count + 1, slot, {}) /\ released' = released
      BY <2>4 DEF PayloadHeld, new
    <3> QED
      BY <1>2, <3>1, HoldingOnlyTakes
  <2> QED
    BY <2>1, <2>2, <2>3, <2>4 DEF OnPayload
<1>9. OneEntryOfEach'
  BY <1>1, <1>2, <1>3, <1>4, <1>6, <1>7, <1>8 DEF OneEntryOfEach
<1> QED
  BY <1>7, <1>8, <1>9 DEF M, N

\* A transaction no filter claims: one more payload, put aside.
LEMMA UnroutedArrives ==
    ASSUME OneEntryOfEach, NEW slot \in Slots, HandleUnroutable(slot, StreamBank)
    PROVE  /\ OneEntryOfEach'
           /\ Payloads' = Payloads \cup {<<arrived + 1, slot>>}
           /\ released' = released /\ skipped \subseteq skipped' /\ dropped' = dropped
<1> DEFINE N == Payloads
           new == Arriving(slot, StreamBank)
           M == N \cup {Tag(new)}
           back == released \cup skipped
           aside == Timed({new}, None)
<1>0. new.id = arrived + 1 /\ Tag(new) = <<arrived + 1, slot>>
  BY DEF Arriving, Tag
<1>1. /\ \A n \in N : n[1] # new.id
      /\ \A n \in M : n[1] \in 1..(arrived + 1)
  BY <1>0, NumberIsFresh
<1>2. /\ OneEntryEach(N, waiting, back, dropped)
      /\ waiting \subseteq Held /\ released \subseteq Resolved /\ arrived \in Nat
  BY DEF OneEntryOfEach
<1>3. /\ arrived' = arrived + 1 /\ waiting' = waiting /\ dropped' = dropped
      /\ released' = released /\ skipped' = skipped \cup aside
  BY DEF HandleUnroutable
<1>4. released' \cup skipped' = back \cup aside
  BY <1>3
<1> HIDE DEF N, new, back
<1>5. OneEntryEach(M, waiting \cup {new}, back, dropped) /\ new \notin waiting
  BY <1>1, <1>2, ArrivalKeepsOne
<1> HIDE DEF M
<1>6. OneEntryEach(M, (waiting \cup {new}) \ {new}, back \cup aside, dropped)
  <2> DEFINE held == waiting \cup {new}
  <2>1. OneEntryEach(M, held, back, dropped) /\ {new} \subseteq held
    BY <1>5
  <2> HIDE DEF held
  <2>2. OneEntryEach(M, held \ {new}, back \cup aside, dropped)
    BY <2>1, TimingKeepsOne
  <2> QED
    BY <2>2 DEF held
<1>7. (waiting \cup {new}) \ {new} = waiting
  BY <1>5
<1> HIDE DEF aside
<1>8. OneEntryEach(M, waiting', released' \cup skipped', dropped')
  BY <1>3, <1>4, <1>6, <1>7
<1>9. Payloads' = M
  BY <1>8, PayloadsAre
<1>10. OneEntryOfEach'
  BY <1>1, <1>2, <1>3, <1>8, <1>9 DEF OneEntryOfEach, M
<1> QED
  BY <1>0, <1>3, <1>9, <1>10 DEF M, N

\* A fact learned moves payloads and adds none.
LEMMA FactSettles ==
    ASSUME OneEntryOfEach, NEW slot \in Slots, Settle(slot), UNCHANGED <<arrived, skipped>>
    PROVE  /\ OneEntryOfEach'
           /\ Payloads' = Payloads
           /\ released \subseteq released' /\ dropped \subseteq dropped'
<1> DEFINE N == Payloads
           lose == LosingIn(slot)
           win == WinningIn(slot)
<1>1. /\ OneEntryEach(N, waiting, released \cup skipped, dropped)
      /\ waiting \subseteq Held /\ released \subseteq Resolved /\ arrived \in Nat
      /\ \A n \in N : n[1] \in 1..arrived
  BY DEF OneEntryOfEach
<1>2. lose \subseteq waiting /\ win \subseteq waiting
  BY DEF LosingIn, WinningIn
<1>3. \A at \in Times : Timed(win, at) \subseteq Resolved
  BY <1>1, <1>2 DEF Timed, Held, Resolved
<1> HIDE DEF N, lose, win
<1>4. OneEntryEach(N, waiting', released' \cup skipped', dropped')
  BY <1>1, SettleKeepsOne
<1>5. Payloads' = N
  BY <1>4, PayloadsAre
<1>6. /\ waiting' \subseteq waiting
      /\ released \subseteq released' /\ released' \subseteq Resolved /\ dropped \subseteq dropped'
  <2>1. ASSUME NEW held, NEW total, NEW lost, HoldWithinBounds(held, total, slot, lost),
               held \subseteq waiting
        PROVE  waiting' \subseteq waiting /\ dropped \subseteq dropped'
    BY <2>1, HoldingOnlyTakes
  <2>2. CASE SettleUndecided(slot)
    BY <1>1, <2>1, <2>2 DEF SettleUndecided
  <2>3. CASE SettleUntimed(slot)
    BY <1>1, <2>1, <2>3 DEF SettleUntimed
  <2>4. CASE SettleGivenUp(slot)
    BY <1>1, <2>1, <2>4 DEF SettleGivenUp
  <2>5. CASE SettleTimed(slot)
    BY <1>1, <1>3, <2>1, <2>5 DEF SettleTimed, win
  <2> QED
    BY <2>2, <2>3, <2>4, <2>5 DEF Settle
<1>7. OneEntryOfEach'
  BY <1>1, <1>4, <1>5, <1>6 DEF OneEntryOfEach
<1> QED
  BY <1>5, <1>6, <1>7 DEF N

-----------------------------------------------------------------------------
(***************************************************************************)
(* The stream's order, and the slots that are whole.                       *)
(***************************************************************************)

\* What is sent is no later than Lateness, and stays so.
LEMMA OrderStays ==
    ASSUME StreamIsOrdered, NEW slot \in Slots,
           SendTransaction(slot) \/ SendBlockMeta(slot) \/ SendFinalized(slot)
    PROVE  /\ sentTxs' \in [Slots -> Nat] /\ sentMetas' \subseteq Slots
           /\ sentMetas \subseteq sentMetas'
           /\ \A s \in Slots : sentTxs[s] <= sentTxs'[s]
           /\ \A s \in Slots : sentTxs[s] = TxCount[s] => sentTxs'[s] = sentTxs[s]
           /\ \A s \in Slots : sentTxs'[s] > 0 \/ s \in sentMetas' => InOrder(s)'
<1>1. /\ sentTxs \in [Slots -> Nat] /\ sentMetas \subseteq Slots
      /\ \A s \in Slots : sentTxs[s] > 0 \/ s \in sentMetas => InOrder(s)
  BY DEF StreamIsOrdered
<1>2. TxCount \in [Slots -> Nat]
  BY StreamAssumption
<1>3. InOrder(slot)
  BY DEF SendTransaction, SendBlockMeta, SendFinalized
<1>4. /\ sentTxs' \in [Slots -> Nat] /\ sentMetas' \subseteq Slots
      /\ sentMetas \subseteq sentMetas'
      /\ \A s \in Slots : sentTxs[s] <= sentTxs'[s]
      /\ \A s \in Slots : sentTxs[s] = TxCount[s] => sentTxs'[s] = sentTxs[s]
      /\ \A s \in Slots : sentTxs'[s] > 0 \/ s \in sentMetas'
                            => s = slot \/ sentTxs[s] > 0 \/ s \in sentMetas
  <2>1. CASE SendTransaction(slot)
    <3>1. /\ sentTxs' = [sentTxs EXCEPT ![slot] = @ + 1] /\ sentMetas' = sentMetas
          /\ sentTxs[slot] < TxCount[slot]
      BY <2>1 DEF SendTransaction
    <3>2. \A s \in Slots : /\ sentTxs[s] \in Nat /\ TxCount[s] \in Nat
                           /\ sentTxs'[s] = IF s = slot THEN sentTxs[s] + 1 ELSE sentTxs[s]
      BY <1>1, <1>2, <3>1
    <3>3. sentTxs' \in [Slots -> Nat]
      BY <1>1, <3>1
    <3> QED
      BY <1>1, <3>1, <3>2, <3>3
  <2>2. CASE SendBlockMeta(slot)
    <3>1. sentTxs' = sentTxs /\ sentMetas' = sentMetas \cup {slot}
      BY <2>2 DEF SendBlockMeta
    <3> QED
      BY <1>1, <3>1
  <2>3. CASE SendFinalized(slot)
    <3>1. sentTxs' = sentTxs /\ sentMetas' = sentMetas
      BY <2>3 DEF SendFinalized
    <3> QED
      BY <1>1, <3>1
  <2> QED
    BY <2>1, <2>2, <2>3
<1>5. ASSUME NEW s \in Slots, InOrder(s) PROVE InOrder(s)'
  BY <1>4, <1>5 DEF InOrder
<1> QED
  BY <1>1, <1>3, <1>4, <1>5

\* A step that sends no transaction and receives none.
LEMMA StreamStays ==
    ASSUME StreamIsOrdered, NEW slot \in Slots, SendBlockMeta(slot) \/ SendFinalized(slot),
           Payloads' = Payloads
    PROVE  /\ StreamIsOrdered' /\ sentTxs' = sentTxs
           /\ \A s \in Slots : NothingMissed(s) => NothingMissed(s)'
<1>1. sentTxs' = sentTxs
  BY DEF SendBlockMeta, SendFinalized
<1>2. \A s \in Slots : OfSlot(Payloads, s)' = OfSlot(Payloads, s)
  BY DEF OfSlot
<1>3. StreamIsOrdered'
  BY <1>1, <1>2, OrderStays DEF StreamIsOrdered
<1> QED
  BY <1>1, <1>2, <1>3 DEF NothingMissed

\* A transaction that is read is sent and received.
LEMMA ReadIsReceived ==
    ASSUME StreamIsOrdered, NEW slot \in Slots, SendTransaction(slot),
           NEW number, <<number, slot>> \notin Payloads,
           Payloads' = Payloads \cup {<<number, slot>>}
    PROVE  /\ StreamIsOrdered'
           /\ \A s \in Slots : NothingMissed(s) => NothingMissed(s)'
           /\ \A s \in Slots : sentTxs[s] = TxCount[s] =>
                 OfSlot(Payloads, s)' = OfSlot(Payloads, s) /\ sentTxs'[s] = sentTxs[s]
<1>1. /\ sentTxs' = [sentTxs EXCEPT ![slot] = @ + 1]
      /\ sentTxs[slot] < TxCount[slot]
      /\ sentTxs \in [Slots -> Nat] /\ TxCount \in [Slots -> Nat]
  BY StreamAssumption DEF SendTransaction, StreamIsOrdered
<1>2. <<number, slot>>[2] = slot
  OBVIOUS
<1>3. \A s \in Slots : s # slot =>
         OfSlot(Payloads, s)' = OfSlot(Payloads, s) /\ sentTxs'[s] = sentTxs[s]
  BY <1>1, <1>2 DEF OfSlot
<1>4. /\ OfSlot(Payloads, slot)' = OfSlot(Payloads, slot) \cup {<<number, slot>>}
      /\ <<number, slot>> \notin OfSlot(Payloads, slot)
      /\ sentTxs'[slot] = sentTxs[slot] + 1
  BY <1>1, <1>2 DEF OfSlot
<1>5. \A s \in Slots : /\ IsFiniteSet(OfSlot(Payloads, s))
                       /\ Cardinality(OfSlot(Payloads, s)) <= sentTxs[s]
  BY DEF StreamIsOrdered
<1>6. /\ IsFiniteSet(OfSlot(Payloads, slot)')
      /\ Cardinality(OfSlot(Payloads, slot)') = Cardinality(OfSlot(Payloads, slot)) + 1
      /\ Cardinality(OfSlot(Payloads, slot)) \in Nat
  <2> DEFINE S == OfSlot(Payloads, slot)
             x == <<number, slot>>
  <2>1. IsFiniteSet(S) /\ x \notin S /\ OfSlot(Payloads, slot)' = S \cup {x}
    BY <1>4, <1>5
  <2> HIDE DEF S, x
  <2>2. /\ IsFiniteSet(S \cup {x}) /\ Cardinality(S \cup {x}) = Cardinality(S) + 1
        /\ Cardinality(S) \in Nat
    BY <2>1, FS_AddElement, FS_CardinalityType
  <2>3. Cardinality(OfSlot(Payloads, slot)') = Cardinality(S \cup {x})
    BY <2>1, Zenon
  <2>4. IsFiniteSet(OfSlot(Payloads, slot)')
    BY <2>1, <2>2, Zenon
  <2> QED
    BY <2>2, <2>3, <2>4 DEF S
<1>7. \A s \in Slots : /\ IsFiniteSet(OfSlot(Payloads, s)')
                       /\ Cardinality(OfSlot(Payloads, s)') <= sentTxs'[s]
  <2> TAKE s \in Slots
  <2>1. CASE s = slot
    <3>1. sentTxs[slot] \in Nat /\ Cardinality(OfSlot(Payloads, slot)) <= sentTxs[slot]
      BY <1>1, <1>5
    <3>2. Cardinality(OfSlot(Payloads, slot)) + 1 <= sentTxs[slot] + 1
      BY <1>6, <3>1
    <3> QED
      BY <1>4, <1>6, <2>1, <3>2
  <2>2. CASE s # slot
    BY <1>3, <1>5, <2>2
  <2> QED
    BY <2>1, <2>2
<1>8. StreamIsOrdered'
  BY <1>7, OrderStays DEF StreamIsOrdered
<1>9. ASSUME NEW s \in Slots, NothingMissed(s) PROVE NothingMissed(s)'
  <2>1. CASE s = slot
    <3>1. Cardinality(OfSlot(Payloads, slot)') = sentTxs'[slot]
      BY <1>4, <1>6, <1>9, <2>1 DEF NothingMissed
    <3> QED
      BY <2>1, <3>1 DEF NothingMissed
  <2>2. CASE s # slot
    BY <1>3, <1>9, <2>2 DEF NothingMissed
  <2> QED
    BY <2>1, <2>2
<1>10. ASSUME NEW s \in Slots, sentTxs[s] = TxCount[s] PROVE s # slot
  <2>1. sentTxs[slot] \in Nat /\ TxCount[slot] \in Nat
    BY <1>1
  <2> QED
    BY <1>1, <1>10, <2>1
<1> QED
  BY <1>3, <1>8, <1>9, <1>10

\* A step leaves whole slots whole, hands nothing more on of them, and undoes
\* nothing that was finished.
WholeStayWhole ==
    /\ \A s \in Slots : Complete(s) =>
          Complete(s)' /\ \A x \in released' : x.slot = s => x \in released \cup Done
    /\ Done \subseteq Done' /\ atStop \subseteq atStop'

\* The payloads of a whole slot only ever stay where they are.
LEMMA WholeSlotStays ==
    ASSUME OneEntryOfEach, OneEntryOfEach',
           released \subseteq released', skipped \subseteq skipped', dropped \subseteq dropped',
           NEW s \in Slots, Complete(s),
           OfSlot(Payloads, s)' = OfSlot(Payloads, s), sentTxs'[s] = sentTxs[s]
    PROVE  Complete(s)' /\ \A x \in released' : x.slot = s => x \in released \cup Done
<1> DEFINE N == Payloads
           M == Payloads'
           back == released \cup skipped
           back2 == released' \cup skipped'
<1>1. /\ OneEntryEach(N, waiting, back, dropped)
      /\ OneEntryEach(M, waiting', back2, dropped')
      /\ back \subseteq back2 /\ dropped \subseteq dropped'
  BY DEF OneEntryOfEach
<1>2. OfSlot(M, s) \subseteq OfSlot(N, s) /\ \A h \in waiting : h.slot # s
  BY DEF OfSlot, Complete
<1>3. /\ \A h \in waiting' : h.slot # s
      /\ \A r \in back2 : r.slot = s => r \in back
  <2> HIDE DEF N, M, back, back2
  <2> QED
    BY <1>1, <1>2, NothingNewOfSlot
<1>4. Complete(s)'
  BY <1>3 DEF Complete
<1> QED
  BY <1>3, <1>4 DEF Done

\* The buffer dies with what waits in it; of a whole slot nothing waits.
LEMMA CutLeavesWhole ==
    ASSUME OneEntryOfEach, StreamIsOrdered,
           waiting' = {}, UNCHANGED <<released, skipped, dropped, arrived, sentTxs, sentMetas>>
    PROVE  /\ OneEntryOfEach' /\ StreamIsOrdered'
           /\ \A s \in Slots : Complete(s) => Complete(s)'
<1>0. \A x : Tag(x)[1] = x.id /\ Tag(x)[2] = x.slot
  BY DEF Tag
<1>1. Payloads' \subseteq Payloads
  BY DEF Payloads
<1>2. OneEntryOfEach'
  <2>1. OneEntryEach(Payloads, waiting, released \cup skipped, dropped)
    BY DEF OneEntryOfEach
  <2>2. OneEntryEach(Payloads', {}, released \cup skipped, dropped)
    BY <2>1 DEF OneEntryEach, Payloads
  <2>3. OneEntryEach(Payloads, waiting, released \cup skipped, dropped)'
    BY <2>2
  <2> QED
    BY <1>1, <2>3 DEF OneEntryOfEach
<1>3. ASSUME NEW s \in Slots
      PROVE  /\ OfSlot(Payloads, s)' \subseteq OfSlot(Payloads, s)
             /\ (\A h \in waiting : h.slot # s) =>
                   OfSlot(Payloads, s)' = OfSlot(Payloads, s)
  <2>1. OfSlot(Payloads, s)' \subseteq OfSlot(Payloads, s)
    BY <1>1 DEF OfSlot
  <2>2. ASSUME \A h \in waiting : h.slot # s, NEW n \in OfSlot(Payloads, s)
        PROVE  n \in OfSlot(Payloads, s)'
    <3>1. PICK x \in waiting \cup (released \cup skipped) \cup dropped : n = Tag(x)
      BY DEF OfSlot, Payloads
    <3>2. x.slot = s
      BY <1>0, <3>1 DEF OfSlot
    <3>3. x \in waiting' \cup (released' \cup skipped') \cup dropped'
      BY <2>2, <3>2
    <3>4. n \in Payloads' /\ n[2] = s
      BY <1>0, <3>1, <3>2, <3>3 DEF Payloads
    <3> QED
      BY <3>4 DEF OfSlot
  <2> QED
    BY <2>1, <2>2
<1>4. ASSUME NEW s \in Slots
      PROVE  /\ IsFiniteSet(OfSlot(Payloads, s)')
             /\ Cardinality(OfSlot(Payloads, s)') <= sentTxs[s]
  <2> DEFINE S == OfSlot(Payloads, s)
             T == OfSlot(Payloads, s)'
  <2>1. IsFiniteSet(S) /\ Cardinality(S) <= sentTxs[s] /\ sentTxs[s] \in Nat /\ T \subseteq S
    BY <1>3 DEF StreamIsOrdered
  <2> HIDE DEF S, T
  <2>2. IsFiniteSet(T) /\ Cardinality(T) <= Cardinality(S)
    BY <2>1, FS_Subset
  <2>3. Cardinality(T) \in Nat /\ Cardinality(S) \in Nat
    BY <2>1, <2>2, FS_CardinalityType
  <2>4. Cardinality(T) <= sentTxs[s]
    BY <2>1, <2>2, <2>3
  <2> QED
    BY <2>2, <2>4 DEF T
<1>5. StreamIsOrdered'
  <2>1. \A s \in Slots : InOrder(s)' <=> InOrder(s)
    BY DEF InOrder
  <2> QED
    BY <1>4, <2>1 DEF StreamIsOrdered
<1>6. \A s \in Slots : Complete(s) => Complete(s)'
  BY <1>3 DEF Complete
<1> QED
  BY <1>2, <1>5, <1>6

-----------------------------------------------------------------------------
(***************************************************************************)
(* The records, under steps that do not write them.                        *)
(***************************************************************************)

\* What is finished stays finished.
LEMMA FinishedStays ==
    ASSUME WholeStayWhole, NEW s \in Slots, NEW excused, FinishedBut(s, excused)
    PROVE  /\ Complete(s)'
           /\ \A x \in released' : x.slot = s => x \in Done' \cup atStop' \cup excused
  BY DEF WholeStayWhole, FinishedBut

\* What is due and what is written, under steps that do not write.
LEMMA DueAndRowsStay ==
    ASSUME RecordsAreSound, WholeStayWhole,
           UNCHANGED <<due, rows, unwritten, recorder, onTheirWay>>,
           session \in Nat, session' \in Nat, session <= session'
    PROVE  DueIsFinished' /\ RowsAreSettled'
<1>0. \A k \in Nat : k <= session => k <= session'
  OBVIOUS
<1>1. \A t : SlotsOf(t) \subseteq Slots
  BY DEF SlotsOf
<1>2. DueIsFinished'
  <2>1. Excused' = Excused
    BY DEF Excused
  <2>2. \A k \in DOMAIN due : \A s \in SlotsOf(due[k].span) : FinishedBut(s, Excused)'
    <3> TAKE k \in DOMAIN due
    <3> TAKE s \in SlotsOf(due[k].span)
    <3> DEFINE e == Excused
    <3>1. s \in Slots /\ FinishedBut(s, e)
      BY <1>1 DEF RecordsAreSound, DueIsFinished
    <3> HIDE DEF e
    <3>2. /\ Complete(s)'
          /\ \A x \in released' : x.slot = s => x \in Done' \cup atStop' \cup e
      BY <3>1, FinishedStays
    <3> QED
      BY <2>1, <3>2 DEF FinishedBut, e
  <2> QED
    BY <1>0, <2>2 DEF RecordsAreSound, DueIsFinished
<1>3. RowsAreSettled'
  <2>1. \A r \in DOMAIN rows : \A s \in SlotsOf(rows[r]) : Settled(s)'
    <3> TAKE r \in DOMAIN rows
    <3> TAKE s \in SlotsOf(rows[r])
    <3>1. s \in Slots /\ FinishedBut(s, {})
      BY <1>1 DEF RecordsAreSound, RowsAreSettled, Settled
    <3>2. /\ Complete(s)'
          /\ \A x \in released' : x.slot = s => x \in Done' \cup atStop' \cup {}
      BY <3>1, FinishedStays
    <3> QED
      BY <3>2 DEF FinishedBut, Settled
  <2>2. \A r \in DOMAIN rows : r \in Protocols \X Nat /\ r[2] <= session /\ rows[r] \in Span
    BY DEF RecordsAreSound, RowsAreSettled
  <2>3. \A r \in DOMAIN rows : r[2] \in Nat
    BY <2>2
  <2> QED
    BY <1>0, <2>1, <2>2, <2>3 DEF RowsAreSettled
<1> QED
  BY <1>2, <1>3

\* A step that leaves the records alone, and ends or starts at most a session.
LEMMA RecordsStay ==
    ASSUME RecordsAreSound, WholeStayWhole,
           UNCHANGED <<ranges, due, rows, unwritten, recorder, onTheirWay>>,
           session \in Nat, session' \in Nat, session <= session',
           \/ ~open'
           \/ open /\ session' = session /\ span' = span
           \/ session' = session + 1
    PROVE  RecordsAreSound'
<1>1. RangesAreComplete'
  <2>1. \A k \in Nat : k <= session => k <= session'
    OBVIOUS
  <2>2. \A t : SlotsOf(t) \subseteq Slots
    BY DEF SlotsOf
  <2> QED
    BY <2>1, <2>2 DEF RecordsAreSound, RangesAreComplete, WholeStayWhole
<1>2. DueIsFinished' /\ RowsAreSettled'
  BY DueAndRowsStay
<1>3. SpansAreNested'
  BY DEF RecordsAreSound, SpansAreNested
<1>4. OpenIsRemembered'
  <2>1. CASE ~open'
    BY <2>1 DEF OpenIsRemembered
  <2>2. CASE open /\ session' = session /\ span' = span
    BY <2>2 DEF RecordsAreSound, OpenIsRemembered
  <2>3. CASE session' = session + 1
    <3>1. ~(session' <= session)
      BY <2>3
    <3>2. /\ session' \notin DOMAIN ranges /\ session' \notin DOMAIN due
          /\ \A r \in DOMAIN rows : r[2] # session'
      BY <3>1 DEF RecordsAreSound, RangesAreComplete, DueIsFinished, RowsAreSettled
    <3> QED
      BY <3>2 DEF OpenIsRemembered
  <2> QED
    BY <2>1, <2>2, <2>3
<1> QED
  BY <1>1, <1>2, <1>3, <1>4 DEF RecordsAreSound

-----------------------------------------------------------------------------
(***************************************************************************)
(* What was handed on.                                                     *)
(***************************************************************************)

LEMMA ElementsOfNone == Elements(<<>>) = {}
  BY DEF Elements

\* Taking the first of a sequence, and adding one at its end.
LEMMA ElementsOf ==
    ASSUME NEW T, NEW q \in Seq(T)
    PROVE  /\ Elements(q) \subseteq T
           /\ q # <<>> => /\ Head(q) \in T /\ Tail(q) \in Seq(T)
                          /\ Elements(q) = {Head(q)} \cup Elements(Tail(q))
           /\ \A x \in T : Append(q, x) \in Seq(T) /\ Elements(Append(q, x)) = Elements(q) \cup {x}
<1>1. Elements(q) \subseteq T
  BY DEF Elements
<1>2. ASSUME q # <<>>
      PROVE  /\ Head(q) \in T /\ Tail(q) \in Seq(T)
             /\ Elements(q) = {Head(q)} \cup Elements(Tail(q))
  <2>1. Len(q) \in Nat /\ Len(q) > 0 /\ DOMAIN q = 1..Len(q) /\ \A i \in 1..Len(q) : q[i] \in T
    BY <1>2
  <2>2. /\ Tail(q) \in Seq(T) /\ Head(q) = q[1]
        /\ DOMAIN Tail(q) = 1..(Len(q) - 1)
        /\ \A i \in 1..(Len(q) - 1) : Tail(q)[i] = q[i + 1]
    BY <1>2
  <2>3. ASSUME NEW i \in 1..Len(q) PROVE q[i] \in {Head(q)} \cup Elements(Tail(q))
    <3>1. CASE i = 1
      BY <2>2, <3>1
    <3>2. CASE i # 1
      <4>1. i - 1 \in 1..(Len(q) - 1) /\ Tail(q)[i - 1] = q[i]
        BY <2>1, <2>2, <3>2
      <4> QED
        BY <2>2, <4>1 DEF Elements
    <3> QED
      BY <3>1, <3>2
  <2>4. ASSUME NEW i \in 1..(Len(q) - 1) PROVE Tail(q)[i] \in Elements(q)
    <3>1. i + 1 \in 1..Len(q) /\ Tail(q)[i] = q[i + 1]
      BY <2>1, <2>2
    <3> QED
      BY <2>1, <3>1 DEF Elements
  <2>5. q[1] \in Elements(q)
    BY <2>1 DEF Elements
  <2>6. /\ \A y \in Elements(q) : \E i \in 1..Len(q) : y = q[i]
        /\ \A y \in Elements(Tail(q)) : \E i \in 1..(Len(q) - 1) : y = Tail(q)[i]
    BY <2>1, <2>2 DEF Elements
  <2>7. Elements(q) = {Head(q)} \cup Elements(Tail(q))
    BY <2>2, <2>3, <2>4, <2>5, <2>6
  <2> QED
    BY <2>1, <2>2, <2>7
<1>3. ASSUME NEW x \in T
      PROVE  Append(q, x) \in Seq(T) /\ Elements(Append(q, x)) = Elements(q) \cup {x}
  <2>1. Len(q) \in Nat /\ DOMAIN q = 1..Len(q)
    OBVIOUS
  <2>2. /\ Append(q, x) \in Seq(T) /\ DOMAIN Append(q, x) = 1..(Len(q) + 1)
        /\ \A i \in 1..Len(q) : Append(q, x)[i] = q[i]
        /\ Append(q, x)[Len(q) + 1] = x
    BY AppendProperties
  <2>3. 1..(Len(q) + 1) = (1..Len(q)) \cup {Len(q) + 1}
    BY <2>1
  <2> QED
    BY <2>1, <2>2, <2>3 DEF Elements
<1> QED
  BY <1>1, <1>2, <1>3

\* The batch is all that the buffer released in the step.
LEMMA BatchIsReleased ==
    ASSUME OneEntryOfEach', released \subseteq released'
    PROVE  /\ ReleasedNow \in Seq(Resolved)
           /\ Elements(ReleasedNow) = released' \ released
<1> DEFINE new == released' \ released
           n == Cardinality(new)
<1>1. /\ new \subseteq Resolved /\ arrived' \in Nat
      /\ \A x \in new : x.id \in 1..arrived'
      /\ \A x, y \in new : x.id = y.id => x = y
  <2>1. \A x \in new : Tag(x) \in Payloads'
    BY DEF Payloads
  <2>2. \A x : Tag(x)[1] = x.id
    BY DEF Tag
  <2>3. /\ new \subseteq Resolved /\ arrived' \in Nat
        /\ \A m \in Payloads' : m[1] \in 1..arrived'
        /\ \A x, y \in new : x.id = y.id => x = y
    BY DEF OneEntryOfEach, OneEntryEach
  <2> HIDE DEF new
  <2>4. \A x \in new : x.id \in 1..arrived'
    BY <2>1, <2>2, <2>3
  <2> QED
    BY <2>3, <2>4
<1>2. ReleasedNow = CHOOSE q \in [1..n -> new] :
                      \A i, j \in 1..n : i < j => q[i].id < q[j].id
  BY DEF ReleasedNow
<1> HIDE DEF new
<1>3. IsFiniteSet(new) /\ \A x \in new : x.id \in Nat
  <2> DEFINE f == [x \in new |-> x.id]
  <2>1. f \in Injection(new, 1..arrived')
    BY <1>1 DEF Injection, IsInjective
  <2>2. IsFiniteSet(1..arrived')
    BY <1>1, FS_Interval
  <2> HIDE DEF f
  <2>3. IsFiniteSet(new)
    BY <2>1, <2>2, FS_Injection
  <2> QED
    BY <1>1, <2>3
<1>4. ReleasedNow \in [1..n -> new] /\ n \in Nat /\ Elements(ReleasedNow) = new
  BY <1>1, <1>2, <1>3, SortedListing
<1>5. ReleasedNow \in Seq(Resolved)
  <2> HIDE DEF n
  <2> QED
    BY <1>1, <1>4
<1> QED
  BY <1>4, <1>5 DEF new

\* A step in which the session hands the buffer's releases to its batch.
LEMMA ReleaseIsTracked ==
    ASSUME HandedOnIsTracked, OneEntryOfEach', released \subseteq released',
           Reading, ~shutdown, batch' = ReleasedNow, skipped \subseteq skipped',
           UNCHANGED <<queue, hand, inFlight, worker, persisted, failed,
                       open, shutdown, attemptsOver, alive, atStop>>
    PROVE  HandedOnIsTracked'
<1>1. batch' \in Seq(Resolved) /\ Elements(batch') = released' \ released
  BY BatchIsReleased
<1>2. Elements(batch) = {} /\ open
  BY ElementsOfNone DEF Reading
<1>3. Underway' = Underway \cup (released' \ released)
  BY <1>1, <1>2 DEF Underway
<1>4. ~RecorderStopped /\ RecorderStopped' = RecorderStopped
  BY <1>2 DEF RecorderStopped, HandedOnIsTracked
<1>5. Done \subseteq Done'
  BY DEF Done
<1> QED
  BY <1>1, <1>3, <1>4, <1>5 DEF HandedOnIsTracked

\* A step that neither releases nor stops, and moves what is on its way no
\* further than into what is finished.
LEMMA MovesAreTracked ==
    ASSUME HandedOnIsTracked, alive,
           batch' \in Seq(Resolved), queue' \in Seq(Resolved),
           Underway' \subseteq Underway, Underway \subseteq Underway' \cup Done' \cup atStop,
           Done \subseteq Done',
           persisted' \subseteq released, failed' \subseteq released,
           worker' # "running" => RecorderStopped,
           open' => ~attemptsOver,
           UNCHANGED <<released, shutdown, attemptsOver, alive, atStop>>
    PROVE  HandedOnIsTracked'
<1>1. RecorderStopped' = RecorderStopped
  BY DEF RecorderStopped
<1> QED
  BY <1>1 DEF HandedOnIsTracked

\* A step that may stop the recorder, and then keeps account of what is
\* underway.
LEMMA StopIsTracked ==
    ASSUME HandedOnIsTracked, alive, batch' \in Seq(Resolved),
           Underway' \subseteq Underway, RecorderStopped',
           atStop' = IF RecorderStopped THEN atStop ELSE Underway,
           attemptsOver' => ~open',
           UNCHANGED <<released, queue, worker, persisted, failed, skipped, alive>>
    PROVE  HandedOnIsTracked' /\ atStop \subseteq atStop'
<1>1. Underway \subseteq atStop' /\ atStop \subseteq atStop' /\ atStop' \subseteq released
  BY DEF HandedOnIsTracked
<1>2. Done' = Done
  BY DEF Done
<1> QED
  BY <1>1, <1>2 DEF HandedOnIsTracked

-----------------------------------------------------------------------------
(***************************************************************************)
(* The updates a session reads.                                            *)
(***************************************************************************)

\* What an update does to the payloads of a whole slot: nothing.
SlotsSentWholeRest ==
    \A s \in Slots : sentTxs[s] = TxCount[s] =>
        OfSlot(Payloads, s)' = OfSlot(Payloads, s) /\ sentTxs'[s] = sentTxs[s]

LEMMA UpdateLeavesWhole ==
    ASSUME OneEntryOfEach, OneEntryOfEach', SlotsSentWholeRest,
           released \subseteq released', skipped \subseteq skipped', dropped \subseteq dropped',
           UNCHANGED <<persisted, failed, atStop>>
    PROVE  WholeStayWhole
<1>1. ASSUME NEW s \in Slots, Complete(s)
      PROVE  Complete(s)' /\ \A x \in released' : x.slot = s => x \in released \cup Done
  <2>1. OfSlot(Payloads, s)' = OfSlot(Payloads, s) /\ sentTxs'[s] = sentTxs[s]
    BY <1>1 DEF SlotsSentWholeRest, Complete
  <2> QED
    BY <1>1, <2>1, WholeSlotStays
<1>2. Done \subseteq Done'
  BY DEF Done
<1> QED
  BY <1>1, <1>2 DEF WholeStayWhole

\* A session whose received slots do not change.
LEMMA SessionStays ==
    ASSUME SessionIsWhole, UNCHANGED <<session, open, countedFrom, notYet, span>>,
           open \/ (waiting' = {} /\ batch' = <<>> /\ highestMeta' = None),
           highestMeta' # None => highestMeta' \in sentMetas',
           countedFrom # None => \A s \in Slots : NothingMissed(s) => NothingMissed(s)',
           \A s \in Slots : Complete(s) => Complete(s)'
    PROVE  SessionIsWhole'
<1>1. ~open' => waiting' = {} /\ batch' = <<>> /\ highestMeta' = None /\ countedFrom' = None
  BY DEF SessionIsWhole
<1>2. countedFrom # None => /\ countedFrom \in Nat
                            /\ notYet \subseteq Slots /\ \A s \in notYet : countedFrom <= s
                            /\ \A s \in Slots : countedFrom <= s => NothingMissed(s)'
  BY DEF SessionIsWhole
<1>3. span # None =>
          /\ span \in Span /\ countedFrom <= span.first
          /\ \A s \in Slots \cap (countedFrom .. span.last) : Complete(s)'
  BY DEF SessionIsWhole
<1> QED
  BY <1>1, <1>2, <1>3 DEF SessionIsWhole

\* An update that receives no slot.
LEMMA UpdateKeeps ==
    ASSUME IngestionInv, OneEntryOfEach', StreamIsOrdered', HandedOnIsTracked',
           SlotsSentWholeRest, \A s \in Slots : NothingMissed(s) => NothingMissed(s)',
           released \subseteq released', skipped \subseteq skipped', dropped \subseteq dropped',
           open, sentMetas \subseteq sentMetas',
           highestMeta' = highestMeta \/ highestMeta' \in sentMetas',
           UNCHANGED <<session, open, countedFrom, notYet, span, ranges>>,
           UNCHANGED othersInSession
    PROVE  IngestionInv'
<1>1. OneEntryOfEach /\ SessionIsWhole /\ RecordsAreSound
  BY DEF IngestionInv
<1>2. UNCHANGED <<due, rows, unwritten, recorder, onTheirWay, persisted, failed, atStop>>
  BY DEF othersInSession
<1>3. WholeStayWhole
  BY <1>1, <1>2, UpdateLeavesWhole
<1>4. highestMeta' # None => highestMeta' \in sentMetas'
  BY <1>1 DEF SessionIsWhole
<1>5. SessionIsWhole'
  <2>1. \A s \in Slots : Complete(s) => Complete(s)'
    BY <1>3 DEF WholeStayWhole
  <2> QED
    BY <1>1, <1>4, <2>1, SessionStays
<1>6. RecordsAreSound'
  <2>1. session \in Nat /\ session' \in Nat /\ session <= session'
    BY <1>1 DEF SessionIsWhole
  <2> QED
    BY <1>1, <1>2, <1>3, <2>1, RecordsStay
<1> QED
  BY <1>5, <1>6 DEF IngestionInv

LEMMA ReadTransactionKeeps ==
    ASSUME IngestionInv, NEW slot \in Slots, ReadTransaction(slot)
    PROVE  IngestionInv'
<1>1. OneEntryOfEach /\ StreamIsOrdered /\ HandedOnIsTracked
  BY DEF IngestionInv
<1>2. /\ alive /\ ~shutdown /\ SendTransaction(slot) /\ queue' = queue
      /\ UNCHANGED othersInSession /\ sentMetas' = sentMetas
  BY DEF ReadTransaction, Listens, SendTransaction
<1>3. <<arrived + 1, slot>> \notin Payloads
  BY <1>1, NumberIsFresh
<1>4. ASSUME Payloads' = Payloads \cup {<<arrived + 1, slot>>}
      PROVE  /\ StreamIsOrdered' /\ SlotsSentWholeRest
             /\ \A s \in Slots : NothingMissed(s) => NothingMissed(s)'
  BY <1>1, <1>2, <1>3, <1>4, ReadIsReceived DEF SlotsSentWholeRest
<1>5. CASE HandleTransaction(slot, StreamBank)
  <2>1. /\ Reading /\ OnPayload(slot, StreamBank) /\ batch' = ReleasedNow
        /\ UNCHANGED <<session, open, highestMeta, countedFrom, notYet, span, skipped, ranges>>
    BY <1>5 DEF HandleTransaction
  <2>2. /\ OneEntryOfEach' /\ Payloads' = Payloads \cup {<<arrived + 1, slot>>}
        /\ released \subseteq released' /\ dropped \subseteq dropped'
    BY <1>1, <2>1, RoutedArrives
  <2>3. HandedOnIsTracked'
    BY <1>1, <1>2, <2>1, <2>2, ReleaseIsTracked DEF othersInSession
  <2> QED
    BY <1>2, <1>4, <2>1, <2>2, <2>3, UpdateKeeps DEF Reading
<1>6. CASE HandleUnroutable(slot, StreamBank)
  <2>1. /\ Reading
        /\ UNCHANGED <<session, open, batch, highestMeta, countedFrom, notYet, span, ranges>>
    BY <1>6 DEF HandleUnroutable
  <2>2. /\ OneEntryOfEach' /\ Payloads' = Payloads \cup {<<arrived + 1, slot>>}
        /\ released' = released /\ skipped \subseteq skipped' /\ dropped' = dropped
    BY <1>1, <1>6, UnroutedArrives
  <2>3. HandedOnIsTracked'
    <3>1. /\ UNCHANGED <<queue, hand, inFlight, worker, persisted, failed,
                         shutdown, attemptsOver, alive, atStop, batch, open>>
          /\ Underway' = Underway
      BY <1>2, <2>1 DEF othersInSession, Underway
    <3>2. Done \subseteq Done'
      BY <2>2, <3>1 DEF Done
    <3>3. /\ batch \in Seq(Resolved) /\ queue \in Seq(Resolved)
          /\ persisted \subseteq released /\ failed \subseteq released
          /\ worker # "running" => RecorderStopped
          /\ open => ~attemptsOver
      BY <1>1, <1>2 DEF HandedOnIsTracked
    <3> QED
      BY <1>1, <1>2, <2>2, <3>1, <3>2, <3>3, MovesAreTracked
  <2> QED
    BY <1>2, <1>4, <2>1, <2>2, <2>3, UpdateKeeps DEF Reading
<1> QED
  BY <1>5, <1>6 DEF ReadTransaction

\* A fact learned by the session that reads.
LEMMA LearningKeeps ==
    ASSUME IngestionInv, NEW slot \in Slots, Settle(slot), UNCHANGED <<arrived, skipped>>,
           SendBlockMeta(slot) \/ SendFinalized(slot), Reading, ~shutdown,
           batch' = ReleasedNow, open' = open, queue' = queue, UNCHANGED othersInSession
    PROVE  /\ OneEntryOfEach' /\ StreamIsOrdered' /\ HandedOnIsTracked'
           /\ SlotsSentWholeRest /\ \A s \in Slots : NothingMissed(s) => NothingMissed(s)'
           /\ released \subseteq released' /\ dropped \subseteq dropped'
           /\ sentMetas \subseteq sentMetas' /\ sentTxs' = sentTxs
           /\ Payloads' = Payloads
<1>1. OneEntryOfEach /\ StreamIsOrdered /\ HandedOnIsTracked
  BY DEF IngestionInv
<1>2. /\ OneEntryOfEach' /\ Payloads' = Payloads
      /\ released \subseteq released' /\ dropped \subseteq dropped'
  BY <1>1, FactSettles
<1>3. /\ StreamIsOrdered' /\ sentTxs' = sentTxs
      /\ \A s \in Slots : NothingMissed(s) => NothingMissed(s)'
  BY <1>1, <1>2, StreamStays
<1>4. HandedOnIsTracked'
  BY <1>1, <1>2, ReleaseIsTracked DEF othersInSession
<1>5. SlotsSentWholeRest
  BY <1>2, <1>3 DEF SlotsSentWholeRest, OfSlot
<1>6. sentMetas \subseteq sentMetas'
  BY DEF SendBlockMeta, SendFinalized
<1> QED
  BY <1>2, <1>3, <1>4, <1>5, <1>6

LEMMA ReadFinalizedKeeps ==
    ASSUME IngestionInv, NEW slot \in Slots, ReadFinalized(slot)
    PROVE  IngestionInv'
<1>1. /\ ~shutdown /\ SendFinalized(slot) /\ queue' = queue /\ UNCHANGED othersInSession
      /\ Reading /\ Settle(slot) /\ UNCHANGED arrived /\ batch' = ReleasedNow
      /\ UNCHANGED <<session, open, highestMeta, countedFrom, notYet, span, skipped, ranges>>
  BY DEF ReadFinalized, Listens, HandleFinalized, OnFinalized, Learn
<1> QED
  BY <1>1, LearningKeeps, UpdateKeeps DEF Reading

\* The highest block-meta's slot is one whose block-meta was sent.
LEMMA HighestIsSent ==
    ASSUME SessionIsWhole, NEW slot \in Slots, SendBlockMeta(slot),
           highestMeta' = IF highestMeta = None \/ highestMeta < slot THEN slot ELSE highestMeta
    PROVE  highestMeta' \in sentMetas'
  BY DEF SessionIsWhole, SendBlockMeta

LEMMA ReadEmptyBlockMetaKeeps ==
    ASSUME IngestionInv, NEW slot \in Slots, ReadEmptyBlockMeta(slot)
    PROVE  IngestionInv'
<1>1. /\ ~shutdown /\ SendBlockMeta(slot) /\ queue' = queue /\ UNCHANGED othersInSession
      /\ Reading /\ Settle(slot) /\ UNCHANGED arrived /\ batch' = ReleasedNow
      /\ highestMeta' = IF highestMeta = None \/ highestMeta < slot THEN slot ELSE highestMeta
      /\ UNCHANGED <<session, open, countedFrom, notYet, span, skipped, ranges>>
  BY DEF ReadEmptyBlockMeta, Listens, HandleEmptyBlockMeta, OnSlotUnresolvable, Learn
<1>2. highestMeta' \in sentMetas'
  BY <1>1, HighestIsSent DEF IngestionInv
<1> QED
  BY <1>1, <1>2, LearningKeeps, UpdateKeeps DEF Reading

-----------------------------------------------------------------------------
(***************************************************************************)
(* A block-meta receives slots.                                            *)
(***************************************************************************)

\* settled_below is right: a slot under it was sent whole, and nothing of it
\* waits in the buffer.
LEMMA SettledBelowIsComplete ==
    ASSUME OneEntryOfEach', StreamIsOrdered', highestMeta' \in sentMetas'
    PROVE  /\ SettledBelow \in Nat
           /\ \A s \in Slots : s < SettledBelow /\ NothingMissed(s)' => Complete(s)'
<1> DEFINE top == IF OldestPending' # None THEN OldestPending' ELSE highestMeta'
<1>0. /\ top \in Slots /\ \A h \in waiting' : top <= h.slot
      /\ top \in sentMetas' \/ \E h \in waiting' : h.slot = top
  <2>1. CASE waiting' = {}
    <3>1. top = highestMeta'
      BY <2>1 DEF OldestPending
    <3> QED
      BY <2>1, <3>1 DEF StreamIsOrdered
  <2>2. CASE waiting' # {}
    <3> DEFINE S == {h.slot : h \in waiting'}
    <3>1. S \subseteq Slots /\ S # {} /\ S \subseteq Nat
      BY <2>2, SlotsAssumption DEF OneEntryOfEach, Held
    <3>2. Least(S) \in S /\ \A n \in S : Least(S) <= n
      <4> HIDE DEF S
      <4> QED
        BY <3>1, LeastExists DEF Least
    <3>3. OldestPending' = Least(S)
      BY <2>2 DEF OldestPending
    <3>4. top = Least(S) /\ top \in Slots
      BY <3>1, <3>2, <3>3, MarkersAssumption
    <3> HIDE DEF top
    <3> QED
      BY <3>2, <3>4
  <2> QED
    BY <2>1, <2>2
<1>1. PICK u \in Slots : u = top
  BY <1>0
<1>2. /\ SettledBelow = Minus(u, HeldBackSlots)
      /\ \A h \in waiting' : u <= h.slot
      /\ u \in sentMetas' \/ \E h \in waiting' : h.slot = u
  BY <1>0, <1>1 DEF SettledBelow
<1> HIDE DEF top
<1>3. InOrder(u)'
  <2>1. CASE u \in sentMetas'
    BY <2>1 DEF StreamIsOrdered
  <2>2. CASE \E h \in waiting' : h.slot = u
    <3>1. PICK h \in waiting' : h.slot = u
      BY <2>2
    <3>2. Tag(h)[2] = u /\ Tag(h) \in Payloads'
      BY <3>1 DEF Payloads, Tag
    <3>3. Tag(h) \in OfSlot(Payloads, u)'
      BY <3>2 DEF OfSlot
    <3>4. sentTxs'[u] > 0
      <4> DEFINE T == OfSlot(Payloads, u)'
      <4>1. IsFiniteSet(T) /\ Cardinality(T) <= sentTxs'[u] /\ T # {} /\ sentTxs'[u] \in Nat
        BY <3>3 DEF StreamIsOrdered
      <4> HIDE DEF T
      <4>2. Cardinality(T) \in Nat /\ Cardinality(T) # 0
        BY <4>1, FS_CardinalityType, FS_EmptySet
      <4> QED
        BY <4>1, <4>2
    <3> QED
      BY <3>4 DEF StreamIsOrdered
  <2> QED
    BY <1>2, <2>1, <2>2
<1>4. u \in Nat /\ HeldBackSlots \in Nat /\ Lateness \in Nat /\ Lateness <= HeldBackSlots
  BY SlotsAssumption, HeldBackAssumption, StreamAssumption
<1>5. SettledBelow \in Nat
  BY <1>2, <1>4 DEF Minus
<1>6. ASSUME NEW s \in Slots, s < SettledBelow, NothingMissed(s)'
      PROVE  Complete(s)'
  <2>1. s \in Nat /\ s + Lateness <= u /\ s < u
    BY <1>2, <1>4, <1>6, SlotsAssumption DEF Minus
  <2>2. sentTxs'[s] = TxCount[s]
    BY <1>3, <2>1 DEF InOrder
  <2>3. \A h \in waiting' : h.slot # s
    <3>1. \A h \in waiting' : h.slot \in Nat /\ u <= h.slot
      BY <1>2, SlotsAssumption DEF OneEntryOfEach, Held
    <3> QED
      BY <1>4, <2>1, <3>1
  <2> QED
    BY <1>6, <2>2, <2>3 DEF Complete, NothingMissed
<1> QED
  BY <1>5, <1>6

\* A published span is the session's range; it covers the one before it.
LEMMA PublishKeeps ==
    ASSUME RecordsAreSound, WholeStayWhole, session \in Nat,
           NEW w \in Span, ranges' = Published(session, w), span' = w, w # None,
           open, UNCHANGED <<open, session, due, rows, unwritten, recorder, onTheirWay>>,
           span # None => span \in Span /\ Within(span, w),
           \A s \in SlotsOf(w) : Complete(s)'
    PROVE  RecordsAreSound'
<1> DEFINE new == [span |-> w, ended |-> FALSE]
<1>1. /\ DOMAIN ranges' = DOMAIN ranges \cup {session}
      /\ ranges'[session] = new
      /\ \A k \in DOMAIN ranges : k # session => ranges'[k] = ranges[k]
  BY DEF Published, Put
<1>2. new \in [span : Span, ended : BOOLEAN] /\ new.span = w /\ ~new.ended
  OBVIOUS
<1> HIDE DEF new
<1>3. RangesAreComplete'
  <2>1. ASSUME NEW k \in DOMAIN ranges'
        PROVE  /\ k \in Nat /\ k <= session'
               /\ ranges'[k] \in [span : Span, ended : BOOLEAN]
               /\ \A s \in SlotsOf(ranges'[k].span) : Complete(s)'
    <3>1. CASE k = session
      BY <1>1, <1>2, <3>1
    <3>2. CASE k # session
      <4>1. k \in DOMAIN ranges /\ ranges'[k] = ranges[k]
        BY <1>1, <3>2
      <4>2. \A s \in SlotsOf(ranges[k].span) : s \in Slots
        BY DEF SlotsOf
      <4> QED
        BY <4>1, <4>2 DEF RecordsAreSound, RangesAreComplete, WholeStayWhole
    <3> QED
      BY <3>1, <3>2
  <2> QED
    BY <2>1 DEF RangesAreComplete
<1>4. DueIsFinished' /\ RowsAreSettled'
  BY DueAndRowsStay
<1>5. session \in DOMAIN ranges => span # None /\ ranges[session].span = span
  BY DEF RecordsAreSound, OpenIsRemembered
<1>6. SpansAreNested'
  <2>1. ASSUME NEW t \in Span, session \in DOMAIN ranges, Within(t, ranges[session].span)
        PROVE  Within(t, w)
    BY <1>5, <2>1 DEF Within, Span
  <2>2. ASSUME NEW r \in DOMAIN rows, r[2] \in DOMAIN ranges'
        PROVE  Within(rows[r], ranges'[r[2]].span)
    <3>1. CASE r[2] = session
      <4>1. session \in DOMAIN ranges /\ rows[r] \in Span
        BY <3>1 DEF RecordsAreSound, OpenIsRemembered, RowsAreSettled
      <4>2. Within(rows[r], ranges[session].span)
        BY <3>1, <4>1 DEF RecordsAreSound, SpansAreNested
      <4> QED
        BY <1>1, <1>2, <2>1, <3>1, <4>1, <4>2
    <3>2. CASE r[2] # session
      BY <1>1, <2>2, <3>2 DEF RecordsAreSound, SpansAreNested
    <3> QED
      BY <3>1, <3>2
  <2>3. ASSUME NEW k \in DOMAIN due \cap DOMAIN ranges'
        PROVE  Within(due[k].span, ranges'[k].span)
    <3>1. CASE k = session
      <4>1. session \in DOMAIN ranges /\ due[session].span \in Span
        BY <3>1 DEF RecordsAreSound, OpenIsRemembered, DueIsFinished
      <4>2. Within(due[session].span, ranges[session].span)
        BY <3>1, <4>1 DEF RecordsAreSound, SpansAreNested
      <4> QED
        BY <1>1, <1>2, <2>1, <3>1, <4>1, <4>2
    <3>2. CASE k # session
      BY <1>1, <2>3, <3>2 DEF RecordsAreSound, SpansAreNested
    <3> QED
      BY <3>1, <3>2
  <2>4. \A r \in DOMAIN rows : r[2] \in DOMAIN due => Within(rows[r], due[r[2]].span)
    BY DEF RecordsAreSound, SpansAreNested
  <2> QED
    BY <2>2, <2>3, <2>4 DEF SpansAreNested
<1>7. OpenIsRemembered'
  BY <1>1, <1>2 DEF RecordsAreSound, OpenIsRemembered
<1> QED
  BY <1>3, <1>4, <1>6, <1>7 DEF RecordsAreSound

\* From which slot on a session misses nothing: a first block-meta is of a slot
\* none of the events of which was sent Lateness slots on.
LEMMA CountsFromThere ==
    ASSUME SessionIsWhole, StreamIsOrdered, NEW slot \in Slots, SendBlockMeta(slot)
    PROVE  LET from == IF countedFrom = None THEN slot + HeldBackSlots ELSE countedFrom
           IN  from \in Nat /\ \A s \in Slots : from <= s => NothingMissed(s)
<1> DEFINE from == IF countedFrom = None THEN slot + HeldBackSlots ELSE countedFrom
<1>1. /\ slot \in Nat /\ HeldBackSlots \in Nat
      /\ Lateness \in Nat /\ Lateness <= HeldBackSlots
  BY SlotsAssumption, HeldBackAssumption, StreamAssumption
<1>2. CASE countedFrom # None
  BY <1>2 DEF SessionIsWhole
<1>3. CASE countedFrom = None
  <2>1. from = slot + HeldBackSlots
    BY <1>3
  <2>2. ASSUME NEW s \in Slots, from <= s PROVE NothingMissed(s)
    <3>1. slot + Lateness <= s
      <4>1. s \in Nat
        BY SlotsAssumption
      <4> HIDE DEF from
      <4> QED
        BY <1>1, <2>1, <2>2, <4>1
    <3>2. slot \notin sentMetas
      BY DEF SendBlockMeta
    <3>3. ~InOrder(s)
      BY <3>1, <3>2 DEF InOrder
    <3>4. ~(sentTxs[s] > 0) /\ sentTxs[s] \in Nat
      BY <3>3 DEF StreamIsOrdered
    <3> DEFINE T == OfSlot(Payloads, s)
    <3>5. IsFiniteSet(T) /\ Cardinality(T) <= sentTxs[s]
      BY DEF StreamIsOrdered
    <3>6. Cardinality(T) \in Nat
      BY <3>5, FS_CardinalityType
    <3> HIDE DEF T
    <3>7. Cardinality(T) = sentTxs[s]
      BY <3>4, <3>5, <3>6
    <3> QED
      BY <3>7 DEF NothingMissed, T
  <2>3. from \in Nat
    <3> HIDE DEF from
    <3> QED
      BY <1>1, <2>1
  <2> QED
    BY <2>2, <2>3
<1> QED
  BY <1>2, <1>3

\* The span a session publishes is the least one around the slots received and
\* the span before it.
LEMMA WidenedSpan ==
    ASSUME NEW ends, ends \subseteq Nat, ends # {}, NEW b \in Nat, \A e \in ends : e <= b
    PROVE  LET w == [first |-> CHOOSE s \in ends : \A t \in ends : s <= t,
                     last  |-> CHOOSE s \in ends : \A t \in ends : s >= t]
           IN  /\ w \in Span /\ w.first \in ends /\ w.last \in ends
               /\ \A e \in ends : w.first <= e /\ e <= w.last
<1> DEFINE lo == CHOOSE s \in ends : \A t \in ends : s <= t
           hi == CHOOSE s \in ends : \A t \in ends : s >= t
<1>1. lo \in ends /\ \A t \in ends : lo <= t
  BY LeastExists
<1>2. hi \in ends /\ \A t \in ends : hi >= t
  <2>1. \E n \in ends : \A m \in ends : m <= n
    BY GreatestExists
  <2>2. \A m, n \in ends : m <= n <=> n >= m
    OBVIOUS
  <2>3. \E n \in ends : \A m \in ends : n >= m
    BY <2>1, <2>2
  <2> QED
    BY <2>3
<1> HIDE DEF lo, hi
<1>3. lo \in Nat /\ hi \in Nat /\ lo <= hi
  BY <1>1, <1>2
<1>4. [first |-> lo, last |-> hi] \in Span
  BY <1>3 DEF Span
<1>5. \A e \in ends : lo <= e /\ e <= hi
  BY <1>1, <1>2
<1> QED
  BY <1>1, <1>2, <1>4, <1>5 DEF lo, hi

\* A timed block-meta: what it receives is whole, and so is what it publishes.
LEMMA ReadBlockMetaKeeps ==
    ASSUME IngestionInv, NEW slot \in Slots, ReadBlockMeta(slot)
    PROVE  IngestionInv'
<1>1. /\ ~shutdown /\ SendBlockMeta(slot) /\ queue' = queue /\ UNCHANGED othersInSession
      /\ Reading /\ Settle(slot) /\ UNCHANGED arrived /\ batch' = ReleasedNow
      /\ highestMeta' = IF highestMeta = None \/ highestMeta < slot THEN slot ELSE highestMeta
      /\ UNCHANGED <<session, open, skipped>>
      /\ IF WatchesWhole THEN ReceiveSlot(slot)
                         ELSE UNCHANGED <<countedFrom, notYet, span, ranges>>
  BY DEF ReadBlockMeta, Listens, HandleBlockMeta, OnBlockTime, Learn
<1>2. highestMeta' \in sentMetas'
  BY <1>1, HighestIsSent DEF IngestionInv
<1>3. /\ OneEntryOfEach' /\ StreamIsOrdered' /\ HandedOnIsTracked'
      /\ SlotsSentWholeRest /\ \A s \in Slots : NothingMissed(s) => NothingMissed(s)'
      /\ released \subseteq released' /\ dropped \subseteq dropped'
      /\ sentMetas \subseteq sentMetas' /\ sentTxs' = sentTxs
  BY <1>1, LearningKeeps
<1>4. CASE ~WatchesWhole
  BY <1>1, <1>2, <1>3, <1>4, UpdateKeeps DEF Reading
<1>5. CASE WatchesWhole
  <2> DEFINE from == IF countedFrom = None THEN slot + HeldBackSlots ELSE countedFrom
             held == notYet \cup {s \in {slot} : s >= from}
             received == {s \in held : s < SettledBelow}
             ends == received \cup (IF span = None THEN {} ELSE {span.first, span.last})
             widened == [first |-> CHOOSE s \in ends : \A t \in ends : s <= t,
                         last  |-> CHOOSE s \in ends : \A t \in ends : s >= t]
  <2>1. /\ countedFrom' = from /\ notYet' = held \ received
        /\ received = {} => UNCHANGED <<span, ranges>>
        /\ received # {} => span' = widened /\ ranges' = Published(session, widened)
    BY <1>1, <1>5 DEF ReceiveSlot
  <2>2. OneEntryOfEach /\ SessionIsWhole /\ RecordsAreSound /\ StreamIsOrdered
    BY DEF IngestionInv
  <2>3. from \in Nat /\ \A s \in Slots : from <= s => NothingMissed(s)'
    BY <1>1, <1>3, <2>2, CountsFromThere
  <2>4. /\ countedFrom # None => from = countedFrom
        /\ span # None => countedFrom # None
    BY <2>2 DEF SessionIsWhole
  <2>5. held \subseteq Slots /\ \A s \in held : from <= s
    <3>1. notYet \subseteq Slots /\ \A s \in notYet : from <= s
      BY <2>2, <2>4 DEF SessionIsWhole
    <3>2. slot \in Nat
      BY SlotsAssumption
    <3> HIDE DEF from
    <3> QED
      BY <2>3, <3>1, <3>2
  <2>6. /\ SettledBelow \in Nat
        /\ \A s \in Slots : s < SettledBelow /\ NothingMissed(s)' => Complete(s)'
    BY <1>2, <1>3, SettledBelowIsComplete
  <2>7. WholeStayWhole
    BY <1>1, <1>3, <2>2, UpdateLeavesWhole DEF othersInSession
  <2>8. /\ UNCHANGED <<due, rows, unwritten, recorder, onTheirWay>>
        /\ session \in Nat /\ open
    BY <1>1, <2>2 DEF othersInSession, SessionIsWhole, Reading
  <2>9. from # None
    BY <2>3, OptionAssumption
  <2> HIDE DEF from, held
  <2>10. ASSUME span' # None =>
                   /\ span' \in Span /\ from <= span'.first
                   /\ \A s \in Slots \cap (from .. span'.last) : Complete(s)'
         PROVE  SessionIsWhole'
    <3>1. notYet' \subseteq Slots /\ \A s \in notYet' : from <= s
      BY <2>1, <2>5
    <3> QED
      BY <1>1, <1>2, <2>1, <2>3, <2>8, <2>9, <2>10, <3>1 DEF SessionIsWhole
  <2>11. ASSUME span # None
         PROVE  /\ span \in Span /\ from <= span.first
                /\ \A s \in Slots \cap (from .. span.last) : Complete(s)'
    BY <2>2, <2>4, <2>7, <2>11 DEF SessionIsWhole, WholeStayWhole
  <2>12. CASE received = {}
    <3>1. SessionIsWhole'
      BY <2>1, <2>10, <2>11, <2>12
    <3>2. RecordsAreSound'
      BY <1>1, <2>1, <2>2, <2>7, <2>8, <2>12, RecordsStay
    <3> QED
      BY <1>3, <3>1, <3>2 DEF IngestionInv
  <2>13. CASE received # {}
    <3>1. received \subseteq Slots /\ received \subseteq Nat /\ \A s \in received : from <= s /\ s < SettledBelow
      BY <2>5, SlotsAssumption
    <3> HIDE DEF received
    <3> DEFINE b == SettledBelow + (IF span = None THEN 0 ELSE span.last)
    <3>2. span # None => /\ span.first \in Nat /\ span.last \in Nat
                         /\ span.first <= span.last /\ from <= span.first
      BY <2>11 DEF Span
    <3>3. ends \subseteq Nat /\ ends # {} /\ b \in Nat /\ \A e \in ends : e <= b
      <4>1. CASE span = None
        BY <2>6, <2>13, <3>1, <4>1
      <4>2. CASE span # None
        <5>1. ends = received \cup {span.first, span.last} /\ b = SettledBelow + span.last
          BY <4>2
        <5>2. /\ span.first <= b /\ span.last <= b /\ b \in Nat
              /\ \A e \in received : e <= b
          <6>1. \A e \in received : e \in Nat /\ e < SettledBelow
            BY <3>1
          <6> HIDE DEF b
          <6> QED
            BY <2>6, <3>2, <4>2, <5>1, <6>1
        <5> HIDE DEF ends, b
        <5> QED
          BY <2>13, <3>1, <3>2, <4>2, <5>1, <5>2
      <4> QED
        BY <4>1, <4>2
    <3>4. /\ \A e \in ends : e \in received \/ (span # None /\ e \in {span.first, span.last})
          /\ span # None => span.first \in ends /\ span.last \in ends
      OBVIOUS
    <3> HIDE DEF ends, b
    <3>5. /\ widened \in Span /\ widened.first \in ends /\ widened.last \in ends
          /\ \A e \in ends : widened.first <= e /\ e <= widened.last
      BY <3>3, WidenedSpan
    <3> HIDE DEF widened
    <3>6. from <= widened.first
      <4>1. CASE widened.first \in received
        BY <3>1, <4>1
      <4>2. CASE span # None /\ widened.first = span.first
        BY <3>2, <4>2
      <4>3. CASE span # None /\ widened.first = span.last
        BY <2>3, <3>2, <4>3
      <4> QED
        BY <3>4, <3>5, <4>1, <4>2, <4>3
    <3>7. ASSUME NEW s \in Slots, from <= s, s <= widened.last PROVE Complete(s)'
      <4>1. CASE widened.last \in received
        <5>0. s \in Nat /\ widened.last \in Nat /\ widened.last < SettledBelow
          BY <3>1, <4>1, SlotsAssumption
        <5>1. s < SettledBelow
          BY <2>6, <3>7, <5>0
        <5> QED
          BY <2>3, <2>6, <3>7, <5>1
      <4>2. CASE span # None /\ widened.last \in {span.first, span.last}
        <5>1. s \in from .. span.last
          BY <2>3, <3>2, <3>7, <4>2, SlotsAssumption
        <5> QED
          BY <2>11, <4>2, <5>1
      <4> QED
        BY <3>4, <3>5, <4>1, <4>2
    <3>8. \A s \in Slots \cap (from .. widened.last) : Complete(s)'
      BY <3>7
    <3>9. SessionIsWhole'
      BY <2>1, <2>10, <2>13, <3>5, <3>6, <3>8
    <3>10. RecordsAreSound'
      <4>1. \A s \in SlotsOf(widened) : Complete(s)'
        <5>1. \A s \in SlotsOf(widened) : s \in Slots /\ from <= s /\ s <= widened.last
          BY <2>3, <3>5, <3>6, SlotsAssumption DEF SlotsOf, Span
        <5> QED
          BY <3>7, <5>1
      <4>2. widened # None
        BY <3>5, OptionAssumption DEF Span
      <4>3. span # None => span \in Span /\ Within(span, widened)
        BY <2>11, <3>4, <3>5 DEF Within
      <4> QED
        BY <1>1, <2>1, <2>2, <2>7, <2>8, <2>13, <3>5, <4>1, <4>2, <4>3, PublishKeeps
    <3> QED
      BY <1>3, <3>9, <3>10 DEF IngestionInv
  <2> QED
    BY <2>12, <2>13
<1> QED
  BY <1>4, <1>5

-----------------------------------------------------------------------------
(***************************************************************************)
(* Steps that read nothing.                                                *)
(***************************************************************************)

\* The payloads rest where they are; one of those handed back may be skipped.
PayloadsAtRest ==
    /\ UNCHANGED <<waiting, released, dropped, arrived, sentTxs, sentMetas>>
    /\ released \cup skipped' = released \cup skipped

LEMMA RestKeepsPayloads ==
    ASSUME OneEntryOfEach, StreamIsOrdered, PayloadsAtRest
    PROVE  /\ OneEntryOfEach' /\ StreamIsOrdered'
           /\ \A s \in Slots : Complete(s) => Complete(s)'
           /\ \A s \in Slots : NothingMissed(s) => NothingMissed(s)'
<1>1. Payloads' = Payloads /\ released' \cup skipped' = released \cup skipped
  BY DEF PayloadsAtRest, Payloads
<1>2. OneEntryOfEach'
  BY <1>1 DEF OneEntryOfEach, PayloadsAtRest
<1>3. \A s \in Slots : OfSlot(Payloads, s)' = OfSlot(Payloads, s) /\ (InOrder(s)' <=> InOrder(s))
  BY <1>1 DEF OfSlot, InOrder, PayloadsAtRest
<1>4. StreamIsOrdered'
  BY <1>3 DEF StreamIsOrdered, PayloadsAtRest
<1>5. \A s \in Slots : /\ Complete(s) => Complete(s)'
                       /\ NothingMissed(s) => NothingMissed(s)'
  BY <1>3 DEF Complete, NothingMissed, PayloadsAtRest
<1> QED
  BY <1>2, <1>4, <1>5

LEMMA RestLeavesWhole ==
    ASSUME OneEntryOfEach, StreamIsOrdered, PayloadsAtRest,
           Done \subseteq Done', atStop \subseteq atStop'
    PROVE  WholeStayWhole
<1>1. \A s \in Slots : Complete(s) => Complete(s)'
  BY RestKeepsPayloads
<1> QED
  BY <1>1 DEF WholeStayWhole, PayloadsAtRest

\* A step of the delivery, the worker or the stop: only what is underway moves.
LEMMA QuietKeeps ==
    ASSUME IngestionInv, PayloadsAtRest, Done \subseteq Done', atStop \subseteq atStop',
           HandedOnIsTracked', open \/ batch' = <<>>,
           UNCHANGED <<session, open, highestMeta, countedFrom, notYet, span>>,
           UNCHANGED <<ranges, due, rows, unwritten, recorder, onTheirWay>>
    PROVE  IngestionInv'
<1>1. OneEntryOfEach /\ StreamIsOrdered /\ SessionIsWhole /\ RecordsAreSound
  BY DEF IngestionInv
<1>2. /\ OneEntryOfEach' /\ StreamIsOrdered'
      /\ \A s \in Slots : Complete(s) => Complete(s)'
      /\ \A s \in Slots : NothingMissed(s) => NothingMissed(s)'
  BY <1>1, RestKeepsPayloads
<1>3. SessionIsWhole'
  <2>1. /\ open \/ (waiting' = {} /\ batch' = <<>> /\ highestMeta' = None)
        /\ highestMeta' # None => highestMeta' \in sentMetas'
    BY <1>1 DEF SessionIsWhole, PayloadsAtRest
  <2> QED
    BY <1>1, <1>2, <2>1, SessionStays
<1>4. RecordsAreSound'
  <2>1. WholeStayWhole
    BY <1>1, RestLeavesWhole
  <2>2. session \in Nat /\ session' \in Nat /\ session <= session'
    BY <1>1 DEF SessionIsWhole
  <2>3. ~open' \/ (open /\ session' = session /\ span' = span)
    OBVIOUS
  <2> QED
    BY <1>1, <2>1, <2>2, <2>3, RecordsStay
<1> QED
  BY <1>2, <1>3, <1>4 DEF IngestionInv

LEMMA DeliverKeeps ==
    ASSUME IngestionInv, Deliver
    PROVE  IngestionInv'
<1>1. HandedOnIsTracked
  BY DEF IngestionInv
<1>2. /\ alive /\ open /\ batch # <<>> /\ batch' = Tail(batch)
      /\ UNCHANGED <<session, open, highestMeta, countedFrom, notYet, span, ranges>>
      /\ UNCHANGED <<bufferVars, streamVars, othersInSession>>
  BY DEF Deliver, DeliverMalformed, DeliverNext
<1>3. UNCHANGED <<waiting, released, dropped, arrived, sentTxs, sentMetas>>
  BY <1>2 DEF bufferVars, streamVars
<1>4. /\ UNCHANGED <<due, rows, unwritten, recorder, onTheirWay>>
      /\ UNCHANGED <<hand, inFlight, worker, persisted, failed, shutdown, attemptsOver, alive, atStop>>
  BY <1>2 DEF othersInSession
<1>5. /\ Head(batch) \in Resolved /\ Tail(batch) \in Seq(Resolved)
      /\ Elements(batch) = {Head(batch)} \cup Elements(Tail(batch))
      /\ queue \in Seq(Resolved)
  BY <1>1, <1>2, ElementsOf DEF HandedOnIsTracked
<1>6. Head(batch) \in released
  BY <1>1, <1>5 DEF HandedOnIsTracked, Underway
<1>7. /\ PayloadsAtRest /\ Done \subseteq Done' /\ queue' \in Seq(Resolved)
      /\ Underway' \subseteq Underway /\ Underway \subseteq Underway' \cup Done'
  <2>1. CASE DeliverMalformed
    <3>1. skipped' = skipped \cup {Head(batch)} /\ queue' = queue
      BY <2>1 DEF DeliverMalformed
    <3>2. PayloadsAtRest
      BY <1>3, <1>6, <3>1 DEF PayloadsAtRest
    <3> QED
      BY <1>2, <1>4, <1>5, <3>1, <3>2 DEF Underway, Done
  <2>2. CASE DeliverNext
    <3>1. skipped' = skipped /\ queue' = Append(queue, Head(batch))
      BY <2>2 DEF DeliverNext
    <3>2. PayloadsAtRest
      BY <1>3, <3>1 DEF PayloadsAtRest
    <3>3. queue' \in Seq(Resolved) /\ Elements(queue') = Elements(queue) \cup {Head(batch)}
      BY <1>5, <3>1, ElementsOf
    <3>4. Underway' = Underway
      BY <1>2, <1>4, <1>5, <3>3 DEF Underway
    <3> QED
      BY <1>4, <3>1, <3>2, <3>3, <3>4 DEF Done
  <2> QED
    BY <2>1, <2>2 DEF Deliver
<1>8. HandedOnIsTracked'
  <2>1. /\ persisted \subseteq released /\ failed \subseteq released
        /\ worker # "running" => RecorderStopped
        /\ open => ~attemptsOver
    BY <1>1, <1>2 DEF HandedOnIsTracked
  <2> QED
    BY <1>1, <1>2, <1>3, <1>4, <1>5, <1>7, <2>1, MovesAreTracked
<1> QED
  BY <1>2, <1>4, <1>7, <1>8, QuietKeeps

LEMMA WorkerKeeps ==
    ASSUME IngestionInv, WorkerStep
    PROVE  IngestionInv'
<1>1. HandedOnIsTracked /\ SessionIsWhole
  BY DEF IngestionInv
<1>2. alive /\ UNCHANGED othersInWorker
  BY DEF WorkerStep
<1>3. /\ UNCHANGED <<waiting, released, dropped, arrived, sentTxs, sentMetas>>
      /\ UNCHANGED <<session, open, highestMeta, countedFrom, notYet, span, batch, skipped>>
      /\ UNCHANGED <<ranges, due, rows, unwritten, recorder, onTheirWay>>
      /\ UNCHANGED <<shutdown, attemptsOver, alive, atStop>>
  BY <1>2 DEF othersInWorker, bufferVars, sessionVars, streamVars, recorderVars, ghostVars
<1>4. persisted' = persisted /\ failed' = failed
  BY DEF WorkerStep, Recv, Dispatch, DropInHand, StopOnShutdown, StopOnClosed, WorkerReturns
<1>5. /\ batch \in Seq(Resolved) /\ queue \in Seq(Resolved) /\ Elements(queue) \subseteq Resolved
      /\ persisted \subseteq released /\ failed \subseteq released
      /\ worker # "running" => RecorderStopped
      /\ RecorderStopped => Underway \subseteq atStop
      /\ open => ~attemptsOver
  BY <1>1, <1>2, ElementsOf DEF HandedOnIsTracked
<1>6. /\ queue' \in Seq(Resolved)
      /\ Underway' \subseteq Underway /\ Underway \subseteq Underway' \cup atStop
      /\ worker' # "running" => RecorderStopped
  <2>1. CASE Recv(shutdown)
    <3>1. /\ queue # <<>> /\ hand' = Head(queue) /\ queue' = Tail(queue) /\ hand = NoTx
          /\ UNCHANGED <<inFlight, worker>>
      BY <2>1 DEF Recv
    <3>2. /\ Head(queue) \in Resolved /\ Tail(queue) \in Seq(Resolved)
          /\ Elements(queue) = {Head(queue)} \cup Elements(Tail(queue))
      BY <1>5, <3>1, ElementsOf
    <3>3. hand' # NoTx
      BY <3>1, <3>2, OptionAssumption
    <3>4. Underway' = Underway
      BY <1>3, <3>1, <3>2, <3>3 DEF Underway
    <3> QED
      BY <1>5, <3>1, <3>2, <3>4
  <2>2. CASE Dispatch(shutdown)
    <3>1. /\ hand # NoTx /\ inFlight' = inFlight \cup {hand} /\ hand' = NoTx
          /\ UNCHANGED <<queue, worker>>
      BY <2>2 DEF Dispatch
    <3>2. Underway' = Underway
      BY <1>3, <3>1 DEF Underway
    <3> QED
      BY <1>5, <3>1, <3>2
  <2>3. ASSUME Underway' \subseteq Underway, RecorderStopped, queue' \in Seq(Resolved)
        PROVE  /\ queue' \in Seq(Resolved)
               /\ Underway' \subseteq Underway /\ Underway \subseteq Underway' \cup atStop
               /\ worker' # "running" => RecorderStopped
    BY <1>5, <2>3
  <2>4. CASE DropInHand(shutdown)
    <3>1. shutdown /\ hand' = NoTx /\ UNCHANGED <<queue, inFlight>>
      BY <2>4 DEF DropInHand
    <3> QED
      BY <1>3, <1>5, <2>3, <3>1 DEF Underway, RecorderStopped
  <2>5. PICK none \in Seq(Resolved) : none = <<>>
    BY EmptySeq
  <2>6. CASE StopOnShutdown(shutdown)
    <3>1. shutdown /\ queue' = none /\ UNCHANGED <<hand, inFlight>>
      BY <2>5, <2>6 DEF StopOnShutdown
    <3> QED
      BY <1>3, <2>3, <2>5, <3>1, ElementsOfNone DEF Underway, RecorderStopped
  <2>7. CASE StopOnClosed(shutdown, attemptsOver /\ ~open)
    <3>1. attemptsOver /\ UNCHANGED <<queue, hand, inFlight>>
      BY <2>7 DEF StopOnClosed
    <3> QED
      BY <1>3, <1>5, <2>3, <3>1 DEF Underway, RecorderStopped
  <2>8. CASE WorkerReturns
    <3>1. worker # "running" /\ queue' = none /\ UNCHANGED <<hand, inFlight>>
      BY <2>5, <2>8 DEF WorkerReturns
    <3> QED
      BY <1>3, <1>5, <2>3, <2>5, <3>1, ElementsOfNone DEF Underway
  <2> QED
    BY <2>1, <2>2, <2>4, <2>6, <2>7, <2>8 DEF WorkerStep
<1>7. PayloadsAtRest /\ Done \subseteq Done'
  BY <1>3, <1>4 DEF PayloadsAtRest, Done
<1>8. HandedOnIsTracked'
  BY <1>1, <1>2, <1>3, <1>4, <1>5, <1>6, <1>7, MovesAreTracked
<1>9. open \/ batch' = <<>>
  BY <1>1, <1>3 DEF SessionIsWhole
<1> QED
  BY <1>3, <1>7, <1>8, <1>9, QuietKeeps

LEMMA IndexKeeps ==
    ASSUME IngestionInv, Index
    PROVE  IngestionInv'
<1>1. HandedOnIsTracked /\ SessionIsWhole
  BY DEF IngestionInv
<1>2. PICK tx \in inFlight, ok \in BOOLEAN : IndexOne(tx, ok)
  BY DEF Index
<1>3. alive /\ UNCHANGED othersInWorker
  BY DEF Index
<1>4. /\ UNCHANGED <<waiting, released, dropped, arrived, sentTxs, sentMetas>>
      /\ UNCHANGED <<session, open, highestMeta, countedFrom, notYet, span, batch, skipped>>
      /\ UNCHANGED <<ranges, due, rows, unwritten, recorder, onTheirWay>>
      /\ UNCHANGED <<shutdown, attemptsOver, alive, atStop>>
  BY <1>3 DEF othersInWorker, bufferVars, sessionVars, streamVars, recorderVars, ghostVars
<1>5. /\ inFlight' = inFlight \ {tx} /\ UNCHANGED <<queue, hand, worker>>
      /\ persisted \subseteq persisted' /\ failed \subseteq failed'
      /\ persisted' \subseteq persisted \cup {tx} /\ failed' \subseteq failed \cup {tx}
      /\ tx \in persisted' \cup failed'
  BY <1>2 DEF IndexOne
<1>6. /\ batch \in Seq(Resolved) /\ queue \in Seq(Resolved)
      /\ persisted \subseteq released /\ failed \subseteq released /\ tx \in released
      /\ worker # "running" => RecorderStopped
      /\ open => ~attemptsOver
  BY <1>1, <1>3 DEF HandedOnIsTracked, Underway
<1>7. PayloadsAtRest /\ Done \subseteq Done'
  BY <1>4, <1>5 DEF PayloadsAtRest, Done
<1>8. Underway' \subseteq Underway /\ Underway \subseteq Underway' \cup Done'
  BY <1>4, <1>5 DEF Underway, Done
<1>9. persisted' \subseteq released /\ failed' \subseteq released
  BY <1>5, <1>6
<1>10. HandedOnIsTracked'
  BY <1>1, <1>3, <1>4, <1>5, <1>6, <1>7, <1>8, <1>9, MovesAreTracked
<1>11. open \/ batch' = <<>>
  BY <1>1, <1>4 DEF SessionIsWhole
<1> QED
  BY <1>4, <1>7, <1>10, <1>11, QuietKeeps

\* The end of the attempts, and the request to stop.
LEMMA StopKeeps ==
    ASSUME IngestionInv, AttemptsEnd \/ RequestShutdown
    PROVE  IngestionInv'
<1>1. HandedOnIsTracked /\ SessionIsWhole
  BY DEF IngestionInv
<1>2. /\ alive /\ RecorderStopped'
      /\ attemptsOver' => ~open
      /\ atStop' = IF RecorderStopped THEN atStop ELSE Underway
      /\ UNCHANGED <<bufferVars, recorderVars, workerVars, sessionVars, streamVars,
                     alive, onTheirWay>>
  BY <1>1 DEF AttemptsEnd, RequestShutdown, RecorderStopped, HandedOnIsTracked
<1>3. /\ UNCHANGED <<waiting, released, dropped, arrived, sentTxs, sentMetas>>
      /\ UNCHANGED <<session, open, highestMeta, countedFrom, notYet, span, batch, skipped>>
      /\ UNCHANGED <<ranges, due, rows, unwritten, recorder, onTheirWay>>
      /\ UNCHANGED <<queue, hand, inFlight, worker, persisted, failed, alive>>
  BY <1>2 DEF bufferVars, sessionVars, streamVars, recorderVars, workerVars
<1>4. PayloadsAtRest /\ Done' = Done /\ Underway' = Underway
  BY <1>3 DEF PayloadsAtRest, Done, Underway
<1>5. HandedOnIsTracked' /\ atStop \subseteq atStop'
  <2>1. batch' \in Seq(Resolved)
    BY <1>1, <1>3 DEF HandedOnIsTracked
  <2> QED
    BY <1>1, <1>2, <1>3, <1>4, <2>1, StopIsTracked
<1>6. open \/ batch' = <<>>
  BY <1>1, <1>3 DEF SessionIsWhole
<1> QED
  BY <1>3, <1>4, <1>5, <1>6, QuietKeeps

\* Sent while nobody reads.
LEMMA MissedKeeps ==
    ASSUME IngestionInv, NEW slot \in Slots, Missed(slot)
    PROVE  IngestionInv'
<1>1. OneEntryOfEach /\ StreamIsOrdered /\ HandedOnIsTracked /\ SessionIsWhole /\ RecordsAreSound
  BY DEF IngestionInv
<1>2. /\ ~open
      /\ SendTransaction(slot) \/ SendBlockMeta(slot) \/ SendFinalized(slot)
      /\ UNCHANGED <<bufferVars, recorderVars, workerVars, sessionVars,
                     shutdown, attemptsOver, alive, ghostVars>>
  BY DEF Missed
<1>3. /\ UNCHANGED <<waiting, released, dropped, arrived>>
      /\ UNCHANGED <<session, open, highestMeta, countedFrom, notYet, span, batch, skipped>>
      /\ UNCHANGED <<ranges, due, rows, unwritten, recorder, onTheirWay>>
      /\ UNCHANGED <<queue, hand, inFlight, worker, persisted, failed>>
      /\ UNCHANGED <<shutdown, attemptsOver, alive, atStop>>
  BY <1>2 DEF bufferVars, sessionVars, recorderVars, workerVars, ghostVars
<1>4. /\ sentTxs' \in [Slots -> Nat] /\ sentMetas' \subseteq Slots
      /\ \A s \in Slots : sentTxs[s] <= sentTxs'[s]
      /\ \A s \in Slots : sentTxs[s] = TxCount[s] => sentTxs'[s] = sentTxs[s]
      /\ \A s \in Slots : sentTxs'[s] > 0 \/ s \in sentMetas' => InOrder(s)'
  BY <1>1, <1>2, OrderStays
<1>5. Payloads' = Payloads
  BY <1>3 DEF Payloads
<1>6. \A s \in Slots : OfSlot(Payloads, s)' = OfSlot(Payloads, s)
  BY <1>5 DEF OfSlot
<1>7. OneEntryOfEach'
  BY <1>1, <1>3, <1>5 DEF OneEntryOfEach
<1>8. StreamIsOrdered'
  <2>1. ASSUME NEW s \in Slots
        PROVE  /\ IsFiniteSet(OfSlot(Payloads, s)')
               /\ Cardinality(OfSlot(Payloads, s)') <= sentTxs'[s]
    <3> DEFINE T == OfSlot(Payloads, s)
    <3>1. /\ IsFiniteSet(T) /\ Cardinality(T) <= sentTxs[s] /\ OfSlot(Payloads, s)' = T
          /\ sentTxs[s] \in Nat /\ sentTxs'[s] \in Nat /\ sentTxs[s] <= sentTxs'[s]
      BY <1>1, <1>4, <1>6 DEF StreamIsOrdered
    <3> HIDE DEF T
    <3>2. Cardinality(T) \in Nat
      BY <3>1, FS_CardinalityType
    <3> QED
      BY <3>1, <3>2
  <2> QED
    BY <1>4, <2>1 DEF StreamIsOrdered
<1>9. HandedOnIsTracked'
  BY <1>1, <1>3 DEF HandedOnIsTracked, Underway, Done, RecorderStopped
<1>10. WholeStayWhole
  <2>1. SlotsSentWholeRest
    BY <1>4, <1>6 DEF SlotsSentWholeRest
  <2> QED
    BY <1>1, <1>3, <1>7, <2>1, UpdateLeavesWhole
<1>11. SessionIsWhole'
  <2>1. /\ waiting' = {} /\ batch' = <<>> /\ highestMeta' = None /\ countedFrom = None
    BY <1>1, <1>2, <1>3 DEF SessionIsWhole
  <2>2. \A s \in Slots : Complete(s) => Complete(s)'
    BY <1>10 DEF WholeStayWhole
  <2> QED
    BY <1>1, <1>3, <2>1, <2>2, SessionStays
<1>12. RecordsAreSound'
  <2>1. session \in Nat /\ session' \in Nat /\ session <= session' /\ ~open'
    BY <1>1, <1>2, <1>3 DEF SessionIsWhole
  <2> QED
    BY <1>1, <1>3, <1>10, <2>1, RecordsStay
<1> QED
  BY <1>7, <1>8, <1>9, <1>11, <1>12 DEF IngestionInv

LEMMA BeginSessionKeeps ==
    ASSUME IngestionInv, BeginSession
    PROVE  IngestionInv'
<1>1. OneEntryOfEach /\ StreamIsOrdered /\ HandedOnIsTracked /\ SessionIsWhole /\ RecordsAreSound
  BY DEF IngestionInv
<1>2. /\ alive /\ ~RecorderStopped /\ ~open /\ open' /\ session' = session + 1
      /\ UNCHANGED <<batch, highestMeta, countedFrom, notYet, span, skipped, ranges>>
      /\ UNCHANGED bufferVars /\ UNCHANGED <<queue, streamVars, othersInSession>>
  BY DEF BeginSession, SessionStarts
<1>3. /\ UNCHANGED <<waiting, released, dropped, arrived, sentTxs, sentMetas>>
      /\ UNCHANGED <<due, rows, unwritten, recorder, onTheirWay>>
      /\ UNCHANGED <<hand, inFlight, worker, persisted, failed,
                     shutdown, attemptsOver, alive, atStop>>
  BY <1>2 DEF bufferVars, streamVars, othersInSession
<1>4. PayloadsAtRest /\ Done' = Done
  BY <1>2, <1>3 DEF PayloadsAtRest, Done
<1>5. OneEntryOfEach' /\ StreamIsOrdered'
  BY <1>1, <1>4, RestKeepsPayloads
<1>6. WholeStayWhole
  BY <1>1, <1>3, <1>4, RestLeavesWhole
<1>7. HandedOnIsTracked'
  <2>1. Underway' = Underway /\ RecorderStopped' = RecorderStopped /\ ~attemptsOver'
    BY <1>2, <1>3 DEF Underway, RecorderStopped
  <2> QED
    BY <1>1, <1>2, <1>3, <1>4, <2>1 DEF HandedOnIsTracked
<1>8. session \in Nat /\ session' \in Nat /\ session <= session'
  BY <1>1, <1>2 DEF SessionIsWhole
<1>9. SessionIsWhole'
  BY <1>1, <1>2, <1>3, <1>8 DEF SessionIsWhole
<1>10. RecordsAreSound'
  BY <1>1, <1>2, <1>3, <1>6, <1>8, RecordsStay
<1> QED
  BY <1>5, <1>7, <1>9, <1>10 DEF IngestionInv

\* A session dies: with what waits, and never with what it counted as received.
LEMMA DyingKeeps ==
    ASSUME IngestionInv, SessionDies, UNCHANGED <<sentTxs, sentMetas>>,
           UNCHANGED <<due, rows, unwritten, recorder, onTheirWay, persisted, failed>>,
           HandedOnIsTracked', atStop \subseteq atStop'
    PROVE  IngestionInv'
<1>1. OneEntryOfEach /\ StreamIsOrdered /\ SessionIsWhole /\ RecordsAreSound
  BY DEF IngestionInv
<1>2. /\ ~open' /\ batch' = <<>> /\ ranges' = Ended(session) /\ waiting' = {}
      /\ highestMeta' = None /\ countedFrom' = None /\ notYet' = {} /\ span' = None
      /\ UNCHANGED <<session, skipped, arrived, released, dropped>>
  BY DEF SessionDies
<1>3. /\ OneEntryOfEach' /\ StreamIsOrdered'
      /\ \A s \in Slots : Complete(s) => Complete(s)'
  BY <1>1, <1>2, CutLeavesWhole
<1>4. Done' = Done
  BY <1>2 DEF Done
<1>5. WholeStayWhole
  BY <1>2, <1>3, <1>4 DEF WholeStayWhole
<1>6. SessionIsWhole'
  BY <1>1, <1>2 DEF SessionIsWhole
<1>7. session \in Nat /\ session' = session /\ session <= session
  BY <1>1, <1>2 DEF SessionIsWhole
<1>8. DueIsFinished' /\ RowsAreSettled'
  BY <1>1, <1>5, <1>7, DueAndRowsStay
<1>9. /\ DOMAIN ranges' = DOMAIN ranges
      /\ \A k \in DOMAIN ranges : /\ ranges[k] \in [span : Span, ended : BOOLEAN]
                                  /\ ranges'[k] \in [span : Span, ended : BOOLEAN]
                                  /\ ranges'[k].span = ranges[k].span
  <2>1. \A k \in DOMAIN ranges : ranges[k] \in [span : Span, ended : BOOLEAN]
    BY <1>1 DEF RecordsAreSound, RangesAreComplete
  <2> QED
    BY <1>2, <2>1 DEF Ended
<1>10. RangesAreComplete'
  <2>1. \A t : SlotsOf(t) \subseteq Slots
    BY DEF SlotsOf
  <2>2. \A k \in DOMAIN ranges : /\ k \in Nat /\ k <= session
                                 /\ \A s \in SlotsOf(ranges[k].span) : Complete(s)
    BY <1>1 DEF RecordsAreSound, RangesAreComplete
  <2>3. \A k \in DOMAIN ranges' : /\ k \in Nat /\ k <= session'
                                  /\ ranges'[k] \in [span : Span, ended : BOOLEAN]
                                  /\ \A s \in SlotsOf(ranges'[k].span) : Complete(s)'
    BY <1>3, <1>7, <1>9, <2>1, <2>2
  <2> QED
    BY <2>3 DEF RangesAreComplete
<1>11. SpansAreNested'
  BY <1>1, <1>9 DEF RecordsAreSound, SpansAreNested
<1>12. OpenIsRemembered'
  BY <1>2 DEF OpenIsRemembered
<1> QED
  BY <1>3, <1>6, <1>8, <1>10, <1>11, <1>12 DEF IngestionInv, RecordsAreSound

LEMMA ServerCutsKeeps ==
    ASSUME IngestionInv, ServerCuts
    PROVE  IngestionInv'
<1>1. HandedOnIsTracked
  BY DEF IngestionInv
<1>2. /\ alive /\ batch = <<>> /\ batch' = <<>> /\ SessionDies
      /\ ~open' /\ UNCHANGED <<released, skipped>>
      /\ UNCHANGED <<queue, streamVars, othersInSession>>
  BY DEF ServerCuts, Reading, SessionDies
<1>3. /\ UNCHANGED <<due, rows, unwritten, recorder, onTheirWay>>
      /\ UNCHANGED <<hand, inFlight, worker, persisted, failed,
                     shutdown, attemptsOver, alive, atStop>>
      /\ UNCHANGED <<sentTxs, sentMetas>>
  BY <1>2 DEF streamVars, othersInSession
<1>4. batch' = batch
  BY <1>2
<1>5. HandedOnIsTracked'
  BY <1>1, <1>2, <1>3, <1>4 DEF HandedOnIsTracked, Underway, Done, RecorderStopped
<1> QED
  BY <1>2, <1>3, <1>5, DyingKeeps

\* A session that starts to wait for room keeps all it had.
LEMMA ParkKeeps ==
    ASSUME IngestionInv, Park
    PROVE  IngestionInv'
<1>1. /\ UNCHANGED <<bufferVars, streamVars, othersInSession, ranges, queue>>
      /\ UNCHANGED <<session, open, batch, highestMeta, countedFrom, notYet, span, skipped>>
  BY DEF Park, DeliverWaits
<1>2. /\ UNCHANGED <<waiting, released, dropped, arrived, sentTxs, sentMetas>>
      /\ UNCHANGED <<ranges, due, rows, unwritten, recorder>>
      /\ UNCHANGED <<queue, hand, inFlight, worker, persisted, failed>>
      /\ UNCHANGED <<shutdown, attemptsOver, alive, atStop, onTheirWay>>
  BY <1>1 DEF othersInSession, bufferVars, streamVars
<1>3. PayloadsAtRest /\ Done \subseteq Done' /\ atStop \subseteq atStop'
  BY <1>1, <1>2 DEF PayloadsAtRest, Done
<1>4. HandedOnIsTracked'
  <2>1. HandedOnIsTracked
    BY DEF IngestionInv
  <2> QED
    BY <1>1, <1>2, <2>1 DEF HandedOnIsTracked, Underway, Done, RecorderStopped
<1>5. open \/ batch' = <<>>
  BY <1>1 DEF IngestionInv, SessionIsWhole
<1> QED
  BY <1>1, <1>2, <1>3, <1>4, <1>5, QuietKeeps

LEMMA SessionStopsKeeps ==
    ASSUME IngestionInv, SessionStops
    PROVE  IngestionInv'
<1>1. HandedOnIsTracked
  BY DEF IngestionInv
<1>2. /\ alive /\ batch' = <<>> /\ SessionDies /\ attemptsOver' /\ ~open'
      /\ UNCHANGED <<released, skipped>>
      /\ atStop' = IF RecorderStopped THEN atStop ELSE Underway
      /\ UNCHANGED <<queue, due, unwritten, recorder, rows, hand, inFlight, worker,
                     persisted, failed, alive, onTheirWay>>
      /\ UNCHANGED <<sentTxs, sentMetas>>
  BY DEF SessionStops, SessionDies, streamVars
<1>3. PICK none \in Seq(Resolved) : none = <<>>
  BY EmptySeq
<1>4. batch' \in Seq(Resolved)
  BY <1>2, <1>3
<1>5. Underway' \subseteq Underway
  BY <1>2, ElementsOfNone DEF Underway
<1>6. RecorderStopped'
  BY <1>2 DEF RecorderStopped
<1>7. HandedOnIsTracked' /\ atStop \subseteq atStop'
  BY <1>1, <1>2, <1>4, <1>5, <1>6, StopIsTracked
<1> QED
  BY <1>2, <1>7, DyingKeeps

-----------------------------------------------------------------------------
(***************************************************************************)
(* The recorder, and the end of the process.                               *)
(***************************************************************************)

\* The recorder touches nothing but its own.
LEMMA RecorderLeavesOthers ==
    ASSUME IngestionInv, UNCHANGED othersInRecorder
    PROVE  /\ OneEntryOfEach' /\ StreamIsOrdered' /\ HandedOnIsTracked' /\ SessionIsWhole'
           /\ \A s \in Slots : Complete(s) => Complete(s)'
           /\ UNCHANGED <<session, open, span, released, atStop, alive, Done, Underway>>
<1>1. OneEntryOfEach /\ StreamIsOrdered /\ HandedOnIsTracked /\ SessionIsWhole
  BY DEF IngestionInv
<1>2. /\ UNCHANGED <<waiting, released, dropped, arrived, sentTxs, sentMetas>>
      /\ UNCHANGED <<session, open, highestMeta, countedFrom, notYet, span, batch, skipped>>
      /\ UNCHANGED <<queue, hand, inFlight, worker, persisted, failed>>
      /\ UNCHANGED <<shutdown, attemptsOver, alive, atStop>>
  BY DEF othersInRecorder, bufferVars, sessionVars, streamVars, workerVars
<1>3. PayloadsAtRest /\ Done' = Done /\ Underway' = Underway /\ RecorderStopped' = RecorderStopped
  BY <1>2 DEF PayloadsAtRest, Done, Underway, RecorderStopped
<1>4. /\ OneEntryOfEach' /\ StreamIsOrdered'
      /\ \A s \in Slots : Complete(s) => Complete(s)'
      /\ \A s \in Slots : NothingMissed(s) => NothingMissed(s)'
  BY <1>1, <1>3, RestKeepsPayloads
<1>5. HandedOnIsTracked'
  BY <1>1, <1>2, <1>3 DEF HandedOnIsTracked
<1>6. SessionIsWhole'
  <2>1. /\ open \/ (waiting' = {} /\ batch' = <<>> /\ highestMeta' = None)
        /\ highestMeta' # None => highestMeta' \in sentMetas'
    BY <1>1, <1>2 DEF SessionIsWhole
  <2> QED
    BY <1>1, <1>2, <1>4, <2>1, SessionStays
<1> QED
  BY <1>2, <1>3, <1>4, <1>5, <1>6

\* A write opens when what is due is finished with, or was at the stop.
LEMMA OpenWriteKeeps ==
    ASSUME IngestionInv, RecorderTick \/ RecorderStop
    PROVE  IngestionInv'
<1>1. RecordsAreSound /\ HandedOnIsTracked
  BY DEF IngestionInv
<1>2. /\ alive /\ recorder = "idle" /\ unwritten' = Changed
      /\ recorder' \in {"writing", "stopping"}
      /\ UNCHANGED <<ranges, due, rows>> /\ UNCHANGED othersInRecorder
      /\ RecorderStopped \/ (~RecorderStopped /\ onTheirWay \cap Underway = {})
  BY DEF RecorderTick, RecorderStop, OpenWrite
<1>3. /\ OneEntryOfEach' /\ StreamIsOrdered' /\ HandedOnIsTracked' /\ SessionIsWhole'
      /\ \A s \in Slots : Complete(s) => Complete(s)'
      /\ UNCHANGED <<session, open, span, released, atStop, Done>>
  BY <1>2, RecorderLeavesOthers
<1>4. Excused = onTheirWay /\ Excused' = {}
  BY <1>2 DEF Excused
<1>5. ASSUME NEW s \in Slots, FinishedBut(s, Excused) PROVE FinishedBut(s, Excused)'
  <2>1. ASSUME NEW x \in released, x.slot = s PROVE x \in Done \cup atStop
    <3>1. x \in Done \cup atStop \cup onTheirWay
      BY <1>4, <1>5, <2>1 DEF FinishedBut
    <3>2. x \in Done \cup Underway \cup atStop
      BY <1>1, <1>2 DEF HandedOnIsTracked
    <3>3. CASE RecorderStopped
      BY <1>1, <1>2, <3>2, <3>3 DEF HandedOnIsTracked
    <3>4. CASE onTheirWay \cap Underway = {}
      BY <3>1, <3>2, <3>4
    <3> QED
      BY <1>2, <3>3, <3>4
  <2>2. Complete(s)'
    BY <1>3, <1>5 DEF FinishedBut
  <2> QED
    BY <1>3, <2>1, <2>2 DEF FinishedBut
<1>6. \A t : SlotsOf(t) \subseteq Slots
  BY DEF SlotsOf
<1>7. RangesAreComplete'
  BY <1>1, <1>2, <1>3, <1>6 DEF RecordsAreSound, RangesAreComplete
<1>8. DueIsFinished'
  <2>1. unwritten' \subseteq DOMAIN due
    BY <1>2 DEF Changed
  <2>2. \A k \in DOMAIN due : \A s \in SlotsOf(due[k].span) : FinishedBut(s, Excused)'
    BY <1>1, <1>5, <1>6 DEF RecordsAreSound, DueIsFinished
  <2> QED
    BY <1>1, <1>2, <1>3, <2>1, <2>2 DEF RecordsAreSound, DueIsFinished
<1>9. RowsAreSettled'
  <2>1. \A s \in Slots : Settled(s) => Settled(s)'
    BY <1>3 DEF Settled, FinishedBut
  <2> QED
    BY <1>1, <1>2, <1>3, <1>6, <2>1 DEF RecordsAreSound, RowsAreSettled
<1>10. SpansAreNested' /\ OpenIsRemembered'
  BY <1>1, <1>2, <1>3 DEF RecordsAreSound, SpansAreNested, OpenIsRemembered
<1> QED
  BY <1>3, <1>7, <1>8, <1>9, <1>10 DEF IngestionInv, RecordsAreSound

\* A row that lies within the span written over it becomes that span.
LEMMA UpsertIsSpan ==
    ASSUME NEW key, key \in DOMAIN rows => rows[key] \in Span, NEW new \in Span,
           key \in DOMAIN rows => Within(rows[key], new)
    PROVE  Upserted(key, new) = new
<1>1. CASE key \in DOMAIN rows
  <2>1. PICK row \in Span : row = rows[key] /\ Within(row, new)
    BY <1>1
  <2>2. /\ row.first \in Nat /\ row.last \in Nat /\ row.first <= row.last
        /\ new.first \in Nat /\ new.last \in Nat
        /\ new.first <= row.first /\ row.last <= new.last
        /\ new = [first |-> new.first, last |-> new.last]
    BY <2>1 DEF Span, Within
  <2> DEFINE mid == Include(row, new.first)
  <2>3. mid.first = new.first /\ mid.last = row.last
    BY <2>2 DEF Include
  <2> HIDE DEF mid
  <2>4. Include(mid, new.last).first = new.first /\ Include(mid, new.last).last = new.last
    BY <2>2, <2>3 DEF Include
  <2>5. Include(mid, new.last) =
          [first |-> Include(mid, new.last).first, last |-> Include(mid, new.last).last]
    BY DEF Include
  <2>6. Include(mid, new.last) = new
    BY <2>2, <2>4, <2>5
  <2> QED
    BY <1>1, <2>1, <2>6 DEF Upserted, mid
<1>2. CASE key \notin DOMAIN rows
  BY <1>2 DEF Upserted
<1> QED
  BY <1>1, <1>2

\* Every protocol's row of one session becomes the span that is due.
LEMMA RecordKeeps ==
    ASSUME IngestionInv, RecorderRecords
    PROVE  IngestionInv'
<1>1. RecordsAreSound
  BY DEF IngestionInv
<1>2. PICK k \in unwritten, refused \in SUBSET Protocols : RecordSession(k, refused)
  BY DEF RecorderRecords
<1> DEFINE recorded == {<<p, k>> : p \in Protocols \ refused}
           new == due[k].span
<1>3. /\ recorder \in {"writing", "stopping"} /\ unwritten' = unwritten \ {k}
      /\ rows' = [r \in DOMAIN rows \cup recorded |->
                    IF r \in recorded THEN Upserted(r, new) ELSE rows[r]]
      /\ UNCHANGED <<ranges, due, recorder>>
  BY <1>2 DEF RecordSession
<1>4. UNCHANGED othersInRecorder /\ UNCHANGED onTheirWay
  BY DEF RecorderRecords
<1>5. /\ OneEntryOfEach' /\ StreamIsOrdered' /\ HandedOnIsTracked' /\ SessionIsWhole'
      /\ \A s \in Slots : Complete(s) => Complete(s)'
      /\ UNCHANGED <<session, open, span, released, atStop, Done>>
  BY <1>4, RecorderLeavesOthers
<1>6. Excused = {} /\ Excused' = {}
  BY <1>3 DEF Excused
<1>7. \A s \in Slots : /\ FinishedBut(s, Excused) => Settled(s)' /\ FinishedBut(s, Excused)'
                       /\ Settled(s) => Settled(s)'
  BY <1>5, <1>6 DEF FinishedBut, Settled
<1>8. \A t : SlotsOf(t) \subseteq Slots
  BY DEF SlotsOf
<1>9. /\ k \in DOMAIN due /\ k \in Nat /\ k <= session /\ new \in Span
      /\ \A s \in SlotsOf(new) : Settled(s)'
  BY <1>1, <1>7, <1>8 DEF RecordsAreSound, DueIsFinished
<1>10. ASSUME NEW r \in recorded
       PROVE  r \in Protocols \X Nat /\ r[2] = k /\ Upserted(r, new) = new
  <2>1. r \in Protocols \X Nat /\ r[2] = k
    BY <1>9
  <2>2. r \in DOMAIN rows => rows[r] \in Span /\ Within(rows[r], new)
    BY <1>1, <1>9, <2>1 DEF RecordsAreSound, RowsAreSettled, SpansAreNested
  <2> HIDE DEF new
  <2> QED
    BY <1>9, <2>1, <2>2, UpsertIsSpan
<1> HIDE DEF recorded, new
<1>11. /\ DOMAIN rows' = DOMAIN rows \cup recorded
       /\ \A r \in recorded : rows'[r] = new /\ r[2] = k /\ r \in Protocols \X Nat
       /\ \A r \in DOMAIN rows' : r \notin recorded => r \in DOMAIN rows /\ rows'[r] = rows[r]
  BY <1>3, <1>10
<1>12. RangesAreComplete'
  BY <1>1, <1>3, <1>5, <1>8 DEF RecordsAreSound, RangesAreComplete
<1>13. DueIsFinished'
  BY <1>1, <1>3, <1>5, <1>7, <1>8 DEF RecordsAreSound, DueIsFinished
<1>14. RowsAreSettled'
  <2>1. ASSUME NEW r \in DOMAIN rows'
        PROVE  /\ r \in Protocols \X Nat /\ r[2] <= session'
               /\ rows'[r] \in Span
               /\ \A s \in SlotsOf(rows'[r]) : Settled(s)'
    <3>1. CASE r \in recorded
      BY <1>5, <1>9, <1>11, <3>1
    <3>2. CASE r \notin recorded
      BY <1>1, <1>5, <1>7, <1>8, <1>11, <3>2 DEF RecordsAreSound, RowsAreSettled
    <3> QED
      BY <3>1, <3>2
  <2> QED
    BY <2>1 DEF RowsAreSettled
<1>15. SpansAreNested'
  <2>1. new = due[k].span /\ Within(new, new)
    BY <1>9 DEF new, Within, Span
  <2>2. k \in DOMAIN ranges => Within(new, ranges[k].span)
    BY <1>1, <1>9, <2>1 DEF RecordsAreSound, SpansAreNested
  <2>3. ASSUME NEW r \in DOMAIN rows'
        PROVE  /\ r[2] \in DOMAIN due => Within(rows'[r], due[r[2]].span)
               /\ r[2] \in DOMAIN ranges => Within(rows'[r], ranges[r[2]].span)
    <3>1. CASE r \in recorded
      BY <1>11, <2>1, <2>2, <3>1
    <3>2. CASE r \notin recorded
      BY <1>1, <1>11, <3>2 DEF RecordsAreSound, SpansAreNested
    <3> QED
      BY <3>1, <3>2
  <2>4. \A j \in DOMAIN due \cap DOMAIN ranges : Within(due[j].span, ranges[j].span)
    BY <1>1 DEF RecordsAreSound, SpansAreNested
  <2> QED
    BY <1>3, <2>3, <2>4 DEF SpansAreNested
<1>16. OpenIsRemembered'
  <2>1. ASSUME open, NEW r \in DOMAIN rows', r[2] = session PROVE session \in DOMAIN ranges
    <3>1. CASE r \in recorded
      BY <1>1, <1>9, <1>11, <2>1, <3>1 DEF RecordsAreSound, OpenIsRemembered
    <3>2. CASE r \notin recorded
      BY <1>1, <1>11, <2>1, <3>2 DEF RecordsAreSound, OpenIsRemembered
    <3> QED
      BY <3>1, <3>2
  <2> QED
    BY <1>1, <1>3, <1>5, <2>1 DEF RecordsAreSound, OpenIsRemembered
<1> QED
  BY <1>5, <1>12, <1>13, <1>14, <1>15, <1>16 DEF IngestionInv, RecordsAreSound

\* The recorder reads what the sessions left: it is whole, and what of it is not
\* finished with is underway.
LEMMA ReadKeeps ==
    ASSUME IngestionInv, RecorderReads
    PROVE  IngestionInv'
<1>1. RecordsAreSound /\ HandedOnIsTracked
  BY DEF IngestionInv
<1>2. /\ alive /\ recorder \in {"writing", "stopping"} /\ unwritten = {}
      /\ ranges' = Without(ranges, Finished)
      /\ \/ recorder' = "done" /\ due' = due
         \/ recorder' = "idle" /\ due' = ranges'
      /\ UNCHANGED <<unwritten, rows>>
      /\ onTheirWay' = Underway /\ UNCHANGED othersInRecorder
  BY DEF RecorderReads, CloseWrite
<1>3. /\ OneEntryOfEach' /\ StreamIsOrdered' /\ HandedOnIsTracked' /\ SessionIsWhole'
      /\ \A s \in Slots : Complete(s) => Complete(s)'
      /\ UNCHANGED <<session, open, span, released, atStop, alive, Done>>
  BY <1>2, RecorderLeavesOthers
<1>4. \A t : SlotsOf(t) \subseteq Slots
  BY DEF SlotsOf
<1>5. /\ DOMAIN ranges' = DOMAIN ranges \ Finished
      /\ \A k \in DOMAIN ranges' : k \in DOMAIN ranges /\ ranges'[k] = ranges[k]
  BY <1>2 DEF Without
<1>6. \A s \in Slots : Settled(s) => Settled(s)'
  BY <1>3 DEF Settled, FinishedBut
<1>7. RangesAreComplete'
  BY <1>1, <1>3, <1>4, <1>5 DEF RecordsAreSound, RangesAreComplete
<1>8. RowsAreSettled'
  BY <1>1, <1>2, <1>3, <1>4, <1>6 DEF RecordsAreSound, RowsAreSettled
<1>9. open => session \notin Finished
  BY <1>1 DEF RecordsAreSound, OpenIsRemembered, Finished
<1>10. CASE recorder' = "done" /\ due' = due
  <2>1. Excused = {} /\ Excused' = {}
    BY <1>2, <1>10 DEF Excused
  <2>2. \A s \in Slots : FinishedBut(s, Excused) => FinishedBut(s, Excused)'
    BY <1>3, <2>1 DEF FinishedBut
  <2>3. DueIsFinished'
    BY <1>1, <1>2, <1>3, <1>4, <1>10, <2>2 DEF RecordsAreSound, DueIsFinished
  <2>4. SpansAreNested' /\ OpenIsRemembered'
    BY <1>1, <1>2, <1>3, <1>5, <1>9, <1>10 DEF RecordsAreSound, SpansAreNested, OpenIsRemembered
  <2> QED
    BY <1>3, <1>7, <1>8, <2>3, <2>4 DEF IngestionInv, RecordsAreSound
<1>11. CASE recorder' = "idle" /\ due' = ranges'
  <2>1. Excused' = Underway
    BY <1>2, <1>11 DEF Excused
  <2>2. released \subseteq Done \cup Underway \cup atStop
    BY <1>1, <1>2 DEF HandedOnIsTracked
  <2>3. \A s \in Slots : Complete(s) => FinishedBut(s, Excused)'
    BY <1>3, <2>1, <2>2 DEF FinishedBut
  <2>4. DueIsFinished'
    BY <1>1, <1>2, <1>3, <1>4, <1>5, <1>11, <2>3 DEF RecordsAreSound, RangesAreComplete, DueIsFinished
  <2>5. SpansAreNested'
    <3>1. \A k \in DOMAIN ranges : Within(ranges[k].span, ranges[k].span)
      BY <1>1 DEF RecordsAreSound, RangesAreComplete, Span, Within
    <3> QED
      BY <1>1, <1>2, <1>5, <1>11, <3>1 DEF RecordsAreSound, SpansAreNested
  <2>6. OpenIsRemembered'
    BY <1>1, <1>2, <1>3, <1>5, <1>9, <1>11 DEF RecordsAreSound, OpenIsRemembered
  <2> QED
    BY <1>3, <1>7, <1>8, <2>4, <2>5, <2>6 DEF IngestionInv, RecordsAreSound
<1> QED
  BY <1>2, <1>10, <1>11

\* A kill takes what is in memory; what the rows say was finished before.
LEMMA KillKeeps ==
    ASSUME IngestionInv, Kill
    PROVE  IngestionInv'
<1>1. OneEntryOfEach /\ StreamIsOrdered /\ HandedOnIsTracked /\ SessionIsWhole /\ RecordsAreSound
  BY DEF IngestionInv
<1>2. /\ ~alive' /\ ~open' /\ batch' = <<>> /\ waiting' = {} /\ highestMeta' = None
      /\ countedFrom' = None /\ notYet' = {} /\ span' = None
      /\ queue' = <<>> /\ hand' = NoTx /\ inFlight' = {}
      /\ ranges' = <<>> /\ due' = <<>> /\ unwritten' = {} /\ recorder' = "done"
      /\ UNCHANGED <<arrived, released, dropped, session, skipped, persisted, failed, rows,
                     shutdown, attemptsOver>>
      /\ UNCHANGED <<sentTxs, sentMetas, atStop>>
  BY DEF Kill, streamVars, ghostVars
<1>3. /\ OneEntryOfEach' /\ StreamIsOrdered'
      /\ \A s \in Slots : Complete(s) => Complete(s)'
  BY <1>1, <1>2, CutLeavesWhole
<1>4. HandedOnIsTracked'
  <2>1. PICK none \in Seq(Resolved) : none = <<>>
    BY EmptySeq
  <2>2. Underway' = {}
    BY <1>2, ElementsOfNone DEF Underway
  <2>3. RecorderStopped' = RecorderStopped
    BY <1>2 DEF RecorderStopped
  <2>4. batch' \in Seq(Resolved) /\ queue' \in Seq(Resolved)
    BY <1>2, <2>1
  <2> QED
    BY <1>1, <1>2, <2>2, <2>3, <2>4 DEF HandedOnIsTracked
<1>5. SessionIsWhole'
  BY <1>1, <1>2 DEF SessionIsWhole
<1>6. DOMAIN ranges' = {} /\ DOMAIN due' = {}
  BY <1>2
<1>7. RowsAreSettled'
  <2>1. Done' = Done
    BY <1>2 DEF Done
  <2>2. \A s \in Slots : Settled(s) => Settled(s)'
    BY <1>2, <1>3, <2>1 DEF Settled, FinishedBut
  <2>3. \A t : SlotsOf(t) \subseteq Slots
    BY DEF SlotsOf
  <2> QED
    BY <1>1, <1>2, <2>2, <2>3 DEF RecordsAreSound, RowsAreSettled
<1>8. RangesAreComplete' /\ DueIsFinished' /\ SpansAreNested'
  BY <1>2, <1>6 DEF RangesAreComplete, DueIsFinished, SpansAreNested
<1>9. OpenIsRemembered'
  BY <1>2 DEF OpenIsRemembered
<1> QED
  BY <1>3, <1>4, <1>5, <1>7, <1>8, <1>9 DEF IngestionInv, RecordsAreSound

-----------------------------------------------------------------------------
(***************************************************************************)
(* The theorems.                                                           *)
(***************************************************************************)

LEMMA IngestionStarts == Init => IngestionInv
<1> SUFFICES ASSUME Init PROVE IngestionInv
  OBVIOUS
<1>1. /\ waiting = {} /\ arrived = 0 /\ released = {} /\ dropped = {} /\ skipped = {}
      /\ session = 0 /\ ~open /\ batch = <<>> /\ highestMeta = None /\ countedFrom = None
      /\ notYet = {} /\ span = None
      /\ ranges = <<>> /\ due = <<>> /\ unwritten = {} /\ rows = <<>>
      /\ queue = <<>> /\ hand = NoTx /\ inFlight = {} /\ worker = "running"
      /\ persisted = {} /\ failed = {} /\ atStop = {}
      /\ sentTxs = [s \in Slots |-> 0] /\ sentMetas = {} /\ ~shutdown /\ ~attemptsOver
  BY DEF Init, SessionInit, BufferInit, RecorderInit, WorkerInit
<1>2. Payloads = {}
  BY <1>1 DEF Payloads
<1>3. OneEntryOfEach
  <2>1. OneEntryEach({}, {}, {}, {})
    BY DEF OneEntryEach
  <2>2. released \cup skipped = {}
    BY <1>1
  <2> QED
    BY <1>1, <1>2, <2>1, <2>2 DEF OneEntryOfEach
<1>4. StreamIsOrdered
  <2>1. \A s \in Slots : OfSlot(Payloads, s) = {}
    BY <1>2 DEF OfSlot
  <2>2. \A s \in Slots : IsFiniteSet(OfSlot(Payloads, s)) /\ Cardinality(OfSlot(Payloads, s)) = 0
    BY <2>1, FS_EmptySet
  <2>3. sentTxs \in [Slots -> Nat] /\ \A s \in Slots : sentTxs[s] = 0
    BY <1>1
  <2> QED
    BY <1>1, <2>2, <2>3 DEF StreamIsOrdered
<1>5. HandedOnIsTracked
  <2>1. PICK none \in Seq(Resolved) : none = <<>>
    BY EmptySeq
  <2>2. batch \in Seq(Resolved) /\ queue \in Seq(Resolved)
    BY <1>1, <2>1
  <2>3. Underway = {}
    BY <1>1, ElementsOfNone DEF Underway
  <2> QED
    BY <1>1, <2>2, <2>3 DEF HandedOnIsTracked
<1>6. SessionIsWhole
  BY <1>1 DEF SessionIsWhole
<1>7. DOMAIN ranges = {} /\ DOMAIN due = {} /\ DOMAIN rows = {}
  BY <1>1
<1>8. RecordsAreSound
  BY <1>1, <1>7 DEF RecordsAreSound, RangesAreComplete, DueIsFinished, RowsAreSettled,
                    SpansAreNested, OpenIsRemembered
<1> QED
  BY <1>3, <1>4, <1>5, <1>6, <1>8 DEF IngestionInv

LEMMA IngestionSteps == IngestionInv /\ [Next]_vars => IngestionInv'
<1> SUFFICES ASSUME IngestionInv, [Next]_vars PROVE IngestionInv'
  OBVIOUS
<1>1. CASE UNCHANGED vars
  <2>1. UNCHANGED othersInRecorder /\ UNCHANGED recorderVars /\ UNCHANGED onTheirWay
    BY <1>1 DEF vars, othersInRecorder, ghostVars
  <2>2. UNCHANGED <<ranges, due, rows, unwritten, recorder>>
    BY <2>1 DEF recorderVars
  <2>3. /\ UNCHANGED <<waiting, released, dropped, arrived, sentTxs, sentMetas>>
        /\ UNCHANGED <<session, open, highestMeta, countedFrom, notYet, span, batch, skipped>>
        /\ UNCHANGED <<persisted, failed, atStop>>
    BY <2>1 DEF othersInRecorder, bufferVars, sessionVars, streamVars, workerVars
  <2>4. PayloadsAtRest /\ Done \subseteq Done' /\ atStop \subseteq atStop'
    BY <2>3 DEF PayloadsAtRest, Done
  <2>5. HandedOnIsTracked'
    BY <2>1, RecorderLeavesOthers
  <2>6. open \/ batch' = <<>>
    BY <2>3 DEF IngestionInv, SessionIsWhole
  <2> QED
    BY <2>1, <2>2, <2>3, <2>4, <2>5, <2>6, QuietKeeps
<1>2. ASSUME NEW slot \in Slots,
             \/ ReadTransaction(slot) \/ ReadBlockMeta(slot) \/ ReadEmptyBlockMeta(slot)
             \/ ReadFinalized(slot) \/ Missed(slot)
      PROVE  IngestionInv'
  BY <1>2, ReadTransactionKeeps, ReadBlockMetaKeeps, ReadEmptyBlockMetaKeeps,
     ReadFinalizedKeeps, MissedKeeps
<1>3. CASE Next
  BY <1>2, <1>3, DeliverKeeps, ParkKeeps, BeginSessionKeeps, ServerCutsKeeps, SessionStopsKeeps,
     StopKeeps, OpenWriteKeeps, RecordKeeps, ReadKeeps, WorkerKeeps, IndexKeeps, KillKeeps
     DEF Next
<1> QED
  BY <1>1, <1>3

\* What a recorded slot carried is accounted for, transaction by transaction.
LEMMA IngestionIsWhole == IngestionInv => RecordedSlotsAreWhole
<1> SUFFICES ASSUME IngestionInv, NEW p \in Protocols, NEW slot \in Observed(p) \cap Slots
             PROVE  InSlot(persisted \cup failed \cup skipped \cup atStop, slot)
                      + InSlot(dropped, slot) = TxCount[slot]
  BY DEF RecordedSlotsAreWhole
<1>1. OneEntryOfEach /\ StreamIsOrdered /\ HandedOnIsTracked /\ RecordsAreSound
  BY DEF IngestionInv
<1>2. PICK r \in DOMAIN rows : slot \in SlotsOf(rows[r])
  BY DEF Observed, SlotsOf
<1>3. Settled(slot)
  BY <1>1, <1>2 DEF RecordsAreSound, RowsAreSettled
<1>4. /\ Cardinality(OfSlot(Payloads, slot)) = TxCount[slot]
      /\ \A h \in waiting : h.slot # slot
      /\ \A x \in released : x.slot = slot => x \in Done \cup atStop
  BY <1>3 DEF Settled, FinishedBut, Complete
<1>5. {x \in persisted \cup failed \cup skipped \cup atStop : x.slot = slot}
        = {x \in released \cup skipped : x.slot = slot}
  BY <1>1, <1>4 DEF HandedOnIsTracked, Done
<1>6. Cardinality({x \in released \cup skipped : x.slot = slot})
        + Cardinality({x \in dropped : x.slot = slot}) = Cardinality(OfSlot(Payloads, slot))
  <2> DEFINE N == Payloads
             back == released \cup skipped
  <2>1. OneEntryEach(N, waiting, back, dropped) /\ IsFiniteSet(OfSlot(N, slot))
    BY <1>1 DEF OneEntryOfEach, StreamIsOrdered
  <2>2. Cardinality({x \in back : x.slot = slot})
          + Cardinality({x \in dropped : x.slot = slot}) = Cardinality(OfSlot(N, slot))
    <3> HIDE DEF N, back
    <3> QED
      BY <1>4, <2>1, SlotIsCounted
  <2> QED
    BY <2>2
<1> QED
  BY <1>4, <1>5, <1>6 DEF InSlot

\* The inductive invariant: what is sent, received, held, handed on, received
\* for good, published, due and recorded fit together in every reachable state.
THEOREM IngestionInvariance == Spec => []IngestionInv
  BY IngestionStarts, IngestionSteps, PTL DEF Spec

\* A slot observed_slot_ranges says was watched misses no transaction: each was
\* persisted, counted as lost on its own, or was on its way when the recorder
\* was stopped; whatever cuts, reconnections, refused rows, stops and kills came
\* between, for every stream no later than HELD_BACK_SLOTS holds back.
THEOREM RecordedIsWhole == Spec => []RecordedSlotsAreWhole
  BY IngestionInvariance, IngestionIsWhole, PTL
=============================================================================
