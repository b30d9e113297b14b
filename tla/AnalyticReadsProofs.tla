------------------------ MODULE AnalyticReadsProofs ------------------------
(***************************************************************************)
(* Proofs about AnalyticReads, for every set of writers, pools and         *)
(* transactions and every length of the hour, the day, the margin and the  *)
(* gap between runs: that a cycle is never idle while an hour is due, and  *)
(* that what is frozen is whole and stays right.                           *)
(*                                                                         *)
(* The times come first: TimesInv gives the first hour, the last one       *)
(* frozen and the last tranche of the tables, and bounds what a plan that  *)
(* waits for the lock may have missed.  FactsInv adds what the tables      *)
(* hold; Effect and IsWritten are what a cycle may write and what its      *)
(* statements leave.                                                       *)
(***************************************************************************)
EXTENDS AnalyticReads, FiniteSetTheorems, WellFoundedInduction, TLAPS

-----------------------------------------------------------------------------
(***************************************************************************)
(* Hours, and the ends of sets.                                            *)
(***************************************************************************)

IsHour(h) == h \in Int /\ h % Hour = 0

\* An hour is a multiple of its length.
LEMMA HoursAreMultiples ==
    ASSUME NEW h \in Int
    PROVE  IsHour(h) <=> \E k \in Int : h = k * Hour
<1>1. Hour \in Nat /\ Hour > 0
  BY TimesAssumption
<1>2. h = Hour * (h \div Hour) + (h % Hour) /\ h \div Hour \in Int
  BY <1>1
<1>3. ASSUME IsHour(h) PROVE h = (h \div Hour) * Hour
  BY <1>1, <1>2, <1>3 DEF IsHour
<1>4. ASSUME NEW k \in Int, h = k * Hour PROVE h % Hour = 0
  <2>1. h % Hour \in 0 .. Hour - 1
    BY <1>1
  <2>2. (k - (h \div Hour)) * Hour = h % Hour /\ k - (h \div Hour) \in Int
    BY <1>1, <1>2, <1>4
  <2>3. \A j \in Int : j >= 1 => j * Hour >= Hour
    BY <1>1
  <2>4. \A j \in Int : j <= -1 => j * Hour <= -Hour
    BY <1>1
  <2>5. k - (h \div Hour) = 0
    BY <1>1, <2>1, <2>2, <2>3, <2>4
  <2> QED
    BY <1>1, <2>2, <2>5
<1> QED
  BY <1>2, <1>3, <1>4 DEF IsHour

\* The next and the previous hour, and those further on.
LEMMA HoursApart ==
    ASSUME NEW h, IsHour(h)
    PROVE  /\ IsHour(h + Hour) /\ IsHour(h - Hour)
           /\ \A n \in Int : IsHour(h + n * Hour)
           /\ \A g : IsHour(g) /\ h < g => h + Hour <= g
<1>1. Hour \in Nat /\ Hour > 0 /\ h \in Int
  BY TimesAssumption DEF IsHour
<1>2. PICK k \in Int : h = k * Hour
  BY <1>1, HoursAreMultiples
<1>3. ASSUME NEW n \in Int PROVE IsHour(h + n * Hour)
  <2>1. h + n * Hour = (k + n) * Hour /\ k + n \in Int /\ h + n * Hour \in Int
    BY <1>1, <1>2
  <2> QED
    BY <2>1, HoursAreMultiples
<1>4. h + 1 * Hour = h + Hour /\ h + (-1) * Hour = h - Hour
  BY <1>1
<1>5. IsHour(h + Hour) /\ IsHour(h - Hour)
  <2>1. IsHour(h + 1 * Hour)
    BY <1>3
  <2>2. IsHour(h + (-1) * Hour)
    BY <1>3
  <2> QED
    BY <1>4, <2>1, <2>2
<1>6. ASSUME NEW g, IsHour(g), h < g PROVE h + Hour <= g
  <2>1. g \in Int
    BY <1>6 DEF IsHour
  <2>2. PICK j \in Int : g = j * Hour
    BY <1>6, <2>1, HoursAreMultiples
  <2>3. g - h = (j - k) * Hour /\ j - k \in Int
    BY <1>1, <1>2, <2>2
  <2>4. \A i \in Int : i >= 1 => i * Hour >= Hour
    BY <1>1
  <2>5. \A i \in Int : i <= 0 => i * Hour <= 0
    BY <1>1
  <2>6. j - k >= 1
    BY <1>1, <1>6, <2>1, <2>3, <2>5
  <2>7. (j - k) * Hour >= Hour
    BY <2>3, <2>4, <2>6
  <2> QED
    BY <1>1, <2>1, <2>3, <2>7
<1> QED
  BY <1>3, <1>5, <1>6

\* The hour of an instant.
LEMMA HourOf ==
    ASSUME NEW t \in Int
    PROVE  /\ IsHour(hour_of(t)) /\ hour_of(t) <= t /\ t < hour_of(t) + Hour
           /\ \A h : IsHour(h) /\ h <= t => h <= hour_of(t)
<1>1. Hour \in Nat /\ Hour > 0
  BY TimesAssumption
<1>2. /\ t \div Hour \in Int /\ t % Hour \in 0 .. Hour - 1
      /\ t = Hour * (t \div Hour) + (t % Hour)
  BY <1>1
<1>3. hour_of(t) \in Int /\ hour_of(t) = (t \div Hour) * Hour
  BY <1>1, <1>2 DEF hour_of
<1>4. IsHour(hour_of(t))
  BY <1>2, <1>3, HoursAreMultiples
<1>5. hour_of(t) <= t /\ t < hour_of(t) + Hour
  BY <1>1, <1>2, <1>3
<1>6. ASSUME NEW h, IsHour(h), h <= t PROVE h <= hour_of(t)
  <2>1. h \in Int
    BY <1>6 DEF IsHour
  <2>2. hour_of(t) < h => hour_of(t) + Hour <= h
    BY <1>4, <1>6, HoursApart
  <2> QED
    BY <1>1, <1>3, <1>5, <1>6, <2>1, <2>2
<1> QED
  BY <1>4, <1>5, <1>6

\* The greatest and the least, where there is one; a NULL is passed over.
LEMMA Ends ==
    ASSUME NEW S, NEW m \in S, m \in Int
    PROVE  /\ (\A y \in S : y \in Int /\ m <= y) => Min(S) = m
           /\ (\A y \in S : y \in Int /\ y <= m) => Max(S) = m
           /\ (\A y \in S : y = None \/ (y \in Int /\ y <= m)) => Greatest(S) = m
           /\ (\A y \in S : y = None \/ (y \in Int /\ m <= y)) => Least(S) = m
<1>0. m # None
  BY NoneAssumption
<1>1. ASSUME NEW T, m \in T, \A y \in T : y \in Int /\ m <= y PROVE Min(T) = m
  <2>1. \A y \in T : m =< y
    BY <1>1
  <2>2. \A x \in T : (\A y \in T : x =< y) => x = m
    BY <1>1, <2>1
  <2> QED
    BY <1>1, <2>1, <2>2, Zenon DEF Min
<1>2. ASSUME NEW T, m \in T, \A y \in T : y \in Int /\ y <= m PROVE Max(T) = m
  <2>1. \A y \in T : m >= y
    BY <1>2
  <2>2. \A x \in T : (\A y \in T : x >= y) => x = m
    BY <1>2, <2>1
  <2> QED
    BY <1>2, <2>1, <2>2, Zenon DEF Max
<1>3. m \in S \ {None} /\ S \ {None} # {}
  BY <1>0
<1>4. ASSUME \A y \in S : y = None \/ (y \in Int /\ y <= m) PROVE Greatest(S) = m
  <2>1. Max(S \ {None}) = m
    BY <1>2, <1>3, <1>4
  <2> QED
    BY <1>3, <2>1 DEF Greatest, MaxOr
<1>5. ASSUME \A y \in S : y = None \/ (y \in Int /\ m <= y) PROVE Least(S) = m
  <2>1. Min(S \ {None}) = m
    BY <1>1, <1>3, <1>5
  <2> QED
    BY <1>3, <2>1 DEF Least, MinOr
<1> QED
  BY <1>1, <1>2, <1>4, <1>5

\* Some instants within bounds have a first and a last one.
LEMMA InstantsHaveEnds ==
    ASSUME NEW a \in Int, NEW b \in Int, NEW S \in SUBSET (a .. b), S # {}
    PROVE  /\ \E m \in S : \A y \in S : m <= y
           /\ \E m \in S : \A y \in S : y <= m
<1> DEFINE up == {y - a : y \in S}
           down == {b - y : y \in S}
           R == OpToRel(<, Nat)
<1>1. up \subseteq Nat /\ up # {} /\ down \subseteq Nat /\ down # {}
  OBVIOUS
<1>2. IsWellFoundedOn(R, Nat)
  BY NatLessThanWellFounded
<1>3. \A T \in SUBSET Nat : T # {} => \E x \in T : \A y \in T : ~(<<y, x>> \in R)
  <2> HIDE DEF R
  <2> QED
    BY <1>2, WFMin
<1>4. \A x, y \in Nat : ~(<<y, x>> \in R) => x <= y
  BY DEF OpToRel
<1> HIDE DEF R
<1>5. PICK x \in up : \A y \in up : x <= y
  <2> HIDE DEF up
  <2> QED
    BY <1>1, <1>3, <1>4
<1>6. PICK z \in down : \A y \in down : z <= y
  <2> HIDE DEF down
  <2> QED
    BY <1>1, <1>3, <1>4
<1>7. PICK m \in S : x = m - a
  OBVIOUS
<1>8. PICK n \in S : z = b - n
  OBVIOUS
<1>9. \A y \in S : x <= y - a /\ z <= b - y
  BY <1>5, <1>6
<1> HIDE DEF up, down
<1> QED
  BY <1>7, <1>8, <1>9

-----------------------------------------------------------------------------
(***************************************************************************)
(* The cycles.                                                             *)
(***************************************************************************)

Cycles ==
    [tranches_from : Int, tranches_through : Int, from : Int, through : Int,
     freeze_through : Int \cup {None}, tvl_hour : Int \cup {None}, at : Int]

Known(p) ==
    /\ p.last_frozen \in Int \cup {None} /\ p.last_tranche \in Int \cup {None}
    /\ p.first_hour \in Int \cup {None}

\* What a cycle is once the progress p is taken out of it.
Later(x, y) == IF y = None THEN x ELSE IF y <= x THEN x ELSE y
LockedFrom(c, p) == Later(c.from, After(p.last_frozen, Hour))
LockedTranches(c, p) == Later(Later(c.tranches_from, After(p.last_tranche, 1)), LockedFrom(c, p))
LastWritten(c, p) ==
    IF c.tranches_through >= LockedTranches(c, p)
    THEN Later(c.tranches_through, p.last_tranche) ELSE p.last_tranche

\* The later of an instant and one that may not be known.
LEMMA LaterIs ==
    ASSUME NEW x \in Int, NEW y \in Int \cup {None}
    PROVE  /\ Later(x, y) \in Int /\ x <= Later(x, y) /\ (y # None => y <= Later(x, y))
           /\ Later(x, y) \in {x, y}
  BY DEF Later

\* Greatest on one and two of which one may not be known.
LEMMA GreatestIsLater ==
    ASSUME NEW x \in Int, NEW y \in Int \cup {None}
    PROVE  /\ Greatest({y}) = y
           /\ Greatest({x, y}) = Later(x, y)
<1>1. /\ Later(x, y) \in Int /\ x <= Later(x, y) /\ (y # None => y <= Later(x, y))
      /\ Later(x, y) \in {x, y}
  BY LaterIs
<1>2. Greatest({x, y}) = Later(x, y)
  <2>1. \A u \in {x, y} : u = None \/ (u \in Int /\ u <= Later(x, y))
    BY <1>1
  <2> QED
    BY <1>1, <2>1, Ends
<1>3. CASE y = None
  <2>1. Greatest({y}) = y
    BY <1>3 DEF Greatest, MaxOr
  <2> QED
    BY <1>2, <2>1
<1>4. CASE y \in Int
  <2>1. \A u \in {y} : u = None \/ (u \in Int /\ u <= y)
    BY <1>4
  <2>2. Greatest({y}) = y
    BY <1>4, <2>1, Ends
  <2> QED
    BY <1>2, <2>2
<1> QED
  BY <1>3, <1>4

\* The least of three.
LEMMA LeastOfThree ==
    ASSUME NEW x \in Int, NEW y \in Int, NEW z \in Int
    PROVE  /\ Min({x, y, z}) \in {x, y, z}
           /\ Min({x, y, z}) <= x /\ Min({x, y, z}) <= y /\ Min({x, y, z}) <= z
<1>1. PICK m \in {x, y, z} : m <= x /\ m <= y /\ m <= z
  OBVIOUS
<1>2. Min({x, y, z}) = m
  BY <1>1, Ends
<1> QED
  BY <1>1, <1>2

\* Greatest on three.
LEMMA GreatestOfThree ==
    \A x \in Int, y \in Int \cup {None}, z \in Int : Greatest({x, y, z}) = Later(Later(x, y), z)
<1> TAKE x \in Int, y \in Int \cup {None}, z \in Int
<1>1. PICK u : u = Later(x, y)
  OBVIOUS
<1>2. PICK m : m = Later(u, z)
  OBVIOUS
<1>3. u \in Int /\ x <= u /\ (y # None => y <= u) /\ u \in {x, y}
  BY <1>1, LaterIs
<1>4. m \in Int /\ u <= m /\ z <= m /\ m \in {u, z}
  <2>1. z # None
    BY NoneAssumption
  <2> QED
    BY <1>2, <1>3, <2>1 DEF Later
<1>5. \A k \in {x, y, z} : k = None \/ (k \in Int /\ k <= m)
  BY <1>3, <1>4
<1>6. m \in {x, y, z} /\ m \in Int
  BY <1>3, <1>4
<1>7. Greatest({x, y, z}) = m
  BY <1>5, <1>6, Ends
<1> QED
  BY <1>1, <1>2, <1>7

\* Part of a cycle: its fields after the progress is taken out.
LEMMA LockedIs ==
    ASSUME NEW c \in Cycles, NEW p, Known(p)
    PROVE  LET w == without_written(c, p)
               from == LockedFrom(c, p)
               written == LastWritten(c, p)
           IN  /\ w \in Cycles
               /\ w.at = c.at /\ w.through = c.through /\ w.tranches_through = c.tranches_through
               /\ from \in Int /\ w.from = from
               /\ LockedTranches(c, p) \in Int /\ w.tranches_from = LockedTranches(c, p)
               /\ written \in Int \cup {None}
               /\ w.freeze_through # None =>
                     /\ c.freeze_through # None /\ written # None
                     /\ w.freeze_through \in
                           {c.freeze_through, c.through, hour_of(written + 1) - Hour}
                     /\ from <= w.freeze_through
                     /\ w.freeze_through <= c.freeze_through /\ w.freeze_through <= c.through
                     /\ w.freeze_through <= hour_of(written + 1) - Hour
               /\ w.freeze_through = None =>
                     \/ c.freeze_through = None
                     \/ written = None
                     \/ c.freeze_through < from
                     \/ c.through < from
                     \/ hour_of(written + 1) - Hour < from
<1> DEFINE w == without_written(c, p)
           from == LockedFrom(c, p)
           tf == LockedTranches(c, p)
           written == LastWritten(c, p)
           least == Min({c.freeze_through, c.through, hour_of(written + 1) - Hour})
           fz == IF c.freeze_through = None \/ written = None THEN None ELSE least
           fz1 == IF fz # None /\ fz >= from THEN fz ELSE None
           tvl == IF c.tvl_hour # None /\ p.last_frozen # None /\ c.tvl_hour <= p.last_frozen
                  THEN None ELSE c.tvl_hour
<1>0. Hour \in Nat /\ Hour > 0
  BY TimesAssumption
<1>1. /\ c.tranches_from \in Int /\ c.tranches_through \in Int /\ c.from \in Int /\ c.through \in Int
      /\ c.freeze_through \in Int \cup {None} /\ c.tvl_hour \in Int \cup {None} /\ c.at \in Int
  BY DEF Cycles
<1>2. /\ After(p.last_frozen, Hour) \in Int \cup {None} /\ After(p.last_tranche, 1) \in Int \cup {None}
      /\ p.last_tranche \in Int \cup {None}
  BY <1>0 DEF After, Known
<1>3. from \in Int /\ from = Greatest({c.from, After(p.last_frozen, Hour)})
  <2>1. Greatest({c.from, After(p.last_frozen, Hour)}) = Later(c.from, After(p.last_frozen, Hour))
    BY <1>1, <1>2, GreatestIsLater, Zenon
  <2>2. Later(c.from, After(p.last_frozen, Hour)) \in Int
    BY <1>1, <1>2, LaterIs
  <2> QED
    BY <2>1, <2>2 DEF LockedFrom
<1> HIDE DEF from
<1>4. tf \in Int /\ tf = Greatest({c.tranches_from, After(p.last_tranche, 1), from})
  <2>1. /\ Later(c.tranches_from, After(p.last_tranche, 1)) \in Int
        /\ Greatest({c.tranches_from, After(p.last_tranche, 1), from})
              = Later(Later(c.tranches_from, After(p.last_tranche, 1)), from)
    <3>1. Later(c.tranches_from, After(p.last_tranche, 1)) \in Int
      BY <1>1, <1>2, LaterIs
    <3>2. PICK x \in Int, y \in Int \cup {None} : x = c.tranches_from /\ y = After(p.last_tranche, 1)
      BY <1>1, <1>2
    <3>3. PICK z \in Int : z = from
      BY <1>3
    <3>4. Greatest({x, y, z}) = Later(Later(x, y), z)
      BY GreatestOfThree
    <3> QED
      BY <3>1, <3>2, <3>3, <3>4
  <2>2. tf = Later(Later(c.tranches_from, After(p.last_tranche, 1)), from)
    BY DEF LockedTranches, from
  <2> QED
    BY <1>3, <2>1, <2>2, LaterIs
<1> HIDE DEF tf
<1>5. /\ written \in Int \cup {None}
      /\ written = Greatest({p.last_tranche} \union IF c.tranches_through >= tf
                                                    THEN {c.tranches_through} ELSE {})
  <2>0. written = IF c.tranches_through >= tf THEN Later(c.tranches_through, p.last_tranche)
                  ELSE p.last_tranche
    BY DEF LastWritten, tf
  <2> HIDE DEF written
  <2>1. CASE c.tranches_through >= tf
    <3>1. {p.last_tranche} \union (IF c.tranches_through >= tf THEN {c.tranches_through} ELSE {})
            = {c.tranches_through, p.last_tranche}
      BY <2>1
    <3>2. Greatest({c.tranches_through, p.last_tranche}) = Later(c.tranches_through, p.last_tranche)
      BY <1>1, <1>2, GreatestIsLater, Zenon
    <3>3. Later(c.tranches_through, p.last_tranche) \in Int
      BY <1>1, <1>2, LaterIs
    <3> QED
      BY <2>0, <2>1, <3>1, <3>2, <3>3, Zenon
  <2>2. CASE ~(c.tranches_through >= tf)
    <3>1. {p.last_tranche} \union (IF c.tranches_through >= tf THEN {c.tranches_through} ELSE {})
            = {p.last_tranche}
      BY <2>2
    <3>2. Greatest({p.last_tranche}) = p.last_tranche
      BY <1>1, <1>2, GreatestIsLater, Zenon
    <3> QED
      BY <1>2, <2>0, <2>2, <3>1, <3>2, Zenon
  <2> QED
    BY <2>1, <2>2
<1> HIDE DEF written
<1>6. w = [c EXCEPT !.tranches_from = tf, !.from = from, !.freeze_through = fz1, !.tvl_hour = tvl]
  BY <1>3, <1>4, <1>5 DEF without_written
<1>7. /\ w.at = c.at /\ w.through = c.through /\ w.tranches_through = c.tranches_through
      /\ w.from = from /\ w.tranches_from = tf /\ w.freeze_through = fz1 /\ w.tvl_hour = tvl
      /\ w = [f \in DOMAIN c |-> w[f]]
  <2> HIDE DEF w, fz1, tvl
  <2>1. DOMAIN c = {"tranches_from", "tranches_through", "from", "through", "freeze_through",
                    "tvl_hour", "at"}
    BY DEF Cycles
  <2> QED
    BY <1>6, <2>1
<1>8. ASSUME c.freeze_through # None, written # None
      PROVE  /\ least \in {c.freeze_through, c.through, hour_of(written + 1) - Hour} /\ least \in Int
             /\ least <= c.freeze_through /\ least <= c.through
             /\ least <= hour_of(written + 1) - Hour
  <2>1. c.freeze_through \in Int /\ written + 1 \in Int
    BY <1>1, <1>5, <1>8
  <2>2. hour_of(written + 1) - Hour \in Int
    BY <1>0, <2>1, HourOf DEF IsHour
  <2>3. PICK x \in Int, y \in Int, z \in Int :
          x = c.freeze_through /\ y = c.through /\ z = hour_of(written + 1) - Hour
    BY <1>1, <2>1, <2>2
  <2>4. PICK m : m = Min({x, y, z})
    OBVIOUS
  <2>5. m \in {x, y, z} /\ m <= x /\ m <= y /\ m <= z
    BY <2>4, LeastOfThree
  <2>6. least = m
    BY <2>3, <2>4
  <2> QED
    BY <2>3, <2>5, <2>6
<1> HIDE DEF least, w
<1>9. fz1 \in Int \cup {None} /\ tvl \in Int \cup {None}
  BY <1>1, <1>8
<1>10. w \in Cycles
  <2>1. DOMAIN c = {"tranches_from", "tranches_through", "from", "through", "freeze_through",
                    "tvl_hour", "at"}
    BY DEF Cycles
  <2>2. w = [tranches_from |-> tf, tranches_through |-> c.tranches_through, from |-> from,
             through |-> c.through, freeze_through |-> fz1, tvl_hour |-> tvl, at |-> c.at]
    <3> HIDE DEF fz1, tvl
    <3> QED
      BY <1>7, <2>1
  <2> HIDE DEF fz1, tvl
  <2> QED
    BY <1>1, <1>3, <1>4, <1>9, <2>2 DEF Cycles
<1>11. ASSUME fz1 # None
       PROVE  /\ c.freeze_through # None /\ written # None /\ fz1 = least /\ from <= fz1
  BY <1>3, <1>8, <1>11
<1>12. ASSUME fz1 = None
       PROVE  c.freeze_through = None \/ written = None \/ least < from
  <2>1. CASE c.freeze_through # None /\ written # None
    <3>1. fz = least /\ least # None
      BY <1>8, <2>1, NoneAssumption
    <3>2. ~(least >= from)
      BY <1>12, <3>1
    <3> QED
      BY <1>3, <1>8, <2>1, <3>2
  <2> QED
    BY <2>1
<1> HIDE DEF fz1, tvl
<1>13. ASSUME fz1 = None
       PROVE  \/ c.freeze_through = None
              \/ written = None
              \/ c.freeze_through < from
              \/ c.through < from
              \/ hour_of(written + 1) - Hour < from
  BY <1>8, <1>12, <1>13
<1>14. ASSUME fz1 # None
       PROVE  /\ c.freeze_through # None /\ written # None
              /\ fz1 \in {c.freeze_through, c.through, hour_of(written + 1) - Hour}
              /\ from <= fz1 /\ fz1 <= c.freeze_through /\ fz1 <= c.through
              /\ fz1 <= hour_of(written + 1) - Hour
  BY <1>8, <1>11, <1>14
<1> QED
  BY <1>3, <1>4, <1>5, <1>7, <1>10, <1>13, <1>14 DEF w, from, tf, written

\* The tables of this release: nothing yet, or the hours from f on, frozen
\* through lf, and the tranches from f to b.
NothingYet(d) == d.hours = {} /\ d.frozen = {} /\ DOMAIN d.tranches = {}
Shape(d, f, lf, b) ==
    /\ IsHour(f) /\ IsHour(lf) /\ b \in Int
    /\ f - Hour <= lf /\ lf + Hour - 1 <= b
    /\ f \in d.hours /\ \A h \in d.hours : IsHour(h) /\ f <= h
    /\ d.frozen = HoursBetween(f, lf)
    /\ DOMAIN d.tranches = f .. b

\* A plan is at most a tranche old.
Timely(c, n) ==
    /\ c \in Cycles /\ c.at \in {n - 1, n}
    /\ IsHour(c.from) /\ IsHour(c.through) /\ c.from <= c.through
    /\ c.through <= c.at /\ c.tranches_through <= c.at - 1
    /\ c.freeze_through # None =>
          IsHour(c.freeze_through) /\ c.from <= c.freeze_through /\ c.freeze_through <= c.at - Hour

\* One made on empty tables begins with its hour; on others it begins at most
\* where they end, unless it was made too early to write anything but hours.
FreshPlan(c) == c.from = hour_of(c.at) /\ c.tranches_from = c.from /\ c.freeze_through = None
OldPlan(c, n, f, lf, b) ==
    /\ c.from < f =>
          /\ b < f /\ f = n /\ c.from = f - Hour /\ c.at = n - 1
          /\ c.tranches_from <= c.from /\ c.freeze_through = None
    /\ c.from <= lf + Hour \/ (c.tranches_through < c.from /\ c.freeze_through = None)
    /\ c.tranches_from <= c.from \/ c.tranches_from <= b + 1

\* What a cycle writes into the tables d, which leaves them as f, lf and b say.
Effect(d, c, f, lf, b) ==
    /\ c \in Cycles /\ IsHour(c.from) /\ IsHour(c.through) /\ f <= c.from /\ c.through <= c.at
    /\ IsHour(f) /\ IsHour(lf) /\ b \in Int
    /\ f - Hour <= lf /\ lf + Hour - 1 <= b
    /\ DOMAIN d.tranches \cup CycleTranches(c) = f .. b
    /\ \A t \in DOMAIN d.tranches : t < c.tranches_from
    /\ CycleTranches(c) # {} => c.tranches_through = b
    /\ f \in d.hours \cup CycleHours(c) /\ \A h \in d.hours \cup CycleHours(c) : IsHour(h) /\ f <= h
    /\ d.frozen \cup Freezing(c) = HoursBetween(f, lf)
    /\ Freezing(c) \subseteq CycleHours(c) /\ \A h \in d.frozen : h < c.from
    /\ c.freeze_through # None => c.freeze_through = lf /\ lf \in Freezing(c)

\* The hours and the tranches the tables hold.
LEMMA ProgressIs ==
    ASSUME NEW d
    PROVE  /\ NothingYet(d) => Progress(d) = [first_hour |-> None, last_frozen |-> None,
                                         last_tranche |-> None]
           /\ \A f, lf, b : Shape(d, f, lf, b) =>
                 Progress(d) = [first_hour |-> f, last_frozen |-> IF lf < f THEN None ELSE lf,
                                last_tranche |-> IF b < f THEN None ELSE b]
<1>1. ASSUME NothingYet(d) PROVE Progress(d) = [first_hour |-> None, last_frozen |-> None,
                                           last_tranche |-> None]
  BY <1>1 DEF NothingYet, Progress, MinOr, MaxOr
<1>2. ASSUME NEW f, NEW lf, NEW b, Shape(d, f, lf, b)
      PROVE  Progress(d) = [first_hour |-> f, last_frozen |-> IF lf < f THEN None ELSE lf,
                            last_tranche |-> IF b < f THEN None ELSE b]
  <2>0. f \in Int /\ lf \in Int /\ b \in Int /\ lf % Hour = 0
    BY <1>2 DEF Shape, IsHour
  <2>1. MinOr(d.hours, None) = f
    <3>1. f \in d.hours /\ \A h \in d.hours : h \in Int /\ f <= h
      BY <1>2 DEF Shape, IsHour
    <3>2. Min(d.hours) = f
      BY <2>0, <3>1, Ends
    <3> QED
      BY <3>1, <3>2 DEF MinOr
  <2>2. MaxOr(d.frozen, None) = IF lf < f THEN None ELSE lf
    <3>1. d.frozen = {h \in f .. lf : h % Hour = 0}
      BY <1>2 DEF Shape, HoursBetween
    <3>2. CASE lf < f
      <4>1. d.frozen = {}
        BY <2>0, <3>1, <3>2
      <4> QED
        BY <3>2, <4>1 DEF MaxOr
    <3>3. CASE ~(lf < f)
      <4>1. lf \in d.frozen /\ \A h \in d.frozen : h \in Int /\ h <= lf
        BY <2>0, <3>1, <3>3
      <4>2. Max(d.frozen) = lf
        BY <2>0, <4>1, Ends
      <4> QED
        BY <3>3, <4>1, <4>2 DEF MaxOr
    <3> QED
      BY <3>2, <3>3
  <2>3. MaxOr(DOMAIN d.tranches, None) = IF b < f THEN None ELSE b
    <3>1. DOMAIN d.tranches = f .. b
      BY <1>2 DEF Shape
    <3>2. CASE b < f
      BY <2>0, <3>1, <3>2 DEF MaxOr
    <3>3. CASE ~(b < f)
      <4>1. b \in f .. b /\ \A t \in f .. b : t \in Int /\ t <= b
        BY <2>0, <3>3
      <4>2. Max(f .. b) = b
        BY <2>0, <4>1, Ends
      <4>3. f .. b # {}
        BY <4>1
      <4> QED
        BY <3>1, <3>3, <4>2, <4>3 DEF MaxOr
    <3> QED
      BY <3>2, <3>3
  <2> QED
    BY <2>1, <2>2, <2>3 DEF Progress
<1> QED
  BY <1>1, <1>2

\* The hours between two hours.
LEMMA HoursBetweenIs ==
    ASSUME NEW g, NEW h, IsHour(g), IsHour(h)
    PROVE  /\ \A k : k \in HoursBetween(g, h) <=> IsHour(k) /\ g <= k /\ k <= h
           /\ g <= h => g \in HoursBetween(g, h) /\ h \in HoursBetween(g, h)
  BY DEF HoursBetween, IsHour

\* A cycle written on empty tables.
LEMMA LockFresh ==
    ASSUME NEW d, NothingYet(d), NEW n \in Int, NEW c, Timely(c, n), FreshPlan(c)
    PROVE  \E b : /\ Effect(d, without_written(c, Progress(d)), c.from, c.from - Hour, b)
                  /\ b < n
                  /\ b = c.from - 1 \/ (b = c.tranches_through /\ c.from <= b)
<1> DEFINE p == Progress(d)
           w == without_written(c, p)
           b == IF c.from <= c.tranches_through THEN c.tranches_through ELSE c.from - 1
<1>0. Hour \in Nat /\ Hour > 0
  BY TimesAssumption
<1>1. /\ c \in Cycles /\ c.at \in {n - 1, n} /\ IsHour(c.from) /\ IsHour(c.through)
      /\ c.from <= c.through /\ c.tranches_through <= c.at - 1 /\ c.from \in Int
      /\ c.through <= c.at
      /\ c.from = hour_of(c.at) /\ c.tranches_from = c.from /\ c.freeze_through = None
      /\ c.tranches_through \in Int /\ c.through \in Int /\ c.at \in Int
  BY DEF Timely, FreshPlan, IsHour, Cycles
<1>2. p.last_frozen = None /\ p.last_tranche = None /\ Known(p)
  BY ProgressIs DEF Known
<1> HIDE DEF p
<1>3. /\ LockedFrom(c, p) = c.from /\ LockedTranches(c, p) = c.from
  BY <1>1, <1>2, NoneAssumption DEF LockedFrom, LockedTranches, Later, After
<1>4. /\ w \in Cycles /\ w.at = c.at /\ w.through = c.through /\ w.tranches_through = c.tranches_through
      /\ w.from = c.from /\ w.tranches_from = c.from /\ w.freeze_through = None
  BY <1>1, <1>2, <1>3, LockedIs
<1> HIDE DEF w
<1>5. Freezing(w) = {}
  BY <1>4 DEF Freezing
<1>6. c.from <= n
  BY <1>1, HourOf
<1>7. /\ b \in Int /\ b < n /\ c.from - 1 <= b
      /\ b = c.from - 1 \/ (b = c.tranches_through /\ c.from <= b)
      /\ CycleTranches(w) = c.from .. b
      /\ CycleTranches(w) # {} => c.tranches_through = b
  BY <1>1, <1>4, <1>6 DEF CycleTranches
<1> HIDE DEF b
<1>8. /\ c.from \in CycleHours(w) /\ \A h \in CycleHours(w) : IsHour(h) /\ c.from <= h
  BY <1>1, <1>4, HoursBetweenIs DEF CycleHours
<1>9. IsHour(c.from - Hour) /\ HoursBetween(c.from, c.from - Hour) = {}
  <2>1. IsHour(c.from - Hour)
    BY <1>1, HoursApart
  <2> QED
    BY <1>0, <1>1, <2>1 DEF HoursBetween
<1>10. Effect(d, w, c.from, c.from - Hour, b)
  BY <1>0, <1>1, <1>4, <1>5, <1>7, <1>8, <1>9 DEF Effect, NothingYet
<1> QED
  BY <1>7, <1>10 DEF w, p

\* A cycle planned in the hour before the first of the tables.
LEMMA LockEarly ==
    ASSUME NEW d, NEW f, NEW lf, NEW b0, Shape(d, f, lf, b0), NEW n \in Int,
           NEW c, Timely(c, n), OldPlan(c, n, f, lf, b0), c.from < f
    PROVE  \E b : /\ Effect(d, without_written(c, Progress(d)), c.from, c.from - Hour, b)
                  /\ b < n
                  /\ c.from = f - Hour /\ f = n
<1> DEFINE p == Progress(d)
           w == without_written(c, p)
           b == IF c.from <= c.tranches_through THEN c.tranches_through ELSE c.from - 1
<1>0. Hour \in Nat /\ Hour > 0
  BY TimesAssumption
<1>1. /\ c \in Cycles /\ IsHour(c.from) /\ IsHour(c.through) /\ IsHour(f) /\ f \in Int
      /\ c.from <= c.through /\ c.tranches_through <= c.at - 1 /\ c.from \in Int
      /\ c.through <= c.at
      /\ b0 < f /\ f = n /\ c.from = f - Hour /\ c.at = n - 1
      /\ c.tranches_from <= c.from /\ c.freeze_through = None
      /\ c.tranches_through \in Int /\ c.through \in Int /\ c.tranches_from \in Int
      /\ lf \in Int /\ b0 \in Int /\ lf + Hour - 1 <= b0
  BY DEF Timely, OldPlan, Shape, IsHour, Cycles
<1>2. lf < f
  BY <1>0, <1>1
<1>3. p.last_frozen = None /\ p.last_tranche = None /\ Known(p)
  <2>1. p = [first_hour |-> f, last_frozen |-> None, last_tranche |-> None]
    BY <1>1, <1>2, ProgressIs
  <2> QED
    BY <1>1, <2>1 DEF Known
<1> HIDE DEF p
<1>4. /\ LockedFrom(c, p) = c.from /\ LockedTranches(c, p) = c.from
  BY <1>1, <1>3, NoneAssumption DEF LockedFrom, LockedTranches, Later, After
<1>5. /\ w \in Cycles /\ w.at = c.at /\ w.through = c.through /\ w.tranches_through = c.tranches_through
      /\ w.from = c.from /\ w.tranches_from = c.from /\ w.freeze_through = None
  BY <1>1, <1>3, <1>4, LockedIs
<1> HIDE DEF w
<1>6. Freezing(w) = {}
  BY <1>5 DEF Freezing
<1>7. /\ b \in Int /\ b < n /\ c.from - 1 <= b
      /\ CycleTranches(w) = c.from .. b
      /\ CycleTranches(w) # {} => c.tranches_through = b
  BY <1>0, <1>1, <1>5 DEF CycleTranches
<1> HIDE DEF b
<1>8. /\ c.from \in CycleHours(w) /\ \A h \in CycleHours(w) : IsHour(h) /\ c.from <= h
  BY <1>1, <1>5, HoursBetweenIs DEF CycleHours
<1>9. /\ DOMAIN d.tranches = {} /\ d.frozen = {} /\ \A h \in d.hours : IsHour(h) /\ c.from <= h
  <2>1. \A h \in d.hours : IsHour(h) /\ h \in Int /\ f <= h
    BY DEF Shape, IsHour
  <2>2. DOMAIN d.tranches = {}
    BY <1>1 DEF Shape
  <2>3. d.frozen = {}
    BY <1>1, <1>2 DEF Shape, HoursBetween
  <2> QED
    BY <1>0, <1>1, <2>1, <2>2, <2>3
<1>10. IsHour(c.from - Hour) /\ HoursBetween(c.from, c.from - Hour) = {}
  <2>1. IsHour(c.from - Hour)
    BY <1>1, HoursApart
  <2> QED
    BY <1>0, <1>1, <2>1 DEF HoursBetween
<1>11. Effect(d, w, c.from, c.from - Hour, b)
  BY <1>0, <1>1, <1>5, <1>6, <1>7, <1>8, <1>9, <1>10 DEF Effect
<1> QED
  BY <1>1, <1>7, <1>11 DEF w, p

\* A cycle that begins after the tables' end writes hours only.
LEMMA LockLate ==
    ASSUME NEW d, NEW f, NEW lf, NEW b, Shape(d, f, lf, b), NEW n \in Int,
           NEW c, Timely(c, n), OldPlan(c, n, f, lf, b), lf + Hour < c.from
    PROVE  Effect(d, without_written(c, Progress(d)), f, lf, b)
<1> DEFINE p == Progress(d)
           w == without_written(c, p)
<1>0. Hour \in Nat /\ Hour > 0
  BY TimesAssumption
<1>1. /\ c \in Cycles /\ IsHour(c.from) /\ IsHour(c.through) /\ IsHour(f) /\ f \in Int
      /\ c.from <= c.through /\ c.from \in Int /\ c.through <= c.at
      /\ c.tranches_through < c.from /\ c.freeze_through = None
      /\ c.tranches_through \in Int /\ c.through \in Int /\ c.tranches_from \in Int
      /\ lf \in Int /\ b \in Int /\ lf + Hour - 1 <= b /\ f - Hour <= lf /\ IsHour(lf)
  BY <1>0 DEF Timely, OldPlan, Shape, IsHour, Cycles
<1>2. /\ p.last_frozen = (IF lf < f THEN None ELSE lf)
      /\ p.last_tranche = (IF b < f THEN None ELSE b) /\ Known(p)
  <2>1. p = [first_hour |-> f, last_frozen |-> IF lf < f THEN None ELSE lf,
             last_tranche |-> IF b < f THEN None ELSE b]
    BY ProgressIs
  <2> QED
    BY <1>1, <2>1 DEF Known
<1> HIDE DEF p
<1>3. LockedFrom(c, p) = c.from
  BY <1>0, <1>1, <1>2, NoneAssumption DEF LockedFrom, Later, After
<1>4. LockedTranches(c, p) >= c.from
  <2>1. Later(c.tranches_from, After(p.last_tranche, 1)) \in Int
    <3>1. After(p.last_tranche, 1) \in Int \cup {None}
      BY <1>1, <1>2 DEF After
    <3> QED
      BY <1>1, <3>1, LaterIs
  <2>2. c.from # None
    BY <1>1, NoneAssumption
  <2> QED
    BY <1>1, <1>3, <2>1, <2>2, LaterIs DEF LockedTranches
<1>5. LockedTranches(c, p) >= b + 1
  <2>1. CASE b < f
    BY <1>0, <1>1, <1>4, <2>1, LockedIs, <1>2
  <2>2. CASE ~(b < f)
    <3>1. After(p.last_tranche, 1) = b + 1 /\ b + 1 \in Int /\ b + 1 # None
      BY <1>1, <1>2, <2>2, NoneAssumption DEF After
    <3>2. Later(c.tranches_from, b + 1) \in Int /\ b + 1 <= Later(c.tranches_from, b + 1)
      BY <1>1, <3>1, LaterIs
    <3>3. c.from \in Int \cup {None} /\ c.from # None
      BY <1>1, NoneAssumption
    <3>4. LockedTranches(c, p) = Later(Later(c.tranches_from, b + 1), c.from)
      BY <1>3, <3>1 DEF LockedTranches
    <3>5. LockedTranches(c, p) \in Int /\ Later(c.tranches_from, b + 1) <= LockedTranches(c, p)
      BY <3>2, <3>3, <3>4, LaterIs
    <3> QED
      BY <1>1, <3>2, <3>5
  <2> QED
    BY <2>1, <2>2
<1>6. /\ w \in Cycles /\ w.at = c.at /\ w.through = c.through /\ w.tranches_through = c.tranches_through
      /\ w.from = c.from /\ w.tranches_from = LockedTranches(c, p) /\ w.freeze_through = None
      /\ w.tranches_from \in Int
  BY <1>1, <1>2, <1>3, LockedIs
<1> HIDE DEF w
<1>7. Freezing(w) = {}
  BY <1>6 DEF Freezing
<1>8. CycleTranches(w) = {}
  BY <1>1, <1>4, <1>6 DEF CycleTranches
<1>9. \A h \in CycleHours(w) : IsHour(h) /\ f <= h
  <2>1. \A h \in CycleHours(w) : IsHour(h) /\ h \in Int /\ c.from <= h
    BY <1>1, <1>6, HoursBetweenIs DEF CycleHours, IsHour
  <2> QED
    BY <1>0, <1>1, <2>1
<1>10. \A h \in d.frozen : h < c.from
  <2>1. \A h \in d.frozen : h \in Int /\ h <= lf
    BY <1>1, HoursBetweenIs DEF Shape, IsHour
  <2> QED
    BY <1>0, <1>1, <2>1
<1>11. \A t \in DOMAIN d.tranches : t < w.tranches_from
  <2>1. \A t \in DOMAIN d.tranches : t \in Int /\ t <= b
    BY <1>1 DEF Shape
  <2> QED
    BY <1>1, <1>5, <1>6, <2>1
<1>12. Effect(d, w, f, lf, b)
  <2>1. /\ DOMAIN d.tranches = f .. b /\ d.frozen = HoursBetween(f, lf)
        /\ f \in d.hours /\ \A h \in d.hours : IsHour(h) /\ f <= h
    BY DEF Shape
  <2> QED
    BY <1>0, <1>1, <1>6, <1>7, <1>8, <1>9, <1>10, <1>11, <2>1 DEF Effect
<1> QED
  BY <1>12 DEF w, p

\* What is left of a cycle that does not begin after the tables' end.
LEMMA LockedNext ==
    ASSUME NEW d, NEW f, NEW lf, NEW b, Shape(d, f, lf, b), NEW c \in Cycles,
           f <= c.from, c.from <= lf + Hour, c.tranches_from <= c.from \/ c.tranches_from <= b + 1
    PROVE  LET w == without_written(c, Progress(d))
               last == IF c.tranches_through >= b + 1 THEN c.tranches_through ELSE b
           IN  /\ w \in Cycles /\ w.at = c.at /\ w.through = c.through
               /\ w.tranches_through = c.tranches_through
               /\ w.from = lf + Hour /\ w.tranches_from = b + 1
               /\ w.freeze_through # None =>
                     /\ c.freeze_through # None
                     /\ w.freeze_through \in {c.freeze_through, c.through, hour_of(last + 1) - Hour}
                     /\ lf + Hour <= w.freeze_through
                     /\ w.freeze_through <= c.freeze_through /\ w.freeze_through <= c.through
                     /\ w.freeze_through <= hour_of(last + 1) - Hour
               /\ w.freeze_through = None =>
                     \/ c.freeze_through = None
                     \/ last < f
                     \/ c.freeze_through < lf + Hour
                     \/ c.through < lf + Hour
                     \/ hour_of(last + 1) - Hour < lf + Hour
<1> DEFINE p == Progress(d)
           w == without_written(c, p)
           last == IF c.tranches_through >= b + 1 THEN c.tranches_through ELSE b
<1>0. Hour \in Nat /\ Hour > 0
  BY TimesAssumption
<1>1. /\ IsHour(f) /\ f \in Int /\ c.from \in Int /\ c.tranches_through \in Int /\ c.through \in Int
      /\ c.tranches_from \in Int /\ lf \in Int /\ b \in Int /\ lf + Hour - 1 <= b
      /\ f - Hour <= lf /\ IsHour(lf)
  BY DEF Shape, IsHour, Cycles
<1>2. /\ p.last_frozen = (IF lf < f THEN None ELSE lf)
      /\ p.last_tranche = (IF b < f THEN None ELSE b) /\ Known(p)
  <2>1. p = [first_hour |-> f, last_frozen |-> IF lf < f THEN None ELSE lf,
             last_tranche |-> IF b < f THEN None ELSE b]
    BY ProgressIs
  <2> QED
    BY <1>1, <2>1 DEF Known
<1> HIDE DEF p
<1>3. LockedFrom(c, p) = lf + Hour
  <2>1. CASE lf < f
    <3>1. lf = f - Hour
      <4>1. lf + Hour <= f
        BY <1>1, <2>1, HoursApart
      <4> QED
        BY <1>0, <1>1, <4>1
    <3>2. LockedFrom(c, p) = c.from
      BY <1>2, <2>1 DEF LockedFrom, After, Later
    <3> QED
      BY <1>0, <1>1, <3>1, <3>2
  <2>2. CASE ~(lf < f)
    <3>1. After(p.last_frozen, Hour) = lf + Hour /\ lf + Hour # None
      BY <1>0, <1>1, <1>2, <2>2, NoneAssumption DEF After
    <3> QED
      BY <1>0, <1>1, <3>1 DEF LockedFrom, Later
  <2> QED
    BY <2>1, <2>2
<1>4. LockedTranches(c, p) = b + 1
  <2>0. lf + Hour # None
    BY <1>0, <1>1, NoneAssumption
  <2>1. CASE b < f
    <3>1. After(p.last_tranche, 1) = None
      BY <1>2, <2>1 DEF After
    <3>2. lf + Hour = b + 1 /\ c.tranches_from <= b + 1
      <4>1. lf < f
        BY <1>0, <1>1, <2>1
      <4>2. lf + Hour <= f
        BY <1>1, <4>1, HoursApart
      <4> QED
        BY <1>0, <1>1, <2>1, <4>2
    <3> QED
      BY <1>0, <1>1, <1>3, <2>0, <3>1, <3>2 DEF LockedTranches, Later
  <2>2. CASE ~(b < f)
    <3>1. After(p.last_tranche, 1) = b + 1 /\ b + 1 # None
      BY <1>1, <1>2, <2>2, NoneAssumption DEF After
    <3>2. Later(c.tranches_from, b + 1) = b + 1
      BY <1>0, <1>1, <3>1 DEF Later
    <3>3. Later(b + 1, lf + Hour) = b + 1
      BY <1>0, <1>1, <2>0 DEF Later
    <3> QED
      BY <1>3, <3>1, <3>2, <3>3 DEF LockedTranches
  <2> QED
    BY <2>1, <2>2
<1>5. /\ LastWritten(c, p) = last \/ (LastWritten(c, p) = None /\ last < f)
      /\ last \in Int
  <2>1. CASE c.tranches_through >= b + 1
    <3>1. LastWritten(c, p) = Later(c.tranches_through, p.last_tranche)
      BY <1>4, <2>1 DEF LastWritten
    <3>2. Later(c.tranches_through, p.last_tranche) = c.tranches_through
      BY <1>1, <1>2, <2>1, NoneAssumption DEF Later
    <3> QED
      BY <1>1, <2>1, <3>1, <3>2
  <2>2. CASE ~(c.tranches_through >= b + 1)
    <3>1. LastWritten(c, p) = p.last_tranche
      BY <1>4, <2>2 DEF LastWritten
    <3> QED
      BY <1>1, <1>2, <2>2, <3>1
  <2> QED
    BY <2>1, <2>2
<1> HIDE DEF last
<1>6. /\ w \in Cycles /\ w.at = c.at /\ w.through = c.through
      /\ w.tranches_through = c.tranches_through /\ w.from = lf + Hour /\ w.tranches_from = b + 1
  BY <1>2, <1>3, <1>4, LockedIs
<1>7. ASSUME w.freeze_through # None
      PROVE  /\ c.freeze_through # None
             /\ w.freeze_through \in {c.freeze_through, c.through, hour_of(last + 1) - Hour}
             /\ lf + Hour <= w.freeze_through
             /\ w.freeze_through <= c.freeze_through /\ w.freeze_through <= c.through
             /\ w.freeze_through <= hour_of(last + 1) - Hour
  <2>1. /\ c.freeze_through # None /\ LastWritten(c, p) # None
        /\ w.freeze_through \in {c.freeze_through, c.through, hour_of(LastWritten(c, p) + 1) - Hour}
        /\ lf + Hour <= w.freeze_through
        /\ w.freeze_through <= c.freeze_through /\ w.freeze_through <= c.through
        /\ w.freeze_through <= hour_of(LastWritten(c, p) + 1) - Hour
    BY <1>2, <1>3, <1>7, LockedIs
  <2> QED
    BY <1>5, <2>1
<1>8. ASSUME w.freeze_through = None
      PROVE  \/ c.freeze_through = None
             \/ last < f
             \/ c.freeze_through < lf + Hour
             \/ c.through < lf + Hour
             \/ hour_of(last + 1) - Hour < lf + Hour
  <2>1. \/ c.freeze_through = None
        \/ LastWritten(c, p) = None
        \/ c.freeze_through < lf + Hour
        \/ c.through < lf + Hour
        \/ hour_of(LastWritten(c, p) + 1) - Hour < lf + Hour
    BY <1>2, <1>3, <1>8, LockedIs
  <2>2. CASE LastWritten(c, p) = None
    BY <1>5, <2>2, NoneAssumption
  <2>3. CASE LastWritten(c, p) = last
    BY <1>8, <2>1, <2>3, <1>5, NoneAssumption
  <2> QED
    BY <1>5, <2>2, <2>3
<1> QED
  BY <1>6, <1>7, <1>8 DEF w, p, last

\* A cycle that begins where the tables end, or in what they hold.
LEMMA LockNext ==
    ASSUME NEW d, NEW f, NEW lf, NEW b0, Shape(d, f, lf, b0), NEW n \in Int, b0 < n,
           NEW c, Timely(c, n), OldPlan(c, n, f, lf, b0), f <= c.from, c.from <= lf + Hour
    PROVE  \E l, b : /\ Effect(d, without_written(c, Progress(d)), f, l, b)
                     /\ b < n /\ b0 <= b /\ lf <= l
<1> DEFINE w == without_written(c, Progress(d))
           b == IF c.tranches_through >= b0 + 1 THEN c.tranches_through ELSE b0
           l == IF w.freeze_through = None THEN lf ELSE w.freeze_through
<1>0. Hour \in Nat /\ Hour > 0
  BY TimesAssumption
<1>1. /\ c \in Cycles /\ IsHour(c.from) /\ IsHour(c.through) /\ IsHour(f) /\ f \in Int
      /\ c.from \in Int /\ c.tranches_through \in Int /\ c.through \in Int
      /\ c.tranches_from \in Int /\ lf \in Int /\ b0 \in Int /\ lf + Hour - 1 <= b0
      /\ f - Hour <= lf /\ IsHour(lf) /\ c.tranches_through <= c.at - 1 /\ c.at <= n
      /\ c.through <= c.at
      /\ c.at \in Int /\ (c.freeze_through # None => IsHour(c.freeze_through))
      /\ (c.tranches_from <= c.from \/ c.tranches_from <= b0 + 1)
  BY DEF Timely, OldPlan, Shape, IsHour, Cycles
<1>2. b \in Int /\ b0 <= b /\ b < n
  BY <1>1
<1> HIDE DEF b
<1>3. /\ w \in Cycles /\ w.at = c.at /\ w.through = c.through
      /\ w.tranches_through = c.tranches_through
      /\ w.from = lf + Hour /\ w.tranches_from = b0 + 1
      /\ w.freeze_through # None =>
            /\ c.freeze_through # None
            /\ w.freeze_through \in {c.freeze_through, c.through, hour_of(b + 1) - Hour}
            /\ lf + Hour <= w.freeze_through
            /\ w.freeze_through <= c.through
            /\ w.freeze_through <= hour_of(b + 1) - Hour
  BY <1>1, LockedNext DEF b
<1> HIDE DEF w
<1>4. IsHour(lf + Hour) /\ IsHour(hour_of(b + 1) - Hour) /\ hour_of(b + 1) <= b + 1
  <2>1. b + 1 \in Int
    BY <1>2
  <2>2. IsHour(hour_of(b + 1)) /\ hour_of(b + 1) <= b + 1
    BY <2>1, HourOf
  <2> QED
    BY <1>1, <2>2, HoursApart
<1>5. /\ IsHour(l) /\ l \in Int /\ lf <= l /\ l + Hour - 1 <= b
      /\ w.freeze_through # None => l = w.freeze_through /\ lf + Hour <= l /\ l <= c.through
      /\ w.freeze_through = None => l = lf
  <2>1. CASE w.freeze_through = None
    BY <1>0, <1>1, <1>2, <2>1
  <2>2. CASE w.freeze_through # None
    <3>1. IsHour(w.freeze_through) /\ w.freeze_through \in Int
      BY <1>1, <1>3, <1>4, <2>2 DEF IsHour
    <3>2. hour_of(b + 1) \in Int
      BY <1>2, HourOf DEF IsHour
    <3> QED
      BY <1>0, <1>1, <1>2, <1>3, <1>4, <2>2, <3>1, <3>2
  <2> QED
    BY <2>1, <2>2
<1> HIDE DEF l
<1>6. /\ CycleTranches(w) = b0 + 1 .. c.tranches_through
      /\ (f .. b0) \cup CycleTranches(w) = f .. b
      /\ CycleTranches(w) # {} => c.tranches_through = b
  <2>1. f - 1 <= b0
    BY <1>0, <1>1
  <2>2. CycleTranches(w) = b0 + 1 .. c.tranches_through
    BY <1>3 DEF CycleTranches
  <2>3. CASE c.tranches_through >= b0 + 1
    BY <1>1, <2>1, <2>2, <2>3 DEF b
  <2>4. CASE ~(c.tranches_through >= b0 + 1)
    BY <1>1, <2>1, <2>2, <2>4 DEF b
  <2> QED
    BY <2>2, <2>3, <2>4
<1>7. \A k : k \in CycleHours(w) <=> IsHour(k) /\ lf + Hour <= k /\ k <= c.through
  BY <1>1, <1>3, <1>4, HoursBetweenIs DEF CycleHours
<1>8. \A k : k \in Freezing(w) <=> w.freeze_through # None /\ IsHour(k) /\ lf + Hour <= k /\ k <= l
  <2>1. CASE w.freeze_through = None
    BY <2>1 DEF Freezing
  <2>2. CASE w.freeze_through # None
    BY <1>3, <1>4, <1>5, <2>2, HoursBetweenIs DEF Freezing
  <2> QED
    BY <2>1, <2>2
<1>9. HoursBetween(f, lf) \cup Freezing(w) = HoursBetween(f, l)
  <2>1. \A k : k \in HoursBetween(f, lf) <=> IsHour(k) /\ f <= k /\ k <= lf
    BY <1>1, HoursBetweenIs
  <2>2. \A k : k \in HoursBetween(f, l) <=> IsHour(k) /\ f <= k /\ k <= l
    BY <1>1, <1>5, HoursBetweenIs
  <2>3. \A k : IsHour(k) => k \in Int /\ (lf < k <=> lf + Hour <= k)
    <3>1. \A k : IsHour(k) /\ lf < k => lf + Hour <= k
      BY <1>1, HoursApart
    <3>2. \A k : IsHour(k) => k \in Int
      BY DEF IsHour
    <3> QED
      BY <1>0, <1>1, <3>1, <3>2
  <2>4. ASSUME NEW k, IsHour(k)
        PROVE  k \in HoursBetween(f, lf) \cup Freezing(w) <=> k \in HoursBetween(f, l)
    <3>1. k \in Int /\ (lf < k <=> lf + Hour <= k)
      BY <2>3, <2>4
    <3>2. CASE w.freeze_through = None
      BY <1>5, <1>8, <3>2, Zenon
    <3>3. CASE w.freeze_through # None
      <4>1. k \in Freezing(w) <=> lf < k /\ k <= l
        BY <1>8, <2>4, <3>1, <3>3
      <4>2. k \in HoursBetween(f, lf) <=> f <= k /\ k <= lf
        BY <2>1, <2>4
      <4>3. k \in HoursBetween(f, l) <=> f <= k /\ k <= l
        BY <2>2, <2>4
      <4> QED
        BY <1>0, <1>1, <1>5, <3>1, <4>1, <4>2, <4>3
    <3> QED
      BY <3>2, <3>3
  <2> QED
    BY <1>8, <2>1, <2>2, <2>4
<1>10. \A h \in d.hours \cup CycleHours(w) : IsHour(h) /\ f <= h
  <2>1. \A h \in CycleHours(w) : IsHour(h) /\ f <= h
    BY <1>0, <1>1, <1>7 DEF IsHour
  <2> QED
    BY <2>1 DEF Shape
<1>11. Freezing(w) \subseteq CycleHours(w)
  BY <1>1, <1>5, <1>7, <1>8 DEF IsHour
<1>12. \A h \in d.frozen : h < w.from
  <2>1. \A h \in d.frozen : h \in Int /\ h <= lf
    BY <1>1, HoursBetweenIs DEF Shape, IsHour
  <2> QED
    BY <1>0, <1>1, <1>3, <2>1
<1>13. \A t \in DOMAIN d.tranches : t < w.tranches_from
  <2>1. \A t \in DOMAIN d.tranches : t \in Int /\ t <= b0
    BY <1>1 DEF Shape
  <2> QED
    BY <1>1, <1>3, <2>1
<1>14. /\ DOMAIN d.tranches \cup CycleTranches(w) = f .. b
       /\ d.frozen \cup Freezing(w) = HoursBetween(f, l)
       /\ f \in d.hours \cup CycleHours(w)
  BY <1>6, <1>9 DEF Shape
<1>15. w.freeze_through # None => l \in Freezing(w)
  BY <1>5, <1>8
<1>16. f - Hour <= l
  BY <1>0, <1>1, <1>5
<1>17. Effect(d, w, f, l, b)
  <2>1. /\ w \in Cycles /\ IsHour(w.from) /\ IsHour(w.through) /\ f <= w.from /\ w.through <= w.at
        /\ IsHour(f) /\ IsHour(l) /\ b \in Int
    BY <1>0, <1>1, <1>2, <1>3, <1>4, <1>5
  <2>2. f - Hour <= l /\ l + Hour - 1 <= b /\ (CycleTranches(w) # {} => w.tranches_through = b)
    BY <1>3, <1>5, <1>6, <1>16
  <2>3. w.freeze_through # None => w.freeze_through = l /\ l \in Freezing(w)
    BY <1>5, <1>15
  <2> QED
    BY <1>10, <1>11, <1>12, <1>13, <1>14, <2>1, <2>2, <2>3 DEF Effect
<1> QED
  BY <1>2, <1>5, <1>17 DEF w

\* The least of two.
LEMMA LeastOfTwo ==
    ASSUME NEW x \in Int, NEW y \in Int
    PROVE  /\ Min({x, y}) \in {x, y} /\ Min({x, y}) \in Int
           /\ Min({x, y}) <= x /\ Min({x, y}) <= y
<1>1. PICK m \in {x, y} : m <= x /\ m <= y
  OBVIOUS
<1>2. Min({x, y}) = m
  BY <1>1, Ends
<1> QED
  BY <1>1, <1>2

\* The cycle a plan begins with.
PlanFrom(n, p) ==
    IF p.last_frozen # None THEN p.last_frozen + Hour
    ELSE IF p.first_hour # None THEN p.first_hour ELSE hour_of(n)
Drawn(n, from, tranchesFrom) ==
    [tranches_from    |-> tranchesFrom,
     tranches_through |-> Min({n - 1 - Margin, tranchesFrom + MaxTranches - 1}),
     from             |-> from,
     through          |-> Min({hour_of(n), from + (MaxHours - 1) * Hour}),
     freeze_through   |-> hour_of(n - Hour - Margin),
     tvl_hour         |-> hour_of(n),
     at               |-> n]

\* Its fields, before the progress is taken out of it.
LEMMA DrawnIs ==
    ASSUME NEW n \in Int, NEW from, IsHour(from), NEW t \in Int, from <= n
    PROVE  LET c == Drawn(n, from, t)
           IN  /\ c \in Cycles /\ IsHour(c.through) /\ c.from = from /\ c.tranches_from = t
               /\ c.from <= c.through /\ c.through <= n /\ c.at = n
               /\ c.tranches_through \in {n - 1 - Margin, t + MaxTranches - 1}
               /\ c.tranches_through <= n - 1
               /\ IsHour(c.freeze_through) /\ c.freeze_through = hour_of(n - Hour - Margin)
               /\ c.freeze_through <= n - Hour /\ c.freeze_through \in Int
<1> DEFINE c == Drawn(n, from, t)
           tt == Min({n - 1 - Margin, t + MaxTranches - 1})
           th == Min({hour_of(n), from + (MaxHours - 1) * Hour})
           fz == hour_of(n - Hour - Margin)
<1>0. Hour \in Nat /\ Hour > 0 /\ Margin \in Nat /\ MaxHours \in Nat /\ MaxHours > 0
  BY TimesAssumption
<1>1. MaxTranches \in Nat /\ (MaxHours - 1) * Hour \in Nat
  <2>1. MaxHours - 1 \in Nat
    BY <1>0
  <2>2. \A x \in Nat, y \in Nat : x * y \in Nat
    OBVIOUS
  <2> QED
    BY <1>0, <2>1, <2>2 DEF MaxTranches
<1>2. tt \in Int /\ tt \in {n - 1 - Margin, t + MaxTranches - 1} /\ tt <= n - 1
  <2>1. n - 1 - Margin \in Int /\ t + MaxTranches - 1 \in Int
    BY <1>0, <1>1
  <2>2. tt \in Int /\ tt \in {n - 1 - Margin, t + MaxTranches - 1} /\ tt <= n - 1 - Margin
    BY <2>1, LeastOfTwo
  <2> QED
    BY <1>0, <2>2
<1> HIDE DEF tt
<1>3. IsHour(hour_of(n)) /\ hour_of(n) \in Int /\ hour_of(n) <= n /\ from <= hour_of(n)
  BY HourOf DEF IsHour
<1>4. IsHour(th) /\ th \in Int /\ from <= th /\ th <= n
  <2>1. IsHour(from + (MaxHours - 1) * Hour)
    <3>1. MaxHours - 1 \in Int
      BY <1>0
    <3> QED
      BY <3>1, HoursApart
  <2>2. from \in Int /\ from + (MaxHours - 1) * Hour \in Int
    BY <2>1 DEF IsHour
  <2>3. PICK y \in Int : y = from + (MaxHours - 1) * Hour
    BY <2>2
  <2>4. from <= y
    BY <1>1, <2>2, <2>3
  <2>5. th \in {hour_of(n), y} /\ th <= hour_of(n)
    BY <1>3, <2>3, LeastOfTwo
  <2> HIDE DEF th
  <2> QED
    BY <1>3, <2>1, <2>2, <2>3, <2>4, <2>5
<1> HIDE DEF th
<1>5. IsHour(fz) /\ fz \in Int /\ fz <= n - Hour
  <2>1. n - Hour - Margin \in Int
    BY <1>0
  <2>2. IsHour(fz) /\ fz \in Int /\ fz <= n - Hour - Margin
    BY <2>1, HourOf DEF IsHour
  <2> HIDE DEF fz
  <2> QED
    BY <1>0, <2>1, <2>2
<1>6. c = [tranches_from |-> t, tranches_through |-> tt, from |-> from, through |-> th,
           freeze_through |-> fz, tvl_hour |-> hour_of(n), at |-> n]
  BY DEF Drawn, tt, th, fz
<1> HIDE DEF c, fz
<1>7. from \in Int
  BY DEF IsHour
<1>8. c \in Cycles
  BY <1>2, <1>3, <1>4, <1>5, <1>6, <1>7 DEF Cycles
<1>9. /\ c.from = from /\ c.tranches_from = t /\ c.through = th /\ c.at = n
      /\ c.tranches_through = tt /\ c.freeze_through = fz
  BY <1>6
<1> QED
  BY <1>2, <1>4, <1>5, <1>8, <1>9 DEF c, fz

\* A plan made on empty tables.
LEMMA PlanFresh ==
    ASSUME NEW d, NothingYet(d), NEW n \in Int
    PROVE  Timely(plan(n, Progress(d)), n) /\ FreshPlan(plan(n, Progress(d)))
<1> DEFINE p == Progress(d)
           from == hour_of(n)
           c == Drawn(n, from, from)
           w == without_written(c, p)
<1>0. Hour \in Nat /\ Hour > 0 /\ Margin \in Nat
  BY TimesAssumption
<1>1. p = [first_hour |-> None, last_frozen |-> None, last_tranche |-> None]
  BY ProgressIs
<1> HIDE DEF p
<1>2. IsHour(from) /\ from \in Int /\ from <= n
  BY HourOf DEF IsHour
<1>3. plan(n, p) = w
  BY <1>1 DEF plan, Drawn
<1> HIDE DEF from
<1>4. /\ c \in Cycles /\ IsHour(c.through) /\ c.from = from /\ c.tranches_from = from
      /\ c.from <= c.through /\ c.through <= n /\ c.at = n
      /\ c.tranches_through <= n - 1
      /\ IsHour(c.freeze_through) /\ c.freeze_through <= n - Hour /\ c.freeze_through \in Int
      /\ c.freeze_through = hour_of(n - Hour - Margin)
  BY <1>2, DrawnIs
<1> HIDE DEF c
<1>5. Known(p) /\ p.last_frozen = None /\ p.last_tranche = None
  BY <1>1 DEF Known
<1>6. LockedFrom(c, p) = from /\ LockedTranches(c, p) = from
  BY <1>2, <1>4, <1>5, NoneAssumption DEF LockedFrom, LockedTranches, Later, After
<1>7. /\ w \in Cycles /\ w.at = n /\ w.through = c.through
      /\ w.tranches_through = c.tranches_through /\ w.from = from /\ w.tranches_from = from
      /\ w.freeze_through # None => from <= w.freeze_through /\ w.freeze_through <= c.freeze_through
  BY <1>4, <1>5, <1>6, LockedIs
<1> HIDE DEF w
<1>8. c.freeze_through < from
  <2>1. n < from + Hour
    BY HourOf DEF from
  <2> QED
    BY <1>0, <1>2, <1>4, <2>1
<1>9. w.freeze_through = None
  BY <1>2, <1>4, <1>7, <1>8 DEF Cycles
<1>10. Timely(w, n)
  BY <1>2, <1>4, <1>7, <1>9 DEF Timely
<1>11. FreshPlan(w)
  BY <1>7, <1>9 DEF FreshPlan, from
<1> QED
  BY <1>3, <1>10, <1>11 DEF p

\* A plan made on others begins where they end.
LEMMA PlanNext ==
    ASSUME NEW d, NEW f, NEW lf, NEW b, Shape(d, f, lf, b), NEW n \in Int, b < n, f <= n
    PROVE  LET w == plan(n, Progress(d))
               due == hour_of(n - Hour - Margin)
           IN  /\ Timely(w, n) /\ OldPlan(w, n, f, lf, b)
               /\ w.from = lf + Hour /\ w.tranches_from = b + 1
               /\ w.freeze_through = None /\ CycleTranches(w) = {} => due <= lf
<1> DEFINE p == Progress(d)
           from == lf + Hour
           c == Drawn(n, from, b + 1)
           w == without_written(c, p)
           due == hour_of(n - Hour - Margin)
           last == IF c.tranches_through >= b + 1 THEN c.tranches_through ELSE b
<1>0. Hour \in Nat /\ Hour > 0 /\ Margin \in Nat /\ MaxHours \in Nat /\ MaxHours > 0
  BY TimesAssumption
<1>1. /\ IsHour(f) /\ f \in Int /\ lf \in Int /\ b \in Int /\ lf + Hour - 1 <= b
      /\ f - Hour <= lf /\ IsHour(lf)
  BY DEF Shape, IsHour
<1>2. p = [first_hour |-> f, last_frozen |-> IF lf < f THEN None ELSE lf,
           last_tranche |-> IF b < f THEN None ELSE b]
  BY ProgressIs
<1> HIDE DEF p
<1>3. lf < f => lf + Hour = f
  <2>1. lf < f => lf + Hour <= f
    BY <1>1, HoursApart
  <2> QED
    BY <1>0, <1>1, <2>1
<1>4. plan(n, p) = w
  <2>1. PlanFrom(n, p) = from
    <3>1. f # None /\ lf # None
      BY <1>1, NoneAssumption
    <3>2. CASE lf < f
      BY <1>2, <1>3, <3>1, <3>2 DEF PlanFrom
    <3>3. CASE ~(lf < f)
      BY <1>2, <3>1, <3>3 DEF PlanFrom
    <3> QED
      BY <3>2, <3>3
  <2>2. (IF p.last_tranche = None THEN from ELSE p.last_tranche + 1) = b + 1
    <3>1. b # None
      BY <1>1, NoneAssumption
    <3>2. CASE b < f
      <4>1. lf < f
        BY <1>0, <1>1, <3>2
      <4>2. from = b + 1
        BY <1>0, <1>1, <1>3, <3>2, <4>1
      <4> QED
        BY <1>2, <3>2, <4>2
    <3>3. CASE ~(b < f)
      BY <1>2, <3>1, <3>3
    <3> QED
      BY <3>2, <3>3
  <2>3. plan(n, p) = LET fr == PlanFrom(n, p)
                         tf == IF p.last_tranche = None THEN fr ELSE p.last_tranche + 1
                     IN  without_written(Drawn(n, fr, tf), p)
    BY DEF plan, PlanFrom, Drawn
  <2> HIDE DEF from
  <2> QED
    BY <2>1, <2>2, <2>3
<1>5. IsHour(from) /\ from \in Int /\ from <= n /\ f <= from /\ b + 1 \in Int
  <2>1. IsHour(from)
    BY <1>1, HoursApart
  <2> QED
    BY <1>0, <1>1, <2>1
<1> HIDE DEF from
<1>6. /\ c \in Cycles /\ IsHour(c.through) /\ c.from = from /\ c.tranches_from = b + 1
      /\ c.from <= c.through /\ c.through <= n /\ c.at = n
      /\ c.tranches_through \in {n - 1 - Margin, b + 1 + MaxTranches - 1}
      /\ c.tranches_through <= n - 1
      /\ IsHour(c.freeze_through) /\ c.freeze_through = due
      /\ c.freeze_through <= n - Hour /\ c.freeze_through \in Int
  BY <1>5, DrawnIs
<1> HIDE DEF c
<1>7. last \in Int /\ c.tranches_through \in Int /\ c.through \in Int
  BY <1>1, <1>6 DEF Cycles
<1> HIDE DEF last
<1>8. /\ w \in Cycles /\ w.at = n /\ w.through = c.through
      /\ w.tranches_through = c.tranches_through
      /\ w.from = from /\ w.tranches_from = b + 1
      /\ w.freeze_through # None =>
            /\ w.freeze_through \in {c.freeze_through, c.through, hour_of(last + 1) - Hour}
            /\ from <= w.freeze_through
            /\ w.freeze_through <= c.freeze_through
      /\ w.freeze_through = None =>
            \/ c.freeze_through = None
            \/ last < f
            \/ c.freeze_through < from
            \/ c.through < from
            \/ hour_of(last + 1) - Hour < from
  BY <1>1, <1>5, <1>6, LockedNext DEF from, last, p
<1> HIDE DEF w
<1>9. w.freeze_through # None => IsHour(w.freeze_through) /\ w.freeze_through <= n - Hour
  <2>1. IsHour(hour_of(last + 1) - Hour)
    <3>1. last + 1 \in Int
      BY <1>7
    <3>2. IsHour(hour_of(last + 1))
      BY <3>1, HourOf
    <3> QED
      BY <3>2, HoursApart
  <2>2. w.freeze_through # None => IsHour(w.freeze_through)
    BY <1>6, <1>8, <2>1
  <2> QED
    BY <1>0, <1>6, <1>8, <2>2 DEF IsHour
<1>10. Timely(w, n)
  BY <1>5, <1>6, <1>8, <1>9 DEF Timely
<1>11. OldPlan(w, n, f, lf, b)
  BY <1>0, <1>1, <1>5, <1>8 DEF OldPlan, from
<1>12. ASSUME w.freeze_through = None, CycleTranches(w) = {}
       PROVE  due <= lf
  <2>1. c.tranches_through < b + 1
    BY <1>1, <1>7, <1>8, <1>12 DEF CycleTranches
  <2>2. last = b
    BY <1>1, <1>7, <2>1 DEF last
  <2>3. n - Margin <= b + 1
    <3>1. MaxTranches \in Nat /\ MaxTranches > 0
      <4>1. \A x, y \in Nat : x > 0 /\ y > 0 => x * y \in Nat /\ x * y > 0
        OBVIOUS
      <4> QED
        BY <1>0, <4>1 DEF MaxTranches
    <3> QED
      BY <1>0, <1>1, <1>6, <2>1, <3>1
  <2>4. /\ IsHour(due) /\ due \in Int /\ due <= n - Hour - Margin
    <3>1. n - Hour - Margin \in Int
      BY <1>0
    <3> QED
      BY <3>1, HourOf DEF IsHour
  <2> HIDE DEF due
  <2>5. due < lf + Hour
    <3>1. c.freeze_through # None /\ ~(c.through < from)
      BY <1>5, <1>6, <1>7, NoneAssumption
    <3>2. CASE c.freeze_through < from
      BY <1>6, <3>2 DEF from
    <3>3. CASE last < f
      BY <1>0, <1>1, <2>2, <2>3, <2>4, <3>3
    <3>4. CASE hour_of(last + 1) - Hour < from
      <4>1. /\ hour_of(b + 1) \in Int /\ \A h : IsHour(h) /\ h <= b + 1 => h <= hour_of(b + 1)
        BY <1>5, HourOf DEF IsHour
      <4>2. IsHour(due + Hour) /\ due + Hour <= b + 1
        <5>1. IsHour(due + Hour)
          BY <2>4, HoursApart
        <5> QED
          BY <1>0, <1>1, <2>3, <2>4, <5>1
      <4>3. due + Hour <= hour_of(b + 1)
        BY <4>1, <4>2
      <4>4. hour_of(b + 1) - Hour < lf + Hour
        BY <2>2, <3>4 DEF from
      <4> QED
        BY <1>0, <1>1, <2>4, <4>1, <4>3, <4>4
    <3> QED
      BY <1>8, <1>12, <3>1, <3>2, <3>3, <3>4
  <2>6. lf < due => lf + Hour <= due
    BY <1>1, <2>4, HoursApart
  <2> QED
    BY <1>0, <1>1, <2>4, <2>5, <2>6
<1> QED
  BY <1>4, <1>8, <1>10, <1>11, <1>12 DEF p, from

-----------------------------------------------------------------------------
(***************************************************************************)
(* What the transaction of a cycle leaves in each table.                   *)
(***************************************************************************)

Columns ==
    {"tranches", "swaps", "moves", "claims", "runs", "hours", "frozen", "hourly", "protocolHourly",
     "liquidityHourly", "births", "changes", "periods", "ranking", "ceilings", "tvl", "discovered"}

\* Tables e are d but for the column k.
ButFor(e, d, k) == DOMAIN e = Columns /\ \A j \in Columns \ {k} : e[j] = d[j]

\* The hours whose moves are summed, and those whose position changes are counted.
Summable(d, c) ==
    {h \in CycleHours(c) :
        h >= MinOr(DOMAIN d.liquidityHourly, hour_of(c.tranches_from + Hour - 1))}
Counted(d, c) ==
    HoursBetween(Least({c.from, After(MaxOr(DOMAIN d.changes, None), Hour)}), c.through)

Kept(d, c) == {h \in DOMAIN d.changes : h < c.from \/ h \notin Counted(d, c)}

\* A column written.
LEMMA Put ==
    ASSUME NEW d, DOMAIN d = Columns, NEW k \in Columns, NEW v
    PROVE  ButFor([d EXCEPT ![k] = v], d, k) /\ [d EXCEPT ![k] = v][k] = v
  BY DEF ButFor

\* The swaps of the cycle's tranches are valued.
LEMMA ValueTranche ==
    ASSUME NEW d, DOMAIN d = Columns, NEW A, NEW c
    PROVE  /\ ButFor(value_tranche(d, A, c), d, "swaps")
           /\ value_tranche(d, A, c).swaps = d.swaps \cup OfTranches(A, c)
<1>1. "swaps" \in Columns
  BY DEF Columns
<1> QED
  BY <1>1, Put DEF value_tranche

\* So are their moves.
LEMMA ValueLiquidity ==
    ASSUME NEW d, DOMAIN d = Columns, NEW A, NEW c
    PROVE  /\ ButFor(value_liquidity_tranche(d, A, c), d, "moves")
           /\ value_liquidity_tranche(d, A, c).moves = d.moves \cup OfTranches(A, c)
<1>1. "moves" \in Columns
  BY DEF Columns
<1> QED
  BY <1>1, Put DEF value_liquidity_tranche

\* And their claims.
LEMMA ValueClaims ==
    ASSUME NEW d, DOMAIN d = Columns, NEW A, NEW c
    PROVE  /\ ButFor(value_claims_tranche(d, A, c), d, "claims")
<1>1. "claims" \in Columns
  BY DEF Columns
<1> QED
  BY <1>1, Put DEF value_claims_tranche

\* The tranches are recorded, as measured.
LEMMA RecordTranches ==
    ASSUME NEW d, DOMAIN d = Columns, NEW c
    PROVE  /\ ButFor(record_tranches(d, c), d, "tranches")
           /\ record_tranches(d, c).tranches =
                 [t \in DOMAIN d.tranches \cup CycleTranches(c) |->
                    t \in CycleTranches(c) \/ d.tranches[t]]
<1>1. "tranches" \in Columns
  BY DEF Columns
<1> QED
  BY <1>1, Put DEF record_tranches

\* The runs are drawn again.
LEMMA WriteRuns ==
    ASSUME NEW d, DOMAIN d = Columns, NEW c
    PROVE  /\ ButFor(write_rotation_runs(d, c), d, "runs")
<1>1. "runs" \in Columns
  BY DEF Columns
<1>2. ButFor(d, d, "runs")
  BY DEF ButFor
<1> QED
  BY <1>1, <1>2, Put DEF write_rotation_runs

\* The hours of the cycle are summed from the swaps.
LEMMA UpsertHourly ==
    ASSUME NEW d, DOMAIN d = Columns, NEW c
    PROVE  /\ ButFor(upsert_pool_hourly(d, c), d, "hourly")
           /\ upsert_pool_hourly(d, c).hourly =
                 [h \in DOMAIN d.hourly \cup CycleHours(c) |->
                    IF h \in CycleHours(c) THEN InSpan(d.swaps, h, h + Hour) ELSE d.hourly[h]]
<1>1. "hourly" \in Columns
  BY DEF Columns
<1> QED
  BY <1>1, Put DEF upsert_pool_hourly

\* Their protocols' rows are the pools'.
LEMMA UpsertProtocols ==
    ASSUME NEW d, DOMAIN d = Columns, NEW c
    PROVE  /\ ButFor(upsert_protocol_hourly(d, c), d, "protocolHourly")
           /\ upsert_protocol_hourly(d, c).protocolHourly =
                 [h \in DOMAIN d.protocolHourly \cup CycleHours(c) |->
                    IF h \in CycleHours(c) THEN d.hourly[h] ELSE d.protocolHourly[h]]
<1>1. "protocolHourly" \in Columns
  BY DEF Columns
<1> QED
  BY <1>1, Put DEF upsert_protocol_hourly

\* The hours measured whole are summed from the moves.
LEMMA UpsertLiquidity ==
    ASSUME NEW d, DOMAIN d = Columns, NEW c
    PROVE  /\ ButFor(upsert_liquidity_hourly(d, c), d, "liquidityHourly")
           /\ upsert_liquidity_hourly(d, c).liquidityHourly =
                 [h \in DOMAIN d.liquidityHourly \cup Summable(d, c) |->
                    IF h \in Summable(d, c) THEN InSpan(d.moves, h, h + Hour)
                    ELSE d.liquidityHourly[h]]
<1>1. "liquidityHourly" \in Columns
  BY DEF Columns
<1> QED
  BY <1>1, Put DEF upsert_liquidity_hourly, Summable

\* The births of the cycle's hours are counted.
LEMMA UpsertBirths ==
    ASSUME NEW d, DOMAIN d = Columns, NEW A, NEW c
    PROVE  /\ ButFor(upsert_births(d, A, c), d, "births")
           /\ upsert_births(d, A, c).births =
                 [h \in DOMAIN d.births \cup CycleHours(c) |->
                    IF h \in CycleHours(c) THEN InSpan(A, h, h + Hour) ELSE d.births[h]]
<1>1. "births" \in Columns
  BY DEF Columns
<1> QED
  BY <1>1, Put DEF upsert_births

\* The position changes are counted, in the hours missed too.
LEMMA UpsertChanges ==
    ASSUME NEW d, DOMAIN d = Columns, NEW A, NEW c
    PROVE  /\ ButFor(upsert_position_changes(d, A, c), d, "changes")
           /\ upsert_position_changes(d, A, c).changes =
                 [h \in DOMAIN d.changes \cup Counted(d, c) |->
                    IF h \in Kept(d, c) THEN d.changes[h] ELSE InSpan(A, h, h + Hour)]
<1>1. "changes" \in Columns
  BY DEF Columns
<1>2. upsert_position_changes(d, A, c) =
        [d EXCEPT !.changes =
            [h \in DOMAIN d.changes \cup Counted(d, c) |->
               IF h \in Kept(d, c) THEN d.changes[h] ELSE InSpan(A, h, h + Hour)]]
  BY DEF upsert_position_changes, Counted, Kept
<1> QED
  BY <1>1, <1>2, Put

\* The hours are recorded.
LEMMA RecordHours ==
    ASSUME NEW d, DOMAIN d = Columns, NEW c
    PROVE  /\ ButFor(record_hours(d, c), d, "hours")
           /\ record_hours(d, c).hours = d.hours \cup CycleHours(c)
<1>1. "hours" \in Columns
  BY DEF Columns
<1> QED
  BY <1>1, Put DEF record_hours

\* Those due are frozen.
LEMMA Freeze ==
    ASSUME NEW d, DOMAIN d = Columns, NEW c
    PROVE  /\ ButFor(freeze(d, c), d, "frozen")
           /\ freeze(d, c).frozen = d.frozen \cup (Freezing(c) \cap d.hours)
<1>1. "frozen" \in Columns
  BY DEF Columns
<1> QED
  BY <1>1, Put DEF freeze

\* Their windows' pools are written.
LEMMA WritePeriods ==
    ASSUME NEW d, DOMAIN d = Columns, NEW c
    PROVE  /\ ButFor(write_protocol_periods(d, c), d, "periods")
           /\ write_protocol_periods(d, c).periods =
                 [h \in DOMAIN d.periods \cup Freezing(c) |->
                    IF h \in Freezing(c) THEN {x.pool : x \in WindowSwaps(d, h)} ELSE d.periods[h]]
<1>1. "periods" \in Columns
  BY DEF Columns
<1> QED
  BY <1>1, Put DEF write_protocol_periods

\* And the ranking of the last one.
LEMMA WriteRanking ==
    ASSUME NEW d, DOMAIN d = Columns, NEW c
    PROVE  /\ ButFor(write_token_periods(d, c), d, "ranking")
           /\ c.freeze_through = None => write_token_periods(d, c).ranking = d.ranking
           /\ c.freeze_through # None =>
                 IF WindowSwaps(d, c.freeze_through) = {}
                 THEN write_token_periods(d, c).ranking = None
                 ELSE write_token_periods(d, c).ranking.hour = c.freeze_through
<1>1. "ranking" \in Columns
  BY DEF Columns
<1>2. ButFor(d, d, "ranking")
  BY DEF ButFor
<1> QED
  BY <1>1, <1>2, Put DEF write_token_periods, Ranking

\* What no lemma here reads: the ceilings.
LEMMA Ceilings ==
    ASSUME NEW d, DOMAIN d = Columns
    PROVE  /\ ButFor(refresh_token_pool_ceilings(d), d, "ceilings")
<1>1. "ceilings" \in Columns
  BY DEF Columns
<1> QED
  BY <1>1, Put DEF refresh_token_pool_ceilings

\* The reading of the TVL is one column.
LEMMA MeasureTvl ==
    ASSUME NEW d, DOMAIN d = Columns, NEW c
    PROVE  /\ ButFor(measure_tvl(d, c), d, "tvl")
<1>1. "tvl" \in Columns
  BY DEF Columns
<1>2. ButFor(d, d, "tvl")
  BY DEF ButFor
<1> QED
  BY <1>1, <1>2, Put DEF measure_tvl

\* And what was discovered another.
LEMMA MeasureDiscovered ==
    ASSUME NEW d, DOMAIN d = Columns, NEW c
    PROVE  /\ ButFor(measure_discovered_tvl(d, c), d, "discovered")
<1>1. "discovered" \in Columns
  BY DEF Columns
<1>2. ButFor(d, d, "discovered")
  BY DEF ButFor
<1> QED
  BY <1>1, <1>2, Put DEF measure_discovered_tvl

\* The ranking of the window that ends at h, on the hours of the tables e.
RankedOn(e, h) ==
    IF UNION {e.hourly[g] : g \in WindowHours(h) \cap DOMAIN e.hourly} = {}
    THEN e.ranking = None ELSE e.ranking.hour = h

\* The tables e, once the cycle c is written into d.
IsWritten(e, d, A, c) ==
    /\ DOMAIN e = Columns
    /\ e.swaps = d.swaps \cup OfTranches(A, c)
    /\ e.moves = d.moves \cup OfTranches(A, c)
    /\ e.tranches = [t \in DOMAIN d.tranches \cup CycleTranches(c) |->
                       t \in CycleTranches(c) \/ d.tranches[t]]
    /\ \E g : /\ g.swaps = e.swaps /\ g.tranches = e.tranches /\ g.runs = d.runs
              /\ DOMAIN g = Columns /\ e.runs = write_rotation_runs(g, c).runs
    /\ e.hours = d.hours \cup CycleHours(c)
    /\ e.frozen = d.frozen \cup (Freezing(c) \cap e.hours)
    /\ e.hourly = [h \in DOMAIN d.hourly \cup CycleHours(c) |->
                     IF h \in CycleHours(c) THEN InSpan(e.swaps, h, h + Hour)
                     ELSE d.hourly[h]]
    /\ e.protocolHourly = [h \in DOMAIN d.protocolHourly \cup CycleHours(c) |->
                             IF h \in CycleHours(c) THEN e.hourly[h]
                             ELSE d.protocolHourly[h]]
    /\ e.liquidityHourly = [h \in DOMAIN d.liquidityHourly \cup Summable(d, c) |->
                              IF h \in Summable(d, c) THEN InSpan(e.moves, h, h + Hour)
                              ELSE d.liquidityHourly[h]]
    /\ e.births = [h \in DOMAIN d.births \cup CycleHours(c) |->
                     IF h \in CycleHours(c) THEN InSpan(A, h, h + Hour)
                     ELSE d.births[h]]
    /\ e.changes = [h \in DOMAIN d.changes \cup Counted(d, c) |->
                      IF h \in Kept(d, c) THEN d.changes[h] ELSE InSpan(A, h, h + Hour)]
    /\ e.periods = [h \in DOMAIN d.periods \cup Freezing(c) |->
                      IF h \in Freezing(c)
                      THEN {x.pool : x \in UNION {e.hourly[g] :
                               g \in WindowHours(h) \cap DOMAIN e.hourly}}
                      ELSE d.periods[h]]
    /\ c.freeze_through = None => e.ranking = d.ranking
    /\ c.freeze_through # None => RankedOn(e, c.freeze_through)

\* The statements of Written, in their order, leave that.
LEMMA WrittenIs ==
    ASSUME NEW d, DOMAIN d = Columns, NEW A, NEW c
    PROVE  IsWritten(Written(d, A, c), d, A, c)
<1>1. PICK e1 : /\ e1 = value_tranche(d, A, c) /\ DOMAIN e1 = Columns
                /\ \A j \in Columns \ {"swaps"} : e1[j] = d[j]
  <2>1. ButFor(value_tranche(d, A, c), d, "swaps")
    BY ValueTranche, Zenon
  <2> QED
    BY <2>1, Zenon DEF ButFor
<1>2. PICK e2 : /\ e2 = value_liquidity_tranche(e1, A, c) /\ DOMAIN e2 = Columns
                /\ \A j \in Columns \ {"moves"} : e2[j] = e1[j]
  <2>1. ButFor(value_liquidity_tranche(e1, A, c), e1, "moves")
    BY <1>1, ValueLiquidity, Zenon
  <2> QED
    BY <2>1, Zenon DEF ButFor
<1>3. PICK e3 : /\ e3 = value_claims_tranche(e2, A, c) /\ DOMAIN e3 = Columns
                /\ \A j \in Columns \ {"claims"} : e3[j] = e2[j]
  <2>1. ButFor(value_claims_tranche(e2, A, c), e2, "claims")
    BY <1>2, ValueClaims, Zenon
  <2> QED
    BY <2>1, Zenon DEF ButFor
<1>4. PICK e4 : /\ e4 = record_tranches(e3, c) /\ DOMAIN e4 = Columns
                /\ \A j \in Columns \ {"tranches"} : e4[j] = e3[j]
  <2>1. ButFor(record_tranches(e3, c), e3, "tranches")
    BY <1>3, RecordTranches, Zenon
  <2> QED
    BY <2>1, Zenon DEF ButFor
<1>5. PICK e5 : /\ e5 = write_rotation_runs(e4, c) /\ DOMAIN e5 = Columns
                /\ \A j \in Columns \ {"runs"} : e5[j] = e4[j]
  <2>1. ButFor(write_rotation_runs(e4, c), e4, "runs")
    BY <1>4, WriteRuns, Zenon
  <2> QED
    BY <2>1, Zenon DEF ButFor
<1>6. PICK e6 : /\ e6 = upsert_pool_hourly(e5, c) /\ DOMAIN e6 = Columns
                /\ \A j \in Columns \ {"hourly"} : e6[j] = e5[j]
  <2>1. ButFor(upsert_pool_hourly(e5, c), e5, "hourly")
    BY <1>5, UpsertHourly, Zenon
  <2> QED
    BY <2>1, Zenon DEF ButFor
<1>7. PICK e7 : /\ e7 = upsert_protocol_hourly(e6, c) /\ DOMAIN e7 = Columns
                /\ \A j \in Columns \ {"protocolHourly"} : e7[j] = e6[j]
  <2>1. ButFor(upsert_protocol_hourly(e6, c), e6, "protocolHourly")
    BY <1>6, UpsertProtocols, Zenon
  <2> QED
    BY <2>1, Zenon DEF ButFor
<1>8. PICK e8 : /\ e8 = upsert_liquidity_hourly(e7, c) /\ DOMAIN e8 = Columns
                /\ \A j \in Columns \ {"liquidityHourly"} : e8[j] = e7[j]
  <2>1. ButFor(upsert_liquidity_hourly(e7, c), e7, "liquidityHourly")
    BY <1>7, UpsertLiquidity, Zenon
  <2> QED
    BY <2>1, Zenon DEF ButFor
<1>9. PICK e9 : /\ e9 = upsert_births(e8, A, c) /\ DOMAIN e9 = Columns
                /\ \A j \in Columns \ {"births"} : e9[j] = e8[j]
  <2>1. ButFor(upsert_births(e8, A, c), e8, "births")
    BY <1>8, UpsertBirths, Zenon
  <2> QED
    BY <2>1, Zenon DEF ButFor
<1>10. PICK e10 : /\ e10 = upsert_position_changes(e9, A, c) /\ DOMAIN e10 = Columns
                  /\ \A j \in Columns \ {"changes"} : e10[j] = e9[j]
  <2>1. ButFor(upsert_position_changes(e9, A, c), e9, "changes")
    BY <1>9, UpsertChanges, Zenon
  <2> QED
    BY <2>1, Zenon DEF ButFor
<1>11. PICK e11 : /\ e11 = record_hours(e10, c) /\ DOMAIN e11 = Columns
                  /\ \A j \in Columns \ {"hours"} : e11[j] = e10[j]
  <2>1. ButFor(record_hours(e10, c), e10, "hours")
    BY <1>10, RecordHours, Zenon
  <2> QED
    BY <2>1, Zenon DEF ButFor
<1>12. PICK e12 : /\ e12 = freeze(e11, c) /\ DOMAIN e12 = Columns
                  /\ \A j \in Columns \ {"frozen"} : e12[j] = e11[j]
  <2>1. ButFor(freeze(e11, c), e11, "frozen")
    BY <1>11, Freeze, Zenon
  <2> QED
    BY <2>1, Zenon DEF ButFor
<1>13. PICK e13 : /\ e13 = write_protocol_periods(e12, c) /\ DOMAIN e13 = Columns
                  /\ \A j \in Columns \ {"periods"} : e13[j] = e12[j]
  <2>1. ButFor(write_protocol_periods(e12, c), e12, "periods")
    BY <1>12, WritePeriods, Zenon
  <2> QED
    BY <2>1, Zenon DEF ButFor
<1>14. PICK e14 : /\ e14 = write_token_periods(e13, c) /\ DOMAIN e14 = Columns
                  /\ \A j \in Columns \ {"ranking"} : e14[j] = e13[j]
  <2>1. ButFor(write_token_periods(e13, c), e13, "ranking")
    BY <1>13, WriteRanking, Zenon
  <2> QED
    BY <2>1, Zenon DEF ButFor
<1>15. PICK e15 : /\ e15 = refresh_token_pool_ceilings(e14) /\ DOMAIN e15 = Columns
                  /\ \A j \in Columns \ {"ceilings"} : e15[j] = e14[j]
  <2>1. ButFor(refresh_token_pool_ceilings(e14), e14, "ceilings")
    BY <1>14, Ceilings, Zenon
  <2> QED
    BY <2>1, Zenon DEF ButFor
<1>16. PICK e16 : /\ e16 = measure_tvl(e15, c) /\ DOMAIN e16 = Columns
                  /\ \A j \in Columns \ {"tvl"} : e16[j] = e15[j]
  <2>1. ButFor(measure_tvl(e15, c), e15, "tvl")
    BY <1>15, MeasureTvl, Zenon
  <2> QED
    BY <2>1, Zenon DEF ButFor
<1>17. PICK e : /\ e = measure_discovered_tvl(e16, c) /\ DOMAIN e = Columns
                /\ \A j \in Columns \ {"discovered"} : e[j] = e16[j]
  <2>1. ButFor(measure_discovered_tvl(e16, c), e16, "discovered")
    BY <1>16, MeasureDiscovered, Zenon
  <2> QED
    BY <2>1, Zenon DEF ButFor
<1>18. Written(d, A, c) = e
  BY <1>1, <1>2, <1>3, <1>4, <1>5, <1>6, <1>7, <1>8, <1>9, <1>10, <1>11, <1>12, <1>13, <1>14,
     <1>15, <1>16, <1>17, Zenon DEF Written
<1>20. /\ e1.swaps = d.swaps \cup OfTranches(A, c)
       /\ e2.moves = e1.moves \cup OfTranches(A, c)
  BY <1>1, <1>2, ValueTranche, ValueLiquidity
<1>21. e4.tranches = [t \in DOMAIN e3.tranches \cup CycleTranches(c) |->
                        t \in CycleTranches(c) \/ e3.tranches[t]]
  BY <1>3, <1>4, RecordTranches
<1>22. e6.hourly = [h \in DOMAIN e5.hourly \cup CycleHours(c) |->
                      IF h \in CycleHours(c) THEN InSpan(e5.swaps, h, h + Hour) ELSE e5.hourly[h]]
  BY <1>5, <1>6, UpsertHourly
<1>23. e7.protocolHourly = [h \in DOMAIN e6.protocolHourly \cup CycleHours(c) |->
                              IF h \in CycleHours(c) THEN e6.hourly[h] ELSE e6.protocolHourly[h]]
  BY <1>6, <1>7, UpsertProtocols
<1>24. e8.liquidityHourly = [h \in DOMAIN e7.liquidityHourly \cup Summable(e7, c) |->
                               IF h \in Summable(e7, c) THEN InSpan(e7.moves, h, h + Hour)
                               ELSE e7.liquidityHourly[h]]
  BY <1>7, <1>8, UpsertLiquidity
<1>25. e9.births = [h \in DOMAIN e8.births \cup CycleHours(c) |->
                      IF h \in CycleHours(c) THEN InSpan(A, h, h + Hour) ELSE e8.births[h]]
  BY <1>8, <1>9, UpsertBirths
<1>26. e10.changes = [h \in DOMAIN e9.changes \cup Counted(e9, c) |->
                        IF h \in Kept(e9, c) THEN e9.changes[h] ELSE InSpan(A, h, h + Hour)]
  BY <1>9, <1>10, UpsertChanges
<1>27. /\ e11.hours = e10.hours \cup CycleHours(c)
       /\ e12.frozen = e11.frozen \cup (Freezing(c) \cap e11.hours)
  BY <1>10, <1>11, <1>12, RecordHours, Freeze
<1>28. e13.periods = [h \in DOMAIN e12.periods \cup Freezing(c) |->
                        IF h \in Freezing(c) THEN {x.pool : x \in WindowSwaps(e12, h)}
                        ELSE e12.periods[h]]
  BY <1>12, <1>13, WritePeriods
<1>29. /\ c.freeze_through = None => e14.ranking = e13.ranking
       /\ c.freeze_through # None => IF WindowSwaps(e13, c.freeze_through) = {}
                                    THEN e14.ranking = None
                                    ELSE e14.ranking.hour = c.freeze_through
  BY <1>13, <1>14, WriteRanking
<1>30. e5.runs = write_rotation_runs(e4, c).runs
  BY <1>5
<1>31. /\ e.swaps = e1.swaps /\ e4.swaps = e1.swaps /\ e5.swaps = e1.swaps
  BY <1>2, <1>3, <1>4, <1>5, <1>6, <1>7, <1>8, <1>9, <1>10, <1>11, <1>12, <1>13, <1>14, <1>15, <1>16,
     <1>17 DEF Columns
<1>32. /\ e1.moves = d.moves /\ e7.moves = e2.moves /\ e.moves = e2.moves
  BY <1>1, <1>3, <1>4, <1>5, <1>6, <1>7, <1>8, <1>9, <1>10, <1>11, <1>12, <1>13, <1>14, <1>15, <1>16,
     <1>17 DEF Columns
<1>33. /\ e3.tranches = d.tranches /\ e.tranches = e4.tranches
  BY <1>1, <1>2, <1>3, <1>5, <1>6, <1>7, <1>8, <1>9, <1>10, <1>11, <1>12, <1>13, <1>14, <1>15, <1>16,
     <1>17 DEF Columns
<1>34. /\ e4.runs = d.runs /\ e.runs = e5.runs
  BY <1>1, <1>2, <1>3, <1>4, <1>6, <1>7, <1>8, <1>9, <1>10, <1>11, <1>12, <1>13, <1>14, <1>15, <1>16,
     <1>17 DEF Columns
<1>35. /\ e5.hourly = d.hourly /\ e.hourly = e6.hourly /\ e12.hourly = e6.hourly
  BY <1>1, <1>2, <1>3, <1>4, <1>5, <1>7, <1>8, <1>9, <1>10, <1>11, <1>12, <1>13, <1>14, <1>15, <1>16,
     <1>17 DEF Columns
<1>36. /\ e6.protocolHourly = d.protocolHourly /\ e.protocolHourly = e7.protocolHourly
  BY <1>1, <1>2, <1>3, <1>4, <1>5, <1>6, <1>8, <1>9, <1>10, <1>11, <1>12, <1>13, <1>14, <1>15, <1>16,
     <1>17 DEF Columns
<1>37. /\ e7.liquidityHourly = d.liquidityHourly /\ e.liquidityHourly = e8.liquidityHourly
  BY <1>1, <1>2, <1>3, <1>4, <1>5, <1>6, <1>7, <1>9, <1>10, <1>11, <1>12, <1>13, <1>14, <1>15, <1>16,
     <1>17 DEF Columns
<1>38. /\ e8.births = d.births /\ e.births = e9.births
  BY <1>1, <1>2, <1>3, <1>4, <1>5, <1>6, <1>7, <1>8, <1>10, <1>11, <1>12, <1>13, <1>14, <1>15, <1>16,
     <1>17 DEF Columns
<1>39. /\ e9.changes = d.changes /\ e.changes = e10.changes
  BY <1>1, <1>2, <1>3, <1>4, <1>5, <1>6, <1>7, <1>8, <1>9, <1>11, <1>12, <1>13, <1>14, <1>15, <1>16,
     <1>17 DEF Columns
<1>40. /\ e10.hours = d.hours /\ e.hours = e11.hours
  BY <1>1, <1>2, <1>3, <1>4, <1>5, <1>6, <1>7, <1>8, <1>9, <1>10, <1>12, <1>13, <1>14, <1>15, <1>16,
     <1>17 DEF Columns
<1>41. /\ e11.frozen = d.frozen /\ e.frozen = e12.frozen
  BY <1>1, <1>2, <1>3, <1>4, <1>5, <1>6, <1>7, <1>8, <1>9, <1>10, <1>11, <1>13, <1>14, <1>15, <1>16,
     <1>17 DEF Columns
<1>42. /\ e12.periods = d.periods /\ e.periods = e13.periods
  BY <1>1, <1>2, <1>3, <1>4, <1>5, <1>6, <1>7, <1>8, <1>9, <1>10, <1>11, <1>12, <1>14, <1>15, <1>16,
     <1>17 DEF Columns
<1>43. /\ e13.ranking = d.ranking /\ e.ranking = e14.ranking
  BY <1>1, <1>2, <1>3, <1>4, <1>5, <1>6, <1>7, <1>8, <1>9, <1>10, <1>11, <1>12, <1>13, <1>15, <1>16,
     <1>17 DEF Columns
<1>44. \E g : /\ g.swaps = e.swaps /\ g.tranches = e.tranches /\ g.runs = d.runs
              /\ DOMAIN g = Columns /\ e.runs = write_rotation_runs(g, c).runs
  BY <1>4, <1>30, <1>31, <1>33, <1>34
<1>45. \A h : WindowSwaps(e12, h) = UNION {e.hourly[g] : g \in WindowHours(h) \cap DOMAIN e.hourly}
  BY <1>35 DEF WindowSwaps
<1>46. e.periods = [h \in DOMAIN d.periods \cup Freezing(c) |->
                      IF h \in Freezing(c)
                      THEN {x.pool : x \in UNION {e.hourly[g] :
                               g \in WindowHours(h) \cap DOMAIN e.hourly}}
                      ELSE d.periods[h]]
  BY <1>28, <1>42, <1>45
<1>ranked. c.freeze_through # None => RankedOn(e, c.freeze_through)
  <2>1. e13.hourly = e12.hourly
    BY <1>13 DEF Columns
  <2>2. WindowSwaps(e13, c.freeze_through) = WindowSwaps(e12, c.freeze_through)
    BY <2>1 DEF WindowSwaps
  <2>3. PICK u : u = UNION {e.hourly[g] : g \in WindowHours(c.freeze_through) \cap DOMAIN e.hourly}
    OBVIOUS
  <2>4. WindowSwaps(e13, c.freeze_through) = u
    BY <1>45, <2>2, <2>3
  <2>5. c.freeze_through # None => IF u = {} THEN e.ranking = None
                                   ELSE e.ranking.hour = c.freeze_through
    BY <1>29, <1>43, <2>4
  <2> QED
    BY <2>3, <2>5 DEF RankedOn
<1>47. /\ e.swaps = d.swaps \cup OfTranches(A, c)
       /\ e.moves = d.moves \cup OfTranches(A, c)
       /\ e.tranches = [t \in DOMAIN d.tranches \cup CycleTranches(c) |->
                          t \in CycleTranches(c) \/ d.tranches[t]]
       /\ e.hours = d.hours \cup CycleHours(c)
       /\ e.frozen = d.frozen \cup (Freezing(c) \cap e.hours)
       /\ c.freeze_through = None => e.ranking = d.ranking
       /\ c.freeze_through # None => RankedOn(e, c.freeze_through)
  BY <1>20, <1>21, <1>27, <1>29, <1>ranked, <1>31, <1>32, <1>33, <1>40, <1>41, <1>43, Zenon
<1>48. /\ e.hourly = [h \in DOMAIN d.hourly \cup CycleHours(c) |->
                        IF h \in CycleHours(c) THEN InSpan(e.swaps, h, h + Hour) ELSE d.hourly[h]]
       /\ e.protocolHourly = [h \in DOMAIN d.protocolHourly \cup CycleHours(c) |->
                                IF h \in CycleHours(c) THEN e.hourly[h] ELSE d.protocolHourly[h]]
       /\ e.births = [h \in DOMAIN d.births \cup CycleHours(c) |->
                        IF h \in CycleHours(c) THEN InSpan(A, h, h + Hour) ELSE d.births[h]]
  BY <1>22, <1>23, <1>25, <1>31, <1>35, <1>36, <1>38, Zenon
<1>49. Summable(e7, c) = Summable(d, c) /\ Counted(e9, c) = Counted(d, c)
       /\ Kept(e9, c) = Kept(d, c)
  BY <1>37, <1>39 DEF Summable, Counted, Kept
<1>50. /\ e.liquidityHourly = [h \in DOMAIN d.liquidityHourly \cup Summable(d, c) |->
                                 IF h \in Summable(d, c) THEN InSpan(e.moves, h, h + Hour)
                                 ELSE d.liquidityHourly[h]]
       /\ e.changes = [h \in DOMAIN d.changes \cup Counted(d, c) |->
                         IF h \in Kept(d, c) THEN d.changes[h] ELSE InSpan(A, h, h + Hour)]
  BY <1>24, <1>26, <1>32, <1>37, <1>39, <1>49, Zenon
<1>51. IsWritten(e, d, A, c)
  BY <1>17, <1>44, <1>46, <1>47, <1>48, <1>50 DEF IsWritten
<1> QED
  BY <1>18, <1>51, Zenon

-----------------------------------------------------------------------------
(***************************************************************************)
(* The times of the tables and of the cycles planned.                      *)
(***************************************************************************)

PlansFresh(cs, n) == \A w \in Writers : cs[w] # None => Timely(cs[w], n) /\ FreshPlan(cs[w])
PlansOld(cs, n, f, lf, b) ==
    \A w \in Writers : cs[w] # None => Timely(cs[w], n) /\ OldPlan(cs[w], n, f, lf, b)

Times(d, cs, n) ==
    \/ NothingYet(d) /\ PlansFresh(cs, n)
    \/ \E f, lf, b : Shape(d, f, lf, b) /\ f <= n /\ b < n /\ PlansOld(cs, n, f, lf, b)

\* A cycle written leaves the tables with the ends it gives them.
LEMMA EffectShapes ==
    ASSUME NEW d, NEW A, NEW c, NEW f, NEW lf, NEW b, Effect(d, c, f, lf, b),
           NEW e, IsWritten(e, d, A, c)
    PROVE  Shape(e, f, lf, b)
<1>1. /\ e.hours = d.hours \cup CycleHours(c)
      /\ e.frozen = d.frozen \cup (Freezing(c) \cap e.hours)
      /\ DOMAIN e.tranches = DOMAIN d.tranches \cup CycleTranches(c)
  BY DEF IsWritten
<1>2. /\ IsHour(f) /\ IsHour(lf) /\ b \in Int
      /\ f - Hour <= lf /\ lf + Hour - 1 <= b
      /\ DOMAIN d.tranches \cup CycleTranches(c) = f .. b
      /\ f \in d.hours \cup CycleHours(c) /\ \A h \in d.hours \cup CycleHours(c) : IsHour(h) /\ f <= h
      /\ d.frozen \cup Freezing(c) = HoursBetween(f, lf)
      /\ Freezing(c) \subseteq CycleHours(c)
  BY DEF Effect
<1>3. e.frozen = HoursBetween(f, lf)
  BY <1>1, <1>2
<1> QED
  BY <1>1, <1>2, <1>3 DEF Shape

\* The plans that wait while another is written on empty tables.
LEMMA WaitFresh ==
    ASSUME NEW n \in Int, NEW c, Timely(c, n), FreshPlan(c),
           NEW g, Timely(g, n), FreshPlan(g), NEW b \in Int, b < n,
           b = c.from - 1 \/ (b = c.tranches_through /\ c.from <= b)
    PROVE  OldPlan(g, n, c.from, c.from - Hour, b)
<1>0. Hour \in Nat /\ Hour > 0
  BY TimesAssumption
<1>1. /\ c.at \in Int /\ g.at \in Int /\ c.at \in {n - 1, n} /\ g.at \in {n - 1, n}
      /\ c.from = hour_of(c.at) /\ g.from = hour_of(g.at) /\ g.tranches_from = g.from
      /\ g.freeze_through = None /\ g.tranches_through \in Int /\ c.tranches_through \in Int
      /\ g.tranches_through <= g.at - 1 /\ c.tranches_through <= c.at - 1
      /\ c.from \in Int /\ g.from \in Int /\ IsHour(c.from) /\ IsHour(g.from)
  BY DEF Timely, FreshPlan, IsHour, Cycles
<1>2. /\ c.from <= c.at /\ c.at < c.from + Hour /\ g.from <= g.at /\ g.at < g.from + Hour
  BY <1>1, HourOf
<1>3. ASSUME g.from < c.from
      PROVE  b < c.from /\ c.from = n /\ g.from = c.from - Hour /\ g.at = n - 1
  <2>1. g.from + Hour <= c.from
    BY <1>1, <1>3, HoursApart
  <2>2. c.at = n /\ g.at = n - 1 /\ c.from = n /\ g.from + Hour = n
    BY <1>0, <1>1, <1>2, <2>1
  <2> QED
    BY <1>0, <1>1, <2>2
<1>4. ASSUME c.from < g.from
      PROVE  g.tranches_through < g.from
  <2>1. c.from + Hour <= g.from
    BY <1>1, <1>4, HoursApart
  <2>2. g.at = n /\ g.from = n
    BY <1>0, <1>1, <1>2, <2>1
  <2> QED
    BY <1>1, <2>2
<1>5. /\ g.from < c.from =>
            /\ b < c.from /\ c.from = n /\ g.from = c.from - Hour /\ g.at = n - 1
            /\ g.tranches_from <= g.from /\ g.freeze_through = None
      /\ g.from <= c.from - Hour + Hour \/ (g.tranches_through < g.from /\ g.freeze_through = None)
      /\ g.tranches_from <= g.from
  BY <1>0, <1>1, <1>3, <1>4
<1> QED
  BY <1>5 DEF OldPlan

\* The plans that wait while one made in the hour before is written.
LEMMA WaitEarly ==
    ASSUME NEW n \in Int, NEW f, NEW lf, NEW b0, NEW b, IsHour(f), IsHour(lf), b0 \in Int,
           lf + Hour - 1 <= b0, b0 < f, f = n,
           NEW g, Timely(g, n), OldPlan(g, n, f, lf, b0)
    PROVE  OldPlan(g, n, f - Hour, f - Hour - Hour, b)
<1>0. Hour \in Nat /\ Hour > 0
  BY TimesAssumption
<1>1. /\ g.at \in Int /\ g.at \in {n - 1, n} /\ f \in Int /\ lf \in Int
      /\ g.tranches_through \in Int /\ g.tranches_from \in Int
      /\ g.tranches_through <= g.at - 1 /\ g.from <= g.through /\ g.through <= g.at /\ g.through \in Int
      /\ g.from \in Int /\ IsHour(g.from)
      /\ (g.freeze_through # None =>
            g.freeze_through \in Int /\ g.from <= g.freeze_through /\ g.freeze_through <= g.at - Hour)
      /\ (g.tranches_from <= g.from \/ g.tranches_from <= b0 + 1)
      /\ (g.from < f => g.from = f - Hour /\ g.tranches_from <= g.from)
  BY DEF Timely, OldPlan, IsHour, Cycles
<1>2. CASE g.from < f
  BY <1>0, <1>1, <1>2 DEF OldPlan
<1>3. CASE ~(g.from < f)
  <2>1. g.from = n /\ g.at = n
    BY <1>1, <1>3
  <2>2. g.freeze_through = None
    BY <1>0, <1>1, <2>1
  <2>3. g.tranches_from <= g.from /\ g.tranches_through < g.from
    BY <1>1, <2>1
  <2> QED
    BY <1>0, <1>1, <1>3, <2>2, <2>3 DEF OldPlan
<1> QED
  BY <1>2, <1>3

\* The others wait for the tables to go on.
LEMMA WaitNext ==
    ASSUME NEW n \in Int, NEW f \in Int, NEW lf \in Int, NEW b0 \in Int, NEW l \in Int, NEW b \in Int,
           lf <= l, b0 <= b, b < n, NEW g, Timely(g, n), OldPlan(g, n, f, lf, b0)
    PROVE  OldPlan(g, n, f, l, b)
<1>0. Hour \in Nat /\ Hour > 0
  BY TimesAssumption
<1>1. g.from \in Int /\ g.tranches_from \in Int
  BY DEF Timely, Cycles
<1> QED
  BY <1>0, <1>1 DEF OldPlan

\* The cycle written is the one planned, but for what was written since, and
\* those that wait still begin in what the tables hold or where they end.
LEMMA Locking ==
    ASSUME NEW d, NEW cs, DOMAIN cs = Writers, NEW n \in Int, Times(d, cs, n),
           NEW v \in Writers, cs[v] # None
    PROVE  \E f, lf, b : /\ Effect(d, without_written(cs[v], Progress(d)), f, lf, b)
                         /\ f <= n /\ b < n /\ PlansOld([cs EXCEPT ![v] = None], n, f, lf, b)
<1> DEFINE c == cs[v]
           w == without_written(c, Progress(d))
           rest == [cs EXCEPT ![v] = None]
<1>0. Hour \in Nat /\ Hour > 0
  BY TimesAssumption
<1>1. \A u \in Writers : rest[u] # None => rest[u] = cs[u]
  OBVIOUS
<1> HIDE DEF rest
<1>2. CASE NothingYet(d) /\ PlansFresh(cs, n)
  <2>1. Timely(c, n) /\ FreshPlan(c)
    BY <1>2 DEF PlansFresh
  <2> HIDE DEF c
  <2>2. PICK b : /\ Effect(d, w, c.from, c.from - Hour, b) /\ b < n
                 /\ b = c.from - 1 \/ (b = c.tranches_through /\ c.from <= b)
    BY <1>2, <2>1, LockFresh
  <2>3. b \in Int /\ c.from <= n
    <3>1. c.from \in Int /\ c.tranches_through \in Int /\ c.from = hour_of(c.at) /\ c.at \in {n - 1, n}
      BY <2>1 DEF Timely, FreshPlan, Cycles
    <3>2. c.from <= c.at
      BY <3>1, HourOf
    <3> QED
      BY <2>2, <3>1, <3>2
  <2>4. ASSUME NEW u \in Writers, rest[u] # None
        PROVE  Timely(rest[u], n) /\ OldPlan(rest[u], n, c.from, c.from - Hour, b)
    <3>1. PICK g : g = rest[u]
      OBVIOUS
    <3>2. Timely(g, n) /\ FreshPlan(g)
      BY <1>1, <1>2, <2>4, <3>1 DEF PlansFresh
    <3>3. OldPlan(g, n, c.from, c.from - Hour, b)
      BY <2>1, <2>2, <2>3, <3>2, WaitFresh
    <3> QED
      BY <3>1, <3>2, <3>3
  <2>5. PlansOld(rest, n, c.from, c.from - Hour, b)
    BY <2>4 DEF PlansOld
  <2> QED
    BY <2>2, <2>3, <2>5 DEF c, rest
<1>3. ASSUME NEW f, NEW lf, NEW b0, Shape(d, f, lf, b0), f <= n, b0 < n, PlansOld(cs, n, f, lf, b0)
      PROVE  \E g, l, b : Effect(d, w, g, l, b) /\ g <= n /\ b < n /\ PlansOld(rest, n, g, l, b)
  <2>1. Timely(c, n) /\ OldPlan(c, n, f, lf, b0)
    BY <1>3 DEF PlansOld
  <2>2. /\ f \in Int /\ lf \in Int /\ b0 \in Int /\ IsHour(f) /\ IsHour(lf) /\ lf + Hour - 1 <= b0
        /\ c.from \in Int
    BY <1>3, <2>1 DEF Shape, IsHour, Timely
  <2>3. \A u \in Writers : rest[u] # None => Timely(rest[u], n) /\ OldPlan(rest[u], n, f, lf, b0)
    BY <1>1, <1>3 DEF PlansOld
  <2> HIDE DEF c
  <2>4. CASE c.from < f
    <3>1. PICK b : /\ Effect(d, w, c.from, c.from - Hour, b) /\ b < n
                   /\ c.from = f - Hour /\ f = n
      BY <1>3, <2>1, <2>4, LockEarly
    <3>2. b0 < f
      BY <2>1, <2>4 DEF OldPlan
    <3>3. ASSUME NEW u \in Writers, rest[u] # None
          PROVE  Timely(rest[u], n) /\ OldPlan(rest[u], n, c.from, c.from - Hour, b)
      <4>1. PICK g : g = rest[u]
        OBVIOUS
      <4>2. Timely(g, n) /\ OldPlan(g, n, f, lf, b0)
        BY <2>3, <3>3, <4>1
      <4>3. OldPlan(g, n, f - Hour, f - Hour - Hour, b)
        BY <2>2, <3>1, <3>2, <4>2, WaitEarly
      <4> QED
        BY <3>1, <4>1, <4>2, <4>3
    <3>4. PlansOld(rest, n, c.from, c.from - Hour, b)
      BY <3>3 DEF PlansOld
    <3>5. c.from <= n
      BY <1>0, <2>2, <3>1
    <3> QED
      BY <3>1, <3>4, <3>5
  <2>5. CASE lf + Hour < c.from
    <3>1. Effect(d, w, f, lf, b0)
      BY <1>3, <2>1, <2>5, LockLate
    <3>2. PlansOld(rest, n, f, lf, b0)
      BY <2>3 DEF PlansOld
    <3> QED
      BY <1>3, <3>1, <3>2
  <2>6. CASE f <= c.from /\ c.from <= lf + Hour
    <3>1. PICK l, b : Effect(d, w, f, l, b) /\ b < n /\ b0 <= b /\ lf <= l
      BY <1>3, <2>1, <2>6, LockNext
    <3>2. l \in Int /\ b \in Int
      BY <3>1 DEF Effect, IsHour
    <3>3. ASSUME NEW u \in Writers, rest[u] # None
          PROVE  Timely(rest[u], n) /\ OldPlan(rest[u], n, f, l, b)
      <4>1. PICK g : g = rest[u]
        OBVIOUS
      <4>2. Timely(g, n) /\ OldPlan(g, n, f, lf, b0)
        BY <2>3, <3>3, <4>1
      <4>3. OldPlan(g, n, f, l, b)
        BY <2>2, <3>1, <3>2, <4>2, WaitNext
      <4> QED
        BY <4>1, <4>2, <4>3
    <3>4. PlansOld(rest, n, f, l, b)
      BY <3>3 DEF PlansOld
    <3> QED
      BY <1>3, <3>1, <3>4
  <2> QED
    BY <1>0, <2>2, <2>4, <2>5, <2>6
<1>4. \E g, l, b : Effect(d, w, g, l, b) /\ g <= n /\ b < n /\ PlansOld(rest, n, g, l, b)
  <2>1. CASE NothingYet(d) /\ PlansFresh(cs, n)
    BY <1>2, <2>1 DEF rest
  <2>2. CASE \E f, lf, b : Shape(d, f, lf, b) /\ f <= n /\ b < n /\ PlansOld(cs, n, f, lf, b)
    BY <1>3, <2>2
  <2> QED
    BY <2>1, <2>2 DEF Times
<1> QED
  BY <1>4 DEF rest, w, c

TimesInv ==
    /\ now \in Int /\ DOMAIN db = Columns /\ DOMAIN cycle = Writers
    /\ Times(db, cycle, now)

\* The tables before the first cycle.
LEMMA Tables ==
    /\ DOMAIN FreshTables = Columns /\ DOMAIN OldTables = Columns
    /\ FreshTables.hours = {} /\ FreshTables.frozen = {} /\ DOMAIN FreshTables.tranches = {}
    /\ OldTables.hours = {0, Hour, 2 * Hour} /\ OldTables.frozen = {0, Hour}
    /\ OldTables.tranches = [t \in 0 .. 2 * Hour - 1 |-> FALSE]
<1>1. /\ DOMAIN FreshTables = Columns
      /\ FreshTables.hours = {} /\ FreshTables.frozen = {} /\ FreshTables.tranches = NoRows
  BY DEF FreshTables, Columns
<1>2. DOMAIN NoRows = {}
  BY DEF NoRows
<1>3. DOMAIN OldTables = Columns
  BY <1>1 DEF OldTables
<1>4. /\ OldTables.hours = {0, Hour, 2 * Hour} /\ OldTables.frozen = {0, Hour}
      /\ OldTables.tranches = [t \in 0 .. 2 * Hour - 1 |-> FALSE]
  BY <1>1 DEF OldTables, Columns
<1> QED
  BY <1>1, <1>2, <1>3, <1>4

\* Those of the release before are frozen through their second hour.
LEMMA OldShape == Shape(OldTables, 0, Hour, 2 * Hour - 1)
<1>0. Hour \in Nat /\ Hour > 0
  BY TimesAssumption
<1>1. IsHour(0) /\ IsHour(Hour) /\ IsHour(2 * Hour)
  <2>1. IsHour(0)
    BY <1>0 DEF IsHour
  <2>2. IsHour(0 + Hour)
    BY <2>1, HoursApart
  <2>3. IsHour(Hour)
    BY <1>0, <2>2
  <2>4. IsHour(Hour + Hour)
    BY <2>3, HoursApart
  <2> QED
    BY <1>0, <2>1, <2>3, <2>4
<1>2. {0, Hour} = HoursBetween(0, Hour)
  <2>1. \A k : k \in HoursBetween(0, Hour) <=> IsHour(k) /\ 0 <= k /\ k <= Hour
    BY <1>1, HoursBetweenIs
  <2>2. \A k : IsHour(k) /\ 0 < k => Hour <= k
    <3>1. \A k : IsHour(k) /\ 0 < k => 0 + Hour <= k
      BY <1>1, HoursApart
    <3> QED
      BY <1>0, <3>1
  <2>3. \A k : IsHour(k) => k \in Int
    BY DEF IsHour
  <2> QED
    BY <1>0, <1>1, <2>1, <2>2, <2>3
<1>3. \A h \in {0, Hour, 2 * Hour} : IsHour(h) /\ 0 <= h
  BY <1>0, <1>1
<1> QED
  BY <1>0, <1>1, <1>2, <1>3, Tables DEF Shape

\* The times hold when the first writer starts.
LEMMA TimesStart == Init => TimesInv
<1>0. Hour \in Nat /\ Hour > 0 /\ Margin \in Nat
  BY TimesAssumption
<1> SUFFICES ASSUME Init PROVE TimesInv
  OBVIOUS
<1>1. /\ now = 2 * Hour + Margin /\ cycle = [w \in Writers |-> None]
      /\ db = OldTables \/ db = FreshTables
  BY DEF Init, FactsInit
<1>2. now \in Int /\ 0 <= now /\ 2 * Hour - 1 < now
  BY <1>0, <1>1
<1>3. PlansFresh(cycle, now) /\ PlansOld(cycle, now, 0, Hour, 2 * Hour - 1)
  BY <1>1 DEF PlansFresh, PlansOld
<1>4. Times(db, cycle, now)
  <2>1. CASE db = FreshTables
    BY <1>3, <2>1, Tables DEF Times, NothingYet
  <2>2. CASE db = OldTables
    BY <1>2, <1>3, <2>2, OldShape DEF Times
  <2> QED
    BY <1>1, <2>1, <2>2
<1> QED
  BY <1>1, <1>2, <1>4, Tables DEF TimesInv

\* Every step keeps them: a plan made, dropped or written, a tranche that ends.
LEMMA TimesStep == TimesInv /\ [Next]_vars => TimesInv'
<1> SUFFICES ASSUME TimesInv, [Next]_vars PROVE TimesInv'
  OBVIOUS
<1>1. now \in Int /\ DOMAIN db = Columns /\ DOMAIN cycle = Writers /\ Times(db, cycle, now)
  BY DEF TimesInv
<1>2. ASSUME now' \in Int, DOMAIN db' = Columns, DOMAIN cycle' = Writers, Times(db', cycle', now')
      PROVE  TimesInv'
  BY <1>2 DEF TimesInv
<1>3. CASE UNCHANGED <<now, db, cycle>>
  BY <1>1, <1>2, <1>3
<1>4. CASE Pass
  <2>1. /\ now' = now + 1 /\ db' = db /\ cycle' = cycle
        /\ \A w \in Writers : cycle[w] # None => (now + 1) - cycle[w].at <= 1
    <3>1. now' = now + 1 /\ db' = db /\ cycle' = cycle
      BY <1>4 DEF Pass
    <3>2. \A w \in Writers : cycle[w] # None => Waits(w, now + 1)
      BY <1>4, Zenon DEF Pass
    <3> QED
      BY <3>1, <3>2 DEF Waits
  <2>2. ASSUME NEW c, Timely(c, now), (now + 1) - c.at <= 1
        PROVE  /\ Timely(c, now + 1)
               /\ \A f, lf, b : OldPlan(c, now, f, lf, b) => OldPlan(c, now + 1, f, lf, b)
    <3>1. c.at = now /\ c.from \in Int
      BY <1>1, <2>2 DEF Timely, Cycles
    <3>2. Timely(c, now + 1)
      BY <1>1, <2>2, <3>1 DEF Timely
    <3>3. \A f, lf, b : OldPlan(c, now, f, lf, b) => ~(c.from < f)
      BY <1>1, <3>1 DEF OldPlan
    <3> QED
      BY <3>2, <3>3 DEF OldPlan
  <2>3. CASE NothingYet(db) /\ PlansFresh(cycle, now)
    <3>1. PlansFresh(cycle, now + 1)
      BY <2>1, <2>2, <2>3 DEF PlansFresh
    <3> QED
      BY <1>1, <1>2, <2>1, <2>3, <3>1 DEF Times
  <2>4. ASSUME NEW f, NEW lf, NEW b, Shape(db, f, lf, b), f <= now, b < now,
               PlansOld(cycle, now, f, lf, b)
        PROVE  TimesInv'
    <3>1. PlansOld(cycle, now + 1, f, lf, b)
      BY <2>1, <2>2, <2>4 DEF PlansOld
    <3>2. f <= now + 1 /\ b < now + 1
      BY <1>1, <2>4 DEF Shape, IsHour
    <3>3. Times(db', cycle', now')
      BY <2>1, <2>4, <3>1, <3>2 DEF Times
    <3> QED
      BY <1>1, <1>2, <2>1, <3>3
  <2> QED
    BY <1>1, <2>3, <2>4 DEF Times
<1>5. ASSUME NEW v \in Writers, PlanCycle(v) PROVE TimesInv'
  <2>1. /\ now' = now /\ db' = db /\ cycle' = [cycle EXCEPT ![v] = plan(now, Progress(db))]
    BY <1>5 DEF PlanCycle
  <2>2. DOMAIN cycle' = Writers
    BY <1>1, <2>1
  <2>3. \A u \in Writers : cycle'[u] = IF u = v THEN plan(now, Progress(db)) ELSE cycle[u]
    BY <1>1, <2>1
  <2>4. CASE NothingYet(db) /\ PlansFresh(cycle, now)
    <3>1. Timely(plan(now, Progress(db)), now) /\ FreshPlan(plan(now, Progress(db)))
      BY <1>1, <2>4, PlanFresh
    <3>2. PlansFresh(cycle', now)
      BY <2>3, <2>4, <3>1 DEF PlansFresh
    <3> QED
      BY <1>1, <1>2, <2>1, <2>2, <2>4, <3>2 DEF Times
  <2>5. ASSUME NEW f, NEW lf, NEW b, Shape(db, f, lf, b), f <= now, b < now,
               PlansOld(cycle, now, f, lf, b)
        PROVE  TimesInv'
    <3>1. Timely(plan(now, Progress(db)), now) /\ OldPlan(plan(now, Progress(db)), now, f, lf, b)
      BY <1>1, <2>5, PlanNext
    <3>2. PlansOld(cycle', now, f, lf, b)
      BY <2>3, <2>5, <3>1 DEF PlansOld
    <3>3. Times(db', cycle', now')
      BY <2>1, <2>5, <3>2 DEF Times
    <3> QED
      BY <1>1, <1>2, <2>1, <2>2, <3>3
  <2> QED
    BY <1>1, <2>4, <2>5 DEF Times
<1>6. ASSUME NEW v \in Writers, now' = now, db' = db, cycle' = [cycle EXCEPT ![v] = None]
      PROVE  TimesInv'
  <2>1. DOMAIN cycle' = Writers /\ \A u \in Writers : cycle'[u] # None => cycle'[u] = cycle[u]
    BY <1>1, <1>6
  <2>2. CASE NothingYet(db) /\ PlansFresh(cycle, now)
    <3>1. PlansFresh(cycle', now)
      BY <2>1, <2>2 DEF PlansFresh
    <3> QED
      BY <1>1, <1>2, <1>6, <2>1, <2>2, <3>1 DEF Times
  <2>3. ASSUME NEW f, NEW lf, NEW b, Shape(db, f, lf, b), f <= now, b < now,
               PlansOld(cycle, now, f, lf, b)
        PROVE  TimesInv'
    <3>1. PlansOld(cycle', now, f, lf, b)
      BY <2>1, <2>3 DEF PlansOld
    <3>2. Times(db', cycle', now')
      BY <1>6, <2>3, <3>1 DEF Times
    <3> QED
      BY <1>1, <1>2, <1>6, <2>1, <3>2
  <2> QED
    BY <1>1, <2>2, <2>3 DEF Times
<1>7. ASSUME NEW v \in Writers, WriteCycle(v) PROVE TimesInv'
  <2>1. PICK c : c = Locked(v)
    OBVIOUS
  <2>2. /\ cycle[v] # None /\ now' = now /\ cycle' = [cycle EXCEPT ![v] = None]
        /\ db' = db \/ db' = Written(db, arrived, c)
    BY <1>7, <2>1 DEF WriteCycle
  <2>3. CASE db' = db
    BY <1>6, <2>2, <2>3
  <2>4. CASE db' = Written(db, arrived, c)
    <3>1. PICK f, lf, b : /\ Effect(db, c, f, lf, b) /\ f <= now /\ b < now
                          /\ PlansOld([cycle EXCEPT ![v] = None], now, f, lf, b)
      BY <1>1, <2>1, <2>2, Locking DEF Locked
    <3>2. IsWritten(Written(db, arrived, c), db, arrived, c)
      BY <1>1, WrittenIs
    <3>3. Shape(db', f, lf, b) /\ DOMAIN db' = Columns
      <4>1. PICK e : e = db'
        OBVIOUS
      <4>2. IsWritten(e, db, arrived, c)
        BY <2>4, <3>2, <4>1
      <4>3. Shape(e, f, lf, b)
        BY <3>1, <4>2, EffectShapes
      <4>4. DOMAIN e = Columns
        BY <4>2 DEF IsWritten
      <4> QED
        BY <4>1, <4>3, <4>4
    <3>4. Times(db', cycle', now')
      BY <2>2, <3>1, <3>3 DEF Times
    <3>5. DOMAIN cycle' = Writers
      BY <1>1, <2>2
    <3> QED
      BY <1>1, <1>2, <2>2, <3>3, <3>4, <3>5
  <2> QED
    BY <2>2, <2>3, <2>4
<1>8. CASE Clock
  BY <1>4, <1>8 DEF Clock
<1>9. CASE \E x \in Txs : Arrive(x) /\ UNCHANGED readVars
  BY <1>3, <1>9 DEF Arrive
<1>10. CASE \E w \in Writers : Writer(w)
  BY <1>5, <1>6, <1>7, <1>10 DEF Writer, DropCycle
<1>11. CASE \/ Ask \/ AskSince \/ Reply \/ RankedPage \/ RankedPeriod \/ WalkRows \/ HourTokens
            \/ WalkSince \/ MovePage \/ RunPage \/ LeaveWalk \/ \E l \in Lists : StartWalk(l)
  <2>1. UNCHANGED factVars
    BY <1>11 DEF Ask, AskSince, Reply, RankedPage, RankedPeriod, WalkRows, HourTokens, WalkSince,
                 MovePage, RunPage, LeaveWalk, StartWalk
  <2> QED
    BY <1>3, <2>1 DEF factVars
<1>12. CASE UNCHANGED vars
  BY <1>3, <1>12 DEF vars, factVars
<1> QED
  BY <1>8, <1>9, <1>10, <1>11, <1>12 DEF Next

\* The times hold in every state.
LEMMA TimesHold == Spec => []TimesInv
  BY TimesStart, TimesStep, PTL DEF Spec

\* A cycle planned while an hour is due values tranches or freezes one.
LEMMA TimesCatchUp == TimesInv => CyclesCatchUp
<1> SUFFICES ASSUME TimesInv, db.hours # {}
             PROVE  LET c == plan(now, Progress(db))
                        due == HoursBetween(Min(db.hours), hour_of(now - Hour - Margin))
                    IN  due \subseteq db.frozen \/ CycleTranches(c) # {} \/ Freezing(c) # {}
  BY DEF CyclesCatchUp
<1>0. Hour \in Nat /\ Hour > 0 /\ Margin \in Nat
  BY TimesAssumption
<1>1. PICK f, lf, b : Shape(db, f, lf, b) /\ f <= now /\ b < now
  BY DEF TimesInv, Times, NothingYet
<1>2. PICK c : c = plan(now, Progress(db))
  OBVIOUS
<1>3. now \in Int
  BY DEF TimesInv
<1>4. /\ c \in Cycles /\ c.from = lf + Hour
      /\ c.freeze_through # None => IsHour(c.freeze_through) /\ c.from <= c.freeze_through
      /\ c.freeze_through = None /\ CycleTranches(c) = {} => hour_of(now - Hour - Margin) <= lf
      /\ IsHour(c.from)
  <2>1. /\ Timely(c, now) /\ c.from = lf + Hour
        /\ c.freeze_through = None /\ CycleTranches(c) = {} => hour_of(now - Hour - Margin) <= lf
    BY <1>1, <1>2, <1>3, PlanNext
  <2> QED
    BY <2>1 DEF Timely
<1>5. Min(db.hours) = f /\ db.frozen = HoursBetween(f, lf) /\ IsHour(f) /\ IsHour(lf)
  <2>1. /\ f \in db.hours /\ f \in Int /\ \A h \in db.hours : h \in Int /\ f <= h
        /\ db.frozen = HoursBetween(f, lf) /\ IsHour(f) /\ IsHour(lf)
    BY <1>1 DEF Shape, IsHour
  <2>2. Min(db.hours) = f
    BY <2>1, Ends
  <2> QED
    BY <2>1, <2>2
<1>6. CASE c.freeze_through # None
  <2>1. c.from \in Freezing(c)
    BY <1>4, <1>6, HoursBetweenIs DEF Freezing
  <2> QED
    BY <1>2, <2>1
<1>7. CASE c.freeze_through = None /\ CycleTranches(c) = {}
  <2>1. PICK last : last = hour_of(now - Hour - Margin)
    OBVIOUS
  <2>2. IsHour(last) /\ last <= lf
    <3>1. now - Hour - Margin \in Int
      BY <1>0, <1>3
    <3> QED
      BY <1>4, <1>7, <2>1, <3>1, HourOf
  <2>3. HoursBetween(f, last) \subseteq HoursBetween(f, lf)
    <3>1. last \in Int /\ lf \in Int /\ f \in Int
      BY <1>5, <2>2 DEF IsHour
    <3> QED
      BY <2>2, <3>1 DEF HoursBetween
  <2> QED
    BY <1>5, <2>1, <2>3
<1> QED
  BY <1>2, <1>6, <1>7

\* No tick is idle while an hour is due: whatever cycles other writers plan,
\* drop or write meanwhile, the next plan values tranches or freezes an hour.
THEOREM CyclesDoCatchUp == Spec => []CyclesCatchUp
  BY TimesHold, TimesCatchUp, PTL

-----------------------------------------------------------------------------
(***************************************************************************)
(* What the tables hold: d the tables, A what is stored and X what was     *)
(* stored when its tranche was valued.                                     *)
(***************************************************************************)

Spans(S, n) == \E a \in Int : S \subseteq a .. n
Bounded(d, n) ==
    Spans(d.hours, n) /\ Spans(DOMAIN d.liquidityHourly, n) /\ Spans(DOMAIN d.changes, n)

\* The tranches and what is valued; this release measures every tranche after
\* its first.
Valued(d, A, X) ==
    /\ d.swaps = X /\ X \subseteq A /\ A \subseteq Txs
    /\ \A x \in X : x.at \in DOMAIN d.tranches
    /\ \A t \in DOMAIN d.tranches : d.tranches[t] \in BOOLEAN
    /\ \A t, u \in DOMAIN d.tranches : t <= u /\ d.tranches[t] => d.tranches[u]
    /\ d.moves = {x \in X : d.tranches[x.at]}

\* The rows of the hours; those of the moves come after the first tranche
\* measured.
Summed(d) ==
    /\ DOMAIN d.hourly = d.hours /\ DOMAIN d.protocolHourly = d.hours /\ DOMAIN d.births = d.hours
    /\ DOMAIN d.periods = d.frozen /\ d.frozen \subseteq d.hours
    /\ \A h \in DOMAIN d.liquidityHourly : \A t \in DOMAIN d.tranches : h <= t => d.tranches[t]

\* The tranches of a cycle are new.
LEMMA NewTranches ==
    ASSUME NEW d, NEW c, NEW f, NEW lf, NEW b, Effect(d, c, f, lf, b)
    PROVE  /\ \A t \in CycleTranches(c) : t \in Int /\ c.tranches_from <= t /\ t \notin DOMAIN d.tranches
           /\ \A t \in DOMAIN d.tranches : t \in Int /\ t < c.tranches_from
           /\ c.tranches_from \in Int
<1>1. c.tranches_from \in Int /\ c.tranches_through \in Int /\ f \in Int /\ b \in Int
  BY DEF Effect, Cycles, IsHour
<1>2. \A t \in DOMAIN d.tranches : t < c.tranches_from
  BY DEF Effect
<1>3. DOMAIN d.tranches \subseteq f .. b
  BY DEF Effect
<1>4. \A t \in CycleTranches(c) : t \in Int /\ c.tranches_from <= t
  BY <1>1 DEF CycleTranches
<1>5. \A t \in f .. b : t \in Int
  BY <1>1
<1> QED
  BY <1>1, <1>2, <1>3, <1>4, <1>5

\* A cycle values what is stored of its tranches, and nothing valued before.
LEMMA ValuedStays ==
    ASSUME NEW d, NEW c, NEW f, NEW lf, NEW b, Effect(d, c, f, lf, b), NEW A, NEW e,
           IsWritten(e, d, A, c), NEW X, Valued(d, A, X)
    PROVE  Valued(e, A, X \cup OfTranches(A, c))
<1> DEFINE Y == X \cup OfTranches(A, c)
<1>1. /\ \A t \in CycleTranches(c) : t \in Int /\ c.tranches_from <= t /\ t \notin DOMAIN d.tranches
      /\ \A t \in DOMAIN d.tranches : t \in Int /\ t < c.tranches_from
      /\ c.tranches_from \in Int
  BY NewTranches
<1>2. /\ DOMAIN e.tranches = DOMAIN d.tranches \cup CycleTranches(c)
      /\ \A t \in CycleTranches(c) : e.tranches[t] = TRUE
      /\ \A t \in DOMAIN d.tranches : e.tranches[t] = d.tranches[t]
  <2>1. e.tranches = [t \in DOMAIN d.tranches \cup CycleTranches(c) |->
                        t \in CycleTranches(c) \/ d.tranches[t]]
    BY DEF IsWritten
  <2>2. \A t \in DOMAIN d.tranches : t \notin CycleTranches(c) /\ d.tranches[t] \in BOOLEAN
    BY <1>1 DEF Valued
  <2>3. ASSUME NEW t \in DOMAIN d.tranches PROVE e.tranches[t] = d.tranches[t]
    <3>1. e.tranches[t] = (t \in CycleTranches(c) \/ d.tranches[t])
      BY <2>1
    <3> QED
      BY <2>2, <3>1, Zenon
  <2>4. ASSUME NEW t \in CycleTranches(c) PROVE e.tranches[t] = TRUE
    <3>1. e.tranches[t] = (t \in CycleTranches(c) \/ d.tranches[t])
      BY <2>1
    <3> QED
      BY <3>1, Zenon
  <2> QED
    BY <2>1, <2>3, <2>4
<1>3. /\ d.swaps = X /\ X \subseteq A /\ A \subseteq Txs
      /\ \A x \in X : x.at \in DOMAIN d.tranches
      /\ \A t \in DOMAIN d.tranches : d.tranches[t] \in BOOLEAN
      /\ \A t, u \in DOMAIN d.tranches : t <= u /\ d.tranches[t] => d.tranches[u]
      /\ d.moves = {x \in X : d.tranches[x.at]}
  BY DEF Valued
<1>4. /\ OfTranches(A, c) \subseteq A
      /\ \A x \in OfTranches(A, c) : x.at \in CycleTranches(c)
  BY DEF OfTranches
<1>5. e.swaps = Y /\ e.moves = d.moves \cup OfTranches(A, c)
  BY <1>3 DEF IsWritten
<1>6. \A x \in Y : x.at \in DOMAIN e.tranches
  BY <1>2, <1>3, <1>4
<1>7. \A t \in DOMAIN e.tranches : e.tranches[t] \in BOOLEAN
  BY <1>2, <1>3, Zenon
<1>8. ASSUME NEW t \in DOMAIN e.tranches, NEW u \in DOMAIN e.tranches, t <= u, e.tranches[t]
      PROVE  e.tranches[u]
  <2>1. CASE u \in CycleTranches(c)
    BY <1>2, <2>1
  <2>2. CASE u \notin CycleTranches(c)
    <3>1. u \in DOMAIN d.tranches
      BY <1>2, <2>2
    <3>2. t \notin CycleTranches(c)
      BY <1>1, <1>8, <3>1
    <3>3. t \in DOMAIN d.tranches
      BY <1>2, <3>2
    <3>4. d.tranches[t] /\ d.tranches[u] = e.tranches[u]
      BY <1>2, <1>8, <3>1, <3>3
    <3> QED
      BY <1>3, <1>8, <3>1, <3>3, <3>4
  <2> QED
    BY <2>1, <2>2
<1>9. e.moves = {x \in Y : e.tranches[x.at]}
  <2>1. ASSUME NEW x PROVE x \in e.moves <=> x \in Y /\ e.tranches[x.at]
    <3>1. CASE x \in OfTranches(A, c)
      BY <1>2, <1>4, <1>5, <3>1
    <3>2. CASE x \notin OfTranches(A, c)
      BY <1>2, <1>3, <1>5, <3>2
    <3> QED
      BY <3>1, <3>2
  <2> QED
    BY <2>1
<1>10. Y \subseteq A
  BY <1>3, <1>4
<1> HIDE DEF Y
<1>11. Valued(e, A, Y)
  BY <1>3, <1>5, <1>6, <1>7, <1>8, <1>9, <1>10, Zenon DEF Valued
<1> QED
  BY <1>11 DEF Y

\* The first and the last of what is bounded.
LEMMA SpanEnds ==
    ASSUME NEW S, NEW n \in Int, Spans(S, n), S # {}
    PROVE  /\ Min(S) \in S /\ Min(S) \in Int /\ \A y \in S : y \in Int /\ Min(S) <= y
           /\ Max(S) \in S /\ Max(S) \in Int /\ \A y \in S : y <= Max(S)
<1>1. PICK a \in Int : S \subseteq a .. n
  BY DEF Spans
<1>2. \A y \in S : y \in Int
  BY <1>1
<1>3. PICK m \in S : \A y \in S : m <= y
  BY <1>1, InstantsHaveEnds
<1>4. PICK k \in S : \A y \in S : y <= k
  BY <1>1, InstantsHaveEnds
<1>5. Min(S) = m /\ Max(S) = k
  BY <1>2, <1>3, <1>4, Ends
<1> QED
  BY <1>2, <1>3, <1>4, <1>5

\* More of the same is bounded too.
LEMMA SpanGrows ==
    ASSUME NEW S, NEW n \in Int, Spans(S, n), NEW T, NEW f \in Int, T \subseteq f .. n
    PROVE  Spans(S \cup T, n)
<1>1. PICK a \in Int : S \subseteq a .. n
  BY DEF Spans
<1>2. PICK k \in Int : k <= a /\ k <= f
  OBVIOUS
<1>3. S \cup T \subseteq k .. n
  BY <1>1, <1>2
<1> QED
  BY <1>2, <1>3 DEF Spans

\* The hours a cycle writes.
LEMMA CycleHoursAre ==
    ASSUME NEW d, NEW c, NEW f, NEW lf, NEW b, Effect(d, c, f, lf, b), NEW n \in Int, c.at <= n
    PROVE  /\ CycleHours(c) \subseteq f .. n /\ f \in Int
           /\ \A h \in CycleHours(c) : h \in Int /\ c.from <= h /\ h <= c.through
           /\ c.from \in Int /\ c.through \in Int /\ c.through <= n
           /\ Freezing(c) \subseteq CycleHours(c)
<1>1. /\ c \in Cycles /\ f \in Int /\ c.from \in Int /\ c.through \in Int /\ f <= c.from
      /\ c.through <= c.at /\ c.at \in Int /\ Freezing(c) \subseteq CycleHours(c)
  BY DEF Effect, IsHour, Cycles
<1>2. \A h \in CycleHours(c) : h \in Int /\ c.from <= h /\ h <= c.through
  BY <1>1 DEF CycleHours, HoursBetween
<1>3. \A h \in CycleHours(c) : h \in f .. n
  BY <1>1, <1>2
<1> QED
  BY <1>1, <1>2, <1>3

\* The position changes are counted from the cycle's first hour, or before.
LEMMA CountedFrom ==
    ASSUME NEW d, NEW c, NEW n \in Int, Spans(DOMAIN d.changes, n), c.from \in Int, c.through \in Int
    PROVE  /\ \A k \in Counted(d, c) : k \in Int /\ k <= c.through
           /\ \A k : IsHour(k) /\ c.from <= k /\ k <= c.through => k \in Counted(d, c)
           /\ \E a \in Int : Counted(d, c) \subseteq a .. c.through
           /\ \A m : /\ m \in DOMAIN d.changes /\ \A y \in DOMAIN d.changes : y <= m
                     => \A k : IsHour(k) /\ m + Hour <= k /\ k <= c.through => k \in Counted(d, c)
<1> DEFINE last == MaxOr(DOMAIN d.changes, None)
           first == Least({c.from, After(last, Hour)})
<1>0. Hour \in Nat /\ Hour > 0
  BY TimesAssumption
<1>1. /\ last \in Int \cup {None}
      /\ \A m : m \in DOMAIN d.changes /\ (\A y \in DOMAIN d.changes : y <= m) => last = m
  <2>1. CASE DOMAIN d.changes = {}
    BY <2>1 DEF MaxOr
  <2>2. CASE DOMAIN d.changes # {}
    <3>1. /\ Max(DOMAIN d.changes) \in DOMAIN d.changes /\ Max(DOMAIN d.changes) \in Int
          /\ \A y \in DOMAIN d.changes : y \in Int /\ y <= Max(DOMAIN d.changes)
      BY <2>2, SpanEnds
    <3>2. last = Max(DOMAIN d.changes)
      BY <2>2 DEF MaxOr
    <3>3. \A m : m \in DOMAIN d.changes /\ (\A y \in DOMAIN d.changes : y <= m)
                    => m = Max(DOMAIN d.changes)
      BY <3>1
    <3> QED
      BY <3>1, <3>2, <3>3
  <2> QED
    BY <2>1, <2>2
<1> HIDE DEF last
<1>2. first \in Int /\ first <= c.from /\ (last # None => first <= last + Hour)
  <2>1. PICK y \in Int \cup {None} : y = After(last, Hour) /\ (last # None => y = last + Hour /\ y \in Int)
    BY <1>0, <1>1 DEF After
  <2>2. CASE y = None \/ c.from <= y
    <3>1. \A z \in {c.from, y} : z = None \/ (z \in Int /\ c.from <= z)
      BY <2>2
    <3>2. Least({c.from, y}) = c.from
      BY <3>1, Ends
    <3> QED
      BY <1>1, <2>1, <2>2, <3>2, NoneAssumption
  <2>3. CASE y # None /\ ~(c.from <= y)
    <3>0. y \in Int
      BY <2>3
    <3>1. \A z \in {c.from, y} : z = None \/ (z \in Int /\ y <= z)
      BY <2>3, <3>0
    <3>2. Least({c.from, y}) = y
      BY <3>0, <3>1, Ends
    <3> QED
      BY <1>1, <2>1, <2>3, <3>0, <3>2
  <2> QED
    BY <2>2, <2>3
<1> HIDE DEF first
<1>3. Counted(d, c) = {h \in first .. c.through : h % Hour = 0}
  BY DEF Counted, HoursBetween, first, last
<1>4. \A k \in Counted(d, c) : k \in Int /\ k <= c.through /\ first <= k
  BY <1>2, <1>3
<1>5. \A k : IsHour(k) /\ first <= k /\ k <= c.through => k \in Counted(d, c)
  BY <1>2, <1>3 DEF IsHour
<1>6. Counted(d, c) \subseteq first .. c.through
  BY <1>3
<1>7. \A k : IsHour(k) => k \in Int
  BY DEF IsHour
<1>8. \A k : IsHour(k) /\ c.from <= k /\ k <= c.through => k \in Counted(d, c)
  BY <1>2, <1>5, <1>7
<1>9. ASSUME NEW m, m \in DOMAIN d.changes, \A y \in DOMAIN d.changes : y <= m
      PROVE  \A k : IsHour(k) /\ m + Hour <= k /\ k <= c.through => k \in Counted(d, c)
  <2>1. last = m /\ m \in Int
    <3>1. \A y \in DOMAIN d.changes : y \in Int
      BY DEF Spans
    <3> QED
      BY <1>1, <1>9, <3>1
  <2>2. first <= m + Hour
    BY <1>2, <2>1, NoneAssumption
  <2> QED
    BY <1>0, <1>2, <1>5, <1>7, <2>1, <2>2
<1> QED
  BY <1>2, <1>4, <1>6, <1>8, <1>9

\* A cycle written at an instant writes no hour after it.
LEMMA BoundedStays ==
    ASSUME NEW d, NEW c, NEW f, NEW lf, NEW b, Effect(d, c, f, lf, b), NEW A, NEW e,
           IsWritten(e, d, A, c), NEW n \in Int, c.at <= n, Bounded(d, n)
    PROVE  Bounded(e, n)
<1>1. /\ CycleHours(c) \subseteq f .. n /\ f \in Int
      /\ c.from \in Int /\ c.through \in Int /\ c.through <= n
  BY CycleHoursAre
<1>2. /\ e.hours = d.hours \cup CycleHours(c)
      /\ DOMAIN e.liquidityHourly = DOMAIN d.liquidityHourly \cup Summable(d, c)
      /\ DOMAIN e.changes = DOMAIN d.changes \cup Counted(d, c)
      /\ Summable(d, c) \subseteq CycleHours(c)
  BY DEF IsWritten, Summable
<1>3. Spans(d.hours, n) /\ Spans(DOMAIN d.liquidityHourly, n) /\ Spans(DOMAIN d.changes, n)
  BY DEF Bounded
<1>4. PICK a \in Int : Counted(d, c) \subseteq a .. c.through
  BY <1>1, <1>3, CountedFrom
<1>5. Counted(d, c) \subseteq a .. n
  BY <1>1, <1>4
<1>6. Summable(d, c) \subseteq f .. n
  BY <1>1, <1>2
<1>7. Spans(d.hours \cup CycleHours(c), n)
  BY <1>1, <1>3, SpanGrows
<1>8. Spans(DOMAIN d.liquidityHourly \cup Summable(d, c), n)
  BY <1>1, <1>3, <1>6, SpanGrows
<1>9. Spans(DOMAIN d.changes \cup Counted(d, c), n)
  BY <1>3, <1>4, <1>5, SpanGrows
<1> QED
  BY <1>2, <1>7, <1>8, <1>9 DEF Bounded

\* A cycle sums, counts and freezes the same hours, and the moves only of hours
\* measured whole.
LEMMA SummedStays ==
    ASSUME NEW d, NEW c, NEW f, NEW lf, NEW b, Effect(d, c, f, lf, b), NEW A, NEW e,
           IsWritten(e, d, A, c), NEW n \in Int, c.at <= n, Bounded(d, n), NEW X, Valued(d, A, X), Summed(d)
    PROVE  Summed(e)
<1>0. Hour \in Nat /\ Hour > 0
  BY TimesAssumption
<1>1. /\ \A t \in CycleTranches(c) : t \in Int /\ c.tranches_from <= t /\ t \notin DOMAIN d.tranches
      /\ \A t \in DOMAIN d.tranches : t \in Int /\ t < c.tranches_from
      /\ c.tranches_from \in Int
  BY NewTranches
<1>2. /\ DOMAIN d.hourly = d.hours /\ DOMAIN d.protocolHourly = d.hours /\ DOMAIN d.births = d.hours
      /\ DOMAIN d.periods = d.frozen /\ d.frozen \subseteq d.hours
      /\ \A h \in DOMAIN d.liquidityHourly : \A t \in DOMAIN d.tranches : h <= t => d.tranches[t]
  BY DEF Summed
<1>3. /\ e.hours = d.hours \cup CycleHours(c)
      /\ e.frozen = d.frozen \cup (Freezing(c) \cap e.hours)
      /\ DOMAIN e.hourly = DOMAIN d.hourly \cup CycleHours(c)
      /\ DOMAIN e.protocolHourly = DOMAIN d.protocolHourly \cup CycleHours(c)
      /\ DOMAIN e.births = DOMAIN d.births \cup CycleHours(c)
      /\ DOMAIN e.periods = DOMAIN d.periods \cup Freezing(c)
      /\ DOMAIN e.liquidityHourly = DOMAIN d.liquidityHourly \cup Summable(d, c)
      /\ DOMAIN e.tranches = DOMAIN d.tranches \cup CycleTranches(c)
      /\ \A t \in DOMAIN e.tranches : e.tranches[t] = (t \in CycleTranches(c) \/ d.tranches[t])
  BY DEF IsWritten
<1>4. \A h \in CycleHours(c) : h \in Int
  BY CycleHoursAre
<1>5. Freezing(c) \subseteq CycleHours(c)
  BY CycleHoursAre
<1>6. ASSUME NEW h \in DOMAIN d.liquidityHourly, NEW t \in DOMAIN e.tranches, h <= t
      PROVE  e.tranches[t]
  <2>1. t \in CycleTranches(c) \/ d.tranches[t]
    BY <1>2, <1>3, <1>6
  <2> QED
    BY <1>3, <2>1
<1>7. ASSUME NEW h \in Summable(d, c), NEW t \in DOMAIN e.tranches, h <= t
      PROVE  e.tranches[t]
  <2>0. /\ h \in Int /\ t \in Int
        /\ h >= MinOr(DOMAIN d.liquidityHourly, hour_of(c.tranches_from + Hour - 1))
    BY <1>1, <1>3, <1>4, <1>7 DEF Summable
  <2>1. CASE DOMAIN d.liquidityHourly = {}
    <3>1. h >= hour_of(c.tranches_from + Hour - 1)
      BY <2>0, <2>1 DEF MinOr
    <3>2. c.tranches_from + Hour - 1 \in Int
      BY <1>0, <1>1
    <3>3. /\ c.tranches_from + Hour - 1 < hour_of(c.tranches_from + Hour - 1) + Hour
          /\ hour_of(c.tranches_from + Hour - 1) \in Int
      BY <3>2, HourOf DEF IsHour
    <3>4. c.tranches_from <= t
      BY <1>0, <1>1, <1>7, <2>0, <3>1, <3>3
    <3>5. t \in CycleTranches(c)
      BY <1>1, <1>3, <2>0, <3>4
    <3> QED
      BY <1>3, <3>5
  <2>2. CASE DOMAIN d.liquidityHourly # {}
    <3>1. Spans(DOMAIN d.liquidityHourly, n)
      BY DEF Bounded
    <3>2. PICK m : m = Min(DOMAIN d.liquidityHourly)
      OBVIOUS
    <3>3. m \in DOMAIN d.liquidityHourly /\ m \in Int
      BY <2>2, <3>1, <3>2, SpanEnds
    <3>4. m <= h
      BY <2>0, <2>2, <3>2, <3>3 DEF MinOr
    <3>5. m <= t
      BY <1>7, <2>0, <3>3, <3>4
    <3> QED
      BY <1>6, <3>3, <3>5
  <2> QED
    BY <2>1, <2>2
<1>8. \A h \in DOMAIN e.liquidityHourly : \A t \in DOMAIN e.tranches : h <= t => e.tranches[t]
  BY <1>3, <1>6, <1>7
<1>9. /\ DOMAIN e.hourly = e.hours /\ DOMAIN e.protocolHourly = e.hours /\ DOMAIN e.births = e.hours
      /\ DOMAIN e.periods = e.frozen /\ e.frozen \subseteq e.hours
  BY <1>2, <1>3, <1>5
<1> QED
  BY <1>8, <1>9 DEF Summed

\* An hour that is whole: what FactsAreWhole says of one frozen.
HourWhole(d, X, h) ==
    /\ h .. h + Hour - 1 \subseteq DOMAIN d.tranches
    /\ d.hourly[h] = InSpan(X, h, h + Hour) /\ d.protocolHourly[h] = d.hourly[h]
    /\ h \in DOMAIN d.liquidityHourly => d.liquidityHourly[h] = InSpan(X, h, h + Hour)
    /\ InSpan(X, h, h + Hour) \subseteq d.births[h]
    /\ h \in DOMAIN d.changes => InSpan(X, h, h + Hour) \subseteq d.changes[h]
    /\ d.periods[h] = {x.pool : x \in UNION {d.hourly[g] : g \in WindowHours(h) \cap d.hours}}

\* What was valued in an hour that has its tranches stays what it was.
LEMMA SpanStays ==
    ASSUME NEW d, NEW c, NEW f, NEW lf, NEW b, Effect(d, c, f, lf, b), NEW A, NEW X, Valued(d, A, X),
           NEW h \in Int, h .. h + Hour - 1 \subseteq DOMAIN d.tranches
    PROVE  InSpan(X \cup OfTranches(A, c), h, h + Hour) = InSpan(X, h, h + Hour)
<1>0. Hour \in Nat /\ Hour > 0
  BY TimesAssumption
<1>1. \A t \in CycleTranches(c) : t \in Int /\ t \notin DOMAIN d.tranches
  BY NewTranches
<1>2. ASSUME NEW x \in OfTranches(A, c), h <= x.at, x.at < h + Hour PROVE FALSE
  <2>1. x.at \in CycleTranches(c)
    BY <1>2 DEF OfTranches
  <2>2. x.at \in h .. h + Hour - 1
    BY <1>0, <1>1, <1>2, <2>1
  <2> QED
    BY <1>1, <2>1, <2>2
<1> QED
  BY <1>2 DEF InSpan

\* The rows of a cycle's hours, and of the others.
LEMMA RowsAre ==
    ASSUME NEW d, NEW A, NEW c, NEW e, IsWritten(e, d, A, c), Summed(d)
    PROVE  /\ \A h \in CycleHours(c) :
                 /\ e.hourly[h] = InSpan(e.swaps, h, h + Hour) /\ e.protocolHourly[h] = e.hourly[h]
                 /\ e.births[h] = InSpan(A, h, h + Hour)
           /\ \A h \in d.hours : h \notin CycleHours(c) =>
                 /\ e.hourly[h] = d.hourly[h] /\ e.protocolHourly[h] = d.protocolHourly[h]
                 /\ e.births[h] = d.births[h]
           /\ \A h \in Summable(d, c) : e.liquidityHourly[h] = InSpan(e.moves, h, h + Hour)
           /\ \A h \in DOMAIN d.liquidityHourly : h \notin Summable(d, c) =>
                 e.liquidityHourly[h] = d.liquidityHourly[h]
<1>1. DOMAIN d.hourly = d.hours /\ DOMAIN d.protocolHourly = d.hours /\ DOMAIN d.births = d.hours
  BY DEF Summed
<1>2. e.hourly = [h \in DOMAIN d.hourly \cup CycleHours(c) |->
                    IF h \in CycleHours(c) THEN InSpan(e.swaps, h, h + Hour) ELSE d.hourly[h]]
  BY DEF IsWritten
<1>3. e.protocolHourly = [h \in DOMAIN d.protocolHourly \cup CycleHours(c) |->
                            IF h \in CycleHours(c) THEN e.hourly[h] ELSE d.protocolHourly[h]]
  BY DEF IsWritten
<1>4. e.births = [h \in DOMAIN d.births \cup CycleHours(c) |->
                    IF h \in CycleHours(c) THEN InSpan(A, h, h + Hour) ELSE d.births[h]]
  BY DEF IsWritten
<1>5. e.liquidityHourly = [h \in DOMAIN d.liquidityHourly \cup Summable(d, c) |->
                             IF h \in Summable(d, c) THEN InSpan(e.moves, h, h + Hour)
                             ELSE d.liquidityHourly[h]]
  BY DEF IsWritten
<1> QED
  BY <1>1, <1>2, <1>3, <1>4, <1>5

\* The hours a window looks back on.
LEMMA WindowIs ==
    ASSUME NEW h \in Int
    PROVE  \A g \in WindowHours(h) : g \in Int /\ g <= h
<1>1. (Day - 1) * Hour \in Int
  <2>1. Day - 1 \in Int /\ Hour \in Int
    BY TimesAssumption
  <2> QED
    BY <2>1
<1>2. PICK k \in Int : k = h - (Day - 1) * Hour
  BY <1>1
<1> QED
  BY <1>2 DEF WindowHours, HoursBetween

\* An hour frozen before the cycle stays whole.
LEMMA HourStays ==
    ASSUME NEW d, NEW c, NEW f, NEW lf, NEW b, Effect(d, c, f, lf, b), NEW A, NEW e,
           IsWritten(e, d, A, c), NEW n \in Int, c.at <= n, Bounded(d, n), NEW X, Valued(d, A, X), Summed(d),
           NEW h \in d.frozen, HourWhole(d, X, h)
    PROVE  HourWhole(e, X \cup OfTranches(A, c), h)
<1> DEFINE Y == X \cup OfTranches(A, c)
<1>0. Hour \in Nat /\ Hour > 0
  BY TimesAssumption
<1>1. /\ h .. h + Hour - 1 \subseteq DOMAIN d.tranches
      /\ d.hourly[h] = InSpan(X, h, h + Hour) /\ d.protocolHourly[h] = d.hourly[h]
      /\ h \in DOMAIN d.liquidityHourly => d.liquidityHourly[h] = InSpan(X, h, h + Hour)
      /\ InSpan(X, h, h + Hour) \subseteq d.births[h]
      /\ h \in DOMAIN d.changes => InSpan(X, h, h + Hour) \subseteq d.changes[h]
      /\ d.periods[h] = {x.pool : x \in UNION {d.hourly[g] : g \in WindowHours(h) \cap d.hours}}
  BY DEF HourWhole
<1>2. h < c.from /\ h \in Int /\ h \in d.hours /\ h \in DOMAIN d.periods
  <2>1. h < c.from /\ h \in d.hours /\ h \in DOMAIN d.periods
    BY DEF Effect, Summed
  <2>2. Spans(d.hours, n)
    BY DEF Bounded
  <2> QED
    BY <2>1, <2>2 DEF Spans
<1>3. /\ \A k \in CycleHours(c) : k \in Int /\ c.from <= k
      /\ c.from \in Int /\ c.through \in Int /\ Freezing(c) \subseteq CycleHours(c)
  BY CycleHoursAre
<1>4. \A g : g \in Int /\ g <= h => g \notin CycleHours(c)
  BY <1>2, <1>3
<1>5. h \notin CycleHours(c) /\ h \notin Freezing(c) /\ h \notin Summable(d, c)
  BY <1>2, <1>3, <1>4 DEF Summable
<1>6. InSpan(Y, h, h + Hour) = InSpan(X, h, h + Hour)
  BY <1>1, <1>2, SpanStays
<1>7. /\ e.hourly[h] = d.hourly[h] /\ e.protocolHourly[h] = d.protocolHourly[h]
      /\ e.births[h] = d.births[h]
      /\ h \in DOMAIN d.liquidityHourly => e.liquidityHourly[h] = d.liquidityHourly[h]
  BY <1>2, <1>5, RowsAre
<1>8. h .. h + Hour - 1 \subseteq DOMAIN e.tranches /\ (h \in DOMAIN e.liquidityHourly => h \in DOMAIN d.liquidityHourly)
  BY <1>1, <1>5 DEF IsWritten
<1>9. h \in DOMAIN e.changes => InSpan(Y, h, h + Hour) \subseteq e.changes[h]
  <2>0. e.changes = [k \in DOMAIN d.changes \cup Counted(d, c) |->
                      IF k \in Kept(d, c) THEN d.changes[k] ELSE InSpan(A, k, k + Hour)]
    BY DEF IsWritten
  <2>1. CASE h \in DOMAIN d.changes
    <3>1. h \in Kept(d, c)
      BY <1>2, <2>1 DEF Kept
    <3> QED
      BY <1>1, <1>6, <2>0, <2>1, <3>1
  <2>2. CASE h \notin DOMAIN d.changes
    <3>1. h \notin Kept(d, c)
      BY <2>2 DEF Kept
    <3>2. h \in DOMAIN e.changes => e.changes[h] = InSpan(A, h, h + Hour)
      BY <2>0, <3>1
    <3>3. X \subseteq A
      BY DEF Valued
    <3>4. InSpan(X, h, h + Hour) \subseteq InSpan(A, h, h + Hour)
      BY <3>3 DEF InSpan
    <3> QED
      BY <1>6, <3>2, <3>4
  <2> QED
    BY <2>1, <2>2
<1>10. e.periods[h] = {x.pool : x \in UNION {e.hourly[g] : g \in WindowHours(h) \cap e.hours}}
  <2>1. e.periods[h] = d.periods[h]
    BY <1>2, <1>5 DEF IsWritten
  <2>2. \A g \in WindowHours(h) : g \notin CycleHours(c)
    BY <1>2, <1>4, WindowIs
  <2>3. WindowHours(h) \cap e.hours = WindowHours(h) \cap d.hours
    BY <2>2 DEF IsWritten
  <2>4. \A g \in WindowHours(h) \cap d.hours : e.hourly[g] = d.hourly[g]
    BY <2>2, RowsAre
  <2>5. {e.hourly[g] : g \in WindowHours(h) \cap e.hours} = {d.hourly[g] : g \in WindowHours(h) \cap d.hours}
    BY <2>3, <2>4
  <2> QED
    BY <1>1, <2>1, <2>5
<1> HIDE DEF Y
<1>11. HourWhole(e, Y, h)
  BY <1>1, <1>6, <1>7, <1>8, <1>9, <1>10 DEF HourWhole
<1> QED
  BY <1>11 DEF Y

\* An hour the cycle freezes is whole.
LEMMA HourFreezes ==
    ASSUME NEW d, NEW c, NEW f, NEW lf, NEW b, Effect(d, c, f, lf, b), NEW A, NEW e,
           IsWritten(e, d, A, c), NEW n \in Int, c.at <= n, Bounded(d, n), NEW X, Valued(d, A, X), Summed(d),
           NEW h \in Freezing(c)
    PROVE  HourWhole(e, X \cup OfTranches(A, c), h) /\ h \in DOMAIN e.changes
<1>1. PICK Y : Y = X \cup OfTranches(A, c)
  OBVIOUS
<1>0. Hour \in Nat /\ Hour > 0
  BY TimesAssumption
<1>2. /\ h \in CycleHours(c) /\ h \in Int /\ c.from <= h /\ h <= c.through
      /\ c.from \in Int /\ c.through \in Int
  BY CycleHoursAre
<1>3. Valued(e, A, Y) /\ Summed(e)
  <2>1. Valued(e, A, X \cup OfTranches(A, c))
    BY ValuedStays
  <2>2. Summed(e)
    BY SummedStays
  <2> QED
    BY <1>1, <2>1, <2>2
<1>4. /\ e.swaps = Y /\ Y \subseteq A /\ e.moves = {x \in Y : e.tranches[x.at]}
      /\ \A x \in Y : x.at \in DOMAIN e.tranches
  BY <1>3 DEF Valued
<1>5. IsHour(h) /\ h <= lf /\ f <= h /\ lf + Hour - 1 <= b /\ f \in Int /\ lf \in Int /\ b \in Int
  <2>1. /\ h \in HoursBetween(f, lf) /\ IsHour(f) /\ IsHour(lf) /\ b \in Int /\ lf + Hour - 1 <= b
    BY DEF Effect
  <2>2. IsHour(h) /\ f <= h /\ h <= lf
    BY <2>1, HoursBetweenIs
  <2> QED
    BY <2>1, <2>2 DEF IsHour
<1>6. h .. h + Hour - 1 \subseteq DOMAIN e.tranches
  <2>1. DOMAIN e.tranches = f .. b
    BY DEF IsWritten, Effect
  <2> QED
    BY <1>0, <1>2, <1>5, <2>1
<1>7. /\ e.hourly[h] = InSpan(Y, h, h + Hour) /\ e.protocolHourly[h] = e.hourly[h]
      /\ e.births[h] = InSpan(A, h, h + Hour)
  BY <1>2, <1>4, RowsAre
<1>8. InSpan(Y, h, h + Hour) \subseteq InSpan(A, h, h + Hour)
  BY <1>4 DEF InSpan
<1>9. ASSUME h \in DOMAIN e.liquidityHourly PROVE e.liquidityHourly[h] = InSpan(Y, h, h + Hour)
  <2>1. h \in Summable(d, c)
    <3>1. CASE h \in DOMAIN d.liquidityHourly
      <4>1. Spans(DOMAIN d.liquidityHourly, n) /\ DOMAIN d.liquidityHourly # {}
        BY <3>1 DEF Bounded
      <4>2. Min(DOMAIN d.liquidityHourly) \in Int /\ Min(DOMAIN d.liquidityHourly) <= h
        BY <3>1, <4>1, SpanEnds
      <4>3. h >= MinOr(DOMAIN d.liquidityHourly, hour_of(c.tranches_from + Hour - 1))
        BY <1>2, <4>1, <4>2 DEF MinOr
      <4> QED
        BY <1>2, <4>3 DEF Summable
    <3>2. CASE h \notin DOMAIN d.liquidityHourly
      BY <1>9, <3>2 DEF IsWritten
    <3> QED
      BY <3>1, <3>2
  <2>2. e.liquidityHourly[h] = InSpan(e.moves, h, h + Hour)
    BY <2>1, RowsAre
  <2>3. \A t \in DOMAIN e.tranches : h <= t => e.tranches[t]
    BY <1>3, <1>9 DEF Summed
  <2>4. InSpan(e.moves, h, h + Hour) = InSpan(Y, h, h + Hour)
    BY <1>4, <2>3 DEF InSpan
  <2> QED
    BY <2>2, <2>4
<1>10. h \in DOMAIN e.changes /\ e.changes[h] = InSpan(A, h, h + Hour)
  <2>0. e.changes = [k \in DOMAIN d.changes \cup Counted(d, c) |->
                      IF k \in Kept(d, c) THEN d.changes[k] ELSE InSpan(A, k, k + Hour)]
    BY DEF IsWritten
  <2>1. Spans(DOMAIN d.changes, n)
    BY DEF Bounded
  <2>2. h \in Counted(d, c)
    BY <1>2, <1>5, <2>1, CountedFrom
  <2>3. h \notin Kept(d, c)
    BY <1>2, <2>2 DEF Kept
  <2> QED
    BY <2>0, <2>2, <2>3
<1>11. e.periods[h] = {x.pool : x \in UNION {e.hourly[g] : g \in WindowHours(h) \cap e.hours}}
  <2>1. DOMAIN e.hourly = e.hours
    BY <1>3 DEF Summed
  <2>2. e.periods[h] = {x.pool : x \in UNION {e.hourly[g] : g \in WindowHours(h) \cap DOMAIN e.hourly}}
    BY DEF IsWritten
  <2> QED
    BY <2>1, <2>2
<1>12. HourWhole(e, Y, h)
  BY <1>6, <1>7, <1>8, <1>9, <1>10, <1>11 DEF HourWhole
<1> QED
  BY <1>1, <1>10, <1>12

\* A run settled: what FactsAreWhole says of it, and that its gap is past.
MarksIn(X, p) == {x.at : x \in {y \in X : y.pool = p /\ y.marks}}
RunSettled(d, X, r) ==
    /\ r.start \in Int /\ r.last \in Int
    /\ \E t \in DOMAIN d.tranches : r.last + RunGap <= t
    /\ r.swaps = {x \in InSpan(X, r.start, r.last + 1) : x.pool = r.pool}
    /\ \A t \in MarksIn(X, r.pool) : ~(r.last < t /\ t <= r.last + RunGap)

\* What a cycle values comes after the gap of a run settled before it.
LEMMA RunStays ==
    ASSUME NEW d, NEW c, NEW f, NEW lf, NEW b, Effect(d, c, f, lf, b), NEW A, NEW e,
           IsWritten(e, d, A, c), NEW X, Valued(d, A, X), NEW r, RunSettled(d, X, r)
    PROVE  RunSettled(e, X \cup OfTranches(A, c), r)
<1>1. PICK Y : Y = X \cup OfTranches(A, c)
  OBVIOUS
<1>0. RunGap \in Nat /\ RunGap > 0
  BY TimesAssumption
<1>2. /\ \A t \in CycleTranches(c) : t \in Int /\ c.tranches_from <= t
      /\ \A t \in DOMAIN d.tranches : t \in Int /\ t < c.tranches_from
      /\ c.tranches_from \in Int
  BY NewTranches
<1>3. /\ r.start \in Int /\ r.last \in Int
      /\ r.swaps = {x \in InSpan(X, r.start, r.last + 1) : x.pool = r.pool}
      /\ \A t \in MarksIn(X, r.pool) : ~(r.last < t /\ t <= r.last + RunGap)
  BY DEF RunSettled
<1>4. PICK t \in DOMAIN d.tranches : r.last + RunGap <= t
  BY DEF RunSettled
<1>5. \A x \in OfTranches(A, c) : x.at \in Int /\ r.last + RunGap < x.at
  BY <1>0, <1>2, <1>3, <1>4 DEF OfTranches
<1>6. InSpan(Y, r.start, r.last + 1) = InSpan(X, r.start, r.last + 1)
  <2>1. \A x \in OfTranches(A, c) : ~(x.at < r.last + 1)
    BY <1>0, <1>3, <1>5
  <2> QED
    BY <1>1, <2>1 DEF InSpan
<1>7. ASSUME NEW u \in MarksIn(Y, r.pool), r.last < u, u <= r.last + RunGap
      PROVE  FALSE
  <2>1. PICK x \in Y : x.pool = r.pool /\ x.marks /\ u = x.at
    BY <1>7 DEF MarksIn
  <2>2. x \notin OfTranches(A, c)
    BY <1>0, <1>3, <1>5, <1>7, <2>1
  <2>3. u \in MarksIn(X, r.pool)
    BY <1>1, <2>1, <2>2 DEF MarksIn
  <2> QED
    BY <1>3, <1>7, <2>3
<1>8. t \in DOMAIN e.tranches
  BY DEF IsWritten
<1>9. RunSettled(e, Y, r)
  BY <1>3, <1>4, <1>6, <1>7, <1>8 DEF RunSettled
<1> QED
  BY <1>1, <1>9

\* An island begins and ends with a mark, and no mark follows its end in the gap.
LEMMA IslandIs ==
    ASSUME NEW a \in Int, NEW z \in Int, NEW M, M \subseteq a .. z, NEW i \in Islands(M)
    PROVE  /\ i.start \in Int /\ i.last \in Int /\ i.last \in M
           /\ ~\E u \in M : u > i.last /\ u - i.last <= RunGap
<1> DEFINE Closes(t) == ~\E u \in M : u > t /\ u - t <= RunGap
<1>1. PICK s \in M : i = [start |-> s, last |-> Min({t \in M : Closes(t) /\ t >= s})]
  BY DEF Islands
<1> DEFINE K == {t \in M : Closes(t) /\ t >= s}
<1>2. \A y \in M : y \in Int
  OBVIOUS
<1>3. K # {}
  <2>1. PICK m \in M : \A y \in M : y <= m
    BY InstantsHaveEnds
  <2>2. m \in K
    BY <1>2, <2>1
  <2> QED
    BY <2>2
<1>4. K \subseteq a .. z
  OBVIOUS
<1>5. K \subseteq M /\ \A y \in K : Closes(y)
  OBVIOUS
<1>6. i.start = s /\ i.last = Min(K)
  BY <1>1
<1> HIDE DEF K
<1>7. PICK m \in K : \A y \in K : m <= y
  BY <1>3, <1>4, InstantsHaveEnds
<1>8. Min(K) = m
  BY <1>2, <1>5, <1>7, Ends
<1> QED
  BY <1>2, <1>5, <1>6, <1>7, <1>8

\* A run drawn as settled is.
LEMMA RunDrawn ==
    ASSUME NEW e, NEW A, NEW Y, Valued(e, A, Y), NEW f \in Int, NEW b \in Int,
           DOMAIN e.tranches = f .. b, f <= b,
           NEW g, g.swaps = e.swaps, g.tranches = e.tranches,
           NEW p, NEW i \in Islands(Marked(g, p, b)), NEW r, r = RunOf(g, p, i, b), r.settled
    PROVE  RunSettled(e, Y, r)
<1>0. RunGap \in Nat /\ RunGap > 0
  BY TimesAssumption
<1>1. /\ e.swaps = Y
      /\ \A x \in Y : x.at \in f .. b
      /\ \A t, u \in f .. b : t <= u /\ e.tranches[t] => e.tranches[u]
  BY DEF Valued
<1>2. PICK M : M = Marked(g, p, b)
  OBVIOUS
<1>3. /\ \A t \in M : \E y \in Y : y.pool = p /\ y.marks /\ e.tranches[y.at] /\ y.at <= b /\ t = y.at
      /\ \A y \in Y : y.pool = p /\ y.marks /\ e.tranches[y.at] /\ y.at <= b => y.at \in M
  BY <1>1, <1>2 DEF Marked
<1>4. M \subseteq f .. b
  BY <1>1, <1>3
<1>5. /\ i.start \in Int /\ i.last \in Int /\ i.last \in M
      /\ ~\E u \in M : u > i.last /\ u - i.last <= RunGap
  BY <1>2, <1>4, IslandIs
<1>6. /\ r.pool = p /\ r.start = i.start /\ r.last = i.last /\ i.last + RunGap <= b
      /\ r.swaps = {x \in Y : x.pool = p /\ i.start <= x.at /\ x.at <= i.last}
  BY <1>1 DEF RunOf
<1>7. e.tranches[i.last] /\ i.last \in f .. b
  BY <1>3, <1>4, <1>5
<1>8. r.swaps = {x \in InSpan(Y, r.start, r.last + 1) : x.pool = r.pool}
  <2>1. \A x \in Y : x.at \in Int
    BY <1>1
  <2>2. \A x \in Y : x.at <= i.last <=> x.at < i.last + 1
    BY <1>5, <2>1
  <2> QED
    BY <1>6, <2>2 DEF InSpan
<1>9. ASSUME NEW t \in MarksIn(Y, r.pool), r.last < t, t <= r.last + RunGap
      PROVE  FALSE
  <2>1. PICK x \in Y : x.pool = p /\ x.marks /\ x.at = t
    BY <1>6, <1>9 DEF MarksIn
  <2>2. t \in f .. b /\ t \in Int /\ t <= b
    BY <1>1, <2>1
  <2>3. e.tranches[t]
    <3>1. i.last <= t
      BY <1>5, <1>6, <1>9, <2>2
    <3> QED
      BY <1>1, <1>7, <2>2, <3>1
  <2>4. t \in M
    BY <1>3, <2>1, <2>2, <2>3
  <2>5. t > i.last /\ t - i.last <= RunGap
    BY <1>0, <1>5, <1>6, <1>9, <2>2
  <2> QED
    BY <1>5, <2>4, <2>5
<1>10. b \in DOMAIN e.tranches
  OBVIOUS
<1> QED
  BY <1>5, <1>6, <1>8, <1>9, <1>10 DEF RunSettled

\* The runs settled before stay settled, and those a cycle settles are.
LEMMA RunsStay ==
    ASSUME NEW d, NEW c, NEW f, NEW lf, NEW b, Effect(d, c, f, lf, b), NEW A, NEW e,
           IsWritten(e, d, A, c), NEW X, Valued(d, A, X),
           \A r \in d.runs : r.settled => RunSettled(d, X, r)
    PROVE  \A r \in e.runs : r.settled => RunSettled(e, X \cup OfTranches(A, c), r)
<1>1. PICK Y : Y = X \cup OfTranches(A, c)
  OBVIOUS
<1>2. PICK g : /\ g.swaps = e.swaps /\ g.tranches = e.tranches /\ g.runs = d.runs
               /\ DOMAIN g = Columns /\ e.runs = write_rotation_runs(g, c).runs
  BY DEF IsWritten
<1>3. \A r \in d.runs : r.settled => RunSettled(e, Y, r)
  BY <1>1, RunStays
<1>4. CASE CycleTranches(c) = {}
  <2>1. e.runs = d.runs
    BY <1>2, <1>4 DEF write_rotation_runs
  <2> QED
    BY <1>1, <1>3, <2>1
<1>5. CASE CycleTranches(c) # {}
  <2>1. c.tranches_through = b /\ b \in Int /\ f \in Int /\ DOMAIN e.tranches = f .. b
    BY <1>5 DEF Effect, IsWritten, IsHour
  <2>2. f <= b
    <3>1. PICK t \in CycleTranches(c) : TRUE
      BY <1>5
    <3>2. t \in f .. b
      BY <2>1 DEF IsWritten
    <3> QED
      BY <2>1, <3>2
  <2>3. \A r \in e.runs : r \in d.runs \/ \E p \in Pools : \E i \in Islands(Marked(g, p, b)) :
                             r = RunOf(g, p, i, b)
    <3>1. "runs" \in DOMAIN g
      BY <1>2 DEF Columns
    <3> DEFINE kept == {r \in g.runs : r.settled}
               recent == c.tranches_from - Max({RunGap, Hour})
               drawn == UNION {{RunOf(g, p, i, b) :
                                  i \in {j \in Islands(Marked(g, p, b)) : j.last >= recent}} : p \in Pools}
               new == {r \in drawn : \A k \in kept :
                         k.pool = r.pool => k.last # r.last /\ k.start # r.start}
    <3>2. write_rotation_runs(g, c) = [g EXCEPT !.runs = kept \cup new]
      BY <1>5, <2>1 DEF write_rotation_runs
    <3>3. new \subseteq drawn
      OBVIOUS
    <3>4. \A r \in drawn : \E p \in Pools : \E i \in Islands(Marked(g, p, b)) : r = RunOf(g, p, i, b)
      OBVIOUS
    <3>5. kept \subseteq d.runs
      BY <1>2
    <3> HIDE DEF new, drawn, kept
    <3>6. e.runs = kept \cup new
      BY <1>2, <3>1, <3>2
    <3> QED
      BY <3>3, <3>4, <3>5, <3>6
  <2>4. Valued(e, A, Y)
    BY <1>1, ValuedStays
  <2>5. ASSUME NEW p \in Pools, NEW i \in Islands(Marked(g, p, b)), NEW r, r = RunOf(g, p, i, b), r.settled
        PROVE  RunSettled(e, Y, r)
    BY <1>2, <2>1, <2>2, <2>4, <2>5, RunDrawn
  <2> QED
    BY <1>1, <1>3, <2>3, <2>5
<1> QED
  BY <1>4, <1>5

-----------------------------------------------------------------------------
(***************************************************************************)
(* The facts.                                                              *)
(***************************************************************************)

RankingStands(d, h) ==
    IF d.periods[h] = {} THEN d.ranking = None ELSE d.ranking.hour = h

Facts(d, X) ==
    /\ \A h \in d.frozen : HourWhole(d, X, h)
    /\ \A h \in d.frozen : h = Max(d.frozen) => RankingStands(d, h)
    /\ \A r \in d.runs : r.settled => RunSettled(d, X, r)

\* The position changes the release before left out are counted by the first
\* cycle of this one.
Changed(d, cur, cs) ==
    IF cur THEN d.frozen \subseteq DOMAIN d.changes
    ELSE /\ Shape(d, 0, Hour, 2 * Hour - 1) /\ DOMAIN d.changes = {0}
         /\ \A w \in Writers : cs[w] # None => cs[w].from = 2 * Hour

FactsInv ==
    /\ TimesInv
    /\ Bounded(db, now) /\ Valued(db, arrived, seen) /\ Summed(db) /\ Facts(db, seen)
    /\ Changed(db, current, cycle) /\ ~refused

\* A cycle leaves what was frozen whole, and freezes what is whole.
LEMMA FactsStay ==
    ASSUME NEW d, NEW c, NEW f, NEW lf, NEW b, Effect(d, c, f, lf, b), NEW A, NEW e,
           IsWritten(e, d, A, c), NEW n \in Int, c.at <= n, Bounded(d, n), NEW X, Valued(d, A, X), Summed(d),
           Facts(d, X)
    PROVE  Facts(e, X \cup OfTranches(A, c))
<1>1. PICK Y : Y = X \cup OfTranches(A, c)
  OBVIOUS
<1>2. e.frozen = HoursBetween(f, lf) /\ IsHour(f) /\ IsHour(lf)
  <2>1. Shape(e, f, lf, b)
    BY EffectShapes
  <2> QED
    BY <2>1 DEF Shape
<1>3. /\ e.frozen = d.frozen \cup (Freezing(c) \cap e.hours)
      /\ c.freeze_through = None => e.ranking = d.ranking
      /\ c.freeze_through # None => RankedOn(e, c.freeze_through)
  BY DEF IsWritten
<1>4. ASSUME NEW h \in e.frozen PROVE HourWhole(e, Y, h)
  <2>1. CASE h \in d.frozen
    <3>1. HourWhole(d, X, h)
      BY <2>1 DEF Facts
    <3> QED
      BY <1>1, <2>1, <3>1, HourStays
  <2>2. CASE h \in Freezing(c)
    BY <1>1, <2>2, HourFreezes
  <2> QED
    BY <1>3, <1>4, <2>1, <2>2
<1>5. ASSUME NEW h \in e.frozen, h = Max(e.frozen) PROVE RankingStands(e, h)
  <2>0. e.periods = [g \in DOMAIN d.periods \cup Freezing(c) |->
                       IF g \in Freezing(c)
                       THEN {x.pool : x \in UNION {e.hourly[k] :
                                k \in WindowHours(g) \cap DOMAIN e.hourly}}
                       ELSE d.periods[g]]
    BY DEF IsWritten
  <2>1. CASE c.freeze_through = None
    <3>1. e.frozen = d.frozen /\ Freezing(c) = {}
      BY <1>3, <2>1 DEF Freezing
    <3>2. e.periods[h] = d.periods[h]
      BY <1>5, <2>0, <3>1 DEF Summed
    <3>3. RankingStands(d, h)
      BY <1>5, <3>1 DEF Facts
    <3> QED
      BY <1>3, <2>1, <3>2, <3>3 DEF RankingStands
  <2>2. CASE c.freeze_through # None
    <3>1. c.freeze_through = lf /\ lf \in Freezing(c) /\ Freezing(c) \subseteq CycleHours(c)
      BY <2>2 DEF Effect
    <3>2. lf \in e.frozen
      BY <1>3, <3>1 DEF IsWritten
    <3>3. \A g \in e.frozen : g \in Int /\ g <= lf
      BY <1>2, HoursBetweenIs DEF IsHour
    <3>4. Max(e.frozen) = lf
      BY <3>2, <3>3, Ends
    <3>5. PICK u : u = UNION {e.hourly[g] : g \in WindowHours(lf) \cap DOMAIN e.hourly}
      OBVIOUS
    <3>6. e.periods[lf] = {x.pool : x \in u}
      BY <2>0, <3>1, <3>5
    <3>7. IF u = {} THEN e.ranking = None ELSE e.ranking.hour = lf
      BY <1>3, <2>2, <3>1, <3>5 DEF RankedOn
    <3> QED
      BY <1>5, <3>4, <3>6, <3>7 DEF RankingStands
  <2> QED
    BY <2>1, <2>2
<1>6. \A r \in e.runs : r.settled => RunSettled(e, Y, r)
  <2>1. \A r \in d.runs : r.settled => RunSettled(d, X, r)
    BY DEF Facts
  <2> QED
    BY <1>1, <2>1, RunsStay
<1>7. Facts(e, Y)
  BY <1>4, <1>5, <1>6 DEF Facts
<1> QED
  BY <1>1, <1>7

\* No cycle breaks a primary key.
LEMMA NoDuplicate ==
    ASSUME NEW d, NEW c, NEW f, NEW lf, NEW b, Effect(d, c, f, lf, b), Summed(d)
    PROVE  ~Duplicate(d, c)
<1>1. CycleTranches(c) \cap DOMAIN d.tranches = {}
  BY NewTranches
<1>2. c.at \in Int /\ c.from \in Int
  BY DEF Effect, Cycles
<1>3. /\ \A h \in CycleHours(c) : h \in Int /\ c.from <= h
      /\ Freezing(c) \subseteq CycleHours(c)
  BY <1>2, CycleHoursAre
<1>4. DOMAIN d.periods = d.frozen /\ \A h \in d.frozen : h < c.from
  BY DEF Effect, Summed
<1>5. Freezing(c) \cap DOMAIN d.periods = {}
  BY <1>2, <1>3, <1>4
<1> QED
  BY <1>1, <1>5 DEF Duplicate

\* The first cycle counts what is missing, and the others go on.
LEMMA ChangesStay ==
    ASSUME NEW d, NEW c, NEW f, NEW lf, NEW b, Effect(d, c, f, lf, b), NEW A, NEW e,
           IsWritten(e, d, A, c), NEW n \in Int, c.at <= n, Bounded(d, n), NEW X, Valued(d, A, X), Summed(d),
           \/ d.frozen \subseteq DOMAIN d.changes
           \/ d.frozen = {0, Hour} /\ DOMAIN d.changes = {0} /\ Hour <= c.through
    PROVE  e.frozen \subseteq DOMAIN e.changes
<1>0. Hour \in Nat /\ Hour > 0
  BY TimesAssumption
<1>1. /\ DOMAIN e.changes = DOMAIN d.changes \cup Counted(d, c)
      /\ e.frozen \subseteq d.frozen \cup Freezing(c)
  BY DEF IsWritten
<1>2. \A h \in Freezing(c) : h \in DOMAIN e.changes
  BY HourFreezes
<1>3. CASE d.frozen \subseteq DOMAIN d.changes
  BY <1>1, <1>2, <1>3
<1>4. CASE d.frozen = {0, Hour} /\ DOMAIN d.changes = {0} /\ Hour <= c.through
  <2>1. Spans(DOMAIN d.changes, n)
    BY DEF Bounded
  <2>2. c.from \in Int /\ c.through \in Int
    BY CycleHoursAre
  <2>3. 0 \in DOMAIN d.changes /\ \A y \in DOMAIN d.changes : y <= 0
    BY <1>4
  <2>4. IsHour(Hour) /\ 0 + Hour <= Hour
    <3>1. IsHour(0)
      BY <1>0 DEF IsHour
    <3>2. IsHour(0 + Hour)
      BY <3>1, HoursApart
    <3> QED
      BY <1>0, <3>2
  <2>5. Hour \in Counted(d, c)
    BY <1>4, <2>1, <2>2, <2>3, <2>4, CountedFrom
  <2> QED
    BY <1>1, <1>2, <1>4, <2>5
<1> QED
  BY <1>3, <1>4

\* The tables a release before this one left.
LEMMA OldColumns ==
    LET X == InSpan(Txs, 0, 2 * Hour)
        hours == {0, Hour, 2 * Hour}
        rows == [h \in hours |-> InSpan(X, h, h + Hour)]
    IN  /\ OldTables.swaps = X /\ OldTables.moves = {} /\ OldTables.runs = {}
        /\ OldTables.hourly = rows /\ OldTables.protocolHourly = rows /\ OldTables.births = rows
        /\ DOMAIN OldTables.liquidityHourly = {}
        /\ OldTables.changes = [h \in {0} |-> rows[h]]
        /\ OldTables.periods = [h \in {0, Hour} |->
                                  {x.pool : x \in InSpan(X, h + Hour - Day * Hour, h + Hour)}]
        /\ RankingStands(OldTables, Hour)
<1>1. /\ DOMAIN FreshTables = Columns /\ FreshTables.moves = {} /\ FreshTables.runs = {}
      /\ FreshTables.liquidityHourly = NoRows
  BY DEF FreshTables, Columns
<1>2. DOMAIN NoRows = {}
  BY DEF NoRows
<1> DEFINE X == InSpan(Txs, 0, 2 * Hour)
           hours == {0, Hour} \cup {2 * Hour}
           rows == [h \in hours |-> InSpan(X, h, h + Hour)]
           periods == [h \in {0, Hour} |->
                         {x.pool : x \in InSpan(X, h + Hour - Day * Hour, h + Hour)}]
<1>3. \E rk, ce, tv, di : /\ IF periods[Hour] = {} THEN rk = None ELSE rk.hour = Hour
         /\ OldTables = [FreshTables EXCEPT
               !.tranches = [t \in 0 .. 2 * Hour - 1 |-> FALSE], !.swaps = X, !.hours = hours,
               !.frozen = {0, Hour}, !.hourly = rows, !.protocolHourly = rows, !.births = rows,
               !.changes = [h \in {0} |-> rows[h]], !.periods = periods, !.ranking = rk,
               !.ceilings = ce, !.tvl = tv, !.discovered = di]
  <2>1. PICK rk : rk = Ranking(Hour, InSpan(X, 2 * Hour - Day * Hour, 2 * Hour))
    OBVIOUS
  <2>2. IF periods[Hour] = {} THEN rk = None ELSE rk.hour = Hour
    <3>1. PICK S : S = InSpan(X, 2 * Hour - Day * Hour, 2 * Hour)
      OBVIOUS
    <3>2. Hour + Hour - Day * Hour = 2 * Hour - Day * Hour /\ Hour + Hour = 2 * Hour
      BY TimesAssumption
    <3>3. periods[Hour] = {x.pool : x \in S}
      BY <3>1, <3>2
    <3>4. rk = Ranking(Hour, S)
      BY <2>1, <3>1
    <3> HIDE DEF periods
    <3> QED
      BY <3>3, <3>4 DEF Ranking
  <2> QED
    BY <2>1, <2>2, Zenon DEF OldTables
<1>4. PICK rk, ce, tv, di : /\ IF periods[Hour] = {} THEN rk = None ELSE rk.hour = Hour
         /\ OldTables = [FreshTables EXCEPT
               !.tranches = [t \in 0 .. 2 * Hour - 1 |-> FALSE], !.swaps = X, !.hours = hours,
               !.frozen = {0, Hour}, !.hourly = rows, !.protocolHourly = rows, !.births = rows,
               !.changes = [h \in {0} |-> rows[h]], !.periods = periods, !.ranking = rk,
               !.ceilings = ce, !.tvl = tv, !.discovered = di]
  BY <1>3
<1>5. hours = {0, Hour, 2 * Hour}
  OBVIOUS
<1>6. PICK ch, tr : ch = [h \in {0} |-> rows[h]] /\ tr = [t \in 0 .. 2 * Hour - 1 |-> FALSE]
  OBVIOUS
<1> HIDE DEF X, hours, rows, periods
<1>7. /\ OldTables.swaps = X /\ OldTables.moves = {} /\ OldTables.runs = {}
      /\ OldTables.hourly = rows /\ OldTables.protocolHourly = rows /\ OldTables.births = rows
      /\ OldTables.liquidityHourly = NoRows
      /\ OldTables.changes = ch
      /\ OldTables.periods = periods
      /\ OldTables.ranking = rk
  BY <1>1, <1>4, <1>6 DEF Columns
<1>8. rows = [h \in {0, Hour, 2 * Hour} |-> InSpan(X, h, h + Hour)]
  BY <1>5 DEF rows
<1>9. RankingStands(OldTables, Hour)
  BY <1>4, <1>7 DEF RankingStands
<1> QED
  BY <1>2, <1>4, <1>6, <1>7, <1>8, <1>9, Zenon DEF X, periods

\* The rows of the release before, and the windows that end at its hours.
OldRows(X) == [g \in {0, Hour, 2 * Hour} |-> InSpan(X, g, g + Hour)]
Stored(X) == \A x \in X : x.at \in Int /\ 0 <= x.at /\ x.at < 2 * Hour
OldWindow(X, h) == InSpan(X, h + Hour - Day * Hour, h + Hour)
OldWindowRows(rows, h) == UNION {rows[g] : g \in WindowHours(h) \cap {0, Hour, 2 * Hour}}

\* A window of the release before: its pools are those of its hours' rows.
LEMMA OldWindows ==
    ASSUME NEW X, Stored(X), NEW h \in {0, Hour}
    PROVE  OldWindow(X, h) = OldWindowRows(OldRows(X), h)
<1> DEFINE rows == OldRows(X)
<1>a. \A g \in {0, Hour, 2 * Hour} : rows[g] = InSpan(X, g, g + Hour)
  BY DEF OldRows
<1>b. \A x \in X : x.at \in Int /\ 0 <= x.at /\ x.at < 2 * Hour
  BY DEF Stored
<1> HIDE DEF rows
<1>0. Hour \in Nat /\ Hour > 0 /\ Day \in Nat /\ Day > 0
  BY TimesAssumption
<1>1. IsHour(0) /\ IsHour(Hour) /\ h \in Int /\ IsHour(h)
  <2>1. IsHour(0)
    BY <1>0 DEF IsHour
  <2>2. IsHour(0 + Hour)
    BY <2>1, HoursApart
  <2> QED
    BY <1>0, <2>1, <2>2
<1>2. PICK k \in Int : k = (Day - 1) * Hour /\ Day * Hour = k + Hour
  <2>1. (Day - 1) * Hour \in Int /\ Day * Hour = (Day - 1) * Hour + Hour
    BY <1>0
  <2> QED
    BY <2>1
<1>3. IsHour(h - k)
  <2>1. \A n \in Int : IsHour(h + n * Hour)
    BY <1>1, HoursApart
  <2>2. 1 - Day \in Int
    BY <1>0
  <2>3. IsHour(h + (1 - Day) * Hour)
    BY <2>1, <2>2
  <2>4. h + (1 - Day) * Hour = h - k
    BY <1>0, <1>1, <1>2
  <2> QED
    BY <2>3, <2>4
<1>4. h + Hour - Day * Hour = h - k
  BY <1>0, <1>1, <1>2
<1>5. \A g : g \in WindowHours(h) <=> IsHour(g) /\ h - k <= g /\ g <= h
  <2>1. WindowHours(h) = HoursBetween(h - k, h)
    BY <1>2 DEF WindowHours
  <2> QED
    BY <1>1, <1>3, <2>1, HoursBetweenIs
<1>6. ASSUME NEW x \in X, h - k <= x.at, x.at < h + Hour
      PROVE  \E g \in WindowHours(h) \cap {0, Hour, 2 * Hour} : x \in rows[g]
  <2>1. PICK t \in Int : t = x.at /\ 0 <= t /\ t < 2 * Hour
    BY <1>b
  <2>2. PICK g : g = hour_of(t)
    OBVIOUS
  <2>3. /\ IsHour(g) /\ g <= t /\ t < g + Hour /\ g \in Int
        /\ \A j : IsHour(j) /\ j <= t => j <= g
    BY <2>2, HourOf DEF IsHour
  <2>4. 0 <= g /\ h - k <= g
    BY <1>1, <1>3, <1>6, <2>1, <2>3
  <2>5. g <= h
    <3>1. h < g => h + Hour <= g
      BY <1>1, <2>3, HoursApart
    <3> QED
      BY <1>0, <1>1, <1>6, <2>1, <2>3, <3>1
  <2>6. g \in {0, Hour}
    <3>1. 0 < g => 0 + Hour <= g
      BY <1>1, <2>3, HoursApart
    <3> QED
      BY <1>0, <1>1, <2>3, <2>4, <2>5, <3>1
  <2>7. x \in rows[g]
    BY <1>a, <2>1, <2>3, <2>6 DEF InSpan
  <2> QED
    BY <1>5, <2>3, <2>4, <2>5, <2>6, <2>7
<1>7. ASSUME NEW g \in WindowHours(h) \cap {0, Hour, 2 * Hour}, NEW x \in rows[g]
      PROVE  x \in X /\ h - k <= x.at /\ x.at < h + Hour
  <2>1. x \in X /\ g <= x.at /\ x.at < g + Hour /\ x.at \in Int
    BY <1>a, <1>b, <1>7 DEF InSpan
  <2>2. h - k <= g /\ g <= h /\ g \in Int
    BY <1>0, <1>5, <1>7
  <2> QED
    BY <1>0, <1>1, <1>2, <2>1, <2>2
<1>8. InSpan(X, h - k, h + Hour) = UNION {rows[g] : g \in WindowHours(h) \cap {0, Hour, 2 * Hour}}
  BY <1>6, <1>7 DEF InSpan
<1> QED
  BY <1>4, <1>8 DEF OldWindow, OldWindowRows, rows

\* The hours the release before had frozen are whole.
LEMMA OldHours ==
    ASSUME NEW h \in {0, Hour}
    PROVE  HourWhole(OldTables, OldTables.swaps, h)
<1>0. Hour \in Nat /\ Hour > 0
  BY TimesAssumption
<1>1. PICK X, rows : X = InSpan(Txs, 0, 2 * Hour)
                     /\ rows = [g \in {0, Hour, 2 * Hour} |-> InSpan(X, g, g + Hour)]
  OBVIOUS
<1>2. /\ OldTables.swaps = X
      /\ OldTables.hourly = rows /\ OldTables.protocolHourly = rows /\ OldTables.births = rows
      /\ DOMAIN OldTables.liquidityHourly = {}
      /\ OldTables.changes = [g \in {0} |-> rows[g]]
      /\ OldTables.periods = [g \in {0, Hour} |->
                                {x.pool : x \in InSpan(X, g + Hour - Day * Hour, g + Hour)}]
  BY <1>1, OldColumns, Zenon
<1>3. \A x \in X : x.at \in Int /\ 0 <= x.at /\ x.at < 2 * Hour
  BY <1>1, TxsAssumption DEF InSpan
<1>4. InSpan(X, h + Hour - Day * Hour, h + Hour)
        = UNION {rows[g] : g \in WindowHours(h) \cap {0, Hour, 2 * Hour}}
  <2>1. Stored(X) /\ rows = OldRows(X)
    BY <1>1, <1>3 DEF Stored, OldRows
  <2>2. OldWindow(X, h) = OldWindowRows(OldRows(X), h)
    BY <2>1, OldWindows
  <2>3. OldWindow(X, h) = OldWindowRows(rows, h)
    BY <2>1, <2>2
  <2> QED
    BY <2>3, Zenon DEF OldWindow, OldWindowRows
<1>5. rows[h] = InSpan(X, h, h + Hour)
  BY <1>1
<1>6. h .. h + Hour - 1 \subseteq DOMAIN OldTables.tranches
  BY <1>0, Tables
<1>7. OldTables.hours = {0, Hour, 2 * Hour}
  BY Tables
<1>8. OldTables.periods[h] =
        {x.pool : x \in UNION {OldTables.hourly[g] : g \in WindowHours(h) \cap OldTables.hours}}
  <2>1. OldTables.periods[h] = {x.pool : x \in InSpan(X, h + Hour - Day * Hour, h + Hour)}
    BY <1>2
  <2> QED
    BY <1>2, <1>4, <1>7, <2>1
<1>9. h \in DOMAIN OldTables.changes => OldTables.changes[h] = rows[h]
  BY <1>2
<1>10. h \notin DOMAIN OldTables.liquidityHourly
  BY <1>2
<1> QED
  BY <1>2, <1>5, <1>6, <1>8, <1>9, <1>10 DEF HourWhole

\* The facts are whole when the first writer starts.
LEMMA FactsStart == Init => FactsInv
<1> SUFFICES ASSUME Init PROVE FactsInv
  OBVIOUS
<1>0. Hour \in Nat /\ Hour > 0 /\ Margin \in Nat
  BY TimesAssumption
<1>1. TimesInv
  BY TimesStart
<1>2. /\ now = 2 * Hour + Margin /\ cycle = [w \in Writers |-> None] /\ refused = FALSE
      /\ arrived = {x \in Txs \ Late : x.at <= now}
      /\ \/ db = OldTables /\ seen = db.swaps /\ current = FALSE
         \/ db = FreshTables /\ seen = {} /\ current = TRUE
  <2>1. PICK old \in BOOLEAN : /\ db = IF old THEN OldTables ELSE FreshTables
                               /\ seen = IF old THEN db.swaps ELSE {}
                               /\ current = ~old
    BY DEF Init, FactsInit
  <2>2. CASE old = TRUE
    BY <2>1, <2>2 DEF Init, FactsInit
  <2>3. CASE old = FALSE
    BY <2>1, <2>3 DEF Init, FactsInit
  <2> QED
    BY <2>2, <2>3
<1>3. now \in Int /\ 2 * Hour <= now
  BY <1>0, <1>2
<1>4. arrived \subseteq Txs
  BY <1>2
<1>5. CASE db = FreshTables /\ seen = {} /\ current = TRUE
  <2>1. /\ db.swaps = {} /\ db.moves = {} /\ db.runs = {} /\ db.hours = {} /\ db.frozen = {}
        /\ db.tranches = NoRows /\ db.hourly = NoRows /\ db.protocolHourly = NoRows
        /\ db.births = NoRows /\ db.periods = NoRows /\ db.liquidityHourly = NoRows
        /\ db.changes = NoRows
    BY <1>5 DEF FreshTables
  <2>2. DOMAIN NoRows = {}
    BY DEF NoRows
  <2>3. Spans({}, now)
    <3>1. 0 \in Int /\ {} \subseteq 0 .. now
      OBVIOUS
    <3> QED
      BY <3>1 DEF Spans
  <2>4. Bounded(db, now)
    BY <2>1, <2>2, <2>3 DEF Bounded
  <2>5. Valued(db, arrived, seen)
    BY <1>4, <1>5, <2>1, <2>2 DEF Valued
  <2>6. Summed(db)
    BY <2>1, <2>2 DEF Summed
  <2>7. Facts(db, seen)
    BY <2>1 DEF Facts
  <2>8. Changed(db, current, cycle)
    BY <1>5, <2>1 DEF Changed
  <2> QED
    BY <1>1, <1>2, <2>4, <2>5, <2>6, <2>7, <2>8 DEF FactsInv
<1>6. CASE db = OldTables /\ seen = db.swaps /\ current = FALSE
  <2>1. PICK X, rows : X = InSpan(Txs, 0, 2 * Hour)
                       /\ rows = [g \in {0, Hour, 2 * Hour} |-> InSpan(X, g, g + Hour)]
    OBVIOUS
  <2>2. /\ db.swaps = X /\ db.moves = {} /\ db.runs = {}
        /\ db.hourly = rows /\ db.protocolHourly = rows /\ db.births = rows
        /\ DOMAIN db.liquidityHourly = {} /\ DOMAIN db.changes = {0}
        /\ DOMAIN db.periods = {0, Hour} /\ RankingStands(db, Hour)
    BY <1>6, <2>1, OldColumns
  <2>3. /\ db.hours = {0, Hour, 2 * Hour} /\ db.frozen = {0, Hour}
        /\ db.tranches = [t \in 0 .. 2 * Hour - 1 |-> FALSE]
    BY <1>6, Tables
  <2>4. Bounded(db, now)
    <3>1. 0 \in Int /\ {0, Hour, 2 * Hour} \subseteq 0 .. now /\ {0} \subseteq 0 .. now
          /\ {} \subseteq 0 .. now
      BY <1>0, <1>3
    <3>2. Spans({0, Hour, 2 * Hour}, now) /\ Spans({0}, now) /\ Spans({}, now)
      BY <3>1 DEF Spans
    <3> QED
      BY <2>2, <2>3, <3>2 DEF Bounded
  <2>5. Valued(db, arrived, seen)
    <3>1. \A x \in X : x \in Txs /\ x.at \in Int /\ 0 <= x.at /\ x.at < 2 * Hour
      BY <2>1, TxsAssumption DEF InSpan
    <3>2. X \subseteq arrived
      <4>1. \A x \in X : x \notin Late
        BY <1>0, <3>1, TxsAssumption
      <4> QED
        BY <1>0, <1>2, <1>3, <3>1, <4>1
    <3>3. \A x \in X : x.at \in DOMAIN db.tranches
      BY <1>0, <2>3, <3>1
    <3>4. \A t \in DOMAIN db.tranches : db.tranches[t] = FALSE
      BY <2>3
    <3>5. db.moves = {x \in X : db.tranches[x.at]}
      BY <2>2, <3>3, <3>4
    <3>6. \A t \in DOMAIN db.tranches : db.tranches[t] \in BOOLEAN
      BY <3>4
    <3> QED
      BY <1>4, <1>6, <2>2, <3>2, <3>3, <3>4, <3>5, <3>6 DEF Valued
  <2>6. Summed(db)
    BY <2>1, <2>2, <2>3 DEF Summed
  <2>7. Facts(db, seen)
    <3>1. \A h \in db.frozen : HourWhole(db, seen, h)
      BY <1>6, <2>3, OldHours
    <3>2. Max(db.frozen) = Hour
      <4>1. Hour \in {0, Hour} /\ Hour \in Int /\ \A y \in {0, Hour} : y \in Int /\ y <= Hour
        BY <1>0
      <4> QED
        BY <2>3, <4>1, Ends
    <3> QED
      BY <2>2, <3>1, <3>2 DEF Facts
  <2>8. Changed(db, current, cycle)
    BY <1>2, <1>6, <2>2, OldShape DEF Changed
  <2> QED
    BY <1>1, <1>2, <2>4, <2>5, <2>6, <2>7, <2>8 DEF FactsInv
<1> QED
  BY <1>2, <1>5, <1>6

\* What is stored later was not there when its tranche was valued.
LEMMA ValuedGrows ==
    ASSUME NEW d, NEW A, NEW X, Valued(d, A, X), NEW B, A \subseteq B, B \subseteq Txs
    PROVE  Valued(d, B, X)
  BY Zenon DEF Valued

\* What is bounded stays bounded as time passes.
LEMMA BoundedGrows ==
    ASSUME NEW d, NEW n \in Int, Bounded(d, n)
    PROVE  Bounded(d, n + 1)
<1>1. ASSUME NEW S, Spans(S, n) PROVE Spans(S, n + 1)
  <2>1. PICK a \in Int : S \subseteq a .. n
    BY <1>1 DEF Spans
  <2>2. S \subseteq a .. n + 1
    BY <2>1
  <2> QED
    BY <2>2 DEF Spans
<1> QED
  BY <1>1 DEF Bounded

\* The hours the release before had frozen.
LEMMA OldFrozen ==
    ASSUME NEW d, Shape(d, 0, Hour, 2 * Hour - 1)
    PROVE  d.frozen = {0, Hour}
  BY OldShape, Tables DEF Shape

\* A cycle written is as its plan, but for what was written since.
LEMMA LockedKeeps ==
    ASSUME NEW d, NEW cs, NEW n \in Int, Times(d, cs, n), NEW v \in Writers, cs[v] # None
    PROVE  LET w == without_written(cs[v], Progress(d))
           IN  /\ w.at = cs[v].at /\ w.through = cs[v].through
               /\ cs[v].at <= n /\ cs[v].from <= cs[v].through
<1>1. PICK c, p : c = cs[v] /\ p = Progress(d)
  OBVIOUS
<1>2. Timely(c, n)
  BY <1>1 DEF Times, PlansFresh, PlansOld
<1>3. c \in Cycles /\ c.at <= n /\ c.from <= c.through
  BY <1>2 DEF Timely
<1>4. Known(p)
  <2>1. CASE NothingYet(d)
    <3>1. p = [first_hour |-> None, last_frozen |-> None, last_tranche |-> None]
      BY <1>1, <2>1, ProgressIs
    <3> QED
      BY <3>1 DEF Known
  <2>2. ASSUME NEW f, NEW lf, NEW b, Shape(d, f, lf, b) PROVE Known(p)
    <3>1. p = [first_hour |-> f, last_frozen |-> IF lf < f THEN None ELSE lf,
               last_tranche |-> IF b < f THEN None ELSE b]
      BY <1>1, <2>2, ProgressIs
    <3>2. f \in Int /\ lf \in Int /\ b \in Int
      BY <2>2 DEF Shape, IsHour
    <3> QED
      BY <3>1, <3>2 DEF Known
  <2> QED
    BY <2>1, <2>2 DEF Times
<1>5. without_written(c, p).at = c.at /\ without_written(c, p).through = c.through
  BY <1>3, <1>4, LockedIs
<1> QED
  BY <1>1, <1>3, <1>5

\* Every step of a writer, of the indexer, of the clock and of a client keeps them.
LEMMA FactsStep == FactsInv /\ [Next]_vars => FactsInv'
<1> SUFFICES ASSUME FactsInv, [Next]_vars PROVE FactsInv'
  OBVIOUS
<1>0. Hour \in Nat /\ Hour > 0
  BY TimesAssumption
<1>1. /\ TimesInv
      /\ Bounded(db, now) /\ Valued(db, arrived, seen) /\ Summed(db) /\ Facts(db, seen)
      /\ Changed(db, current, cycle) /\ ~refused
  BY DEF FactsInv
<1>2. TimesInv'
  BY <1>1, TimesStep
<1>3. now \in Int /\ DOMAIN db = Columns /\ DOMAIN cycle = Writers /\ Times(db, cycle, now)
  BY <1>1 DEF TimesInv
<1>4. ASSUME Bounded(db', now'), Valued(db', arrived', seen'), Summed(db'), Facts(db', seen'),
             Changed(db', current', cycle'), ~refused'
      PROVE  FactsInv'
  BY <1>2, <1>4 DEF FactsInv
<1>5. CASE UNCHANGED factVars
  BY <1>1, <1>4, <1>5 DEF factVars
<1>6. CASE Pass
  <2>1. /\ now' = now + 1 /\ db' = db /\ cycle' = cycle /\ seen' = seen /\ refused' = refused
        /\ current' = current /\ arrived \subseteq arrived' /\ arrived' \subseteq arrived \cup Txs
    BY <1>6 DEF Pass
  <2>2. arrived' \subseteq Txs
    BY <1>1, <2>1 DEF Valued
  <2>3. PICK B : B = arrived'
    OBVIOUS
  <2>4. Valued(db, B, seen)
    BY <1>1, <2>1, <2>2, <2>3, ValuedGrows
  <2>5. Bounded(db, now + 1)
    BY <1>1, <1>3, BoundedGrows
  <2> QED
    BY <1>1, <1>4, <2>1, <2>3, <2>4, <2>5
<1>7. ASSUME NEW x \in Txs, Arrive(x) PROVE FactsInv'
  <2>1. /\ now' = now /\ db' = db /\ cycle' = cycle /\ seen' = seen /\ refused' = refused
        /\ current' = current /\ arrived' = arrived \cup {x}
    BY <1>7 DEF Arrive
  <2>2. arrived' \subseteq Txs
    BY <1>1, <2>1 DEF Valued
  <2>3. PICK B : B = arrived'
    OBVIOUS
  <2>4. Valued(db, B, seen)
    BY <1>1, <2>1, <2>2, <2>3, ValuedGrows
  <2> QED
    BY <1>1, <1>4, <2>1, <2>3, <2>4
<1>8. ASSUME NEW v \in Writers, PlanCycle(v) PROVE FactsInv'
  <2>1. /\ now' = now /\ db' = db /\ cycle' = [cycle EXCEPT ![v] = plan(now, Progress(db))]
        /\ seen' = seen /\ refused' = refused /\ current' = current /\ arrived' = arrived
    BY <1>8 DEF PlanCycle
  <2>2. Changed(db, current, cycle')
    <3>1. CASE current
      BY <1>1, <3>1 DEF Changed
    <3>2. CASE ~current
      <4>1. /\ Shape(db, 0, Hour, 2 * Hour - 1) /\ DOMAIN db.changes = {0}
            /\ \A w \in Writers : cycle[w] # None => cycle[w].from = 2 * Hour
        BY <1>1, <3>2 DEF Changed
      <4>2. PICK c : c = plan(now, Progress(db))
        OBVIOUS
      <4>3. 2 * Hour - 1 < now /\ 0 <= now
        <5>1. DOMAIN db.tranches = 0 .. 2 * Hour - 1 /\ 0 \in db.hours
          BY <4>1 DEF Shape
        <5>2. PICK f, lf, b : Shape(db, f, lf, b) /\ f <= now /\ b < now
          BY <1>3, <5>1 DEF Times, NothingYet
        <5>3. DOMAIN db.tranches = f .. b /\ f \in Int /\ b \in Int
          BY <5>2 DEF Shape, IsHour
        <5>4. 2 * Hour - 1 \in 0 .. 2 * Hour - 1
          BY <1>0
        <5>5. 2 * Hour - 1 \in f .. b
          BY <5>1, <5>3, <5>4
        <5> QED
          BY <1>0, <1>3, <5>2, <5>3, <5>5
      <4>4. c.from = Hour + Hour
        BY <1>3, <4>1, <4>2, <4>3, PlanNext
      <4>5. \A u \in Writers : cycle'[u] = IF u = v THEN c ELSE cycle[u]
        BY <1>3, <2>1, <4>2
      <4>6. \A u \in Writers : cycle'[u] # None => cycle'[u].from = 2 * Hour
        BY <1>0, <4>1, <4>4, <4>5
      <4> QED
        BY <3>2, <4>1, <4>6 DEF Changed
    <3> QED
      BY <3>1, <3>2
  <2> QED
    BY <1>1, <1>4, <2>1, <2>2
<1>9. ASSUME NEW v \in Writers, DropCycle(v) PROVE FactsInv'
  <2>1. /\ now' = now /\ db' = db /\ cycle' = [cycle EXCEPT ![v] = None]
        /\ seen' = seen /\ refused' = refused /\ current' = current /\ arrived' = arrived
    BY <1>9 DEF DropCycle
  <2>2. \A u \in Writers : cycle'[u] # None => cycle'[u] = cycle[u]
    BY <1>3, <2>1
  <2>3. Changed(db, current, cycle')
    BY <1>1, <2>2 DEF Changed
  <2> QED
    BY <1>1, <1>4, <2>1, <2>3
<1>10. ASSUME NEW v \in Writers, WriteCycle(v) PROVE FactsInv'
  <2>1. PICK c : c = Locked(v)
    OBVIOUS
  <2>2. /\ cycle[v] # None /\ now' = now /\ current' = TRUE /\ arrived' = arrived
        /\ db' = (IF Duplicate(db, c) THEN db ELSE Written(db, arrived, c))
        /\ seen' = (IF Duplicate(db, c) THEN seen ELSE seen \cup OfTranches(arrived, c))
        /\ refused' = (refused \/ Duplicate(db, c))
    BY <1>10, <2>1 DEF WriteCycle
  <2>3. PICK f, lf, b : Effect(db, c, f, lf, b)
    BY <1>3, <2>1, <2>2, Locking DEF Locked
  <2>4. ~Duplicate(db, c)
    BY <1>1, <2>3, NoDuplicate
  <2>5. db' = Written(db, arrived, c) /\ seen' = seen \cup OfTranches(arrived, c) /\ ~refused'
    BY <1>1, <2>2, <2>4
  <2>6. PICK e : e = db'
    OBVIOUS
  <2>7. IsWritten(e, db, arrived, c)
    BY <1>3, <2>5, <2>6, WrittenIs
  <2>8. /\ c.at = cycle[v].at /\ c.through = cycle[v].through
        /\ cycle[v].at <= now /\ cycle[v].from <= cycle[v].through
    BY <1>3, <2>1, <2>2, LockedKeeps DEF Locked
  <2>9. c.at <= now
    BY <2>8
  <2>10. Bounded(e, now)
    BY <1>1, <1>3, <2>3, <2>7, <2>9, BoundedStays
  <2>11. Valued(e, arrived, seen \cup OfTranches(arrived, c))
    BY <1>1, <2>3, <2>7, ValuedStays
  <2>12. Summed(e)
    BY <1>1, <1>3, <2>3, <2>7, <2>9, SummedStays
  <2>13. Facts(e, seen \cup OfTranches(arrived, c))
    BY <1>1, <1>3, <2>3, <2>7, <2>9, FactsStay
  <2>14. \/ db.frozen \subseteq DOMAIN db.changes
         \/ db.frozen = {0, Hour} /\ DOMAIN db.changes = {0} /\ Hour <= c.through
    <3>1. CASE current
      BY <1>1, <3>1 DEF Changed
    <3>2. CASE ~current
      <4>1. /\ Shape(db, 0, Hour, 2 * Hour - 1) /\ DOMAIN db.changes = {0}
            /\ cycle[v].from = 2 * Hour
        BY <1>1, <2>2, <3>2 DEF Changed
      <4>2. db.frozen = {0, Hour}
        BY <4>1, OldFrozen
      <4>3. c.through \in Int
        BY <1>3, <2>3, <2>9, CycleHoursAre
      <4>4. Hour <= c.through
        BY <1>0, <2>8, <4>1, <4>3
      <4> QED
        BY <4>1, <4>2, <4>4
    <3> QED
      BY <3>1, <3>2
  <2>15. e.frozen \subseteq DOMAIN e.changes
    BY <1>1, <1>3, <2>3, <2>7, <2>9, <2>14, ChangesStay
  <2>16. Changed(db', current', cycle')
    BY <2>2, <2>6, <2>15 DEF Changed
  <2> QED
    BY <1>4, <2>2, <2>5, <2>6, <2>10, <2>11, <2>12, <2>13, <2>16
<1>11. CASE Clock
  BY <1>6, <1>11 DEF Clock
<1>12. CASE \E x \in Txs : Arrive(x) /\ UNCHANGED readVars
  BY <1>7, <1>12
<1>13. CASE \E w \in Writers : Writer(w)
  BY <1>8, <1>9, <1>10, <1>13 DEF Writer
<1>14. CASE \/ Ask \/ AskSince \/ Reply \/ RankedPage \/ RankedPeriod \/ WalkRows \/ HourTokens
            \/ WalkSince \/ MovePage \/ RunPage \/ LeaveWalk \/ \E l \in Lists : StartWalk(l)
  <2>1. UNCHANGED factVars
    BY <1>14 DEF Ask, AskSince, Reply, RankedPage, RankedPeriod, WalkRows, HourTokens, WalkSince,
                 MovePage, RunPage, LeaveWalk, StartWalk
  <2> QED
    BY <1>5, <2>1
<1>15. CASE UNCHANGED vars
  BY <1>5, <1>15 DEF vars
<1> QED
  BY <1>11, <1>12, <1>13, <1>14, <1>15 DEF Next

\* What the tables are found to hold is what the property says of them.
LEMMA FactsSay == FactsInv => FactsAreWhole
<1> SUFFICES ASSUME FactsInv PROVE FactsAreWhole
  OBVIOUS
<1>1. Summed(db) /\ Facts(db, seen) /\ Changed(db, current, cycle) /\ ~refused
  BY DEF FactsInv
<1>2. ASSUME NEW h \in db.frozen
      PROVE  /\ h .. h + Hour - 1 \subseteq DOMAIN db.tranches
             /\ db.hourly[h] = Whole(h, h + Hour) /\ db.protocolHourly[h] = db.hourly[h]
             /\ h \in DOMAIN db.liquidityHourly => db.liquidityHourly[h] = Whole(h, h + Hour)
             /\ Whole(h, h + Hour) \subseteq db.births[h]
             /\ h \in DOMAIN db.changes => Whole(h, h + Hour) \subseteq db.changes[h]
             /\ current => h \in DOMAIN db.changes
             /\ h \in DOMAIN db.periods
             /\ db.periods[h] = {x.pool : x \in UNION {db.hourly[g] :
                                     g \in WindowHours(h) \intersect db.hours}}
  <2>1. HourWhole(db, seen, h)
    BY <1>1, <1>2 DEF Facts
  <2>2. h \in DOMAIN db.periods /\ (current => h \in DOMAIN db.changes)
    BY <1>1, <1>2 DEF Summed, Changed
  <2> QED
    BY <2>1, <2>2 DEF HourWhole, Whole
<1>3. ASSUME NEW h \in db.frozen, h = Max(db.frozen)
      PROVE  IF db.periods[h] = {} THEN db.ranking = None ELSE db.ranking.hour = h
  BY <1>1, <1>3 DEF Facts, RankingStands
<1>4. ASSUME NEW r \in db.runs, r.settled
      PROVE  /\ r.swaps = {x \in Whole(r.start, r.last + 1) : x.pool = r.pool}
             /\ \A t \in MarksOf(r.pool) : ~(r.last < t /\ t <= r.last + RunGap)
  <2>1. RunSettled(db, seen, r)
    BY <1>1, <1>4 DEF Facts
  <2> QED
    BY <2>1 DEF RunSettled, Whole, MarksOf, MarksIn
<1> QED
  BY <1>1, <1>2, <1>3, <1>4 DEF FactsAreWhole

\* What a cycle freezes is whole and stays right, for any number of writers,
\* lengths of the hour, the margin and the day, and whatever is stored late: no
\* plan gone stale behind the lock values a tranche twice, freezes an hour that
\* lacks one, or settles a run that a later mark continues.
THEOREM FactsStayWhole == Spec => []FactsAreWhole
  BY FactsStart, FactsStep, FactsSay, PTL DEF Spec
=============================================================================
