----------------------- MODULE StatisticsBackfillProofs -----------------------
(***************************************************************************)
(* Theorems about StatisticsBackfill, for any household the meter can tell *)
(* apart and any calendar, overlap and retention: the types, a history     *)
(* that survives its rebuild, a pass that is current when it completes,    *)
(* and a sum that neither loses nor invents water.                         *)
(*                                                                         *)
(* build_meter_rows is a fold over the slots in order.  The first parts    *)
(* prove what the rest needs of the calendar, of the readings and of that  *)
(* fold; the induction it takes is a smallest counterexample among the     *)
(* parts of a finite set, so that the statement is a set and no operator.  *)
(***************************************************************************)
EXTENDS StatisticsBackfill, FiniteSetTheorems, SequenceTheorems, WellFoundedInduction, TLAPS

-----------------------------------------------------------------------------
(* Least counterexamples and bounds.                                       *)

\* A set of naturals has a least element.
LEMMA LeastElement ==
  ASSUME NEW S, S \subseteq Nat, S # {}
  PROVE  \E n \in S : \A m \in S : n =< m
  <1> DEFINE less == {p \in Nat \X Nat : p[1] < p[2]}
  <1>1. IsWellFoundedOn(less, Nat)
    BY NatLessThanWellFounded DEF OpToRel
  <1> HIDE DEF less
  <1>2. PICK n \in S : \A m \in S : <<m, n>> \notin less
    BY <1>1, WFMin
  <1>3. \A m \in S : ~(m < n)
    BY <1>2 DEF less
  <1>4. QED
    BY <1>2, <1>3

\* A bounded one has a greatest.
LEMMA GreatestElement ==
  ASSUME NEW b \in Nat, NEW S, S \subseteq 0..b, S # {}
  PROVE  \E n \in S : \A m \in S : n >= m
  <1> DEFINE below == {b - x : x \in S}
  <1>1. below \subseteq Nat /\ below # {}
    <2>1. \A x \in S : x \in Int /\ x =< b
      OBVIOUS
    <2>2. \A x \in S : b - x \in Nat
      BY <2>1
    <2>3. PICK x \in S : TRUE
      OBVIOUS
    <2>4. b - x \in below
      BY <2>3
    <2> QED
      BY <2>2, <2>4
  <1>2. PICK n \in below : \A m \in below : n =< m
    <2> HIDE DEF below
    <2> QED
      BY <1>1, LeastElement
  <1>3. PICK x \in S : n = b - x
    BY <1>2
  <1>4. \A y \in S : b - x =< b - y
    BY <1>2, <1>3
  <1>5. \A y \in S : x >= y
    <2> SUFFICES ASSUME NEW y \in S PROVE x >= y
      OBVIOUS
    <2>1. x \in Nat /\ y \in Nat /\ b - x =< b - y
      BY <1>4
    <2> QED
      BY <2>1
  <1> QED
    BY <1>5

LEMMA MaxIsGreatest ==
  ASSUME NEW b \in Nat, NEW S, S \subseteq 0..b, S # {}
  PROVE  Max(S) \in S /\ \A m \in S : Max(S) >= m
  <1>1. \E x \in S : \A m \in S : x >= m
    BY GreatestElement
  <1> QED
    BY <1>1 DEF Max

LEMMA MinIsLeast ==
  ASSUME NEW S, S \subseteq Nat, S # {}
  PROVE  Min(S) \in S /\ \A m \in S : Min(S) =< m
  BY LeastElement DEF Min

LEMMA MaxOfTwo ==
  ASSUME NEW a \in Int, NEW b \in Int
  PROVE  Max({a, b}) = IF a >= b THEN a ELSE b
  BY DEF Max

\* Induction over the parts of a finite set, with the statement as a set of parts.
LEMMA SmallestPart ==
  ASSUME NEW S, IsFiniteSet(S), NEW Bad \in SUBSET SUBSET S, Bad # {}
  PROVE  \E T \in Bad : \A U \in SUBSET T : U # T => U \notin Bad
  <1>1. IsWellFoundedOn(StrictSubsetOrdering(S), SUBSET S)
    BY FS_StrictSubsetOrderingWellFounded, FS_FiniteSubsetsOfFinite
  <1>2. PICK T \in Bad : \A U \in Bad : <<U, T>> \notin StrictSubsetOrdering(S)
    BY <1>1, WFMin
  <1>3. ASSUME NEW U \in SUBSET T, U # T, U \in Bad PROVE FALSE
    <2>1. <<U, T>> \in StrictSubsetOrdering(S)
      BY <1>3 DEF StrictSubsetOrdering
    <2> QED
      BY <1>2, <1>3, <2>1
  <1> QED
    BY <1>2, <1>3

-----------------------------------------------------------------------------
(* The calendar.                                                           *)

LEMMA Windows ==
  /\ {Days, DayLen, MonthDays, YearDays, Overlap, HourlyChunk, ProbeYears} \subseteq Nat \ {0}
  /\ {Margin, FirstHour, LateBound, FlipBound, PassDays, QueueBound, HourlyRetention}
       \subseteq Nat
  /\ Overlap + Margin =< HourlyChunk /\ HourlyChunk < HourlyRetention
  /\ Overlap + PassDays < HourlyRetention /\ Overlap =< YearDays
  BY WindowsAssumption

LEMMA HoursAre ==
  /\ Days * DayLen - 1 \in Nat
  /\ Hours = 0..(Days * DayLen - 1) /\ Hours \subseteq Nat /\ IsFiniteSet(Hours)
  /\ FirstHour \in Hours
  <1>1. Days \in Nat \ {0} /\ DayLen \in Nat \ {0}
    BY Windows
  <1>2. Days * DayLen - 1 \in Nat
    BY <1>1
  <1>3. IsFiniteSet(0..(Days * DayLen - 1))
    BY <1>2, FS_Interval
  <1> QED
    BY <1>2, <1>3, WindowsAssumption DEF Hours

LEMMA MidnightsInOrder ==
  ASSUME NEW a \in Int, NEW b \in Int
  PROVE  /\ Midnight(a) \in Int
         /\ a =< b => Midnight(a) =< Midnight(b)
         /\ a < b => Midnight(a) + DayLen =< Midnight(b)
  <1>1. DayLen \in Nat \ {0}
    BY Windows
  <1>2. a * DayLen \in Int
    BY <1>1
  <1>3. a =< b => a * DayLen =< b * DayLen
    BY <1>1
  <1>4. a < b => a * DayLen + DayLen =< b * DayLen
    <2>1. SUFFICES ASSUME a < b PROVE a * DayLen + DayLen =< b * DayLen
      OBVIOUS
    <2>2. (a + 1) * DayLen =< b * DayLen
      BY <1>1, <2>1
    <2>3. (a + 1) * DayLen = a * DayLen + DayLen
      BY <1>1
    <2> QED
      BY <2>2, <2>3
  <1> QED
    BY <1>2, <1>3, <1>4 DEF Midnight

LEMMA DayOf ==
  ASSUME NEW h \in Int
  PROVE  /\ Day(h) \in Int /\ (h \in Nat => Day(h) \in Nat)
         /\ Midnight(Day(h)) =< h /\ h < Midnight(Day(h)) + DayLen
  <1>1. DayLen \in Nat \ {0}
    BY Windows
  <1>2. /\ h \div DayLen \in Int /\ (h \in Nat => h \div DayLen \in Nat)
        /\ (h \div DayLen) * DayLen =< h /\ h < (h \div DayLen) * DayLen + DayLen
    <2>1. DayLen * (h \div DayLen) =< h
      BY <1>1
    <2>4. h < DayLen * (h \div DayLen) + DayLen
      BY <1>1
    <2>2. h \div DayLen \in Int /\ (h \in Nat => h \div DayLen \in Nat)
      BY <1>1
    <2>3. DayLen * (h \div DayLen) = (h \div DayLen) * DayLen /\ (h \div DayLen) * DayLen \in Int
      BY <1>1, <2>2
    <2> QED
      BY <1>1, <2>1, <2>2, <2>3, <2>4
  <1> QED
    BY <1>2 DEF Day, Midnight

LEMMA MidnightOpensDay ==
  ASSUME NEW d \in Int
  PROVE  Day(Midnight(d)) = d
  <1>1. DayLen \in Nat \ {0}
    BY Windows
  <1>2. (d * DayLen) \div DayLen = d
    BY <1>1
  <1> QED
    BY <1>2 DEF Day, Midnight

LEMMA DaysInOrder ==
  ASSUME NEW a \in Int, NEW b \in Int
  PROVE  /\ a =< b => Day(a) =< Day(b)
         /\ Day(a) < Day(b) => a < Midnight(Day(b)) /\ a < b
  <1>1. /\ Day(a) \in Int /\ Day(b) \in Int
        /\ Midnight(Day(a)) =< a /\ a < Midnight(Day(a)) + DayLen
        /\ Midnight(Day(b)) =< b /\ b < Midnight(Day(b)) + DayLen
    BY DayOf
  <1>2. /\ Midnight(Day(a)) \in Int /\ Midnight(Day(b)) \in Int /\ DayLen \in Nat
        /\ Day(a) < Day(b) => Midnight(Day(a)) + DayLen =< Midnight(Day(b))
        /\ Day(b) < Day(a) => Midnight(Day(b)) + DayLen =< Midnight(Day(a))
    BY <1>1, MidnightsInOrder, Windows
  <1> QED
    BY <1>1, <1>2

\* The overlap in hours and in days.
LEMMA OverlapReaches ==
  ASSUME NEW h \in Int, NEW n \in Int
  PROVE  /\ Overlap * DayLen \in Nat
         /\ n - Overlap * DayLen < h => Day(n) - Overlap =< Day(h)
         /\ Day(h) + Overlap < Day(n) => h < n - Overlap * DayLen
  <1>1. DayLen \in Nat \ {0} /\ Overlap \in Nat
    BY Windows
  <1>2. Overlap * DayLen \in Nat
    BY <1>1
  <1>3. Day(h) \in Int /\ Day(n) \in Int
    BY DayOf
  <1>4. Midnight(Day(n) - Overlap) = Midnight(Day(n)) - Overlap * DayLen
    <2> DEFINE d == Day(n)
    <2>1. (d - Overlap) * DayLen = d * DayLen - Overlap * DayLen
      <3> HIDE DEF d
      <3>1. d \in Int
        BY <1>3 DEF d
      <3> QED
        BY <1>1, <3>1
    <2> QED
      BY <2>1 DEF Midnight
  <1>5. Midnight(Day(n)) =< n /\ Midnight(Day(n)) \in Int
    BY DayOf, MidnightsInOrder
  <1>6. Day(h) < Day(n) - Overlap => h < Midnight(Day(n) - Overlap)
    <2>1. Day(n) - Overlap \in Int
      BY <1>1, <1>3
    <2>2. Day(Midnight(Day(n) - Overlap)) = Day(n) - Overlap /\ Midnight(Day(n) - Overlap) \in Int
      BY <2>1, MidnightOpensDay, MidnightsInOrder
    <2> QED
      BY <2>2, DaysInOrder
  <1> QED
    BY <1>1, <1>2, <1>3, <1>4, <1>5, <1>6

-----------------------------------------------------------------------------
(* The fold of build_meter_rows.                                           *)

Readings == [value : Nat \ {0}, drawn : Nat]
Anchors == [start : Hours, state : Nat, sum : Nat]

\* What the fold adds for a set s of slots, g being its value for smaller ones.
RowsBody(readings, anchor, g, s) ==
  IF s = {} THEN NoneYet(anchor)
  ELSE AddRow(g[s \ {Max(s)}], Max(s), readings[Max(s)])
RowsTable(readings, anchor) ==
  CHOOSE g : g = [s \in SUBSET DOMAIN readings |-> RowsBody(readings, anchor, g, s)]

LEMMA RowsAreTabled ==
  ASSUME NEW readings, NEW anchor
  PROVE  BuildMeterRows(readings, anchor)
           = RowsTable(readings, anchor)[DOMAIN readings].rows
  BY DEF BuildMeterRows, MapThenFoldSet, RowsTable, RowsBody

LEMMA NewestSlot ==
  ASSUME NEW s, s \subseteq Hours, s # {}
  PROVE  /\ Max(s) \in s /\ \A m \in s \ {Max(s)} : m < Max(s)
         /\ IsFiniteSet(s) /\ Cardinality(s) \in Nat
         /\ Cardinality(s \ {Max(s)}) = Cardinality(s) - 1
  <1>1. Max(s) \in s /\ \A m \in s : Max(s) >= m
    BY HoursAre, MaxIsGreatest
  <1>2. \A m \in s : m \in Nat
    BY HoursAre
  <1>3. IsFiniteSet(s)
    BY HoursAre, FS_Subset
  <1>4. Cardinality(s) \in Nat /\ Cardinality(s \ {Max(s)}) = Cardinality(s) - 1
    BY <1>1, <1>3, FS_CardinalityType, FS_RemoveElement
  <1> QED
    BY <1>1, <1>2, <1>3, <1>4

\* Induction over the naturals, with the statement as a set.
LEMMA Upward ==
  ASSUME NEW G, 0 \in G, \A n \in Nat : n \in G => n + 1 \in G
  PROVE  Nat \subseteq G
  <1>1. SUFFICES ASSUME Nat \ G # {} PROVE FALSE
    OBVIOUS
  <1>2. PICK n \in Nat \ G : \A m \in Nat \ G : n =< m
    BY <1>1, LeastElement
  <1>3. n # 0 /\ n - 1 \in Nat
    BY <1>2
  <1>4. n - 1 \in G
    BY <1>2, <1>3
  <1> QED
    BY <1>2, <1>3, <1>4

\* A table that is right for the parts with at most n slots.
RightFor(readings, anchor, g, n) ==
  \A s \in SUBSET DOMAIN readings :
    Cardinality(s) =< n => g[s] = RowsBody(readings, anchor, g, s)

LEMMA RowsTableExists ==
  ASSUME NEW readings, NEW anchor, DOMAIN readings \subseteq Hours
  PROVE  \E g : g = [s \in SUBSET DOMAIN readings |-> RowsBody(readings, anchor, g, s)]
  <1> DEFINE S == DOMAIN readings
             body(g, s) == RowsBody(readings, anchor, g, s)
             Good == {n \in Nat : \E g : RightFor(readings, anchor, g, n)}
  <1>1. \A s \in SUBSET S : /\ IsFiniteSet(s) /\ Cardinality(s) \in Nat
                            /\ Cardinality(s) = 0 => s = {}
    BY HoursAre, FS_Subset, FS_CardinalityType, FS_EmptySet
  <1>2. 0 \in Good
    <2> DEFINE none == [s \in SUBSET S |-> NoneYet(anchor)]
    <2>1. ASSUME NEW s \in SUBSET S, Cardinality(s) =< 0 PROVE none[s] = body(none, s)
      BY <1>1, <2>1 DEF RowsBody
    <2>2. RightFor(readings, anchor, none, 0)
      BY <2>1 DEF RightFor
    <2> QED
      BY <2>2
  <1>3. ASSUME NEW n \in Nat, n \in Good PROVE n + 1 \in Good
    <2>1. PICK g : RightFor(readings, anchor, g, n)
      BY <1>3
    <2> DEFINE h == [s \in SUBSET S |-> IF Cardinality(s) =< n THEN g[s] ELSE body(g, s)]
    <2>2. ASSUME NEW s \in SUBSET S, Cardinality(s) =< n + 1 PROVE h[s] = body(h, s)
      <3>1. h[s] = body(g, s)
        BY <2>1 DEF RightFor
      <3>2. CASE s = {}
        BY <3>1, <3>2 DEF RowsBody
      <3>3. CASE s # {}
        <4>1. s \ {Max(s)} \in SUBSET S /\ Cardinality(s \ {Max(s)}) = Cardinality(s) - 1
          BY <3>3, NewestSlot
        <4>2. Cardinality(s \ {Max(s)}) =< n
          BY <1>1, <2>2, <4>1
        <4>3. h[s \ {Max(s)}] = g[s \ {Max(s)}]
          BY <4>1, <4>2
        <4> HIDE DEF h
        <4> QED
          BY <3>1, <4>3 DEF RowsBody
      <3> QED
        BY <3>2, <3>3
    <2>3. RightFor(readings, anchor, h, n + 1)
      BY <2>2 DEF RightFor
    <2> QED
      BY <2>3
  <1>4. Cardinality(S) \in Good
    <2> HIDE DEF Good
    <2>1. Cardinality(S) \in Nat
      BY <1>1
    <2>2. Nat \subseteq Good
      BY <1>2, <1>3, Upward
    <2> QED
      BY <2>1, <2>2
  <1>5. PICK g : RightFor(readings, anchor, g, Cardinality(S))
    BY <1>4
  <1> DEFINE h == [s \in SUBSET S |-> g[s]]
  <1>6. ASSUME NEW s \in SUBSET S PROVE h[s] = body(h, s)
    <2>1. Cardinality(s) =< Cardinality(S)
      BY <1>1, FS_Subset
    <2>2. g[s] = body(g, s)
      BY <1>5, <2>1 DEF RightFor
    <2>3. body(g, s) = body(h, s)
      BY DEF RowsBody
    <2> QED
      BY <2>2, <2>3
  <1>7. h = [s \in SUBSET S |-> body(h, s)]
    BY <1>6
  <1> QED
    BY <1>7

LEMMA RowsUnfold ==
  ASSUME NEW readings, NEW anchor, DOMAIN readings \subseteq Hours,
         NEW s \in SUBSET DOMAIN readings
  PROVE  RowsTable(readings, anchor)[s]
           = RowsBody(readings, anchor, RowsTable(readings, anchor), s)
  <1>1. RowsTable(readings, anchor)
          = [t \in SUBSET DOMAIN readings |->
               RowsBody(readings, anchor, RowsTable(readings, anchor), t)]
    BY RowsTableExists DEF RowsTable
  <1> QED
    BY <1>1

-----------------------------------------------------------------------------
(* What build_meter_rows returns.                                          *)

Delta(value, previous) == IF value >= previous THEN value - previous ELSE value

\* a is the newest row before the slot b.
Precedes(rows, a, b) ==
  a \in DOMAIN rows /\ a < b /\ \A s \in DOMAIN rows : s =< a \/ b =< s
NoneBefore(rows, b) == \A s \in DOMAIN rows : b =< s

RowsTyped(rows, slots) == DOMAIN rows \subseteq slots /\ rows \in [DOMAIN rows -> Row]

RowsRead(rows, readings) ==
  \A s \in DOMAIN rows : rows[s].state = readings[s].value /\ rows[s].drawn = readings[s].drawn

\* A row counts on from the one before it.
Chained(rows) ==
  \A a, b \in DOMAIN rows :
    Precedes(rows, a, b) =>
      /\ ~IsGlitch(rows[b].state, rows[a].state)
      /\ rows[b].sum = rows[a].sum + Delta(rows[b].state, rows[a].state)

\* The first row counts on from the anchor, or is a baseline.
Anchored(rows, slots, anchor) ==
  \A b \in DOMAIN rows :
    NoneBefore(rows, b) =>
      IF anchor = None THEN rows[b].sum = 0 /\ \A s \in slots : b =< s
      ELSE /\ ~IsGlitch(rows[b].state, anchor.state)
           /\ rows[b].sum = anchor.sum + Delta(rows[b].state, anchor.state)

\* Only glitches are left out.
Skipped(rows, readings, slots, anchor) ==
  \A s \in slots \ DOMAIN rows :
    \/ \E a \in DOMAIN rows : Precedes(rows, a, s) /\ IsGlitch(readings[s].value, rows[a].state)
    \/ /\ anchor # None /\ NoneBefore(rows, s)
       /\ IsGlitch(readings[s].value, anchor.state)

RowsCount(rows, readings, slots, anchor) ==
  /\ RowsTyped(rows, slots) /\ RowsRead(rows, readings)
  /\ Chained(rows) /\ Anchored(rows, slots, anchor)
  /\ Skipped(rows, readings, slots, anchor)

\* The fold carries the newest row's reading and sum.
Carries(acc, anchor) ==
  \/ acc.rows = NoRows /\ acc.previous = NoneYet(anchor).previous
                       /\ acc.total = NoneYet(anchor).total
  \/ \E last \in DOMAIN acc.rows :
       /\ \A s \in DOMAIN acc.rows : s =< last
       /\ acc.previous = acc.rows[last].state /\ acc.total = acc.rows[last].sum

\* One more reading, of a later slot.
LEMMA AddRowCounts ==
  ASSUME NEW acc, NEW readings, NEW slots \in SUBSET Hours, NEW anchor \in Anchors \cup {None},
         RowsCount(acc.rows, readings, slots, anchor), Carries(acc, anchor),
         NEW slot \in Hours, \A s \in slots : s < slot, readings[slot] \in Readings
  PROVE  LET new == AddRow(acc, slot, readings[slot])
         IN RowsCount(new.rows, readings, slots \cup {slot}, anchor) /\ Carries(new, anchor)
  <1> DEFINE rows == acc.rows
             v == readings[slot].value
             previous == acc.previous
             total == acc.total
             new == AddRow(acc, slot, readings[slot])
  <1>1. /\ v \in Nat \ {0} /\ readings[slot].drawn \in Nat
        /\ \A s \in slots : s \in Nat /\ s < slot
        /\ slot \in Nat /\ slot \notin slots
    <2>1. v \in Nat \ {0} /\ readings[slot].drawn \in Nat
      BY DEF Readings
    <2>2. slot \in Nat /\ \A s \in slots : s \in Nat /\ s < slot
      BY HoursAre
    <2>3. slot \notin slots
      BY <2>2
    <2> QED
      BY <2>1, <2>2, <2>3
  <1>2. /\ DOMAIN rows \subseteq slots
        /\ \A s \in DOMAIN rows : /\ rows[s] \in Row /\ rows[s].state \in Nat /\ rows[s].sum \in Nat
    BY DEF RowsCount, RowsTyped, Row
  <1>3. anchor # None => anchor.state \in Nat /\ anchor.sum \in Nat
    BY DEF Anchors
  <1>4. None \notin Nat
    BY NoneAssumption
  <1>5. /\ total \in Nat /\ previous \in Nat \cup {None}
        /\ previous = None <=> (anchor = None /\ rows = NoRows)
    BY <1>2, <1>3, <1>4 DEF Carries, NoneYet, NoRows
  <1>c. \/ rows = NoRows /\ previous = NoneYet(anchor).previous /\ total = NoneYet(anchor).total
        \/ \E last \in DOMAIN rows :
             /\ \A s \in DOMAIN rows : s =< last
             /\ previous = rows[last].state /\ total = rows[last].sum
    BY DEF Carries
  <1>r. RowsCount(rows, readings, slots, anchor)
    OBVIOUS
  <1>a. AddRow(acc, slot, readings[slot]) = new
    OBVIOUS
  <1>d. new = IF previous # None /\ IsGlitch(v, previous) THEN acc
              ELSE [previous |-> v,
                    total |-> total + (IF previous = None THEN 0 ELSE Delta(v, previous)),
                    rows |-> Upserted([s \in {slot} |->
                               [state |-> v,
                                sum |-> total + (IF previous = None THEN 0 ELSE Delta(v, previous)),
                                drawn |-> readings[slot].drawn]], rows)]
    BY DEF AddRow, Delta
  <1>e. acc.rows = rows /\ Carries(acc, anchor)
    OBVIOUS
  <1> DEFINE w == readings[slot].drawn
  <1>w. readings[slot].value = v /\ readings[slot].drawn = w
    OBVIOUS
  <1> HIDE DEF rows, v, w, previous, total, new
  <1>6. CASE previous # None /\ IsGlitch(v, previous)
    <2>1. new = acc
      BY <1>6, <1>d
    <2>2. Skipped(rows, readings, slots \cup {slot}, anchor)
      <3>1. CASE rows = NoRows
        <4>1. NoneBefore(rows, slot)
          BY <3>1 DEF NoneBefore, NoRows
        <4>2. anchor # None /\ previous = anchor.state
          BY <1>5, <1>6, <1>c, <3>1 DEF NoneYet, NoRows
        <4> QED
          BY <1>6, <1>w, <1>r, <4>1, <4>2 DEF Skipped, RowsCount
      <3>2. CASE rows # NoRows
        <4>1. PICK last \in DOMAIN rows :
                (\A s \in DOMAIN rows : s =< last) /\ previous = rows[last].state
          BY <3>2, <1>c
        <4>2. Precedes(rows, last, slot)
          BY <1>1, <1>2, <4>1 DEF Precedes
        <4> QED
          BY <1>6, <1>w, <1>r, <4>1, <4>2 DEF Skipped, RowsCount
      <3> QED
        BY <3>1, <3>2
    <2>3. Anchored(rows, slots \cup {slot}, anchor)
      <3>1. anchor = None => rows # NoRows
        BY <1>5, <1>6
      <3>2. rows # NoRows => \E s \in DOMAIN rows : TRUE
        BY <1>c
      <3>3. ASSUME NEW b \in DOMAIN rows PROVE b \in Nat /\ slot \in Nat /\ b < slot
        BY <1>1, <1>2
      <3> QED
        BY <1>1, <1>r, <3>1, <3>3 DEF Anchored, RowsCount
    <2>4. RowsTyped(rows, slots \cup {slot})
      BY <1>r DEF RowsTyped, RowsCount
    <2>5. RowsCount(rows, readings, slots \cup {slot}, anchor)
      BY <1>r, <2>2, <2>3, <2>4 DEF RowsCount
    <2>6. RowsCount(new.rows, readings, slots \cup {slot}, anchor) /\ Carries(new, anchor)
      BY <1>e, <2>1, <2>5
    <2> QED
      BY <1>a, <2>6
  <1>7. CASE ~(previous # None /\ IsGlitch(v, previous))
    <2> DEFINE delta == IF previous = None THEN 0 ELSE Delta(v, previous)
               row == [state |-> v, sum |-> total + delta, drawn |-> w]
               more == Upserted([s \in {slot} |-> row], rows)
    <2>1. new = [previous |-> v, total |-> total + delta, rows |-> more]
      BY <1>7, <1>d, <1>w
    <2>2. /\ DOMAIN more = DOMAIN rows \cup {slot} /\ more[slot] = row
          /\ \A s \in DOMAIN rows : more[s] = rows[s]
      <3>1. slot \notin DOMAIN rows
        BY <1>1, <1>2
      <3> DEFINE added == row
      <3>2. more = Upserted([s \in {slot} |-> added], rows)
        OBVIOUS
      <3> HIDE DEF added, more
      <3>3. /\ DOMAIN more = DOMAIN rows \cup {slot} /\ more[slot] = added
            /\ \A s \in DOMAIN rows : s # slot => more[s] = rows[s]
        BY <3>2 DEF Upserted
      <3> QED
        BY <3>1, <3>3 DEF added
    <2>3. delta \in Nat
      BY <1>1, <1>5 DEF Delta
    <2>4. row \in Row
      BY <1>1, <1>5, <1>w, <2>3 DEF Row
    <2> DEFINE sum == row.sum
    <2>5. row.state = v /\ row.drawn = w /\ sum = total + delta
      OBVIOUS
    <2> HIDE DEF more, row, delta, sum
    <2>f. more = [s \in DOMAIN more |-> more[s]]
      BY DEF more, Upserted
    <2>6. RowsTyped(more, slots \cup {slot}) /\ RowsRead(more, readings)
      BY <1>r, <1>w, <2>f, <2>2, <2>4, <2>5 DEF RowsTyped, RowsRead, RowsCount
    <2>7. Chained(more)
      <3> SUFFICES ASSUME NEW a \in DOMAIN more, NEW b \in DOMAIN more, Precedes(more, a, b)
                   PROVE  /\ ~IsGlitch(more[b].state, more[a].state)
                          /\ more[b].sum = more[a].sum + Delta(more[b].state, more[a].state)
        BY DEF Chained
      <3>1. a < b /\ \A s \in DOMAIN more : s =< a \/ b =< s
        BY DEF Precedes
      <3>2. a \in DOMAIN rows
        <4>1. SUFFICES ASSUME a = slot PROVE FALSE
          BY <2>2
        <4>2. b \in DOMAIN rows => b < slot /\ b \in Nat
          BY <1>1, <1>2
        <4> QED
          BY <1>1, <2>2, <3>1, <4>1, <4>2
      <3>3. CASE b \in DOMAIN rows
        <4>1. Precedes(rows, a, b)
          BY <2>2, <3>1, <3>2 DEF Precedes
        <4> QED
          BY <1>r, <2>2, <3>2, <3>3, <4>1 DEF Chained, RowsCount
      <3>4. CASE b = slot
        <4>1. rows # NoRows
          BY <3>2 DEF NoRows
        <4>2. PICK last \in DOMAIN rows : /\ \A s \in DOMAIN rows : s =< last
                                          /\ previous = rows[last].state
                                          /\ total = rows[last].sum
          BY <4>1, <1>c
        <4>3. a = last
          <5>1. last =< a \/ slot =< last
            BY <2>2, <3>1, <3>4
          <5>2. a =< last /\ last < slot /\ a \in Nat /\ last \in Nat /\ slot \in Nat
            BY <1>1, <1>2, <3>2, <4>2
          <5>3. a < slot
            BY <3>1, <3>4
          <5> QED
            BY <5>1, <5>2, <5>3
        <4>4. previous # None /\ delta = Delta(v, previous)
          BY <1>2, <1>4, <4>2 DEF delta
        <4> QED
          BY <1>7, <2>2, <2>5, <3>2, <3>4, <4>2, <4>3, <4>4 DEF sum
      <3> QED
        BY <2>2, <3>3, <3>4
    <2>8. Anchored(more, slots \cup {slot}, anchor)
      <3> SUFFICES ASSUME NEW b \in DOMAIN more, NoneBefore(more, b)
                   PROVE  IF anchor = None
                            THEN more[b].sum = 0 /\ \A s \in slots \cup {slot} : b =< s
                          ELSE /\ ~IsGlitch(more[b].state, anchor.state)
                               /\ more[b].sum = anchor.sum + Delta(more[b].state, anchor.state)
        BY DEF Anchored
      <3>3. b \in DOMAIN rows => b < slot /\ b \in Nat /\ slot \in Nat
        BY <1>1, <1>2
      <3>1. CASE b \in DOMAIN rows
        <4>1. NoneBefore(rows, b)
          BY <2>2 DEF NoneBefore
        <4> QED
          BY <1>r, <2>2, <3>1, <3>3, <4>1 DEF Anchored, RowsCount
      <3>2. CASE b = slot
        <4>1. ~ \E s \in DOMAIN rows : TRUE
          <5>1. ASSUME NEW s \in DOMAIN rows PROVE FALSE
            <6>1. slot =< s
              BY <2>2, <3>2 DEF NoneBefore
            <6>2. s < slot /\ s \in Nat /\ slot \in Nat
              BY <1>1, <1>2
            <6> QED
              BY <6>1, <6>2
          <5> QED
            BY <5>1
        <4>2. DOMAIN rows = {} /\ rows = NoRows
          BY <1>c, <4>1
        <4>3. total = NoneYet(anchor).total /\ previous = NoneYet(anchor).previous
          BY <1>c, <4>1
        <4>4. CASE anchor = None
          <5>1. slots = {}
            BY <1>r, <4>2, <4>4 DEF Skipped, RowsCount
          <5>2. total = 0 /\ delta = 0
            BY <4>3, <4>4 DEF NoneYet, delta
          <5> QED
            BY <1>1, <2>2, <2>5, <3>2, <4>4, <5>1, <5>2 DEF sum
        <4>5. CASE anchor # None
          <5>1. total = anchor.sum /\ previous = anchor.state
            BY <4>3, <4>5 DEF NoneYet
          <5>2. previous # None /\ delta = Delta(v, previous)
            BY <1>3, <1>4, <4>5, <5>1 DEF delta
          <5> QED
            BY <1>7, <2>2, <2>5, <3>2, <4>5, <5>1, <5>2 DEF sum
        <4> QED
          BY <4>4, <4>5
      <3> QED
        BY <2>2, <3>1, <3>2
    <2>9. Skipped(more, readings, slots \cup {slot}, anchor)
      <3> SUFFICES ASSUME NEW s \in (slots \cup {slot}) \ DOMAIN more
                   PROVE  \/ \E a \in DOMAIN more :
                               Precedes(more, a, s) /\ IsGlitch(readings[s].value, more[a].state)
                          \/ /\ anchor # None /\ NoneBefore(more, s)
                             /\ IsGlitch(readings[s].value, anchor.state)
        BY DEF Skipped
      <3>1. s \in slots \ DOMAIN rows /\ s < slot /\ s \in Nat
        BY <1>1, <2>2
      <3>2. \A a \in DOMAIN rows : Precedes(rows, a, s) => Precedes(more, a, s)
        BY <1>1, <2>2, <3>1 DEF Precedes
      <3>3. NoneBefore(rows, s) => NoneBefore(more, s)
        BY <1>1, <2>2, <3>1 DEF NoneBefore
      <3> QED
        BY <1>r, <2>2, <3>1, <3>2, <3>3 DEF Skipped, RowsCount
    <2>10. new.rows = more /\ new.previous = v /\ new.total = sum
      BY <2>1, <2>5
    <2>11. Carries(new, anchor)
      <3>1. slot \in DOMAIN more /\ \A s \in DOMAIN more : s =< slot
        <4>1. \A s \in DOMAIN rows : s < slot /\ s \in Nat
          BY <1>1, <1>2
        <4> QED
          BY <1>1, <2>2, <4>1
      <3> HIDE DEF new
      <3> QED
        BY <2>2, <2>5, <2>10, <3>1 DEF Carries, sum
    <2> HIDE DEF new
    <2>12. RowsCount(new.rows, readings, slots \cup {slot}, anchor)
      BY <2>6, <2>7, <2>8, <2>9, <2>10 DEF RowsCount
    <2> QED
      BY <2>11, <2>12, <1>a
  <1> QED
    BY <1>6, <1>7, <1>a

\* build_meter_rows, over all the readings.
LEMMA RowsAreCounted ==
  ASSUME NEW readings, DOMAIN readings \subseteq Hours,
         \A s \in DOMAIN readings : readings[s] \in Readings,
         NEW anchor \in Anchors \cup {None}
  PROVE  RowsCount(BuildMeterRows(readings, anchor), readings, DOMAIN readings, anchor)
  <1> DEFINE acc(s) == RowsTable(readings, anchor)[s]
             Fine(s) == RowsCount(acc(s).rows, readings, s, anchor) /\ Carries(acc(s), anchor)
             Bad == {s \in SUBSET DOMAIN readings : ~Fine(s)}
  <1>1. SUFFICES ASSUME Bad # {} PROVE FALSE
    <2>1. Fine(DOMAIN readings)
      BY <1>1
    <2> QED
      BY <2>1, RowsAreTabled
  <1>2. PICK s \in Bad : \A t \in SUBSET s : t # s => t \notin Bad
    <2> HIDE DEF Bad
    <2>1. Bad \in SUBSET SUBSET DOMAIN readings
      BY DEF Bad
    <2>2. IsFiniteSet(DOMAIN readings)
      BY HoursAre, FS_Subset
    <2> QED
      BY <1>1, <2>1, <2>2, SmallestPart
  <1>3. acc(s) = RowsBody(readings, anchor, RowsTable(readings, anchor), s)
    BY RowsUnfold
  <1>4. s # {}
    <2> SUFFICES ASSUME s = {} PROVE FALSE
      OBVIOUS
    <2>1. acc(s) = NoneYet(anchor) /\ acc(s).rows = NoRows
      BY <1>3 DEF RowsBody, NoneYet
    <2>2. Carries(acc(s), anchor)
      BY <2>1 DEF Carries
    <2>3. RowsCount(NoRows, readings, {}, anchor)
      BY DEF RowsCount, RowsTyped, RowsRead, Chained, Anchored, Skipped, NoRows
    <2> QED
      BY <1>2, <2>1, <2>2, <2>3
  <1> DEFINE top == Max(s)
             rest == s \ {top}
  <1>5. top \in s /\ \A m \in rest : m < top
    BY <1>4, NewestSlot
  <1>6. Fine(rest) /\ rest \in SUBSET Hours /\ top \in Hours /\ readings[top] \in Readings
    BY <1>2, <1>5
  <1>7. acc(s) = AddRow(acc(rest), top, readings[top])
    BY <1>3, <1>4 DEF RowsBody
  <1>8. rest \cup {top} = s
    BY <1>5
  <1>9. Fine(s)
    <2> DEFINE before == acc(rest)
    <2>1. RowsCount(before.rows, readings, rest, anchor) /\ Carries(before, anchor)
      BY <1>6
    <2> HIDE DEF before, rest, top
    <2>2. LET new == AddRow(before, top, readings[top])
          IN RowsCount(new.rows, readings, rest \cup {top}, anchor) /\ Carries(new, anchor)
      BY <1>5, <1>6, <2>1, AddRowCounts
    <2> QED
      BY <1>7, <1>8, <2>2 DEF before
  <1> QED
    BY <1>2, <1>9

-----------------------------------------------------------------------------
(* Readings and their units.                                               *)

\* A function on a finite set takes a greatest value.
LEMMA GreatestValue ==
  ASSUME NEW S, IsFiniteSet(S), S # {}, NEW f, \A x \in S : f[x] \in Nat
  PROVE  \E x \in S : \A y \in S : f[x] >= f[y]
  <1> DEFINE Bad == {T \in SUBSET S : T # {} /\ ~ \E x \in T : \A y \in T : f[x] >= f[y]}
  <1>1. SUFFICES ASSUME Bad # {} PROVE FALSE
    OBVIOUS
  <1>2. PICK T \in Bad : \A U \in SUBSET T : U # T => U \notin Bad
    <2> HIDE DEF Bad
    <2>1. Bad \in SUBSET SUBSET S
      BY DEF Bad
    <2> QED
      BY <1>1, <2>1, SmallestPart
  <1>3. PICK x \in T : TRUE
    BY <1>2
  <1>4. T \ {x} \in SUBSET T /\ T \ {x} # T
    BY <1>3
  <1>5. T \ {x} = {} \/ \E n \in T \ {x} : \A m \in T \ {x} : f[n] >= f[m]
    BY <1>2, <1>4
  <1>6. \A y \in T : f[y] \in Nat
    BY <1>2
  <1>7. \E n \in T : \A m \in T : f[n] >= f[m]
    <2>1. CASE T \ {x} = {}
      <3>1. \A m \in T : m = x
        BY <1>3, <2>1
      <3>2. \A m \in T : f[x] >= f[m]
        BY <1>3, <1>6, <3>1
      <3> QED
        BY <1>3, <3>2
    <2>2. CASE \E n \in T \ {x} : \A m \in T \ {x} : f[n] >= f[m]
      <3>1. PICK n \in T \ {x} : \A m \in T \ {x} : f[n] >= f[m]
        BY <2>2
      <3>2. f[n] \in Nat /\ f[x] \in Nat
        BY <1>3, <1>6, <3>1
      <3>3. CASE f[n] >= f[x]
        BY <3>1, <3>2, <3>3
      <3>4. CASE f[x] >= f[n]
        <4>1. \A m \in T : f[x] >= f[m]
          BY <1>6, <3>1, <3>2, <3>4
        <4> QED
          BY <1>3, <4>1
      <3> QED
        BY <3>2, <3>3, <3>4
    <2> QED
      BY <1>5, <2>1, <2>2
  <1> QED
    BY <1>2, <1>7

WorldTyped ==
  /\ home \in Meters /\ clock \in Hours
  /\ cloud \in [Hours -> {"none", "part", "full"}]
  /\ haUnit \in Units /\ flips \in 0..FlipBound

\* The cloud has buckets of hours that are past or running; one that is filling
\* is of an hour that moved the meter.
CloudHolds ==
  \A h \in Hours : /\ cloud[h] # "none" => h \in Read /\ h =< clock
                   /\ cloud[h] = "part" => Moved(home, h)

WorldOK == WorldTyped /\ CloudHolds

LEMMA ShownTyped ==
  ASSUME WorldTyped, NEW h \in Read
  PROVE  h \in Hours /\ Shown(home, h) \subseteq Readings
  BY HouseholdAssumption DEF WorldTyped, Read, ReadHours, Readings

LEMMA MetersTyped ==
  ASSUME WorldTyped
  PROVE  home.meter \in [Hours -> Nat] /\ home.drawn \in [Hours -> Nat]
  BY HouseholdAssumption DEF WorldTyped

LEMMA ReadingShown ==
  ASSUME WorldOK, NEW h \in Uploaded
  PROVE  /\ h \in Read /\ h \in Hours /\ h =< clock
         /\ Reading(h) \in Shown(home, h) /\ Reading(h) \in Readings
  <1>1. h \in Hours /\ cloud[h] # "none"
    BY DEF Uploaded
  <1>2. h \in Read /\ h =< clock
    BY <1>1 DEF WorldOK, CloudHolds
  <1>3. Reading(h) \in Shown(home, h)
    <2>1. CASE cloud[h] = "part"
      <3>1. Moved(home, h)
        BY <1>1, <2>1 DEF WorldOK, CloudHolds
      <3> QED
        BY <2>1, <3>1 DEF Reading, Shown
    <2>2. CASE cloud[h] # "part"
      <3>1. Reading(h) = [value |-> home.meter[h] - 0, drawn |-> home.drawn[h] - 0]
        BY <2>2 DEF Reading
      <3>2. 0 \in IF Moved(home, h) THEN {0, 1} ELSE {0}
        OBVIOUS
      <3> QED
        BY <3>1, <3>2 DEF Shown
    <2> QED
      BY <2>1, <2>2
  <1>4. Reading(h) \in Readings
    BY <1>2, <1>3, ShownTyped DEF WorldOK
  <1> QED
    BY <1>1, <1>2, <1>3, <1>4

LEMMA ScaleIs ==
  ASSUME NEW u \in Units
  PROVE  Scale[u] \in {1, 4} /\ Scale[u] \in Nat \ {0}
  BY DEF Units, Scale

LEMMA InUnitIs ==
  ASSUME NEW r \in Readings, NEW u \in Units
  PROVE  /\ InUnit(r, u) = [value |-> r.value * Scale[u], drawn |-> r.drawn]
         /\ InUnit(r, u) \in Readings
  <1>1. InUnit(r, u) = [value |-> r.value * Scale[u], drawn |-> r.drawn]
    BY DEF InUnit, Readings
  <1>2. r.value * Scale[u] \in Nat \ {0} /\ r.drawn \in Nat
    BY ScaleIs DEF Readings
  <1> QED
    BY <1>1, <1>2 DEF Readings

\* From one unit into another and back is exact.
LEMMA Rescaled ==
  ASSUME NEW r \in Readings, NEW u \in Units, NEW f \in Units
  PROVE  InUnit(InGallons(InUnit(r, f), f), u) = InUnit(r, u)
  <1>1. InUnit(r, f) = [value |-> r.value * Scale[f], drawn |-> r.drawn]
    BY InUnitIs
  <1>2. (r.value * Scale[f]) \div Scale[f] = r.value
    <2>1. r.value \in Nat /\ Scale[f] \in {1, 4}
      BY ScaleIs DEF Readings
    <2> QED
      BY <2>1
  <1>3. InGallons(InUnit(r, f), f) = r
    BY <1>1, <1>2 DEF InGallons, Readings
  <1> QED
    BY <1>3

\* The newest water of the overlap.
LEMMA HeldIs ==
  ASSUME WorldOK
  PROVE  /\ Held \in Nat
         /\ Held = 0 \/ \E h \in Uploaded : /\ h > clock - Overlap * DayLen
                                            /\ Held = Reading(h).drawn
  <1> DEFINE S == {u \in Uploaded : u > clock - Overlap * DayLen}
             f == [h \in S |-> Reading(h).drawn]
             all == {Reading(h).drawn : h \in S} \cup {0}
  <1>1. \A h \in S : h \in Uploaded /\ Reading(h).drawn \in Nat
    BY ReadingShown DEF Readings
  <1>2. IsFiniteSet(S)
    BY HoursAre, FS_Subset DEF Uploaded
  <1>3. \E n \in all : \A m \in all : n >= m
    <2>1. CASE S = {}
      BY <2>1
    <2>2. CASE S # {}
      <3>1. \A h \in S : f[h] \in Nat /\ f[h] = Reading(h).drawn
        BY <1>1
      <3>2. PICK x \in S : \A y \in S : f[x] >= f[y]
        <4> HIDE DEF S, f
        <4> QED
          BY <1>2, <2>2, <3>1, GreatestValue
      <3>3. \A m \in all : Reading(x).drawn >= m
        BY <3>1, <3>2
      <3> QED
        BY <3>2, <3>3
    <2> QED
      BY <2>1, <2>2
  <1>4. Held = Max(all)
    BY DEF Held
  <1>5. Max(all) \in all
    <2> HIDE DEF all
    <2> QED
      BY <1>3 DEF Max
  <1>6. Held = 0 \/ \E h \in S : Held = Reading(h).drawn
    <2> DEFINE top == Max(all)
    <2>1. Held = top /\ top \in all
      BY <1>4, <1>5
    <2> HIDE DEF top
    <2> QED
      BY <2>1
  <1>7. Held \in Nat
    BY <1>1, <1>6
  <1> QED
    BY <1>6, <1>7

\* reading is what the bucket of the hour k showed, in unit.
From(reading, k, unit) == k \in Read /\ \E s \in Shown(home, k) : reading = InUnit(s, unit)

LEMMA FromTyped ==
  ASSUME WorldOK, NEW reading, NEW k, NEW unit \in Units, From(reading, k, unit)
  PROVE  reading \in Readings /\ k \in Hours /\ k \in Nat
  BY ShownTyped, InUnitIs, HoursAre DEF From, WorldOK

LEMMA HourlySeriesIs ==
  ASSUME WorldOK, NEW from \in Int, NEW to \in Int, NEW unit \in Units
  PROVE  /\ HourlySeries(from, to, unit)
              = [h \in {k \in HourlyKept : k \in from..to} |-> InUnit(Reading(h), unit)]
         /\ DOMAIN HourlySeries(from, to, unit) = {k \in HourlyKept : k \in from..to}
         /\ \A h \in DOMAIN HourlySeries(from, to, unit) :
              /\ h \in Uploaded
              /\ From(HourlySeries(from, to, unit)[h], h, unit)
              /\ HourlySeries(from, to, unit)[h].drawn = Reading(h).drawn
  <1>1. \A h \in HourlyKept : h \in Uploaded
    BY DEF HourlyKept
  <1>2. \A h \in Uploaded : /\ From(InUnit(Reading(h), unit), h, unit)
                            /\ InUnit(Reading(h), unit).drawn = Reading(h).drawn
    BY ReadingShown, InUnitIs DEF From
  <1> QED
    BY <1>1, <1>2 DEF HourlySeries

LEMMA DailySeriesIs ==
  ASSUME WorldOK, NEW from \in Int, NEW to \in Int, NEW unit \in Units
  PROVE  /\ DOMAIN DailySeries(from, to, unit)
              = {Day(k) : k \in {u \in Uploaded : Day(u) \in Day(from)..Day(to)}}
         /\ DailySeries(from, to, unit)
              = [d \in DOMAIN DailySeries(from, to, unit) |-> DailySeries(from, to, unit)[d]]
         /\ \A d \in DOMAIN DailySeries(from, to, unit) :
              /\ d \in Nat
              /\ \E k \in Uploaded : /\ Day(k) = d
                                     /\ From(DailySeries(from, to, unit)[d], k, unit)
  <1> DEFINE days == {Day(k) : k \in {u \in Uploaded : Day(u) \in Day(from)..Day(to)}}
             daily == DailySeries(from, to, unit)
             of(d) == {u \in Uploaded : Day(u) = d}
  <1>1. ASSUME NEW d \in days
        PROVE  /\ d \in Nat
               /\ \E k \in Uploaded : Day(k) = d /\ From(daily[d], k, unit)
    <2>1. PICK u \in Uploaded : Day(u) = d
      OBVIOUS
    <2>2. d \in Nat
      BY <2>1, ReadingShown, HoursAre, DayOf
    <2> DEFINE f == [h \in of(d) |-> Reading(h).value]
    <2>3. \E x \in of(d) : \A y \in of(d) : f[x] >= f[y]
      <3>1. IsFiniteSet(of(d)) /\ of(d) # {}
        BY <2>1, HoursAre, FS_Subset DEF Uploaded
      <3>2. \A x \in of(d) : f[x] \in Nat
        BY ReadingShown DEF Readings
      <3> HIDE DEF f, of
      <3> QED
        BY <3>1, <3>2, GreatestValue
    <2> DEFINE top == CHOOSE h \in of(d) :
                        \A y \in Uploaded : Day(y) = d => Reading(y).value =< Reading(h).value
    <2>4. top \in of(d)
      <3>1. PICK x \in of(d) : \A y \in of(d) : f[x] >= f[y]
        BY <2>3
      <3>2. \A y \in Uploaded : Day(y) = d => Reading(y).value =< Reading(x).value
        <4> SUFFICES ASSUME NEW y \in Uploaded, Day(y) = d
                     PROVE  Reading(y).value =< Reading(x).value
          OBVIOUS
        <4>1. Reading(y).value \in Nat /\ Reading(x).value \in Nat
          BY ReadingShown DEF Readings
        <4>2. f[x] >= f[y] /\ f[x] = Reading(x).value /\ f[y] = Reading(y).value
          BY <3>1
        <4> QED
          BY <4>1, <4>2
      <3> QED
        BY <3>1, <3>2
    <2>5. daily[d] = InUnit(Reading(top), unit)
      BY DEF DailySeries
    <2>6. From(InUnit(Reading(top), unit), top, unit)
      <3> HIDE DEF top
      <3> QED
        BY <2>4, ReadingShown DEF From
    <2> HIDE DEF top
    <2> QED
      BY <2>2, <2>4, <2>5, <2>6
  <1>2. DOMAIN daily = days /\ daily = [d \in DOMAIN daily |-> daily[d]]
    BY DEF DailySeries
  <1> HIDE DEF days
  <1>3. \A d \in DOMAIN daily : d \in Nat /\ \E k \in Uploaded : Day(k) = d /\ From(daily[d], k, unit)
    BY <1>1, <1>2
  <1> QED
    BY <1>2, <1>3 DEF days

\* Uploads and the hands of the clock: a bucket only fills up.
LEMMA WorldStep ==
  ASSUME WorldOK, World
  PROVE  /\ WorldOK' /\ home' = home /\ clock \in Nat /\ clock' \in Nat /\ clock =< clock'
         /\ UNCHANGED <<store, entry, pass>>
         /\ \A h \in Uploaded : h \in Uploaded' /\ Reading(h).drawn =< (Reading(h)').drawn
         /\ pass # None => clock' = clock \/ Day(clock') =< Day(pass.now) + PassDays
  <1> USE DEF WorldOK, WorldTyped, CloudHolds
  <1>1. \A h \in Hours : h \in Nat /\ home.drawn[h] \in Nat
    BY HoursAre, MetersTyped
  <1>2. UploadLate => \E h \in Hours : h < clock /\ h \in Read /\ cloud' = [cloud EXCEPT ![h] = "full"]
    <2>1. 0..(clock - 1) \subseteq Hours /\ \A h \in 0..(clock - 1) : h < clock
      BY HoursAre
    <2> QED
      BY <2>1 DEF UploadLate, MayUpload
  <1>3. WorldOK'
    <2>1. WorldTyped'
      <3>1. CASE UploadPart
        BY <3>1 DEF UploadPart
      <3>2. CASE Tick
        BY <3>2 DEF Tick
      <3>3. CASE UploadLate
        BY <1>2, <3>3 DEF UploadLate
      <3>4. CASE InstallationChangesUnit
        <4>1. flips' \in 0..FlipBound
          BY <3>4, Windows DEF InstallationChangesUnit
        <4> QED
          BY <3>4, <4>1 DEF InstallationChangesUnit
      <3> QED
        BY <3>1, <3>2, <3>3, <3>4 DEF World
    <2>2. CloudHolds'
      <3>1. CASE UploadPart
        <4>1. home' = home /\ clock' = clock /\ clock \in Read /\ Moved(home, clock)
          BY <3>1 DEF UploadPart, MayUpload
        <4>2. cloud' = [cloud EXCEPT ![clock] = "part"]
          BY <3>1 DEF UploadPart
        <4> QED
          BY <1>1, <4>1, <4>2 DEF Read
      <3>2. CASE Tick
        <4>1. clock' = clock + 1 /\ home' = home
          BY <3>2 DEF Tick
        <4>2. \A h \in Hours : h =< clock => h =< clock'
          BY <1>1, <4>1
        <4>3. \/ clock \in Read /\ cloud' = [cloud EXCEPT ![clock] = "full"]
              \/ cloud' = cloud
          BY <3>2 DEF Tick, MayUpload
        <4> QED
          BY <1>1, <4>1, <4>2, <4>3 DEF Read
      <3>3. CASE UploadLate
        <4>1. PICK h \in Hours : h < clock /\ h \in Read /\ cloud' = [cloud EXCEPT ![h] = "full"]
          BY <1>2, <3>3
        <4>2. clock' = clock /\ home' = home
          BY <3>3 DEF UploadLate
        <4> QED
          BY <1>1, <4>1, <4>2 DEF Read
      <3>4. CASE InstallationChangesUnit
        BY <3>4 DEF InstallationChangesUnit, Read
      <3> QED
        BY <3>1, <3>2, <3>3, <3>4 DEF World
    <2> QED
      BY <2>1, <2>2
  <1>4. home' = home /\ clock =< clock' /\ UNCHANGED <<store, entry, pass>>
    BY <1>1 DEF World, UploadPart, Tick, UploadLate, InstallationChangesUnit
  <1>5. ASSUME NEW h \in Uploaded
        PROVE  h \in Uploaded' /\ Reading(h).drawn =< (Reading(h)').drawn
    <2>1. h \in Hours /\ cloud[h] # "none"
      BY DEF Uploaded
    <2>2. cloud'[h] = cloud[h] \/ cloud'[h] = "full"
      <3>1. CASE UploadPart
        BY <2>1, <3>1 DEF UploadPart
      <3>2. CASE Tick
        BY <2>1, <3>2 DEF Tick
      <3>3. CASE UploadLate
        BY <1>2, <2>1, <3>3
      <3>4. CASE InstallationChangesUnit
        BY <3>4 DEF InstallationChangesUnit
      <3> QED
        BY <3>1, <3>2, <3>3, <3>4 DEF World
    <2>3. Reading(h).drawn = home.drawn[h] - (IF cloud[h] = "part" THEN 1 ELSE 0)
      BY DEF Reading
    <2>4. (Reading(h)').drawn = home.drawn[h] - (IF cloud'[h] = "part" THEN 1 ELSE 0)
      BY <1>4 DEF Reading
    <2>5. home.drawn[h] \in Nat
      BY <1>1, <2>1
    <2> QED
      BY <2>1, <2>2, <2>3, <2>4, <2>5 DEF Uploaded
  <1>6. pass # None => clock' = clock \/ Day(clock') =< Day(pass.now) + PassDays
    BY DEF World, UploadPart, Tick, UploadLate, InstallationChangesUnit
  <1>7. clock \in Nat /\ clock' \in Nat
    BY <1>1, <1>3
  <1> QED
    BY <1>3, <1>4, <1>5, <1>6, <1>7

-----------------------------------------------------------------------------
(* What a pass reads and collects.                                         *)

Samples(slots) == UNION {[S -> Readings] : S \in SUBSET slots}
DayNumbers == {d \in Nat : Midnight(d) \in Hours}

\* The newest row before the overlap.
AnchorFits(anchor, now) ==
  \/ anchor = None /\ \A s \in DOMAIN series : s > now - Overlap * DayLen
  \/ /\ anchor # None /\ anchor.start \in DOMAIN series
     /\ series[anchor.start].state = anchor.state /\ series[anchor.start].sum = anchor.sum
     /\ anchor.start =< now - Overlap * DayLen
     /\ \A s \in DOMAIN series : s =< anchor.start \/ s > now - Overlap * DayLen

LEMMA AnchorIs ==
  ASSUME RowsTyped(series, Hours), NEW now \in Hours
  PROVE  Anchor(now) \in Anchors \cup {None} /\ AnchorFits(Anchor(now), now)
  <1> DEFINE edge == now - Overlap * DayLen
             old == {s \in DOMAIN series : s =< edge}
  <1>1. /\ edge \in Int /\ DOMAIN series \subseteq Hours
        /\ \A s \in DOMAIN series : s \in Nat /\ series[s] \in Row
    BY HoursAre, OverlapReaches DEF RowsTyped
  <1>2. CASE old = {}
    <2>1. Anchor(now) = None
      BY <1>2 DEF Anchor
    <2>2. \A s \in DOMAIN series : s > edge
      <3> HIDE DEF edge
      <3> QED
        BY <1>1, <1>2
    <2> QED
      BY <2>1, <2>2 DEF AnchorFits
  <1>3. CASE old # {}
    <2> DEFINE a == Max(old)
    <2>1. a \in old /\ \A s \in old : a >= s
      <3>1. old \subseteq 0..(Days * DayLen - 1)
        BY <1>1, HoursAre
      <3> HIDE DEF old
      <3> QED
        BY <1>3, <3>1, HoursAre, MaxIsGreatest
    <2>2. Anchor(now) = [start |-> a, state |-> series[a].state, sum |-> series[a].sum]
      BY <1>3 DEF Anchor
    <2>3. a \in DOMAIN series /\ a =< edge
      BY <2>1
    <2>4. \A s \in DOMAIN series : s =< a \/ s > edge
      <3> HIDE DEF a, edge
      <3> QED
        BY <1>1, <2>1
    <2> HIDE DEF a, old
    <2>5. Anchor(now) \in Anchors
      BY <1>1, <2>2, <2>3 DEF Anchors, Row
    <2>6. Anchor(now) # None
      BY <2>5, NoneAssumption DEF Anchors
    <2> QED
      BY <2>2, <2>3, <2>4, <2>5, <2>6 DEF AnchorFits
  <1> QED
    BY <1>2, <1>3

\* The sweep begins no later than a reading of the overlap.
LEMMA ProbedStartIs ==
  ASSUME WorldOK, NEW now \in Hours
  PROVE  /\ ProbedStart(now) \in Nat \cup {None}
         /\ \A h \in Uploaded : h > now - Overlap * DayLen =>
              ProbedStart(now) # None /\ ProbedStart(now) =< h
  <1> DEFINE days == {d \in {Day(h) : h \in Uploaded} : Year(d) >= Year(Day(now)) - ProbeYears}
             start(m) == Midnight(Month(m) * MonthDays)
  <1>1. /\ DayLen \in Nat \ {0} /\ MonthDays \in Nat \ {0} /\ YearDays \in Nat \ {0}
        /\ ProbeYears \in Nat \ {0} /\ Overlap \in Nat /\ Overlap =< YearDays
    BY Windows
  <1>2. days \subseteq Nat
    BY ReadingShown, HoursAre, DayOf
  <1>3. ProbedStart(now) = IF days = {} THEN None ELSE start(Min(days))
    BY DEF ProbedStart
  <1>4. ASSUME NEW m \in Nat PROVE start(m) \in Nat /\ start(m) =< Midnight(m)
    <2>1. MonthDays * (m \div MonthDays) =< m /\ m \div MonthDays \in Nat
      BY <1>1
    <2>2. Month(m) * MonthDays \in Nat /\ Month(m) * MonthDays =< m
      <3> DEFINE q == m \div MonthDays
      <3>1. MonthDays * q =< m /\ q \in Nat
        BY <2>1
      <3> HIDE DEF q
      <3>2. MonthDays * q = q * MonthDays /\ q * MonthDays \in Nat
        BY <1>1, <3>1
      <3>3. Month(m) = q
        BY DEF Month, q
      <3> QED
        BY <3>1, <3>2, <3>3
    <2>3. Midnight(Month(m) * MonthDays) =< Midnight(m)
      BY <2>2, MidnightsInOrder
    <2>4. Midnight(Month(m) * MonthDays) \in Nat
      BY <1>1, <2>2 DEF Midnight
    <2> QED
      BY <2>3, <2>4
  <1>5. days # {} => Min(days) \in days /\ \A d \in days : Min(days) =< d
    <2> HIDE DEF days
    <2> QED
      BY <1>2, MinIsLeast
  <1>6. ASSUME NEW h \in Uploaded, h > now - Overlap * DayLen PROVE Day(h) \in days
    <2>1. /\ h \in Nat /\ now \in Nat /\ Day(h) \in Nat /\ Day(now) \in Nat
          /\ Day(h) >= Day(now) - YearDays
      <3>1. h \in Nat /\ now \in Nat
        BY ReadingShown, HoursAre
      <3>2. Day(h) \in Nat /\ Day(now) \in Nat
        BY <3>1, DayOf
      <3>3. Overlap * DayLen \in Nat
        BY <3>1, OverlapReaches
      <3>4. Day(now) - Overlap =< Day(h)
        BY <1>6, <3>1, <3>3, OverlapReaches
      <3> QED
        BY <1>1, <3>1, <3>2, <3>4
    <2> DEFINE a == Day(h)
               b == Day(now)
               q == a \div YearDays
               p == b \div YearDays
    <2>2. /\ q \in Int /\ p \in Int
          /\ a < YearDays * q + YearDays /\ YearDays * p =< b
      <3>1. a \in Nat /\ b \in Nat
        BY <2>1
      <3> HIDE DEF a, b
      <3>2. q \in Int /\ p \in Int
        BY <1>1, <3>1
      <3>3. a < YearDays * q + YearDays
        BY <1>1, <3>1
      <3>4. YearDays * p =< b
        BY <1>1, <3>1
      <3> QED
        BY <3>2, <3>3, <3>4
    <2>3. q >= p - 1
      <3>1. a \in Int /\ b \in Int /\ a >= b - YearDays
        BY <2>1
      <3> HIDE DEF a, b, q, p
      <3>2. SUFFICES ASSUME q + 2 =< p PROVE FALSE
        BY <2>2
      <3>3. YearDays * (q + 2) =< YearDays * p
        BY <1>1, <2>2, <3>2
      <3>4. YearDays * (q + 2) = YearDays * q + YearDays + YearDays
        BY <1>1, <2>2
      <3>5. YearDays * q \in Int /\ YearDays * p \in Int
        BY <1>1, <2>2
      <3> QED
        BY <1>1, <2>2, <3>1, <3>3, <3>4, <3>5
    <2>4. Year(a) = q /\ Year(b) = p
      BY DEF Year
    <2> HIDE DEF q, p
    <2>5. Year(a) >= Year(b) - ProbeYears
      BY <1>1, <2>2, <2>3, <2>4
    <2> QED
      BY <2>5
  <1> HIDE DEF days, start
  <1>7. ASSUME NEW h \in Uploaded, h > now - Overlap * DayLen
        PROVE  ProbedStart(now) # None /\ ProbedStart(now) =< h
    <2>1. Day(h) \in days /\ days # {}
      BY <1>6, <1>7
    <2>2. Min(days) \in Nat /\ Day(h) \in Nat /\ Min(days) =< Day(h)
      BY <1>2, <1>5, <2>1
    <2>3. start(Min(days)) \in Nat /\ start(Min(days)) =< Midnight(Min(days))
      BY <1>4, <2>2
    <2>4. Midnight(Min(days)) =< Midnight(Day(h)) /\ Midnight(Day(h)) =< h
      BY <2>2, MidnightsInOrder, DayOf, ReadingShown, HoursAre
    <2>5. h \in Nat /\ Midnight(Day(h)) \in Int /\ Midnight(Min(days)) \in Int
      BY <2>2, MidnightsInOrder, ReadingShown, HoursAre
    <2> QED
      BY <1>3, <2>1, <2>3, <2>4, <2>5, NoneAssumption
  <1>8. ProbedStart(now) \in Nat \cup {None}
    BY <1>2, <1>3, <1>4, <1>5
  <1> QED
    BY <1>7, <1>8

LEMMA WindowStartIs ==
  ASSUME NEW p, p.upto \in Int, p.from \in Int
  PROVE  /\ WindowStart(p) \in Int
         /\ WindowStart(p) = Midnight(Day(p.upto) - HourlyChunk) \/ WindowStart(p) = p.from
         /\ WindowStart(p) >= p.from /\ WindowStart(p) >= Midnight(Day(p.upto) - HourlyChunk)
  <1>1. Midnight(Day(p.upto) - HourlyChunk) \in Int
    <2>1. Day(p.upto) \in Int /\ HourlyChunk \in Nat
      BY DayOf, Windows
    <2>2. Day(p.upto) - HourlyChunk \in Int
      BY <2>1
    <2> QED
      BY <2>2, MidnightsInOrder
  <1> QED
    BY <1>1, MaxOfTwo DEF WindowStart

\* A merged slot: an hour, or the midnight of a day without any.
LEMMA MergedIs ==
  ASSUME NEW hourly, NEW daily, DOMAIN hourly \subseteq Hours, DOMAIN daily \subseteq DayNumbers
  PROVE  /\ DOMAIN MergeResolutions(hourly, daily) \subseteq Hours
         /\ DOMAIN hourly \subseteq DOMAIN MergeResolutions(hourly, daily)
         /\ \A s \in DOMAIN hourly : MergeResolutions(hourly, daily)[s] = hourly[s]
         /\ \A s \in DOMAIN MergeResolutions(hourly, daily) \ DOMAIN hourly :
              /\ Day(s) \in DOMAIN daily /\ s = Midnight(Day(s))
              /\ \A h \in DOMAIN hourly : Day(h) # Day(s)
              /\ MergeResolutions(hourly, daily)[s] = daily[Day(s)]
         /\ \A d \in DOMAIN daily : \/ Midnight(d) \in DOMAIN MergeResolutions(hourly, daily)
                                    \/ \E h \in DOMAIN hourly : Day(h) = d
  <1> DEFINE byDay == {d \in DOMAIN daily : \A h \in DOMAIN hourly : Day(h) # d}
             merged == MergeResolutions(hourly, daily)
             slots == DOMAIN hourly \cup {Midnight(d) : d \in byDay}
  <1>1. merged = [s \in slots |-> IF s \in DOMAIN hourly THEN hourly[s] ELSE daily[Day(s)]]
    BY DEF MergeResolutions
  <1>2. \A d \in byDay : d \in Nat /\ Midnight(d) \in Hours /\ Day(Midnight(d)) = d
    BY MidnightOpensDay DEF DayNumbers
  <1>3. \A s \in slots \ DOMAIN hourly : Day(s) \in byDay /\ s = Midnight(Day(s))
    BY <1>2
  <1>4. DOMAIN merged = slots /\ slots \subseteq Hours
    BY <1>1, <1>2
  <1>5. /\ \A s \in DOMAIN hourly : merged[s] = hourly[s]
        /\ \A s \in slots \ DOMAIN hourly : merged[s] = daily[Day(s)]
    BY <1>1
  <1>6. \A d \in DOMAIN daily : Midnight(d) \in slots \/ \E h \in DOMAIN hourly : Day(h) = d
    OBVIOUS
  <1> HIDE DEF merged, slots
  <1>7. DOMAIN hourly \subseteq slots
    BY DEF slots
  <1>8. /\ \A d \in byDay : d \in DOMAIN daily /\ \A h \in DOMAIN hourly : Day(h) # d
    OBVIOUS
  <1> HIDE DEF byDay
  <1> QED
    BY <1>3, <1>4, <1>5, <1>6, <1>7, <1>8 DEF merged

LEMMA FromRescaled ==
  ASSUME WorldOK, NEW reading, NEW k, NEW f \in Units, NEW unit \in Units, From(reading, k, f)
  PROVE  /\ From(InUnit(InGallons(reading, f), unit), k, unit)
         /\ InUnit(InGallons(reading, f), unit).drawn = reading.drawn
  <1>1. PICK s \in Shown(home, k) : reading = InUnit(s, f)
    BY DEF From
  <1>2. s \in Readings /\ k \in Read
    BY <1>1, ShownTyped DEF From, WorldOK
  <1>3. InUnit(InGallons(reading, f), unit) = InUnit(s, unit)
    BY <1>1, <1>2, Rescaled
  <1>4. reading.drawn = s.drawn /\ InUnit(s, unit).drawn = s.drawn
    BY <1>1, <1>2, InUnitIs
  <1> QED
    BY <1>1, <1>2, <1>3, <1>4 DEF From

\* The responses of a pass: every entry is what some bucket showed.
HourlySampled(hourly, factor) ==
  \A h \in DOMAIN hourly : h \in Uploaded /\ From(hourly[h], h, factor)
DailySampled(daily, factor) ==
  \A d \in DOMAIN daily : \E k \in Uploaded : Day(k) = d /\ From(daily[d], k, factor)

LEMMA SampledSlots ==
  ASSUME WorldOK, NEW hourly, NEW daily, NEW factor,
         HourlySampled(hourly, factor), DailySampled(daily, factor)
  PROVE  DOMAIN hourly \subseteq Hours /\ DOMAIN daily \subseteq DayNumbers
  <1>1. DOMAIN hourly \subseteq Hours
    BY DEF HourlySampled, Uploaded
  <1>2. ASSUME NEW d \in DOMAIN daily PROVE d \in DayNumbers
    <2>1. PICK k \in Uploaded : Day(k) = d
      BY DEF DailySampled
    <2>2. k \in Hours /\ k \in Nat /\ d \in Nat /\ Midnight(d) =< k
      BY <2>1, HoursAre, DayOf DEF Uploaded
    <2>3. Midnight(d) \in Nat
      BY <2>2, Windows DEF Midnight
    <2>4. Midnight(d) \in Hours
      BY <2>2, <2>3, HoursAre
    <2> QED
      BY <2>2, <2>4 DEF DayNumbers
  <1> QED
    BY <1>1, <1>2

\* What build_meter_rows is given.
CollectedReadings(p, hourly) ==
  LET merged == MergeResolutions(hourly, p.daily)
  IN [s \in {t \in DOMAIN merged : p.anchor # None => t > p.anchor.start} |->
        InUnit(InGallons(merged[s], p.factor), p.unit)]

LEMMA CollectedReadingsAre ==
  ASSUME WorldOK, NEW p, NEW hourly, p.unit \in Units, p.factor \in Units,
         HourlySampled(hourly, p.factor), DailySampled(p.daily, p.factor),
         NEW R, R = CollectedReadings(p, hourly)
  PROVE  /\ DOMAIN R \subseteq Hours /\ \A s \in DOMAIN R : R[s] \in Readings
         /\ \A s \in DOMAIN R : p.anchor # None => s > p.anchor.start
         /\ \A h \in DOMAIN hourly : (p.anchor # None => h > p.anchor.start) => h \in DOMAIN R
         /\ \A h \in DOMAIN hourly \cap DOMAIN R :
              From(R[h], h, p.unit) /\ R[h].drawn = hourly[h].drawn
         /\ \A s \in DOMAIN R \ DOMAIN hourly :
              /\ s = Midnight(Day(s)) /\ Day(s) \in DOMAIN p.daily
              /\ \A h \in DOMAIN hourly : Day(h) # Day(s)
              /\ \E k \in Uploaded : Day(k) = Day(s) /\ From(R[s], k, p.unit)
  <1> DEFINE merged == MergeResolutions(hourly, p.daily)
  <1>1. /\ DOMAIN R = {t \in DOMAIN merged : p.anchor # None => t > p.anchor.start}
        /\ \A s \in DOMAIN R : R[s] = InUnit(InGallons(merged[s], p.factor), p.unit)
    BY DEF CollectedReadings
  <1>2. /\ DOMAIN merged \subseteq Hours
        /\ DOMAIN hourly \subseteq DOMAIN merged
        /\ \A s \in DOMAIN hourly : merged[s] = hourly[s]
        /\ \A s \in DOMAIN merged \ DOMAIN hourly :
             /\ Day(s) \in DOMAIN p.daily /\ s = Midnight(Day(s))
             /\ \A h \in DOMAIN hourly : Day(h) # Day(s)
             /\ merged[s] = p.daily[Day(s)]
    BY SampledSlots, MergedIs
  <1> HIDE DEF merged
  <1>3. ASSUME NEW h \in DOMAIN hourly \cap DOMAIN R
        PROVE  From(R[h], h, p.unit) /\ R[h].drawn = hourly[h].drawn
    <2>1. From(hourly[h], h, p.factor) /\ R[h] = InUnit(InGallons(hourly[h], p.factor), p.unit)
      BY <1>1, <1>2 DEF HourlySampled
    <2> QED
      BY <2>1, FromRescaled
  <1>4. ASSUME NEW s \in DOMAIN R \ DOMAIN hourly
        PROVE  /\ s = Midnight(Day(s)) /\ Day(s) \in DOMAIN p.daily
               /\ \A h \in DOMAIN hourly : Day(h) # Day(s)
               /\ \E k \in Uploaded : Day(k) = Day(s) /\ From(R[s], k, p.unit)
    <2>1. /\ s \in DOMAIN merged \ DOMAIN hourly
          /\ R[s] = InUnit(InGallons(merged[s], p.factor), p.unit)
      BY <1>1
    <2>2. /\ Day(s) \in DOMAIN p.daily /\ s = Midnight(Day(s))
          /\ \A h \in DOMAIN hourly : Day(h) # Day(s)
          /\ merged[s] = p.daily[Day(s)]
      BY <1>2, <2>1
    <2>3. PICK k \in Uploaded : Day(k) = Day(s) /\ From(p.daily[Day(s)], k, p.factor)
      BY <2>2 DEF DailySampled
    <2>4. From(R[s], k, p.unit)
      BY <2>1, <2>2, <2>3, FromRescaled
    <2> QED
      BY <2>2, <2>3, <2>4
  <1>5. \A s \in DOMAIN R : R[s] \in Readings
    BY <1>3, <1>4, FromTyped
  <1>6. /\ DOMAIN R \subseteq Hours
        /\ \A s \in DOMAIN R : p.anchor # None => s > p.anchor.start
        /\ \A h \in DOMAIN hourly : (p.anchor # None => h > p.anchor.start) => h \in DOMAIN R
    BY <1>1, <1>2
  <1> QED
    BY <1>3, <1>4, <1>5, <1>6

LEMMA CollectedRowsCount ==
  ASSUME WorldOK, NEW p, NEW hourly, p.unit \in Units, p.factor \in Units,
         p.anchor \in Anchors \cup {None},
         HourlySampled(hourly, p.factor), DailySampled(p.daily, p.factor)
  PROVE  RowsCount(CollectedRows(p, hourly), CollectedReadings(p, hourly),
                   DOMAIN CollectedReadings(p, hourly), p.anchor)
  <1> DEFINE R == CollectedReadings(p, hourly)
  <1>1. CollectedRows(p, hourly) = BuildMeterRows(R, p.anchor)
    BY DEF CollectedRows, CollectedReadings
  <1>2. DOMAIN R \subseteq Hours /\ \A s \in DOMAIN R : R[s] \in Readings
    <2>1. \E x : x = R
      OBVIOUS
    <2> QED
      BY CollectedReadingsAre
  <1> HIDE DEF R
  <1>3. RowsCount(BuildMeterRows(R, p.anchor), R, DOMAIN R, p.anchor)
    BY <1>2, RowsAreCounted
  <1> QED
    BY <1>1, <1>3 DEF R

-----------------------------------------------------------------------------
(* Types, markers and clears: what every action keeps.                     *)

Stages == {"unit", "anchor", "probe", "daily", "hourly", "wait", "drained"}
Passes ==
  [pc : Stages, bound : BOOLEAN, unit : Units, rebuild : BOOLEAN,
   anchor : Anchors \cup {None}, factor : Units \cup {None}, now : Hours,
   from : Int, upto : Int, daily : Samples(DayNumbers), hourly : Samples(Hours), held : Nat]

TaskRows == UNION {[S -> Row] : S \in (SUBSET Hours) \ {{}}}
Tasks == {Clear, Marker, Orphan} \cup [kind : {"import"}, unit : Units, rows : TaskRows]

StoreTyped ==
  /\ RowsTyped(series, Hours)
  /\ seriesUnit \in Units \cup {None}
  /\ queue \in Seq(Tasks)
  /\ entry \in {"loaded", "stopped", "removed"}

PassTyped ==
  pass # None =>
    /\ pass \in Passes
    /\ pass.now =< clock /\ Day(clock) =< Day(pass.now) + PassDays

PassSampled ==
  pass # None =>
    /\ HourlySampled(pass.hourly, pass.factor) /\ DailySampled(pass.daily, pass.factor)
    /\ IF pass.pc = "hourly" THEN pass.factor \in Units
       ELSE pass.hourly = NoRows /\ pass.daily = NoRows

\* A marker in the queue is the one its pass waits for.
MarkersAwaited ==
  \A i \in DOMAIN queue : queue[i] = Marker =>
    At("wait") /\ \A j \in DOMAIN queue : queue[j] = Marker => i = j

\* The replacement of what a clear deletes is the next task.
ClearsReplaced ==
  entry # "removed" =>
    \A i \in DOMAIN queue : queue[i] = Clear =>
      i + 1 \in DOMAIN queue /\ queue[i + 1].kind = "import"

HistoryTyped ==
  WorldOK /\ StoreTyped /\ PassTyped /\ PassSampled /\ MarkersAwaited /\ ClearsReplaced

LEMMA TaskKinds ==
  ASSUME NEW t \in Tasks
  PROVE  /\ t.kind = "clear" <=> t = Clear
         /\ t.kind = "sync" <=> t = Marker
         /\ t.kind = "orphan" <=> t = Orphan
         /\ t.kind = "import" => /\ t.unit \in Units /\ t.rows \in TaskRows
                                 /\ t = [kind |-> "import", unit |-> t.unit, rows |-> t.rows]
         /\ t.kind \in {"clear", "sync", "orphan", "import"}
  BY DEF Tasks, Clear, Marker, Orphan

LEMMA TaskRowsAre ==
  ASSUME NEW rows
  PROVE  rows \in TaskRows <=> RowsTyped(rows, Hours) /\ rows # NoRows
  <1>1. rows \in TaskRows => RowsTyped(rows, Hours) /\ rows # NoRows
    BY DEF TaskRows, RowsTyped, NoRows
  <1>2. ASSUME RowsTyped(rows, Hours), rows # NoRows PROVE rows \in TaskRows
    <2>1. rows \in [DOMAIN rows -> Row] /\ DOMAIN rows \subseteq Hours
      BY <1>2 DEF RowsTyped
    <2>2. DOMAIN rows # {}
      BY <1>2, <2>1 DEF NoRows
    <2> QED
      BY <2>1, <2>2 DEF TaskRows
  <1> QED
    BY <1>1, <1>2

LEMMA UpsertedIs ==
  ASSUME NEW new, NEW old, NEW slots, RowsTyped(new, slots), RowsTyped(old, slots)
  PROVE  /\ RowsTyped(Upserted(new, old), slots)
         /\ DOMAIN Upserted(new, old) = DOMAIN new \cup DOMAIN old
         /\ \A s \in DOMAIN new : Upserted(new, old)[s] = new[s]
         /\ \A s \in DOMAIN old \ DOMAIN new : Upserted(new, old)[s] = old[s]
  BY DEF Upserted, RowsTyped

\* Giving up the marker leaves every other task where it was.
LEMMA AbandonedIs ==
  ASSUME NEW tasks \in Seq(Tasks)
  PROVE  /\ Abandoned(tasks) \in Seq(Tasks) /\ DOMAIN Abandoned(tasks) = DOMAIN tasks
         /\ Len(Abandoned(tasks)) = Len(tasks)
         /\ \A i \in DOMAIN tasks : /\ Abandoned(tasks)[i] # Marker
                                    /\ tasks[i] # Marker => Abandoned(tasks)[i] = tasks[i]
                                    /\ tasks[i] = Marker => Abandoned(tasks)[i] = Orphan
  <1>1. Orphan \in Tasks /\ Orphan # Marker
    BY DEF Tasks, Orphan, Marker
  <1>2. DOMAIN tasks = 1..Len(tasks) /\ Len(tasks) \in Nat /\ \A i \in DOMAIN tasks : tasks[i] \in Tasks
    OBVIOUS
  <1>3. Abandoned(tasks) = [i \in 1..Len(tasks) |-> IF tasks[i] = Marker THEN Orphan ELSE tasks[i]]
    BY <1>2 DEF Abandoned
  <1>4. Abandoned(tasks) \in Seq(Tasks)
    BY <1>1, <1>2, <1>3
  <1>5. DOMAIN Abandoned(tasks) = 1..Len(tasks)
    BY <1>3
  <1>6. Len(Abandoned(tasks)) = Len(tasks)
    BY <1>2, <1>4, <1>5
  <1> QED
    BY <1>1, <1>2, <1>3, <1>4, <1>5, <1>6

LEMMA HistoryTypedInit == Init => HistoryTyped
  <1> SUFFICES ASSUME Init PROVE HistoryTyped
    OBVIOUS
  <1> USE DEF Init
  <1>1. WorldTyped
    BY HoursAre, Windows DEF WorldTyped, Units
  <1>2. CloudHolds
    <2>1. \A h \in Hours : h < FirstHour => h =< FirstHour
      BY HoursAre
    <2> QED
      BY <2>1 DEF CloudHolds, Read, ReadHours
  <1>3. StoreTyped
    BY DEF StoreTyped, RowsTyped, NoRows
  <1>4. PassTyped /\ PassSampled /\ MarkersAwaited /\ ClearsReplaced
    BY DEF PassTyped, PassSampled, MarkersAwaited, ClearsReplaced
  <1> QED
    BY <1>1, <1>2, <1>3, <1>4 DEF HistoryTyped, WorldOK

LEMMA UploadsStay ==
  ASSUME PassSampled, pass' = pass, home' = home, \A h \in Uploaded : h \in Uploaded'
  PROVE  PassSampled'
  BY DEF PassSampled, HourlySampled, DailySampled, From, Read

LEMMA WorldKeepsTypes ==
  ASSUME HistoryTyped, World
  PROVE  HistoryTyped'
  <1>1. WorldOK
    BY DEF HistoryTyped
  <1>2. /\ WorldOK' /\ home' = home /\ clock \in Nat /\ clock' \in Nat /\ clock =< clock'
        /\ UNCHANGED <<store, entry, pass>>
        /\ \A h \in Uploaded : h \in Uploaded'
        /\ pass # None => clock' = clock \/ Day(clock') =< Day(pass.now) + PassDays
    BY <1>1, WorldStep
  <1>3. PassTyped'
    <2>1. pass # None => pass.now \in Nat
      BY HoursAre DEF HistoryTyped, PassTyped, Passes
    <2> QED
      BY <1>2, <2>1 DEF HistoryTyped, PassTyped
  <1>4. PassSampled'
    BY <1>2, UploadsStay DEF HistoryTyped
  <1>5. (StoreTyped /\ MarkersAwaited /\ ClearsReplaced)'
    BY <1>2 DEF HistoryTyped, store, StoreTyped, MarkersAwaited, ClearsReplaced, At
  <1> QED
    BY <1>2, <1>3, <1>4, <1>5 DEF HistoryTyped

LEMMA WorldRests ==
  ASSUME WorldOK, UNCHANGED world
  PROVE  WorldOK' /\ home' = home /\ clock' = clock /\ Uploaded' = Uploaded
  BY DEF world, WorldOK, WorldTyped, CloudHolds, Read, Uploaded

\* A step of a pass that queues nothing and awaits no marker.
LEMMA PassMovesOn ==
  ASSUME HistoryTyped, UNCHANGED <<world, store, entry>>, ~At("wait"), PassTyped', PassSampled'
  PROVE  HistoryTyped'
  <1>1. (WorldOK /\ StoreTyped)'
    BY WorldRests DEF HistoryTyped, store, StoreTyped
  <1>2. (MarkersAwaited /\ ClearsReplaced)'
    BY DEF HistoryTyped, store, MarkersAwaited, ClearsReplaced
  <1> QED
    BY <1>1, <1>2 DEF HistoryTyped

LEMMA NoSamples ==
  /\ NoRows \in Samples(Hours) /\ NoRows \in Samples(DayNumbers)
  /\ \A factor : HourlySampled(NoRows, factor) /\ DailySampled(NoRows, factor)
  BY DEF NoRows, Samples, HourlySampled, DailySampled

LEMMA StartPassKeepsTypes ==
  ASSUME HistoryTyped, NEW bound \in BOOLEAN, StartPass(bound)
  PROVE  HistoryTyped'
  <1>1. UNCHANGED <<world, store, entry>> /\ pass = None /\ pass' = NewPass(bound)
    BY DEF StartPass
  <1>2. /\ NewPass(bound) \in Passes /\ NewPass(bound).now = clock /\ NewPass(bound).pc = "unit"
        /\ NewPass(bound).hourly = NoRows /\ NewPass(bound).daily = NoRows
    <2>1. haUnit \in Units /\ clock \in Hours /\ clock \in Int /\ Held \in Nat
      BY HeldIs, HoursAre DEF HistoryTyped, WorldOK, WorldTyped
    <2> QED
      BY <2>1, NoSamples DEF NewPass, Passes, Stages
  <1>3. Day(clock) \in Int /\ PassDays \in Nat /\ clock \in Nat
    BY HoursAre, DayOf, Windows DEF HistoryTyped, WorldOK, WorldTyped
  <1>4. PassTyped'
    BY <1>1, <1>2, <1>3 DEF PassTyped, world
  <1>5. PassSampled'
    <2>1. (HourlySampled(pass.hourly, pass.factor) /\ DailySampled(pass.daily, pass.factor))'
      BY <1>1, <1>2 DEF HourlySampled, DailySampled, NoRows
    <2> QED
      BY <1>1, <1>2, <2>1 DEF PassSampled
  <1> QED
    BY <1>1, <1>4, <1>5, PassMovesOn DEF At

LEMMA PassReadsKeepTypes ==
  ASSUME HistoryTyped, ReadStoredUnit \/ ReadAnchor
  PROVE  HistoryTyped'
  <1> USE DEF At
  <1>1. /\ UNCHANGED <<world, store, entry>> /\ pass # None /\ pass \in Passes
        /\ pass.pc \in {"unit", "anchor"}
        /\ pass.hourly = NoRows /\ pass.daily = NoRows
    BY DEF ReadStoredUnit, ReadAnchor, HistoryTyped, PassTyped, PassSampled
  <1>2. /\ pass' \in Passes /\ pass'.now = pass.now /\ pass'.pc \in {"anchor", "probe", "daily"}
        /\ pass'.hourly = NoRows /\ pass'.daily = NoRows
    <2>1. CASE ReadStoredUnit
      BY <1>1, <2>1 DEF ReadStoredUnit, Passes, Stages
    <2>2. CASE ReadAnchor
      <3> DEFINE a == Anchor(pass.now)
      <3>1. a \in Anchors \cup {None}
        BY <1>1, AnchorIs DEF HistoryTyped, StoreTyped, Passes
      <3>2. a # None => Midnight(Day(a.start) - Margin) \in Int
        <4>1. ASSUME a # None PROVE Day(a.start) - Margin \in Int
          <5>1. a.start \in Int
            BY <3>1, <4>1, HoursAre DEF Anchors
          <5>2. Day(a.start) \in Int /\ Margin \in Int
            BY <5>1, DayOf, Windows
          <5> QED
            BY <5>2
        <4> QED
          BY <4>1, MidnightsInOrder
      <3>3. pass' = IF a = None THEN [pass EXCEPT !.pc = "probe"]
                    ELSE [pass EXCEPT !.pc = "daily", !.anchor = a,
                                      !.from = Midnight(Day(a.start) - Margin)]
        BY <2>2 DEF ReadAnchor
      <3> HIDE DEF a
      <3>4. CASE a = None
        BY <1>1, <3>3, <3>4 DEF Passes, Stages
      <3>5. CASE a # None
        BY <1>1, <3>1, <3>2, <3>3, <3>5 DEF Passes, Stages
      <3> QED
        BY <3>4, <3>5
    <2> QED
      BY <2>1, <2>2
  <1>3. PassTyped'
    BY <1>1, <1>2 DEF HistoryTyped, PassTyped, world
  <1>4. PassSampled'
    <2>1. (HourlySampled(pass.hourly, pass.factor) /\ DailySampled(pass.daily, pass.factor))'
      BY <1>1, <1>2 DEF HourlySampled, DailySampled, NoRows
    <2> QED
      BY <1>1, <1>2, <2>1 DEF PassSampled
  <1> QED
    BY <1>1, <1>3, <1>4, PassMovesOn

LEMMA ProbeKeepsTypes ==
  ASSUME HistoryTyped, NEW unit \in Units, Probe(unit)
  PROVE  HistoryTyped'
  <1>1. /\ UNCHANGED <<world, store, entry>> /\ pass # None /\ pass \in Passes
        /\ pass.pc = "probe" /\ pass.hourly = NoRows /\ pass.daily = NoRows
    BY DEF Probe, At, HistoryTyped, PassTyped, PassSampled
  <1> DEFINE start == ProbedStart(pass.now)
  <1>2. start \in Nat \cup {None}
    BY <1>1, ProbedStartIs DEF HistoryTyped, Passes
  <1>3. \/ pass' = None
        \/ pass' = [pass EXCEPT !.pc = "daily", !.from = start, !.factor = unit] /\ start \in Nat
    BY <1>2 DEF Probe
  <1> HIDE DEF start
  <1>4. pass' # None =>
          /\ pass' \in Passes /\ pass'.now = pass.now /\ pass'.pc = "daily"
          /\ pass'.hourly = NoRows /\ pass'.daily = NoRows
    <2>1. SUFFICES ASSUME pass' # None, start \in Int,
                          pass' = [pass EXCEPT !.pc = "daily", !.from = start, !.factor = unit]
                   PROVE  /\ pass' \in Passes /\ pass'.now = pass.now /\ pass'.pc = "daily"
                          /\ pass'.hourly = NoRows /\ pass'.daily = NoRows
      BY <1>3
    <2>2. pass'.now = pass.now /\ pass'.pc = "daily" /\ pass'.hourly = NoRows /\ pass'.daily = NoRows
      BY <1>1, <2>1 DEF Passes
    <2>3. pass' \in Passes
      BY <1>1, <2>1 DEF Passes, Stages
    <2> QED
      BY <2>2, <2>3
  <1>5. PassTyped'
    BY <1>1, <1>4 DEF HistoryTyped, PassTyped, world
  <1>6. PassSampled'
    <2>1. pass' # None =>
            (HourlySampled(pass.hourly, pass.factor) /\ DailySampled(pass.daily, pass.factor))'
      BY <1>1, <1>4 DEF HourlySampled, DailySampled, NoRows
    <2> QED
      BY <1>1, <1>4, <2>1 DEF PassSampled
  <1> QED
    BY <1>1, <1>5, <1>6, PassMovesOn DEF At

LEMMA FetchDailyKeepsTypes ==
  ASSUME HistoryTyped, NEW unit \in Units, FetchDaily(unit)
  PROVE  HistoryTyped'
  <1>1. /\ UNCHANGED <<world, store, entry>> /\ pass # None /\ pass \in Passes
        /\ pass.pc = "daily" /\ pass.hourly = NoRows /\ pass.now \in Int /\ pass.from \in Int
    BY HoursAre DEF FetchDaily, At, HistoryTyped, PassTyped, PassSampled, Passes
  <1> DEFINE daily == DailySeries(pass.from, pass.now, unit)
  <1>2. WorldOK
    BY DEF HistoryTyped
  <1>3. DailySampled(daily, unit)
    <2>1. \A d \in DOMAIN daily : \E k \in Uploaded : Day(k) = d /\ From(daily[d], k, unit)
      BY <1>1, <1>2, DailySeriesIs
    <2> HIDE DEF daily
    <2> QED
      BY <2>1 DEF DailySampled
  <1>4. daily \in Samples(DayNumbers)
    <2>1. daily = [d \in DOMAIN daily |-> daily[d]]
      BY <1>1, <1>2, DailySeriesIs
    <2>2. \E x : x = NoRows /\ HourlySampled(x, unit)
      BY NoSamples
    <2> HIDE DEF daily
    <2>3. DOMAIN daily \subseteq DayNumbers
      BY <1>2, <1>3, <2>2, SampledSlots
    <2>4. \A d \in DOMAIN daily : daily[d] \in Readings
      <3> SUFFICES ASSUME NEW d \in DOMAIN daily PROVE daily[d] \in Readings
        OBVIOUS
      <3>1. PICK k \in Uploaded : From(daily[d], k, unit)
        BY <1>3 DEF DailySampled
      <3> QED
        BY <1>2, <3>1, FromTyped
    <2> QED
      BY <2>1, <2>3, <2>4 DEF Samples
  <1>5. pass' = [pass EXCEPT !.pc = "hourly", !.factor = unit, !.daily = daily]
    BY DEF FetchDaily
  <1> HIDE DEF daily
  <1>6. /\ pass' \in Passes /\ pass'.now = pass.now /\ pass'.pc = "hourly" /\ pass'.factor = unit
        /\ pass'.hourly = NoRows /\ pass'.daily = daily
    BY <1>1, <1>4, <1>5 DEF Passes, Stages
  <1>7. PassTyped'
    BY <1>1, <1>6 DEF HistoryTyped, PassTyped, world
  <1>8. PassSampled'
    <2>1. (HourlySampled(pass.hourly, pass.factor) /\ DailySampled(pass.daily, pass.factor))'
      <3>1. home' = home /\ Uploaded' = Uploaded
        BY <1>1, <1>2, WorldRests
      <3>2. \A d \in DOMAIN daily : \E k \in Uploaded' :
              /\ Day(k) = d /\ k \in ReadHours(home')
              /\ \E s \in Shown(home', k) : daily[d] = InUnit(s, unit)
        BY <1>3, <3>1 DEF DailySampled, From, Read
      <3>3. (DailySampled(pass.daily, pass.factor))'
        BY <1>6, <3>2 DEF DailySampled, From, Read
      <3> QED
        BY <1>6, <3>3 DEF HourlySampled, NoRows
    <2> QED
      BY <1>6, <2>1 DEF PassSampled
  <1> QED
    BY <1>1, <1>7, <1>8, PassMovesOn DEF At

\* One more window.
LEMMA WindowIs ==
  ASSUME HistoryTyped, At("hourly"), NEW unit \in Units, Accepted(unit)
  PROVE  /\ WorldOK /\ pass \in Passes /\ pass.factor = unit
         /\ WindowStart(pass) \in Int
         /\ HourlySampled(Upserted(pass.hourly, HourlySeries(WindowStart(pass), pass.upto, unit)), unit)
         /\ Upserted(pass.hourly, HourlySeries(WindowStart(pass), pass.upto, unit)) \in Samples(Hours)
         /\ DailySampled(pass.daily, unit)
  <1>1. /\ WorldOK /\ pass \in Passes /\ pass.factor = unit /\ HourlySampled(pass.hourly, unit)
        /\ DailySampled(pass.daily, unit) /\ pass.from \in Int /\ pass.upto \in Int
    <2>1. pass.factor \in Units /\ None \notin Units
      BY NoneAssumption DEF At, HistoryTyped, PassSampled
    <2>2. pass.factor = unit
      BY <2>1 DEF Accepted
    <2> QED
      BY <2>2 DEF At, HistoryTyped, PassTyped, PassSampled, Passes
  <1>2. WindowStart(pass) \in Int
    BY <1>1, WindowStartIs
  <1> DEFINE window == HourlySeries(WindowStart(pass), pass.upto, unit)
             hourly == Upserted(pass.hourly, window)
  <1>3. HourlySampled(window, unit)
    <2>1. \A h \in DOMAIN window : h \in Uploaded /\ From(window[h], h, unit)
      BY <1>1, <1>2, HourlySeriesIs
    <2> HIDE DEF window
    <2> QED
      BY <2>1 DEF HourlySampled
  <1>4. HourlySampled(hourly, unit)
    <2> HIDE DEF window
    <2> QED
      BY <1>1, <1>3 DEF HourlySampled, Upserted
  <1>5. hourly \in Samples(Hours)
    <2>1. hourly = [s \in DOMAIN hourly |-> hourly[s]]
      BY DEF Upserted
    <2> HIDE DEF hourly
    <2>2. \A h \in DOMAIN hourly : h \in Hours /\ hourly[h] \in Readings
      BY <1>1, <1>4, FromTyped DEF HourlySampled
    <2> QED
      BY <2>1, <2>2 DEF Samples
  <1> QED
    BY <1>1, <1>2, <1>4, <1>5

LEMMA ThreeTasks ==
  ASSUME NEW S, NEW a \in S, NEW b \in S, NEW c \in S
  PROVE  <<a>> \o <<b, c>> = <<a, b, c>> /\ <<>> \o <<b, c>> = <<b, c>>
  <1>1. \A i \in 1..3 : (<<a>> \o <<b, c>>)[i] = <<a, b, c>>[i]
    OBVIOUS
  <1>2. /\ <<a>> \o <<b, c>> \in Seq(S) /\ Len(<<a>> \o <<b, c>>) = 3
        /\ <<a, b, c>> \in Seq(S) /\ Len(<<a, b, c>>) = 3
    OBVIOUS
  <1>3. <<a>> \o <<b, c>> = <<a, b, c>>
    BY ONLY <1>1, <1>2, SeqEqual
  <1>4. <<>> \o <<b, c>> = <<b, c>>
    OBVIOUS
  <1> QED
    BY <1>3, <1>4

LEMMA ImportTasksAre ==
  ASSUME NEW p, NEW rows \in TaskRows, p.unit \in Units, p.rebuild \in BOOLEAN
  PROVE  /\ ImportTasks(p, rows) \in Seq(Tasks)
         /\ ImportTasks(p, rows) = IF p.rebuild THEN <<Clear, Import(p.unit, rows), Marker>>
                                   ELSE <<Import(p.unit, rows), Marker>>
         /\ Import(p.unit, rows) \in Tasks /\ Import(p.unit, rows).kind = "import"
         /\ Import(p.unit, rows) # Clear /\ Import(p.unit, rows) # Marker /\ Clear # Marker
  <1>1. Import(p.unit, rows) \in Tasks
    BY DEF Tasks, Import
  <1>2. Clear \in Tasks /\ Marker \in Tasks
    BY DEF Tasks
  <1>3. /\ Import(p.unit, rows).kind = "import" /\ Clear # Marker
        /\ Import(p.unit, rows) # Clear /\ Import(p.unit, rows) # Marker
    BY DEF Import, Clear, Marker
  <1>4. ImportTasks(p, rows) = IF p.rebuild THEN <<Clear, Import(p.unit, rows), Marker>>
                               ELSE <<Import(p.unit, rows), Marker>>
    <2> DEFINE i == Import(p.unit, rows)
    <2>1. i \in Tasks
      BY <1>1
    <2> HIDE DEF i
    <2>2. <<Clear>> \o <<i, Marker>> = <<Clear, i, Marker>> /\ <<>> \o <<i, Marker>> = <<i, Marker>>
      BY <1>2, <2>1, ThreeTasks
    <2> QED
      BY <2>2 DEF ImportTasks, i
  <1>5. ImportTasks(p, rows) \in Seq(Tasks)
    BY <1>1, <1>2, <1>4
  <1> QED
    BY <1>1, <1>3, <1>4, <1>5

LEMMA QueuedBehind ==
  ASSUME NEW S, NEW s \in Seq(S), NEW t \in Seq(S)
  PROVE  /\ s \o t \in Seq(S) /\ Len(s) \in Nat /\ DOMAIN s = 1..Len(s)
         /\ \A i \in DOMAIN s : i \in DOMAIN (s \o t) /\ (s \o t)[i] = s[i]
         /\ \A i \in DOMAIN t : Len(s) + i \in DOMAIN (s \o t) /\ (s \o t)[Len(s) + i] = t[i]
         /\ \A i \in DOMAIN (s \o t) : i \in DOMAIN s \/ \E j \in DOMAIN t : i = Len(s) + j
  <1>1. /\ s \o t \in Seq(S) /\ Len(s \o t) = Len(s) + Len(t)
        /\ \A i \in 1..Len(s) : (s \o t)[i] = s[i]
        /\ \A i \in 1..Len(t) : (s \o t)[Len(s) + i] = t[i]
    OBVIOUS
  <1>2. Len(s) \in Nat /\ Len(t) \in Nat /\ DOMAIN s = 1..Len(s) /\ DOMAIN t = 1..Len(t)
    OBVIOUS
  <1>3. DOMAIN (s \o t) = 1..(Len(s) + Len(t))
    BY <1>1
  <1>4. ASSUME NEW i \in 1..(Len(s) + Len(t)), i \notin 1..Len(s)
        PROVE  \E j \in 1..Len(t) : i = Len(s) + j
    <2> DEFINE n == Len(s)
               m == Len(t)
    <2>1. n \in Nat /\ m \in Nat /\ i \in 1..(n + m) /\ i \notin 1..n
      BY <1>2, <1>4
    <2> HIDE DEF n, m
    <2>2. i - n \in 1..m /\ i = n + (i - n)
      BY <2>1
    <2> QED
      BY <2>2 DEF n, m
  <1>5. \A i \in 1..Len(s) : i \in 1..(Len(s) + Len(t))
    BY <1>2
  <1>6. \A i \in 1..Len(t) : Len(s) + i \in 1..(Len(s) + Len(t))
    BY <1>2
  <1>7. /\ \A i \in DOMAIN s : i \in DOMAIN (s \o t) /\ (s \o t)[i] = s[i]
        /\ \A i \in DOMAIN t : Len(s) + i \in DOMAIN (s \o t) /\ (s \o t)[Len(s) + i] = t[i]
    BY <1>1, <1>2, <1>3, <1>5, <1>6
  <1>8. \A i \in DOMAIN (s \o t) : i \in DOMAIN s \/ \E j \in DOMAIN t : i = Len(s) + j
    BY <1>2, <1>3, <1>4
  <1> QED
    BY <1>1, <1>2, <1>7, <1>8

LEMMA ShiftedQueue ==
  ASSUME NEW S, NEW s \in Seq(S), s # <<>>
  PROVE  /\ Tail(s) \in Seq(S) /\ Head(s) = s[1] /\ Head(s) \in S /\ 1 \in DOMAIN s
         /\ \A i \in DOMAIN Tail(s) : i \in Nat \ {0} /\ i + 1 \in DOMAIN s /\ Tail(s)[i] = s[i + 1]
         /\ \A i \in DOMAIN s : i = 1 \/ i - 1 \in DOMAIN Tail(s)
  <1>1. /\ Tail(s) \in Seq(S) /\ Len(Tail(s)) = Len(s) - 1
        /\ \A i \in 1..(Len(s) - 1) : Tail(s)[i] = s[i + 1]
    OBVIOUS
  <1>2. Len(s) \in Nat \ {0} /\ DOMAIN s = 1..Len(s) /\ DOMAIN Tail(s) = 1..(Len(s) - 1)
    BY <1>1
  <1>3. Head(s) = s[1] /\ s[1] \in S
    BY <1>2
  <1> QED
    BY <1>1, <1>2, <1>3

LEMMA CollectedRowsTyped ==
  ASSUME HistoryTyped, At("hourly"), NEW unit \in Units, Accepted(unit)
  PROVE  LET hourly == Upserted(pass.hourly, HourlySeries(WindowStart(pass), pass.upto, unit))
         IN CollectedRows(pass, hourly) # NoRows => CollectedRows(pass, hourly) \in TaskRows
  <1> DEFINE hourly == Upserted(pass.hourly, HourlySeries(WindowStart(pass), pass.upto, unit))
             rows == CollectedRows(pass, hourly)
             R == CollectedReadings(pass, hourly)
  <1>1. /\ WorldOK /\ pass \in Passes /\ pass.factor = unit
        /\ HourlySampled(hourly, unit) /\ DailySampled(pass.daily, unit)
    BY WindowIs
  <1>2. pass.unit \in Units /\ pass.factor \in Units /\ pass.anchor \in Anchors \cup {None}
    BY <1>1 DEF Passes
  <1> HIDE DEF hourly
  <1>3. RowsCount(rows, R, DOMAIN R, pass.anchor)
    BY <1>1, <1>2, CollectedRowsCount
  <1>4. DOMAIN R \subseteq Hours
    <2>1. \E x : x = R
      OBVIOUS
    <2> QED
      BY <1>1, <1>2, CollectedReadingsAre
  <1> HIDE DEF rows, R
  <1>5. RowsTyped(rows, Hours)
    BY <1>3, <1>4 DEF RowsCount, RowsTyped
  <1>6. rows # NoRows => rows \in TaskRows
    BY <1>5, TaskRowsAre
  <1> QED
    BY <1>6 DEF rows, hourly

LEMMA FetchHourlyKeepsTypes ==
  ASSUME HistoryTyped, NEW unit \in Units, FetchHourly(unit)
  PROVE  HistoryTyped'
  <1> DEFINE start == WindowStart(pass)
             window == HourlySeries(start, pass.upto, unit)
             hourly == Upserted(pass.hourly, window)
             rows == CollectedRows(pass, hourly)
  <1>1. At("hourly") /\ Accepted(unit) /\ pass # None /\ pass.pc = "hourly"
    BY DEF FetchHourly, At
  <1>2. /\ WorldOK /\ pass \in Passes /\ pass.factor = unit /\ start \in Int
        /\ HourlySampled(hourly, unit) /\ hourly \in Samples(Hours)
        /\ DailySampled(pass.daily, unit)
    BY <1>1, WindowIs
  <1>3. rows # NoRows => rows \in TaskRows
    BY <1>1, CollectedRowsTyped
  <1>4. /\ UNCHANGED <<world, series, seriesUnit, entry>>
        /\ \/ pass' = [pass EXCEPT !.hourly = hourly, !.upto = start] /\ UNCHANGED queue
           \/ pass' = None /\ UNCHANGED queue
           \/ /\ rows # NoRows
              /\ pass' = [pass EXCEPT !.pc = "wait", !.hourly = NoRows, !.daily = NoRows]
              /\ queue' = queue \o ImportTasks(pass, rows)
    BY DEF FetchHourly
  <1>5. home' = home /\ Uploaded' = Uploaded /\ WorldOK' /\ clock' = clock
    BY <1>2, <1>4, WorldRests
  <1> HIDE DEF start, window, hourly, rows
  <1>6. CASE pass' = [pass EXCEPT !.hourly = hourly, !.upto = start] /\ UNCHANGED queue
    <2>1. /\ pass' \in Passes /\ pass'.now = pass.now /\ pass'.pc = "hourly"
          /\ pass'.factor = unit /\ pass'.hourly = hourly /\ pass'.daily = pass.daily
      BY <1>1, <1>2, <1>6 DEF Passes
    <2>2. PassTyped'
      BY <1>1, <1>5, <2>1 DEF HistoryTyped, PassTyped
    <2>3. PassSampled'
      <3>1. \A h \in DOMAIN hourly : /\ h \in Uploaded' /\ h \in ReadHours(home')
                                     /\ \E s \in Shown(home', h) : hourly[h] = InUnit(s, unit)
        BY <1>2, <1>5 DEF HourlySampled, From, Read
      <3>2. (HourlySampled(pass.hourly, pass.factor))'
        BY <2>1, <3>1 DEF HourlySampled, From, Read
      <3>3. (DailySampled(pass.daily, pass.factor))'
        BY <1>2, <1>5, <2>1 DEF DailySampled, From, Read
      <3> QED
        BY <2>1, <3>2, <3>3 DEF PassSampled
    <2> QED
      BY <1>1, <1>4, <1>6, <2>2, <2>3, PassMovesOn DEF At, store
  <1>7. CASE pass' = None /\ UNCHANGED queue
    BY <1>1, <1>4, <1>7, PassMovesOn DEF At, store, PassTyped, PassSampled
  <1>8. CASE /\ rows # NoRows
             /\ pass' = [pass EXCEPT !.pc = "wait", !.hourly = NoRows, !.daily = NoRows]
             /\ queue' = queue \o ImportTasks(pass, rows)
    <2>1. /\ pass' \in Passes /\ pass'.now = pass.now /\ pass'.pc = "wait"
          /\ pass'.hourly = NoRows /\ pass'.daily = NoRows
      <3>1. NoRows \in Samples(Hours) /\ NoRows \in Samples(DayNumbers)
        BY NoSamples
      <3> QED
        BY <1>1, <1>2, <1>8, <3>1 DEF Passes, Stages
    <2>2. PassTyped'
      BY <1>1, <1>5, <2>1 DEF HistoryTyped, PassTyped
    <2>3. PassSampled'
      <3>1. (HourlySampled(pass.hourly, pass.factor) /\ DailySampled(pass.daily, pass.factor))'
        BY <2>1 DEF HourlySampled, DailySampled, NoRows
      <3> QED
        BY <2>1, <3>1 DEF PassSampled
    <2> DEFINE i == Import(pass.unit, rows)
               tasks == ImportTasks(pass, rows)
               n == Len(queue)
    <2>4. /\ tasks \in Seq(Tasks)
          /\ tasks = IF pass.rebuild THEN <<Clear, i, Marker>> ELSE <<i, Marker>>
          /\ i \in Tasks /\ i.kind = "import" /\ i # Clear /\ i # Marker /\ Clear # Marker
      <3>1. pass.unit \in Units /\ pass.rebuild \in BOOLEAN
        BY <1>2 DEF Passes
      <3> QED
        BY <1>3, <1>8, <3>1, ImportTasksAre
    <2> HIDE DEF i, tasks
    <2>5. queue \in Seq(Tasks) /\ queue' = queue \o tasks
      BY <1>8 DEF HistoryTyped, StoreTyped, tasks
    <2>6. /\ queue' \in Seq(Tasks) /\ n \in Nat /\ DOMAIN queue = 1..n
          /\ \A j \in DOMAIN queue : j \in DOMAIN queue' /\ queue'[j] = queue[j]
          /\ \A j \in DOMAIN tasks : n + j \in DOMAIN queue' /\ queue'[n + j] = tasks[j]
          /\ \A j \in DOMAIN queue' : j \in DOMAIN queue \/ \E k \in DOMAIN tasks : j = n + k
      <3> DEFINE more == queue \o tasks
      <3>1. queue \in Seq(Tasks) /\ tasks \in Seq(Tasks)
        BY <2>4, <2>5
      <3>2. /\ more \in Seq(Tasks) /\ n \in Nat /\ DOMAIN queue = 1..n
            /\ \A j \in DOMAIN queue : j \in DOMAIN more /\ more[j] = queue[j]
            /\ \A j \in DOMAIN tasks : n + j \in DOMAIN more /\ more[n + j] = tasks[j]
            /\ \A j \in DOMAIN more : j \in DOMAIN queue \/ \E k \in DOMAIN tasks : j = n + k
        BY ONLY <3>1, QueuedBehind
      <3>3. queue' = more
        BY <2>5
      <3> HIDE DEF more, n
      <3> QED
        BY <3>2, <3>3
    <2> HIDE DEF n
    <2>7. /\ \A j, k \in DOMAIN tasks : tasks[j] = Marker /\ tasks[k] = Marker => j = k
          /\ \A j \in DOMAIN tasks : /\ j \in Nat
                                     /\ tasks[j] = Clear => /\ j + 1 \in DOMAIN tasks
                                                            /\ tasks[j + 1].kind = "import"
      <3>1. CASE pass.rebuild
        <4>1. DOMAIN tasks = {1, 2, 3} /\ tasks[1] = Clear /\ tasks[2] = i /\ tasks[3] = Marker
          BY <2>4, <3>1
        <4> QED
          BY <2>4, <4>1
      <3>2. CASE ~pass.rebuild
        <4>1. DOMAIN tasks = {1, 2} /\ tasks[1] = i /\ tasks[2] = Marker
          BY <2>4, <3>2
        <4> QED
          BY <2>4, <4>1
      <3> QED
        BY <3>1, <3>2
    <2>8. MarkersAwaited'
      <3>1. \A j \in DOMAIN queue : queue[j] # Marker
        BY <1>1 DEF HistoryTyped, MarkersAwaited, At
      <3>2. At("wait")'
        <4>1. pass' # None
          <5>1. SUFFICES ASSUME pass' = None PROVE FALSE
            OBVIOUS
          <5>2. /\ None \in Passes /\ None.pc = "wait" /\ None.factor \in Units
                /\ None.hourly = <<>> /\ None.daily = <<>>
            <6>1. NoRows = <<>>
              BY DEF NoRows
            <6>2. pass'.factor = unit
              BY <1>2, <1>8 DEF Passes
            <6> QED
              BY <2>1, <5>1, <6>1, <6>2
          <5> QED
            BY <5>2, NoneAssumption DEF Passes, Anchors
        <4> QED
          BY <2>1, <4>1 DEF At
      <3> QED
        BY <2>6, <2>7, <3>1, <3>2 DEF MarkersAwaited
    <2>9. ClearsReplaced'
      <3>1. ASSUME entry' # "removed", NEW j \in DOMAIN queue', queue'[j] = Clear
            PROVE  j + 1 \in DOMAIN queue' /\ queue'[j + 1].kind = "import"
        <4>1. CASE j \in DOMAIN queue
          BY <1>4, <2>6, <3>1, <4>1 DEF HistoryTyped, ClearsReplaced
        <4>2. CASE \E k \in DOMAIN tasks : j = n + k
          <5>1. PICK k \in DOMAIN tasks : j = n + k
            BY <4>2
          <5>2. k + 1 \in DOMAIN tasks /\ tasks[k + 1].kind = "import" /\ k \in Nat
            BY <2>6, <2>7, <3>1, <5>1
          <5>3. j + 1 = n + (k + 1)
            BY <2>6, <5>1, <5>2
          <5> QED
            BY <2>6, <5>2, <5>3
        <4> QED
          BY <2>6, <4>1, <4>2
      <3> QED
        BY <3>1 DEF ClearsReplaced
    <2>10. StoreTyped'
      BY <1>4, <2>6 DEF HistoryTyped, StoreTyped
    <2> QED
      BY <1>5, <2>2, <2>3, <2>8, <2>9, <2>10 DEF HistoryTyped
  <1> QED
    BY <1>4, <1>6, <1>7, <1>8

\* The shape of a step of the recorder's thread.
LEMMA RecorderStep ==
  ASSUME HistoryTyped, RecorderRuns
  PROVE  /\ queue \in Seq(Tasks) /\ queue # <<>> /\ queue' = Tail(queue) /\ queue' \in Seq(Tasks)
         /\ Head(queue) = queue[1] /\ queue[1] \in Tasks /\ 1 \in DOMAIN queue
         /\ \A i \in DOMAIN queue' : i \in Nat \ {0} /\ i + 1 \in DOMAIN queue /\ queue'[i] = queue[i + 1]
         /\ \A i \in DOMAIN queue : i = 1 \/ i - 1 \in DOMAIN queue'
         /\ UNCHANGED <<world, entry>>
  <1>1. queue \in Seq(Tasks) /\ queue # <<>> /\ queue' = Tail(queue) /\ UNCHANGED <<world, entry>>
    BY DEF HistoryTyped, StoreTyped, RecorderRuns
  <1> DEFINE rest == Tail(queue)
  <1>2. /\ rest \in Seq(Tasks) /\ Head(queue) = queue[1] /\ Head(queue) \in Tasks /\ 1 \in DOMAIN queue
        /\ \A i \in DOMAIN rest : i \in Nat \ {0} /\ i + 1 \in DOMAIN queue /\ rest[i] = queue[i + 1]
        /\ \A i \in DOMAIN queue : i = 1 \/ i - 1 \in DOMAIN rest
    BY <1>1, ShiftedQueue
  <1>3. queue' = rest
    BY <1>1
  <1> HIDE DEF rest
  <1> QED
    BY <1>1, <1>2, <1>3

\* Its four kinds of task.
LEMMA RecorderTask ==
  ASSUME HistoryTyped, RecorderRuns
  PROVE  \/ queue[1] = Clear /\ series' = NoRows /\ seriesUnit' = None /\ pass' = pass
         \/ /\ queue[1].kind = "import" /\ queue[1].unit \in Units /\ queue[1].rows \in TaskRows
            /\ series' = Upserted(queue[1].rows, series) /\ seriesUnit' = queue[1].unit
            /\ pass' = pass
         \/ /\ queue[1] = Marker /\ pass' = [pass EXCEPT !.pc = "drained"]
            /\ UNCHANGED <<series, seriesUnit>>
         \/ queue[1] = Orphan /\ UNCHANGED <<series, seriesUnit, pass>>
  <1>1. Head(queue) = queue[1] /\ queue[1] \in Tasks
    BY RecorderStep
  <1>2. /\ queue[1].kind = "clear" <=> queue[1] = Clear
        /\ queue[1].kind = "sync" <=> queue[1] = Marker
        /\ queue[1].kind = "orphan" <=> queue[1] = Orphan
        /\ queue[1].kind = "import" => queue[1].unit \in Units /\ queue[1].rows \in TaskRows
    BY <1>1, TaskKinds
  <1> QED
    BY <1>1, <1>2 DEF RecorderRuns

LEMMA RecorderKeepsTypes ==
  ASSUME HistoryTyped, RecorderRuns
  PROVE  HistoryTyped'
  <1>1. /\ queue \in Seq(Tasks) /\ queue' \in Seq(Tasks)
        /\ queue[1] \in Tasks /\ 1 \in DOMAIN queue
        /\ \A i \in DOMAIN queue' : i \in Nat \ {0} /\ i + 1 \in DOMAIN queue /\ queue'[i] = queue[i + 1]
        /\ \A i \in DOMAIN queue : i = 1 \/ i - 1 \in DOMAIN queue'
        /\ UNCHANGED <<world, entry>>
    BY RecorderStep
  <1>2. WorldOK' /\ home' = home /\ clock' = clock /\ Uploaded' = Uploaded
    BY <1>1, WorldRests DEF HistoryTyped
  <1>3. ClearsReplaced'
    <2>1. ASSUME entry' # "removed", NEW i \in DOMAIN queue', queue'[i] = Clear
          PROVE  i + 1 \in DOMAIN queue' /\ queue'[i + 1].kind = "import"
      <3>1. i + 1 \in DOMAIN queue /\ queue[i + 1] = Clear /\ i \in Nat \ {0}
        BY <1>1, <2>1
      <3>2. i + 1 + 1 \in DOMAIN queue /\ queue[i + 1 + 1].kind = "import"
        BY <1>1, <2>1, <3>1 DEF HistoryTyped, ClearsReplaced
      <3>3. i + 1 \in DOMAIN queue'
        <4>1. i + 1 + 1 # 1 /\ i + 1 + 1 - 1 = i + 1
          BY <3>1
        <4> QED
          BY <1>1, <3>2, <4>1
      <3> QED
        BY <1>1, <3>2, <3>3
    <2> QED
      BY <2>1 DEF ClearsReplaced
  <1>4. StoreTyped'
    <2>1. series' = NoRows \/ series' = series
            \/ \E rows \in TaskRows : series' = Upserted(rows, series)
      BY RecorderTask
    <2>2. RowsTyped(series', Hours)
      <3>1. RowsTyped(series, Hours)
        BY DEF HistoryTyped, StoreTyped
      <3>2. CASE series' = NoRows
        BY <3>2 DEF RowsTyped, NoRows
      <3>3. CASE \E rows \in TaskRows : series' = Upserted(rows, series)
        <4>1. PICK rows \in TaskRows : series' = Upserted(rows, series)
          BY <3>3
        <4>2. RowsTyped(rows, Hours)
          BY TaskRowsAre
        <4> QED
          BY <3>1, <4>1, <4>2, UpsertedIs
      <3> QED
        BY <2>1, <3>1, <3>2, <3>3
    <2>3. seriesUnit' \in Units \cup {None}
      BY RecorderTask DEF HistoryTyped, StoreTyped
    <2> QED
      BY <1>1, <2>2, <2>3 DEF HistoryTyped, StoreTyped
  <1>5. CASE queue[1] = Marker /\ pass' = [pass EXCEPT !.pc = "drained"]
    <2>1. At("wait") /\ \A j \in DOMAIN queue : queue[j] = Marker => j = 1
      BY <1>1, <1>5 DEF HistoryTyped, MarkersAwaited
    <2>2. /\ pass # None /\ pass \in Passes /\ pass.pc = "wait"
          /\ pass.hourly = NoRows /\ pass.daily = NoRows
      BY <2>1 DEF At, HistoryTyped, PassTyped, PassSampled
    <2>3. /\ pass' \in Passes /\ pass'.pc = "drained" /\ pass'.now = pass.now
          /\ pass'.hourly = NoRows /\ pass'.daily = NoRows
      BY <1>5, <2>2 DEF Passes, Stages
    <2>4. PassTyped'
      BY <1>2, <2>2, <2>3 DEF HistoryTyped, PassTyped
    <2>5. PassSampled'
      <3>1. (HourlySampled(pass.hourly, pass.factor) /\ DailySampled(pass.daily, pass.factor))'
        BY <2>3 DEF HourlySampled, DailySampled, NoRows
      <3> QED
        BY <2>3, <3>1 DEF PassSampled
    <2>6. MarkersAwaited'
      <3>1. \A i \in DOMAIN queue' : queue'[i] # Marker
        <4>1. ASSUME NEW i \in DOMAIN queue', queue'[i] = Marker PROVE FALSE
          <5>1. i + 1 = 1 /\ i \in Nat \ {0}
            BY <1>1, <2>1, <4>1
          <5> QED
            BY <5>1
        <4> QED
          BY <4>1
      <3> QED
        BY <3>1 DEF MarkersAwaited
    <2> QED
      BY <1>2, <1>3, <1>4, <2>4, <2>5, <2>6 DEF HistoryTyped
  <1>6. CASE pass' = pass
    <2>1. PassTyped'
      BY <1>2, <1>6 DEF HistoryTyped, PassTyped
    <2>2. PassSampled'
      BY <1>2, <1>6, UploadsStay DEF HistoryTyped
    <2>3. MarkersAwaited'
      <3>1. ASSUME NEW i \in DOMAIN queue', queue'[i] = Marker
            PROVE  At("wait")' /\ \A j \in DOMAIN queue' : queue'[j] = Marker => i = j
        <4>1. i + 1 \in DOMAIN queue /\ queue[i + 1] = Marker
          BY <1>1, <3>1
        <4>2. At("wait") /\ \A j \in DOMAIN queue : queue[j] = Marker => i + 1 = j
          BY <4>1 DEF HistoryTyped, MarkersAwaited
        <4>3. ASSUME NEW j \in DOMAIN queue', queue'[j] = Marker PROVE i = j
          <5>1. i + 1 = j + 1 /\ i \in Nat /\ j \in Nat
            BY <1>1, <4>2, <4>3
          <5> QED
            BY <5>1
        <4> QED
          BY <1>6, <4>2, <4>3 DEF At
      <3> QED
        BY <3>1 DEF MarkersAwaited
    <2> QED
      BY <1>2, <1>3, <1>4, <2>1, <2>2, <2>3 DEF HistoryTyped
  <1> QED
    BY <1>5, <1>6, RecorderTask

\* However a pass ends, its marker means nothing to anybody.
LEMMA AbandonKeepsTypes ==
  ASSUME HistoryTyped, UNCHANGED <<world, series, seriesUnit>>, pass' = None,
         queue' = Abandoned(queue), entry' \in {"loaded", "stopped", "removed"},
         entry' # "removed" => entry # "removed"
  PROVE  HistoryTyped'
  <1>1. /\ Abandoned(queue) \in Seq(Tasks) /\ DOMAIN Abandoned(queue) = DOMAIN queue
        /\ \A i \in DOMAIN queue : /\ Abandoned(queue)[i] # Marker
                                   /\ queue[i] # Marker => Abandoned(queue)[i] = queue[i]
                                   /\ queue[i] = Marker => Abandoned(queue)[i] = Orphan
    BY AbandonedIs DEF HistoryTyped, StoreTyped
  <1>2. WorldOK'
    BY WorldRests DEF HistoryTyped
  <1>3. StoreTyped' /\ PassTyped' /\ PassSampled' /\ MarkersAwaited'
    BY <1>1 DEF HistoryTyped, StoreTyped, PassTyped, PassSampled, MarkersAwaited
  <1>4. ClearsReplaced'
    <2>1. Orphan # Clear /\ Marker.kind # "import"
      BY DEF Orphan, Clear, Marker
    <2>2. ASSUME entry' # "removed", NEW i \in DOMAIN queue', queue'[i] = Clear
          PROVE  i + 1 \in DOMAIN queue' /\ queue'[i + 1].kind = "import"
      <3>1. i \in DOMAIN queue /\ queue[i] = Clear
        BY <1>1, <2>1, <2>2
      <3>2. i + 1 \in DOMAIN queue /\ queue[i + 1].kind = "import"
        BY <2>2, <3>1 DEF HistoryTyped, ClearsReplaced
      <3> QED
        BY <1>1, <2>1, <3>2
    <2> QED
      BY <2>2 DEF ClearsReplaced
  <1> QED
    BY <1>2, <1>3, <1>4 DEF HistoryTyped

LEMMA PassEndsKeepTypes ==
  ASSUME HistoryTyped, PassDone \/ PassFails \/ PassNeedsLogin
  PROVE  HistoryTyped'
  <1>1. CASE PassFails
    BY <1>1, AbandonKeepsTypes DEF PassFails, HistoryTyped, StoreTyped
  <1>2. CASE PassDone \/ PassNeedsLogin
    <2>1. /\ UNCHANGED <<world, store>> /\ pass' = None /\ ~At("wait")
          /\ entry' \in {"loaded", "stopped", "removed"}
          /\ entry' # "removed" => entry # "removed"
      BY <1>2 DEF PassDone, PassNeedsLogin, Requesting, At, HistoryTyped, StoreTyped
    <2>2. WorldOK'
      BY <2>1, WorldRests DEF HistoryTyped
    <2>3. StoreTyped' /\ PassTyped' /\ PassSampled'
      BY <2>1 DEF store, HistoryTyped, StoreTyped, PassTyped, PassSampled
    <2>4. MarkersAwaited' /\ ClearsReplaced'
      BY <2>1 DEF store, HistoryTyped, MarkersAwaited, ClearsReplaced
    <2> QED
      BY <2>2, <2>3, <2>4 DEF HistoryTyped
  <1> QED
    BY <1>1, <1>2

LEMMA EntryKeepsTypes ==
  ASSUME HistoryTyped, Reload \/ RemoveEntry \/ Crash
  PROVE  HistoryTyped'
  <1>1. CASE Reload
    <2>1. CASE pass' = None /\ queue' = Abandoned(queue)
      BY <1>1, <2>1, AbandonKeepsTypes DEF Reload
    <2>2. CASE UNCHANGED <<pass, queue>>
      <3>1. /\ UNCHANGED <<world, series, seriesUnit, pass, queue>> /\ entry' = "loaded"
            /\ entry # "removed"
        BY <1>1, <2>2 DEF Reload
      <3>2. WorldOK' /\ home' = home /\ clock' = clock /\ Uploaded' = Uploaded
        BY <3>1, WorldRests DEF HistoryTyped
      <3>3. StoreTyped' /\ PassTyped' /\ MarkersAwaited' /\ ClearsReplaced'
        BY <3>1, <3>2
           DEF HistoryTyped, StoreTyped, PassTyped, MarkersAwaited, ClearsReplaced, At
      <3>4. PassSampled'
        BY <3>1, <3>2, UploadsStay DEF HistoryTyped
      <3> QED
        BY <3>2, <3>3, <3>4 DEF HistoryTyped
    <2> QED
      BY <1>1, <2>1, <2>2 DEF Reload, EndBoundPass
  <1>2. CASE Crash
    <2>1. UNCHANGED <<world, series, seriesUnit>> /\ pass' = None /\ queue' = <<>> /\ entry' = "loaded"
      BY <1>2 DEF Crash
    <2>2. WorldOK'
      BY <2>1, WorldRests DEF HistoryTyped
    <2>3. StoreTyped' /\ PassTyped' /\ PassSampled' /\ MarkersAwaited' /\ ClearsReplaced'
      BY <2>1 DEF HistoryTyped, StoreTyped, PassTyped, PassSampled, MarkersAwaited, ClearsReplaced
    <2> QED
      BY <2>2, <2>3 DEF HistoryTyped
  <1>3. CASE RemoveEntry
    <2>1. UNCHANGED <<world, series, seriesUnit>> /\ entry' = "removed"
      BY <1>3 DEF RemoveEntry
    <2>2. \E q \in Seq(Tasks) :
            /\ queue' = Append(q, Clear)
            /\ \/ pass' = None /\ \A i \in DOMAIN q : q[i] # Marker
               \/ pass' = pass /\ q = queue
      <3>1. /\ Abandoned(queue) \in Seq(Tasks) /\ DOMAIN Abandoned(queue) = DOMAIN queue
            /\ \A i \in DOMAIN queue : Abandoned(queue)[i] # Marker
        BY AbandonedIs DEF HistoryTyped, StoreTyped
      <3>2. queue \in Seq(Tasks)
        BY DEF HistoryTyped, StoreTyped
      <3> QED
        BY <1>3, <3>1, <3>2 DEF RemoveEntry
    <2>3. PICK q \in Seq(Tasks) :
            /\ queue' = Append(q, Clear)
            /\ \/ pass' = None /\ \A i \in DOMAIN q : q[i] # Marker
               \/ pass' = pass /\ q = queue
      BY <2>2
    <2>4. Clear \in Tasks /\ Clear # Marker
      BY DEF Tasks, Clear, Marker
    <2>5. /\ queue' \in Seq(Tasks)
          /\ \A i \in DOMAIN queue' : queue'[i] = Marker => i \in DOMAIN q /\ q[i] = Marker
      BY <2>3, <2>4
    <2>6. WorldOK' /\ home' = home /\ clock' = clock /\ Uploaded' = Uploaded
      BY <2>1, WorldRests DEF HistoryTyped
    <2>7. StoreTyped' /\ ClearsReplaced'
      BY <2>1, <2>5 DEF HistoryTyped, StoreTyped, ClearsReplaced
    <2>8. MarkersAwaited'
      BY <2>3, <2>5 DEF HistoryTyped, MarkersAwaited, At
    <2>9. PassTyped' /\ PassSampled'
      <3>1. CASE pass' = None
        BY <3>1 DEF PassTyped, PassSampled
      <3>2. CASE pass' = pass
        BY <2>6, <3>2, UploadsStay DEF HistoryTyped, PassTyped
      <3> QED
        BY <2>3, <3>1, <3>2
    <2> QED
      BY <2>6, <2>7, <2>8, <2>9 DEF HistoryTyped
  <1> QED
    BY <1>1, <1>2, <1>3

LEMMA HistoryTypedNext ==
  ASSUME HistoryTyped, [Next]_vars
  PROVE  HistoryTyped'
  <1>1. ASSUME NEW bound \in BOOLEAN, StartPass(bound) PROVE HistoryTyped'
    BY <1>1, StartPassKeepsTypes
  <1>2. CASE ReadStoredUnit \/ ReadAnchor
    BY <1>2, PassReadsKeepTypes
  <1>3. ASSUME NEW unit \in Units, Probe(unit) \/ FetchDaily(unit) \/ FetchHourly(unit)
        PROVE  HistoryTyped'
    BY <1>3, ProbeKeepsTypes, FetchDailyKeepsTypes, FetchHourlyKeepsTypes
  <1>4. CASE PassDone \/ PassFails \/ PassNeedsLogin
    BY <1>4, PassEndsKeepTypes
  <1>5. CASE RecorderRuns
    BY <1>5, RecorderKeepsTypes
  <1>6. CASE Reload \/ RemoveEntry \/ Crash
    BY <1>6, EntryKeepsTypes
  <1>7. CASE World
    BY <1>7, WorldKeepsTypes
  <1>8. CASE UNCHANGED vars
    <2>1. UNCHANGED <<world, store, entry, pass>> /\ home' = home /\ Uploaded' = Uploaded
      BY <1>8 DEF vars, world, Uploaded
    <2>2. WorldOK'
      BY <2>1, WorldRests DEF HistoryTyped
    <2>3. PassSampled'
      BY <2>1, UploadsStay DEF HistoryTyped
    <2>4. (StoreTyped /\ PassTyped /\ MarkersAwaited /\ ClearsReplaced)'
      BY <2>1 DEF world, store, HistoryTyped, StoreTyped, PassTyped, MarkersAwaited, ClearsReplaced, At
    <2> QED
      BY <2>2, <2>3, <2>4 DEF HistoryTyped
  <1> QED
    BY <1>1, <1>2, <1>3, <1>4, <1>5, <1>6, <1>7, <1>8 DEF Next, Request

LEMMA HistoryTypedAlways == Spec => []HistoryTyped
  <1>1. Init => HistoryTyped
    BY HistoryTypedInit
  <1>2. HistoryTyped /\ [Next]_vars => HistoryTyped'
    BY HistoryTypedNext
  <1> QED
    BY <1>1, <1>2, PTL DEF Spec

\* Whatever the household, the calendar and the windows are, the recorder's
\* rows, its unit and the entry are what TypeOK says.
THEOREM StatisticsTyping == Spec => []TypeOK
  <1>1. HistoryTyped => TypeOK
    BY DEF HistoryTyped, WorldOK, WorldTyped, StoreTyped, RowsTyped, TypeOK
  <1> QED
    BY <1>1, HistoryTypedAlways, PTL

\* A rebuild, a pass that is given up, a crash, a reload: while the entry
\* exists, the recorder deletes the history only with its replacement next in
\* the queue (_async_rebuilt_rows), whatever else is waiting there.
THEOREM HistoriesSurviveRebuilds == Spec => HistorySurvivesRebuild
  <1> DEFINE Survives == (series # NoRows /\ series' = NoRows) =>
                           \/ entry = "removed"
                           \/ queue' # <<>> /\ Head(queue').kind = "import" /\ Head(queue').rows # NoRows
  <1>1. ASSUME HistoryTyped, [Next]_vars PROVE [Survives]_vars
    <2>1. SUFFICES ASSUME series # NoRows, series' = NoRows, entry # "removed"
                   PROVE  queue' # <<>> /\ Head(queue').kind = "import" /\ Head(queue').rows # NoRows
      OBVIOUS
    <2>2. RecorderRuns
      <3>1. World => series' = series
        BY WorldStep, <1>1 DEF HistoryTyped, store
      <3> QED
        BY <1>1, <2>1, <3>1
           DEF Next, vars, store, StartPass, ReadStoredUnit, ReadAnchor, Request, Probe, FetchDaily,
               FetchHourly, PassDone, PassFails, PassNeedsLogin, Reload, RemoveEntry, Crash
    <2>3. queue[1] = Clear
      <3>1. ASSUME NEW rows \in TaskRows, series' = Upserted(rows, series) PROVE FALSE
        <4>1. RowsTyped(rows, Hours) /\ RowsTyped(series, Hours)
          BY <1>1, TaskRowsAre DEF HistoryTyped, StoreTyped
        <4>2. DOMAIN series' = DOMAIN rows \cup DOMAIN series
          BY <3>1, <4>1, UpsertedIs
        <4>3. DOMAIN series = {}
          BY <2>1, <4>2 DEF NoRows
        <4> QED
          BY <2>1, <4>1, <4>3 DEF RowsTyped, NoRows
      <3> QED
        BY <1>1, <2>1, <2>2, <3>1, RecorderTask
    <2>4. 2 \in DOMAIN queue /\ queue[2].kind = "import"
      <3>1. 1 \in DOMAIN queue
        BY <1>1, <2>2, RecorderStep
      <3>2. 1 + 1 \in DOMAIN queue /\ queue[1 + 1].kind = "import"
        BY <1>1, <2>1, <2>3, <3>1 DEF HistoryTyped, ClearsReplaced
      <3> QED
        BY <3>2
    <2>5. queue' \in Seq(Tasks) /\ 1 \in DOMAIN queue' /\ queue'[1] = queue[2]
      <3>1. /\ queue' \in Seq(Tasks)
            /\ \A i \in DOMAIN queue' : queue'[i] = queue[i + 1]
            /\ \A i \in DOMAIN queue : i = 1 \/ i - 1 \in DOMAIN queue'
        BY <1>1, <2>2, RecorderStep
      <3>2. 2 - 1 \in DOMAIN queue'
        BY <2>4, <3>1
      <3> QED
        BY <3>1, <3>2
    <2>6. queue' # <<>> /\ Head(queue') = queue[2]
      BY <2>5
    <2>7. queue[2] \in Tasks
      BY <2>5
    <2>8. queue[2].rows \in TaskRows
      BY <2>4, <2>7, TaskKinds
    <2> QED
      BY <2>4, <2>6, <2>8, TaskRowsAre
  <1>2. (HistoryTyped /\ [Next]_vars) => [Survives]_vars
    BY <1>1
  <1>3. Spec => [][Survives]_vars
    BY <1>2, HistoryTypedAlways, PTL DEF Spec
  <1> QED
    BY <1>3 DEF HistorySurvivesRebuild

-----------------------------------------------------------------------------
(* One pass at a time over an idle recorder: the series a pass found is the *)
(* one its import meets.                                                    *)

\* A row holds what the bucket of the hour k showed, in unit.
RowFrom(row, k, unit) == From([value |-> row.state, drawn |-> row.drawn], k, unit)
Sourced(rows, unit) == \A s \in DOMAIN rows : \E k \in Read : RowFrom(rows[s], k, unit)

Fetching == pass # None /\ pass.pc \in {"unit", "anchor", "probe", "daily", "hourly"}

\* While a pass reads and fetches, the recorder has nothing to do but the clear
\* of an entry that was removed.
RecorderIdle == Fetching => queue = <<>> \/ (entry = "removed" /\ queue = <<Clear>>)

StageFits ==
  pass # None =>
    /\ pass.pc \in {"unit", "anchor", "probe"} => pass.anchor = None
    /\ pass.pc \in {"unit", "anchor"} => ~pass.rebuild

\* What a pass p read of the series is still so.
MeetsSeries(p) ==
  /\ (p.pc # "unit" /\ ~p.rebuild) => series = NoRows \/ seriesUnit = p.unit
  /\ p.pc \in {"probe", "daily", "hourly"} =>
       IF p.rebuild THEN p.anchor = None ELSE AnchorFits(p.anchor, p.now)
PassFits ==
  (Fetching /\ queue = <<>>) =>
    \/ entry = "removed" /\ series = NoRows
    \/ MeetsSeries(pass)

\* The series is in one unit.
SeriesSourced == series # NoRows => seriesUnit \in Units /\ Sourced(series, seriesUnit)

\* One import waits at a time, for a series in its unit or for none.
ImportsFit ==
  \A i \in DOMAIN queue : queue[i].kind = "import" =>
    /\ \A j \in DOMAIN queue : queue[j].kind = "import" => i = j
    /\ Sourced(queue[i].rows, queue[i].unit)
    /\ \/ \E j \in DOMAIN queue : j < i /\ queue[j] = Clear
       \/ series = NoRows \/ seriesUnit = queue[i].unit

SeriesFits == RecorderIdle /\ StageFits /\ PassFits /\ SeriesSourced /\ ImportsFit

LEMMA SeriesFitsInit == Init => SeriesFits
  BY DEF Init, SeriesFits, RecorderIdle, StageFits, PassFits, SeriesSourced, ImportsFit, Fetching

\* A step that leaves the recorder alone and starts or moves no pass.
LEMMA RestKeepsFit ==
  ASSUME SeriesFits, UNCHANGED <<store, entry>>, home' = home, pass' \in {pass, None}
  PROVE  SeriesFits'
  BY DEF SeriesFits, RecorderIdle, StageFits, PassFits, SeriesSourced, ImportsFit, Fetching,
         MeetsSeries, AnchorFits, store, Sourced, RowFrom, From, Read

LEMMA StartPassKeepsFit ==
  ASSUME HistoryTyped, SeriesFits, QueueBound =< 1, NEW bound \in BOOLEAN, StartPass(bound)
  PROVE  SeriesFits'
  <1>1. UNCHANGED <<world, store, entry>> /\ pass' = NewPass(bound)
    BY DEF StartPass
  <1>2. queue = <<>>
    <2>1. queue \in Seq(Tasks) /\ Len(queue) < QueueBound /\ QueueBound \in Nat
      BY Windows DEF StartPass, HistoryTyped, StoreTyped
    <2>2. Len(queue) = 0
      BY <2>1
    <2> QED
      BY <2>1, <2>2
  <1>3. pass'.pc = "unit" /\ pass'.anchor = None /\ pass'.rebuild = FALSE
    BY <1>1 DEF NewPass
  <1>4. (SeriesSourced /\ ImportsFit)'
    BY <1>1 DEF SeriesFits, SeriesSourced, ImportsFit, store, world, Sourced, RowFrom, From, Read
  <1>5. (RecorderIdle /\ StageFits /\ PassFits)'
    BY <1>1, <1>2, <1>3 DEF RecorderIdle, StageFits, PassFits, MeetsSeries, store
  <1> QED
    BY <1>4, <1>5 DEF SeriesFits

\* A stage of a pass that queues nothing.
LEMMA StageKeepsFit ==
  ASSUME HistoryTyped, SeriesFits, UNCHANGED <<world, store, entry>>, Fetching, StageFits',
         queue = <<>> => (entry = "removed" /\ series = NoRows) \/ MeetsSeries(pass')
  PROVE  SeriesFits'
  <1>1. (SeriesSourced /\ ImportsFit)'
    BY DEF SeriesFits, SeriesSourced, ImportsFit, store, world, Sourced, RowFrom, From, Read
  <1>2. RecorderIdle'
    BY DEF SeriesFits, RecorderIdle, store
  <1>3. PassFits'
    <2>1. series' = series /\ seriesUnit' = seriesUnit /\ queue' = queue /\ entry' = entry
      BY DEF store
    <2>2. (MeetsSeries(pass))' <=> MeetsSeries(pass')
      BY <2>1 DEF MeetsSeries, AnchorFits
    <2> QED
      BY <2>1, <2>2 DEF PassFits
  <1> QED
    BY <1>1, <1>2, <1>3 DEF SeriesFits

LEMMA PassReadsKeepFit ==
  ASSUME HistoryTyped, SeriesFits, ReadStoredUnit \/ ReadAnchor
  PROVE  SeriesFits'
  <1>1. UNCHANGED <<world, store, entry>> /\ pass # None /\ pass \in Passes
    BY DEF ReadStoredUnit, ReadAnchor, At, HistoryTyped, PassTyped
  <1>2. CASE ReadStoredUnit
    <2> DEFINE mismatch == seriesUnit # None /\ seriesUnit # pass.unit
    <2>1. pass.pc = "unit" /\ pass.anchor = None
      BY <1>2 DEF ReadStoredUnit, At, SeriesFits, StageFits
    <2>2. pass' = [pass EXCEPT !.rebuild = mismatch, !.pc = IF mismatch THEN "probe" ELSE "anchor"]
      BY <1>2 DEF ReadStoredUnit
    <2>3. ~mismatch => series = NoRows \/ seriesUnit = pass.unit
      BY NoneAssumption DEF SeriesFits, SeriesSourced
    <2>4. mismatch \in BOOLEAN
      OBVIOUS
    <2> HIDE DEF mismatch
    <2>5. /\ pass'.rebuild = mismatch /\ pass'.unit = pass.unit /\ pass'.anchor = None
          /\ pass'.pc = IF mismatch THEN "probe" ELSE "anchor"
      BY <1>1, <2>1, <2>2 DEF Passes
    <2>6. StageFits'
      BY <2>5 DEF StageFits
    <2>7. MeetsSeries(pass')
      BY <2>1, <2>3, <2>4, <2>5 DEF MeetsSeries
    <2> QED
      BY <1>1, <2>1, <2>6, <2>7, StageKeepsFit DEF Fetching
  <1>3. CASE ReadAnchor
    <2> DEFINE a == Anchor(pass.now)
    <2>1. pass.pc = "anchor" /\ pass.anchor = None /\ ~pass.rebuild /\ pass.rebuild \in BOOLEAN
      BY <1>1, <1>3 DEF ReadAnchor, At, SeriesFits, StageFits, Passes
    <2>2. AnchorFits(a, pass.now)
      BY <1>1, AnchorIs DEF HistoryTyped, StoreTyped, Passes
    <2>3. pass' = IF a = None THEN [pass EXCEPT !.pc = "probe"]
                  ELSE [pass EXCEPT !.pc = "daily", !.anchor = a,
                                    !.from = Midnight(Day(a.start) - Margin)]
      BY <1>3 DEF ReadAnchor
    <2> HIDE DEF a
    <2>4. /\ pass'.rebuild = pass.rebuild /\ pass'.unit = pass.unit /\ pass'.anchor = a
          /\ pass'.now = pass.now /\ pass'.pc \in {"probe", "daily"}
          /\ pass'.pc = "probe" => a = None
      BY <1>1, <2>1, <2>3 DEF Passes
    <2>5. StageFits'
      BY <2>4 DEF StageFits
    <2>6. queue = <<>> => (entry = "removed" /\ series = NoRows) \/ MeetsSeries(pass)
      BY <1>1, <2>1 DEF SeriesFits, PassFits, Fetching
    <2>7. queue = <<>> => (entry = "removed" /\ series = NoRows) \/ MeetsSeries(pass')
      BY <2>1, <2>2, <2>4, <2>6 DEF MeetsSeries
    <2> QED
      BY <1>1, <2>1, <2>5, <2>7, StageKeepsFit DEF Fetching
  <1> QED
    BY <1>2, <1>3

LEMMA FetchesKeepFit ==
  ASSUME HistoryTyped, SeriesFits, NEW unit \in Units, Probe(unit) \/ FetchDaily(unit)
  PROVE  SeriesFits'
  <1>1. /\ UNCHANGED <<world, store, entry>> /\ pass # None /\ pass \in Passes
        /\ pass.pc \in {"probe", "daily"} /\ home' = home
    BY DEF Probe, FetchDaily, At, HistoryTyped, PassTyped, world
  <1>2. CASE pass' = None
    BY <1>1, <1>2, RestKeepsFit
  <1>3. CASE pass' # None
    <2>1. /\ pass'.rebuild = pass.rebuild /\ pass'.unit = pass.unit /\ pass'.anchor = pass.anchor
          /\ pass'.now = pass.now /\ pass'.pc \in {"daily", "hourly"}
      <3>1. CASE Probe(unit)
        <4> DEFINE start == ProbedStart(pass.now)
        <4>1. pass' = [pass EXCEPT !.pc = "daily", !.from = start, !.factor = unit]
          BY <1>3, <3>1 DEF Probe
        <4> HIDE DEF start
        <4> QED
          BY <1>1, <4>1 DEF Passes
      <3>2. CASE FetchDaily(unit)
        <4> DEFINE daily == DailySeries(pass.from, pass.now, unit)
        <4>1. pass' = [pass EXCEPT !.pc = "hourly", !.factor = unit, !.daily = daily]
          BY <3>2 DEF FetchDaily
        <4> HIDE DEF daily
        <4> QED
          BY <1>1, <4>1 DEF Passes
      <3> QED
        BY <3>1, <3>2
    <2>2. StageFits'
      BY <2>1 DEF StageFits
    <2>3. queue = <<>> => (entry = "removed" /\ series = NoRows) \/ MeetsSeries(pass)
      BY <1>1 DEF SeriesFits, PassFits, Fetching
    <2>4. MeetsSeries(pass) => MeetsSeries(pass')
      BY <1>1, <2>1 DEF MeetsSeries
    <2> QED
      BY <1>1, <2>2, <2>3, <2>4, StageKeepsFit DEF Fetching
  <1> QED
    BY <1>2, <1>3

\* The rows of a pass hold what the cloud's buckets showed.
LEMMA CollectedRowsSourced ==
  ASSUME HistoryTyped, At("hourly"), NEW unit \in Units, Accepted(unit)
  PROVE  LET hourly == Upserted(pass.hourly, HourlySeries(WindowStart(pass), pass.upto, unit))
         IN Sourced(CollectedRows(pass, hourly), pass.unit)
  <1> DEFINE hourly == Upserted(pass.hourly, HourlySeries(WindowStart(pass), pass.upto, unit))
             rows == CollectedRows(pass, hourly)
             R == CollectedReadings(pass, hourly)
  <1>1. /\ WorldOK /\ pass \in Passes /\ pass.factor = unit
        /\ HourlySampled(hourly, unit) /\ DailySampled(pass.daily, unit)
    BY WindowIs
  <1>2. pass.unit \in Units /\ pass.factor \in Units /\ pass.anchor \in Anchors \cup {None}
    BY <1>1 DEF Passes
  <1> HIDE DEF hourly
  <1>3. RowsCount(rows, R, DOMAIN R, pass.anchor)
    BY <1>1, <1>2, CollectedRowsCount
  <1>4. /\ \A s \in DOMAIN R : R[s] \in Readings
        /\ \A h \in DOMAIN hourly \cap DOMAIN R : From(R[h], h, pass.unit)
        /\ \A s \in DOMAIN R \ DOMAIN hourly : \E k \in Uploaded : From(R[s], k, pass.unit)
    <2>1. \E x : x = R
      OBVIOUS
    <2> QED
      BY <1>1, <1>2, CollectedReadingsAre
  <1> HIDE DEF rows, R
  <1>5. ASSUME NEW s \in DOMAIN rows PROVE \E k \in Read : RowFrom(rows[s], k, pass.unit)
    <2>1. s \in DOMAIN R /\ rows[s].state = R[s].value /\ rows[s].drawn = R[s].drawn
      BY <1>3 DEF RowsCount, RowsTyped, RowsRead
    <2>2. R[s] = [value |-> rows[s].state, drawn |-> rows[s].drawn]
      BY <1>4, <2>1 DEF Readings
    <2>3. PICK k : From(R[s], k, pass.unit)
      BY <1>4, <2>1
    <2>4. k \in Read
      BY <2>3 DEF From
    <2> QED
      BY <2>2, <2>3, <2>4 DEF RowFrom
  <1> QED
    BY <1>5 DEF Sourced, rows, hourly

\* What FetchHourly does, by its three ends.
LEMMA FetchHourlyIs ==
  ASSUME HistoryTyped, NEW unit \in Units, FetchHourly(unit)
  PROVE  LET start == WindowStart(pass)
             window == HourlySeries(start, pass.upto, unit)
             hourly == Upserted(pass.hourly, window)
             rows == CollectedRows(pass, hourly)
         IN /\ At("hourly") /\ Accepted(unit) /\ UNCHANGED <<world, series, seriesUnit, entry>>
            /\ \/ /\ window # NoRows /\ start > pass.from
                  /\ pass' = [pass EXCEPT !.hourly = hourly, !.upto = start] /\ UNCHANGED queue
               \/ pass' = None /\ UNCHANGED queue
               \/ /\ window = NoRows \/ ~(start > pass.from)
                  /\ rows # NoRows /\ rows \in TaskRows
                  /\ pass' = [pass EXCEPT !.pc = "wait", !.hourly = NoRows, !.daily = NoRows]
                  /\ queue' = queue \o ImportTasks(pass, rows)
                  /\ ImportTasks(pass, rows) \in Seq(Tasks)
                  /\ ImportTasks(pass, rows)
                       = IF pass.rebuild THEN <<Clear, Import(pass.unit, rows), Marker>>
                         ELSE <<Import(pass.unit, rows), Marker>>
                  /\ Import(pass.unit, rows) \in Tasks /\ Import(pass.unit, rows).kind = "import"
                  /\ Import(pass.unit, rows).unit = pass.unit /\ Import(pass.unit, rows).rows = rows
  <1> DEFINE start == WindowStart(pass)
             window == HourlySeries(start, pass.upto, unit)
             hourly == Upserted(pass.hourly, window)
             rows == CollectedRows(pass, hourly)
  <1>1. At("hourly") /\ Accepted(unit) /\ UNCHANGED <<world, series, seriesUnit, entry>>
    BY DEF FetchHourly
  <1>2. rows # NoRows => rows \in TaskRows
    BY <1>1, CollectedRowsTyped
  <1>3. pass.unit \in Units /\ pass.rebuild \in BOOLEAN
    BY <1>1 DEF At, HistoryTyped, PassTyped, Passes
  <1>4. \/ /\ window # NoRows /\ start > pass.from
           /\ pass' = [pass EXCEPT !.hourly = hourly, !.upto = start] /\ UNCHANGED queue
        \/ pass' = None /\ UNCHANGED queue
        \/ /\ window = NoRows \/ ~(start > pass.from)
           /\ rows # NoRows
           /\ pass' = [pass EXCEPT !.pc = "wait", !.hourly = NoRows, !.daily = NoRows]
           /\ queue' = queue \o ImportTasks(pass, rows)
    BY DEF FetchHourly
  <1> HIDE DEF start, window, hourly, rows
  <1>5. Import(pass.unit, rows).unit = pass.unit /\ Import(pass.unit, rows).rows = rows
    BY DEF Import
  <1>6. rows \in TaskRows =>
          /\ ImportTasks(pass, rows) \in Seq(Tasks)
          /\ ImportTasks(pass, rows)
               = IF pass.rebuild THEN <<Clear, Import(pass.unit, rows), Marker>>
                 ELSE <<Import(pass.unit, rows), Marker>>
          /\ Import(pass.unit, rows) \in Tasks /\ Import(pass.unit, rows).kind = "import"
    BY <1>3, ImportTasksAre
  <1>7. /\ At("hourly") /\ Accepted(unit) /\ UNCHANGED <<world, series, seriesUnit, entry>>
        /\ \/ /\ window # NoRows /\ start > pass.from
              /\ pass' = [pass EXCEPT !.hourly = hourly, !.upto = start] /\ UNCHANGED queue
           \/ pass' = None /\ UNCHANGED queue
           \/ /\ window = NoRows \/ ~(start > pass.from)
              /\ rows # NoRows /\ rows \in TaskRows
              /\ pass' = [pass EXCEPT !.pc = "wait", !.hourly = NoRows, !.daily = NoRows]
              /\ queue' = queue \o ImportTasks(pass, rows)
              /\ ImportTasks(pass, rows) \in Seq(Tasks)
              /\ ImportTasks(pass, rows)
                   = IF pass.rebuild THEN <<Clear, Import(pass.unit, rows), Marker>>
                     ELSE <<Import(pass.unit, rows), Marker>>
              /\ Import(pass.unit, rows) \in Tasks /\ Import(pass.unit, rows).kind = "import"
              /\ Import(pass.unit, rows).unit = pass.unit /\ Import(pass.unit, rows).rows = rows
    BY <1>1, <1>2, <1>4, <1>5, <1>6
  <1> QED
    BY <1>7 DEF start, window, hourly, rows

\* An import comes to wait behind nothing but a clear.
LEMMA QueuedImport ==
  ASSUME HistoryTyped, SeriesFits, Fetching, pass.rebuild \in BOOLEAN,
         NEW t \in Tasks, t.kind = "import", NEW tasks \in Seq(Tasks),
         tasks = IF pass.rebuild THEN <<Clear, t, Marker>> ELSE <<t, Marker>>,
         queue' = queue \o tasks
  PROVE  \E i \in DOMAIN queue' :
           /\ queue'[i] = t
           /\ \A j \in DOMAIN queue' : queue'[j].kind = "import" => j = i
           /\ (pass.rebuild \/ queue # <<>>) => \E j \in DOMAIN queue' : j < i /\ queue'[j] = Clear
  <1>1. queue = <<>> \/ (entry = "removed" /\ queue = <<Clear>>)
    BY DEF SeriesFits, RecorderIdle
  <1> DEFINE n == Len(queue)
             more == queue \o tasks
  <1>2. /\ n \in Nat /\ DOMAIN queue = 1..n
        /\ \A j \in DOMAIN queue : j \in DOMAIN queue' /\ queue'[j] = queue[j]
        /\ \A j \in DOMAIN tasks : n + j \in DOMAIN queue' /\ queue'[n + j] = tasks[j]
        /\ \A j \in DOMAIN queue' : j \in DOMAIN queue \/ \E k \in DOMAIN tasks : j = n + k
    <2>1. queue \in Seq(Tasks)
      BY DEF HistoryTyped, StoreTyped
    <2>2. /\ n \in Nat /\ DOMAIN queue = 1..n
          /\ \A j \in DOMAIN queue : j \in DOMAIN more /\ more[j] = queue[j]
          /\ \A j \in DOMAIN tasks : n + j \in DOMAIN more /\ more[n + j] = tasks[j]
          /\ \A j \in DOMAIN more : j \in DOMAIN queue \/ \E k \in DOMAIN tasks : j = n + k
      BY ONLY <2>1, tasks \in Seq(Tasks), QueuedBehind
    <2>3. queue' = more
      OBVIOUS
    <2> HIDE DEF more, n
    <2> QED
      BY <2>2, <2>3
  <1> HIDE DEF n, more
  <1>3. Clear.kind # "import" /\ Marker.kind # "import"
    BY DEF Clear, Marker
  <1>4. \A j \in DOMAIN queue : queue[j] = Clear /\ j = 1
    BY <1>1
  <1> DEFINE at == IF pass.rebuild THEN 2 ELSE 1
  <1>5. /\ at \in DOMAIN tasks /\ tasks[at] = t /\ at \in Nat /\ at >= 1
        /\ \A k \in DOMAIN tasks : k \in Nat /\ (tasks[k].kind = "import" => k = at)
        /\ pass.rebuild => at = 2 /\ 1 \in DOMAIN tasks /\ tasks[1] = Clear
    <2>1. CASE pass.rebuild
      <3>1. DOMAIN tasks = {1, 2, 3} /\ tasks[1] = Clear /\ tasks[2] = t /\ tasks[3] = Marker
        BY <2>1
      <3> QED
        BY <1>3, <2>1, <3>1
    <2>2. CASE ~pass.rebuild
      <3>1. DOMAIN tasks = {1, 2} /\ tasks[1] = t /\ tasks[2] = Marker
        BY <2>2
      <3> QED
        BY <1>3, <2>2, <3>1
    <2> QED
      BY <2>1, <2>2
  <1> HIDE DEF at
  <1>6. ASSUME NEW j \in DOMAIN queue', queue'[j].kind = "import"
        PROVE  j = n + at
    <2>1. j \notin DOMAIN queue
      BY <1>2, <1>3, <1>4, <1>6
    <2>2. PICK k \in DOMAIN tasks : j = n + k
      BY <1>2, <2>1
    <2> QED
      BY <1>2, <1>5, <1>6, <2>2
  <1>7. ASSUME pass.rebuild \/ queue # <<>>
        PROVE  \E j \in DOMAIN queue' : j < n + at /\ queue'[j] = Clear
    <2>1. CASE pass.rebuild
      <3>1. n + 1 \in DOMAIN queue' /\ queue'[n + 1] = Clear /\ n + 1 < n + at
        BY <1>2, <1>5, <2>1
      <3> QED
        BY <3>1
    <2>2. CASE queue = <<Clear>>
      <3>1. 1 \in DOMAIN queue /\ queue[1] = Clear
        BY <2>2
      <3>2. 1 \in DOMAIN queue' /\ queue'[1] = Clear /\ n \in Nat /\ n >= 1
        BY <1>2, <3>1
      <3>3. at \in Nat /\ at >= 1
        BY <1>5
      <3>4. 1 < n + at
        BY <3>2, <3>3
      <3> QED
        BY <3>2, <3>4
    <2> QED
      BY <1>1, <1>7, <2>1, <2>2
  <1>8. n + at \in DOMAIN queue' /\ queue'[n + at] = t
    BY <1>2, <1>5
  <1> QED
    BY <1>6, <1>7, <1>8

LEMMA FetchHourlyKeepsFit ==
  ASSUME HistoryTyped, SeriesFits, NEW unit \in Units, FetchHourly(unit)
  PROVE  SeriesFits'
  <1> DEFINE start == WindowStart(pass)
             window == HourlySeries(start, pass.upto, unit)
             hourly == Upserted(pass.hourly, window)
             rows == CollectedRows(pass, hourly)
             tasks == ImportTasks(pass, rows)
             t == Import(pass.unit, rows)
  <1>1. /\ At("hourly") /\ Accepted(unit) /\ UNCHANGED <<world, series, seriesUnit, entry>>
        /\ \/ pass' = [pass EXCEPT !.hourly = hourly, !.upto = start] /\ UNCHANGED queue
           \/ pass' = None /\ UNCHANGED queue
           \/ /\ rows # NoRows /\ rows \in TaskRows
              /\ pass' = [pass EXCEPT !.pc = "wait", !.hourly = NoRows, !.daily = NoRows]
              /\ queue' = queue \o tasks /\ tasks \in Seq(Tasks)
              /\ tasks = IF pass.rebuild THEN <<Clear, t, Marker>> ELSE <<t, Marker>>
              /\ t \in Tasks /\ t.kind = "import" /\ t.unit = pass.unit /\ t.rows = rows
    BY FetchHourlyIs
  <1>2. /\ pass # None /\ pass \in Passes /\ pass.pc = "hourly" /\ home' = home
        /\ pass.rebuild \in BOOLEAN
    BY <1>1 DEF At, HistoryTyped, PassTyped, world, Passes
  <1>3. Sourced(rows, pass.unit)
    BY <1>1, CollectedRowsSourced
  <1> HIDE DEF start, window, hourly, rows, tasks, t
  <1>4. CASE pass' = [pass EXCEPT !.hourly = hourly, !.upto = start] /\ UNCHANGED queue
    <2>1. /\ pass'.rebuild = pass.rebuild /\ pass'.unit = pass.unit /\ pass'.anchor = pass.anchor
          /\ pass'.now = pass.now /\ pass'.pc = "hourly"
      BY <1>2, <1>4 DEF Passes
    <2>2. StageFits'
      BY <2>1 DEF StageFits
    <2>3. queue = <<>> => (entry = "removed" /\ series = NoRows) \/ MeetsSeries(pass)
      BY <1>2 DEF SeriesFits, PassFits, Fetching
    <2>4. MeetsSeries(pass) => MeetsSeries(pass')
      BY <1>2, <2>1 DEF MeetsSeries
    <2>5. Fetching /\ UNCHANGED <<world, store, entry>>
      BY <1>1, <1>2, <1>4 DEF Fetching, store
    <2> QED
      BY <2>2, <2>3, <2>4, <2>5, StageKeepsFit
  <1>5. CASE pass' = None /\ UNCHANGED queue
    BY <1>1, <1>2, <1>5, RestKeepsFit DEF store
  <1>6. CASE /\ rows # NoRows /\ rows \in TaskRows
             /\ pass' = [pass EXCEPT !.pc = "wait", !.hourly = NoRows, !.daily = NoRows]
             /\ queue' = queue \o tasks /\ tasks \in Seq(Tasks)
             /\ tasks = IF pass.rebuild THEN <<Clear, t, Marker>> ELSE <<t, Marker>>
             /\ t \in Tasks /\ t.kind = "import" /\ t.unit = pass.unit /\ t.rows = rows
    <2>1. pass'.pc = "wait" /\ pass'.anchor = pass.anchor /\ pass'.rebuild = pass.rebuild
      BY <1>2, <1>6 DEF Passes
    <2>2. (RecorderIdle /\ StageFits /\ PassFits)'
      BY <2>1 DEF RecorderIdle, StageFits, PassFits, Fetching
    <2>3. SeriesSourced'
      BY <1>1, <1>2 DEF SeriesFits, SeriesSourced, Sourced, RowFrom, From, Read
    <2>4. PICK i \in DOMAIN queue' :
            /\ queue'[i] = t
            /\ \A j \in DOMAIN queue' : queue'[j].kind = "import" => j = i
            /\ (pass.rebuild \/ queue # <<>>) => \E j \in DOMAIN queue' : j < i /\ queue'[j] = Clear
      <3>1. Fetching
        BY <1>2 DEF Fetching
      <3> QED
        BY <1>2, <1>6, <3>1, QueuedImport
    <2>5. \/ \E j \in DOMAIN queue' : j < i /\ queue'[j] = Clear
          \/ series = NoRows \/ seriesUnit = pass.unit
      <3>1. CASE ~pass.rebuild /\ queue = <<>>
        BY <1>2, <3>1 DEF SeriesFits, PassFits, MeetsSeries, Fetching
      <3> QED
        BY <2>4, <3>1
    <2>6. ImportsFit'
      <3> SUFFICES ASSUME NEW j \in DOMAIN queue', queue'[j].kind = "import"
                   PROVE  /\ \A k \in DOMAIN queue' : queue'[k].kind = "import" => j = k
                          /\ (Sourced(queue[j].rows, queue[j].unit))'
                          /\ \/ \E k \in DOMAIN queue' : k < j /\ queue'[k] = Clear
                             \/ series' = NoRows \/ seriesUnit' = queue'[j].unit
        BY DEF ImportsFit
      <3>1. j = i /\ queue'[j] = t
        BY <2>4
      <3>2. queue'[j].rows = rows /\ queue'[j].unit = pass.unit
        BY <1>6, <3>1
      <3>3. \A s \in DOMAIN rows : \E k \in Read' : \E r \in Shown(home', k) :
              [value |-> rows[s].state, drawn |-> rows[s].drawn] = InUnit(r, pass.unit)
        BY <1>2, <1>3 DEF Sourced, RowFrom, From, Read
      <3>4. (Sourced(queue[j].rows, queue[j].unit))'
        BY <3>2, <3>3 DEF Sourced, RowFrom, From, Read
      <3> QED
        BY <1>1, <2>4, <2>5, <3>1, <3>2, <3>4
    <2> QED
      BY <2>2, <2>3, <2>6 DEF SeriesFits
  <1> QED
    BY <1>1, <1>4, <1>5, <1>6

LEMMA SourcedUpserted ==
  ASSUME NEW new, NEW old, NEW unit, NEW slots, RowsTyped(new, slots), RowsTyped(old, slots),
         Sourced(new, unit), Sourced(old, unit)
  PROVE  Sourced(Upserted(new, old), unit)
  <1> DEFINE all == Upserted(new, old)
  <1>1. /\ DOMAIN all = DOMAIN new \cup DOMAIN old
        /\ \A s \in DOMAIN new : all[s] = new[s]
        /\ \A s \in DOMAIN old \ DOMAIN new : all[s] = old[s]
    BY UpsertedIs
  <1> HIDE DEF all
  <1>2. Sourced(all, unit)
    BY <1>1 DEF Sourced
  <1> QED
    BY <1>2 DEF all

LEMMA RecorderKeepsFit ==
  ASSUME HistoryTyped, SeriesFits, RecorderRuns
  PROVE  SeriesFits'
  <1>1. /\ queue \in Seq(Tasks) /\ queue # <<>> /\ queue' = Tail(queue)
        /\ queue[1] \in Tasks /\ 1 \in DOMAIN queue
        /\ \A i \in DOMAIN queue' : i \in Nat \ {0} /\ i + 1 \in DOMAIN queue /\ queue'[i] = queue[i + 1]
        /\ \A i \in DOMAIN queue : i = 1 \/ i - 1 \in DOMAIN queue'
        /\ home' = home /\ entry' = entry
    BY RecorderStep DEF world
  <1>2. \/ queue[1] = Clear /\ series' = NoRows /\ pass' = pass
        \/ /\ queue[1].kind = "import" /\ queue[1].unit \in Units /\ queue[1].rows \in TaskRows
           /\ series' = Upserted(queue[1].rows, series) /\ seriesUnit' = queue[1].unit
           /\ pass' = pass
        \/ /\ queue[1] = Marker /\ pass' = [pass EXCEPT !.pc = "drained"]
           /\ UNCHANGED <<series, seriesUnit>>
        \/ queue[1] = Orphan /\ UNCHANGED <<series, seriesUnit, pass>>
    BY RecorderTask
  <1>3. /\ Clear.kind = "clear" /\ Marker.kind = "sync" /\ Orphan.kind = "orphan"
        /\ Clear # Marker /\ Clear # Orphan
    BY DEF Clear, Marker, Orphan
  <1>4. pass' = pass \/ (pass # None /\ pass'.pc = "drained")
    <2>1. queue[1] = Marker => pass # None /\ pass \in Passes
      BY <1>1 DEF HistoryTyped, MarkersAwaited, PassTyped, At
    <2> QED
      BY <1>2, <2>1 DEF Passes
  <1>5. Fetching' => queue = <<Clear>> /\ entry = "removed" /\ queue' = <<>> /\ series' = NoRows
    <2>1. SUFFICES ASSUME Fetching'
                   PROVE  queue = <<Clear>> /\ entry = "removed" /\ queue' = <<>> /\ series' = NoRows
      OBVIOUS
    <2>2. pass' = pass /\ Fetching
      BY <1>4, <2>1 DEF Fetching
    <2>3. queue = <<Clear>> /\ entry = "removed"
      BY <1>1, <2>2 DEF SeriesFits, RecorderIdle
    <2>4. queue' = <<>> /\ queue[1] = Clear
      BY <1>1, <2>3
    <2> QED
      BY <1>2, <1>3, <2>3, <2>4
  <1>6. (RecorderIdle /\ PassFits)'
    BY <1>1, <1>5 DEF RecorderIdle, PassFits
  <1>7. StageFits'
    BY <1>4 DEF SeriesFits, StageFits
  <1>8. SeriesSourced'
    <2>1. CASE series' = NoRows
      BY <2>1 DEF SeriesSourced
    <2>2. CASE UNCHANGED <<series, seriesUnit>>
      BY <1>1, <2>2 DEF SeriesFits, SeriesSourced, Sourced, RowFrom, From, Read
    <2>3. CASE /\ queue[1].kind = "import" /\ queue[1].unit \in Units /\ queue[1].rows \in TaskRows
               /\ series' = Upserted(queue[1].rows, series) /\ seriesUnit' = queue[1].unit
      <3> DEFINE new == queue[1].rows
                 unit == queue[1].unit
      <3>1. Sourced(new, unit) /\ (series = NoRows \/ seriesUnit = unit)
        <4>1. \A j \in DOMAIN queue : ~(j < 1)
          BY <1>1
        <4> QED
          BY <1>1, <2>3, <4>1 DEF SeriesFits, ImportsFit
      <3>2. Sourced(series, unit)
        BY <3>1 DEF SeriesFits, SeriesSourced, Sourced, NoRows
      <3>3. RowsTyped(new, Hours) /\ RowsTyped(series, Hours)
        BY <2>3, TaskRowsAre DEF HistoryTyped, StoreTyped
      <3> HIDE DEF new, unit
      <3>4. Sourced(Upserted(new, series), unit)
        BY <3>1, <3>2, <3>3, SourcedUpserted
      <3>5. series' = Upserted(new, series) /\ seriesUnit' = unit /\ unit \in Units
        BY <2>3 DEF new, unit
      <3>6. Sourced(series', unit)
        BY <3>4, <3>5
      <3>7. (Sourced(series, seriesUnit))'
        BY <1>1, <3>5, <3>6 DEF Sourced, RowFrom, From, Read
      <3> QED
        BY <3>5, <3>7 DEF SeriesSourced
    <2> QED
      BY <1>2, <2>1, <2>2, <2>3
  <1>9. ImportsFit'
    <2> SUFFICES ASSUME NEW i \in DOMAIN queue', queue'[i].kind = "import"
                 PROVE  /\ \A j \in DOMAIN queue' : queue'[j].kind = "import" => i = j
                        /\ (Sourced(queue[i].rows, queue[i].unit))'
                        /\ \/ \E j \in DOMAIN queue' : j < i /\ queue'[j] = Clear
                           \/ series' = NoRows \/ seriesUnit' = queue'[i].unit
      BY DEF ImportsFit
    <2>1. i \in Nat \ {0} /\ i + 1 \in DOMAIN queue /\ queue'[i] = queue[i + 1]
      BY <1>1
    <2>2. /\ \A j \in DOMAIN queue : queue[j].kind = "import" => i + 1 = j
          /\ Sourced(queue[i + 1].rows, queue[i + 1].unit)
          /\ \/ \E j \in DOMAIN queue : j < i + 1 /\ queue[j] = Clear
             \/ series = NoRows \/ seriesUnit = queue[i + 1].unit
      BY <2>1 DEF SeriesFits, ImportsFit
    <2>3. queue[1].kind # "import"
      <3>1. i + 1 # 1
        BY <2>1
      <3> QED
        BY <1>1, <2>2, <3>1
    <2>4. ASSUME NEW j \in DOMAIN queue', queue'[j].kind = "import" PROVE i = j
      <3>1. j \in Nat /\ j + 1 \in DOMAIN queue /\ queue[j + 1].kind = "import"
        BY <1>1, <2>4
      <3>2. i + 1 = j + 1
        BY <2>2, <3>1
      <3> QED
        BY <2>1, <3>1, <3>2
    <2>5. (Sourced(queue[i].rows, queue[i].unit))'
      <3>1. Sourced(queue'[i].rows, queue'[i].unit)
        BY <2>1, <2>2
      <3> QED
        BY <1>1, <3>1 DEF Sourced, RowFrom, From, Read
    <2>6. \/ \E j \in DOMAIN queue' : j < i /\ queue'[j] = Clear
          \/ series' = NoRows \/ seriesUnit' = queue'[i].unit
      <3>1. CASE queue[1] = Clear
        BY <1>2, <1>3, <3>1
      <3>2. CASE queue[1] # Clear
        <4>1. UNCHANGED <<series, seriesUnit>>
          BY <1>2, <2>3, <3>2
        <4>2. ASSUME NEW j \in DOMAIN queue, j < i + 1, queue[j] = Clear
              PROVE  \E k \in DOMAIN queue' : k < i /\ queue'[k] = Clear
          <5>1. j # 1 /\ j - 1 \in DOMAIN queue'
            BY <1>1, <3>2, <4>2
          <5>2. j - 1 \in Nat /\ queue'[j - 1] = queue[j - 1 + 1]
            BY <1>1, <5>1
          <5>3. j \in Nat
            BY <1>1
          <5>4. j - 1 + 1 = j /\ j - 1 < i
            BY <2>1, <4>2, <5>3
          <5>5. queue'[j - 1] = Clear
            BY <4>2, <5>2, <5>4
          <5> QED
            BY <5>1, <5>4, <5>5
        <4> QED
          BY <2>1, <2>2, <4>1, <4>2
      <3> QED
        BY <3>1, <3>2
    <2> QED
      BY <2>4, <2>5, <2>6
  <1> QED
    BY <1>6, <1>7, <1>8, <1>9 DEF SeriesFits

LEMMA SourcesStay ==
  ASSUME SeriesSourced, UNCHANGED <<series, seriesUnit>>, home' = home
  PROVE  SeriesSourced'
  BY DEF SeriesSourced, Sourced, RowFrom, From, Read

\* The imports and clears of the queue stay in their places.
LEMMA ImportsStay ==
  ASSUME ImportsFit, UNCHANGED <<series, seriesUnit>>, home' = home,
         \A i \in DOMAIN queue' : queue'[i].kind = "import" => i \in DOMAIN queue /\ queue'[i] = queue[i],
         \A i \in DOMAIN queue : queue[i] = Clear => i \in DOMAIN queue' /\ queue'[i] = Clear
  PROVE  ImportsFit'
  <1> SUFFICES ASSUME NEW i \in DOMAIN queue', queue'[i].kind = "import"
               PROVE  /\ \A j \in DOMAIN queue' : queue'[j].kind = "import" => i = j
                      /\ (Sourced(queue[i].rows, queue[i].unit))'
                      /\ \/ \E j \in DOMAIN queue' : j < i /\ queue'[j] = Clear
                         \/ series' = NoRows \/ seriesUnit' = queue'[i].unit
    BY DEF ImportsFit
  <1>1. i \in DOMAIN queue /\ queue'[i] = queue[i]
    OBVIOUS
  <1>2. /\ \A j \in DOMAIN queue : queue[j].kind = "import" => i = j
        /\ Sourced(queue[i].rows, queue[i].unit)
        /\ \/ \E j \in DOMAIN queue : j < i /\ queue[j] = Clear
           \/ series = NoRows \/ seriesUnit = queue[i].unit
    BY <1>1 DEF ImportsFit
  <1>3. (Sourced(queue[i].rows, queue[i].unit))'
    <2>1. Sourced(queue'[i].rows, queue'[i].unit)
      BY <1>1, <1>2
    <2> QED
      BY <2>1 DEF Sourced, RowFrom, From, Read
  <1> QED
    BY <1>1, <1>2, <1>3

LEMMA AbandonKeepsFit ==
  ASSUME HistoryTyped, SeriesFits, UNCHANGED <<world, series, seriesUnit>>, pass' = None,
         queue' = Abandoned(queue)
  PROVE  SeriesFits'
  <1>1. /\ DOMAIN queue' = DOMAIN queue
        /\ \A i \in DOMAIN queue : /\ queue[i] # Marker => queue'[i] = queue[i]
                                   /\ queue[i] = Marker => queue'[i] = Orphan
    BY AbandonedIs DEF HistoryTyped, StoreTyped
  <1>2. Orphan.kind # "import" /\ Clear # Marker
    BY DEF Orphan, Clear, Marker
  <1>3. ImportsFit'
    BY <1>1, <1>2, ImportsStay DEF SeriesFits, world
  <1>4. SeriesSourced'
    BY SourcesStay DEF SeriesFits, world
  <1>5. (RecorderIdle /\ StageFits /\ PassFits)'
    BY DEF RecorderIdle, StageFits, PassFits, Fetching
  <1> QED
    BY <1>3, <1>4, <1>5 DEF SeriesFits

LEMMA PassEndsKeepFit ==
  ASSUME HistoryTyped, SeriesFits, PassDone \/ PassFails \/ PassNeedsLogin
  PROVE  SeriesFits'
  <1>1. CASE PassFails
    BY <1>1, AbandonKeepsFit DEF PassFails
  <1>2. CASE PassDone \/ PassNeedsLogin
    <2>1. UNCHANGED <<world, store>> /\ pass' = None
      BY <1>2 DEF PassDone, PassNeedsLogin
    <2>2. ImportsFit'
      BY <2>1, ImportsStay DEF SeriesFits, world, store
    <2>3. SeriesSourced'
      BY <2>1, SourcesStay DEF SeriesFits, world, store
    <2>4. (RecorderIdle /\ StageFits /\ PassFits)'
      BY <2>1 DEF RecorderIdle, StageFits, PassFits, Fetching
    <2> QED
      BY <2>2, <2>3, <2>4 DEF SeriesFits
  <1> QED
    BY <1>1, <1>2

LEMMA EntryKeepsFit ==
  ASSUME HistoryTyped, SeriesFits, Reload \/ RemoveEntry \/ Crash
  PROVE  SeriesFits'
  <1>1. CASE Reload
    <2>1. CASE pass' = None /\ queue' = Abandoned(queue)
      BY <1>1, <2>1, AbandonKeepsFit DEF Reload
    <2>2. CASE UNCHANGED <<pass, queue>>
      <3>1. UNCHANGED <<world, series, seriesUnit>> /\ entry # "removed"
        BY <1>1 DEF Reload
      <3>2. ImportsFit'
        BY <2>2, <3>1, ImportsStay DEF SeriesFits, world
      <3>3. SeriesSourced'
        BY <3>1, SourcesStay DEF SeriesFits, world
      <3>4. (RecorderIdle /\ StageFits /\ PassFits)'
        BY <2>2, <3>1
           DEF SeriesFits, RecorderIdle, StageFits, PassFits, MeetsSeries, AnchorFits, Fetching
      <3> QED
        BY <3>2, <3>3, <3>4 DEF SeriesFits
    <2> QED
      BY <1>1, <2>1, <2>2 DEF Reload, EndBoundPass
  <1>2. CASE Crash
    <2>1. UNCHANGED <<world, series, seriesUnit>> /\ pass' = None /\ queue' = <<>>
      BY <1>2 DEF Crash
    <2>2. ImportsFit'
      BY <2>1 DEF ImportsFit
    <2>3. SeriesSourced'
      BY <2>1, SourcesStay DEF SeriesFits, world
    <2>4. (RecorderIdle /\ StageFits /\ PassFits)'
      BY <2>1 DEF RecorderIdle, StageFits, PassFits, Fetching
    <2> QED
      BY <2>2, <2>3, <2>4 DEF SeriesFits
  <1>3. CASE RemoveEntry
    <2>1. UNCHANGED <<world, series, seriesUnit>> /\ entry' = "removed" /\ entry # "removed"
      BY <1>3 DEF RemoveEntry
    <2>2. \E q \in Seq(Tasks) :
            /\ queue' = Append(q, Clear) /\ DOMAIN q = DOMAIN queue
            /\ \A i \in DOMAIN queue : q[i] = queue[i] \/ (queue[i] = Marker /\ q[i] = Orphan)
            /\ \/ pass' = None
               \/ pass' = pass /\ q = queue
      <3>1. /\ Abandoned(queue) \in Seq(Tasks) /\ DOMAIN Abandoned(queue) = DOMAIN queue
            /\ \A i \in DOMAIN queue : /\ queue[i] # Marker => Abandoned(queue)[i] = queue[i]
                                       /\ queue[i] = Marker => Abandoned(queue)[i] = Orphan
        BY AbandonedIs DEF HistoryTyped, StoreTyped
      <3>2. queue \in Seq(Tasks)
        BY DEF HistoryTyped, StoreTyped
      <3> QED
        BY <1>3, <3>1, <3>2 DEF RemoveEntry
    <2>3. PICK q \in Seq(Tasks) :
            /\ queue' = Append(q, Clear) /\ DOMAIN q = DOMAIN queue
            /\ \A i \in DOMAIN queue : q[i] = queue[i] \/ (queue[i] = Marker /\ q[i] = Orphan)
            /\ \/ pass' = None
               \/ pass' = pass /\ q = queue
      BY <2>2
    <2>4. /\ Clear \in Tasks /\ Clear # Marker /\ Clear.kind # "import" /\ Orphan.kind # "import"
          /\ Marker.kind # "import"
      BY DEF Tasks, Clear, Marker, Orphan
    <2>5. /\ queue' # <<>>
          /\ \A i \in DOMAIN queue' : (i \in DOMAIN q /\ queue'[i] = q[i]) \/ queue'[i] = Clear
          /\ \A i \in DOMAIN q : i \in DOMAIN queue' /\ queue'[i] = q[i]
      BY <2>3, <2>4
    <2>6. ImportsFit'
      BY <2>1, <2>3, <2>4, <2>5, ImportsStay DEF SeriesFits, world
    <2>7. SeriesSourced'
      BY <2>1, SourcesStay DEF SeriesFits, world
    <2>8. RecorderIdle'
      <3>1. ASSUME Fetching' PROVE queue' = <<Clear>>
        <4>1. pass' = pass /\ q = queue /\ Fetching
          BY <2>3, <3>1 DEF Fetching
        <4>2. queue = <<>>
          BY <2>1, <4>1 DEF SeriesFits, RecorderIdle
        <4> QED
          BY <2>3, <4>1, <4>2
      <3> QED
        BY <2>1, <3>1 DEF RecorderIdle
    <2>9. (StageFits /\ PassFits)'
      BY <2>3, <2>5 DEF SeriesFits, StageFits, PassFits
    <2> QED
      BY <2>6, <2>7, <2>8, <2>9 DEF SeriesFits
  <1> QED
    BY <1>1, <1>2, <1>3

LEMMA SeriesFitsNext ==
  ASSUME HistoryTyped, SeriesFits, QueueBound =< 1, [Next]_vars
  PROVE  SeriesFits'
  <1>1. ASSUME NEW bound \in BOOLEAN, StartPass(bound) PROVE SeriesFits'
    BY <1>1, StartPassKeepsFit
  <1>2. CASE ReadStoredUnit \/ ReadAnchor
    BY <1>2, PassReadsKeepFit
  <1>3. ASSUME NEW unit \in Units, Probe(unit) \/ FetchDaily(unit) \/ FetchHourly(unit)
        PROVE  SeriesFits'
    BY <1>3, FetchesKeepFit, FetchHourlyKeepsFit
  <1>4. CASE PassDone \/ PassFails \/ PassNeedsLogin
    BY <1>4, PassEndsKeepFit
  <1>5. CASE RecorderRuns
    BY <1>5, RecorderKeepsFit
  <1>6. CASE Reload \/ RemoveEntry \/ Crash
    BY <1>6, EntryKeepsFit
  <1>7. CASE World
    BY <1>7, WorldStep, RestKeepsFit DEF HistoryTyped
  <1>8. CASE UNCHANGED vars
    BY <1>8, RestKeepsFit DEF vars, world
  <1> QED
    BY <1>1, <1>2, <1>3, <1>4, <1>5, <1>6, <1>7, <1>8 DEF Next, Request

-----------------------------------------------------------------------------
(* The newest water of the overlap reaches the series.                     *)

\* A pass has the hour of the newest water it was told of still before it, or
\* among the hours it fetched.
HeldKnown ==
  Fetching =>
    /\ pass.pc # "hourly" => pass.upto = pass.now
    /\ \/ pass.held = 0
       \/ \E h \in Uploaded :
            /\ h > pass.now - Overlap * DayLen /\ h =< pass.now /\ pass.held =< Reading(h).drawn
            /\ pass.pc \in {"daily", "hourly"} => pass.from =< h
            /\ pass.pc = "hourly" =>
                 \/ pass.upto = pass.now /\ pass.hourly = NoRows
                 \/ h \in DOMAIN pass.hourly /\ pass.held =< pass.hourly[h].drawn

HeldIn(rows, held) == \E s \in DOMAIN rows : rows[s].drawn >= held

DrawnTyped == \A h \in Uploaded : Reading(h).drawn \in Nat

LEMMA ReadingsDrawn == WorldOK => DrawnTyped
  BY ReadingShown DEF DrawnTyped, Readings

LEMMA WorldKeepsHeld ==
  ASSUME HistoryTyped, HeldKnown, World
  PROVE  HeldKnown'
  <1>1. pass' = pass /\ \A h \in Uploaded : h \in Uploaded' /\ Reading(h).drawn =< (Reading(h)').drawn
    BY WorldStep DEF HistoryTyped
  <1>2. \A h \in Uploaded : Reading(h).drawn \in Nat
    BY ReadingsDrawn DEF HistoryTyped, DrawnTyped
  <1>3. WorldOK'
    BY WorldStep DEF HistoryTyped
  <1>4. \A h \in Uploaded' : (Reading(h)').drawn \in Nat
    <2>1. DrawnTyped'
      BY <1>3, ReadingsDrawn, PTL
    <2> QED
      BY <2>1 DEF DrawnTyped
  <1>5. Fetching => pass.held \in Nat
    BY DEF Fetching, HistoryTyped, PassTyped, Passes
  <1> QED
    BY <1>1, <1>2, <1>4, <1>5 DEF HeldKnown, Fetching

LEMMA StartPassKeepsHeld ==
  ASSUME HistoryTyped, NEW bound \in BOOLEAN, StartPass(bound)
  PROVE  HeldKnown'
  <1>1. UNCHANGED <<world, store, entry>> /\ pass' = NewPass(bound) /\ WorldOK
    BY DEF StartPass, HistoryTyped
  <1>2. pass'.pc = "unit" /\ pass'.now = clock /\ pass'.upto = clock /\ pass'.held = Held
    BY <1>1 DEF NewPass
  <1>3. Held \in Nat /\ (Held = 0 \/ \E h \in Uploaded : /\ h > clock - Overlap * DayLen
                                                       /\ Held = Reading(h).drawn)
    BY <1>1, HeldIs
  <1>4. \A h \in Uploaded : h =< clock
    BY <1>1, ReadingShown
  <1>5. /\ Uploaded' = Uploaded /\ home' = home /\ cloud' = cloud
        /\ \A h \in Uploaded : Reading(h)' = Reading(h)
    BY <1>1 DEF world, Uploaded, Reading
  <1>6. Held = 0 \/ \E h \in Uploaded' : /\ h > pass'.now - Overlap * DayLen /\ h =< pass'.now
                                         /\ pass'.held =< (Reading(h)').drawn
    BY <1>2, <1>3, <1>4, <1>5
  <1> QED
    BY <1>2, <1>6 DEF HeldKnown

LEMMA RestKeepsHeld ==
  ASSUME HeldKnown, UNCHANGED world, pass' = pass \/ ~Fetching'
  PROVE  HeldKnown'
  BY DEF HeldKnown, world, Fetching, Uploaded, Reading

\* A resumed pass begins before the overlap.
LEMMA AnchorReaches ==
  ASSUME NEW a \in Anchors, NEW now \in Int, a.start =< now - Overlap * DayLen,
         NEW s \in Int, s > now - Overlap * DayLen
  PROVE  Midnight(Day(a.start) - Margin) =< s
  <1>1. a.start \in Int /\ Overlap * DayLen \in Int
    BY HoursAre, OverlapReaches DEF Anchors
  <1>2. /\ Day(a.start) \in Int /\ Margin \in Nat /\ Midnight(Day(a.start)) =< a.start
        /\ Midnight(Day(a.start)) \in Int
    BY <1>1, DayOf, MidnightsInOrder, Windows
  <1>3. Day(a.start) - Margin \in Int /\ Day(a.start) - Margin =< Day(a.start)
    BY <1>2
  <1>4. /\ Midnight(Day(a.start) - Margin) \in Int
        /\ Midnight(Day(a.start) - Margin) =< Midnight(Day(a.start))
    BY <1>2, <1>3, MidnightsInOrder
  <1> QED
    BY <1>1, <1>2, <1>4

\* A stage that fetches no hour.
LEMMA StageKeepsHeld ==
  ASSUME HeldKnown, Fetching, pass.pc # "hourly", UNCHANGED world,
         pass'.now = pass.now, pass'.upto = pass.upto, pass'.held = pass.held,
         pass'.pc = "hourly" => pass'.hourly = NoRows,
         \A h \in Uploaded : (/\ h > pass.now - Overlap * DayLen
                              /\ pass.pc \in {"daily", "hourly"} => pass.from =< h
                              /\ pass'.pc \in {"daily", "hourly"}) => pass'.from =< h
  PROVE  HeldKnown'
  <1>1. Uploaded' = Uploaded /\ \A h \in Uploaded : Reading(h)' = Reading(h)
    BY DEF world, Uploaded, Reading
  <1>2. /\ pass.upto = pass.now
        /\ \/ pass.held = 0
           \/ \E h \in Uploaded :
                /\ h > pass.now - Overlap * DayLen /\ h =< pass.now /\ pass.held =< Reading(h).drawn
                /\ pass.pc \in {"daily", "hourly"} => pass.from =< h
    BY DEF HeldKnown
  <1> QED
    BY <1>1, <1>2 DEF HeldKnown

LEMMA StagesKeepHeld ==
  ASSUME HistoryTyped, HeldKnown,
         ReadStoredUnit \/ ReadAnchor \/ \E unit \in Units : Probe(unit) \/ FetchDaily(unit)
  PROVE  HeldKnown'
  <1>1. /\ UNCHANGED world /\ pass # None /\ pass \in Passes
        /\ pass.pc \in {"unit", "anchor", "probe", "daily"}
        /\ pass.hourly = NoRows /\ WorldOK
    BY DEF ReadStoredUnit, ReadAnchor, Probe, FetchDaily, At, HistoryTyped, PassTyped, PassSampled
  <1>2. Fetching /\ pass.pc # "hourly"
    BY <1>1 DEF Fetching
  <1>3. CASE ReadStoredUnit
    <2>1. /\ pass'.now = pass.now /\ pass'.upto = pass.upto /\ pass'.held = pass.held
          /\ pass'.pc \in {"anchor", "probe"}
      BY <1>1, <1>3 DEF ReadStoredUnit, Passes
    <2> QED
      BY <1>1, <1>2, <2>1, StageKeepsHeld
  <1>4. CASE ReadAnchor
    <2> DEFINE a == Anchor(pass.now)
    <2>1. AnchorFits(a, pass.now) /\ a \in Anchors \cup {None}
      BY <1>1, AnchorIs DEF HistoryTyped, StoreTyped, Passes
    <2>2. pass' = IF a = None THEN [pass EXCEPT !.pc = "probe"]
                  ELSE [pass EXCEPT !.pc = "daily", !.anchor = a,
                                    !.from = Midnight(Day(a.start) - Margin)]
      BY <1>4 DEF ReadAnchor
    <2> HIDE DEF a
    <2>3. /\ pass'.now = pass.now /\ pass'.upto = pass.upto /\ pass'.held = pass.held
          /\ IF a = None THEN pass'.pc = "probe"
             ELSE pass'.pc = "daily" /\ pass'.from = Midnight(Day(a.start) - Margin)
      BY <1>1, <2>2 DEF Passes
    <2>4. ASSUME NEW h \in Uploaded, h > pass.now - Overlap * DayLen, a # None
          PROVE  Midnight(Day(a.start) - Margin) =< h
      <3>1. h \in Int /\ pass.now \in Int
        BY <1>1, HoursAre, ReadingShown DEF Passes
      <3>2. a \in Anchors /\ a.start =< pass.now - Overlap * DayLen
        BY <2>1, <2>4 DEF AnchorFits
      <3> QED
        BY <2>4, <3>1, <3>2, AnchorReaches
    <2> QED
      BY <1>1, <1>2, <2>3, <2>4, StageKeepsHeld
  <1>5. ASSUME NEW unit \in Units, Probe(unit) PROVE HeldKnown'
    <2>1. CASE pass' = None
      BY <1>1, <2>1, RestKeepsHeld DEF Fetching
    <2>2. CASE pass' # None
      <3> DEFINE start == ProbedStart(pass.now)
      <3>1. pass' = [pass EXCEPT !.pc = "daily", !.from = start, !.factor = unit]
        BY <1>5, <2>2 DEF Probe
      <3>2. \A h \in Uploaded : h > pass.now - Overlap * DayLen => start =< h
        BY <1>1, ProbedStartIs DEF Passes
      <3> HIDE DEF start
      <3>3. /\ pass'.now = pass.now /\ pass'.upto = pass.upto /\ pass'.held = pass.held
            /\ pass'.pc = "daily" /\ pass'.from = start
        BY <1>1, <3>1 DEF Passes
      <3> QED
        BY <1>1, <1>2, <3>2, <3>3, StageKeepsHeld
    <2> QED
      BY <2>1, <2>2
  <1>6. ASSUME NEW unit \in Units, FetchDaily(unit) PROVE HeldKnown'
    <2> DEFINE daily == DailySeries(pass.from, pass.now, unit)
    <2>1. pass' = [pass EXCEPT !.pc = "hourly", !.factor = unit, !.daily = daily] /\ pass.pc = "daily"
      BY <1>6 DEF FetchDaily, At
    <2> HIDE DEF daily
    <2>2. /\ pass'.now = pass.now /\ pass'.upto = pass.upto /\ pass'.held = pass.held
          /\ pass'.pc = "hourly" /\ pass'.from = pass.from /\ pass'.hourly = NoRows
      BY <1>1, <2>1 DEF Passes
    <2> QED
      BY <1>1, <1>2, <2>1, <2>2, StageKeepsHeld
  <1> QED
    BY <1>3, <1>4, <1>5, <1>6

\* An hour of the overlap is within the retention and within the first window.
LEMMA OverlapKept ==
  ASSUME HistoryTyped, pass # None, NEW s \in Hours, s > pass.now - Overlap * DayLen
  PROVE  Day(s) + HourlyRetention > Day(clock) /\ Day(s) + HourlyRetention > Day(pass.now)
  <1>1. /\ pass.now \in Int /\ clock \in Int /\ Day(clock) =< Day(pass.now) + PassDays
        /\ s \in Int
    BY HoursAre DEF HistoryTyped, WorldOK, WorldTyped, PassTyped, Passes
  <1>2. Day(pass.now) - Overlap =< Day(s)
    BY <1>1, OverlapReaches
  <1>3. /\ Overlap \in Nat /\ PassDays \in Nat /\ HourlyRetention \in Nat
        /\ Overlap + PassDays < HourlyRetention
    BY Windows
  <1>4. Day(s) \in Int /\ Day(pass.now) \in Int /\ Day(clock) \in Int
    BY <1>1, DayOf
  <1> QED
    BY <1>1, <1>2, <1>3, <1>4

LEMMA OverlapFetched ==
  ASSUME HistoryTyped, At("hourly"), NEW unit \in Units, Accepted(unit), pass.upto = pass.now,
         NEW s \in Uploaded, s > pass.now - Overlap * DayLen, s =< pass.now, pass.from =< s
  PROVE  s \in DOMAIN HourlySeries(WindowStart(pass), pass.upto, unit)
  <1>1. /\ WorldOK /\ pass # None /\ pass.now \in Int /\ pass.from \in Int /\ s \in Hours /\ s \in Int
    BY HoursAre DEF At, HistoryTyped, PassTyped, Passes, Uploaded
  <1>2. /\ WindowStart(pass) \in Int
        /\ WindowStart(pass) = Midnight(Day(pass.now) - HourlyChunk) \/ WindowStart(pass) = pass.from
    BY <1>1, WindowStartIs
  <1>3. Midnight(Day(pass.now) - HourlyChunk) =< s
    <2>1. Day(pass.now) - Overlap =< Day(s)
      BY <1>1, OverlapReaches
    <2>2. Overlap \in Nat /\ Margin \in Nat /\ HourlyChunk \in Nat /\ Overlap + Margin =< HourlyChunk
      BY Windows
    <2>3. Day(s) \in Int /\ Day(pass.now) \in Int /\ Midnight(Day(s)) =< s
      BY <1>1, DayOf
    <2>4. Day(pass.now) - HourlyChunk \in Int /\ Day(pass.now) - HourlyChunk =< Day(s)
      BY <2>1, <2>2, <2>3
    <2>5. /\ Midnight(Day(pass.now) - HourlyChunk) =< Midnight(Day(s))
          /\ Midnight(Day(pass.now) - HourlyChunk) \in Int /\ Midnight(Day(s)) \in Int
      BY <2>3, <2>4, MidnightsInOrder
    <2> QED
      BY <1>1, <2>3, <2>5
  <1>4. Day(s) + HourlyRetention > Day(clock)
    BY <1>1, OverlapKept
  <1>5. DOMAIN HourlySeries(WindowStart(pass), pass.upto, unit)
          = {k \in HourlyKept : k \in WindowStart(pass)..pass.upto}
    BY <1>1, <1>2, HourlySeriesIs
  <1> QED
    BY <1>1, <1>2, <1>3, <1>4, <1>5 DEF HourlyKept

\* The window with the hour is fetched while the cloud still keeps it.
LEMMA HeldFetched ==
  ASSUME HistoryTyped, HeldKnown, At("hourly"), NEW unit \in Units, Accepted(unit),
         NEW hourly, hourly = Upserted(pass.hourly, HourlySeries(WindowStart(pass), pass.upto, unit))
  PROVE  \/ pass.held = 0
         \/ \E h \in Uploaded :
              /\ h > pass.now - Overlap * DayLen /\ h =< pass.now /\ pass.held =< Reading(h).drawn
              /\ pass.from =< h /\ h \in DOMAIN hourly /\ pass.held =< hourly[h].drawn
  <1> DEFINE start == WindowStart(pass)
             window == HourlySeries(start, pass.upto, unit)
  <1>1. /\ WorldOK /\ pass \in Passes /\ pass.now \in Int /\ pass.upto \in Int /\ pass.from \in Int
        /\ clock \in Int /\ Day(clock) =< Day(pass.now) + PassDays
    BY HoursAre DEF HistoryTyped, WorldOK, WorldTyped, PassTyped, Passes, At
  <1>2. /\ start \in Int
        /\ start = Midnight(Day(pass.upto) - HourlyChunk) \/ start = pass.from
    BY <1>1, WindowStartIs
  <1>3. /\ DOMAIN window = {k \in HourlyKept : k \in start..pass.upto}
        /\ \A h \in DOMAIN window : window[h].drawn = Reading(h).drawn
    BY <1>1, <1>2, HourlySeriesIs
  <1>4. /\ hourly = Upserted(pass.hourly, window) /\ Fetching /\ pass.pc = "hourly"
    BY DEF At, Fetching
  <1> HIDE DEF start, window
  <1>5. /\ DOMAIN hourly = DOMAIN pass.hourly \cup DOMAIN window
        /\ \A h \in DOMAIN pass.hourly : hourly[h] = pass.hourly[h]
        /\ \A h \in DOMAIN window \ DOMAIN pass.hourly : hourly[h] = window[h]
    BY <1>4 DEF Upserted
  <1>6. CASE pass.held = 0
    BY <1>6
  <1>7. CASE pass.held # 0
    <2>1. PICK h \in Uploaded :
            /\ h > pass.now - Overlap * DayLen /\ h =< pass.now /\ pass.held =< Reading(h).drawn
            /\ pass.from =< h
            /\ \/ pass.upto = pass.now /\ pass.hourly = NoRows
               \/ h \in DOMAIN pass.hourly /\ pass.held =< pass.hourly[h].drawn
      BY <1>4, <1>7 DEF HeldKnown
    <2>2. CASE h \in DOMAIN pass.hourly /\ pass.held =< pass.hourly[h].drawn
      BY <1>5, <2>1, <2>2
    <2>3. CASE pass.upto = pass.now /\ pass.hourly = NoRows
      <3>5. h \in DOMAIN window
        BY <2>1, <2>3, OverlapFetched DEF window, start
      <3>6. h \notin DOMAIN pass.hourly
        BY <2>3 DEF NoRows
      <3>7. hourly[h].drawn = Reading(h).drawn
        BY <1>3, <1>5, <3>5, <3>6
      <3> QED
        BY <1>5, <2>1, <3>5, <3>7
    <2> QED
      BY <2>1, <2>2, <2>3
  <1> QED
    BY <1>6, <1>7

LEMMA FetchHourlyKeepsHeld ==
  ASSUME HistoryTyped, HeldKnown, NEW unit \in Units, FetchHourly(unit)
  PROVE  HeldKnown'
  <1> DEFINE start == WindowStart(pass)
             window == HourlySeries(start, pass.upto, unit)
             hourly == Upserted(pass.hourly, window)
  <1>1. /\ At("hourly") /\ Accepted(unit) /\ UNCHANGED world
        /\ \/ pass' = [pass EXCEPT !.hourly = hourly, !.upto = start]
           \/ pass' = None
           \/ pass' = [pass EXCEPT !.pc = "wait", !.hourly = NoRows, !.daily = NoRows]
    BY FetchHourlyIs
  <1>2. /\ pass \in Passes /\ pass # None /\ pass.pc = "hourly"
    BY <1>1 DEF At, HistoryTyped, PassTyped
  <1>3. /\ \E x : x = hourly
        /\ \/ pass.held = 0
           \/ \E h \in Uploaded :
                /\ h > pass.now - Overlap * DayLen /\ h =< pass.now /\ pass.held =< Reading(h).drawn
                /\ pass.from =< h /\ h \in DOMAIN hourly /\ pass.held =< hourly[h].drawn
    <2>1. \E x : x = hourly
      OBVIOUS
    <2> QED
      BY <1>1, <2>1, HeldFetched
  <1> HIDE DEF hourly
  <1>4. CASE ~Fetching'
    BY <1>1, <1>4, RestKeepsHeld
  <1>5. CASE Fetching'
    <2>1. pass' = [pass EXCEPT !.hourly = hourly, !.upto = start]
      BY <1>1, <1>2, <1>5 DEF Fetching, Passes
    <2>2. /\ pass'.now = pass.now /\ pass'.held = pass.held /\ pass'.from = pass.from
          /\ pass'.pc = "hourly" /\ pass'.hourly = hourly
      BY <1>2, <2>1 DEF Passes
    <2>3. Uploaded' = Uploaded /\ \A h \in Uploaded : Reading(h)' = Reading(h)
      BY <1>1 DEF world, Uploaded, Reading
    <2> QED
      BY <1>3, <2>2, <2>3 DEF HeldKnown
  <1> QED
    BY <1>4, <1>5

LEMMA HeldKnownInit == Init => HeldKnown
  BY DEF Init, HeldKnown, Fetching

LEMMA HeldKnownNext ==
  ASSUME HistoryTyped, HeldKnown, [Next]_vars
  PROVE  HeldKnown'
  <1>1. ASSUME NEW bound \in BOOLEAN, StartPass(bound) PROVE HeldKnown'
    BY <1>1, StartPassKeepsHeld
  <1>2. CASE ReadStoredUnit \/ ReadAnchor \/ \E unit \in Units : Probe(unit) \/ FetchDaily(unit)
    BY <1>2, StagesKeepHeld
  <1>3. ASSUME NEW unit \in Units, FetchHourly(unit) PROVE HeldKnown'
    BY <1>3, FetchHourlyKeepsHeld
  <1>4. CASE PassDone \/ PassFails \/ PassNeedsLogin \/ Crash
    BY <1>4, RestKeepsHeld DEF PassDone, PassFails, PassNeedsLogin, Crash, Fetching
  <1>5. CASE RecorderRuns
    <2>1. UNCHANGED world
      BY <1>5 DEF RecorderRuns
    <2>2. CASE pass' = pass
      BY <2>1, <2>2, RestKeepsHeld
    <2>3. CASE queue[1] = Marker /\ pass' = [pass EXCEPT !.pc = "drained"]
      <3>1. At("wait")
        BY <1>5, <2>3, RecorderStep DEF HistoryTyped, MarkersAwaited
      <3>2. pass'.pc = "drained"
        BY <2>3, <3>1 DEF HistoryTyped, PassTyped, Passes, At
      <3> QED
        BY <2>1, <3>2, RestKeepsHeld DEF Fetching
    <2> QED
      BY <1>5, <2>2, <2>3, RecorderTask
  <1>6. CASE Reload \/ RemoveEntry
    <2>1. UNCHANGED world /\ pass' \in {pass, None}
      BY <1>6 DEF Reload, RemoveEntry, EndBoundPass
    <2> QED
      BY <2>1, RestKeepsHeld DEF Fetching
  <1>7. CASE World
    BY <1>7, WorldKeepsHeld
  <1>8. CASE UNCHANGED vars
    BY <1>8, RestKeepsHeld DEF vars
  <1> QED
    BY <1>1, <1>2, <1>3, <1>4, <1>5, <1>6, <1>7, <1>8 DEF Next, Request

\* A glitch repeats water: what it stands for was drawn by the reading before it.
LEMMA GlitchRepeats ==
  ASSUME WorldOK, NEW unit \in Units, NEW x, NEW h, NEW y, NEW k,
         From(x, h, unit), From(y, k, unit), IsGlitch(x.value, y.value)
  PROVE  x.drawn =< y.drawn
  <1>1. PICK s \in Shown(home, h) : x = InUnit(s, unit)
    BY DEF From
  <1>2. PICK r \in Shown(home, k) : y = InUnit(r, unit)
    BY DEF From
  <1>3. /\ h \in Read /\ k \in Read /\ h \in Hours /\ k \in Hours /\ h \in Nat /\ k \in Nat
        /\ s \in Readings /\ r \in Readings
    BY <1>1, <1>2, ShownTyped, HoursAre DEF From, WorldOK
  <1>4. /\ x.value = s.value * Scale[unit] /\ x.drawn = s.drawn
        /\ y.value = r.value * Scale[unit] /\ y.drawn = r.drawn
    BY <1>1, <1>2, <1>3, InUnitIs
  <1>5. IsGlitch(s.value, r.value)
    <2>1. Scale[unit] = 1 \/ Scale[unit] = 4
      BY ScaleIs
    <2>2. s.value \in Nat /\ r.value \in Nat
      BY <1>3 DEF Readings
    <2> QED
      BY <1>4, <2>1, <2>2 DEF IsGlitch
  <1>6. /\ s.value \in Nat /\ r.value \in Nat /\ s.drawn \in Nat /\ r.drawn \in Nat
        /\ s.value < r.value
    BY <1>3, <1>5 DEF Readings, IsGlitch
  <1>7. CASE k < h
    <2>1. IF s.value >= r.value THEN s.drawn - r.drawn = s.value - r.value
          ELSE IF IsGlitch(s.value, r.value) THEN s.drawn =< r.drawn
          ELSE s.value =< s.drawn - r.drawn
      BY <1>1, <1>2, <1>3, <1>7, HouseholdAssumption DEF Read, WorldOK, WorldTyped
    <2> QED
      BY <1>4, <1>5, <1>6, <2>1
  <1>8. CASE h < k
    <2>1. IF r.value >= s.value THEN r.drawn - s.drawn = r.value - s.value
          ELSE IF IsGlitch(r.value, s.value) THEN r.drawn =< s.drawn
          ELSE r.value =< r.drawn - s.drawn
      BY <1>1, <1>2, <1>3, <1>8, HouseholdAssumption DEF Read, WorldOK, WorldTyped
    <2> QED
      BY <1>4, <1>6, <2>1
  <1>9. CASE h = k
    <2>1. home.meter[h] \in Nat /\ home.drawn[h] \in Nat
      BY <1>3, MetersTyped DEF WorldOK
    <2>2. PICK a \in {0, 1} : s.value = home.meter[h] - a /\ s.drawn = home.drawn[h] - a
      BY <1>1 DEF Shown
    <2>3. PICK b \in {0, 1} : r.value = home.meter[h] - b /\ r.drawn = home.drawn[h] - b
      BY <1>2, <1>9 DEF Shown
    <2> QED
      BY <1>4, <1>6, <2>1, <2>2, <2>3
  <1> QED
    BY <1>3, <1>7, <1>8, <1>9

\* Rows of a pass and the series they go to hold its newest water.
LEMMA RowsHold ==
  ASSUME HistoryTyped, SeriesFits, HeldKnown, At("hourly"), NEW unit \in Units, Accepted(unit),
         queue = <<>>, entry # "removed",
         NEW hourly, hourly = Upserted(pass.hourly, HourlySeries(WindowStart(pass), pass.upto, unit)),
         CollectedRows(pass, hourly) # NoRows
  PROVE  \/ HeldIn(CollectedRows(pass, hourly), pass.held)
         \/ ~pass.rebuild /\ HeldIn(Upserted(CollectedRows(pass, hourly), series), pass.held)
  <1> DEFINE rows == CollectedRows(pass, hourly)
             R == CollectedReadings(pass, hourly)
  <1>1. /\ WorldOK /\ pass # None /\ pass \in Passes /\ pass.factor = unit /\ pass.pc = "hourly"
        /\ HourlySampled(hourly, unit) /\ DailySampled(pass.daily, unit)
        /\ pass.unit \in Units /\ pass.factor \in Units /\ pass.anchor \in Anchors \cup {None}
        /\ pass.held \in Nat /\ pass.now \in Int
    <2>1. /\ WorldOK /\ pass \in Passes /\ pass.factor = unit
          /\ HourlySampled(hourly, unit) /\ DailySampled(pass.daily, unit)
      BY WindowIs
    <2>2. pass.pc = "hourly" /\ pass # None
      BY DEF At
    <2> QED
      BY <2>1, <2>2, HoursAre DEF Passes
  <1>2. RowsCount(rows, R, DOMAIN R, pass.anchor)
    BY <1>1, CollectedRowsCount
  <1>3. /\ DOMAIN R \subseteq Hours
        /\ \A s \in DOMAIN R : pass.anchor # None => s > pass.anchor.start
        /\ \A h \in DOMAIN hourly : (pass.anchor # None => h > pass.anchor.start) => h \in DOMAIN R
        /\ \A h \in DOMAIN hourly \cap DOMAIN R :
             From(R[h], h, pass.unit) /\ R[h].drawn = hourly[h].drawn
    <2>1. \E x : x = R
      OBVIOUS
    <2> QED
      BY <1>1, <2>1, CollectedReadingsAre
  <1>4. Sourced(rows, pass.unit)
    BY CollectedRowsSourced
  <1>5. \/ pass.held = 0
        \/ \E h \in Uploaded :
              /\ h > pass.now - Overlap * DayLen /\ h =< pass.now /\ pass.held =< Reading(h).drawn
              /\ pass.from =< h /\ h \in DOMAIN hourly /\ pass.held =< hourly[h].drawn
    BY HeldFetched
  <1>6. MeetsSeries(pass)
    BY <1>1 DEF SeriesFits, PassFits, Fetching
  <1> HIDE DEF R, rows
  <1>7. RowsTyped(rows, DOMAIN R) /\ RowsRead(rows, R) /\ rows # NoRows
    BY <1>2 DEF RowsCount, rows
  <1>8. \A s \in DOMAIN rows : s \in DOMAIN R /\ rows[s] \in Row /\ rows[s].drawn = R[s].drawn
                               /\ rows[s].drawn \in Nat
    BY <1>7 DEF RowsTyped, RowsRead, Row
  <1>9. CASE pass.held = 0
    <2>1. DOMAIN rows # {}
      BY <1>7 DEF RowsTyped, NoRows
    <2>2. HeldIn(rows, pass.held)
      BY <1>8, <1>9, <2>1 DEF HeldIn
    <2> QED
      BY <2>2 DEF rows
  <1>10. ASSUME NEW h \in Uploaded, h > pass.now - Overlap * DayLen, h \in DOMAIN hourly,
                pass.held =< hourly[h].drawn
         PROVE  \/ HeldIn(rows, pass.held)
                \/ ~pass.rebuild /\ HeldIn(Upserted(rows, series), pass.held)
    <2>1. h \in Int /\ Overlap * DayLen \in Int
      BY HoursAre, OverlapReaches DEF Uploaded
    <2>2. pass.anchor # None =>
            /\ ~pass.rebuild /\ pass.anchor.start \in DOMAIN series
            /\ series[pass.anchor.start].state = pass.anchor.state
            /\ pass.anchor.start =< pass.now - Overlap * DayLen
      BY <1>1, <1>6 DEF MeetsSeries, AnchorFits
    <2>3. pass.anchor # None => pass.anchor.start \in Int
      BY <1>1, HoursAre DEF Anchors
    <2>4. h \in DOMAIN R
      BY <1>1, <1>3, <1>10, <2>1, <2>2, <2>3
    <2>5. From(R[h], h, pass.unit) /\ pass.held =< R[h].drawn /\ R[h].drawn \in Nat
      <3>1. From(R[h], h, pass.unit) /\ R[h].drawn = hourly[h].drawn
        BY <1>3, <1>10, <2>4
      <3>2. R[h] \in Readings
        BY <1>1, <3>1, FromTyped
      <3> QED
        BY <1>10, <3>1, <3>2 DEF Readings
    <2>6. CASE h \in DOMAIN rows
      BY <1>1, <1>8, <2>5, <2>6 DEF HeldIn
    <2>7. ASSUME NEW a \in DOMAIN rows, IsGlitch(R[h].value, rows[a].state)
          PROVE  HeldIn(rows, pass.held)
      <3>1. PICK k \in Read : From([value |-> rows[a].state, drawn |-> rows[a].drawn], k, pass.unit)
        BY <1>4 DEF Sourced, RowFrom
      <3> DEFINE y == [value |-> rows[a].state, drawn |-> rows[a].drawn]
      <3>2. y.value = rows[a].state /\ y.drawn = rows[a].drawn /\ From(y, k, pass.unit)
        BY <3>1
      <3> HIDE DEF y
      <3>3. R[h].drawn =< y.drawn
        BY <1>1, <2>5, <2>7, <3>2, GlitchRepeats
      <3> QED
        BY <1>1, <1>8, <2>5, <3>2, <3>3 DEF HeldIn
    <2>8. ASSUME pass.anchor # None, IsGlitch(R[h].value, pass.anchor.state)
          PROVE  ~pass.rebuild /\ HeldIn(Upserted(rows, series), pass.held)
      <3> DEFINE a == pass.anchor.start
                 y == [value |-> series[a].state, drawn |-> series[a].drawn]
      <3>1. /\ ~pass.rebuild /\ a \in DOMAIN series /\ series[a].state = pass.anchor.state
            /\ series # NoRows
        BY <2>2, <2>8 DEF NoRows
      <3>2. seriesUnit = pass.unit /\ Sourced(series, pass.unit)
        BY <1>1, <1>6, <3>1 DEF MeetsSeries, SeriesFits, SeriesSourced
      <3>3. PICK k \in Read : From(y, k, pass.unit)
        BY <3>1, <3>2 DEF Sourced, RowFrom
      <3>4. y.value = pass.anchor.state /\ y.drawn = series[a].drawn
        BY <3>1
      <3>5. series[a].drawn \in Nat /\ RowsTyped(series, Hours)
        BY <3>1 DEF HistoryTyped, StoreTyped, RowsTyped, Row
      <3> HIDE DEF y
      <3>6. R[h].drawn =< y.drawn
        BY <1>1, <2>5, <2>8, <3>3, <3>4, GlitchRepeats
      <3>7. a \notin DOMAIN rows
        <4>1. SUFFICES ASSUME a \in DOMAIN rows PROVE FALSE
          OBVIOUS
        <4>2. a > a /\ a \in Int
          BY <1>3, <1>8, <2>3, <2>8, <4>1
        <4> QED
          BY <4>2
      <3>8. a \in DOMAIN Upserted(rows, series) /\ Upserted(rows, series)[a] = series[a]
        BY <3>1, <3>7 DEF Upserted
      <3> QED
        BY <1>1, <2>5, <3>1, <3>4, <3>5, <3>6, <3>8 DEF HeldIn
    <2> QED
      BY <1>2, <2>4, <2>6, <2>7, <2>8 DEF RowsCount, Skipped
  <1> QED
    BY <1>5, <1>9, <1>10 DEF rows

\* What waits on the recorder for a pass, and what it leaves in the series.
ImportAwaited ==
  (entry # "removed" /\ pass # None) =>
    /\ pass.pc = "wait" =>
         \/ \E t \in Tasks : /\ t.kind = "import" /\ queue = <<Clear, t, Marker>>
                             /\ HeldIn(t.rows, pass.held)
         \/ \E t \in Tasks : /\ t.kind = "import" /\ queue = <<t, Marker>>
                             /\ HeldIn(Upserted(t.rows, series), pass.held)
         \/ queue = <<Marker>> /\ HeldIn(series, pass.held)
    /\ pass.pc = "drained" => queue = <<>> /\ HeldIn(series, pass.held)

LEMMA ImportAwaitedInit == Init => ImportAwaited
  BY DEF Init, ImportAwaited

LEMMA FetchHourlyAwaits ==
  ASSUME HistoryTyped, SeriesFits, HeldKnown, NEW unit \in Units, FetchHourly(unit)
  PROVE  ImportAwaited'
  <1> DEFINE start == WindowStart(pass)
             window == HourlySeries(start, pass.upto, unit)
             hourly == Upserted(pass.hourly, window)
             rows == CollectedRows(pass, hourly)
             tasks == ImportTasks(pass, rows)
             t == Import(pass.unit, rows)
  <1>1. /\ At("hourly") /\ Accepted(unit) /\ UNCHANGED <<world, series, seriesUnit, entry>>
        /\ \/ pass' = [pass EXCEPT !.hourly = hourly, !.upto = start] /\ UNCHANGED queue
           \/ pass' = None /\ UNCHANGED queue
           \/ /\ rows # NoRows /\ rows \in TaskRows
              /\ pass' = [pass EXCEPT !.pc = "wait", !.hourly = NoRows, !.daily = NoRows]
              /\ queue' = queue \o tasks
              /\ tasks = IF pass.rebuild THEN <<Clear, t, Marker>> ELSE <<t, Marker>>
              /\ tasks \in Seq(Tasks)
              /\ t \in Tasks /\ t.kind = "import" /\ t.rows = rows
    BY FetchHourlyIs
  <1>2. pass \in Passes /\ pass # None /\ pass.pc = "hourly" /\ pass.rebuild \in BOOLEAN
    BY <1>1 DEF At, HistoryTyped, PassTyped, Passes
  <1>3. (entry # "removed" /\ queue = <<>> /\ rows # NoRows) =>
           \/ HeldIn(rows, pass.held)
           \/ ~pass.rebuild /\ HeldIn(Upserted(rows, series), pass.held)
    <2>1. \E x : x = hourly
      OBVIOUS
    <2> QED
      BY <1>1, <2>1, RowsHold
  <1>4. rows \in TaskRows => RowsTyped(rows, Hours)
    <2>1. \E x : x = rows
      OBVIOUS
    <2> QED
      BY <2>1, TaskRowsAre
  <1>5. RowsTyped(series, Hours)
    BY DEF HistoryTyped, StoreTyped
  <1> HIDE DEF start, window, hourly, rows, tasks, t
  <1>6. CASE \/ pass' = [pass EXCEPT !.hourly = hourly, !.upto = start]
             \/ pass' = None
    <2>1. pass' = None \/ pass'.pc = "hourly"
      BY <1>2, <1>6 DEF Passes
    <2> QED
      BY <2>1 DEF ImportAwaited
  <1>7. CASE /\ rows # NoRows /\ rows \in TaskRows
             /\ pass' = [pass EXCEPT !.pc = "wait", !.hourly = NoRows, !.daily = NoRows]
             /\ queue' = queue \o tasks
             /\ tasks = IF pass.rebuild THEN <<Clear, t, Marker>> ELSE <<t, Marker>>
             /\ tasks \in Seq(Tasks)
             /\ t \in Tasks /\ t.kind = "import" /\ t.rows = rows
    <2> SUFFICES ASSUME entry' # "removed"
                 PROVE  ImportAwaited'
      BY DEF ImportAwaited
    <2>1. queue = <<>> /\ entry # "removed"
      BY <1>1, <1>2 DEF SeriesFits, RecorderIdle, Fetching
    <2>2. queue' = tasks /\ series' = series
      BY <1>1, <1>7, <2>1
    <2>3. pass'.pc = "wait" /\ pass'.held = pass.held
      BY <1>2, <1>7 DEF Passes
    <2>4. pass.rebuild => HeldIn(rows, pass.held)
      BY <1>3, <1>7, <2>1
    <2>5. HeldIn(Upserted(rows, series), pass.held)
      <3>1. HeldIn(rows, pass.held) => HeldIn(Upserted(rows, series), pass.held)
        BY DEF HeldIn, Upserted
      <3> QED
        BY <1>3, <1>7, <2>1, <3>1
    <2>6. CASE pass.rebuild
      BY <1>7, <2>2, <2>3, <2>4, <2>6 DEF ImportAwaited
    <2>7. CASE ~pass.rebuild
      BY <1>7, <2>2, <2>3, <2>5, <2>7 DEF ImportAwaited
    <2> QED
      BY <2>6, <2>7
  <1> QED
    BY <1>1, <1>6, <1>7

LEMMA ShortQueues ==
  ASSUME NEW S, NEW a \in S, NEW b \in S, NEW c \in S
  PROVE  /\ Tail(<<a, b, c>>) = <<b, c>> /\ Tail(<<a, b>>) = <<b>> /\ Tail(<<a>>) = <<>>
         /\ <<a, b, c>>[1] = a /\ <<a, b>>[1] = a /\ <<a>>[1] = a
         /\ Abandoned(<<>>) = <<>>
  <1>1. <<a, b, c>>[1] = a /\ <<a, b>>[1] = a /\ <<a>>[1] = a
    OBVIOUS
  <1>2. Tail(<<a>>) = <<>>
    OBVIOUS
  <1>3. Tail(<<a, b>>) = <<b>>
    OBVIOUS
  <1>4. Tail(<<a, b, c>>) = <<b, c>>
    <2>1. Tail(<<a, b, c>>) \in Seq(S) /\ Len(Tail(<<a, b, c>>)) = 2
      OBVIOUS
    <2>2. <<b, c>> \in Seq(S) /\ Len(<<b, c>>) = 2
      OBVIOUS
    <2>3. \A i \in 1..2 : Tail(<<a, b, c>>)[i] = <<b, c>>[i]
      OBVIOUS
    <2> QED
      BY ONLY <2>1, <2>2, <2>3, SeqEqual
  <1>5. Abandoned(<<>>) = <<>>
    BY DEF Abandoned
  <1> QED
    BY <1>1, <1>2, <1>3, <1>4, <1>5

\* The recorder takes up what the pass waits for, task by task.
LEMMA RecorderAwaits ==
  ASSUME HistoryTyped, ImportAwaited, RecorderRuns
  PROVE  ImportAwaited'
  <1> SUFFICES ASSUME entry' # "removed", pass' # None
               PROVE  ImportAwaited'
    BY DEF ImportAwaited
  <1>1. queue' = Tail(queue) /\ entry' = entry /\ queue # <<>>
    BY RecorderStep
  <1>2. pass # None
    <2>1. queue[1] = Marker => At("wait")
      BY RecorderStep DEF HistoryTyped, MarkersAwaited
    <2> QED
      BY <2>1, RecorderTask DEF At
  <1>3. /\ Clear \in Tasks /\ Marker \in Tasks
        /\ Clear # Marker /\ Clear # Orphan /\ Marker # Orphan
        /\ Clear.kind # "import" /\ Marker.kind # "import" /\ Orphan.kind # "import"
    BY DEF Tasks, Clear, Marker, Orphan
  <1>4. pass.pc # "drained"
    BY <1>1, <1>2 DEF ImportAwaited
  <1>5. CASE pass.pc # "wait"
    <2>1. queue[1] # Marker
      BY <1>5, RecorderStep DEF HistoryTyped, MarkersAwaited, At
    <2>2. pass' = pass
      BY <2>1, RecorderTask
    <2> QED
      BY <1>4, <1>5, <2>2 DEF ImportAwaited
  <1>6. CASE pass.pc = "wait"
    <2>1. ASSUME NEW t \in Tasks, t.kind = "import", queue = <<Clear, t, Marker>>,
                 HeldIn(t.rows, pass.held)
          PROVE  ImportAwaited'
      <3>1. Tail(<<Clear, t, Marker>>) = <<t, Marker>> /\ <<Clear, t, Marker>>[1] = Clear
        BY <1>3, ShortQueues
      <3>2. series' = NoRows /\ pass' = pass /\ queue' = <<t, Marker>>
        BY <1>1, <1>3, <2>1, <3>1, RecorderTask
      <3>3. HeldIn(Upserted(t.rows, NoRows), pass.held)
        BY <2>1 DEF HeldIn, Upserted
      <3> QED
        BY <1>6, <2>1, <3>2, <3>3 DEF ImportAwaited
    <2>2. ASSUME NEW t \in Tasks, t.kind = "import", queue = <<t, Marker>>,
                 HeldIn(Upserted(t.rows, series), pass.held)
          PROVE  ImportAwaited'
      <3>1. Tail(<<t, Marker>>) = <<Marker>> /\ <<t, Marker>>[1] = t
        BY <1>3, ShortQueues
      <3>2. queue[1] = t /\ queue' = <<Marker>>
        BY <1>1, <2>2, <3>1
      <3>3. series' = Upserted(t.rows, series) /\ pass' = pass
        BY <1>3, <2>2, <3>2, RecorderTask
      <3> QED
        BY <1>6, <2>2, <3>2, <3>3 DEF ImportAwaited
    <2>3. CASE queue = <<Marker>> /\ HeldIn(series, pass.held)
      <3>1. Tail(<<Marker>>) = <<>> /\ <<Marker>>[1] = Marker
        BY <1>3, ShortQueues
      <3>2. queue[1] = Marker /\ queue' = <<>>
        BY <1>1, <2>3, <3>1
      <3>3. pass' = [pass EXCEPT !.pc = "drained"] /\ series' = series
        BY <1>3, <3>2, RecorderTask
      <3>4. pass'.pc = "drained" /\ pass'.held = pass.held
        BY <1>2, <3>3 DEF HistoryTyped, PassTyped, Passes
      <3> QED
        BY <2>3, <3>2, <3>3, <3>4 DEF ImportAwaited
    <2> QED
      BY <1>1, <1>2, <1>6, <2>1, <2>2, <2>3 DEF ImportAwaited
  <1> QED
    BY <1>5, <1>6

\* Every other action gives the pass up or leaves it waiting.
LEMMA RestAwaits ==
  ASSUME ImportAwaited, entry # "removed" \/ entry' = "removed",
         \/ pass' = None
         \/ pass' # None /\ pass'.pc \notin {"wait", "drained"}
         \/ UNCHANGED <<pass, series, queue>>
         \/ entry' = "removed"
  PROVE  ImportAwaited'
  BY DEF ImportAwaited

LEMMA ImportAwaitedNext ==
  ASSUME HistoryTyped, SeriesFits, HeldKnown, ImportAwaited, [Next]_vars
  PROVE  ImportAwaited'
  <1>1. ASSUME NEW bound \in BOOLEAN, StartPass(bound) PROVE ImportAwaited'
    <2>1. pass'.pc = "unit" /\ entry = "loaded" /\ pass' = NewPass(bound)
      BY <1>1 DEF StartPass, NewPass
    <2> QED
      BY <2>1, RestAwaits
  <1>2. CASE ReadStoredUnit \/ ReadAnchor \/ \E unit \in Units : Probe(unit) \/ FetchDaily(unit)
    <2>1. pass # None /\ pass \in Passes /\ UNCHANGED entry
      BY <1>2 DEF ReadStoredUnit, ReadAnchor, Probe, FetchDaily, At, HistoryTyped, PassTyped
    <2>2. pass' = None \/ pass'.pc \in {"anchor", "probe", "daily", "hourly"}
      BY <1>2, <2>1 DEF ReadStoredUnit, ReadAnchor, Probe, FetchDaily, Passes
    <2> QED
      BY <2>1, <2>2 DEF ImportAwaited
  <1>3. ASSUME NEW unit \in Units, FetchHourly(unit) PROVE ImportAwaited'
    BY <1>3, FetchHourlyAwaits
  <1>4. CASE PassDone \/ PassFails \/ PassNeedsLogin \/ Crash
    BY <1>4 DEF PassDone, PassFails, PassNeedsLogin, Crash, ImportAwaited
  <1>5. CASE RecorderRuns
    BY <1>5, RecorderAwaits
  <1>6. CASE Reload \/ RemoveEntry
    BY <1>6 DEF Reload, RemoveEntry, EndBoundPass, ImportAwaited
  <1>7. CASE World
    <2>1. UNCHANGED <<store, entry, pass>>
      BY <1>7, WorldStep DEF HistoryTyped
    <2> QED
      BY <2>1 DEF ImportAwaited, store
  <1>8. CASE UNCHANGED vars
    BY <1>8 DEF ImportAwaited, vars, store
  <1> QED
    BY <1>1, <1>2, <1>3, <1>4, <1>5, <1>6, <1>7, <1>8 DEF Next, Request

\* What a pass that is confirmed has imported, under one pass at a time.
PassesInOrder == HistoryTyped /\ SeriesFits /\ HeldKnown /\ ImportAwaited

LEMMA PassesInOrderAlways ==
  ASSUME QueueBound =< 1
  PROVE  Spec => []PassesInOrder
  <1>1. Init => PassesInOrder
    BY HistoryTypedInit, SeriesFitsInit, HeldKnownInit, ImportAwaitedInit DEF PassesInOrder
  <1>2. PassesInOrder /\ [Next]_vars => PassesInOrder'
    BY HistoryTypedNext, SeriesFitsNext, HeldKnownNext, ImportAwaitedNext DEF PassesInOrder
  <1> QED
    BY <1>1, <1>2, PTL DEF Spec

\* A refresh that succeeds with an import has it readable, however long the
\* pass took, whatever was uploaded, failed, was given up or restarted before,
\* as long as no pass begins while an import waits on the recorder: the series
\* then reaches the newest water of the overlap the cloud knew of when the pass
\* began (_async_wait_for_recorder, statistics.py).
THEOREM CompletedPassesAreCurrent ==
  ASSUME QueueBound =< 1
  PROVE  Spec => CompletedPassIsCurrent
  <1>1. PassesInOrder /\ [Next]_vars =>
          [(At("drained") /\ pass' = None /\ queue' = queue /\ entry' = entry /\ entry # "removed") =>
             \E s \in DOMAIN series : series[s].drawn >= pass.held]_vars
    BY DEF PassesInOrder, ImportAwaited, HeldIn, At
  <1> QED
    BY <1>1, PassesInOrderAlways, PTL DEF Spec, CompletedPassIsCurrent

-----------------------------------------------------------------------------
(* The water between two rows.                                             *)

\* No meter of the households repeats water in its readings.
GlitchFree ==
  \A house \in Meters : \A k, h \in ReadHours(house) :
    k < h => \A r \in Shown(house, k), s \in Shown(house, h) : ~IsGlitch(s.value, r.value)

Flows(rows, unit, a, b) ==
  LET counted == rows[b].sum - rows[a].sum
      flowed == Scale[unit] * (rows[b].drawn - rows[a].drawn)
  IN IF rows[b].state >= rows[a].state THEN counted = flowed
     ELSE 0 =< counted /\ counted =< flowed
LosesNothing(rows, unit) ==
  \A a, b \in DOMAIN rows : Precedes(rows, a, b) => Flows(rows, unit, a, b)

Aged(day, now) == day + HourlyRetention =< Day(now)

\* Every row is of its own hour, which was uploaded, or it alone stands for a day
\* that is out of the hourly retention.
ByTheHour(rows, unit, s) == RowFrom(rows[s], s, unit)
ByTheDay(rows, unit, s) ==
  /\ s = Midnight(Day(s)) /\ \A t \in DOMAIN rows : Day(t) = Day(s) => t = s
  /\ \E k \in Read : Day(k) = Day(s) /\ RowFrom(rows[s], k, unit)
Rooted(rows, unit, up, now) ==
  \A s \in DOMAIN rows :
    \/ s \in up /\ s =< now /\ ByTheHour(rows, unit, s)
    \/ Aged(Day(s), now) /\ ByTheDay(rows, unit, s)
Sound(rows, unit, up, now) == Rooted(rows, unit, up, now) /\ LosesNothing(rows, unit)

\* What build_meter_rows counts between the readings of two hours.
LEMMA CountedIsDrawn ==
  ASSUME WorldOK, NEW unit \in Units, NEW x, NEW k, NEW y, NEW h,
         From(x, k, unit), From(y, h, unit), k < h
  PROVE  /\ x.value \in Nat /\ y.value \in Nat /\ x.drawn \in Nat /\ y.drawn \in Nat
         /\ y.value >= x.value => y.value - x.value = Scale[unit] * (y.drawn - x.drawn)
         /\ (y.value < x.value /\ ~IsGlitch(y.value, x.value)) =>
              y.value =< Scale[unit] * (y.drawn - x.drawn)
         /\ GlitchFree => ~IsGlitch(y.value, x.value)
  <1>1. PICK r \in Shown(home, k) : x = InUnit(r, unit)
    BY DEF From
  <1>2. PICK s \in Shown(home, h) : y = InUnit(s, unit)
    BY DEF From
  <1>3. k \in Read /\ h \in Read /\ r \in Readings /\ s \in Readings /\ home \in Meters
    BY <1>1, <1>2, ShownTyped DEF From, WorldOK, WorldTyped
  <1>4. /\ x.value = r.value * Scale[unit] /\ x.drawn = r.drawn
        /\ y.value = s.value * Scale[unit] /\ y.drawn = s.drawn
    BY <1>1, <1>2, <1>3, InUnitIs
  <1>5. IF s.value >= r.value THEN s.drawn - r.drawn = s.value - r.value
        ELSE IF IsGlitch(s.value, r.value) THEN s.drawn =< r.drawn
        ELSE s.value =< s.drawn - r.drawn
    BY <1>1, <1>2, <1>3, HouseholdAssumption DEF Read
  <1>6. GlitchFree => ~IsGlitch(s.value, r.value)
    BY <1>1, <1>2, <1>3 DEF GlitchFree, Read
  <1>7. r.value \in Nat /\ r.drawn \in Nat /\ s.value \in Nat /\ s.drawn \in Nat
    BY <1>3 DEF Readings
  <1>8. Scale[unit] = 1 \/ Scale[unit] = 4
    BY ScaleIs
  <1>9. IsGlitch(y.value, x.value) <=> IsGlitch(s.value, r.value)
    BY <1>4, <1>7, <1>8 DEF IsGlitch
  <1>10. y.value >= x.value <=> s.value >= r.value
    BY <1>4, <1>7, <1>8
  <1>11. x.value \in Nat /\ y.value \in Nat /\ x.drawn \in Nat /\ y.drawn \in Nat
    BY <1>4, <1>7, <1>8
  <1>12. y.value >= x.value => y.value - x.value = Scale[unit] * (y.drawn - x.drawn)
    BY <1>4, <1>5, <1>7, <1>8, <1>10
  <1>13. (y.value < x.value /\ ~IsGlitch(y.value, x.value)) =>
           y.value =< Scale[unit] * (y.drawn - x.drawn)
    BY <1>4, <1>5, <1>7, <1>8, <1>9, <1>10, <1>11
  <1> QED
    BY <1>6, <1>9, <1>11, <1>12, <1>13

\* The rows of a series are of hours in their order.
LEMMA RowsInOrder ==
  ASSUME WorldOK, NEW rows, DOMAIN rows \subseteq Hours, NEW unit, NEW up, NEW now,
         Rooted(rows, unit, up, now), NEW a \in DOMAIN rows, NEW b \in DOMAIN rows, a < b
  PROVE  \E k, h \in Read : /\ k < h /\ RowFrom(rows[a], k, unit) /\ RowFrom(rows[b], h, unit)
                            /\ Day(k) = Day(a) /\ Day(h) = Day(b)
  <1> DEFINE Of(s, k) == /\ k \in Read /\ Day(k) = Day(s) /\ RowFrom(rows[s], k, unit)
                         /\ k = s \/ \A t \in DOMAIN rows : Day(t) = Day(s) => t = s
  <1>1. ASSUME NEW s \in DOMAIN rows PROVE \E k \in Read : Of(s, k)
    <2>1. CASE ByTheHour(rows, unit, s)
      BY <2>1 DEF ByTheHour, RowFrom, From
    <2>2. CASE ByTheDay(rows, unit, s)
      BY <2>2 DEF ByTheDay
    <2> QED
      BY <1>1, <2>1, <2>2 DEF Rooted
  <1>2. PICK k \in Read : Of(a, k)
    BY <1>1
  <1>3. PICK h \in Read : Of(b, h)
    BY <1>1
  <1>4. k \in Int /\ h \in Int /\ a \in Int /\ b \in Int
    BY HoursAre, ShownTyped DEF WorldOK
  <1>5. k < h
    <2>1. CASE Day(a) = Day(b)
      <3>1. k = a /\ h = b
        BY <1>2, <1>3, <1>4, <2>1
      <3> QED
        BY <3>1
    <2>2. CASE Day(a) # Day(b)
      <3>1. Day(a) =< Day(b) /\ Day(a) \in Int /\ Day(b) \in Int
        BY <1>4, DaysInOrder, DayOf
      <3>2. Day(k) < Day(h)
        BY <1>2, <1>3, <2>2, <3>1
      <3> QED
        BY <1>4, <3>2, DaysInOrder
    <2> QED
      BY <2>1, <2>2
  <1> QED
    BY <1>2, <1>3, <1>5

\* A row that counts on from another one counts what was drawn.
LEMMA CountingFlows ==
  ASSUME WorldOK, NEW unit \in Units, NEW rows, NEW a \in DOMAIN rows, NEW b \in DOMAIN rows,
         NEW k, NEW h, k < h, RowFrom(rows[a], k, unit), RowFrom(rows[b], h, unit),
         rows[a].sum \in Nat,
         ~IsGlitch(rows[b].state, rows[a].state),
         rows[b].sum = rows[a].sum + Delta(rows[b].state, rows[a].state)
  PROVE  Flows(rows, unit, a, b)
  <1> DEFINE x == [value |-> rows[a].state, drawn |-> rows[a].drawn]
             y == [value |-> rows[b].state, drawn |-> rows[b].drawn]
             flowed == Scale[unit] * (y.drawn - x.drawn)
  <1>1. From(x, k, unit) /\ From(y, h, unit)
    BY DEF RowFrom
  <1>2. /\ x.value = rows[a].state /\ x.drawn = rows[a].drawn
        /\ y.value = rows[b].state /\ y.drawn = rows[b].drawn
    OBVIOUS
  <1> HIDE DEF x, y
  <1>3. /\ x.value \in Nat /\ y.value \in Nat /\ x.drawn \in Nat /\ y.drawn \in Nat
        /\ y.value >= x.value => y.value - x.value = flowed
        /\ (y.value < x.value /\ ~IsGlitch(y.value, x.value)) => y.value =< flowed
    BY <1>1, CountedIsDrawn
  <1>4. flowed \in Int
    <2>1. Scale[unit] \in Int
      BY ScaleIs
    <2> QED
      BY <1>3, <2>1
  <1>5. flowed = Scale[unit] * (rows[b].drawn - rows[a].drawn)
    BY <1>2
  <1> HIDE DEF flowed
  <1>6. rows[b].sum - rows[a].sum = Delta(y.value, x.value)
    BY <1>2, <1>3 DEF Delta
  <1>7. IF y.value >= x.value THEN rows[b].sum - rows[a].sum = flowed
        ELSE 0 =< rows[b].sum - rows[a].sum /\ rows[b].sum - rows[a].sum =< flowed
    BY <1>2, <1>3, <1>4, <1>6 DEF Delta
  <1> QED
    BY <1>2, <1>5, <1>7 DEF Flows

LEMMA RootedLater ==
  ASSUME NEW rows, DOMAIN rows \subseteq Hours, NEW unit, NEW up, NEW more, up \subseteq more,
         NEW now \in Int, NEW later \in Int, now =< later, Rooted(rows, unit, up, now)
  PROVE  Rooted(rows, unit, more, later)
  <1>1. Day(now) =< Day(later) /\ Day(now) \in Int /\ Day(later) \in Int
    BY DaysInOrder, DayOf
  <1>2. ASSUME NEW s \in DOMAIN rows PROVE s \in Int /\ Day(s) \in Int
    BY HoursAre, DayOf
  <1>3. HourlyRetention \in Nat
    BY Windows
  <1> QED
    BY <1>1, <1>2, <1>3 DEF Rooted, Aged

\* How far a pass has got, and the series it will meet: the rows of the overlap
\* are before it or among the hours it fetched.
WindowsRecent ==
  Fetching =>
    /\ pass.upto =< pass.now
    /\ \A h \in DOMAIN pass.hourly : h =< pass.now /\ Day(h) + HourlyRetention > Day(pass.now)
SeriesReached ==
  (Fetching /\ queue = <<>> /\ series # NoRows) =>
    /\ Rooted(series, seriesUnit, Uploaded, pass.now)
    /\ \A s \in DOMAIN series : s > pass.now - Overlap * DayLen =>
         /\ pass.pc \in {"daily", "hourly"} => pass.from =< s
         /\ pass.pc = "hourly" =>
              \/ pass.upto = pass.now /\ pass.hourly = NoRows
              \/ s \in DOMAIN pass.hourly
PassReaches == WindowsRecent /\ SeriesReached

SeriesSound == series # NoRows => Sound(series, seriesUnit, Uploaded, clock)
ImportsSound ==
  \A i \in DOMAIN queue : queue[i].kind = "import" =>
    /\ Sound(queue[i].rows, queue[i].unit, Uploaded, clock)
    /\ \/ \E j \in DOMAIN queue : j < i /\ queue[j] = Clear
       \/ Sound(Upserted(queue[i].rows, series), queue[i].unit, Uploaded, clock)

\* The rows a pass collects, as long as the days it imports by their daily
\* reading are aged.
LEMMA CollectedRowsSound ==
  ASSUME HistoryTyped, At("hourly"), NEW unit \in Units, Accepted(unit),
         NEW hourly, hourly = Upserted(pass.hourly, HourlySeries(WindowStart(pass), pass.upto, unit)),
         \A s \in DOMAIN CollectedReadings(pass, hourly) \ DOMAIN hourly : Aged(Day(s), clock)
  PROVE  Sound(CollectedRows(pass, hourly), pass.unit, Uploaded, clock)
  <1> DEFINE rows == CollectedRows(pass, hourly)
             R == CollectedReadings(pass, hourly)
  <1>1. /\ WorldOK /\ pass \in Passes /\ pass.factor = unit
        /\ HourlySampled(hourly, unit) /\ DailySampled(pass.daily, unit)
    BY WindowIs
  <1>2. pass.unit \in Units /\ pass.factor \in Units /\ pass.anchor \in Anchors \cup {None}
    BY <1>1 DEF Passes
  <1>3. RowsCount(rows, R, DOMAIN R, pass.anchor)
    BY <1>1, <1>2, CollectedRowsCount
  <1>4. /\ DOMAIN R \subseteq Hours /\ \A s \in DOMAIN R : R[s] \in Readings
        /\ \A h \in DOMAIN hourly \cap DOMAIN R : From(R[h], h, pass.unit)
        /\ \A s \in DOMAIN R \ DOMAIN hourly :
              /\ s = Midnight(Day(s))
              /\ \A h \in DOMAIN hourly : Day(h) # Day(s)
              /\ \E k \in Uploaded : Day(k) = Day(s) /\ From(R[s], k, pass.unit)
    <2>1. \E x : x = R
      OBVIOUS
    <2> QED
      BY <1>1, <1>2, <2>1, CollectedReadingsAre
  <1>5. \A s \in DOMAIN R \ DOMAIN hourly : Aged(Day(s), clock)
    OBVIOUS
  <1> HIDE DEF rows, R
  <1>6. /\ DOMAIN rows \subseteq DOMAIN R
        /\ \A s \in DOMAIN rows : /\ rows[s].sum \in Nat
                                  /\ [value |-> rows[s].state, drawn |-> rows[s].drawn] = R[s]
    BY <1>3, <1>4 DEF RowsCount, RowsTyped, RowsRead, Row, Readings
  <1>7. Rooted(rows, pass.unit, Uploaded, clock)
    <2> SUFFICES ASSUME NEW s \in DOMAIN rows
                 PROVE  \/ s \in Uploaded /\ s =< clock /\ ByTheHour(rows, pass.unit, s)
                        \/ Aged(Day(s), clock) /\ ByTheDay(rows, pass.unit, s)
      BY DEF Rooted
    <2>1. CASE s \in DOMAIN hourly
      <3>1. s \in Uploaded /\ s =< clock
        BY <1>1, <2>1, ReadingShown DEF HourlySampled
      <3>2. From(R[s], s, pass.unit)
        BY <1>4, <1>6, <2>1
      <3> QED
        BY <1>6, <3>1, <3>2 DEF ByTheHour, RowFrom
    <2>2. CASE s \notin DOMAIN hourly
      <3>1. /\ s = Midnight(Day(s)) /\ Aged(Day(s), clock)
            /\ \E k \in Uploaded : Day(k) = Day(s) /\ From(R[s], k, pass.unit)
        BY <1>4, <1>5, <1>6, <2>2
      <3>2. \A t \in DOMAIN rows : Day(t) = Day(s) => t = s
        BY <1>4, <1>6, <2>2
      <3>3. \E k \in Read : Day(k) = Day(s) /\ RowFrom(rows[s], k, pass.unit)
        BY <1>6, <3>1 DEF RowFrom, From
      <3> QED
        BY <3>1, <3>2, <3>3 DEF ByTheDay
    <2> QED
      BY <2>1, <2>2
  <1>8. LosesNothing(rows, pass.unit)
    <2> SUFFICES ASSUME NEW a \in DOMAIN rows, NEW b \in DOMAIN rows, Precedes(rows, a, b)
                 PROVE  Flows(rows, pass.unit, a, b)
      BY DEF LosesNothing
    <2>1. /\ ~IsGlitch(rows[b].state, rows[a].state)
          /\ rows[b].sum = rows[a].sum + Delta(rows[b].state, rows[a].state)
      BY <1>3 DEF RowsCount, Chained
    <2>2. a < b
      BY DEF Precedes
    <2>3. DOMAIN rows \subseteq Hours
      BY <1>4, <1>6
    <2>4. \E k, h \in Read : /\ k < h /\ RowFrom(rows[a], k, pass.unit)
                             /\ RowFrom(rows[b], h, pass.unit)
      BY <1>1, <1>7, <2>2, <2>3, RowsInOrder
    <2> QED
      BY <1>1, <1>2, <1>6, <2>1, <2>4, CountingFlows
  <1> QED
    BY <1>7, <1>8 DEF Sound, rows

\* The rows of the overlap are hourly ones.
LEMMA OverlapByTheHour ==
  ASSUME HistoryTyped, PassReaches, Fetching, queue = <<>>, series # NoRows,
         NEW s \in DOMAIN series, s > pass.now - Overlap * DayLen
  PROVE  s \in Hours /\ s \in Uploaded /\ s =< pass.now
  <1>1. s \in Hours /\ s \in Int /\ pass # None /\ pass.now \in Int
    BY HoursAre DEF HistoryTyped, StoreTyped, RowsTyped, Fetching, PassTyped, Passes
  <1>2. Rooted(series, seriesUnit, Uploaded, pass.now)
    BY DEF PassReaches, SeriesReached
  <1>3. Day(s) + HourlyRetention > Day(pass.now)
    BY <1>1, OverlapKept
  <1>4. Day(s) \in Int /\ Day(pass.now) \in Int /\ HourlyRetention \in Nat
    BY <1>1, DayOf, Windows
  <1>5. ~Aged(Day(s), pass.now)
    BY <1>3, <1>4 DEF Aged
  <1> QED
    BY <1>1, <1>2, <1>5 DEF Rooted

\* The rows of the overlap are all among the new ones.
LEMMA OverlapRewritten ==
  ASSUME HistoryTyped, SeriesFits, PassReaches, GlitchFree,
         At("hourly"), NEW unit \in Units, Accepted(unit),
         NEW hourly, hourly = Upserted(pass.hourly, HourlySeries(WindowStart(pass), pass.upto, unit)),
         queue = <<>>, series # NoRows, ~pass.rebuild, MeetsSeries(pass),
         NEW s \in DOMAIN series, s > pass.now - Overlap * DayLen
  PROVE  s \in DOMAIN CollectedRows(pass, hourly)
  <1> DEFINE window == HourlySeries(WindowStart(pass), pass.upto, unit)
             rows == CollectedRows(pass, hourly)
             R == CollectedReadings(pass, hourly)
  <1>1. /\ WorldOK /\ pass # None /\ pass.pc = "hourly" /\ Fetching /\ pass \in Passes
        /\ pass.factor = unit /\ HourlySampled(hourly, unit) /\ DailySampled(pass.daily, unit)
        /\ pass.unit \in Units /\ pass.factor \in Units /\ pass.anchor \in Anchors \cup {None}
        /\ pass.now \in Int
    <2>1. /\ WorldOK /\ pass \in Passes /\ pass.factor = unit
          /\ HourlySampled(hourly, unit) /\ DailySampled(pass.daily, unit)
      BY WindowIs
    <2>2. pass.pc = "hourly" /\ pass # None /\ Fetching
      BY DEF At, Fetching
    <2> QED
      BY <2>1, <2>2, HoursAre DEF Passes
  <1>2. RowsCount(rows, R, DOMAIN R, pass.anchor)
    BY <1>1, CollectedRowsCount
  <1>3. /\ DOMAIN R \subseteq Hours /\ \A t \in DOMAIN R : R[t] \in Readings
        /\ \A h \in DOMAIN hourly : (pass.anchor # None => h > pass.anchor.start) => h \in DOMAIN R
        /\ \A h \in DOMAIN hourly \cap DOMAIN R : From(R[h], h, pass.unit)
        /\ \A t \in DOMAIN R \ DOMAIN hourly :
             /\ \A h \in DOMAIN hourly : Day(h) # Day(t)
             /\ \E k \in Uploaded : Day(k) = Day(t) /\ From(R[t], k, pass.unit)
    <2>1. \E x : x = R
      OBVIOUS
    <2> QED
      BY <1>1, <2>1, CollectedReadingsAre
  <1>4. /\ Rooted(series, seriesUnit, Uploaded, pass.now)
        /\ pass.from =< s
        /\ \/ pass.upto = pass.now /\ pass.hourly = NoRows
           \/ s \in DOMAIN pass.hourly
    BY <1>1 DEF PassReaches, SeriesReached
  <1>5. /\ seriesUnit = pass.unit /\ DOMAIN series \subseteq Hours /\ s \in Hours /\ s \in Int
        /\ AnchorFits(pass.anchor, pass.now)
    BY <1>1, HoursAre DEF MeetsSeries, HistoryTyped, StoreTyped, RowsTyped
  <1>6. /\ Day(s) + HourlyRetention > Day(clock) /\ Day(s) + HourlyRetention > Day(pass.now)
    BY <1>1, <1>5, OverlapKept
  <1>7. /\ Day(s) \in Int /\ Day(clock) \in Int /\ Day(pass.now) \in Int /\ HourlyRetention \in Nat
        /\ Overlap * DayLen \in Int
    <2>1. clock \in Int
      BY <1>1, HoursAre DEF WorldOK, WorldTyped
    <2>2. Day(s) \in Int /\ Day(clock) \in Int /\ Day(pass.now) \in Int
      BY <1>1, <1>5, <2>1, DayOf
    <2> QED
      BY <1>1, <2>2, Windows, OverlapReaches
  <1>8. s \in Uploaded /\ s =< pass.now
    BY <1>1, OverlapByTheHour
  <1>9. s \in DOMAIN hourly
    <2>1. DOMAIN hourly = DOMAIN pass.hourly \cup DOMAIN window
      BY DEF Upserted
    <2>2. pass.upto = pass.now => s \in DOMAIN window
      BY <1>4, <1>8, OverlapFetched
    <2> HIDE DEF window
    <2> QED
      BY <1>4, <2>1, <2>2
  <1>10. pass.anchor # None =>
           /\ pass.anchor.start \in DOMAIN series /\ pass.anchor.start \in Int
           /\ series[pass.anchor.start].state = pass.anchor.state
           /\ pass.anchor.start < s
    <2>1. pass.anchor # None => pass.anchor.start \in Int
      BY <1>1, HoursAre DEF Anchors
    <2> QED
      BY <1>1, <1>5, <1>7, <2>1 DEF AnchorFits
  <1> HIDE DEF R, rows
  <1>11. s \in DOMAIN R /\ From(R[s], s, pass.unit)
    BY <1>3, <1>5, <1>9, <1>10
  <1>12. DOMAIN rows \subseteq DOMAIN R /\ RowsRead(rows, R) /\ Skipped(rows, R, DOMAIN R, pass.anchor)
    BY <1>2 DEF RowsCount, RowsTyped
  <1>13. ASSUME NEW a \in DOMAIN rows, Precedes(rows, a, s) PROVE ~IsGlitch(R[s].value, rows[a].state)
    <2>1. a \in DOMAIN R /\ a \in Int /\ a < s /\ rows[a].state = R[a].value
      BY <1>3, <1>12, <1>13, HoursAre DEF Precedes, RowsRead
    <2>2. \E k : From(R[a], k, pass.unit) /\ k < s
      <3>1. CASE a \in DOMAIN hourly
        BY <1>3, <2>1, <3>1
      <3>2. CASE a \notin DOMAIN hourly
        <4>1. PICK k \in Uploaded : Day(k) = Day(a) /\ From(R[a], k, pass.unit)
          BY <1>3, <2>1, <3>2
        <4>2. k \in Int /\ Day(a) \in Int
          BY <2>1, HoursAre, DayOf DEF Uploaded
        <4>3. Day(a) =< Day(s) /\ Day(a) # Day(s)
          BY <1>3, <1>5, <1>9, <2>1, <3>2, DaysInOrder
        <4>4. Day(k) < Day(s)
          BY <1>7, <4>1, <4>2, <4>3
        <4>5. k < s
          BY <1>5, <4>2, <4>4, DaysInOrder
        <4> QED
          BY <4>1, <4>5
      <3> QED
        BY <3>1, <3>2
    <2> QED
      BY <1>1, <1>11, <2>1, <2>2, CountedIsDrawn
  <1>14. ASSUME pass.anchor # None PROVE ~IsGlitch(R[s].value, pass.anchor.state)
    <2> DEFINE a == pass.anchor.start
               y == [value |-> series[a].state, drawn |-> series[a].drawn]
    <2>1. a \in DOMAIN series /\ a \in Int /\ a < s /\ y.value = pass.anchor.state
      BY <1>10, <1>14
    <2> HIDE DEF a
    <2>2. \E k : From(y, k, pass.unit) /\ k < s
      <3>1. CASE ByTheHour(series, seriesUnit, a)
        BY <1>5, <2>1, <3>1 DEF ByTheHour, RowFrom
      <3>2. CASE Aged(Day(a), pass.now) /\ ByTheDay(series, seriesUnit, a)
        <4>1. PICK k \in Read : Day(k) = Day(a) /\ From(y, k, pass.unit)
          BY <1>5, <3>2 DEF ByTheDay, RowFrom
        <4>2. k \in Int /\ Day(a) \in Int
          BY <1>1, <2>1, HoursAre, DayOf, ShownTyped DEF WorldOK
        <4>3. Day(k) < Day(s)
          BY <1>6, <1>7, <3>2, <4>1, <4>2 DEF Aged
        <4>4. k < s
          BY <1>5, <4>2, <4>3, DaysInOrder
        <4> QED
          BY <4>1, <4>4
      <3> QED
        BY <1>4, <2>1, <3>1, <3>2 DEF Rooted
    <2> HIDE DEF y
    <2> QED
      BY <1>1, <1>11, <2>1, <2>2, CountedIsDrawn
  <1>15. s \in DOMAIN rows
    BY <1>11, <1>12, <1>13, <1>14 DEF Skipped
  <1> QED
    BY <1>15 DEF rows

\* The series after the import of a pass that does not rebuild it.
LEMMA UpsertedSound ==
  ASSUME HistoryTyped, SeriesFits, PassReaches, SeriesSound, GlitchFree,
         At("hourly"), NEW unit \in Units, Accepted(unit),
         NEW hourly, hourly = Upserted(pass.hourly, HourlySeries(WindowStart(pass), pass.upto, unit)),
         queue = <<>>, ~pass.rebuild \/ (entry = "removed" /\ series = NoRows),
         Sound(CollectedRows(pass, hourly), pass.unit, Uploaded, clock),
         CollectedRows(pass, hourly) \in TaskRows
  PROVE  Sound(Upserted(CollectedRows(pass, hourly), series), pass.unit, Uploaded, clock)
  <1> DEFINE rows == CollectedRows(pass, hourly)
             R == CollectedReadings(pass, hourly)
             all == Upserted(rows, series)
             A == pass.anchor.start
  <1>1. /\ WorldOK /\ pass # None /\ pass.pc = "hourly" /\ Fetching /\ pass \in Passes
        /\ pass.factor = unit /\ HourlySampled(hourly, unit) /\ DailySampled(pass.daily, unit)
        /\ pass.unit \in Units /\ pass.factor \in Units /\ pass.anchor \in Anchors \cup {None}
        /\ pass.now \in Int /\ pass.now =< clock /\ clock \in Int
    <2>1. /\ WorldOK /\ pass \in Passes /\ pass.factor = unit
          /\ HourlySampled(hourly, unit) /\ DailySampled(pass.daily, unit)
      BY WindowIs
    <2>2. pass.pc = "hourly" /\ pass # None /\ Fetching
      BY DEF At, Fetching
    <2> QED
      BY <2>1, <2>2, HoursAre DEF Passes, HistoryTyped, PassTyped, WorldOK, WorldTyped
  <1>2. RowsCount(rows, R, DOMAIN R, pass.anchor)
    BY <1>1, CollectedRowsCount
  <1>3. /\ DOMAIN R \subseteq Hours
        /\ \A t \in DOMAIN R : pass.anchor # None => t > pass.anchor.start
        /\ \A t \in DOMAIN R \ DOMAIN hourly : t = Midnight(Day(t))
    <2>1. \E x : x = R
      OBVIOUS
    <2> QED
      BY <1>1, <2>1, CollectedReadingsAre
  <1>4. /\ RowsTyped(rows, Hours) /\ rows # NoRows
    <2>1. \E x : x = rows
      OBVIOUS
    <2> QED
      BY <2>1, TaskRowsAre
  <1>5. RowsTyped(series, Hours)
    BY DEF HistoryTyped, StoreTyped
  <1>6. Sound(rows, pass.unit, Uploaded, clock)
    OBVIOUS
  <1>7. CASE series = NoRows
    <2> HIDE DEF rows
    <2>1. Upserted(rows, NoRows) = rows
      BY <1>4 DEF Upserted, RowsTyped, NoRows
    <2> QED
      BY <1>6, <1>7, <2>1 DEF rows
  <1>8. CASE series # NoRows
    <2>1. ~pass.rebuild /\ MeetsSeries(pass) /\ seriesUnit = pass.unit
          /\ AnchorFits(pass.anchor, pass.now)
      <3>1. ~pass.rebuild
        BY <1>8
      <3>2. MeetsSeries(pass)
        BY <1>1, <1>8 DEF SeriesFits, PassFits
      <3> QED
        BY <1>1, <1>8, <3>1, <3>2 DEF MeetsSeries
    <2>2. Rooted(series, pass.unit, Uploaded, pass.now) /\ LosesNothing(series, pass.unit)
      BY <1>1, <1>8, <2>1 DEF PassReaches, SeriesReached, SeriesSound, Sound
    <2>3. \A s \in DOMAIN series : s > pass.now - Overlap * DayLen => s \in DOMAIN rows
      BY <1>8, <2>1, OverlapRewritten
    <2>4. \A h \in DOMAIN hourly : Day(h) + HourlyRetention > Day(pass.now)
      <3>1. \A h \in DOMAIN pass.hourly : Day(h) + HourlyRetention > Day(pass.now)
        BY <1>1 DEF PassReaches, WindowsRecent
      <3>2. \A h \in DOMAIN HourlySeries(WindowStart(pass), pass.upto, unit) :
              h \in Hours /\ Day(h) + HourlyRetention > Day(clock)
        <4>1. WindowStart(pass) \in Int /\ pass.upto \in Int
          BY WindowIs DEF Passes
        <4>2. DOMAIN HourlySeries(WindowStart(pass), pass.upto, unit)
                = {k \in HourlyKept : k \in WindowStart(pass)..pass.upto}
          BY <1>1, <4>1, HourlySeriesIs
        <4>3. \A h \in HourlyKept : h \in Hours /\ Day(h) + HourlyRetention > Day(clock)
          BY DEF HourlyKept, Uploaded
        <4> QED
          BY <4>2, <4>3
      <3>3. Day(pass.now) =< Day(clock) /\ Day(pass.now) \in Int /\ Day(clock) \in Int
            /\ HourlyRetention \in Nat
        BY <1>1, DaysInOrder, DayOf, Windows
      <3>4. \A h \in Hours : Day(h) \in Int
        BY HoursAre, DayOf
      <3> QED
        BY <3>1, <3>2, <3>3, <3>4 DEF Upserted
    <2> HIDE DEF R, rows
    <2>5. /\ DOMAIN rows \subseteq DOMAIN R /\ DOMAIN rows \subseteq Hours
          /\ \A s \in DOMAIN rows : pass.anchor # None => s > A
          /\ Chained(rows) /\ Anchored(rows, DOMAIN R, pass.anchor)
      BY <1>2, <1>3 DEF RowsCount, RowsTyped
    <2>6. /\ DOMAIN all = DOMAIN rows \cup DOMAIN series /\ RowsTyped(all, Hours)
          /\ \A s \in DOMAIN rows : all[s] = rows[s]
          /\ \A s \in DOMAIN series \ DOMAIN rows : all[s] = series[s]
      BY <1>4, <1>5, UpsertedIs
    <2> HIDE DEF all, A
    <2>7. pass.anchor # None =>
            /\ A \in DOMAIN series /\ A \in Int /\ A =< pass.now - Overlap * DayLen
            /\ series[A].state = pass.anchor.state /\ series[A].sum = pass.anchor.sum
            /\ A \notin DOMAIN rows
      <3>1. pass.anchor # None => A \in Int
        BY <1>1, HoursAre DEF Anchors, A
      <3> QED
        BY <1>1, <2>1, <2>5, <3>1 DEF AnchorFits, A
    <2>8. \A s \in DOMAIN all : s \in Hours /\ s \in Int
      BY <2>6, HoursAre DEF RowsTyped
    \* Below the anchor the series is as it was, above it the rows are new.
    <2>9. ASSUME NEW s \in DOMAIN all, s \notin DOMAIN rows
          PROVE  pass.anchor # None /\ s \in DOMAIN series /\ all[s] = series[s] /\ s =< A
      <3>1. s \in DOMAIN series /\ all[s] = series[s] /\ ~(s > pass.now - Overlap * DayLen)
        BY <2>3, <2>6, <2>9
      <3> QED
        BY <2>1, <3>1 DEF AnchorFits, A
    <2>10. Rooted(all, pass.unit, Uploaded, clock)
      <3> SUFFICES ASSUME NEW s \in DOMAIN all
                   PROVE  \/ s \in Uploaded /\ s =< clock /\ ByTheHour(all, pass.unit, s)
                          \/ Aged(Day(s), clock) /\ ByTheDay(all, pass.unit, s)
        BY DEF Rooted
      <3>1. CASE s \in DOMAIN rows
        <4>1. CASE s \in Uploaded /\ s =< clock /\ ByTheHour(rows, pass.unit, s)
          BY <2>6, <3>1, <4>1 DEF ByTheHour
        <4>2. CASE Aged(Day(s), clock) /\ ByTheDay(rows, pass.unit, s)
          <5>1. ASSUME NEW t \in DOMAIN all, Day(t) = Day(s) PROVE t = s
            <6>1. CASE t \in DOMAIN rows
              BY <4>2, <5>1, <6>1 DEF ByTheDay
            <6>2. CASE t \notin DOMAIN rows
              <7>1. pass.anchor # None /\ t =< A /\ s > A /\ A \in Int
                BY <2>5, <2>7, <2>9, <3>1, <6>2
              <7>2. s =< t
                BY <2>8, <4>2, <5>1, DayOf DEF ByTheDay
              <7> QED
                BY <2>8, <7>1, <7>2
            <6> QED
              BY <6>1, <6>2
          <5> QED
            BY <2>6, <3>1, <4>2, <5>1 DEF ByTheDay
        <4> QED
          BY <1>6, <3>1, <4>1, <4>2 DEF Sound, Rooted
      <3>2. CASE s \notin DOMAIN rows
        <4>1. pass.anchor # None /\ s \in DOMAIN series /\ all[s] = series[s] /\ s =< A
          BY <2>9, <3>2
        <4>2. CASE s \in Uploaded /\ s =< pass.now /\ ByTheHour(series, pass.unit, s)
          BY <1>1, <2>8, <4>1, <4>2 DEF ByTheHour
        <4>3. CASE Aged(Day(s), pass.now) /\ ByTheDay(series, pass.unit, s)
          <5>1. ASSUME NEW t \in DOMAIN all, Day(t) = Day(s) PROVE t = s
            <6>1. CASE t \notin DOMAIN rows
              BY <2>9, <4>3, <5>1, <6>1 DEF ByTheDay
            <6>2. CASE t \in DOMAIN rows
              <7>1. t > A /\ A \in Int /\ s < t
                BY <2>5, <2>7, <2>8, <4>1, <6>2
              <7>2. t \in DOMAIN hourly
                <8>1. s = Midnight(Day(t)) /\ t # s
                  BY <2>8, <4>3, <5>1, <7>1 DEF ByTheDay
                <8> QED
                  BY <1>3, <2>5, <6>2, <8>1
              <7>3. Day(t) + HourlyRetention > Day(pass.now)
                BY <2>4, <7>2
              <7>4. Day(t) \in Int /\ Day(pass.now) \in Int /\ HourlyRetention \in Nat
                BY <1>1, <2>8, DayOf, Windows
              <7> QED
                BY <4>3, <5>1, <7>3, <7>4 DEF Aged
            <6> QED
              BY <6>1, <6>2
          <5>2. Aged(Day(s), clock)
            <6>1. Day(pass.now) =< Day(clock) /\ Day(pass.now) \in Int /\ Day(clock) \in Int
                  /\ Day(s) \in Int /\ HourlyRetention \in Nat
              BY <1>1, <2>8, DaysInOrder, DayOf, Windows
            <6> QED
              BY <4>3, <6>1 DEF Aged
          <5> QED
            BY <4>1, <4>3, <5>1, <5>2 DEF ByTheDay
        <4> QED
          BY <2>2, <4>1, <4>2, <4>3 DEF Rooted
      <3> QED
        BY <3>1, <3>2
    <2>11. LosesNothing(all, pass.unit)
      <3> SUFFICES ASSUME NEW a \in DOMAIN all, NEW b \in DOMAIN all, Precedes(all, a, b)
                   PROVE  Flows(all, pass.unit, a, b)
        BY DEF LosesNothing
      <3>1. a < b /\ \A s \in DOMAIN all : s =< a \/ b =< s
        BY DEF Precedes
      <3>2. CASE a \in DOMAIN rows /\ b \in DOMAIN rows
        <4>1. Precedes(rows, a, b)
          BY <2>6, <3>1, <3>2 DEF Precedes
        <4>2. Flows(rows, pass.unit, a, b)
          BY <1>6, <3>2, <4>1 DEF Sound, LosesNothing
        <4> QED
          BY <2>6, <3>2, <4>2 DEF Flows
      <3>3. CASE a \notin DOMAIN rows /\ b \notin DOMAIN rows
        <4>1. /\ a \in DOMAIN series /\ b \in DOMAIN series
              /\ all[a] = series[a] /\ all[b] = series[b]
          BY <2>9, <3>3
        <4>2. Precedes(series, a, b)
          BY <2>6, <3>1, <4>1 DEF Precedes
        <4>3. Flows(series, pass.unit, a, b)
          BY <2>2, <4>1, <4>2 DEF LosesNothing
        <4> QED
          BY <4>1, <4>3 DEF Flows
      <3>4. CASE a \in DOMAIN rows /\ b \notin DOMAIN rows
        <4>1. pass.anchor # None /\ b =< A /\ a > A /\ A \in Int
          BY <2>5, <2>7, <2>9, <3>4
        <4> QED
          BY <2>8, <3>1, <4>1
      <3>5. CASE a \notin DOMAIN rows /\ b \in DOMAIN rows
        <4>1. pass.anchor # None /\ a \in DOMAIN series /\ all[a] = series[a] /\ a =< A /\ b > A
          BY <2>5, <2>9, <3>5
        <4>2. A \in DOMAIN all /\ A \in Int
          BY <2>6, <2>7, <4>1
        <4>3. a = A
          BY <2>8, <3>1, <4>1, <4>2
        <4>4. NoneBefore(rows, b)
          <5>1. ASSUME NEW s \in DOMAIN rows PROVE b =< s
            <6>1. s \in DOMAIN all /\ s > A
              BY <2>5, <2>6, <4>1
            <6> QED
              BY <2>8, <3>1, <4>2, <4>3, <6>1
          <5> QED
            BY <5>1 DEF NoneBefore
        <4>5. /\ ~IsGlitch(rows[b].state, pass.anchor.state)
              /\ rows[b].sum = pass.anchor.sum + Delta(rows[b].state, pass.anchor.state)
          BY <2>5, <3>5, <4>1, <4>4 DEF Anchored
        <4>6. /\ ~IsGlitch(all[b].state, all[a].state)
              /\ all[b].sum = all[a].sum + Delta(all[b].state, all[a].state)
          BY <2>6, <2>7, <3>5, <4>1, <4>3, <4>5
        <4>7. all[a].sum \in Nat
          BY <2>6 DEF RowsTyped, Row
        <4>8. DOMAIN all \subseteq Hours
          BY <2>8
        <4>9. \E k, h \in Read : /\ k < h /\ RowFrom(all[a], k, pass.unit)
                                 /\ RowFrom(all[b], h, pass.unit)
          BY <1>1, <2>10, <3>1, <4>8, RowsInOrder
        <4> QED
          BY <1>1, <4>6, <4>7, <4>9, CountingFlows
      <3> QED
        BY <3>2, <3>3, <3>4, <3>5
    <2> QED
      BY <2>10, <2>11 DEF Sound, all, rows
  <1> QED
    BY <1>7, <1>8

WaterTraced == PassReaches /\ SeriesSound /\ ImportsSound

LEMMA SoundLater ==
  ASSUME NEW rows, DOMAIN rows \subseteq Hours, NEW unit, NEW up, NEW more, up \subseteq more,
         NEW now \in Int, NEW later \in Int, now =< later, Sound(rows, unit, up, now)
  PROVE  Sound(rows, unit, more, later)
  BY RootedLater DEF Sound

LEMMA SeriesSoundNow ==
  ASSUME home' = home, series' # NoRows => Sound(series', seriesUnit', Uploaded', clock')
  PROVE  SeriesSound'
  <1> SUFFICES ASSUME series' # NoRows PROVE (Sound(series, seriesUnit, Uploaded, clock))'
    BY DEF SeriesSound
  <1>1. Rooted(series, seriesUnit, Uploaded, clock)'
    <2>1. Rooted(series', seriesUnit', Uploaded', clock')
      BY DEF Sound
    <2> QED
      BY <2>1 DEF Rooted, ByTheHour, ByTheDay, RowFrom, From, Read, Aged, Uploaded
  <1>2. LosesNothing(series, seriesUnit)'
    <2>1. LosesNothing(series', seriesUnit')
      BY DEF Sound
    <2> QED
      BY <2>1 DEF LosesNothing, Flows, Precedes
  <1> QED
    BY <1>1, <1>2 DEF Sound

LEMMA ImportsSoundNow ==
  ASSUME home' = home,
         \A i \in DOMAIN queue' : queue'[i].kind = "import" =>
           /\ Sound(queue'[i].rows, queue'[i].unit, Uploaded', clock')
           /\ \/ \E j \in DOMAIN queue' : j < i /\ queue'[j] = Clear
              \/ Sound(Upserted(queue'[i].rows, series'), queue'[i].unit, Uploaded', clock')
  PROVE  ImportsSound'
  <1> SUFFICES ASSUME NEW i \in DOMAIN queue', queue'[i].kind = "import"
               PROVE  /\ (Sound(queue[i].rows, queue[i].unit, Uploaded, clock))'
                      /\ \/ \E j \in DOMAIN queue' : j < i /\ queue'[j] = Clear
                         \/ (Sound(Upserted(queue[i].rows, series), queue[i].unit, Uploaded, clock))'
    BY DEF ImportsSound
  <1>1. (Sound(queue[i].rows, queue[i].unit, Uploaded, clock))'
    <2>1. Rooted(queue[i].rows, queue[i].unit, Uploaded, clock)'
      <3>1. Rooted(queue'[i].rows, queue'[i].unit, Uploaded', clock')
        BY DEF Sound
      <3> QED
        BY <3>1 DEF Rooted, ByTheHour, ByTheDay, RowFrom, From, Read, Aged, Uploaded
    <2>2. LosesNothing(queue[i].rows, queue[i].unit)'
      <3>1. LosesNothing(queue'[i].rows, queue'[i].unit)
        BY DEF Sound
      <3> QED
        BY <3>1 DEF LosesNothing, Flows, Precedes
    <2> QED
      BY <2>1, <2>2 DEF Sound
  <1>2. ASSUME Sound(Upserted(queue'[i].rows, series'), queue'[i].unit, Uploaded', clock')
        PROVE  (Sound(Upserted(queue[i].rows, series), queue[i].unit, Uploaded, clock))'
    <2>1. Rooted(Upserted(queue[i].rows, series), queue[i].unit, Uploaded, clock)'
      <3>1. Rooted(Upserted(queue'[i].rows, series'), queue'[i].unit, Uploaded', clock')
        BY <1>2 DEF Sound
      <3> QED
        BY <3>1 DEF Rooted, ByTheHour, ByTheDay, RowFrom, From, Read, Aged, Uploaded
    <2>2. LosesNothing(Upserted(queue[i].rows, series), queue[i].unit)'
      <3>1. LosesNothing(Upserted(queue'[i].rows, series'), queue'[i].unit)
        BY <1>2 DEF Sound
      <3> QED
        BY <3>1 DEF LosesNothing, Flows, Precedes
    <2> QED
      BY <2>1, <2>2 DEF Sound
  <1> QED
    BY <1>1, <1>2

\* Time passes, buckets are uploaded, and the rows stay sound.
LEMMA SeriesStaysSound ==
  ASSUME HistoryTyped, SeriesSound, UNCHANGED <<series, seriesUnit>>, home' = home,
         Uploaded \subseteq Uploaded', clock' \in Int, clock =< clock'
  PROVE  SeriesSound'
  <1>1. clock \in Int /\ DOMAIN series \subseteq Hours
    BY HoursAre DEF HistoryTyped, WorldOK, WorldTyped, StoreTyped, RowsTyped
  <1>2. series # NoRows => Sound(series, seriesUnit, Uploaded', clock')
    BY <1>1, SoundLater DEF SeriesSound
  <1> QED
    BY <1>2, SeriesSoundNow

LEMMA ImportsStaySound ==
  ASSUME HistoryTyped, ImportsSound, series' = series, home' = home,
         Uploaded \subseteq Uploaded', clock' \in Int, clock =< clock',
         \A i \in DOMAIN queue' : queue'[i].kind = "import" => i \in DOMAIN queue /\ queue'[i] = queue[i],
         \A i \in DOMAIN queue : queue[i] = Clear => i \in DOMAIN queue' /\ queue'[i] = Clear
  PROVE  ImportsSound'
  <1>1. clock \in Int
    BY HoursAre DEF HistoryTyped, WorldOK, WorldTyped
  <1> SUFFICES ASSUME NEW i \in DOMAIN queue', queue'[i].kind = "import"
               PROVE  /\ Sound(queue'[i].rows, queue'[i].unit, Uploaded', clock')
                      /\ \/ \E j \in DOMAIN queue' : j < i /\ queue'[j] = Clear
                         \/ Sound(Upserted(queue'[i].rows, series'), queue'[i].unit, Uploaded', clock')
    BY ImportsSoundNow
  <1> DEFINE rows == queue[i].rows
             unit == queue[i].unit
             all == Upserted(rows, series)
  <1>2. i \in DOMAIN queue /\ queue'[i].rows = rows /\ queue'[i].unit = unit /\ queue[i].kind = "import"
    OBVIOUS
  <1>3. /\ Sound(rows, unit, Uploaded, clock)
        /\ \/ \E j \in DOMAIN queue : j < i /\ queue[j] = Clear
           \/ Sound(all, unit, Uploaded, clock)
    BY <1>2 DEF ImportsSound
  <1>4. RowsTyped(rows, Hours) /\ RowsTyped(series, Hours)
    <2>1. queue[i] \in Tasks
      BY <1>2 DEF HistoryTyped, StoreTyped
    <2> QED
      BY <1>2, <2>1, TaskKinds, TaskRowsAre DEF HistoryTyped, StoreTyped
  <1>5. DOMAIN rows \subseteq Hours /\ DOMAIN all \subseteq Hours
    BY <1>4 DEF RowsTyped, Upserted
  <1> HIDE DEF rows, unit, all
  <1>6. Sound(rows, unit, Uploaded', clock')
    BY <1>1, <1>3, <1>5, SoundLater
  <1>7. Sound(all, unit, Uploaded, clock) => Sound(all, unit, Uploaded', clock')
    BY <1>1, <1>5, SoundLater
  <1>8. Upserted(queue'[i].rows, series') = all
    BY <1>2 DEF all
  <1> QED
    BY <1>2, <1>3, <1>6, <1>7, <1>8

LEMMA RestReaches ==
  ASSUME HistoryTyped, PassReaches, home' = home, Uploaded \subseteq Uploaded', pass' = pass,
         series' = NoRows \/ (UNCHANGED <<series, seriesUnit>> /\ (queue' = <<>> => queue = <<>>))
  PROVE  PassReaches'
  <1>1. WindowsRecent'
    BY DEF PassReaches, WindowsRecent, Fetching
  <1>2. SeriesReached'
    <2>1. CASE series' = NoRows
      BY <2>1 DEF SeriesReached
    <2>2. CASE UNCHANGED <<series, seriesUnit>> /\ (queue' = <<>> => queue = <<>>)
      <3> SUFFICES ASSUME Fetching, queue = <<>>, series # NoRows
                   PROVE  SeriesReached'
        BY <2>2 DEF SeriesReached, Fetching
      <3>1. DOMAIN series \subseteq Hours /\ pass.now \in Int
        BY HoursAre DEF HistoryTyped, StoreTyped, RowsTyped, Fetching, PassTyped, Passes
      <3>2. Rooted(series, seriesUnit, Uploaded, pass.now)
        BY DEF PassReaches, SeriesReached
      <3>3. Rooted(series, seriesUnit, Uploaded', pass.now)
        BY <3>1, <3>2, RootedLater
      <3>4. Rooted(series, seriesUnit, Uploaded, pass.now)'
        BY <2>2, <3>3
           DEF Rooted, ByTheHour, ByTheDay, RowFrom, From, Read, Aged, Uploaded
      <3> QED
        BY <2>2, <3>4 DEF PassReaches, SeriesReached, Fetching
    <2> QED
      BY <2>1, <2>2
  <1> QED
    BY <1>1, <1>2 DEF PassReaches

LEMMA NoneReaches ==
  ASSUME ~Fetching'
  PROVE  PassReaches'
  BY DEF PassReaches, WindowsRecent, SeriesReached

LEMMA WorldKeepsTraces ==
  ASSUME HistoryTyped, WaterTraced, World
  PROVE  WaterTraced'
  <1>1. /\ home' = home /\ clock' \in Int /\ clock =< clock' /\ Uploaded \subseteq Uploaded'
        /\ series' = series /\ seriesUnit' = seriesUnit /\ queue' = queue /\ pass' = pass
    BY WorldStep DEF HistoryTyped, store
  <1>2. SeriesSound'
    BY <1>1, SeriesStaysSound DEF WaterTraced
  <1>3. ImportsSound'
    BY <1>1, ImportsStaySound DEF WaterTraced
  <1>4. PassReaches'
    BY <1>1, RestReaches DEF WaterTraced
  <1> QED
    BY <1>2, <1>3, <1>4 DEF WaterTraced

\* A step of a pass that leaves the world and the recorder alone.
LEMMA PassKeepsSound ==
  ASSUME HistoryTyped, WaterTraced, UNCHANGED <<world, store>>
  PROVE  SeriesSound' /\ ImportsSound'
  <1>1. /\ home' = home /\ clock' = clock /\ Uploaded' = Uploaded /\ clock \in Int
        /\ series' = series /\ seriesUnit' = seriesUnit /\ queue' = queue
    BY HoursAre DEF world, store, Uploaded, HistoryTyped, WorldOK, WorldTyped
  <1>2. SeriesSound'
    BY <1>1, SeriesStaysSound DEF WaterTraced
  <1>3. ImportsSound'
    BY <1>1, ImportsStaySound DEF WaterTraced
  <1> QED
    BY <1>2, <1>3

LEMMA StartPassKeepsTraces ==
  ASSUME HistoryTyped, WaterTraced, NEW bound \in BOOLEAN, StartPass(bound)
  PROVE  WaterTraced'
  <1>1. UNCHANGED <<world, store>> /\ pass' = NewPass(bound)
    BY DEF StartPass
  <1>2. /\ pass'.pc = "unit" /\ pass'.upto = clock /\ pass'.now = clock /\ pass'.hourly = NoRows
        /\ clock \in Int
    BY <1>1, HoursAre DEF NewPass, HistoryTyped, WorldOK, WorldTyped
  <1>3. WindowsRecent'
    BY <1>2 DEF WindowsRecent, NoRows
  <1>4. series # NoRows => Rooted(series, seriesUnit, Uploaded, clock)
    BY DEF WaterTraced, SeriesSound, Sound
  <1>5. SeriesReached'
    <2> SUFFICES ASSUME series # NoRows PROVE SeriesReached'
      BY <1>1 DEF SeriesReached, store
    <2>1. Rooted(series', seriesUnit', Uploaded', pass'.now)
      BY <1>1, <1>2, <1>4 DEF world, store, Uploaded
    <2>2. Rooted(series, seriesUnit, Uploaded, pass.now)'
      BY <1>1, <2>1
         DEF Rooted, ByTheHour, ByTheDay, RowFrom, From, Read, Aged, Uploaded, world
    <2> QED
      BY <1>2, <2>2 DEF SeriesReached
  <1> QED
    BY <1>1, <1>3, <1>5, PassKeepsSound DEF WaterTraced, PassReaches

\* A stage that fetches no hour.
LEMMA StageReaches ==
  ASSUME HistoryTyped, WaterTraced, HeldKnown, Fetching, pass.pc # "hourly", pass.hourly = NoRows,
         UNCHANGED <<world, store>>,
         pass'.now = pass.now, pass'.upto = pass.upto, pass'.hourly = NoRows,
         \A s \in DOMAIN series :
           (queue = <<>> /\ s > pass.now - Overlap * DayLen /\ pass'.pc \in {"daily", "hourly"}) =>
             pass'.from =< s
  PROVE  WaterTraced'
  <1>1. pass.upto = pass.now /\ pass.now \in Int
    BY HoursAre DEF HeldKnown, Fetching, HistoryTyped, PassTyped, Passes
  <1>2. WindowsRecent'
    BY <1>1 DEF WindowsRecent, NoRows
  <1>3. SeriesReached'
    <2> SUFFICES ASSUME queue = <<>>, series # NoRows PROVE SeriesReached'
      BY DEF SeriesReached, store
    <2>1. Rooted(series, seriesUnit, Uploaded, pass.now)
      BY DEF WaterTraced, PassReaches, SeriesReached
    <2>2. Rooted(series, seriesUnit, Uploaded, pass.now)'
      BY <2>1
         DEF Rooted, ByTheHour, ByTheDay, RowFrom, From, Read, Aged, Uploaded, world, store
    <2> QED
      BY <1>1, <2>2 DEF SeriesReached, store
  <1> QED
    BY <1>2, <1>3, PassKeepsSound DEF WaterTraced, PassReaches

LEMMA GoneKeepsTraces ==
  ASSUME HistoryTyped, WaterTraced, UNCHANGED <<world, store>>, ~Fetching'
  PROVE  WaterTraced'
  BY PassKeepsSound, NoneReaches DEF WaterTraced

LEMMA StagesKeepTraces ==
  ASSUME HistoryTyped, WaterTraced, HeldKnown,
         ReadStoredUnit \/ ReadAnchor \/ \E unit \in Units : Probe(unit) \/ FetchDaily(unit)
  PROVE  WaterTraced'
  <1>1. /\ UNCHANGED <<world, store>> /\ pass # None /\ pass \in Passes
        /\ pass.pc \in {"unit", "anchor", "probe", "daily"} /\ Fetching
        /\ pass.hourly = NoRows /\ WorldOK /\ pass.now \in Int /\ pass.now \in Hours
        /\ RowsTyped(series, Hours)
    <2>1. /\ UNCHANGED <<world, store>> /\ pass # None /\ pass \in Passes
          /\ pass.pc \in {"unit", "anchor", "probe", "daily"}
          /\ pass.hourly = NoRows /\ WorldOK
      BY DEF ReadStoredUnit, ReadAnchor, Probe, FetchDaily, At, HistoryTyped, PassTyped, PassSampled
    <2> QED
      BY <2>1, HoursAre DEF Passes, Fetching, HistoryTyped, StoreTyped
  <1>2. CASE ReadStoredUnit
    <2>1. /\ pass'.now = pass.now /\ pass'.upto = pass.upto /\ pass'.hourly = NoRows
          /\ pass'.pc \in {"anchor", "probe"}
      BY <1>1, <1>2 DEF ReadStoredUnit, Passes
    <2> QED
      BY <1>1, <2>1, StageReaches
  <1>3. CASE ReadAnchor
    <2> DEFINE a == Anchor(pass.now)
    <2>1. AnchorFits(a, pass.now) /\ a \in Anchors \cup {None}
      BY <1>1, AnchorIs
    <2>2. pass' = IF a = None THEN [pass EXCEPT !.pc = "probe"]
                  ELSE [pass EXCEPT !.pc = "daily", !.anchor = a,
                                    !.from = Midnight(Day(a.start) - Margin)]
      BY <1>3 DEF ReadAnchor
    <2> HIDE DEF a
    <2>3. /\ pass'.now = pass.now /\ pass'.upto = pass.upto /\ pass'.hourly = NoRows
          /\ IF a = None THEN pass'.pc = "probe"
             ELSE pass'.pc = "daily" /\ pass'.from = Midnight(Day(a.start) - Margin)
      BY <1>1, <2>2 DEF Passes
    <2>4. ASSUME NEW s \in DOMAIN series, s > pass.now - Overlap * DayLen, a # None
          PROVE  Midnight(Day(a.start) - Margin) =< s
      <3>1. s \in Int /\ a \in Anchors /\ a.start =< pass.now - Overlap * DayLen
        BY <1>1, <2>1, <2>4, HoursAre DEF RowsTyped, AnchorFits
      <3> QED
        BY <1>1, <2>4, <3>1, AnchorReaches
    <2> QED
      BY <1>1, <2>3, <2>4, StageReaches
  <1>4. ASSUME NEW unit \in Units, Probe(unit) PROVE WaterTraced'
    <2>1. CASE pass' = None
      BY <1>1, <2>1, GoneKeepsTraces DEF Fetching
    <2>2. CASE pass' # None
      <3> DEFINE start == ProbedStart(pass.now)
      <3>1. pass' = [pass EXCEPT !.pc = "daily", !.from = start, !.factor = unit]
        BY <1>4, <2>2 DEF Probe
      <3>2. \A h \in Uploaded : h > pass.now - Overlap * DayLen => start =< h
        BY <1>1, ProbedStartIs
      <3> HIDE DEF start
      <3>3. /\ pass'.now = pass.now /\ pass'.upto = pass.upto /\ pass'.hourly = NoRows
            /\ pass'.pc = "daily" /\ pass'.from = start
        BY <1>1, <3>1 DEF Passes
      <3>4. ASSUME NEW s \in DOMAIN series, queue = <<>>, s > pass.now - Overlap * DayLen
            PROVE  start =< s
        <4>1. series # NoRows
          BY DEF NoRows
        <4> QED
          BY <1>1, <3>2, <3>4, <4>1, OverlapByTheHour DEF WaterTraced
      <3> QED
        BY <1>1, <3>3, <3>4, StageReaches
    <2> QED
      BY <2>1, <2>2
  <1>5. ASSUME NEW unit \in Units, FetchDaily(unit) PROVE WaterTraced'
    <2> DEFINE daily == DailySeries(pass.from, pass.now, unit)
    <2>1. pass' = [pass EXCEPT !.pc = "hourly", !.factor = unit, !.daily = daily] /\ pass.pc = "daily"
      BY <1>5 DEF FetchDaily, At
    <2> HIDE DEF daily
    <2>2. /\ pass'.now = pass.now /\ pass'.upto = pass.upto
          /\ pass'.pc = "hourly" /\ pass'.from = pass.from /\ pass'.hourly = NoRows
      BY <1>1, <2>1 DEF Passes
    <2>3. ASSUME NEW s \in DOMAIN series, queue = <<>>, s > pass.now - Overlap * DayLen
          PROVE  pass.from =< s
      <3>1. series # NoRows
        BY DEF NoRows
      <3> QED
        BY <1>1, <2>1, <2>3, <3>1 DEF WaterTraced, PassReaches, SeriesReached
    <2> QED
      BY <1>1, <2>1, <2>2, <2>3, StageReaches
  <1> QED
    BY <1>2, <1>3, <1>4, <1>5

\* The hypothesis on a behaviour: a day is imported by its daily reading only
\* when it is out of the hourly retention.
DaysStandInAged ==
  \A unit \in Units : (FetchHourly(unit) /\ queue' # queue) =>
    LET hourly == Upserted(pass.hourly, HourlySeries(WindowStart(pass), pass.upto, unit))
    IN \A s \in DOMAIN CollectedReadings(pass, hourly) \ DOMAIN hourly : Aged(Day(s), clock)

\* One more window of the backwards walk.
LEMMA WalkReaches ==
  ASSUME HistoryTyped, WaterTraced, NEW unit \in Units, At("hourly"), Accepted(unit),
         UNCHANGED <<world, store>>, WindowStart(pass) > pass.from,
         pass' = [pass EXCEPT !.hourly = Upserted(@, HourlySeries(WindowStart(pass), pass.upto, unit)),
                              !.upto = WindowStart(pass)]
  PROVE  WaterTraced'
  <1> DEFINE start == WindowStart(pass)
             window == HourlySeries(start, pass.upto, unit)
             hourly == Upserted(pass.hourly, window)
  <1>1. /\ WorldOK /\ pass # None /\ pass \in Passes /\ pass.pc = "hourly" /\ Fetching
        /\ pass.now \in Int /\ pass.upto \in Int /\ pass.from \in Int /\ clock \in Int
        /\ pass.now =< clock
    BY HoursAre DEF At, Fetching, HistoryTyped, WorldOK, WorldTyped, PassTyped, Passes
  <1>2. /\ start \in Int
        /\ start = Midnight(Day(pass.upto) - HourlyChunk) \/ start = pass.from
    BY <1>1, WindowStartIs
  <1>3. DOMAIN window = {k \in HourlyKept : k \in start..pass.upto}
    BY <1>1, <1>2, HourlySeriesIs
  <1>4. DOMAIN hourly = DOMAIN pass.hourly \cup DOMAIN window
    BY DEF Upserted
  <1>5. /\ pass'.now = pass.now /\ pass'.upto = start /\ pass'.hourly = hourly
        /\ pass'.from = pass.from /\ pass'.pc = "hourly"
    BY <1>1 DEF Passes
  <1>6. pass.upto =< pass.now
    BY <1>1 DEF WaterTraced, PassReaches, WindowsRecent
  <1>7. start =< pass.now
    <2>1. /\ Midnight(Day(pass.upto)) =< pass.upto /\ Day(pass.upto) \in Int
          /\ HourlyChunk \in Nat
      BY <1>1, DayOf, Windows
    <2>2. /\ Midnight(Day(pass.upto) - HourlyChunk) =< Midnight(Day(pass.upto))
          /\ Midnight(Day(pass.upto) - HourlyChunk) \in Int /\ Midnight(Day(pass.upto)) \in Int
      BY <2>1, MidnightsInOrder
    <2> QED
      BY <1>1, <1>2, <1>6, <2>1, <2>2
  <1>8. ASSUME NEW h \in DOMAIN hourly
        PROVE  h =< pass.now /\ Day(h) + HourlyRetention > Day(pass.now)
    <2>1. CASE h \in DOMAIN pass.hourly
      BY <1>1, <2>1 DEF WaterTraced, PassReaches, WindowsRecent
    <2>2. CASE h \in DOMAIN window
      <3>1. h \in Uploaded /\ h =< pass.upto /\ Day(h) + HourlyRetention > Day(clock) /\ h \in Int
        BY <1>1, <1>2, <1>3, <2>2, HoursAre DEF HourlyKept, Uploaded
      <3>2. /\ Day(pass.now) =< Day(clock) /\ Day(pass.now) \in Int /\ Day(clock) \in Int
            /\ Day(h) \in Int /\ HourlyRetention \in Nat
        BY <1>1, <3>1, DaysInOrder, DayOf, Windows
      <3> QED
        BY <1>1, <1>6, <3>1, <3>2
    <2> QED
      BY <1>4, <1>8, <2>1, <2>2
  <1>9. ASSUME queue = <<>>, series # NoRows, NEW s \in DOMAIN series,
               s > pass.now - Overlap * DayLen
        PROVE  pass.from =< s /\ s \in DOMAIN hourly
    <2>1. /\ pass.from =< s
          /\ \/ pass.upto = pass.now /\ pass.hourly = NoRows
             \/ s \in DOMAIN pass.hourly
      BY <1>1, <1>9 DEF WaterTraced, PassReaches, SeriesReached
    <2>2. s \in Uploaded /\ s =< pass.now
      BY <1>1, <1>9, OverlapByTheHour DEF WaterTraced
    <2>3. CASE s \in DOMAIN pass.hourly
      BY <1>4, <2>1, <2>3
    <2>4. CASE pass.upto = pass.now
      <3>1. s \in DOMAIN window
        BY <1>9, <2>1, <2>2, <2>4, OverlapFetched
      <3> QED
        BY <1>4, <2>1, <3>1
    <2> QED
      BY <2>1, <2>3, <2>4
  <1> HIDE DEF start, window, hourly
  <1>10. WindowsRecent'
    BY <1>5, <1>7, <1>8 DEF WindowsRecent
  <1>11. SeriesReached'
    <2> SUFFICES ASSUME queue = <<>>, series # NoRows PROVE SeriesReached'
      BY DEF SeriesReached, store
    <2>1. Rooted(series, seriesUnit, Uploaded, pass.now)
      BY <1>1 DEF WaterTraced, PassReaches, SeriesReached
    <2>2. Rooted(series, seriesUnit, Uploaded, pass.now)'
      BY <1>5, <2>1
         DEF Rooted, ByTheHour, ByTheDay, RowFrom, From, Read, Aged, Uploaded, world, store
    <2> QED
      BY <1>5, <1>9, <2>2 DEF SeriesReached, store
  <1> QED
    BY <1>10, <1>11, PassKeepsSound DEF WaterTraced, PassReaches

LEMMA FetchHourlyKeepsTraces ==
  ASSUME HistoryTyped, SeriesFits, WaterTraced, GlitchFree, DaysStandInAged,
         NEW unit \in Units, FetchHourly(unit)
  PROVE  WaterTraced'
  <1> DEFINE start == WindowStart(pass)
             window == HourlySeries(start, pass.upto, unit)
             hourly == Upserted(pass.hourly, window)
             rows == CollectedRows(pass, hourly)
             tasks == ImportTasks(pass, rows)
             t == Import(pass.unit, rows)
  <1>1. /\ At("hourly") /\ Accepted(unit) /\ UNCHANGED <<world, series, seriesUnit, entry>>
        /\ \/ /\ window # NoRows /\ start > pass.from
              /\ pass' = [pass EXCEPT !.hourly = hourly, !.upto = start] /\ UNCHANGED queue
           \/ pass' = None /\ UNCHANGED queue
           \/ /\ rows # NoRows /\ rows \in TaskRows
              /\ pass' = [pass EXCEPT !.pc = "wait", !.hourly = NoRows, !.daily = NoRows]
              /\ queue' = queue \o tasks /\ tasks \in Seq(Tasks)
              /\ tasks = IF pass.rebuild THEN <<Clear, t, Marker>> ELSE <<t, Marker>>
              /\ t \in Tasks /\ t.kind = "import" /\ t.unit = pass.unit /\ t.rows = rows
    BY FetchHourlyIs
  <1>2. /\ pass # None /\ pass \in Passes /\ pass.pc = "hourly" /\ Fetching
        /\ pass.rebuild \in BOOLEAN
        /\ home' = home /\ clock' = clock /\ clock \in Int /\ Uploaded' = Uploaded
    BY <1>1, HoursAre
       DEF At, Fetching, HistoryTyped, PassTyped, WorldOK, WorldTyped, world, Passes, Uploaded
  <1>3. CASE start > pass.from /\ pass' = [pass EXCEPT !.hourly = hourly, !.upto = start] /\ UNCHANGED queue
    <2>1. pass' = [pass EXCEPT !.hourly = Upserted(@, HourlySeries(WindowStart(pass), pass.upto, unit)),
                               !.upto = WindowStart(pass)]
      BY <1>3
    <2> QED
      BY <1>1, <1>3, <2>1, WalkReaches DEF store
  <1>4. CASE pass' = None /\ UNCHANGED queue
    BY <1>1, <1>4, GoneKeepsTraces DEF store, Fetching
  <1>5. CASE /\ rows # NoRows /\ rows \in TaskRows
             /\ pass' = [pass EXCEPT !.pc = "wait", !.hourly = NoRows, !.daily = NoRows]
             /\ queue' = queue \o tasks /\ tasks \in Seq(Tasks)
             /\ tasks = IF pass.rebuild THEN <<Clear, t, Marker>> ELSE <<t, Marker>>
             /\ t \in Tasks /\ t.kind = "import" /\ t.unit = pass.unit /\ t.rows = rows
    <2> HIDE DEF tasks, t
    <2>1. PassReaches'
      <3>1. pass'.pc = "wait"
        BY <1>2, <1>5 DEF Passes
      <3> QED
        BY <3>1, NoneReaches DEF Fetching
    <2>2. SeriesSound'
      BY <1>1, <1>2, SeriesStaysSound DEF WaterTraced
    <2>3. PICK i \in DOMAIN queue' :
            /\ queue'[i] = t
            /\ \A j \in DOMAIN queue' : queue'[j].kind = "import" => j = i
            /\ (pass.rebuild \/ queue # <<>>) => \E j \in DOMAIN queue' : j < i /\ queue'[j] = Clear
      <3> HIDE DEF rows
      <3> QED
        BY <1>2, <1>5, QueuedImport
    <2>4. queue' # queue
      <3>1. CASE queue = <<>>
        BY <1>5, <2>3, <3>1
      <3>2. CASE queue # <<>>
        <4>1. queue = <<Clear>>
          BY <1>2, <3>2 DEF SeriesFits, RecorderIdle
        <4>2. queue[1].kind # "import" /\ DOMAIN queue = {1}
          BY <4>1 DEF Clear
        <4> HIDE DEF rows
        <4> QED
          BY <1>5, <2>3, <4>2
      <3> QED
        BY <3>1, <3>2
    <2>5. /\ \E x : x = hourly
          /\ Sound(rows, pass.unit, Uploaded, clock)
      <3>1. \A s \in DOMAIN CollectedReadings(pass, hourly) \ DOMAIN hourly : Aged(Day(s), clock)
        BY <2>4 DEF DaysStandInAged
      <3>2. \E x : x = hourly
        OBVIOUS
      <3> QED
        BY <1>1, <3>1, <3>2, CollectedRowsSound
    <2>6. \/ pass.rebuild \/ queue # <<>>
          \/ Sound(Upserted(rows, series), pass.unit, Uploaded, clock)
      <3> SUFFICES ASSUME ~pass.rebuild, queue = <<>>
                   PROVE  Sound(Upserted(rows, series), pass.unit, Uploaded, clock)
        OBVIOUS
      <3> QED
        BY <1>1, <1>5, <2>5, UpsertedSound DEF WaterTraced
    <2> HIDE DEF rows
    <2>7. ImportsSound'
      <3>1. ASSUME NEW j \in DOMAIN queue', queue'[j].kind = "import"
            PROVE  /\ Sound(queue'[j].rows, queue'[j].unit, Uploaded', clock')
                   /\ \/ \E k \in DOMAIN queue' : k < j /\ queue'[k] = Clear
                      \/ Sound(Upserted(queue'[j].rows, series'), queue'[j].unit, Uploaded', clock')
        <4>1. j = i /\ queue'[j].rows = rows /\ queue'[j].unit = pass.unit
          BY <1>5, <2>3, <3>1
        <4>2. series' = series
          BY <1>1
        <4> QED
          BY <1>2, <2>3, <2>5, <2>6, <4>1, <4>2
      <3> QED
        BY <1>2, <3>1, ImportsSoundNow
    <2> QED
      BY <2>1, <2>2, <2>7 DEF WaterTraced
  <1> QED
    BY <1>1, <1>3, <1>4, <1>5

LEMMA RecorderKeepsTraces ==
  ASSUME HistoryTyped, SeriesFits, WaterTraced, RecorderRuns
  PROVE  WaterTraced'
  <1>1. /\ queue \in Seq(Tasks) /\ queue # <<>> /\ queue' = Tail(queue)
        /\ queue[1] \in Tasks /\ 1 \in DOMAIN queue
        /\ \A i \in DOMAIN queue' : i \in Nat \ {0} /\ i + 1 \in DOMAIN queue /\ queue'[i] = queue[i + 1]
        /\ \A i \in DOMAIN queue : i = 1 \/ i - 1 \in DOMAIN queue'
        /\ UNCHANGED <<world, entry>>
    BY RecorderStep
  <1>2. \/ queue[1] = Clear /\ series' = NoRows /\ pass' = pass
        \/ /\ queue[1].kind = "import" /\ queue[1].unit \in Units /\ queue[1].rows \in TaskRows
           /\ series' = Upserted(queue[1].rows, series) /\ seriesUnit' = queue[1].unit
           /\ pass' = pass
        \/ /\ queue[1] = Marker /\ pass' = [pass EXCEPT !.pc = "drained"]
           /\ UNCHANGED <<series, seriesUnit>>
        \/ queue[1] = Orphan /\ UNCHANGED <<series, seriesUnit, pass>>
    BY RecorderTask
  <1>3. /\ home' = home /\ clock' = clock /\ clock \in Int /\ Uploaded' = Uploaded
    BY <1>1, HoursAre DEF world, Uploaded, HistoryTyped, WorldOK, WorldTyped
  <1>4. PassReaches'
    <2> SUFFICES ASSUME Fetching' PROVE PassReaches'
      BY NoneReaches
    <2>1. pass' = pass /\ Fetching
      <3>1. queue[1] = Marker => pass # None /\ pass \in Passes
        BY <1>1 DEF HistoryTyped, MarkersAwaited, PassTyped, At
      <3>2. pass' = pass \/ (pass # None /\ pass'.pc = "drained")
        BY <1>2, <3>1 DEF Passes
      <3> QED
        BY <3>2 DEF Fetching
    <2>2. queue = <<Clear>>
      BY <1>1, <2>1 DEF SeriesFits, RecorderIdle
    <2>3. series' = NoRows
      <3>1. queue[1] = Clear /\ Clear.kind = "clear" /\ Clear # Marker /\ Clear # Orphan
        BY <2>2 DEF Clear, Marker, Orphan
      <3> QED
        BY <1>2, <3>1
    <2> QED
      BY <1>3, <2>1, <2>3, RestReaches DEF WaterTraced
  <1>5. SeriesSound'
    <2>1. CASE series' = NoRows
      BY <2>1 DEF SeriesSound
    <2>2. CASE UNCHANGED <<series, seriesUnit>>
      BY <1>3, <2>2, SeriesStaysSound DEF WaterTraced
    <2>3. CASE /\ queue[1].kind = "import"
               /\ series' = Upserted(queue[1].rows, series) /\ seriesUnit' = queue[1].unit
      <3>1. \A j \in DOMAIN queue : ~(j < 1)
        BY <1>1
      <3>2. Sound(Upserted(queue[1].rows, series), queue[1].unit, Uploaded, clock)
        BY <1>1, <2>3, <3>1 DEF WaterTraced, ImportsSound
      <3>3. Sound(series', seriesUnit', Uploaded', clock')
        BY <1>3, <2>3, <3>2
      <3> QED
        BY <1>3, <3>3, SeriesSoundNow
    <2> QED
      BY <1>2, <2>1, <2>2, <2>3
  <1>6. ASSUME NEW i \in DOMAIN queue', queue'[i].kind = "import"
        PROVE  /\ Sound(queue'[i].rows, queue'[i].unit, Uploaded', clock')
               /\ \/ \E j \in DOMAIN queue' : j < i /\ queue'[j] = Clear
                  \/ Sound(Upserted(queue'[i].rows, series'), queue'[i].unit, Uploaded', clock')
    <2>1. i \in Nat \ {0} /\ i + 1 \in DOMAIN queue /\ queue'[i] = queue[i + 1]
      BY <1>1, <1>6
    <2> DEFINE rows == queue[i + 1].rows
               unit == queue[i + 1].unit
    <2>2. /\ queue[i + 1].kind = "import" /\ queue'[i].rows = rows /\ queue'[i].unit = unit
          /\ rows \in TaskRows
      <3>1. queue[i + 1] \in Tasks
        BY <1>1, <2>1
      <3> QED
        BY <1>6, <2>1, <3>1, TaskKinds
    <2>3. /\ Sound(rows, unit, Uploaded, clock)
          /\ \/ \E j \in DOMAIN queue : j < i + 1 /\ queue[j] = Clear
             \/ Sound(Upserted(rows, series), unit, Uploaded, clock)
      BY <2>1, <2>2 DEF WaterTraced, ImportsSound
    <2>4. queue[1].kind # "import"
      <3>1. i + 1 # 1
        BY <2>1
      <3>2. \A j \in DOMAIN queue : queue[j].kind = "import" => i + 1 = j
        BY <2>1, <2>2 DEF SeriesFits, ImportsFit
      <3> QED
        BY <1>1, <3>1, <3>2
    <2> HIDE DEF rows, unit
    <2>5. \/ \E j \in DOMAIN queue' : j < i /\ queue'[j] = Clear
          \/ Sound(Upserted(rows, series'), unit, Uploaded, clock)
      <3>1. CASE queue[1] = Clear
        <4>1. series' = NoRows
          <5>1. Clear # Marker /\ Clear # Orphan
            BY DEF Clear, Marker, Orphan
          <5> QED
            BY <1>2, <2>4, <3>1, <5>1
        <4>2. Upserted(rows, NoRows) = rows
          <5>1. rows = [s \in DOMAIN rows |-> rows[s]]
            BY <2>2 DEF TaskRows
          <5>2. DOMAIN NoRows = {}
            BY DEF NoRows
          <5> QED
            BY <5>1, <5>2 DEF Upserted
        <4> QED
          BY <2>3, <4>1, <4>2
      <3>2. CASE queue[1] # Clear
        <4>1. UNCHANGED <<series, seriesUnit>>
          BY <1>2, <2>4, <3>2
        <4>2. ASSUME NEW j \in DOMAIN queue, j < i + 1, queue[j] = Clear
              PROVE  \E k \in DOMAIN queue' : k < i /\ queue'[k] = Clear
          <5>1. j # 1 /\ j - 1 \in DOMAIN queue'
            BY <1>1, <3>2, <4>2
          <5>2. j - 1 \in Nat /\ queue'[j - 1] = queue[j - 1 + 1]
            BY <1>1, <5>1
          <5>3. j \in Nat
            BY <1>1
          <5>4. j - 1 + 1 = j /\ j - 1 < i
            BY <2>1, <4>2, <5>3
          <5>5. queue'[j - 1] = Clear
            BY <4>2, <5>2, <5>4
          <5> QED
            BY <5>1, <5>4, <5>5
        <4> QED
          BY <2>3, <4>1, <4>2
      <3> QED
        BY <3>1, <3>2
    <2> QED
      BY <1>3, <2>2, <2>3, <2>5
  <1>7. ImportsSound'
    BY <1>3, <1>6, ImportsSoundNow
  <1> QED
    BY <1>4, <1>5, <1>7 DEF WaterTraced

LEMMA AbandonKeepsTraces ==
  ASSUME HistoryTyped, WaterTraced, UNCHANGED <<world, series, seriesUnit>>, pass' = None,
         queue' = Abandoned(queue)
  PROVE  WaterTraced'
  <1>1. /\ DOMAIN queue' = DOMAIN queue
        /\ \A i \in DOMAIN queue : /\ queue[i] # Marker => queue'[i] = queue[i]
                                   /\ queue[i] = Marker => queue'[i] = Orphan
    BY AbandonedIs DEF HistoryTyped, StoreTyped
  <1>2. Orphan.kind # "import" /\ Clear # Marker
    BY DEF Orphan, Clear, Marker
  <1>3. /\ home' = home /\ clock' = clock /\ clock \in Int /\ Uploaded' = Uploaded
    BY HoursAre DEF world, Uploaded, HistoryTyped, WorldOK, WorldTyped
  <1>4. ImportsSound'
    <2>1. \A i \in DOMAIN queue' : queue'[i].kind = "import" => i \in DOMAIN queue /\ queue'[i] = queue[i]
      BY <1>1, <1>2
    <2>2. \A i \in DOMAIN queue : queue[i] = Clear => i \in DOMAIN queue' /\ queue'[i] = Clear
      BY <1>1, <1>2
    <2> QED
      BY <1>3, <2>1, <2>2, ImportsStaySound DEF WaterTraced
  <1>5. SeriesSound'
    BY <1>3, SeriesStaysSound DEF WaterTraced
  <1>6. PassReaches'
    BY NoneReaches DEF Fetching
  <1> QED
    BY <1>4, <1>5, <1>6 DEF WaterTraced

LEMMA PassEndsKeepTraces ==
  ASSUME HistoryTyped, WaterTraced, PassDone \/ PassFails \/ PassNeedsLogin
  PROVE  WaterTraced'
  <1>1. CASE PassFails
    BY <1>1, AbandonKeepsTraces DEF PassFails
  <1>2. CASE PassDone \/ PassNeedsLogin
    BY <1>2, GoneKeepsTraces DEF PassDone, PassNeedsLogin, Fetching
  <1> QED
    BY <1>1, <1>2

LEMMA EntryKeepsTraces ==
  ASSUME HistoryTyped, WaterTraced, Reload \/ RemoveEntry \/ Crash
  PROVE  WaterTraced'
  <1>1. /\ UNCHANGED <<world, series, seriesUnit>>
        /\ home' = home /\ clock' = clock /\ clock \in Int /\ Uploaded' = Uploaded
    BY HoursAre
       DEF Reload, RemoveEntry, Crash, world, Uploaded, HistoryTyped, WorldOK, WorldTyped
  <1>2. SeriesSound'
    BY <1>1, SeriesStaysSound DEF WaterTraced
  <1>3. CASE Reload
    <2>1. CASE pass' = None /\ queue' = Abandoned(queue)
      BY <1>1, <2>1, AbandonKeepsTraces
    <2>2. CASE UNCHANGED <<pass, queue>>
      <3>1. ImportsSound'
        BY <1>1, <2>2, ImportsStaySound DEF WaterTraced
      <3>2. PassReaches'
        BY <1>1, <2>2, RestReaches DEF WaterTraced
      <3> QED
        BY <1>2, <3>1, <3>2 DEF WaterTraced
    <2> QED
      BY <1>3, <2>1, <2>2 DEF Reload, EndBoundPass
  <1>4. CASE Crash
    <2>1. pass' = None /\ queue' = <<>>
      BY <1>4 DEF Crash
    <2>2. ImportsSound' /\ PassReaches'
      BY <2>1, NoneReaches DEF ImportsSound, Fetching
    <2> QED
      BY <1>2, <2>2 DEF WaterTraced
  <1>5. CASE RemoveEntry
    <2>1. PICK q \in Seq(Tasks) :
            /\ queue' = Append(q, Clear) /\ DOMAIN q = DOMAIN queue
            /\ \A i \in DOMAIN queue : q[i] = queue[i] \/ (queue[i] = Marker /\ q[i] = Orphan)
            /\ pass' = None \/ (pass' = pass /\ q = queue)
      <3>1. /\ Abandoned(queue) \in Seq(Tasks) /\ DOMAIN Abandoned(queue) = DOMAIN queue
            /\ \A i \in DOMAIN queue : /\ queue[i] # Marker => Abandoned(queue)[i] = queue[i]
                                       /\ queue[i] = Marker => Abandoned(queue)[i] = Orphan
        BY AbandonedIs DEF HistoryTyped, StoreTyped
      <3>2. queue \in Seq(Tasks)
        BY DEF HistoryTyped, StoreTyped
      <3> QED
        BY <1>5, <3>1, <3>2 DEF RemoveEntry
    <2>2. /\ Clear \in Tasks /\ Clear # Marker /\ Clear.kind # "import" /\ Orphan.kind # "import"
          /\ Marker.kind # "import"
      BY DEF Tasks, Clear, Marker, Orphan
    <2>3. /\ queue' # <<>>
          /\ \A i \in DOMAIN queue' : (i \in DOMAIN q /\ queue'[i] = q[i]) \/ queue'[i] = Clear
          /\ \A i \in DOMAIN q : i \in DOMAIN queue' /\ queue'[i] = q[i]
      BY <2>1, <2>2
    <2>4. ImportsSound'
      <3>1. \A i \in DOMAIN queue' : queue'[i].kind = "import" => i \in DOMAIN queue /\ queue'[i] = queue[i]
        BY <2>1, <2>2, <2>3
      <3>2. \A i \in DOMAIN queue : queue[i] = Clear => i \in DOMAIN queue' /\ queue'[i] = Clear
        BY <2>1, <2>2, <2>3
      <3> QED
        BY <1>1, <3>1, <3>2, ImportsStaySound DEF WaterTraced
    <2>5. PassReaches'
      <3>1. CASE pass' = None
        BY <3>1, NoneReaches DEF Fetching
      <3>2. CASE pass' = pass
        BY <1>1, <2>3, <3>2, RestReaches DEF WaterTraced
      <3> QED
        BY <2>1, <3>1, <3>2
    <2> QED
      BY <1>2, <2>4, <2>5 DEF WaterTraced
  <1> QED
    BY <1>3, <1>4, <1>5

LEMMA WaterTracedInit == Init => WaterTraced
  BY DEF Init, WaterTraced, PassReaches, WindowsRecent, SeriesReached, SeriesSound, ImportsSound,
         Fetching

LEMMA WaterTracedNext ==
  ASSUME PassesInOrder, WaterTraced, GlitchFree, [Next /\ DaysStandInAged]_vars
  PROVE  WaterTraced'
  <1>1. HistoryTyped /\ SeriesFits /\ HeldKnown
    BY DEF PassesInOrder
  <1>2. CASE UNCHANGED vars
    <2>1. /\ UNCHANGED <<world, store>> /\ pass' = pass
      BY <1>2 DEF vars
    <2>2. PassReaches'
      <3>1. home' = home /\ Uploaded' = Uploaded
        BY <2>1 DEF world, Uploaded
      <3> QED
        BY <1>1, <2>1, <3>1, RestReaches DEF WaterTraced, store
    <2> QED
      BY <1>1, <2>1, <2>2, PassKeepsSound DEF WaterTraced
  <1>3. CASE Next /\ DaysStandInAged
    <2>1. ASSUME NEW bound \in BOOLEAN, StartPass(bound) PROVE WaterTraced'
      BY <1>1, <2>1, StartPassKeepsTraces
    <2>2. ASSUME NEW unit \in Units, FetchHourly(unit) PROVE WaterTraced'
      BY <1>1, <1>3, <2>2, FetchHourlyKeepsTraces
    <2>3. CASE ReadStoredUnit \/ ReadAnchor \/ \E unit \in Units : Probe(unit) \/ FetchDaily(unit)
      BY <1>1, <2>3, StagesKeepTraces
    <2>4. CASE PassDone \/ PassFails \/ PassNeedsLogin
      BY <1>1, <2>4, PassEndsKeepTraces
    <2>5. CASE RecorderRuns
      BY <1>1, <2>5, RecorderKeepsTraces
    <2>6. CASE Reload \/ RemoveEntry \/ Crash
      BY <1>1, <2>6, EntryKeepsTraces
    <2>7. CASE World
      BY <1>1, <2>7, WorldKeepsTraces
    <2> QED
      BY <1>3, <2>1, <2>2, <2>3, <2>4, <2>5, <2>6, <2>7 DEF Next, Request
  <1> QED
    BY <1>2, <1>3

\* A series that is traced to its hours says what NoWaterLost says.
LEMMA TracedLosesNothing == WaterTraced => NoWaterLost
  <1> SUFFICES ASSUME WaterTraced, NEW a \in DOMAIN series, NEW b \in DOMAIN series, a < b,
                      \A s \in DOMAIN series : s =< a \/ b =< s
               PROVE  Flows(series, seriesUnit, a, b)
    BY DEF NoWaterLost, Flows
  <1>1. series # NoRows
    BY DEF NoRows
  <1>2. LosesNothing(series, seriesUnit)
    BY <1>1 DEF WaterTraced, SeriesSound, Sound
  <1>3. Precedes(series, a, b)
    BY DEF Precedes
  <1> QED
    BY <1>2, <1>3 DEF LosesNothing

\* Between two consecutive rows the sum grows by what the household drew, in
\* whatever order readings arrive, units change, passes fail and the recorder
\* works: for households whose meter repeats no water, one pass's tasks in the
\* recorder's queue at a time, and behaviours in which a pass imports a day by
\* its daily reading only when the cloud no longer keeps its hours
\* (build_meter_rows, _async_load_anchor, merge_resolutions).
THEOREM WaterIsNeverLost ==
  ASSUME QueueBound =< 1, GlitchFree
  PROVE  Spec /\ [][DaysStandInAged]_vars => []NoWaterLost
  <1>1. Init => WaterTraced
    BY WaterTracedInit
  <1>2. PassesInOrder /\ WaterTraced /\ [Next]_vars /\ [DaysStandInAged]_vars => WaterTraced'
    <2>1. ASSUME PassesInOrder, WaterTraced, [Next]_vars, [DaysStandInAged]_vars
          PROVE  WaterTraced'
      <3>1. [Next /\ DaysStandInAged]_vars
        BY <2>1
      <3> QED
        BY <2>1, <3>1, WaterTracedNext
    <2> QED
      BY <2>1
  <1>3. Spec => []PassesInOrder
    BY PassesInOrderAlways
  <1> QED
    BY <1>1, <1>2, <1>3, TracedLosesNothing, PTL DEF Spec

=============================================================================
