-------------------------- MODULE UsageAnalysisProofs --------------------------
(***************************************************************************)
(* Theorems about UsageAnalysis, for any household, any softener and any   *)
(* thresholds: what the recorder holds is the meter, a night called a leak *)
(* is one, a leak that is claimed is a fact, water that does not stop is   *)
(* found, what the certain hours are certain of, an absence that is        *)
(* claimed is one and a long one is seen, and a household every day of     *)
(* which is the same is forecast to the drop and is no anomaly.            *)
(*                                                                         *)
(* The meter is a sum over a set of hours, which the community modules     *)
(* fold.  The first part proves of that fold the two facts the rest needs: *)
(* the sum depends on the summands only, and any of them may be taken out. *)
(* The induction it takes is a least counterexample among the parts of a   *)
(* finite set, so that the statement is a set and no operator.             *)
(***************************************************************************)
EXTENDS UsageAnalysis, FiniteSetTheorems, WellFoundedInduction, TLAPS

-----------------------------------------------------------------------------
(* Least counterexamples.                                                  *)

\* A set of naturals has a least element.
LEMMA LeastElement ==
  ASSUME NEW S, S \subseteq Nat, S # {}
  PROVE  \E n \in S : \A m \in S : n =< m
  <1> DEFINE less == {p \in Nat \X Nat : p[1] < p[2]}
  <1>1. IsWellFoundedOn(less, Nat)
    BY NatLessThanWellFounded DEF OpToRel
  <1> HIDE DEF less
  <1>2. PICK n \in S : \A m \in S : <<m, n>> \notin less
    BY <1>1, WFMin
  <1>3. \A m \in S : ~(m < n)
    BY <1>2 DEF less
  <1>4. QED
    BY <1>2, <1>3

\* Induction over the naturals, with the statement as a set.
LEMMA Upward ==
  ASSUME NEW G, 0 \in G, \A n \in Nat : n \in G => n + 1 \in G
  PROVE  Nat \subseteq G
  <1>1. SUFFICES ASSUME Nat \ G # {} PROVE FALSE
    OBVIOUS
  <1>2. PICK n \in Nat \ G : \A m \in Nat \ G : n =< m
    BY <1>1, LeastElement
  <1>3. n # 0 /\ n - 1 \in Nat
    BY <1>2
  <1>4. n - 1 \in G
    BY <1>2, <1>3
  <1> QED
    BY <1>2, <1>3, <1>4

\* Induction over the parts of a finite set, with the statement as a set of parts.
LEMMA SmallestPart ==
  ASSUME NEW S, IsFiniteSet(S), NEW Bad \in SUBSET SUBSET S, Bad # {}
  PROVE  \E T \in Bad : \A U \in SUBSET T : U # T => U \notin Bad
  <1>1. IsWellFoundedOn(StrictSubsetOrdering(S), SUBSET S)
    BY FS_StrictSubsetOrderingWellFounded, FS_FiniteSubsetsOfFinite
  <1>2. PICK T \in Bad : \A U \in Bad : <<U, T>> \notin StrictSubsetOrdering(S)
    BY <1>1, WFMin
  <1>3. ASSUME NEW U \in SUBSET T, U # T, U \in Bad PROVE FALSE
    <2>1. <<U, T>> \in StrictSubsetOrdering(S)
      BY <1>3 DEF StrictSubsetOrdering
    <2> QED
      BY <1>2, <1>3, <2>1
  <1> QED
    BY <1>2, <1>3

-----------------------------------------------------------------------------
(* The sum of a function over a finite set.                                *)

\* What the fold adds for a set s of indices, g being its value for smaller ones.
SumBody(f, g, s) ==
  IF s = {} THEN 0 ELSE f[CHOOSE x \in s : TRUE] + g[s \ {CHOOSE x \in s : TRUE}]
SumTable(f, S) == CHOOSE g : g = [s \in SUBSET S |-> SumBody(f, g, s)]

LEMMA SumIsTabled ==
  ASSUME NEW f, NEW S
  PROVE  SumFunctionOnSet(f, S) = SumTable(f, S)[S]
  BY DEF SumFunctionOnSet, FoldFunctionOnSet, MapThenFoldSet, SumTable, SumBody

LEMMA BodyIsLocal ==
  ASSUME NEW f, NEW g, NEW h, NEW s,
         \A x \in s : g[s \ {x}] = h[s \ {x}]
  PROVE  SumBody(f, g, s) = SumBody(f, h, s)
  <1>1. CASE s = {}
    BY <1>1 DEF SumBody
  <1>2. CASE s # {}
    <2>1. (CHOOSE x \in s : TRUE) \in s
      BY <1>2
    <2> QED
      BY <1>2, <2>1 DEF SumBody
  <1> QED
    BY <1>1, <1>2


\* A table that is right for the parts of S with at most n members.
RightFor(f, g, S, n) ==
  \A s \in SUBSET S : Cardinality(s) =< n => g[s] = SumBody(f, g, s)

LEMMA TableExists ==
  ASSUME NEW f, NEW S, IsFiniteSet(S)
  PROVE  \E g : g = [s \in SUBSET S |-> SumBody(f, g, s)]
  <1> DEFINE Good == {n \in Nat : \E g : RightFor(f, g, S, n)}
  <1>1. \A s \in SUBSET S : /\ IsFiniteSet(s) /\ Cardinality(s) \in Nat
                            /\ Cardinality(s) = 0 => s = {}
    BY FS_Subset, FS_CardinalityType, FS_EmptySet
  <1>2. 0 \in Good
    <2> DEFINE zero == [s \in SUBSET S |-> 0]
    <2>1. ASSUME NEW s \in SUBSET S, Cardinality(s) =< 0
          PROVE  zero[s] = SumBody(f, zero, s)
      BY <1>1, <2>1 DEF SumBody
    <2>2. RightFor(f, zero, S, 0)
      BY <2>1 DEF RightFor
    <2> QED
      BY <2>2
  <1>3. ASSUME NEW n \in Nat, n \in Good PROVE n + 1 \in Good
    <2>1. PICK g : RightFor(f, g, S, n)
      BY <1>3
    <2> DEFINE h == [s \in SUBSET S |->
                       IF Cardinality(s) =< n THEN g[s] ELSE SumBody(f, g, s)]
    <2>2. ASSUME NEW s \in SUBSET S, Cardinality(s) =< n + 1
          PROVE  h[s] = SumBody(f, h, s)
      <3>1. h[s] = SumBody(f, g, s)
        BY <2>1 DEF RightFor
      <3>2. ASSUME NEW x \in s PROVE g[s \ {x}] = h[s \ {x}]
        <4>1. s \ {x} \in SUBSET S /\ Cardinality(s \ {x}) = Cardinality(s) - 1
          BY <1>1, FS_RemoveElement
        <4>2. Cardinality(s \ {x}) =< n
          BY <1>1, <2>2, <4>1
        <4> QED
          BY <4>1, <4>2
      <3>3. SumBody(f, g, s) = SumBody(f, h, s)
        <4> HIDE DEF h
        <4> QED
          BY <3>2, BodyIsLocal
      <3> QED
        BY <3>1, <3>3
    <2>3. RightFor(f, h, S, n + 1)
      BY <2>2 DEF RightFor
    <2> QED
      BY <2>3
  <1>4. Cardinality(S) \in Good
    <2> HIDE DEF Good
    <2>1. Cardinality(S) \in Nat
      BY <1>1
    <2>2. Nat \subseteq Good
      BY <1>2, <1>3, Upward
    <2> QED
      BY <2>1, <2>2
  <1>5. PICK g : RightFor(f, g, S, Cardinality(S))
    BY <1>4
  <1> DEFINE h == [s \in SUBSET S |-> g[s]]
  <1>6. ASSUME NEW s \in SUBSET S PROVE h[s] = SumBody(f, h, s)
    <2>1. g[s] = SumBody(f, g, s)
      BY <1>5, FS_Subset DEF RightFor
    <2>2. SumBody(f, g, s) = SumBody(f, h, s)
      BY BodyIsLocal
    <2> QED
      BY <2>1, <2>2
  <1>7. h = [s \in SUBSET S |-> SumBody(f, h, s)]
    BY <1>6
  <1> QED
    BY <1>7

LEMMA TableEquation ==
  ASSUME NEW f, NEW S, IsFiniteSet(S), NEW s \in SUBSET S
  PROVE  SumTable(f, S)[s] = SumBody(f, SumTable(f, S), s)
  <1>1. SumTable(f, S) = [t \in SUBSET S |-> SumBody(f, SumTable(f, S), t)]
    BY TableExists DEF SumTable
  <1> QED
    BY <1>1

\* Two tables agree, whatever else they hold, over functions that agree.
LEMMA TablesAgree ==
  ASSUME NEW f, NEW g, NEW S, NEW T, IsFiniteSet(S), IsFiniteSet(T), T \subseteq S,
         \A x \in T : f[x] = g[x]
  PROVE  SumTable(f, S)[T] = SumTable(g, T)[T]
  <1> DEFINE Bad == {U \in SUBSET T : SumTable(f, S)[U] # SumTable(g, T)[U]}
  <1>1. SUFFICES ASSUME Bad # {} PROVE FALSE
    OBVIOUS
  <1>2. PICK U \in Bad : \A V \in SUBSET U : V # U => V \notin Bad
    <2> HIDE DEF Bad
    <2>1. Bad \in SUBSET SUBSET T
      BY DEF Bad
    <2> QED
      BY <1>1, <2>1, SmallestPart
  <1>3. /\ SumTable(f, S)[U] = SumBody(f, SumTable(f, S), U)
        /\ SumTable(g, T)[U] = SumBody(g, SumTable(g, T), U)
    BY TableEquation
  <1>4. ASSUME NEW x \in U PROVE SumTable(f, S)[U \ {x}] = SumTable(g, T)[U \ {x}]
    BY <1>2
  <1>5. SumBody(f, SumTable(f, S), U) = SumBody(f, SumTable(g, T), U)
    BY <1>4, BodyIsLocal
  <1>6. SumBody(f, SumTable(g, T), U) = SumBody(g, SumTable(g, T), U)
    <2>1. CASE U = {}
      BY <2>1 DEF SumBody
    <2>2. CASE U # {}
      <3>1. (CHOOSE x \in U : TRUE) \in U
        BY <2>2
      <3> QED
        BY <2>2, <3>1 DEF SumBody
    <2> QED
      BY <2>1, <2>2
  <1> QED
    BY <1>2, <1>3, <1>5, <1>6

LEMMA SumIsLocal ==
  ASSUME NEW f, NEW g, NEW S, IsFiniteSet(S), \A x \in S : f[x] = g[x]
  PROVE  SumFunctionOnSet(f, S) = SumFunctionOnSet(g, S)
  <1>1. SumTable(f, S)[S] = SumTable(g, S)[S]
    BY TablesAgree
  <1> QED
    BY <1>1, SumIsTabled

LEMMA SumOfNone ==
  ASSUME NEW f
  PROVE  SumFunctionOnSet(f, {}) = 0
  BY SumIsTabled, TableEquation, FS_EmptySet DEF SumBody

LEMMA SumUnfolds ==
  ASSUME NEW f, NEW S, IsFiniteSet(S), S # {}
  PROVE  \E x \in S : SumFunctionOnSet(f, S) = f[x] + SumFunctionOnSet(f, S \ {x})
  <1> DEFINE x == CHOOSE y \in S : TRUE
  <1>1. x \in S
    OBVIOUS
  <1>2. SumTable(f, S)[S] = f[x] + SumTable(f, S)[S \ {x}]
    <2>1. SumTable(f, S)[S] = SumBody(f, SumTable(f, S), S)
      BY TableEquation
    <2> QED
      BY <2>1 DEF SumBody
  <1>3. SumTable(f, S)[S \ {x}] = SumTable(f, S \ {x})[S \ {x}]
    <2>1. IsFiniteSet(S \ {x})
      BY FS_RemoveElement
    <2> QED
      BY <2>1, TablesAgree
  <1> QED
    BY <1>1, <1>2, <1>3, SumIsTabled

LEMMA SumTyped ==
  ASSUME NEW f, NEW S, IsFiniteSet(S), \A x \in S : f[x] \in Nat
  PROVE  SumFunctionOnSet(f, S) \in Nat
  <1> DEFINE Bad == {T \in SUBSET S : SumFunctionOnSet(f, T) \notin Nat}
  <1>1. SUFFICES ASSUME Bad # {} PROVE FALSE
    OBVIOUS
  <1>2. PICK T \in Bad : \A U \in SUBSET T : U # T => U \notin Bad
    <2> HIDE DEF Bad
    <2>1. Bad \in SUBSET SUBSET S
      BY DEF Bad
    <2> QED
      BY <1>1, <2>1, SmallestPart
  <1>3. T # {} /\ IsFiniteSet(T)
    <2>1. T \in SUBSET S /\ SumFunctionOnSet(f, T) \notin Nat
      BY <1>2
    <2>2. SumFunctionOnSet(f, {}) \in Nat
      BY SumOfNone
    <2> QED
      BY <2>1, <2>2, FS_Subset
  <1>4. PICK x \in T : SumFunctionOnSet(f, T) = f[x] + SumFunctionOnSet(f, T \ {x})
    BY <1>3, SumUnfolds
  <1>5. SumFunctionOnSet(f, T \ {x}) \in Nat /\ f[x] \in Nat
    BY <1>2
  <1> QED
    BY <1>2, <1>4, <1>5

\* Any index may be taken out of a sum.
LEMMA SumTakesOut ==
  ASSUME NEW f, NEW S, IsFiniteSet(S), \A x \in S : f[x] \in Nat, NEW a \in S
  PROVE  SumFunctionOnSet(f, S) = f[a] + SumFunctionOnSet(f, S \ {a})
  <1> DEFINE Bad == {T \in SUBSET S :
                       \E y \in T : SumFunctionOnSet(f, T) # f[y] + SumFunctionOnSet(f, T \ {y})}
  <1>1. SUFFICES ASSUME Bad # {} PROVE FALSE
    OBVIOUS
  <1>2. PICK T \in Bad : \A U \in SUBSET T : U # T => U \notin Bad
    <2> HIDE DEF Bad
    <2>1. Bad \in SUBSET SUBSET S
      BY DEF Bad
    <2> QED
      BY <1>1, <2>1, SmallestPart
  <1>3. PICK y \in T : SumFunctionOnSet(f, T) # f[y] + SumFunctionOnSet(f, T \ {y})
    BY <1>2
  <1>4. IsFiniteSet(T) /\ T # {}
    BY <1>2, <1>3, FS_Subset
  <1>5. PICK x \in T : SumFunctionOnSet(f, T) = f[x] + SumFunctionOnSet(f, T \ {x})
    BY <1>4, SumUnfolds
  <1>6. x # y
    BY <1>3, <1>5
  <1>7. /\ SumFunctionOnSet(f, T \ {x}) = f[y] + SumFunctionOnSet(f, (T \ {x}) \ {y})
        /\ SumFunctionOnSet(f, T \ {y}) = f[x] + SumFunctionOnSet(f, (T \ {y}) \ {x})
    <2>1. T \ {x} \notin Bad /\ T \ {y} \notin Bad
      BY <1>2, <1>5, <1>3
    <2>2. T \ {x} \in SUBSET S /\ T \ {y} \in SUBSET S /\ y \in T \ {x} /\ x \in T \ {y}
      BY <1>2, <1>3, <1>5, <1>6
    <2> QED
      BY <2>1, <2>2
  <1>8. (T \ {x}) \ {y} = (T \ {y}) \ {x}
    OBVIOUS
  <1>9. SumFunctionOnSet(f, (T \ {x}) \ {y}) \in Nat /\ f[x] \in Nat /\ f[y] \in Nat
    <2>1. IsFiniteSet((T \ {x}) \ {y})
      BY <1>4, FS_RemoveElement
    <2> QED
      BY <2>1, SumTyped
  <1> DEFINE rest == SumFunctionOnSet(f, (T \ {x}) \ {y})
  <1>10. SumFunctionOnSet(f, T) = f[x] + (f[y] + rest)
    BY <1>5, <1>7
  <1>11. f[y] + SumFunctionOnSet(f, T \ {y}) = f[y] + (f[x] + rest)
    BY <1>7, <1>8
  <1>12. f[x] + (f[y] + rest) = f[y] + (f[x] + rest)
    <2> HIDE DEF rest
    <2>1. rest \in Nat /\ f[x] \in Nat /\ f[y] \in Nat
      BY <1>9 DEF rest
    <2> QED
      BY <2>1
  <1> QED
    BY <1>3, <1>10, <1>11, <1>12

-----------------------------------------------------------------------------
(* Days and hours.                                                         *)

LEMMA Clock ==
  /\ DayLen \in Nat \ {0} /\ Noon \in 0..(DayLen - 1)
  /\ NightStart \in Nat /\ NightEnd \in Nat /\ NightStart < NightEnd /\ NightEnd =< Noon
  /\ RunHour \in Nat /\ NightEnd =< RunHour /\ RunHour < Noon
  /\ NightStart \in 0..(DayLen - 1) /\ RunHour \in 0..(DayLen - 1)
  BY SeriesAssumption, DetectorAssumption, AnalysisAssumption

LEMMA HourOfDay ==
  ASSUME NEW d \in Int, NEW r \in 0..(DayLen - 1)
  PROVE  /\ (d * DayLen + r) \div DayLen = d
         /\ (d * DayLen + r) % DayLen = r
  <1>1. DayLen \in Nat \ {0}
    BY Clock
  <1>2. (d * DayLen + r) \div DayLen = d
    BY <1>1
  <1>3. (d * DayLen + r) % DayLen = r
    BY <1>1
  <1> QED
    BY <1>2, <1>3

LEMMA DaysInOrder ==
  ASSUME NEW a \in Int, NEW b \in Int
  PROVE  /\ a * DayLen \in Int
         /\ a =< b => a * DayLen =< b * DayLen
         /\ a < b => a * DayLen + DayLen =< b * DayLen
  <1>1. DayLen \in Nat \ {0}
    BY Clock
  <1>2. a * DayLen \in Int
    BY <1>1
  <1>3. a =< b => a * DayLen =< b * DayLen
    BY <1>1
  <1>4. a < b => a * DayLen + DayLen =< b * DayLen
    <2>1. SUFFICES ASSUME a < b PROVE a * DayLen + DayLen =< b * DayLen
      OBVIOUS
    <2>2. (a + 1) * DayLen =< b * DayLen
      BY <1>1, <2>1
    <2>3. (a + 1) * DayLen = a * DayLen + DayLen
      BY <1>1
    <2> QED
      BY <2>2, <2>3
  <1> QED
    BY <1>2, <1>3, <1>4

-----------------------------------------------------------------------------
(* What holds between two passes.                                          *)

Today == now \div DayLen

\* The regeneration of the night before the pass of a day.
Cycle(day) == [start |-> WindowStart(day), end |-> WindowStart(day) + 1]

\* The rows of a meter: a reading for each hour it moved and could say so.
Meter(u, off, upto) ==
  [h \in {k \in 0..(upto - 1) : u[k] > 0 /\ k \notin off} |-> SumFunctionOnSet(u, 0..h)]

HouseTyped ==
  /\ Today \in Nat /\ now = Today * DayLen + RunHour
  /\ used \in [0..(now - 1) -> Nat]
  /\ offline \subseteq 0..(now - 1)
  /\ device \in Devices
  /\ IsFiniteSet(regens)
  /\ \A r \in regens : \E d \in 1..Today : r = Cycle(d)
  /\ imported \in 0..now

\* The recorder holds the meter as far as the last import went.
RowsAreTheMeter == rows = Meter(used, offline, imported)

\* What is published is what the last pass made of it.
In == Inputs(device, now, rows, offline, regens, imported = now)
ResultIsCurrent == result = ComputeAnalytics(In)

Kept == HouseTyped /\ RowsAreTheMeter /\ ResultIsCurrent

LEMMA InitKept ==
  ASSUME Init
  PROVE  Kept
  <1>1. now = 0 * DayLen + RunHour /\ Today = 0
    BY Clock, HourOfDay DEF Init, Today
  <1>2. HouseTyped
    BY <1>1, Clock, FS_EmptySet DEF Init, HouseTyped
  <1>3. RowsAreTheMeter
    BY Clock DEF Init, RowsAreTheMeter, Meter, NoReadings
  <1>4. (imported = now) = TRUE
    BY DEF Init
  <1>5. ResultIsCurrent
    BY <1>4 DEF Init, ResultIsCurrent, In
  <1> QED
    BY <1>2, <1>3, <1>5 DEF Kept

\* The hours the meter has counted do not change with the hours after them.
LEMMA MeterIsLocal ==
  ASSUME NEW n \in Nat, NEW m \in 0..n, NEW u, NEW v, NEW off, NEW more,
         \A h \in 0..(n - 1) : u[h] = v[h],
         \A h \in 0..(n - 1) : h \in off <=> h \in more
  PROVE  Meter(u, off, m) = Meter(v, more, m)
  <1> DEFINE hours(w, o) == {k \in 0..(m - 1) : w[k] > 0 /\ k \notin o}
  <1>1. hours(u, off) = hours(v, more)
    OBVIOUS
  <1>2. ASSUME NEW h \in hours(u, off)
        PROVE  SumFunctionOnSet(u, 0..h) = SumFunctionOnSet(v, 0..h)
    <2>1. IsFiniteSet(0..h) /\ \A k \in 0..h : u[k] = v[k]
      BY FS_Interval
    <2> QED
      BY <2>1, SumIsLocal
  <1>3. [h \in hours(u, off) |-> SumFunctionOnSet(u, 0..h)]
          = [h \in hours(v, more) |-> SumFunctionOnSet(v, 0..h)]
    BY <1>1, <1>2
  <1> QED
    BY <1>3 DEF Meter

LEMMA MeterGrows ==
  ASSUME NEW u, NEW off, NEW m \in Nat, NEW n \in Nat, m =< n
  PROVE  Meter(u, off, n) = Upserted(Meter(u, off, m), NewRows(u, off, m, n))
  <1> DEFINE old == {k \in 0..(m - 1) : u[k] > 0 /\ k \notin off}
             new == {k \in m..(n - 1) : u[k] > 0 /\ k \notin off}
             all == {k \in 0..(n - 1) : u[k] > 0 /\ k \notin off}
             sum == [h \in all |-> SumFunctionOnSet(u, 0..h)]
  <1>1. all = old \cup new
    OBVIOUS
  <1>2. Meter(u, off, m) = [h \in old |-> sum[h]]
    BY <1>1 DEF Meter
  <1>3. NewRows(u, off, m, n) = [h \in new |-> sum[h]]
    BY <1>1 DEF NewRows
  <1>4. Meter(u, off, n) = [h \in all |-> sum[h]]
    BY DEF Meter
  <1> HIDE DEF old, new, all, sum
  <1>5. Upserted([h \in old |-> sum[h]], [h \in new |-> sum[h]])
          = [h \in old \cup new |-> sum[h]]
    BY DEF Upserted
  <1> QED
    BY <1>1, <1>2, <1>3, <1>4, <1>5

LEMMA NextRunIsTomorrow ==
  ASSUME HouseTyped
  PROVE  /\ NextRun(now) = (Today + 1) * DayLen + RunHour
         /\ NextRun(now) = now + DayLen
         /\ now \in Nat
  <1>1. Today \in Nat /\ now = Today * DayLen + RunHour
    BY DEF HouseTyped
  <1>2. now % DayLen = RunHour
    BY <1>1, Clock, HourOfDay
  <1>3. NextRun(now) = (Today + 1) * DayLen + RunHour
    BY <1>2, Clock DEF NextRun, Today
  <1>4. (Today + 1) * DayLen = Today * DayLen + DayLen /\ Today * DayLen \in Nat
    BY <1>1, Clock
  <1> QED
    BY <1>1, <1>3, <1>4, Clock

\* What the household draws until the next pass.
HoursDrawn(water, regenerates) ==
  [h \in DOMAIN used \cup now..(NextRun(now) - 1) |->
     IF h < now THEN used[h]
     ELSE water[h - now + 1]
          + (IF regenerates /\ h = Cycle(Today + 1).start THEN RegenUse ELSE 0)]

LEMMA PassIs ==
  ASSUME Pass
  PROVE  \E off \in Stretches, regenerates \in BOOLEAN, ok \in BOOLEAN, water \in Patterns :
           /\ UNCHANGED device
           /\ now' = NextRun(now)
           /\ offline' = offline \cup {now + i : i \in off}
           /\ regens' = IF regenerates THEN regens \cup {Cycle(Today + 1)} ELSE regens
           /\ used' = HoursDrawn(water, regenerates)
           /\ imported' = IF ok THEN now' ELSE imported
           /\ rows' = IF ok THEN Upserted(rows, NewRows(used', offline', imported, now')) ELSE rows
           /\ result' = ComputeAnalytics(Inputs(device, now', rows', offline', regens', ok))
           /\ failures' = IF ok THEN failures ELSE failures + 1
           /\ heard' = FireTransitions(result, result', heard)
  <1>1. PICK off \in Stretches, regenerates \in BOOLEAN, ok \in BOOLEAN, water \in Patterns :
          /\ UNCHANGED device
          /\ now' = NextRun(now)
          /\ offline' = offline \cup {now + i : i \in off}
          /\ regens' = IF regenerates THEN regens \cup {Cycle(Today + 1)} ELSE regens
          /\ used' = HoursDrawn(water, regenerates)
          /\ imported' = IF ok THEN now' ELSE imported
          /\ rows' = IF ok
                       THEN Upserted(rows, NewRows(HoursDrawn(water, regenerates), offline', imported, now'))
                       ELSE rows
          /\ Publish(Inputs(device, now', rows', offline', regens', ok))
          /\ failures' = IF ok THEN failures ELSE failures + 1
          /\ heard' = FireTransitions(result, result', heard)
    BY Zenon DEF Pass, HoursDrawn, Cycle, Today
  <1>2. result' = ComputeAnalytics(Inputs(device, now', rows', offline', regens', ok))
    BY <1>1, Zenon DEF Publish
  <1>3. rows' = IF ok THEN Upserted(rows, NewRows(used', offline', imported, now')) ELSE rows
    BY <1>1
  <1> QED
    BY <1>1, <1>2, <1>3

LEMMA PassKeeps ==
  ASSUME Kept, Pass
  PROVE  Kept'
  <1>1. /\ Today \in Nat /\ now = Today * DayLen + RunHour
        /\ used \in [0..(now - 1) -> Nat] /\ offline \subseteq 0..(now - 1)
        /\ imported \in 0..now /\ now \in Nat /\ HouseTyped
        /\ DayLen \in Nat \ {0}
    BY NextRunIsTomorrow, Clock DEF Kept, HouseTyped
  <1>2. NextRun(now) = (Today + 1) * DayLen + RunHour /\ NextRun(now) = now + DayLen
    BY <1>1, NextRunIsTomorrow
  <1>3. PICK off \in Stretches, regenerates \in BOOLEAN, ok \in BOOLEAN, water \in Patterns :
          /\ UNCHANGED device
          /\ now' = NextRun(now)
          /\ offline' = offline \cup {now + i : i \in off}
          /\ regens' = IF regenerates THEN regens \cup {Cycle(Today + 1)} ELSE regens
          /\ used' = HoursDrawn(water, regenerates)
          /\ imported' = IF ok THEN now' ELSE imported
          /\ rows' = IF ok THEN Upserted(rows, NewRows(used', offline', imported, now')) ELSE rows
          /\ result' = ComputeAnalytics(Inputs(device, now', rows', offline', regens', ok))
    BY PassIs
  <1>4. now' = now + DayLen /\ now' \in Nat /\ Today' = Today + 1
    <2>1. now' = (Today + 1) * DayLen + RunHour
      BY <1>2, <1>3
    <2>2. ((Today + 1) * DayLen + RunHour) \div DayLen = Today + 1
      <3>1. Today + 1 \in Int /\ RunHour \in 0..(DayLen - 1)
        BY <1>1, Clock
      <3> QED
        BY <3>1, HourOfDay
    <2>3. Today' = Today + 1
      BY <2>1, <2>2 DEF Today
    <2> QED
      BY <1>1, <1>2, <1>3, <2>3
  <1>5. /\ used' \in [0..(now' - 1) -> Nat]
        /\ \A h \in 0..(now - 1) : used'[h] = used[h]
    <2>1. DOMAIN used \cup now..(NextRun(now) - 1) = 0..(now' - 1)
      BY <1>1, <1>2, <1>4
    <2>2. used' = [h \in 0..(now' - 1) |->
                     IF h < now THEN used[h]
                     ELSE water[h - now + 1]
                          + (IF regenerates /\ h = Cycle(Today + 1).start THEN RegenUse ELSE 0)]
      BY <1>3, <2>1 DEF HoursDrawn
    <2>3. ASSUME NEW h \in 0..(now' - 1), ~(h < now)
          PROVE  water[h - now + 1]
                   + (IF regenerates /\ h = Cycle(Today + 1).start THEN RegenUse ELSE 0) \in Nat
      <3>1. h - now + 1 \in 1..DayLen
        BY <1>1, <1>4, <2>3
      <3>2. water[h - now + 1] \in Nat
        BY <3>1, AnalysisAssumption
      <3> QED
        BY <3>2, AnalysisAssumption
    <2>4. ASSUME NEW h \in 0..(now' - 1), h < now PROVE used[h] \in Nat
      BY <1>1, <2>4
    <2>5. \A h \in 0..(now' - 1) : used'[h] \in Nat
      BY <2>2, <2>3, <2>4
    <2>6. \A h \in 0..(now - 1) : h \in 0..(now' - 1)
      BY <1>1, <1>4
    <2>7. \A h \in 0..(now - 1) : used'[h] = used[h]
      BY <1>1, <2>2, <2>6
    <2> QED
      BY <2>2, <2>5, <2>7
  <1>6. /\ offline' \subseteq 0..(now' - 1)
        /\ \A h \in 0..(now - 1) : h \in offline <=> h \in offline'
    <2>1. off \subseteq 0..(DayLen - 1)
      BY AnalysisAssumption
    <2>2. \A h \in {now + i : i \in off} : h \in now..(now' - 1)
      BY <1>1, <1>4, <2>1
    <2>3. \A h \in 0..(now - 1) : h \notin now..(now' - 1) /\ h \in 0..(now' - 1)
      BY <1>1, <1>4
    <2>4. now..(now' - 1) \subseteq 0..(now' - 1)
      BY <1>1, <1>4
    <2> QED
      BY <1>1, <1>3, <2>2, <2>3, <2>4
  <1>7. IsFiniteSet(regens') /\ \A r \in regens' : \E d \in 1..Today' : r = Cycle(d)
    <2>1. IsFiniteSet(regens) /\ \A r \in regens : \E d \in 1..Today : r = Cycle(d)
      BY DEF Kept, HouseTyped
    <2>2. IsFiniteSet(regens')
      BY <1>3, <2>1, FS_AddElement
    <2>3. 1..Today \subseteq 1..Today' /\ Today + 1 \in 1..Today'
      BY <1>1, <1>4
    <2>4. \A r \in regens' : r \in regens \/ r = Cycle(Today + 1)
      BY <1>3
    <2> QED
      BY <2>1, <2>2, <2>3, <2>4
  <1>8. imported' \in 0..now' /\ ((imported' = now') = ok)
    BY <1>1, <1>3, <1>4
  <1>9. HouseTyped'
    <2>1. now' = Today' * DayLen + RunHour /\ Today' \in Nat
      BY <1>1, <1>2, <1>3, <1>4
    <2>2. device' \in Devices
      BY <1>3 DEF Kept, HouseTyped
    <2> QED
      BY <1>5, <1>6, <1>7, <1>8, <2>1, <2>2 DEF HouseTyped, Cycle
  <1>10. RowsAreTheMeter'
    <2>1. rows = Meter(used', offline', imported)
      <3>1. rows = Meter(used, offline, imported)
        BY DEF Kept, RowsAreTheMeter
      <3>2. Meter(used, offline, imported) = Meter(used', offline', imported)
        <4>1. \A h \in 0..(now - 1) : used[h] = used'[h]
          BY <1>5
        <4>2. \A h \in 0..(now - 1) : h \in offline <=> h \in offline'
          BY <1>6
        <4>3. now \in Nat /\ imported \in 0..now
          BY <1>1
        <4> QED
          BY <4>1, <4>2, <4>3, MeterIsLocal
      <3> QED
        BY <3>1, <3>2
    <2>2. CASE ok
      <3>1. imported' = now' /\ imported \in Nat /\ imported =< now'
        BY <1>1, <1>3, <1>4, <2>2
      <3>2. rows' = Upserted(rows, NewRows(used', offline', imported, now'))
        BY <1>3, <2>2
      <3> QED
        BY <1>4, <2>1, <3>1, <3>2, MeterGrows DEF RowsAreTheMeter, Meter
    <2>3. CASE ~ok
      BY <1>3, <2>1, <2>3 DEF RowsAreTheMeter, Meter
    <2> QED
      BY <2>2, <2>3
  <1>11. ResultIsCurrent'
    <2>1. result' = ComputeAnalytics(Inputs(device', now', rows', offline', regens', imported' = now'))
      BY <1>3, <1>8
    <2> QED
      BY <2>1 DEF ResultIsCurrent, In
  <1> QED
    BY <1>9, <1>10, <1>11 DEF Kept

\* Between any two passes of any run, what the household did is typed, the recorder
\* holds the meter as far as the last import went, whatever failed before, and the
\* published analytics is that of the last pass (_async_update_data).
THEOREM RecorderIsTheMeter == Spec => []Kept
  <1>1. Init => Kept
    BY InitKept
  <1>2. Kept /\ [Next]_vars => Kept'
    <2> SUFFICES ASSUME Kept, [Next]_vars PROVE Kept'
      OBVIOUS
    <2>1. CASE Next
      BY <2>1, PassKeeps DEF Next
    <2>2. CASE UNCHANGED vars
      BY <2>2 DEF vars, household, Kept, HouseTyped, Today, RowsAreTheMeter, ResultIsCurrent, In
    <2> QED
      BY <2>1, <2>2
  <1> QED
    BY <1>1, <1>2, PTL DEF Spec

-----------------------------------------------------------------------------
(* Bounds of sets of hours.                                                *)

LEMMA MinIsLeast ==
  ASSUME NEW S, S \subseteq Nat, S # {}
  PROVE  Min(S) \in S /\ \A m \in S : Min(S) =< m
  <1>1. \E n \in S : \A m \in S : n =< m
    BY LeastElement
  <1> QED
    BY <1>1 DEF Min

LEMMA MaxIsGreatest ==
  ASSUME NEW b \in Nat, NEW S, S \subseteq 0..b, S # {}
  PROVE  Max(S) \in S /\ \A m \in S : Max(S) >= m
  <1> DEFINE below == {b - x : x \in S}
  <1>1. below \subseteq Nat /\ below # {}
    <2>1. \A x \in S : x \in Int /\ x =< b
      OBVIOUS
    <2>2. \A x \in S : b - x \in Nat
      BY <2>1
    <2>3. PICK x \in S : TRUE
      OBVIOUS
    <2>4. b - x \in below
      BY <2>3
    <2> QED
      BY <2>2, <2>4
  <1>2. PICK n \in below : \A m \in below : n =< m
    <2> HIDE DEF below
    <2> QED
      BY <1>1, LeastElement
  <1>3. PICK x \in S : n = b - x
    BY <1>2
  <1>4. \A y \in S : b - x =< b - y
    BY <1>2, <1>3
  <1>5. \A y \in S : x >= y
    <2> SUFFICES ASSUME NEW y \in S PROVE x >= y
      OBVIOUS
    <2>1. x \in Nat /\ y \in Nat /\ b - x =< b - y
      BY <1>4
    <2> QED
      BY <2>1
  <1> QED
    BY <1>5 DEF Max

\* What bounded says, of readings that are hours.
LEMMA BoundedMeans ==
  ASSUME NEW readings, NEW n \in Nat, DOMAIN readings \subseteq 0..n,
         NEW start \in Int, NEW end \in Int
  PROVE  Bounded(readings, start, end) <=>
           /\ \E a \in DOMAIN readings : start - BoundSlack =< a /\ a =< start
           /\ \E b \in DOMAIN readings : end =< b /\ b =< end + BoundSlack
  <1> DEFINE before == {h \in DOMAIN readings : h =< start}
             after == {h \in DOMAIN readings : h >= end}
  <1>1. BoundSlack \in Nat /\ before \subseteq 0..n /\ after \subseteq Nat
    BY SeriesAssumption
  <1>2. (SeenBy(readings, start) /\ LastBy(readings, start) >= start - BoundSlack)
          <=> \E a \in DOMAIN readings : start - BoundSlack =< a /\ a =< start
    <2>1. CASE before = {}
      BY <2>1 DEF SeenBy
    <2>2. CASE before # {}
      <3>1. Max(before) \in before /\ \A m \in before : Max(before) >= m
        <4> HIDE DEF before
        <4> QED
          BY <1>1, <2>2, MaxIsGreatest
      <3>2. SeenBy(readings, start) /\ LastBy(readings, start) = Max(before)
        BY <2>2 DEF SeenBy, LastBy
      <3> DEFINE top == Max(before)
      <3>3. /\ top \in DOMAIN readings /\ top \in Nat /\ top =< start
            /\ \A m \in DOMAIN readings : m =< start => top >= m
        BY <1>1, <3>1
      <3> HIDE DEF top
      <3>4. (top >= start - BoundSlack)
              <=> \E a \in DOMAIN readings : start - BoundSlack =< a /\ a =< start
        BY <1>1, <3>3
      <3> QED
        BY <3>2, <3>4 DEF top
    <2> QED
      BY <2>1, <2>2
  <1>3. (SeenFrom(readings, end) /\ FirstFrom(readings, end) =< end + BoundSlack)
          <=> \E b \in DOMAIN readings : end =< b /\ b =< end + BoundSlack
    <2>1. CASE after = {}
      <3>1. \A k \in DOMAIN readings : ~(k >= end)
        BY <2>1
      <3>2. \A k \in DOMAIN readings : k \in Int
        OBVIOUS
      <3> QED
        BY <3>1, <3>2 DEF SeenFrom
    <2>2. CASE after # {}
      <3>1. Min(after) \in after /\ \A m \in after : Min(after) =< m
        <4> HIDE DEF after
        <4> QED
          BY <1>1, <2>2, MinIsLeast
      <3>2. SeenFrom(readings, end) /\ FirstFrom(readings, end) = Min(after)
        BY <2>2 DEF SeenFrom, FirstFrom
      <3> DEFINE least == Min(after)
      <3>3. /\ least \in DOMAIN readings /\ least \in Nat /\ end =< least
            /\ \A m \in DOMAIN readings : m >= end => least =< m
        BY <1>1, <3>1
      <3> HIDE DEF least
      <3>4. (least =< end + BoundSlack)
              <=> \E b \in DOMAIN readings : end =< b /\ b =< end + BoundSlack
        BY <1>1, <3>3
      <3> QED
        BY <3>2, <3>4 DEF least
    <2> QED
      BY <2>1, <2>2
  <1> QED
    BY <1>2, <1>3 DEF Bounded

-----------------------------------------------------------------------------
(* The meter goes up, and what the certain hours say of it.                *)

LEMMA MeterTyped ==
  ASSUME NEW u, NEW n \in Nat, \A h \in 0..n : u[h] \in Nat
  PROVE  SumFunctionOnSet(u, 0..n) \in Nat
  <1>1. IsFiniteSet(0..n)
    BY FS_Interval
  <1> QED
    BY <1>1, SumTyped

\* An hour adds what was drawn in it.
LEMMA MeterStep ==
  ASSUME NEW u, NEW n \in Nat, \A h \in 0..(n + 1) : u[h] \in Nat
  PROVE  SumFunctionOnSet(u, 0..(n + 1)) = u[n + 1] + SumFunctionOnSet(u, 0..n)
  <1>1. IsFiniteSet(0..(n + 1)) /\ n + 1 \in 0..(n + 1)
    BY FS_Interval
  <1>2. (0..(n + 1)) \ {n + 1} = 0..n
    OBVIOUS
  <1>3. SumFunctionOnSet(u, 0..(n + 1)) = u[n + 1] + SumFunctionOnSet(u, (0..(n + 1)) \ {n + 1})
    BY <1>1, SumTakesOut
  <1> QED
    BY <1>2, <1>3

LEMMA MeterGoesUp ==
  ASSUME NEW u, NEW a \in Nat, NEW b \in Nat, a < b, \A h \in 0..b : u[h] \in Nat
  PROVE  SumFunctionOnSet(u, 0..b) >= SumFunctionOnSet(u, 0..a) + u[b]
  <1> DEFINE sum(n) == SumFunctionOnSet(u, 0..n)
             G == {j \in Nat : a + j < b => sum(a + j) >= sum(a)}
  <1>1. \A n \in 0..b : sum(n) \in Nat
    BY MeterTyped
  <1>2. 0 \in G
    BY <1>1
  <1>3. ASSUME NEW j \in Nat, j \in G, a + (j + 1) < b PROVE sum(a + (j + 1)) >= sum(a)
    <2>1. a + j \in Nat /\ a + j \in 0..b /\ (a + j) + 1 \in 0..b /\ a + (j + 1) = (a + j) + 1
      BY <1>3
    <2>2. sum((a + j) + 1) = u[(a + j) + 1] + sum(a + j)
      BY <2>1, MeterStep
    <2>3. sum(a + j) >= sum(a) /\ u[(a + j) + 1] \in Nat
      BY <1>3, <2>1
    <2>4. sum(a + j) \in Nat /\ sum(a) \in Nat /\ sum((a + j) + 1) \in Nat
      BY <1>1, <2>1
    <2> HIDE DEF sum
    <2>5. sum((a + j) + 1) >= sum(a)
      BY <2>2, <2>3, <2>4
    <2> QED
      BY <2>1, <2>5
  <1>4. Nat \subseteq G
    <2>1. \A j \in Nat : j \in G => j + 1 \in G
      BY <1>3
    <2> HIDE DEF G
    <2> QED
      BY <1>2, <2>1, Upward
  <1>5. b - 1 - a \in Nat /\ a + (b - 1 - a) = b - 1 /\ b - 1 < b /\ b - 1 \in Nat
    OBVIOUS
  <1>6. sum(b - 1) >= sum(a)
    BY <1>4, <1>5
  <1>7. sum((b - 1) + 1) = u[(b - 1) + 1] + sum(b - 1)
    BY <1>5, MeterStep
  <1>8. sum(b) = u[b] + sum(b - 1)
    BY <1>7
  <1>9. sum(b) \in Nat /\ sum(b - 1) \in Nat /\ sum(a) \in Nat /\ u[b] \in Nat
    BY <1>1
  <1> HIDE DEF sum
  <1>10. sum(b) >= sum(a) + u[b]
    BY <1>6, <1>8, <1>9
  <1> QED
    BY <1>10 DEF sum

\* Readings of the meter u in hours before n.
ReadingsOf(readings, u, n) ==
  /\ DOMAIN readings \subseteq 0..(n - 1)
  /\ \A h \in 0..(n - 1) : u[h] \in Nat
  /\ \A h \in DOMAIN readings : u[h] > 0 /\ readings[h] = SumFunctionOnSet(u, 0..h)

LEMMA NextReading ==
  ASSUME NEW u, NEW n \in Nat, NEW readings, ReadingsOf(readings, u, n),
         NEW p \in Intervals(readings)
  PROVE  /\ p = <<p[1], p[2]>>
         /\ p[1] \in DOMAIN readings /\ p[2] \in DOMAIN readings
         /\ p[1] \in Nat /\ p[2] \in Nat /\ p[1] < p[2]
         /\ Delta(readings, p) \in Int /\ Delta(readings, p) >= u[p[2]] /\ u[p[2]] > 0
  <1>1. PICK h \in DOMAIN readings : SeenFrom(readings, h + 1) /\ p = <<h, FirstFrom(readings, h + 1)>>
    BY DEF Intervals
  <1> DEFINE later == {k \in DOMAIN readings : k >= h + 1}
  <1>2. later \subseteq Nat /\ later # {}
    BY <1>1 DEF SeenFrom, ReadingsOf
  <1>3. FirstFrom(readings, h + 1) \in later
    <2> HIDE DEF later
    <2>1. Min(later) \in later
      BY <1>2, MinIsLeast
    <2> QED
      BY <2>1 DEF FirstFrom, later
  <1>4. p[1] = h /\ p[2] = FirstFrom(readings, h + 1)
    BY <1>1
  <1>5. p[1] \in 0..(n - 1) /\ p[2] \in 0..(n - 1) /\ p[1] < p[2] /\ p[2] \in DOMAIN readings
    BY <1>1, <1>3, <1>4 DEF ReadingsOf
  <1> DEFINE a == p[1]
             b == p[2]
  <1>6. a \in Nat /\ b \in Nat /\ a < b /\ \A k \in 0..b : u[k] \in Nat
    BY <1>5 DEF ReadingsOf
  <1>7. u[b] > 0 /\ readings[a] = SumFunctionOnSet(u, 0..a) /\ readings[b] = SumFunctionOnSet(u, 0..b)
    BY <1>1, <1>4, <1>5 DEF ReadingsOf
  <1> HIDE DEF a, b
  <1>8. readings[b] >= readings[a] + u[b]
    BY <1>6, <1>7, MeterGoesUp
  <1>9. readings[b] \in Nat /\ readings[a] \in Nat /\ u[b] \in Nat
    BY <1>6, <1>7, MeterTyped
  <1>10. readings[b] - readings[a] \in Int /\ readings[b] - readings[a] >= u[b]
    BY <1>8, <1>9
  <1>11. Delta(readings, p) = readings[b] - readings[a]
    BY DEF Delta, a, b
  <1> QED
    BY <1>1, <1>4, <1>5, <1>6, <1>7, <1>10, <1>11 DEF a, b

\* Of a counter that only moves when water does, no interval is dry, and what an
\* interval of one hour is certain of is the water of the hour that ends it.
LEMMA CertainOfTheNext ==
  ASSUME NEW u, NEW n \in Nat, NEW readings, ReadingsOf(readings, u, n)
  PROVE  /\ DryHours(readings) = {}
         /\ \A h \in DOMAIN HourKnowledge(readings) :
              /\ h + 1 \in DOMAIN readings
              /\ HourKnowledge(readings)[h] = u[h + 1] /\ u[h + 1] > 0
  <1>1. DryHours(readings) = {}
    <2>1. ASSUME NEW q \in Intervals(readings), Delta(readings, q) = 0 PROVE FALSE
      <3>1. Delta(readings, q) >= u[q[2]] /\ u[q[2]] > 0 /\ q[2] \in DOMAIN readings
        BY NextReading
      <3>2. u[q[2]] \in Nat
        BY <3>1 DEF ReadingsOf
      <3> QED
        BY <2>1, <3>1, <3>2
    <2>2. {q \in Intervals(readings) : Delta(readings, q) = 0} = {}
      BY <2>1
    <2> QED
      BY <2>2 DEF DryHours
  <1>2. HourKnowledge(readings) = [h \in PinnedHours(readings) |-> readings[h + 1] - readings[h]]
    BY <1>1 DEF HourKnowledge
  <1>3. ASSUME NEW h \in PinnedHours(readings)
        PROVE  /\ h + 1 \in DOMAIN readings /\ u[h + 1] > 0
               /\ readings[h + 1] - readings[h] = u[h + 1]
    <2>1. PICK q \in Intervals(readings) : q[2] = q[1] + 1 /\ h = q[1]
      BY DEF PinnedHours
    <2>2. /\ h \in DOMAIN readings /\ h + 1 \in DOMAIN readings /\ h \in Nat
          /\ u[h + 1] > 0
      BY <2>1, NextReading
    <2>3. h + 1 \in 0..(n - 1)
      BY <2>2 DEF ReadingsOf
    <2>4. \A k \in 0..(h + 1) : u[k] \in Nat
      BY <2>2, <2>3 DEF ReadingsOf
    <2>5. SumFunctionOnSet(u, 0..(h + 1)) = u[h + 1] + SumFunctionOnSet(u, 0..h)
      BY <2>2, <2>4, MeterStep
    <2>6. SumFunctionOnSet(u, 0..h) \in Nat /\ u[h + 1] \in Nat
      BY <2>2, <2>4, MeterTyped
    <2>7. readings[h + 1] = u[h + 1] + readings[h] /\ readings[h] \in Nat
      BY <2>2, <2>5, <2>6 DEF ReadingsOf
    <2> QED
      BY <2>2, <2>6, <2>7
  <1> QED
    BY <1>1, <1>2, <1>3

\* What the recorder holds, and the part of it a pass reads, are readings of what
\* the household drew.
LEMMA RecorderReads ==
  ASSUME Kept
  PROVE  /\ now \in Nat
         /\ ReadingsOf(rows, used, now)
         /\ ReadingsOf(In.readings, used, now)
         /\ DOMAIN rows = {h \in 0..(imported - 1) : used[h] > 0 /\ h \notin offline}
         /\ DOMAIN In.readings = {h \in DOMAIN rows : h >= now - BaselineDays * DayLen}
  <1>1. now \in Nat /\ imported \in 0..now /\ used \in [0..(now - 1) -> Nat]
    BY NextRunIsTomorrow DEF Kept, HouseTyped
  <1>2. rows = Meter(used, offline, imported)
    BY DEF Kept, RowsAreTheMeter
  <1>3. DOMAIN rows = {h \in 0..(imported - 1) : used[h] > 0 /\ h \notin offline}
    BY <1>2 DEF Meter
  <1>4. \A h \in DOMAIN rows : rows[h] = SumFunctionOnSet(used, 0..h)
    BY <1>2 DEF Meter
  <1>5. DOMAIN rows \subseteq 0..(now - 1)
    BY <1>1, <1>3
  <1>6. ReadingsOf(rows, used, now)
    BY <1>1, <1>3, <1>4, <1>5 DEF ReadingsOf
  <1>7. In.readings = [h \in {k \in DOMAIN rows : k >= now - BaselineDays * DayLen} |-> rows[h]]
    BY DEF In, Inputs, LoadReadings, Restrict
  <1>8. ReadingsOf(In.readings, used, now)
    BY <1>6, <1>7 DEF ReadingsOf
  <1> QED
    BY <1>1, <1>3, <1>6, <1>7, <1>8

\* hour_knowledge is certain of the wrong hour, for any household: what it says of an
\* hour is the water of the one that follows (series.py, hour_knowledge).
THEOREM CertainHoursRunAhead == Spec => []CertainHoursAreTheNext
  <1>1. Kept => CertainHoursAreTheNext
    <2> SUFFICES ASSUME Kept PROVE CertainHoursAreTheNext
      OBVIOUS
    <2>1. now \in Nat /\ ReadingsOf(rows, used, now)
      BY RecorderReads
    <2>2. \A h \in DOMAIN HourKnowledge(rows) :
            /\ h + 1 \in DOMAIN rows
            /\ HourKnowledge(rows)[h] = used[h + 1] /\ used[h + 1] > 0
      BY <2>1, CertainOfTheNext
    <2>3. DOMAIN rows \subseteq DOMAIN used
      BY <2>1 DEF ReadingsOf, Kept, HouseTyped
    <2> QED
      BY <2>2, <2>3 DEF CertainHoursAreTheNext, Wet
  <1> QED
    BY <1>1, RecorderIsTheMeter, PTL

-----------------------------------------------------------------------------
(* Nights.                                                                 *)

Dry(in, knowledge, night) ==
  \E h \in WindowHours(night) : \/ h \notin ReadingHours(in.readings)
                                \/ h \in WindowHours(night) \cap DOMAIN knowledge /\ knowledge[h] = 0

LEMMA NightVerdicts ==
  ASSUME NEW in, NEW knowledge, NEW night
  PROVE  /\ ClassifyNight(in, knowledge, night).verdict = "leak" <=>
              /\ ~Masked(in.regens, night)
              /\ Bounded(in.readings, WindowStart(night), WindowEnd(night))
              /\ ~Dry(in, knowledge, night)
              /\ Covered(in.coverage, night)
         /\ ClassifyNight(in, knowledge, night).verdict = "no_leak" => Dry(in, knowledge, night)
  <1> DEFINE verdict ==
               IF Masked(in.regens, night) THEN "masked"
               ELSE IF ~Bounded(in.readings, WindowStart(night), WindowEnd(night)) THEN "unassessed"
               ELSE IF Dry(in, knowledge, night) THEN "no_leak"
               ELSE IF ~Covered(in.coverage, night) THEN "unknown"
               ELSE "leak"
  <1>1. ClassifyNight(in, knowledge, night).verdict = verdict
    BY DEF ClassifyNight, Dry
  <1>2. verdict = "leak" <=>
              /\ ~Masked(in.regens, night)
              /\ Bounded(in.readings, WindowStart(night), WindowEnd(night))
              /\ ~Dry(in, knowledge, night)
              /\ Covered(in.coverage, night)
    OBVIOUS
  <1>3. verdict = "no_leak" => Dry(in, knowledge, night)
    OBVIOUS
  <1> HIDE DEF verdict
  <1> QED
    BY <1>1, <1>2, <1>3

LEMMA NightsPublished ==
  ASSUME Kept
  PROVE  /\ result.nights = [n \in (Today - WindowDays + 1)..Today |->
                               ClassifyNight(In, HourKnowledge(In.readings), n)]
         /\ DOMAIN result.nights = (Today - WindowDays + 1)..Today
         /\ result.leak = LeakState(result.nights, PersistentFlow(In, HourKnowledge(In.readings)))
         /\ Today \in Nat /\ now = Today * DayLen + RunHour
  <1>1. Today \in Nat /\ now = Today * DayLen + RunHour
    BY DEF Kept, HouseTyped
  <1>2. NewestNight(now) = Today
    <2>1. now % DayLen = RunHour
      BY <1>1, Clock, HourOfDay
    <2> QED
      BY <2>1, Clock DEF NewestNight, Today
  <1>3. In.now = now
    BY DEF In, Inputs
  <1>4. result = Analytics(In, HourKnowledge(In.readings),
                           Nights(In, HourKnowledge(In.readings)), History(In))
    BY DEF Kept, ResultIsCurrent, ComputeAnalytics
  <1>5. /\ result.nights = Nights(In, HourKnowledge(In.readings))
        /\ result.leak = LeakState(Nights(In, HourKnowledge(In.readings)),
                                   PersistentFlow(In, HourKnowledge(In.readings)))
    BY <1>4, Zenon DEF Analytics
  <1>6. Nights(In, HourKnowledge(In.readings))
          = [n \in (Today - WindowDays + 1)..Today |->
               ClassifyNight(In, HourKnowledge(In.readings), n)]
    BY <1>2, <1>3, Zenon DEF Nights
  <1> QED
    BY <1>1, <1>5, <1>6

\* A regeneration masks the night it is of, and no other.
LEMMA CycleMasksItsNight ==
  ASSUME NEW d \in Int, NEW n \in Int
  PROVE  (Cycle(d).start < WindowEnd(n) /\ Cycle(d).end > WindowStart(n)) <=> d = n
  <1>1. DayLen \in Nat \ {0} /\ NightStart \in Nat /\ NightEnd \in Nat
        /\ NightStart < NightEnd /\ NightEnd < DayLen
    BY Clock
  <1>2. d * DayLen \in Int /\ n * DayLen \in Int
    BY <1>1
  <1>3. /\ d < n => d * DayLen + DayLen =< n * DayLen
        /\ n < d => n * DayLen + DayLen =< d * DayLen
    BY DaysInOrder
  <1>4. /\ Cycle(d).start = d * DayLen + NightStart
        /\ Cycle(d).end = d * DayLen + NightStart + 1
        /\ WindowStart(n) = n * DayLen + NightStart
        /\ WindowEnd(n) = n * DayLen + NightEnd
    BY DEF Cycle, WindowStart, WindowEnd
  <1> DEFINE x == d * DayLen
             y == n * DayLen
  <1>5. d = n => x = y
    OBVIOUS
  <1>6. /\ d = n => x = y
        /\ d < n => x + DayLen =< y
        /\ n < d => y + DayLen =< x
        /\ x \in Int /\ y \in Int
    BY <1>2, <1>3, <1>5
  <1> HIDE DEF x, y
  <1>7. (x + NightStart < y + NightEnd /\ x + NightStart + 1 > y + NightStart) <=> d = n
    BY <1>1, <1>6
  <1> QED
    BY <1>4, <1>7 DEF x, y

\* The feed vouches for the night of one of the regenerations it still shows.
LEMMA CoverageIsKnown ==
  ASSUME HouseTyped, regens # {}
  PROVE  /\ Known(regens) \subseteq regens
         /\ \E r \in Known(regens) : Coverage(regens) = r.start
         /\ \A r \in Known(regens) : Coverage(regens) =< r.start
         /\ Coverage(regens) \in Nat
  <1> DEFINE starts == {r.start : r \in regens}
             shown == {r.start : r \in Known(regens)}
  <1>1. Known(regens) \subseteq regens
    BY DEF Known
  <1>2. \A r \in regens : r.start \in 0..WindowStart(Today) /\ WindowStart(Today) \in Nat
    <2> SUFFICES ASSUME NEW r \in regens
                 PROVE  r.start \in 0..WindowStart(Today) /\ WindowStart(Today) \in Nat
      OBVIOUS
    <2>1. PICK d \in 1..Today : r = Cycle(d)
      BY DEF HouseTyped
    <2>2. Today \in Nat /\ NightStart \in Nat /\ DayLen \in Nat \ {0}
      BY Clock DEF HouseTyped
    <2>3. d \in Int /\ Today \in Int /\ d =< Today
      BY <2>2
    <2>4. d * DayLen =< Today * DayLen
      BY <2>3, DaysInOrder
    <2>5. d * DayLen \in Nat /\ Today * DayLen \in Nat
      BY <2>2
    <2>6. r.start = d * DayLen + NightStart
      BY <2>1 DEF Cycle, WindowStart
    <2> QED
      BY <2>2, <2>4, <2>5, <2>6 DEF WindowStart
  <1>3. starts \subseteq 0..WindowStart(Today) /\ starts # {} /\ WindowStart(Today) \in Nat
    BY <1>2
  <1>4. Known(regens) # {}
    <2>1. Max(starts) \in starts /\ \A m \in starts : Max(starts) >= m
      <3> HIDE DEF starts
      <3> QED
        BY <1>3, MaxIsGreatest
    <2>2. PICK r \in regens : r.start = Max(starts)
      BY <2>1
    <2>3. ASSUME NEW q \in regens, q.start > r.start PROVE FALSE
      <3>1. q.start \in starts /\ q.start \in Nat /\ r.start \in Nat
        BY <1>2
      <3> HIDE DEF starts
      <3>2. Max(starts) >= q.start
        BY <2>1, <3>1
      <3> QED
        BY <2>2, <2>3, <3>1, <3>2
    <2>4. {q \in regens : q.start > r.start} = {}
      BY <2>3
    <2>5. Cardinality({}) = 0 /\ 0 < FeedPage
      BY FS_EmptySet, AnalysisAssumption
    <2> QED
      BY <2>2, <2>4, <2>5 DEF Known
  <1>5. shown \subseteq Nat /\ shown # {}
    BY <1>1, <1>2, <1>4
  <1>6. Min(shown) \in shown /\ \A m \in shown : Min(shown) =< m
    <2> HIDE DEF shown
    <2> QED
      BY <1>5, MinIsLeast
  <1>7. Coverage(regens) = Min(shown)
    BY DEF Coverage
  <1> QED
    BY <1>1, <1>5, <1>6, <1>7

\* A regeneration the feed has forgotten is older than the nights it vouches for.
LEMMA ForgottenIsNotVouched ==
  ASSUME HouseTyped, NEW n \in Int,
         Covered(Coverage(regens), n), ~Masked(Known(regens), n)
  PROVE  ~Masked(regens, n)
  <1> SUFFICES ASSUME NEW r \in regens, r.start < WindowEnd(n), r.end > WindowStart(n)
               PROVE  FALSE
    BY DEF Masked
  <1>1. PICK d \in 1..Today : r = Cycle(d)
    BY DEF HouseTyped
  <1>2. d = n
    BY <1>1, CycleMasksItsNight
  <1>3. r \notin Known(regens)
    BY DEF Masked
  <1>4. PICK c \in Known(regens) : Coverage(regens) = c.start
    BY CoverageIsKnown
  <1>5. c \in regens
    BY <1>4, CoverageIsKnown
  <1>6. PICK e \in 1..Today : c = Cycle(e)
    BY <1>5 DEF HouseTyped
  <1>7. NightStart \in 0..(DayLen - 1) /\ DayLen \in Nat \ {0} /\ d \in Int /\ e \in Int
    BY Clock, <1>1, <1>6
  <1>8. c.start = e * DayLen + NightStart /\ r.start = d * DayLen + NightStart
    BY <1>1, <1>6 DEF Cycle, WindowStart
  <1>9. e =< d
    <2>1. c.start \div DayLen = e
      BY <1>7, <1>8, HourOfDay
    <2> QED
      BY <1>2, <1>4, <2>1 DEF Covered
  <1>10. c.start =< r.start /\ c.start \in Int /\ r.start \in Int
    <2>1. e * DayLen =< d * DayLen
      BY <1>7, <1>9, DaysInOrder
    <2>2. e * DayLen \in Int /\ d * DayLen \in Int
      BY <1>7
    <2> QED
      BY <1>7, <1>8, <2>1, <2>2
  <1> DEFINE after(x) == {q \in regens : q.start > x.start}
  <1>11. after(r) \subseteq after(c)
    <2> SUFFICES ASSUME NEW q \in regens, q.start > r.start PROVE q.start > c.start
      OBVIOUS
    <2>1. q.start \in Int
      <3>1. PICK f \in 1..Today : q = Cycle(f)
        BY DEF HouseTyped
      <3>2. f \in Int /\ f * DayLen \in Int
        BY <1>7, <3>1
      <3> QED
        BY <1>7, <3>1, <3>2 DEF Cycle, WindowStart
    <2> QED
      BY <1>10, <2>1
  <1>12. /\ IsFiniteSet(after(c)) /\ Cardinality(after(r)) =< Cardinality(after(c))
         /\ Cardinality(after(r)) \in Nat /\ Cardinality(after(c)) \in Nat
    <2>1. IsFiniteSet(regens) /\ after(c) \subseteq regens /\ after(r) \subseteq regens
      BY DEF HouseTyped
    <2> HIDE DEF after
    <2>2. IsFiniteSet(after(c)) /\ IsFiniteSet(after(r))
      BY <2>1, FS_Subset
    <2> QED
      BY <1>11, <2>2, FS_Subset, FS_CardinalityType
  <1>13. Cardinality(after(c)) < FeedPage /\ ~(Cardinality(after(r)) < FeedPage)
    BY <1>3, <1>4 DEF Known
  <1>14. FeedPage \in Nat
    BY AnalysisAssumption
  <1> HIDE DEF after
  <1> QED
    BY <1>12, <1>13, <1>14

LEMMA LeakNightIsReal ==
  ASSUME Kept, NEW n \in DOMAIN result.nights, result.nights[n].verdict = "leak"
  PROVE  (\A h \in WindowHours(n) : Wet(h)) /\ ~Masked(regens, n)
  <1> DEFINE knowledge == HourKnowledge(In.readings)
  <1>1. n \in Int /\ ClassifyNight(In, knowledge, n).verdict = "leak"
    <2>1. n \in (Today - WindowDays + 1)..Today
      BY NightsPublished
    <2>2. n \in Int
      BY <2>1
    <2> QED
      BY <2>1, <2>2, NightsPublished, Zenon
  <1> HIDE DEF knowledge
  <1>2. ~Masked(In.regens, n) /\ ~Dry(In, knowledge, n) /\ Covered(In.coverage, n)
    BY <1>1, NightVerdicts
  <1>3. In.regens = Known(regens) /\ In.coverage = Coverage(regens)
    BY DEF In, Inputs
  <1>4. HouseTyped
    BY DEF Kept
  <1>5. ~Masked(regens, n)
    BY <1>1, <1>2, <1>3, <1>4, ForgottenIsNotVouched
  <1>6. \A h \in WindowHours(n) : h \in DOMAIN In.readings
    BY <1>2 DEF Dry, ReadingHours
  <1>7. DOMAIN In.readings \subseteq DOMAIN used /\ \A h \in DOMAIN In.readings : used[h] > 0
    BY <1>4, RecorderReads DEF ReadingsOf, HouseTyped
  <1> QED
    BY <1>5, <1>6, <1>7 DEF Wet

\* A night called a leak is one, for any household and any feed, however short its
\* page: what the feed has forgotten is older than the nights it vouches for
\* (classify_night, masked_nights, _regen_windows).
THEOREM LeakNightsAreAlwaysReal == Spec => []LeakNightsAreReal
  <1>1. Kept => LeakNightsAreReal
    BY LeakNightIsReal DEF LeakNightsAreReal
  <1> QED
    BY <1>1, RecorderIsTheMeter, PTL

-----------------------------------------------------------------------------
(* Leaks.                                                                  *)

LEMMA LeakIsClaimed ==
  ASSUME Kept
  PROVE  /\ result.leak.active = TRUE <=>
              \/ Cardinality(Streak(result.nights)) >= LeakNights
              \/ PersistentFlow(In, HourKnowledge(In.readings))
         /\ Streak(result.nights) \subseteq DOMAIN result.nights
         /\ \A n \in Streak(result.nights) : result.nights[n].verdict = "leak"
         /\ IsFiniteSet(Streak(result.nights))
  <1> DEFINE many == Cardinality(Streak(result.nights)) >= LeakNights
             persistent == PersistentFlow(In, HourKnowledge(In.readings))
             determinate == \E n \in DOMAIN result.nights :
                              result.nights[n].verdict \in {"leak", "no_leak"}
  <1>1. result.leak = LeakState(result.nights, persistent)
    BY NightsPublished, Zenon
  <1>2. result.leak.active = IF many \/ persistent THEN TRUE
                             ELSE IF determinate THEN FALSE ELSE None
    <2> HIDE DEF persistent
    <2> QED
      BY <1>1 DEF LeakState
  <1>3. None # TRUE
    BY AnalysisAssumption
  <1>4. result.leak.active = TRUE <=> many \/ persistent
    <2> HIDE DEF many, persistent, determinate
    <2> QED
      BY <1>2, <1>3
  <1>5. Streak(result.nights) \subseteq DOMAIN result.nights
    BY DEF Streak
  <1>6. IsFiniteSet(DOMAIN result.nights)
    <2>1. DOMAIN result.nights = (Today - WindowDays + 1)..Today
      BY NightsPublished
    <2>2. Today - WindowDays + 1 \in Int /\ Today \in Int
      BY NightsPublished, DetectorAssumption
    <2> QED
      BY <2>1, <2>2, FS_Interval
  <1>7. IsFiniteSet(Streak(result.nights))
    BY <1>5, <1>6, FS_Subset
  <1>8. \A n \in Streak(result.nights) : result.nights[n].verdict = "leak"
    BY DEF Streak
  <1> QED
    BY <1>4, <1>5, <1>7, <1>8

\* A leak that is claimed is a fact, for any household and any thresholds: as many
\* real leak nights as it takes, or water in every one of the last hours (leak_state,
\* persistent_flow).
THEOREM LeaksAreAlwaysReal == Spec => []LeaksAreReal
  <1>1. ASSUME Kept, result.leak.active = TRUE
        PROVE  \/ \E nights \in SUBSET DOMAIN result.nights :
                    /\ Cardinality(nights) >= LeakNights
                    /\ \A n \in nights : ~Masked(regens, n) /\ \A h \in WindowHours(n) : Wet(h)
               \/ \A h \in TrailingHours(now, PersistentHours) : Wet(h)
    <2>1. CASE Cardinality(Streak(result.nights)) >= LeakNights
      <3>1. Streak(result.nights) \in SUBSET DOMAIN result.nights
        BY <1>1, LeakIsClaimed
      <3>2. \A n \in Streak(result.nights) : ~Masked(regens, n) /\ \A h \in WindowHours(n) : Wet(h)
        BY <1>1, <3>1, LeakIsClaimed, LeakNightIsReal
      <3> QED
        BY <2>1, <3>1, <3>2
    <2>2. CASE PersistentFlow(In, HourKnowledge(In.readings))
      <3>1. \A h \in TrailingHours(now, PersistentHours) : h \in DOMAIN In.readings
        <4>1. In.now = now
          BY DEF In, Inputs
        <4> QED
          BY <2>2, <4>1 DEF PersistentFlow, ReadingHours
      <3>2. DOMAIN In.readings \subseteq DOMAIN used /\ \A h \in DOMAIN In.readings : used[h] > 0
        BY <1>1, RecorderReads DEF ReadingsOf, Kept, HouseTyped
      <3> QED
        BY <3>1, <3>2 DEF Wet
    <2> QED
      BY <1>1, <2>1, <2>2, LeakIsClaimed
  <1>2. Kept => LeaksAreReal
    BY <1>1, Zenon DEF LeaksAreReal
  <1> QED
    BY <1>2, RecorderIsTheMeter, PTL

\* The pass leaves an hour after the window in which the meter can be read: it runs at
\* 07:35, the window closes at 07:00, and the import takes the running hour with it
\* (const.py, ANALYTICS_RUN_LOCAL_TIME).
PassAfterTheWindow == NightEnd < RunHour

\* In a leak without an end, every hour since is in the readings of the pass.
LEMMA LeakIsRecorded ==
  ASSUME Kept, NEW first \in DOMAIN result.nights, HasLeakedSince(first),
         NEW n \in DOMAIN result.nights, n >= first,
         NEW h \in Int, h >= WindowStart(n), h < now
  PROVE  h \in DOMAIN In.readings
  <1>1. /\ Today \in Nat /\ now = Today * DayLen + RunHour /\ now \in Nat
        /\ first \in (Today - WindowDays + 1)..Today /\ n \in (Today - WindowDays + 1)..Today
    BY NightsPublished, RecorderReads
  <1>2. /\ DayLen \in Nat \ {0} /\ NightStart \in Nat /\ RunHour \in Nat /\ RunHour < DayLen
        /\ WindowDays \in Nat /\ BaselineDays \in Nat /\ BaselineDays >= WindowDays
    BY Clock, DetectorAssumption
  <1>3. first \in Int /\ n \in Int /\ Today - BaselineDays \in Int /\ Today - BaselineDays < n
    BY <1>1, <1>2
  <1>4. /\ first * DayLen =< n * DayLen
        /\ (Today - BaselineDays) * DayLen + DayLen =< n * DayLen
        /\ first * DayLen \in Int /\ n * DayLen \in Int
    BY <1>3, DaysInOrder
  <1>5. h \in (WindowStart(first) - 1)..(now - 1)
    <2>1. h >= first * DayLen + NightStart
      BY <1>2, <1>4 DEF WindowStart
    <2> QED
      BY <1>1, <1>2, <1>4, <2>1 DEF WindowStart
  <1>6. Wet(h) /\ h \notin offline /\ imported = now
    BY <1>5 DEF HasLeakedSince, Online
  <1>7. h \in 0..(now - 1) /\ used[h] > 0
    <2>1. DOMAIN used = 0..(now - 1)
      BY DEF Kept, HouseTyped
    <2> QED
      BY <1>6, <2>1 DEF Wet
  <1>8. h \in DOMAIN rows
    BY <1>6, <1>7, RecorderReads
  <1>9. h >= now - BaselineDays * DayLen
    <2>1. (Today - BaselineDays) * DayLen = Today * DayLen - BaselineDays * DayLen
      BY <1>1, <1>2
    <2>2. Today * DayLen \in Int /\ BaselineDays * DayLen \in Int
      BY <1>1, <1>2
    <2>3. h >= n * DayLen + NightStart
      BY DEF WindowStart
    <2> DEFINE x == Today * DayLen
               y == BaselineDays * DayLen
               z == n * DayLen
    <2>4. /\ x \in Int /\ y \in Int /\ z \in Int /\ now = x + RunHour
          /\ x - y + DayLen =< z /\ h >= z + NightStart
      BY <1>1, <1>4, <2>1, <2>2, <2>3
    <2> HIDE DEF x, y, z
    <2>5. h >= now - y
      BY <1>2, <2>4
    <2> QED
      BY <2>5 DEF y
  <1> QED
    BY <1>8, <1>9, RecorderReads

LEMMA WindowIsPast ==
  ASSUME Kept, NEW n \in DOMAIN result.nights
  PROVE  /\ n \in Int /\ n =< Today
         /\ WindowStart(n) \in Int /\ WindowEnd(n) \in Int /\ WindowStart(n) < WindowEnd(n)
         /\ WindowEnd(n) =< now
         /\ PassAfterTheWindow => WindowEnd(n) < now
  <1>1. Today \in Nat /\ now = Today * DayLen + RunHour /\ n \in (Today - WindowDays + 1)..Today
    BY NightsPublished
  <1>2. /\ DayLen \in Nat \ {0} /\ NightStart \in Nat /\ NightEnd \in Nat /\ NightStart < NightEnd
        /\ RunHour \in Nat /\ NightEnd =< RunHour
    BY Clock
  <1>3. n \in Int /\ n =< Today /\ Today \in Int
    BY <1>1
  <1>4. n * DayLen =< Today * DayLen /\ n * DayLen \in Int /\ Today * DayLen \in Int
    BY <1>3, DaysInOrder
  <1> DEFINE x == n * DayLen
             y == Today * DayLen
  <1>5. /\ x \in Int /\ y \in Int /\ x =< y /\ now = y + RunHour
        /\ WindowStart(n) = x + NightStart /\ WindowEnd(n) = x + NightEnd
    BY <1>1, <1>4 DEF WindowStart, WindowEnd
  <1> HIDE DEF x, y
  <1> QED
    BY <1>2, <1>3, <1>5 DEF PassAfterTheWindow

\* No night of a leak is cleared.
LEMMA LeakIsNotCleared ==
  ASSUME Kept, NEW first \in DOMAIN result.nights, HasLeakedSince(first),
         NEW n \in DOMAIN result.nights, n >= first
  PROVE  ~Dry(In, HourKnowledge(In.readings), n)
  <1> SUFFICES ASSUME NEW h \in WindowHours(n),
                      \/ h \notin DOMAIN In.readings
                      \/ /\ h \in WindowHours(n) \cap DOMAIN HourKnowledge(In.readings)
                         /\ HourKnowledge(In.readings)[h] = 0
               PROVE  FALSE
    BY DEF Dry, ReadingHours
  <1>1. h \in Int /\ h >= WindowStart(n) /\ h < now
    <2>1. WindowStart(n) \in Int /\ WindowEnd(n) \in Int /\ WindowEnd(n) =< now /\ now \in Nat
      BY WindowIsPast, RecorderReads
    <2> QED
      BY <2>1 DEF WindowHours
  <1>2. h \in DOMAIN In.readings
    BY <1>1, LeakIsRecorded
  <1>3. ASSUME h \in DOMAIN HourKnowledge(In.readings) PROVE HourKnowledge(In.readings)[h] # 0
    <2>1. now \in Nat /\ ReadingsOf(In.readings, used, now)
      BY RecorderReads
    <2>2. /\ HourKnowledge(In.readings)[h] = used[h + 1] /\ used[h + 1] > 0
      BY <1>3, <2>1, CertainOfTheNext
    <2> QED
      BY <2>2
  <1> QED
    BY <1>2, <1>3

\* A night of the leak for which the feed vouches is a leak.
LEMMA TellingNightIsLeak ==
  ASSUME PassAfterTheWindow, Kept,
         NEW first \in DOMAIN result.nights, HasLeakedSince(first),
         NEW n \in DOMAIN result.nights, n >= first, ~Masked(regens, n),
         NEW r \in Known(regens), r.end =< WindowEnd(n)
  PROVE  result.nights[n].verdict = "leak"
  <1>1. /\ n \in Int /\ n =< Today
        /\ WindowStart(n) \in Int /\ WindowEnd(n) \in Int /\ WindowStart(n) < WindowEnd(n)
        /\ WindowEnd(n) < now
    BY WindowIsPast
  <1>2. ~Dry(In, HourKnowledge(In.readings), n)
    BY LeakIsNotCleared
  <1>3. Known(regens) \subseteq regens
    BY DEF Known
  <1>4. In.regens = Known(regens) /\ In.coverage = Coverage(regens)
    BY DEF In, Inputs
  <1>5. ~Masked(In.regens, n)
    BY <1>3, <1>4 DEF Masked
  <1>6. DOMAIN In.readings \subseteq 0..(now - 1) /\ now \in Nat
    BY RecorderReads DEF ReadingsOf
  <1>7. WindowStart(n) \in DOMAIN In.readings /\ WindowEnd(n) \in DOMAIN In.readings
    <2>1. WindowStart(n) >= WindowStart(n) /\ WindowStart(n) < now
      BY <1>1, <1>6
    <2>2. WindowEnd(n) >= WindowStart(n) /\ WindowEnd(n) < now
      BY <1>1
    <2>3. WindowStart(n) \in DOMAIN In.readings
      BY <1>1, <2>1, LeakIsRecorded
    <2>4. WindowEnd(n) \in DOMAIN In.readings
      BY <1>1, <2>2, LeakIsRecorded
    <2> QED
      BY <2>3, <2>4
  <1>8. Bounded(In.readings, WindowStart(n), WindowEnd(n))
    <2> DEFINE a == WindowStart(n)
               b == WindowEnd(n)
    <2>1. /\ a \in DOMAIN In.readings /\ a - BoundSlack =< a /\ a =< a
          /\ b \in DOMAIN In.readings /\ b =< b /\ b =< b + BoundSlack
      BY <1>1, <1>7, SeriesAssumption
    <2>2. now - 1 \in Nat /\ a \in Int /\ b \in Int
      BY <1>1, <1>6, <1>7
    <2> HIDE DEF a, b
    <2>3. Bounded(In.readings, a, b)
      BY <1>6, <2>1, <2>2, BoundedMeans
    <2> QED
      BY <2>3 DEF a, b
  <1>9. Covered(In.coverage, n)
    <2>1. HouseTyped /\ r \in regens /\ regens # {}
      BY <1>3 DEF Kept
    <2>2. Coverage(regens) \in Nat /\ Coverage(regens) =< r.start
      BY <2>1, CoverageIsKnown
    <2>3. PICK c \in Known(regens) : Coverage(regens) = c.start
      BY <2>1, CoverageIsKnown
    <2>4. PICK d \in 1..Today : r = Cycle(d)
      BY <2>1 DEF HouseTyped
    <2>5. PICK e \in 1..Today : c = Cycle(e)
      BY <1>3, <2>1, <2>3 DEF HouseTyped
    <2>6. /\ d \in Int /\ e \in Int /\ NightStart \in 0..(DayLen - 1) /\ DayLen \in Nat \ {0}
          /\ NightEnd \in Nat /\ NightStart < NightEnd /\ NightEnd < DayLen
      BY Clock, <2>4, <2>5
    <2>7. Coverage(regens) \div DayLen = e
      BY <2>3, <2>5, <2>6, HourOfDay DEF Cycle, WindowStart
    <2>8. /\ e * DayLen + NightStart =< d * DayLen + NightStart
          /\ d * DayLen + NightStart + 1 =< n * DayLen + NightEnd
      BY <2>2, <2>3, <2>4, <2>5 DEF Cycle, WindowStart, WindowEnd
    <2>9. /\ n < e => n * DayLen + DayLen =< e * DayLen
          /\ n * DayLen \in Int /\ e * DayLen \in Int /\ d * DayLen \in Int
      BY <1>1, <2>6, DaysInOrder
    <2> DEFINE x == n * DayLen
               y == e * DayLen
               z == d * DayLen
    <2>10. /\ y + NightStart =< z + NightStart /\ z + NightStart + 1 =< x + NightEnd
           /\ n < e => x + DayLen =< y
           /\ x \in Int /\ y \in Int /\ z \in Int
      BY <2>8, <2>9
    <2>11. n >= e
      <3> HIDE DEF x, y, z
      <3> QED
        BY <1>1, <2>6, <2>10
    <2>12. Coverage(regens) # None
      BY <2>2, AnalysisAssumption
    <2> QED
      BY <1>4, <2>7, <2>11, <2>12 DEF Covered
  <1>10. ClassifyNight(In, HourKnowledge(In.readings), n).verdict = "leak"
    BY <1>2, <1>5, <1>8, <1>9, NightVerdicts
  <1>11. n \in (Today - WindowDays + 1)..Today
    BY NightsPublished
  <1> QED
    BY <1>10, <1>11, NightsPublished, Zenon

\* Water that does not stop is found by the next pass, for any household and any
\* thresholds, of a pass that runs late enough to see the meter after the window
\* (leak_state, classify_night, bounded).
THEOREM LastingLeaksAreAlwaysFound ==
  ASSUME PassAfterTheWindow
  PROVE  Spec => []LastingLeaksAreFound
  <1>1. ASSUME Kept, NEW first \in DOMAIN result.nights, HasLeakedSince(first)
        PROVE  result.leak.active = TRUE
    <2> DEFINE telling == {n \in DOMAIN result.nights :
                             /\ n >= first /\ ~Masked(regens, n)
                             /\ \E r \in Known(regens) : r.end =< WindowEnd(n)}
    <2>1. ASSUME NEW n \in telling PROVE n \in Streak(result.nights)
      <3>1. n \in DOMAIN result.nights /\ n >= first
        OBVIOUS
      <3>2. result.nights[n].verdict = "leak"
        BY <1>1, TellingNightIsLeak
      <3>3. ASSUME NEW k \in DOMAIN result.nights, k > n PROVE result.nights[k].verdict # "no_leak"
        <4>1. k \in (Today - WindowDays + 1)..Today /\ k \in Int
          <5>1. k \in (Today - WindowDays + 1)..Today
            BY <1>1, NightsPublished
          <5> QED
            BY <5>1
        <4>2. k >= first
          <5>1. n \in Int /\ first \in Int
            BY <1>1, <3>1, WindowIsPast
          <5> QED
            BY <3>1, <3>3, <4>1, <5>1
        <4>3. ~Dry(In, HourKnowledge(In.readings), k)
          BY <1>1, <4>2, LeakIsNotCleared
        <4>4. ClassifyNight(In, HourKnowledge(In.readings), k).verdict # "no_leak"
          BY <4>3, NightVerdicts
        <4> QED
          BY <1>1, <4>1, <4>4, NightsPublished, Zenon
      <3> QED
        BY <3>1, <3>2, <3>3 DEF Streak
    <2>2. Cardinality(telling) >= LeakNights
      BY <1>1, Zenon DEF HasLeakedSince
    <2>3. Cardinality(Streak(result.nights)) >= LeakNights
      <3> HIDE DEF telling
      <3>1. telling \subseteq Streak(result.nights)
        BY <2>1
      <3>2. IsFiniteSet(Streak(result.nights))
        BY <1>1, LeakIsClaimed
      <3>3. /\ IsFiniteSet(telling) /\ Cardinality(telling) =< Cardinality(Streak(result.nights))
        BY <3>1, <3>2, FS_Subset
      <3>4. Cardinality(telling) \in Nat /\ Cardinality(Streak(result.nights)) \in Nat
        BY <3>2, <3>3, FS_CardinalityType
      <3>5. LeakNights \in Nat
        BY DetectorAssumption
      <3> QED
        BY <2>2, <3>3, <3>4, <3>5
    <2> QED
      BY <1>1, <2>3, LeakIsClaimed
  <1>2. Kept => LastingLeaksAreFound
    BY <1>1 DEF LastingLeaksAreFound
  <1> QED
    BY <1>2, RecorderIsTheMeter, PTL


-----------------------------------------------------------------------------
(* More of the sum.                                                        *)

LEMMA SumOfDry ==
  ASSUME NEW f, NEW S, IsFiniteSet(S), \A x \in S : f[x] = 0
  PROVE  SumFunctionOnSet(f, S) = 0
  <1> DEFINE Bad == {T \in SUBSET S : SumFunctionOnSet(f, T) # 0}
  <1>1. SUFFICES ASSUME Bad # {} PROVE FALSE
    OBVIOUS
  <1>2. PICK T \in Bad : \A U \in SUBSET T : U # T => U \notin Bad
    <2> HIDE DEF Bad
    <2>1. Bad \in SUBSET SUBSET S
      BY DEF Bad
    <2> QED
      BY <1>1, <2>1, SmallestPart
  <1>3. T # {} /\ IsFiniteSet(T)
    BY <1>2, SumOfNone, FS_Subset
  <1>4. PICK x \in T : SumFunctionOnSet(f, T) = f[x] + SumFunctionOnSet(f, T \ {x})
    BY <1>3, SumUnfolds
  <1>5. SumFunctionOnSet(f, T \ {x}) = 0 /\ f[x] = 0
    BY <1>2
  <1> QED
    BY <1>2, <1>4, <1>5

\* A sum is that of a part and that of the rest.
LEMMA SumOfParts ==
  ASSUME NEW f, NEW S, IsFiniteSet(S), \A x \in S : f[x] \in Nat, NEW A, A \subseteq S
  PROVE  SumFunctionOnSet(f, S) = SumFunctionOnSet(f, A) + SumFunctionOnSet(f, S \ A)
  <1> DEFINE sum(T) == SumFunctionOnSet(f, T)
             Bad == {B \in SUBSET (S \ A) : sum(A \cup B) # sum(A) + sum(B)}
  <1>1. \A T \in SUBSET S : IsFiniteSet(T) /\ sum(T) \in Nat
    BY FS_Subset, SumTyped
  <1>2. ASSUME Bad # {} PROVE FALSE
    <2>1. IsFiniteSet(S \ A)
      BY <1>1
    <2>2. PICK B \in Bad : \A U \in SUBSET B : U # B => U \notin Bad
      <3>1. Bad \in SUBSET SUBSET (S \ A)
        OBVIOUS
      <3> HIDE DEF Bad
      <3> QED
        BY <1>2, <2>1, <3>1, SmallestPart
    <2>3. sum({}) = 0 /\ sum(A) \in Nat /\ A \cup {} = A
      BY <1>1, SumOfNone
    <2>4. B # {} /\ B \subseteq S \ A /\ sum(A \cup B) # sum(A) + sum(B)
      <3>1. B \subseteq S \ A /\ sum(A \cup B) # sum(A) + sum(B)
        BY <2>2
      <3>2. sum(A \cup {}) = sum(A) + sum({})
        <4> HIDE DEF sum
        <4> QED
          BY <2>3
      <3> QED
        BY <3>1, <3>2
    <2>5. PICK x \in B : TRUE
      BY <2>4
    <2>6. B \ {x} \notin Bad /\ B \ {x} \in SUBSET (S \ A)
      BY <2>2, <2>4, <2>5
    <2>7. sum(A \cup (B \ {x})) = sum(A) + sum(B \ {x})
      BY <2>6
    <2>8. (A \cup B) \ {x} = A \cup (B \ {x})
      BY <2>4, <2>5
    <2>9. sum(A \cup B) = f[x] + sum((A \cup B) \ {x})
      <3>1. A \cup B \in SUBSET S /\ x \in A \cup B
        BY <2>4, <2>5
      <3>2. IsFiniteSet(A \cup B) /\ \A y \in A \cup B : f[y] \in Nat
        BY <1>1, <3>1
      <3> QED
        BY <3>1, <3>2, SumTakesOut
    <2>10. sum(B) = f[x] + sum(B \ {x})
      <3>1. IsFiniteSet(B) /\ \A y \in B : f[y] \in Nat
        BY <1>1, <2>4
      <3> QED
        BY <2>5, <3>1, SumTakesOut
    <2>11. sum(A) \in Nat /\ sum(B \ {x}) \in Nat /\ f[x] \in Nat
      BY <1>1, <2>4, <2>5, <2>6
    <2> HIDE DEF sum
    <2>12. sum(A \cup B) = f[x] + (sum(A) + sum(B \ {x}))
      BY <2>7, <2>8, <2>9
    <2> QED
      BY <2>4, <2>10, <2>11, <2>12
  <1>3. S \ A \notin Bad /\ A \cup (S \ A) = S
    BY <1>2
  <1> QED
    BY <1>3

\* What a set of hours has beyond another one, if it is dry, adds nothing.
LEMMA SumInside ==
  ASSUME NEW f, NEW S, IsFiniteSet(S), NEW T, IsFiniteSet(T),
         \A x \in S \cup T : f[x] \in Nat, \A x \in S \ T : f[x] = 0
  PROVE  /\ SumFunctionOnSet(f, S) \in Nat /\ SumFunctionOnSet(f, T) \in Nat
         /\ SumFunctionOnSet(f, S) =< SumFunctionOnSet(f, T)
  <1> DEFINE both == S \cap T
  <1>1. both \subseteq S /\ both \subseteq T /\ S \ both = S \ T
    OBVIOUS
  <1>2. /\ IsFiniteSet(both) /\ IsFiniteSet(S \ both) /\ IsFiniteSet(T \ both)
        /\ \A x \in S : f[x] \in Nat
        /\ \A x \in T : f[x] \in Nat
    BY FS_Subset
  <1>3. SumFunctionOnSet(f, S \ both) = 0
    BY <1>1, <1>2, SumOfDry
  <1> HIDE DEF both
  <1>4. SumFunctionOnSet(f, S) = SumFunctionOnSet(f, both) + SumFunctionOnSet(f, S \ both)
    BY <1>1, <1>2, SumOfParts
  <1>5. SumFunctionOnSet(f, T) = SumFunctionOnSet(f, both) + SumFunctionOnSet(f, T \ both)
    BY <1>1, <1>2, SumOfParts
  <1>6. /\ SumFunctionOnSet(f, S) \in Nat /\ SumFunctionOnSet(f, T) \in Nat
        /\ SumFunctionOnSet(f, both) \in Nat /\ SumFunctionOnSet(f, T \ both) \in Nat
    BY <1>1, <1>2, SumTyped
  <1> QED
    BY <1>3, <1>4, <1>5, <1>6

\* What no hour of a set adds to is dry throughout.
LEMMA DryThroughout ==
  ASSUME NEW f, NEW S, IsFiniteSet(S), \A x \in S : f[x] \in Nat,
         SumFunctionOnSet(f, S) = 0, NEW a \in S
  PROVE  f[a] = 0
  <1>1. SumFunctionOnSet(f, S) = f[a] + SumFunctionOnSet(f, S \ {a})
    BY SumTakesOut
  <1>2. SumFunctionOnSet(f, S \ {a}) \in Nat
    <2>1. IsFiniteSet(S \ {a})
      BY FS_Subset
    <2> QED
      BY <2>1, SumTyped
  <1>3. f[a] \in Nat
    OBVIOUS
  <1> QED
    BY <1>1, <1>2, <1>3

\* The counter goes from one hour to another by what was drawn after the one.
LEMMA MeterBetween ==
  ASSUME NEW u, NEW a \in Nat, NEW b \in Nat, a =< b, \A h \in 0..b : u[h] \in Nat
  PROVE  /\ SumFunctionOnSet(u, 0..b) = SumFunctionOnSet(u, 0..a) + SumFunctionOnSet(u, (a + 1)..b)
         /\ SumFunctionOnSet(u, 0..a) \in Nat
         /\ SumFunctionOnSet(u, (a + 1)..b) \in Nat
  <1>1. /\ IsFiniteSet(0..b) /\ 0..a \subseteq 0..b
        /\ IsFiniteSet(0..a) /\ IsFiniteSet((a + 1)..b) /\ (a + 1)..b \subseteq 0..b
    BY FS_Interval
  <1>2. (0..b) \ (0..a) = (a + 1)..b
    OBVIOUS
  <1>3. SumFunctionOnSet(u, 0..b)
          = SumFunctionOnSet(u, 0..a) + SumFunctionOnSet(u, (0..b) \ (0..a))
    BY <1>1, SumOfParts
  <1>4. SumFunctionOnSet(u, 0..a) \in Nat
    BY MeterTyped
  <1>5. SumFunctionOnSet(u, (a + 1)..b) \in Nat
    BY <1>1, SumTyped
  <1> QED
    BY <1>2, <1>3, <1>4, <1>5

-----------------------------------------------------------------------------
(* Absences.                                                               *)

\* An hour the import has covered, with the device online and within the window the
\* baseline is learned from, is dry if no reading tells of it.
LEMMA SilentIsDry ==
  ASSUME Kept, NEW h \in Nat, h < imported, h \notin offline,
         h >= now - BaselineDays * DayLen, h \notin DOMAIN In.readings
  PROVE  h \in 0..(now - 1) /\ used[h] = 0
  <1>1. /\ DOMAIN rows = {k \in 0..(imported - 1) : used[k] > 0 /\ k \notin offline}
        /\ DOMAIN In.readings = {k \in DOMAIN rows : k >= now - BaselineDays * DayLen}
    BY RecorderReads
  <1>2. used \in [0..(now - 1) -> Nat] /\ imported \in 0..now /\ now \in Nat
    BY RecorderReads DEF Kept, HouseTyped
  <1>3. h \in 0..(imported - 1) /\ h \in 0..(now - 1)
    BY <1>2
  <1>4. ~(used[h] > 0) /\ used[h] \in Nat
    BY <1>1, <1>2, <1>3
  <1> QED
    BY <1>3, <1>4

\* The days the verdicts are of: the newest one ended at yesterday's noon.
LEMMA DaysJudged ==
  ASSUME Kept
  PROVE  /\ NewestNoonDay(now) = Today - 1
         /\ NoonDays(WindowDays, now) = (Today - WindowDays)..(Today - 1)
         /\ Today \in Nat /\ WindowDays \in Nat
  <1>1. Today \in Nat /\ now = Today * DayLen + RunHour
    BY DEF Kept, HouseTyped
  <1>2. WindowDays \in Nat /\ Noon \in Nat /\ RunHour \in Nat /\ RunHour < Noon
    BY Clock, DetectorAssumption
  <1>3. now % DayLen = RunHour
    BY <1>1, Clock, HourOfDay
  <1>4. NewestNoonDay(now) = Today - 1
    BY <1>2, <1>3 DEF NewestNoonDay, Today
  <1> QED
    BY <1>1, <1>2, <1>4 DEF NoonDays

LEMMA NoonsInOrder ==
  ASSUME Kept, NEW d \in Int, d < Today
  PROVE  /\ NoonOf(d - 1) \in Int /\ NoonOf(d) \in Int
         /\ NoonOf(d) = NoonOf(d - 1) + DayLen /\ NoonOf(d - 1) < NoonOf(d)
         /\ NoonOf(d) < now
         /\ DayLen \in Nat \ {0}
  <1>1. Today \in Nat /\ now = Today * DayLen + RunHour
    BY DEF Kept, HouseTyped
  <1>2. DayLen \in Nat \ {0} /\ Noon \in Nat /\ Noon < DayLen /\ RunHour \in Nat
    BY Clock
  <1>3. d * DayLen \in Int /\ (d - 1) * DayLen = d * DayLen - DayLen /\ Today * DayLen \in Int
    BY <1>1, <1>2
  <1>4. d * DayLen + DayLen =< Today * DayLen
    BY <1>1, DaysInOrder
  <1> DEFINE x == d * DayLen
             y == Today * DayLen
             z == (d - 1) * DayLen
  <1>5. /\ x \in Int /\ y \in Int /\ z = x - DayLen /\ x + DayLen =< y
        /\ NoonOf(d) = x + Noon /\ NoonOf(d - 1) = z + Noon /\ now = y + RunHour
    BY <1>1, <1>3, <1>4 DEF NoonOf
  <1> HIDE DEF x, y, z
  <1> QED
    BY <1>2, <1>5

\* The device's own average settles what a day is expected to use.
LEMMA VouchedIsExpected ==
  ASSUME Kept, NEW d \in Int, NEW learned, Vouched(device.slots[Weekday(d)])
  PROVE  /\ Weekday(d) \in 0..(WeekDays - 1)
         /\ device.slots[Weekday(d)].average \in Nat
         /\ Expected(In, learned, d) # None
         /\ Expected(In, learned, d).expected2 = 2 * device.slots[Weekday(d)].average
  <1> DEFINE slot == device.slots[Weekday(d)]
             told == [expected2 |-> 2 * slot.average, spread8 |-> 8 * slot.deviation,
                      source |-> "device_average"]
             chain == <<FromSlot(d, slot, now, learned), FromWeekday(d, learned),
                        FromOverall(In.overall, now, learned)>>
  <1>1. WeekDays \in Nat \ {0}
    BY BaselineAssumption
  <1>2. Weekday(d) \in 0..(WeekDays - 1)
    BY <1>1 DEF Weekday
  <1>3. slot \in [average : Nat \cup {None}, deviation : Nat \cup {None},
                  updated : Nat \cup {None}]
    <2>1. device.slots \in [0..(WeekDays - 1) ->
                              [average : Nat \cup {None}, deviation : Nat \cup {None},
                               updated : Nat \cup {None}]]
      BY AnalysisAssumption DEF Kept, HouseTyped
    <2> QED
      BY <1>2, <2>1
  <1>4. /\ SlotFresh(slot, now) /\ slot.average # None /\ slot.deviation # None
        /\ slot.average \in Nat /\ slot.average > 0 /\ slot.deviation \in Nat
    BY <1>3 DEF Vouched
  <1> HIDE DEF slot
  <1>5. told \in [expected2 : Nat, spread8 : Nat,
                  source : {"device_average", "learned_weekday", "overall_average"}]
    BY <1>4
  <1>6. told # None
    BY <1>5, BaselineAssumption
  <1>7. FromSlot(d, slot, now, learned) = told
    <2>1. 8 * slot.deviation # None /\ 2 * slot.average > 0
      BY <1>4, AnalysisAssumption
    <2> QED
      BY <1>4, <2>1 DEF FromSlot, Expectation
  <1> HIDE DEF told
  <1>8. FirstFound(chain) = told
    <2> DEFINE found == {i \in DOMAIN chain : chain[i] # None}
    <2>1. chain[1] = told /\ 1 \in found /\ found \subseteq 1..3
      BY <1>6, <1>7
    <2> HIDE DEF chain
    <2>2. found # {} /\ found \subseteq Nat
      BY <2>1
    <2>3. Min(found) = 1
      <3> HIDE DEF found
      <3>1. Min(found) \in found /\ Min(found) =< 1
        BY <2>1, <2>2, MinIsLeast
      <3>2. Min(found) \in 1..3
        BY <2>1, <3>1
      <3> QED
        BY <3>1, <3>2
    <2> QED
      BY <2>1, <2>2, <2>3 DEF FirstFound
  <1>9. Expected(In, learned, d) = FirstFound(chain)
    BY DEF Expected, ExpectedDaily, In, Inputs, slot
  <1>10. told.expected2 = 2 * slot.average
    BY DEF told
  <1> QED
    BY <1>2, <1>4, <1>6, <1>8, <1>9, <1>10 DEF slot

\* The verdict of a day, from what the device expects of it.
OccupancyOf(d) == Occupancy(In, d, Expected(In, History(In), d))

LEMMA VacationPublished ==
  ASSUME Kept
  PROVE  LET judged == (Today - WindowDays)..(Today - 1)
             empty == {d \in judged : \A k \in judged : k >= d => OccupancyOf(k) = "empty"}
         IN /\ result.vacation.days = empty
            /\ result.vacation.active =
                 IF \A d \in judged : OccupancyOf(d) = None THEN None
                 ELSE In.online /\ Cardinality(empty) >= VacationDays
  <1> DEFINE judged == (Today - WindowDays)..(Today - 1)
             verdicts == [d \in judged |-> OccupancyOf(d)]
  <1>1. result = Analytics(In, HourKnowledge(In.readings),
                           Nights(In, HourKnowledge(In.readings)), History(In))
    BY DEF Kept, ResultIsCurrent, ComputeAnalytics
  <1>2. result.vacation = VacationState(In, History(In))
    BY <1>1, Zenon DEF Analytics
  <1>3. NoonDays(WindowDays, In.now) = judged
    BY DaysJudged DEF In, Inputs
  <1>4. VacationState(In, History(In))
          = VacationOf(In.online, [d \in NoonDays(WindowDays, In.now) |-> OccupancyOf(d)])
    BY Zenon DEF VacationState, OccupancyOf
  <1>5. result.vacation = VacationOf(In.online, verdicts)
    BY <1>2, <1>3, <1>4, Zenon
  <1>6. DOMAIN verdicts = judged /\ \A d \in judged : verdicts[d] = OccupancyOf(d)
    BY Zenon
  <1> HIDE DEF verdicts, judged
  <1>7. EmptyDays(verdicts)
          = {d \in judged : \A k \in judged : k >= d => OccupancyOf(k) = "empty"}
    BY <1>6 DEF EmptyDays
  <1>8. (\A d \in DOMAIN verdicts : verdicts[d] = None) <=> (\A d \in judged : OccupancyOf(d) = None)
    BY <1>6
  <1>9. /\ result.vacation.days = EmptyDays(verdicts)
        /\ result.vacation.active = IF \A d \in DOMAIN verdicts : verdicts[d] = None THEN None
                                   ELSE In.online /\ Cardinality(EmptyDays(verdicts)) >= VacationDays
    BY <1>5 DEF VacationOf
  <1> QED
    BY <1>7, <1>8, <1>9 DEF judged

\* The total of a day is what was drawn between two readings, the last ones before
\* its two noons.
LEMMA TotalIsBetween ==
  ASSUME Kept, NEW d \in Int, d < Today, Assessable(In.readings, d)
  PROVE  \E a, b \in DOMAIN In.readings :
           /\ a \in 0..(now - 1) /\ b \in a..(now - 1) /\ a =< NoonOf(d - 1) /\ b =< NoonOf(d)
           /\ \A h \in DOMAIN In.readings : (h =< NoonOf(d - 1) => h =< a) /\ (h =< NoonOf(d) => h =< b)
           /\ \E k \in DOMAIN In.readings : k >= NoonOf(d)
           /\ DayTotal(In.readings, d) = Water((a + 1)..b)
           /\ Water((a + 1)..b) \in Nat
  <1> DEFINE R == In.readings
             opened == NoonOf(d - 1)
             closed == NoonOf(d)
             before == {h \in DOMAIN R : h =< opened}
             within == {h \in DOMAIN R : h =< closed}
             a == Max(before)
             b == Max(within)
  <1>1. opened \in Int /\ closed \in Int /\ opened < closed /\ closed < now
    BY NoonsInOrder
  <1>2. /\ now \in Nat /\ DOMAIN R \subseteq 0..(now - 1)
        /\ \A h \in 0..(now - 1) : used[h] \in Nat
        /\ \A h \in DOMAIN R : R[h] = SumFunctionOnSet(used, 0..h)
    BY RecorderReads DEF ReadingsOf
  <1>3. SeenBy(R, opened) /\ SeenFrom(R, closed) /\ DayTotal(R, d) # None
    BY DEF Assessable, Bounded
  <1>4. before # {} /\ within # {} /\ before \subseteq within /\ within \subseteq 0..(now - 1)
    <2>1. PICK h \in DOMAIN R : h =< opened
      BY <1>3 DEF SeenBy
    <2>2. \A k \in DOMAIN R : k \in Int
      BY <1>2
    <2>3. before \subseteq within
      BY <1>1, <2>2
    <2> QED
      BY <1>2, <2>1, <2>3
  <1>5. /\ a \in before /\ \A m \in before : a >= m
        /\ b \in within /\ \A m \in within : b >= m
    <2>1. now - 1 \in Nat /\ before \subseteq 0..(now - 1)
      BY <1>2, <1>4
    <2> HIDE DEF before, within
    <2> QED
      BY <1>4, <2>1, MaxIsGreatest
  <1>6. a \in Nat /\ b \in Nat /\ a =< b /\ a =< opened /\ b =< closed /\ b =< now - 1
        /\ a \in DOMAIN R /\ b \in DOMAIN R
    <2>1. a \in DOMAIN R /\ b \in DOMAIN R /\ a =< opened /\ b =< closed /\ a \in within
      BY <1>4, <1>5
    <2> HIDE DEF a, b
    <2> QED
      BY <1>2, <1>5, <2>1
  <1>7. LastBy(R, opened) = a /\ LastBy(R, closed) = b /\ SeenBy(R, closed)
    <2>1. SeenBy(R, closed)
      BY <1>5 DEF SeenBy
    <2> QED
      BY <2>1 DEF LastBy
  <1> DEFINE first == R[a]
             last == R[b]
  <1>8. DayTotal(R, d) = IF first = None \/ last = None THEN None
                         ELSE IF last < first THEN None ELSE last - first
    BY <1>3, <1>7 DEF DayTotal, CounterAt
  <1>9. first = SumFunctionOnSet(used, 0..a) /\ last = SumFunctionOnSet(used, 0..b)
    BY <1>2, <1>6
  <1> HIDE DEF first, last, a, b, opened, closed, R
  <1>10. /\ last = first + SumFunctionOnSet(used, (a + 1)..b)
         /\ first \in Nat /\ SumFunctionOnSet(used, (a + 1)..b) \in Nat
    <2>1. \A h \in 0..b : used[h] \in Nat
      BY <1>2, <1>6
    <2> QED
      BY <1>6, <1>9, <2>1, MeterBetween
  <1>11. DayTotal(R, d) = SumFunctionOnSet(used, (a + 1)..b)
    <2>1. ~(last < first) /\ last - first = SumFunctionOnSet(used, (a + 1)..b)
      BY <1>10
    <2> QED
      BY <1>3, <1>8, <2>1
  <1>12. \A h \in DOMAIN R : (h =< opened => h =< a) /\ (h =< closed => h =< b)
    BY <1>2, <1>5, <1>6
  <1>13. \E k \in DOMAIN R : k >= closed
    BY <1>3 DEF SeenFrom
  <1>14. a \in 0..(now - 1) /\ b \in a..(now - 1)
    BY <1>2, <1>6
  <1> QED
    BY <1>6, <1>10, <1>11, <1>12, <1>13, <1>14 DEF Water, R, opened, closed

\* Up to a reading, an hour with the device online and no reading is dry.
LEMMA HiddenIsDry ==
  ASSUME Kept, NEW a \in DOMAIN In.readings, NEW k \in DOMAIN In.readings,
         NEW h \in a..k, h \notin DOMAIN In.readings, h \notin offline
  PROVE  used[h] = 0
  <1>1. /\ now \in Nat /\ DOMAIN In.readings \subseteq 0..(now - 1)
        /\ DOMAIN In.readings = {i \in DOMAIN rows : i >= now - BaselineDays * DayLen}
        /\ DOMAIN rows = {i \in 0..(imported - 1) : used[i] > 0 /\ i \notin offline}
        /\ imported \in Int
    BY RecorderReads DEF ReadingsOf, Kept, HouseTyped
  <1>2. /\ a \in Nat /\ k \in Nat /\ h \in Nat /\ h < imported /\ a =< h
        /\ a >= now - BaselineDays * DayLen
    BY <1>1
  <1>3. BaselineDays * DayLen \in Int
    BY Clock, DetectorAssumption
  <1>4. h >= now - BaselineDays * DayLen
    BY <1>1, <1>2, <1>3
  <1> QED
    BY <1>2, <1>4, SilentIsDry

\* The total of a day between two readings is no less than what was drawn in it.
LEMMA TotalCoversTheDay ==
  ASSUME Kept, NEW d \in Int, d < Today, Online(HoursOf(d)), Assessable(In.readings, d)
  PROVE  /\ DayTotal(In.readings, d) \in Nat /\ Water(HoursOf(d)) \in Nat
         /\ Water(HoursOf(d)) =< DayTotal(In.readings, d)
  <1> DEFINE opened == NoonOf(d - 1)
             closed == NoonOf(d)
  <1>1. PICK a, b \in DOMAIN In.readings :
           /\ a \in 0..(now - 1) /\ b \in a..(now - 1) /\ a =< opened /\ b =< closed
           /\ \A h \in DOMAIN In.readings : (h =< opened => h =< a) /\ (h =< closed => h =< b)
           /\ \E k \in DOMAIN In.readings : k >= closed
           /\ DayTotal(In.readings, d) = Water((a + 1)..b)
           /\ Water((a + 1)..b) \in Nat
    BY TotalIsBetween
  <1>2. /\ opened \in Int /\ closed \in Int /\ closed < now
        /\ HoursOf(d) = (opened + 1)..closed
        /\ now \in Nat /\ \A h \in 0..(now - 1) : used[h] \in Nat
    BY NoonsInOrder, RecorderReads DEF HoursOf, ReadingsOf
  <1> HIDE DEF opened, closed
  <1>3. PICK k \in DOMAIN In.readings : k >= closed
    BY <1>1
  <1>4. DOMAIN In.readings \subseteq 0..(now - 1)
    BY RecorderReads DEF ReadingsOf
  <1>5. \A h \in HoursOf(d) \ (a + 1)..b : used[h] = 0
    <2> SUFFICES ASSUME NEW h \in HoursOf(d), h \notin (a + 1)..b PROVE used[h] = 0
      OBVIOUS
    <2>1. h \in Int /\ opened < h /\ h =< closed
      BY <1>2
    <2>2. a \in Int /\ a =< opened /\ b \in Int /\ k \in Int /\ k >= closed
      BY <1>1, <1>3, <1>4
    <2>3. h \in a..k /\ h > b
      BY <1>2, <2>1, <2>2
    <2>4. h \notin DOMAIN In.readings
      BY <1>1, <2>1, <2>2, <2>3
    <2>5. h \notin offline
      BY DEF Online
    <2> QED
      BY <2>3, <2>4, <2>5, HiddenIsDry
  <1>6. /\ IsFiniteSet(HoursOf(d)) /\ IsFiniteSet((a + 1)..b)
        /\ \A h \in HoursOf(d) \cup (a + 1)..b : used[h] \in Nat
    <2>1. a \in Nat /\ a =< opened /\ b \in Nat /\ b =< now - 1
      BY <1>1, <1>2
    <2>2. HoursOf(d) \subseteq 0..(now - 1) /\ (a + 1)..b \subseteq 0..(now - 1)
      <3>1. \A h \in (opened + 1)..closed : h \in 0..(now - 1)
        BY <1>2, <2>1
      <3>2. \A h \in (a + 1)..b : h \in 0..(now - 1)
        BY <1>2, <2>1
      <3> QED
        BY <1>2, <3>1, <3>2
    <2>3. opened + 1 \in Int /\ a + 1 \in Int
      BY <1>2, <2>1
    <2>4. IsFiniteSet((opened + 1)..closed) /\ IsFiniteSet((a + 1)..b)
      BY <1>2, <2>1, <2>3, FS_Interval
    <2> QED
      BY <1>2, <2>2, <2>4
  <1>7. Water(HoursOf(d)) \in Nat /\ Water(HoursOf(d)) =< Water((a + 1)..b)
    BY <1>5, <1>6, SumInside DEF Water
  <1> QED
    BY <1>1, <1>7

\* A silence that ends with a reading, or lasts under a current import, is one: not a
\* drop before the hour that ends it.
LEMMA SilenceIsDry ==
  ASSUME Kept, NEW d \in Int, d < Today, Online(HoursOf(d)),
         Silent(In.readings, d), SeenBy(In.readings, NoonOf(d - 1)),
         SeenFrom(In.readings, NoonOf(d)) \/ imported = now
  PROVE  Water(HoursOf(d) \ {NoonOf(d)}) = 0
  <1> DEFINE quiet == HoursOf(d) \ {NoonOf(d)}
             opened == NoonOf(d - 1)
             closed == NoonOf(d)
  <1>1. /\ opened \in Int /\ closed \in Int /\ opened < closed /\ closed < now
        /\ HoursOf(d) = (opened + 1)..closed
    BY NoonsInOrder DEF HoursOf
  <1>2. /\ now \in Nat /\ imported \in 0..now
        /\ DOMAIN In.readings = {h \in DOMAIN rows : h >= now - BaselineDays * DayLen}
        /\ DOMAIN rows = {k \in 0..(imported - 1) : used[k] > 0 /\ k \notin offline}
    BY RecorderReads DEF Kept, HouseTyped
  <1>3. PICK a \in DOMAIN In.readings : a =< opened
    BY DEF SeenBy
  <1>4. a \in Nat /\ a >= now - BaselineDays * DayLen /\ BaselineDays * DayLen \in Int
    BY <1>2, <1>3, Clock, DetectorAssumption
  <1>5. closed =< imported
    <2>1. CASE SeenFrom(In.readings, closed)
      <3>1. PICK k \in DOMAIN In.readings : k >= closed
        BY <2>1 DEF SeenFrom
      <3>2. k \in Nat /\ k =< imported - 1 /\ imported \in Int
        BY <1>2, <3>1
      <3> QED
        BY <1>1, <3>1, <3>2
    <2>2. CASE imported = now
      BY <1>1, <1>2, <2>2
    <2> QED
      BY <2>1, <2>2
  <1>6. ASSUME NEW h \in quiet PROVE used[h] = 0
    <2>1. h \in HoursOf(d) /\ h # closed
      OBVIOUS
    <2> HIDE DEF opened, closed, quiet
    <2>2. h \in Nat /\ opened < h /\ h < closed /\ h >= now - BaselineDays * DayLen /\ h < imported
      BY <1>1, <1>2, <1>3, <1>4, <1>5, <2>1
    <2>3. h \notin DOMAIN In.readings
      BY <2>2 DEF Silent, opened, closed
    <2>4. h \notin offline
      BY <2>1 DEF Online
    <2> QED
      BY <2>2, <2>3, <2>4, SilentIsDry
  <1>7. IsFiniteSet(quiet)
    <2>1. IsFiniteSet(HoursOf(d))
      BY <1>1, FS_Interval
    <2> QED
      BY <2>1, FS_Subset
  <1> HIDE DEF quiet
  <1>8. SumFunctionOnSet(used, quiet) = 0
    BY <1>6, <1>7, SumOfDry
  <1> QED
    BY <1>8 DEF Water, quiet

LEMMA Cancel ==
  ASSUME NEW x \in Int, NEW y \in Int, NEW n \in Nat \ {0}, x * n < y * n
  PROVE  x < y
  <1>1. SUFFICES ASSUME y =< x PROVE y * n =< x * n
    BY SMTT(20)
  <1>2. (x - y) * n >= 0
    BY <1>1
  <1>3. (x - y) * n = x * n - y * n /\ x * n \in Int /\ y * n \in Int
    OBVIOUS
  <1> QED
    BY <1>2, <1>3

\* A day that is called empty used little, or nothing before the hour that ends it.
LEMMA EmptyIsReal ==
  ASSUME Kept, NEW d \in Int, d < Today, OccupancyOf(d) = "empty",
         Online(HoursOf(d)), Vouched(device.slots[Weekday(d)])
  PROVE  \/ 10 * Water(HoursOf(d)) < 3 * device.slots[Weekday(d)].average
         \/ Water(HoursOf(d) \ {NoonOf(d)}) = 0
  <1> DEFINE expected == Expected(In, History(In), d)
             average == device.slots[Weekday(d)].average
             total == DayTotal(In.readings, d)
  <1>1. Occupancy(In, d, expected) = "empty"
    BY Zenon DEF OccupancyOf
  <1>2. expected # None /\ expected.expected2 = 2 * average /\ average \in Nat
    BY VouchedIsExpected
  <1> HIDE DEF expected, average
  <1>3. CASE Assessable(In.readings, d)
    <2>1. Unoccupied(In, d, expected)
      BY <1>1, <1>3 DEF Occupancy, Verdict
    <2>2. 20 * total * DayLen < 3 * expected.expected2 * DayLen
      BY <2>1 DEF Unoccupied, BelowRatio
    <2>3. total \in Nat /\ Water(HoursOf(d)) \in Nat /\ Water(HoursOf(d)) =< total
      BY <1>3, TotalCoversTheDay
    <2> HIDE DEF total
    <2>4. 20 * total < 3 * expected.expected2
      <3>1. 20 * total \in Int /\ 3 * expected.expected2 \in Int /\ DayLen \in Nat \ {0}
        BY <1>2, <2>3, Clock
      <3> QED
        BY <2>2, <3>1, Cancel
    <2>5. 10 * Water(HoursOf(d)) < 3 * average
      BY <1>2, <2>3, <2>4
    <2> QED
      BY <2>5 DEF average
  <1>4. CASE ~Assessable(In.readings, d)
    <2>1. /\ Silent(In.readings, d) /\ SeenBy(In.readings, NoonOf(d - 1))
          /\ SeenFrom(In.readings, NoonOf(d)) \/ TrailingSilence(In)
      <3>1. None # "empty"
        BY DetectorAssumption
      <3> QED
        BY <1>1, <1>4, <3>1 DEF Occupancy
    <2>2. TrailingSilence(In) => imported = now
      BY DEF TrailingSilence, In, Inputs
    <2> QED
      BY <2>1, <2>2, SilenceIsDry
  <1> QED
    BY <1>3, <1>4

\* The days of a claimed absence were days of one, for any household and any device:
\* each on which the device was never offline, judged by an average of its own, used
\* less than the vacation share of it or nothing before the hour that ends it
\* (_occupancy, vacation_state).
THEOREM AbsencesAreAlwaysReal == Spec => []AbsencesAreReal
  <1>1. ASSUME Kept, NEW d \in result.vacation.days
        PROVE  d \in Int /\ d < Today /\ OccupancyOf(d) = "empty"
    <2> DEFINE judged == (Today - WindowDays)..(Today - 1)
    <2>1. Today \in Nat /\ WindowDays \in Nat
      BY <1>1, DaysJudged
    <2>2. d \in judged /\ \A k \in judged : k >= d => OccupancyOf(k) = "empty"
      BY <1>1, VacationPublished
    <2>3. d \in Int /\ d < Today /\ d >= d
      BY <2>1, <2>2
    <2> QED
      BY <2>2, <2>3
  <1>2. ASSUME Kept, NEW d \in result.vacation.days,
               Online(HoursOf(d)), Vouched(device.slots[Weekday(d)])
        PROVE  \/ 10 * Water(HoursOf(d)) < 3 * device.slots[Weekday(d)].average
               \/ Water(HoursOf(d) \ {NoonOf(d)}) = 0
    BY <1>1, <1>2, EmptyIsReal
  <1>3. Kept => AbsencesAreReal
    BY <1>2, Zenon DEF AbsencesAreReal
  <1> QED
    BY <1>3, RecorderIsTheMeter, PTL

\* With nothing since the noon before, a day is empty.
LEMMA StillDayIsEmpty ==
  ASSUME Kept, NEW d \in Int, d < Today, Vouched(device.slots[Weekday(d)]),
         NEW a \in DOMAIN In.readings, a =< NoonOf(d - 1),
         \A h \in DOMAIN In.readings : ~(h > NoonOf(d - 1)),
         TrailingSilence(In)
  PROVE  OccupancyOf(d) = "empty"
  <1>1. NoonOf(d - 1) \in Int /\ NoonOf(d) \in Int /\ NoonOf(d - 1) < NoonOf(d)
    BY NoonsInOrder
  <1>2. DOMAIN In.readings \subseteq Nat
    BY RecorderReads DEF ReadingsOf
  <1>3. ~SeenFrom(In.readings, NoonOf(d))
    <2> SUFFICES ASSUME NEW k \in DOMAIN In.readings, k >= NoonOf(d) PROVE FALSE
      BY DEF SeenFrom
    <2> QED
      BY <1>1, <1>2
  <1>4. SeenBy(In.readings, NoonOf(d - 1))
    BY DEF SeenBy
  <1>5. Silent(In.readings, d)
    BY DEF Silent
  <1>6. Expected(In, History(In), d) # None
    BY VouchedIsExpected
  <1>7. ~Assessable(In.readings, d)
    BY <1>3 DEF Assessable, Bounded
  <1> QED
    BY <1>3, <1>4, <1>5, <1>6, <1>7 DEF OccupancyOf, Occupancy

\* An empty house is noticed, for any household and any device with averages of its
\* own that reach over the absence (vacation_state, _occupancy).
THEOREM LongAbsenceIsAlwaysSeen == Spec => []LongAbsenceIsSeen
  <1> DEFINE newest == NewestNoonDay(now)
             start == NoonOf(newest - VacationDays)
             learned == {h \in DOMAIN used : h >= now - BaselineDays * DayLen}
  <1>1. ASSUME Kept, newest - VacationDays >= 1,
               \A w \in DOMAIN device.slots : Vouched(device.slots[w]),
               Water(start..(now - 1)) = 0, Water(learned) > 0,
               Online(DOMAIN used), imported = now
        PROVE  result.vacation.active = TRUE
    <2> DEFINE judged == (Today - WindowDays)..(Today - 1)
               last == (Today - VacationDays)..(Today - 1)
               empty == {d \in judged : \A k \in judged : k >= d => OccupancyOf(k) = "empty"}
    <2>1. /\ newest = Today - 1 /\ Today \in Nat
          /\ WindowDays \in Nat \ {0} /\ VacationDays \in Nat \ {0} /\ VacationDays =< WindowDays
      BY <1>1, DaysJudged, DetectorAssumption
    <2>2. /\ now \in Nat /\ now > 0 /\ DOMAIN used = 0..(now - 1) /\ used \in [0..(now - 1) -> Nat]
      BY <1>1, RecorderReads, Clock DEF Kept, HouseTyped
    <2>3. start \in Int /\ start < now /\ start >= 0
      <3>1. newest - VacationDays \in Int /\ newest - VacationDays < Today
        BY <2>1
      <3>2. start \in Int /\ start < now
        BY <1>1, <3>1, NoonsInOrder
      <3> DEFINE day == newest - VacationDays
                 opens == day * DayLen
      <3>3. start = opens + Noon
        BY DEF NoonOf
      <3>4. day \in Nat /\ DayLen \in Nat
        BY <1>1, <3>1, Clock
      <3> HIDE DEF day
      <3>5. opens \in Nat
        BY <3>4
      <3> HIDE DEF opens, start
      <3> QED
        BY <3>2, <3>3, <3>5, Clock
    <2>4. \A h \in start..(now - 1) : used[h] = 0
      <3>1. SumFunctionOnSet(used, start..(now - 1)) = 0
        BY <1>1 DEF Water
      <3> HIDE DEF start
      <3>2. \A h \in start..(now - 1) : used[h] \in Nat
        BY <2>2, <2>3
      <3>3. IsFiniteSet(start..(now - 1))
        BY <2>2, <2>3, FS_Interval
      <3> QED
        BY <3>1, <3>2, <3>3, DryThroughout
    <2>5. PICK a \in learned : used[a] > 0
      <3>1. learned \subseteq 0..(now - 1) /\ IsFiniteSet(0..(now - 1))
        BY <2>2, FS_Interval
      <3>2. IsFiniteSet(learned) /\ \A h \in learned : used[h] \in Nat
        BY <2>2, <3>1, FS_Subset
      <3>3. SumFunctionOnSet(used, learned) > 0
        BY <1>1 DEF Water
      <3> HIDE DEF learned
      <3>4. ~\A h \in learned : used[h] = 0
        BY <3>2, <3>3, SumOfDry
      <3>5. PICK h \in learned : used[h] # 0
        BY <3>4
      <3> QED
        BY <3>2, <3>5
    <2>6. /\ a \in Nat /\ a < start /\ a \in DOMAIN In.readings
      <3>1. a \in 0..(now - 1) /\ a >= now - BaselineDays * DayLen /\ a \notin offline
        BY <1>1, <2>2, <2>5 DEF Online
      <3>2. a \in DOMAIN In.readings
        BY <1>1, <2>5, <3>1, RecorderReads
      <3>3. a < start
        BY <2>3, <2>4, <2>5, <3>1
      <3> QED
        BY <3>1, <3>2, <3>3
    <2>7. \A h \in DOMAIN In.readings : h \in Nat /\ h < start
      <3> SUFFICES ASSUME NEW h \in DOMAIN In.readings PROVE h \in Nat /\ h < start
        OBVIOUS
      <3>1. h \in 0..(now - 1) /\ used[h] > 0
        BY <1>1, RecorderReads DEF ReadingsOf
      <3> HIDE DEF start
      <3> QED
        BY <2>2, <2>3, <2>4, <3>1
    <2>8. TrailingSilence(In) /\ In.online = TRUE
      <3>1. now - 1 \in DOMAIN used
        BY <2>2
      <3>2. (now - 1 \notin offline) = TRUE
        BY <1>1, <3>1 DEF Online
      <3> QED
        BY <1>1, <3>2 DEF TrailingSilence, In, Inputs
    <2>9. ASSUME NEW d \in last PROVE OccupancyOf(d) = "empty" /\ d \in Int
      <3>1. d \in Int /\ d < Today /\ newest - VacationDays \in Int /\ newest - VacationDays =< d - 1
        BY <2>1
      <3>2. start =< NoonOf(d - 1) /\ NoonOf(d - 1) \in Int
        <4>1. /\ (newest - VacationDays) * DayLen =< (d - 1) * DayLen
              /\ (newest - VacationDays) * DayLen \in Int /\ (d - 1) * DayLen \in Int
          BY <3>1, DaysInOrder
        <4> QED
          BY <4>1, Clock DEF NoonOf
      <3>3. Vouched(device.slots[Weekday(d)])
        <4>1. Weekday(d) \in 0..(WeekDays - 1)
          BY <3>1, BaselineAssumption DEF Weekday
        <4>2. DOMAIN device.slots = 0..(WeekDays - 1)
          BY <1>1, AnalysisAssumption DEF Kept, HouseTyped
        <4> QED
          BY <1>1, <4>1, <4>2
      <3> HIDE DEF start
      <3>4. a =< NoonOf(d - 1) /\ \A h \in DOMAIN In.readings : ~(h > NoonOf(d - 1))
        BY <2>3, <2>6, <2>7, <3>2
      <3>5. a \in DOMAIN In.readings
        BY <2>6
      <3> HIDE DEF last
      <3> QED
        BY <1>1, <2>8, <3>1, <3>3, <3>4, <3>5, StillDayIsEmpty
    <2>10. last \subseteq empty
      <3> SUFFICES ASSUME NEW d \in last, NEW k \in judged, k >= d
                   PROVE  d \in judged /\ OccupancyOf(k) = "empty"
        BY <2>1
      <3>1. d \in judged /\ k \in last
        BY <2>1
      <3> QED
        BY <2>9, <3>1
    <2>11. Cardinality(empty) >= VacationDays
      <3>1. IsFiniteSet(last) /\ Cardinality(last) = VacationDays
        BY <2>1, FS_Interval
      <3>2. IsFiniteSet(empty)
        <4>1. IsFiniteSet(judged) /\ empty \subseteq judged
          BY <2>1, FS_Interval
        <4> QED
          BY <4>1, FS_Subset
      <3> HIDE DEF empty, last
      <3>3. Cardinality(last) =< Cardinality(empty) /\ Cardinality(empty) \in Nat
        BY <2>10, <3>2, FS_Subset, FS_CardinalityType
      <3> QED
        BY <2>1, <3>1, <3>3
    <2>12. ~\A d \in judged : OccupancyOf(d) = None
      <3>1. Today - 1 \in last /\ Today - 1 \in judged
        BY <2>1
      <3>2. OccupancyOf(Today - 1) = "empty"
        BY <2>9, <3>1
      <3>3. None # "empty"
        BY DetectorAssumption
      <3> QED
        BY <3>1, <3>2, <3>3
    <2>13. result.vacation.active =
             IF \A d \in judged : OccupancyOf(d) = None THEN None
             ELSE In.online /\ Cardinality(empty) >= VacationDays
      BY <1>1, VacationPublished
    <2> HIDE DEF judged, empty
    <2> QED
      BY <2>8, <2>11, <2>12, <2>13
  <1>2. Kept => LongAbsenceIsSeen
    BY <1>1, Zenon DEF LongAbsenceIsSeen
  <1> QED
    BY <1>2, RecorderIsTheMeter, PTL

-----------------------------------------------------------------------------
(* Who listens hears of a leak.                                            *)

\* A night that was wet is not enough for a claim, and a dry one the day before lies
\* within the hours of the other rule (LEAK_CONSECUTIVE_NIGHTS is 2,
\* PERSISTENT_FLOW_HOURS is 72).
PatientRules == LeakNights >= 2 /\ PersistentHours >= DayLen + RunHour - NightStart

\* An import that has never failed has always caught up.
Timely == failures \in Nat /\ (failures = 0 => imported = now)

Recorded == DOMAIN In.readings

\* The readings bound the window of a night and miss one of its hours.
ShownDry(n) ==
  /\ \E a \in Recorded : WindowStart(n) - BoundSlack =< a /\ a =< WindowStart(n)
  /\ \E b \in Recorded : WindowEnd(n) =< b /\ b =< WindowEnd(n) + BoundSlack
  /\ \E h \in WindowHours(n) : h \notin Recorded

\* Water has not stopped since before the night first, and the recorder has it all.
WetSince(first) ==
  LET since == (WindowStart(first) - 1)..(now - 1)
  IN (\A h \in since : Wet(h)) /\ Online(since) /\ imported = now

ClearedNight(n) ==
  n \in DOMAIN result.nights /\ result.nights[n].verdict = "no_leak" /\ ~Masked(regens, n)

\* While water runs since a night before which all was clear, there is a verdict, and
\* one that claims a leak has been heard.
ClaimsAreHeard ==
  \A first \in DOMAIN result.nights :
    (WetSince(first) /\ failures = 0 /\ ClearedNight(first - 1)) =>
      /\ result.leak.active \in BOOLEAN
      /\ result.leak.active = TRUE => heard.leak = TRUE

\* What is recorded of what was drawn, and the nights there are verdicts of.
HistoryIsRead ==
  /\ Recorded = {h \in 0..(imported - 1) :
                  used[h] > 0 /\ h \notin offline /\ h >= now - BaselineDays * DayLen}
  /\ now \in Nat /\ imported \in 0..now
  /\ Today \in Nat /\ now = Today * DayLen + RunHour
  /\ DOMAIN used = 0..(now - 1)
  /\ DOMAIN result.nights = (Today - WindowDays + 1)..Today

LEMMA RecordedIs == Kept => HistoryIsRead
  <1> SUFFICES ASSUME Kept PROVE HistoryIsRead
    OBVIOUS
  <1>1. Recorded = {h \in 0..(imported - 1) :
                     used[h] > 0 /\ h \notin offline /\ h >= now - BaselineDays * DayLen}
    BY RecorderReads DEF Recorded
  <1> QED
    BY <1>1, RecorderReads, NightsPublished DEF HistoryIsRead, Kept, HouseTyped

\* What a cleared night without a regeneration is.
ClearsAreDry ==
  \A n \in DOMAIN result.nights :
    ~Masked(regens, n) => (result.nights[n].verdict = "no_leak" <=> ShownDry(n))

LEMMA ClearedMeans == Kept => ClearsAreDry
  <1> SUFFICES ASSUME Kept, NEW n \in DOMAIN result.nights, ~Masked(regens, n)
               PROVE  result.nights[n].verdict = "no_leak" <=> ShownDry(n)
    BY DEF ClearsAreDry
  <1> DEFINE knowledge == HourKnowledge(In.readings)
  <1>1. /\ WindowStart(n) \in Int /\ WindowEnd(n) \in Int
        /\ Recorded \subseteq 0..now /\ now \in Nat
    BY WindowIsPast, RecordedIs DEF HistoryIsRead
  <1>2. n \in (Today - WindowDays + 1)..Today
    BY RecordedIs DEF HistoryIsRead
  <1>3. result.nights[n] = ClassifyNight(In, knowledge, n)
    BY <1>2, NightsPublished, Zenon
  <1>4. ~Masked(In.regens, n)
    <2>1. In.regens \subseteq regens
      BY DEF In, Inputs, Known
    <2> QED
      BY <2>1 DEF Masked
  <1>5. Dry(In, knowledge, n) <=> \E h \in WindowHours(n) : h \notin Recorded
    <2>1. now \in Nat /\ ReadingsOf(In.readings, used, now)
      BY RecorderReads
    <2>2. \A h \in DOMAIN knowledge : knowledge[h] # 0
      <3>1. \A h \in DOMAIN knowledge : knowledge[h] = used[h + 1] /\ used[h + 1] > 0
        BY <2>1, CertainOfTheNext
      <3> QED
        BY <3>1
    <2> HIDE DEF knowledge
    <2> QED
      BY <2>2 DEF Dry, ReadingHours, Recorded
  <1>6. Bounded(In.readings, WindowStart(n), WindowEnd(n)) <=>
          /\ \E a \in Recorded : WindowStart(n) - BoundSlack =< a /\ a =< WindowStart(n)
          /\ \E b \in Recorded : WindowEnd(n) =< b /\ b =< WindowEnd(n) + BoundSlack
    BY <1>1, BoundedMeans DEF Recorded
  <1> HIDE DEF knowledge
  <1>7. ClassifyNight(In, knowledge, n).verdict = "no_leak"
          <=> Bounded(In.readings, WindowStart(n), WindowEnd(n)) /\ Dry(In, knowledge, n)
    <2> DEFINE bounded == Bounded(In.readings, WindowStart(n), WindowEnd(n))
               dry == Dry(In, knowledge, n)
               covered == Covered(In.coverage, n)
               verdict == IF ~bounded THEN "unassessed"
                          ELSE IF dry THEN "no_leak"
                          ELSE IF ~covered THEN "unknown"
                          ELSE "leak"
    <2>1. ClassifyNight(In, knowledge, n).verdict = verdict
      BY <1>4 DEF ClassifyNight, Dry
    <2>2. verdict = "no_leak" <=> bounded /\ dry
      <3> HIDE DEF bounded, dry, covered
      <3> QED
        OBVIOUS
    <2> QED
      BY <2>1, <2>2
  <1> QED
    BY <1>3, <1>5, <1>6, <1>7 DEF ShownDry

\* A cleared night leaves no verdict open.
ClearsDetermine ==
  \A n \in DOMAIN result.nights :
    result.nights[n].verdict = "no_leak" => result.leak.active \in BOOLEAN

LEMMA ClearedIsDeterminate == Kept => ClearsDetermine
  <1> SUFFICES ASSUME Kept, NEW n \in DOMAIN result.nights, result.nights[n].verdict = "no_leak"
               PROVE  result.leak.active \in BOOLEAN
    BY DEF ClearsDetermine
  <1> DEFINE persistent == PersistentFlow(In, HourKnowledge(In.readings))
             claimed == Cardinality(Streak(result.nights)) >= LeakNights \/ persistent
             determinate == \E k \in DOMAIN result.nights :
                              result.nights[k].verdict \in {"leak", "no_leak"}
  <1>1. result.leak = LeakState(result.nights, persistent)
    BY NightsPublished, Zenon
  <1>2. result.leak.active = IF claimed THEN TRUE ELSE IF determinate THEN FALSE ELSE None
    <2> HIDE DEF persistent
    <2> QED
      BY <1>1 DEF LeakState
  <1>3. determinate
    OBVIOUS
  <1> HIDE DEF claimed, determinate
  <1> QED
    BY <1>2, <1>3

\* Right after a cleared night nothing is claimed.
ClearsClaimNothing == ClearedNight(Today - 1) => result.leak.active # TRUE

LEMMA NothingYet ==
  ASSUME PatientRules
  PROVE  Kept => ClearsClaimNothing
  <1> SUFFICES ASSUME Kept, ClearedNight(Today - 1) PROVE result.leak.active # TRUE
    BY DEF ClearsClaimNothing
  <1> USE DEF ClearedNight
  <1>1. /\ Today \in Nat /\ now = Today * DayLen + RunHour /\ now \in Nat
        /\ DOMAIN result.nights = (Today - WindowDays + 1)..Today
        /\ Recorded \subseteq 0..now
    BY RecordedIs DEF HistoryIsRead
  <1>2. ~(Cardinality(Streak(result.nights)) >= LeakNights)
    <2>1. Streak(result.nights) \subseteq {Today}
      <3> SUFFICES ASSUME NEW n \in Streak(result.nights) PROVE n = Today
        OBVIOUS
      <3>1. /\ n \in DOMAIN result.nights /\ result.nights[n].verdict = "leak"
            /\ \A k \in DOMAIN result.nights : k > n => result.nights[k].verdict # "no_leak"
        BY DEF Streak
      <3>2. n \in Int /\ n =< Today
        BY <1>1, <3>1, DetectorAssumption
      <3>3. n # Today - 1 /\ ~(Today - 1 > n)
        BY <3>1
      <3> QED
        BY <1>1, <3>2, <3>3
    <2>2. IsFiniteSet({Today}) /\ Cardinality({Today}) = 1
      BY FS_Singleton
    <2>3. /\ Cardinality(Streak(result.nights)) \in Nat
          /\ Cardinality(Streak(result.nights)) =< 1
      BY <2>1, <2>2, FS_Subset, FS_CardinalityType
    <2>4. LeakNights \in Nat /\ LeakNights >= 2
      BY DetectorAssumption DEF PatientRules
    <2> QED
      BY <2>3, <2>4
  <1>3. ~PersistentFlow(In, HourKnowledge(In.readings))
    <2>1. ShownDry(Today - 1)
      BY ClearedMeans DEF ClearsAreDry
    <2>2. PICK h \in WindowHours(Today - 1) : h \notin Recorded
      BY <2>1 DEF ShownDry
    <2>3. /\ DayLen \in Nat \ {0} /\ NightStart \in Nat /\ NightEnd \in Nat /\ RunHour \in Nat
          /\ NightEnd =< DayLen /\ PersistentHours \in Nat
      BY Clock, DetectorAssumption
    <2> DEFINE x == Today * DayLen
               y == (Today - 1) * DayLen
    <2>4. x \in Int /\ y = x - DayLen /\ now = x + RunHour
      BY <1>1, <2>3
    <2>5. WindowStart(Today - 1) = y + NightStart /\ WindowEnd(Today - 1) = y + NightEnd
      BY DEF WindowStart, WindowEnd
    <2> HIDE DEF x, y
    <2>6. h \in Int /\ h >= y + NightStart /\ h < y + NightEnd
      BY <2>2, <2>3, <2>4, <2>5 DEF WindowHours
    <2>7. h \in TrailingHours(now, PersistentHours)
      BY <2>3, <2>4, <2>6 DEF TrailingHours, PatientRules
    <2>8. In.now = now
      BY DEF In, Inputs
    <2> QED
      BY <2>2, <2>7, <2>8 DEF PersistentFlow, ReadingHours, Recorded
  <1> QED
    BY <1>2, <1>3, LeakIsClaimed

\* What a pass adds to what is there.
LEMMA PassAdds ==
  ASSUME Kept, Timely, Pass
  PROVE  /\ now' = now + DayLen
         /\ \A h \in 0..(now - 1) : used'[h] = used[h]
         /\ \A h \in 0..(now - 1) : h \in offline <=> h \in offline'
         /\ regens \subseteq regens'
         /\ Timely' /\ (failures' = 0 => failures = 0)
         /\ heard'.leak = Flip(result.leak.active, result'.leak.active, heard.leak)
  <1>1. PICK off \in Stretches, regenerates \in BOOLEAN, ok \in BOOLEAN, water \in Patterns :
          /\ now' = NextRun(now)
          /\ offline' = offline \cup {now + i : i \in off}
          /\ regens' = IF regenerates THEN regens \cup {Cycle(Today + 1)} ELSE regens
          /\ used' = HoursDrawn(water, regenerates)
          /\ imported' = IF ok THEN now' ELSE imported
          /\ failures' = IF ok THEN failures ELSE failures + 1
          /\ heard' = FireTransitions(result, result', heard)
    BY PassIs
  <1>2. now' = now + DayLen /\ now \in Nat /\ DOMAIN used = 0..(now - 1)
    BY <1>1, NextRunIsTomorrow DEF Kept, HouseTyped
  <1>3. \A h \in 0..(now - 1) : used'[h] = used[h]
    <2>1. used' = [h \in DOMAIN used \cup now..(NextRun(now) - 1) |->
                     IF h < now THEN used[h]
                     ELSE water[h - now + 1]
                          + (IF regenerates /\ h = Cycle(Today + 1).start THEN RegenUse ELSE 0)]
      BY <1>1 DEF HoursDrawn
    <2> QED
      BY <1>2, <2>1
  <1>4. /\ \A h \in 0..(now - 1) : h \in offline <=> h \in offline'
        /\ regens \subseteq regens'
    <2>1. \A h \in {now + i : i \in off} : h \notin 0..(now - 1)
      <3>1. off \subseteq 0..(DayLen - 1)
        BY AnalysisAssumption
      <3> QED
        BY <1>2, <3>1
    <2> QED
      BY <1>1, <2>1
  <1>5. Timely' /\ (failures' = 0 => failures = 0)
    <2>1. failures \in Nat
      BY DEF Timely
    <2>2. CASE ok
      BY <1>1, <2>1, <2>2 DEF Timely
    <2>3. CASE ~ok
      BY <1>1, <2>1, <2>3 DEF Timely
    <2> QED
      BY <2>2, <2>3
  <1>6. heard'.leak = Flip(result.leak.active, result'.leak.active, heard.leak)
    BY <1>1 DEF FireTransitions
  <1> QED
    BY <1>2, <1>3, <1>4, <1>5, <1>6

\* A night that is cleared has been cleared since the day after it.
LEMMA ClearedStays ==
  ASSUME Kept, Kept', Timely, Pass,
         NEW first \in DOMAIN result'.nights, first =< Today,
         WetSince(first)', failures' = 0, ClearedNight(first - 1)'
  PROVE  first \in DOMAIN result.nights /\ WetSince(first) /\ ClearedNight(first - 1)
  <1> DEFINE n == first - 1
  <1>1. HistoryIsRead /\ ClearsAreDry
    BY RecordedIs, ClearedMeans
  <1>2. HistoryIsRead' /\ ClearsAreDry'
    BY RecordedIs, ClearedMeans, PTL
  <1>3. /\ now' = now + DayLen /\ DayLen \in Nat \ {0}
        /\ \A h \in 0..(now - 1) : used'[h] = used[h]
        /\ \A h \in 0..(now - 1) : h \in offline <=> h \in offline'
        /\ regens \subseteq regens'
        /\ imported = now
    BY PassAdds, Clock DEF Timely
  <1>4. Today' = Today + 1 /\ Today \in Nat /\ now \in Nat /\ now' \in Nat /\ imported' = now'
    <2>1. /\ now' = Today' * DayLen + RunHour /\ Today' \in Nat
          /\ now = Today * DayLen + RunHour /\ Today \in Nat
      BY <1>1, <1>2 DEF HistoryIsRead
    <2>2. Today' = now' \div DayLen
      BY DEF Today
    <2>3. now' = (Today + 1) * DayLen + RunHour
      BY <1>3, <2>1, Clock
    <2>4. ((Today + 1) * DayLen + RunHour) \div DayLen = Today + 1
      BY <2>1, Clock, HourOfDay
    <2> QED
      BY <1>1, <1>2, <2>1, <2>2, <2>3, <2>4 DEF HistoryIsRead, WetSince
  <1>5. /\ first \in Int /\ n \in DOMAIN result.nights /\ first \in DOMAIN result.nights
        /\ n \in DOMAIN result'.nights
    <2>1. WindowDays \in Nat
      BY DetectorAssumption
    <2>2. /\ DOMAIN result.nights = (Today - WindowDays + 1)..Today
          /\ DOMAIN result'.nights = (Today' - WindowDays + 1)..Today'
          /\ n \in DOMAIN result'.nights
      BY <1>1, <1>2 DEF HistoryIsRead, ClearedNight
    <2> QED
      BY <1>4, <2>1, <2>2
  <1> DEFINE opened == WindowStart(n)
             closed == WindowEnd(n)
             before == WindowStart(first) - 1
  <1>6. /\ opened \in Int /\ closed \in Int /\ before \in Int
        /\ opened < closed /\ closed =< before /\ before < now
    <2> DEFINE x == n * DayLen
               y == first * DayLen
               z == Today * DayLen
    <2>1. x \in Int /\ y = x + DayLen /\ y =< z /\ z \in Int /\ now = z + RunHour
      <3>1. first * DayLen =< Today * DayLen /\ first * DayLen \in Int /\ Today * DayLen \in Int
        BY <1>4, <1>5, DaysInOrder
      <3>2. n * DayLen = first * DayLen - DayLen
        BY <1>3, <1>5
      <3> QED
        BY <1>1, <1>3, <3>1, <3>2 DEF HistoryIsRead
    <2>2. opened = x + NightStart /\ closed = x + NightEnd /\ before = (y + NightStart) - 1
      <3> HIDE DEF n
      <3> QED
        BY DEF WindowStart, WindowEnd
    <2> HIDE DEF x, y, z, opened, closed, before
    <2> QED
      BY <2>1, <2>2, Clock
  <1> HIDE DEF opened, closed, before
  <1>7. WetSince(first)
    <2>1. ASSUME NEW h \in before..(now - 1) PROVE Wet(h) /\ h \notin offline
      <3>1. h \in before..(now' - 1) /\ h \in Int /\ h < now
        BY <1>3, <1>4, <1>6
      <3>2. h \in DOMAIN used' /\ used'[h] > 0 /\ h \notin offline'
        BY <3>1 DEF WetSince, Wet, Online, before
      <3>3. h \in 0..(now - 1)
        BY <1>2, <1>4, <3>1, <3>2 DEF HistoryIsRead
      <3> QED
        BY <1>1, <1>3, <3>2, <3>3 DEF Wet, HistoryIsRead
    <2> QED
      BY <1>3, <2>1 DEF WetSince, Online, before
  <1>8. ASSUME NEW h \in Recorded', h < now PROVE h \in Recorded
    <2>1. /\ h \in 0..(imported' - 1) /\ used'[h] > 0 /\ h \notin offline'
          /\ h >= now' - BaselineDays * DayLen
      BY <1>8, <1>2 DEF HistoryIsRead
    <2>2. h \in 0..(now - 1) /\ BaselineDays * DayLen \in Int
      BY <1>4, <1>8, <2>1, <1>3, DetectorAssumption
    <2> DEFINE x == BaselineDays * DayLen
    <2> HIDE DEF x
    <2>3. h >= now - x
      BY <1>3, <1>4, <2>1, <2>2 DEF x
    <2> QED
      BY <1>1, <1>3, <2>1, <2>2, <2>3 DEF HistoryIsRead, x
  <1>9. opened >= now' - BaselineDays * DayLen
    <2>1. /\ WindowDays \in Nat /\ BaselineDays \in Nat /\ BaselineDays >= WindowDays
          /\ n \in (Today' - WindowDays + 1)..Today' /\ Today' \in Nat
          /\ now' = Today' * DayLen + RunHour
      BY <1>2, <1>5, DetectorAssumption DEF HistoryIsRead
    <2>2. n \in Int /\ Today' - BaselineDays \in Int /\ Today' - BaselineDays < n
      BY <2>1
    <2>3. (Today' - BaselineDays) * DayLen + DayLen =< n * DayLen /\ n * DayLen \in Int
      BY <2>2, DaysInOrder
    <2>4. (Today' - BaselineDays) * DayLen = Today' * DayLen - BaselineDays * DayLen
      BY <1>3, <2>1
    <2> DEFINE x == Today' * DayLen
               y == BaselineDays * DayLen
               z == n * DayLen
    <2>5. /\ x \in Int /\ y \in Int /\ z \in Int /\ x - y + DayLen =< z
          /\ now' = x + RunHour
      BY <1>3, <2>1, <2>3, <2>4
    <2>6. opened = z + NightStart
      <3> HIDE DEF n
      <3> QED
        BY DEF opened, WindowStart
    <2> HIDE DEF x, y, z
    <2>7. opened >= now' - y
      BY <2>5, <2>6, Clock
    <2> QED
      BY <2>7 DEF y
  <1>10. BaselineDays * DayLen \in Int
    BY <1>3, DetectorAssumption
  <1>11. ASSUME NEW h \in Recorded, h >= opened PROVE h \in Recorded'
    <2>1. h \in 0..(now - 1) /\ used[h] > 0 /\ h \notin offline
      BY <1>1, <1>3 DEF HistoryIsRead
    <2>2. h \in 0..(imported' - 1) /\ used'[h] > 0 /\ h \notin offline'
      BY <1>3, <1>4, <2>1
    <2>3. h >= now' - BaselineDays * DayLen
      BY <1>4, <1>6, <1>9, <1>10, <1>11, <2>1
    <2> QED
      BY <1>2, <2>2, <2>3 DEF HistoryIsRead
  <1>12. before \in Recorded
    <2>1. before \in (WindowStart(first) - 1)..(now - 1)
      BY <1>4, <1>6 DEF before
    <2>2. Wet(before) /\ before \notin offline
      BY <1>7, <2>1 DEF WetSince, Online
    <2>3. before \in 0..(imported - 1) /\ used[before] > 0
      BY <1>1, <1>3, <2>2 DEF Wet, HistoryIsRead
    <2>4. before >= now - BaselineDays * DayLen
      BY <1>3, <1>4, <1>6, <1>9, <1>10
    <2> QED
      BY <1>1, <2>2, <2>3, <2>4 DEF HistoryIsRead
  <1>13. ~Masked(regens, n) /\ ShownDry(n)'
    <2>1. ~Masked(regens', n) /\ result'.nights[n].verdict = "no_leak"
      BY DEF ClearedNight, Masked, WindowStart, WindowEnd
    <2>2. ~Masked(regens, n)
      BY <1>3, <2>1 DEF Masked
    <2>3. ShownDry(n)'
      BY <1>2, <1>5, <2>1 DEF ClearsAreDry
    <2> QED
      BY <2>2, <2>3
  <1>14. ShownDry(n)
    <2>1. PICK a \in Recorded' : opened - BoundSlack =< a /\ a =< opened
      BY <1>13 DEF ShownDry, opened, WindowStart
    <2>2. PICK b \in Recorded' : closed =< b /\ b =< closed + BoundSlack
      BY <1>13 DEF ShownDry, closed, WindowEnd
    <2>3. PICK h \in WindowHours(n) : h \notin Recorded'
      BY <1>13 DEF ShownDry, WindowHours, WindowStart, WindowEnd
    <2>4. a \in Nat /\ b \in Nat /\ BoundSlack \in Nat
      BY <1>2, SeriesAssumption DEF HistoryIsRead
    <2>5. a \in Recorded
      BY <1>4, <1>6, <1>8, <2>1, <2>4
    <2>6. \E k \in Recorded : closed =< k /\ k =< closed + BoundSlack
      <3>1. CASE b < now
        BY <1>8, <2>2, <3>1
      <3>2. CASE ~(b < now)
        <4>1. before =< closed + BoundSlack
          BY <1>4, <1>6, <2>2, <2>4, <3>2
        <4> QED
          BY <1>6, <1>12, <4>1
      <3> QED
        BY <3>1, <3>2
    <2>7. h \notin Recorded
      <3>1. h >= opened
        <4>1. h \in opened..(closed - 1)
          BY DEF WindowHours, opened, closed
        <4> QED
          BY <1>6, <4>1
      <3> QED
        BY <1>11, <2>3, <3>1
    <2> QED
      BY <2>1, <2>5, <2>6, <2>7 DEF ShownDry, opened, closed
  <1>15. ClearedNight(n)
    BY <1>1, <1>5, <1>13, <1>14 DEF ClearsAreDry, ClearedNight
  <1> QED
    BY <1>5, <1>7, <1>15

LEMMA ClaimsStayHeard ==
  ASSUME PatientRules, Kept, Kept', Timely, ClaimsAreHeard, Pass
  PROVE  ClaimsAreHeard'
  <1> SUFFICES ASSUME NEW first \in DOMAIN result'.nights,
                      WetSince(first)', failures' = 0, ClearedNight(first - 1)'
               PROVE  /\ result'.leak.active \in BOOLEAN
                      /\ result'.leak.active = TRUE => heard'.leak = TRUE
    BY DEF ClaimsAreHeard, WetSince, ClearedNight, WindowStart, Masked, WindowEnd
  <1>1. /\ HistoryIsRead /\ HistoryIsRead' /\ ClearsDetermine' /\ ClearsClaimNothing'
    BY RecordedIs, ClearedIsDeterminate, NothingYet, PTL
  <1>2. Today' = Today + 1 /\ Today \in Nat
    <2>1. /\ now' = now + DayLen /\ DayLen \in Nat \ {0}
          /\ now = Today * DayLen + RunHour /\ Today \in Nat
      BY <1>1, PassAdds, Clock DEF HistoryIsRead
    <2>2. now' = (Today + 1) * DayLen + RunHour
      BY <2>1, Clock
    <2>3. Today' = now' \div DayLen
      BY DEF Today
    <2>4. ((Today + 1) * DayLen + RunHour) \div DayLen = Today + 1
      BY <2>1, Clock, HourOfDay
    <2> QED
      BY <2>1, <2>2, <2>3, <2>4
  <1>3. first \in Int /\ first =< Today'
    BY <1>1, <1>2, DetectorAssumption DEF HistoryIsRead
  <1>4. result'.leak.active \in BOOLEAN
    BY <1>1 DEF ClearsDetermine, ClearedNight
  <1>5. CASE first = Today'
    BY <1>1, <1>4, <1>5 DEF ClearsClaimNothing, ClearedNight
  <1>6. CASE first # Today'
    <2>1. first =< Today
      BY <1>2, <1>6, <1>3
    <2>2. first \in DOMAIN result.nights /\ WetSince(first) /\ ClearedNight(first - 1)
      BY <2>1, ClearedStays
    <2>3. failures = 0 /\ heard'.leak = Flip(result.leak.active, result'.leak.active, heard.leak)
      BY PassAdds
    <2>4. /\ result.leak.active \in BOOLEAN
          /\ result.leak.active = TRUE => heard.leak = TRUE
      BY <2>2, <2>3 DEF ClaimsAreHeard
    <2>5. None \notin {result.leak.active, result'.leak.active}
      BY <1>4, <2>4, AnalysisAssumption
    <2>6. heard'.leak = IF result.leak.active = result'.leak.active THEN heard.leak
                        ELSE result'.leak.active
      BY <2>3, <2>5 DEF Flip
    <2> QED
      BY <1>4, <2>4, <2>6
  <1> QED
    BY <1>5, <1>6

\* Water that does not stop is found and heard of, for any household, by rules that wait
\* for a second night (leak_state, _fire_transitions).
THEOREM LeaksAreAlwaysHeard ==
  ASSUME PassAfterTheWindow, PatientRules
  PROVE  Spec => []LeaksAreFound
  <1> DEFINE Inv == Timely /\ ClaimsAreHeard
  <1>1. Init /\ Kept => Inv
    <2> SUFFICES ASSUME Init, Kept PROVE Inv
      OBVIOUS
    <2>1. Timely
      BY DEF Init, Timely
    <2>2. ASSUME NEW first \in DOMAIN result.nights, WetSince(first) PROVE FALSE
      <3>1. /\ now \in Nat /\ Today \in Nat /\ now = Today * DayLen + RunHour /\ now = RunHour
            /\ DOMAIN result.nights = (Today - WindowDays + 1)..Today
        BY RecordedIs DEF HistoryIsRead, Init
      <3>2. /\ DayLen \in Nat \ {0} /\ NightStart \in Nat /\ NightStart < RunHour /\ RunHour \in Nat
            /\ WindowDays \in Nat
        BY Clock, DetectorAssumption
      <3>3. first \in Int /\ first =< 0 /\ now - 1 \in Int
        <4>1. Today = 0
          <5>1. Today * DayLen = 0
            BY <3>1, <3>2
          <5> QED
            BY <3>1, <3>2, <5>1
        <4> QED
          BY <3>1, <3>2, <4>1
      <3>4. first * DayLen =< 0 /\ first * DayLen \in Int
        <4>1. first * DayLen =< 0 * DayLen /\ first * DayLen \in Int
          BY <3>3, DaysInOrder
        <4> QED
          BY <3>2, <4>1
      <3>5. now - 1 \in (WindowStart(first) - 1)..(now - 1)
        BY <3>1, <3>2, <3>3, <3>4 DEF WindowStart
      <3>6. Wet(now - 1)
        BY <2>2, <3>5 DEF WetSince
      <3>7. used[now - 1] = 0
        BY <3>1, <3>2 DEF Init
      <3> QED
        BY <3>6, <3>7 DEF Wet
    <2> QED
      BY <2>1, <2>2 DEF ClaimsAreHeard
  <1>2. Kept /\ Kept' /\ Inv /\ [Next]_vars => Inv'
    <2> SUFFICES ASSUME Kept, Kept', Inv, [Next]_vars PROVE Inv'
      OBVIOUS
    <2>1. CASE Next
      BY <2>1, PassAdds, ClaimsStayHeard DEF Next
    <2>2. CASE UNCHANGED vars
      BY <2>2 DEF vars, household, Timely, ClaimsAreHeard, WetSince, Wet, Online, ClearedNight, Masked
    <2> QED
      BY <2>1, <2>2
  <1>3. Spec => []Inv
    BY <1>1, <1>2, RecorderIsTheMeter, PTL DEF Spec
  <1>4. ASSUME Kept, Inv, LastingLeaksAreFound,
               NEW first \in DOMAIN result.nights, HasLeakedSince(first), failures = 0,
               first - 1 \in DOMAIN result.nights,
               result.nights[first - 1].verdict = "no_leak", ~Masked(regens, first - 1)
        PROVE  heard.leak = TRUE
    <2>1. result.leak.active = TRUE
      BY <1>4 DEF LastingLeaksAreFound
    <2>2. WetSince(first) /\ ClearedNight(first - 1)
      BY <1>4 DEF HasLeakedSince, WetSince, ClearedNight
    <2> QED
      BY <1>4, <2>1, <2>2 DEF ClaimsAreHeard
  <1>5. Kept /\ Inv /\ LastingLeaksAreFound => LeaksAreFound
    <2> HIDE DEF Inv
    <2> QED
      BY <1>4, Zenon DEF LeaksAreFound
  <1>6. Spec => []LastingLeaksAreFound
    BY LastingLeaksAreAlwaysFound
  <1> QED
    BY <1>3, <1>5, <1>6, RecorderIsTheMeter, PTL

-----------------------------------------------------------------------------
(* A household whose days are all alike.                                   *)

\* Of readings that are all the same the median is what they are.
LEMMA MedianOfEqual ==
  ASSUME NEW f, IsFiniteSet(DOMAIN f), DOMAIN f # {}, NEW c \in Int, \A i \in DOMAIN f : f[i] = c
  PROVE  Centre2(f) = 2 * c
  <1> DEFINE below(k) == {j \in DOMAIN f : f[j] =< f[k]}
             above(k) == {j \in DOMAIN f : f[j] >= f[k]}
  <1>1. \A k \in DOMAIN f : below(k) = DOMAIN f /\ above(k) = DOMAIN f
    OBVIOUS
  <1>2. Half(f, DOMAIN f)
    <2>1. Cardinality(DOMAIN f) \in Nat
      BY FS_CardinalityType
    <2> QED
      BY <2>1 DEF Half
  <1> DEFINE least == {f[i] : i \in {k \in DOMAIN f : Half(f, below(k))}}
             most == {f[i] : i \in {k \in DOMAIN f : Half(f, above(k))}}
  <1>3. least = {c} /\ most = {c}
    BY <1>1, <1>2
  <1>4. LowerMiddle(f) = Min(least) /\ UpperMiddle(f) = Max(most)
    BY DEF LowerMiddle, UpperMiddle
  <1>5. Min({c}) = c /\ Max({c}) = c
    BY DEF Min, Max
  <1>6. TwiceMedian(f) = c + c
    <2> HIDE DEF least, most
    <2> QED
      BY <1>3, <1>4, <1>5 DEF TwiceMedian
  <1> QED
    BY <1>6 DEF Centre2

\* What is expected of a day is the centre of its weekday, or nothing, where the
\* device keeps no averages of its own.
LEMMA LearnedIsExpected ==
  ASSUME Kept, Untold, NEW d \in Int, NEW learned
  PROVE  \/ Expected(In, learned, d) = None
         \/ /\ ~(Count(OfWeekday(learned, d)) < MinSamples)
            /\ Expected(In, learned, d).expected2 = Centre2(OfWeekday(learned, d))
  <1> DEFINE slot == device.slots[Weekday(d)]
             found == FromWeekday(d, learned)
             chain == <<FromSlot(d, slot, now, learned), found, FromOverall(device.overall, now, learned)>>
  <1>1. Weekday(d) \in DOMAIN device.slots
    <2>1. WeekDays \in Nat \ {0}
      BY BaselineAssumption
    <2>2. Weekday(d) \in 0..(WeekDays - 1)
      BY <2>1 DEF Weekday
    <2>3. DOMAIN device.slots = 0..(WeekDays - 1)
      BY AnalysisAssumption DEF Kept, HouseTyped
    <2> QED
      BY <2>2, <2>3
  <1>2. slot.average = None /\ device.overall.average = None
    BY <1>1 DEF Untold
  <1>3. FromSlot(d, slot, now, learned) = None
    <2> HIDE DEF slot
    <2> QED
      BY <1>2 DEF FromSlot
  <1>4. FromOverall(device.overall, now, learned) = None
    BY <1>2 DEF FromOverall
  <1>5. Expected(In, learned, d) = FirstFound(chain)
    BY DEF Expected, ExpectedDaily, In, Inputs
  <1>6. \/ found = None
        \/ /\ ~(Count(OfWeekday(learned, d)) < MinSamples)
           /\ found.expected2 = Centre2(OfWeekday(learned, d))
    <2> DEFINE mine == OfWeekday(learned, d)
    <2>1. found = FromDays(mine)
      BY DEF FromWeekday
    <2> HIDE DEF mine, found
    <2> QED
      BY <2>1 DEF FromDays, Expectation, mine
  <1> HIDE DEF found
  <1>7. chain = <<None, found, None>>
    BY <1>3, <1>4
  <1>8. FirstFound(<<None, found, None>>) = found
    <2> DEFINE told == <<None, found, None>>
               heardOf == {i \in DOMAIN told : told[i] # None}
    <2>1. CASE found = None
      <3>1. heardOf = {}
        BY <2>1
      <3> QED
        BY <2>1, <3>1 DEF FirstFound
    <2>2. CASE found # None
      <3>1. heardOf = {2}
        BY <2>2
      <3>2. Min({2}) = 2
        BY DEF Min
      <3> QED
        BY <3>1, <3>2 DEF FirstFound
    <2> QED
      BY <2>1, <2>2
  <1> HIDE DEF chain
  <1> QED
    BY <1>5, <1>6, <1>7, <1>8

\* The total of a day between two readings, with a device that was never offline, is
\* what was drawn in it.
LEMMA TotalIsTheDay ==
  ASSUME Kept, NEW d \in Int, d < Today, offline = {}, Assessable(In.readings, d)
  PROVE  /\ DayTotal(In.readings, d) = Water(HoursOf(d)) /\ Water(HoursOf(d)) \in Nat
         /\ NoonOf(d - 1) >= 0 /\ 1 =< d
  <1> DEFINE opened == NoonOf(d - 1)
             closed == NoonOf(d)
             total == DayTotal(In.readings, d)
  <1>1. PICK a, b \in DOMAIN In.readings :
           /\ a \in 0..(now - 1) /\ b \in a..(now - 1) /\ a =< opened /\ b =< closed
           /\ \A h \in DOMAIN In.readings : (h =< opened => h =< a) /\ (h =< closed => h =< b)
           /\ \E k \in DOMAIN In.readings : k >= closed
           /\ total = Water((a + 1)..b)
           /\ Water((a + 1)..b) \in Nat
    BY TotalIsBetween
  <1>2. /\ opened \in Int /\ closed \in Int /\ closed < now
        /\ HoursOf(d) = (opened + 1)..closed
        /\ now \in Nat /\ \A h \in 0..(now - 1) : used[h] \in Nat
    BY NoonsInOrder, RecorderReads DEF HoursOf, ReadingsOf
  <1> HIDE DEF opened, closed, total
  <1>3. a \in Nat /\ b \in Nat /\ a =< opened /\ b =< closed /\ b < now
    BY <1>1, <1>2
  <1>4. Online(HoursOf(d))
    BY DEF Online
  <1>5. total \in Nat /\ Water(HoursOf(d)) \in Nat /\ Water(HoursOf(d)) =< total
    BY <1>4, TotalCoversTheDay DEF total
  <1>6. opened >= 0 /\ 1 =< d
    <2>1. DayLen \in Nat \ {0} /\ Noon \in Nat /\ Noon < DayLen
      BY Clock
    <2>2. CASE d - 1 >= 0
      BY <1>2, <1>3, <2>2
    <2>3. CASE d - 1 < 0
      <3>1. (d - 1) * DayLen + DayLen =< 0 * DayLen /\ 0 * DayLen = 0 /\ (d - 1) * DayLen \in Int
        BY <2>1, <2>3, DaysInOrder
      <3>2. opened < 0
        BY <2>1, <3>1 DEF NoonOf, opened
      <3> QED
        BY <1>2, <1>3, <3>2
    <2> QED
      BY <2>2, <2>3
  <1>7. \A h \in (a + 1)..b \ HoursOf(d) : used[h] = 0
    <2> SUFFICES ASSUME NEW h \in (a + 1)..b, h \notin HoursOf(d) PROVE used[h] = 0
      OBVIOUS
    <2>1. h \in a..b /\ h =< opened /\ h > a
      BY <1>2, <1>3
    <2>2. h \notin DOMAIN In.readings
      BY <1>1, <1>3, <2>1
    <2> QED
      BY <2>1, <2>2, HiddenIsDry
  <1>8. /\ IsFiniteSet(HoursOf(d)) /\ IsFiniteSet((a + 1)..b)
        /\ \A h \in (a + 1)..b \cup HoursOf(d) : used[h] \in Nat
    <2>1. HoursOf(d) \subseteq 0..(now - 1) /\ (a + 1)..b \subseteq 0..(now - 1)
      <3>1. \A h \in (opened + 1)..closed : h \in 0..(now - 1)
        BY <1>2, <1>3
      <3>2. \A h \in (a + 1)..b : h \in 0..(now - 1)
        BY <1>2, <1>3
      <3> QED
        BY <1>2, <3>1, <3>2
    <2>2. opened + 1 \in Int /\ a + 1 \in Int
      BY <1>2, <1>3
    <2>3. IsFiniteSet((opened + 1)..closed) /\ IsFiniteSet((a + 1)..b)
      BY <1>2, <1>3, <2>2, FS_Interval
    <2> QED
      BY <1>2, <2>1, <2>3
  <1>9. Water((a + 1)..b) =< Water(HoursOf(d))
    BY <1>7, <1>8, SumInside DEF Water
  <1>10. total = Water((a + 1)..b)
    BY <1>1
  <1>11. total = Water(HoursOf(d))
    BY <1>5, <1>9, <1>10
  <1> QED
    BY <1>5, <1>6, <1>11 DEF total, opened

\* In a household whose days are all alike an hour uses what the same hour of the
\* day before did.
LEMMA HoursRepeat ==
  ASSUME Kept, Steady, NEW h \in Nat, RunHour =< h, h + DayLen < now
  PROVE  used[h + DayLen] = used[h]
  <1> DEFINE q == (h - RunHour) \div DayLen
             r == (h - RunHour) % DayLen
  <1>1. /\ DayLen \in Nat \ {0} /\ RunHour \in Nat /\ Today \in Nat
        /\ now = Today * DayLen + RunHour
    BY Clock DEF Kept, HouseTyped
  <1>2. q \in Nat /\ r \in 0..(DayLen - 1) /\ h = q * DayLen + RunHour + r
    <2>1. h - RunHour \in Nat
      BY <1>1
    <2> DEFINE x == h - RunHour
    <2> HIDE DEF x
    <2>2. x \in Nat => x \div DayLen \in Nat /\ x % DayLen \in 0..(DayLen - 1)
                       /\ x = DayLen * (x \div DayLen) + (x % DayLen)
      BY <1>1
    <2>3. DayLen * q = q * DayLen /\ q * DayLen \in Int
      BY <1>1, <2>1, <2>2 DEF x
    <2> QED
      BY <1>1, <2>1, <2>2, <2>3 DEF x
  <1> HIDE DEF q, r
  <1>3. /\ q * DayLen \in Int /\ Today * DayLen \in Int
        /\ (q + 1) * DayLen = q * DayLen + DayLen
    BY <1>1, <1>2
  <1>4. q + 2 =< Today
    <2>1. (q + 1) * DayLen < Today * DayLen
      BY <1>1, <1>2, <1>3
    <2>2. CASE Today =< q + 1
      <3>1. Today * DayLen =< (q + 1) * DayLen
        BY <1>1, <1>2, <2>2, DaysInOrder
      <3> QED
        BY <1>1, <1>3, <2>1, <3>1
    <2>3. CASE ~(Today =< q + 1)
      BY <1>1, <1>2, <2>3
    <2> QED
      BY <2>2, <2>3
  <1>5. DayUse(q + 1) = DayUse(1) /\ DayUse(q + 2) = DayUse(1)
    <2>1. q + 1 \in 1..Today /\ q + 2 \in 1..Today
      BY <1>1, <1>2, <1>4
    <2> QED
      BY <2>1 DEF Steady, Today
  <1>6. r + 1 \in 1..DayLen
    BY <1>1, <1>2
  <1>7. DayUse(q + 1)[r + 1] = used[h]
    <2>1. ((q + 1) - 1) * DayLen + RunHour + (r + 1) - 1 = h
      BY <1>1, <1>2, <1>3
    <2> QED
      BY <1>6, <2>1 DEF DayUse
  <1>8. DayUse(q + 2)[r + 1] = used[h + DayLen]
    <2>1. ((q + 2) - 1) * DayLen = (q + 1) * DayLen
      BY <1>2
    <2>2. ((q + 2) - 1) * DayLen + RunHour + (r + 1) - 1 = h + DayLen
      BY <1>1, <1>2, <1>3, <2>1
    <2> QED
      BY <1>6, <2>2 DEF DayUse
  <1> QED
    BY <1>5, <1>7, <1>8

\* So that a day uses as much wherever it is cut.
LEMMA AnyDayIsTheHabit ==
  ASSUME Kept, Steady, NEW start \in Nat, RunHour =< start, start + DayLen =< now
  PROVE  Water(start..(start + DayLen - 1)) = Habit
  <1> DEFINE cut(n) == (RunHour + n)..(RunHour + n + DayLen - 1)
             G == {n \in Nat : RunHour + n + DayLen =< now => Water(cut(n)) = Habit}
  <1>1. DayLen \in Nat \ {0} /\ RunHour \in Nat /\ now \in Nat /\ used \in [0..(now - 1) -> Nat]
    BY Clock, RecorderReads DEF Kept, HouseTyped
  <1>2. 0 \in G
    <2>1. cut(0) = RunHour..(RunHour + DayLen - 1)
      BY <1>1
    <2> QED
      BY <2>1 DEF Habit
  <1>3. ASSUME NEW n \in Nat, n \in G PROVE n + 1 \in G
    <2> SUFFICES ASSUME RunHour + (n + 1) + DayLen =< now PROVE Water(cut(n + 1)) = Habit
      OBVIOUS
    <2> DEFINE a == RunHour + n
               both == (a + 1)..(a + DayLen - 1)
    <2>1. a \in Nat /\ a + DayLen < now /\ Water(cut(n)) = Habit
      BY <1>1, <1>3
    <2>2. cut(n) = a..(a + DayLen - 1) /\ cut(n + 1) = (a + 1)..(a + DayLen)
      BY <1>1
    <2> HIDE DEF a, cut
    <2>3. cut(n) \subseteq 0..(now - 1) /\ cut(n + 1) \subseteq 0..(now - 1)
      <3>1. \A x \in a..(a + DayLen - 1) : x \in 0..(now - 1)
        BY <1>1, <2>1
      <3>2. \A x \in (a + 1)..(a + DayLen) : x \in 0..(now - 1)
        BY <1>1, <2>1
      <3> QED
        BY <2>2, <3>1, <3>2
    <2>4. a \in cut(n) /\ cut(n) \ {a} = both
      <3>1. a \in a..(a + DayLen - 1) /\ \A x \in a..(a + DayLen - 1) : x = a \/ x \in both
        BY <1>1, <2>1
      <3>2. \A x \in both : x \in a..(a + DayLen - 1) /\ x # a
        BY <1>1, <2>1
      <3> HIDE DEF both
      <3> QED
        BY <2>2, <3>1, <3>2
    <2>5. a + DayLen \in cut(n + 1) /\ cut(n + 1) \ {a + DayLen} = both
      <3>1. /\ a + DayLen \in (a + 1)..(a + DayLen)
            /\ \A x \in (a + 1)..(a + DayLen) : x = a + DayLen \/ x \in both
        BY <1>1, <2>1
      <3>2. \A x \in both : x \in (a + 1)..(a + DayLen) /\ x # a + DayLen
        BY <1>1, <2>1
      <3> HIDE DEF both
      <3> QED
        BY <2>2, <3>1, <3>2
    <2>6. IsFiniteSet(cut(n)) /\ IsFiniteSet(cut(n + 1))
      <3>1. IsFiniteSet(0..(now - 1))
        BY <1>1, FS_Interval
      <3> QED
        BY <2>3, <3>1, FS_Subset
    <2> HIDE DEF cut, both
    <2>7. Water(cut(n)) = used[a] + Water(both)
      <3>1. \A x \in cut(n) : used[x] \in Nat
        BY <1>1, <2>3
      <3> QED
        BY <2>4, <2>6, <3>1, SumTakesOut DEF Water
    <2>8. Water(cut(n + 1)) = used[a + DayLen] + Water(both)
      <3>1. \A x \in cut(n + 1) : used[x] \in Nat
        BY <1>1, <2>3
      <3> QED
        BY <2>5, <2>6, <3>1, SumTakesOut DEF Water
    <2>9. used[a + DayLen] = used[a]
      <3>1. RunHour =< a
        BY <1>1 DEF a
      <3> QED
        BY <2>1, <3>1, HoursRepeat
    <2> QED
      BY <2>1, <2>7, <2>8, <2>9
  <1>4. Nat \subseteq G
    <2> HIDE DEF G
    <2> QED
      BY <1>2, <1>3, Upward
  <1>5. start - RunHour \in Nat /\ start - RunHour \in G
    <2> HIDE DEF G
    <2> QED
      BY <1>1, <1>4
  <1>6. cut(start - RunHour) = start..(start + DayLen - 1)
    BY <1>1
  <1> QED
    BY <1>1, <1>5, <1>6

\* Every day that is learned from shows the habit.
LEMMA HabitIsLearned ==
  ASSUME Kept, Steady, offline = {}
  PROVE  /\ IsFiniteSet(DOMAIN History(In))
         /\ \A d \in DOMAIN History(In) : History(In)[d] = Habit /\ Habit \in Nat
  <1> DEFINE days == NoonDays(BaselineDays, In.now)
             totals == [d \in days |-> IF Assessable(In.readings, d) THEN DayTotal(In.readings, d) ELSE None]
             learned == {d \in days : totals[d] # None}
  <1>1. days = (Today - BaselineDays)..(Today - 1) /\ Today \in Nat /\ BaselineDays \in Nat
    BY DaysJudged, DetectorAssumption DEF NoonDays, In, Inputs
  <1>2. Totals(In, BaselineDays) = totals
    BY DEF Totals
  <1>3. Learned(Totals(In, BaselineDays)) = [d \in learned |-> totals[d]]
    BY <1>2 DEF Learned
  <1>4. History(In) = [d \in learned |-> totals[d]]
    <2> HIDE DEF learned, totals
    <2> QED
      BY <1>3 DEF History
  <1>5. IsFiniteSet(learned)
    <2>1. IsFiniteSet(days)
      BY <1>1, FS_Interval
    <2> HIDE DEF days
    <2> QED
      BY <2>1, FS_Subset
  <1>6. ASSUME NEW d \in learned PROVE totals[d] = Habit /\ Habit \in Nat
    <2>1. d \in days /\ totals[d] # None
      OBVIOUS
    <2>2. d \in Int /\ d < Today
      BY <1>1, <2>1
    <2>3. Assessable(In.readings, d) /\ totals[d] = DayTotal(In.readings, d)
      BY <2>1
    <2>4. totals[d] = Water(HoursOf(d)) /\ Water(HoursOf(d)) \in Nat /\ NoonOf(d - 1) >= 0 /\ 1 =< d
      BY <2>2, <2>3, TotalIsTheDay
    <2> DEFINE start == NoonOf(d - 1) + 1
    <2>5. /\ NoonOf(d - 1) \in Int /\ NoonOf(d) = NoonOf(d - 1) + DayLen /\ NoonOf(d) < now
          /\ DayLen \in Nat \ {0}
      BY <2>2, NoonsInOrder
    <2>6. RunHour =< NoonOf(d - 1)
      <3>1. (d - 1) * DayLen \in Int /\ 0 * DayLen =< (d - 1) * DayLen /\ 0 * DayLen = 0
        BY <2>2, <2>4, <2>5, DaysInOrder
      <3>2. RunHour \in Nat /\ RunHour < Noon /\ Noon \in Nat
        BY Clock
      <3> QED
        BY <3>1, <3>2 DEF NoonOf
    <2>7. start \in Nat /\ RunHour =< start /\ start + DayLen =< now
          /\ HoursOf(d) = start..(start + DayLen - 1)
      <3>1. now \in Nat /\ RunHour \in Nat
        BY Clock, RecorderReads
      <3>2. start + DayLen - 1 = NoonOf(d)
        BY <2>5
      <3> QED
        BY <2>4, <2>5, <2>6, <3>1, <3>2 DEF HoursOf
    <2> HIDE DEF start, totals
    <2> QED
      BY <2>4, <2>7, AnyDayIsTheHabit
  <1> HIDE DEF learned, totals
  <1> QED
    BY <1>4, <1>5, <1>6

\* The forecast of a steady household, of any one and from any device that keeps no
\* averages, is what its days use: no day cut short by an import that failed is learned
\* from, nor does it matter at which hour the days are cut (_history_and_learned,
\* forecast_for, compute_forecasts).
THEOREM ForecastsAreTheHabit == Spec => []ForecastIsTheHabit
  <1>1. ASSUME Kept, offline = {}, Untold, Steady, NEW d \in Int
        PROVE  \/ ForecastFor(In, History(In), d) = None
               \/ ForecastFor(In, History(In), d).expected2 = 2 * Habit
    <2> DEFINE learned == History(In)
               mine == OfWeekday(learned, d)
               expected == Expected(In, learned, d)
    <2>1. IsFiniteSet(DOMAIN learned) /\ \A k \in DOMAIN learned : learned[k] = Habit /\ Habit \in Nat
      BY <1>1, HabitIsLearned
    <2>2. expected = None \/ (~(Count(mine) < MinSamples) /\ expected.expected2 = Centre2(mine))
      BY <1>1, LearnedIsExpected
    <2>3. ForecastFor(In, learned, d) = Banded(expected)
      BY DEF ForecastFor
    <2> HIDE DEF learned
    <2>4. /\ DOMAIN mine = {k \in DOMAIN learned : Weekday(k) = Weekday(d)}
          /\ \A k \in DOMAIN mine : mine[k] = Habit /\ Habit \in Int
      BY <2>1 DEF OfWeekday
    <2>5. IsFiniteSet(DOMAIN mine)
      BY <2>1, <2>4, FS_Subset
    <2> HIDE DEF mine, expected
    <2>6. CASE expected = None
      BY <2>3, <2>6 DEF Banded, learned
    <2>7. CASE ~(Count(mine) < MinSamples) /\ expected.expected2 = Centre2(mine) /\ expected # None
      <3>1. DOMAIN mine # {}
        BY <2>7, FS_EmptySet, BaselineAssumption DEF Count
      <3>2. Habit \in Int
        BY <2>4, <3>1
      <3>3. Centre2(mine) = 2 * Habit
        BY <2>4, <2>5, <3>1, <3>2, MedianOfEqual
      <3> QED
        BY <2>3, <2>7, <3>3 DEF Banded, learned
    <2> QED
      BY <2>2, <2>6, <2>7
  <1>2. Kept => ForecastIsTheHabit
    <2> SUFFICES ASSUME Kept, offline = {}, Untold, Steady
                 PROVE  \A f \in {result.forecast} \cup Range(ComputeForecasts(In, WeekDays)) :
                          f = None \/ f.expected2 = 2 * Habit
      BY DEF ForecastIsTheHabit, In
    <2>1. Tomorrow(In) \in Int
      BY DEF Kept, HouseTyped, Today, Tomorrow, In, Inputs
    <2>2. result.forecast = ForecastFor(In, History(In), Tomorrow(In))
      <3>1. result = Analytics(In, HourKnowledge(In.readings),
                               Nights(In, HourKnowledge(In.readings)), History(In))
        BY DEF Kept, ResultIsCurrent, ComputeAnalytics
      <3> QED
        BY <3>1, Zenon DEF Analytics
    <2>3. ASSUME NEW f \in Range(ComputeForecasts(In, WeekDays))
          PROVE  \E d \in Int : f = ForecastFor(In, History(In), d)
      <3>1. WeekDays \in Nat
        BY BaselineAssumption
      <3> DEFINE asked == Tomorrow(In)..(Tomorrow(In) + WeekDays - 1)
      <3>2. ComputeForecasts(In, WeekDays) = [d \in asked |-> ForecastFor(In, History(In), d)]
        BY DEF ComputeForecasts
      <3>3. asked \subseteq Int
        BY <2>1, <3>1
      <3> HIDE DEF asked
      <3> QED
        BY <2>3, <3>2, <3>3 DEF Range
    <2> QED
      BY <1>1, <2>1, <2>2, <2>3
  <1> QED
    BY <1>2, RecorderIsTheMeter, PTL

\* Nor do readings that are all the same spread.
LEMMA NoSpreadOfEqual ==
  ASSUME NEW f, IsFiniteSet(DOMAIN f), DOMAIN f # {}, NEW c \in Int, \A i \in DOMAIN f : f[i] = c
  PROVE  Spread8(f) = 0
  <1> DEFINE apart == [i \in DOMAIN f |-> Distance(2 * f[i], Centre2(f))]
  <1>1. Centre2(f) = 2 * c
    BY MedianOfEqual
  <1>2. \A i \in DOMAIN apart : apart[i] = 0
    BY <1>1 DEF Distance
  <1>3. DOMAIN apart = DOMAIN f
    OBVIOUS
  <1>4. Spread8(f) = 3 * TwiceMedian(apart)
    BY DEF Spread8
  <1> HIDE DEF apart
  <1>5. Centre2(apart) = 2 * 0
    BY <1>2, <1>3, MedianOfEqual
  <1> QED
    BY <1>4, <1>5 DEF Centre2

\* The first of three expectations that is found has the spread of one of them.
LEMMA FoundIsOne ==
  ASSUME NEW x, NEW y, NEW z
  PROVE  FirstFound(<<x, y, z>>) \in {None, x, y, z}
  <1> DEFINE chain == <<x, y, z>>
             found == {i \in DOMAIN chain : chain[i] # None}
  <1>1. found \subseteq 1..3 /\ DOMAIN chain = 1..3
    OBVIOUS
  <1>2. CASE found = {}
    BY <1>2 DEF FirstFound
  <1>3. CASE found # {}
    <2>1. Min(found) \in found
      <3>1. found \subseteq Nat
        BY <1>1
      <3> HIDE DEF found
      <3> QED
        BY <1>3, <3>1, MinIsLeast
    <2>2. Min(found) \in 1..3
      BY <1>1, <2>1
    <2>3. chain[Min(found)] \in {x, y, z}
      <3> DEFINE i == Min(found)
      <3>1. i \in 1..3
        BY <2>2
      <3>2. chain[1] = x /\ chain[2] = y /\ chain[3] = z
        OBVIOUS
      <3> HIDE DEF i, found, chain
      <3>3. i = 1 \/ i = 2 \/ i = 3
        BY <3>1
      <3>4. chain[i] \in {x, y, z}
        BY <3>2, <3>3
      <3> QED
        BY <3>4 DEF i
    <2>4. FirstFound(chain) = chain[Min(found)]
      BY <1>3 DEF FirstFound
    <2> QED
      BY <2>3, <2>4
  <1> QED
    BY <1>2, <1>3

\* An expectation that leaves no band.
Bandless(expected) == expected = None \/ expected.spread8 = 0

LEMMA ExpectationIsBandless ==
  ASSUME NEW centre, NEW spread, spread = None \/ spread = 0, NEW source
  PROVE  Bandless(Expectation(centre, spread, source))
  BY DEF Bandless, Expectation

\* What was learned of days that are all alike has no spread.
LEMMA LearnedIsBandless ==
  ASSUME NEW learned, IsFiniteSet(DOMAIN learned), NEW c \in Int,
         \A k \in DOMAIN learned : learned[k] = c,
         NEW slots, NEW d, slots[Weekday(d)].deviation = None, NEW overall, NEW t
  PROVE  Bandless(ExpectedDaily(d, slots[Weekday(d)], overall, t, learned))
  <1> DEFINE mine == OfWeekday(learned, d)
             slot == slots[Weekday(d)]
  <1>1. IsFiniteSet(DOMAIN mine) /\ \A k \in DOMAIN mine : mine[k] = c
    <2>1. DOMAIN mine \subseteq DOMAIN learned /\ \A k \in DOMAIN mine : mine[k] = learned[k]
      BY DEF OfWeekday
    <2> HIDE DEF mine
    <2> QED
      BY <2>1, FS_Subset
  <1> HIDE DEF mine
  <1>2. ASSUME Count(mine) >= MinSamples \/ ~(Count(mine) < MinSamples) PROVE Spread8(mine) = 0
    <2>1. DOMAIN mine # {}
      BY <1>2, FS_EmptySet, BaselineAssumption DEF Count
    <2> QED
      BY <1>1, <2>1, NoSpreadOfEqual
  <1>3. ASSUME Count(learned) >= MinDays \/ ~(Count(learned) < MinDays) PROVE Spread8(learned) = 0
    <2>1. DOMAIN learned # {}
      BY <1>3, FS_EmptySet, BaselineAssumption DEF Count
    <2> QED
      BY <2>1, NoSpreadOfEqual
  <1>4. LearnedSpread8(learned, d) = None \/ LearnedSpread8(learned, d) = 0
    BY <1>2, <1>3 DEF LearnedSpread8, mine
  <1>5. Bandless(FromSlot(d, slot, t, learned))
    <2>1. slot.deviation = None
      OBVIOUS
    <2> HIDE DEF slot
    <2>2. Bandless(Expectation(2 * slot.average, LearnedSpread8(learned, d), "device_average"))
      BY <1>4, ExpectationIsBandless
    <2> QED
      BY <2>1, <2>2 DEF FromSlot, Bandless
  <1>6. Bandless(FromWeekday(d, learned))
    <2>1. FromWeekday(d, learned) = FromDays(mine)
      BY DEF FromWeekday, mine
    <2>2. CASE Count(mine) < MinSamples
      BY <2>1, <2>2 DEF FromDays, Bandless
    <2>3. CASE ~(Count(mine) < MinSamples)
      <3>1. Bandless(Expectation(Centre2(mine), Spread8(mine), "learned_weekday"))
        BY <1>2, <2>3, ExpectationIsBandless
      <3> QED
        BY <2>1, <2>3, <3>1 DEF FromDays
    <2> QED
      BY <2>2, <2>3
  <1>7. Bandless(FromOverall(overall, t, learned))
    <2>1. CASE Count(learned) < MinDays
      BY <2>1 DEF FromOverall, Bandless
    <2>2. CASE ~(Count(learned) < MinDays)
      <3>1. Bandless(Expectation(2 * overall.average, Spread8(learned), "overall_average"))
        BY <1>3, <2>2, ExpectationIsBandless
      <3> QED
        BY <3>1 DEF FromOverall, Bandless
    <2> QED
      BY <2>1, <2>2
  <1> DEFINE x == FromSlot(d, slot, t, learned)
             y == FromWeekday(d, learned)
             z == FromOverall(overall, t, learned)
  <1>8. ExpectedDaily(d, slot, overall, t, learned) = FirstFound(<<x, y, z>>)
    BY DEF ExpectedDaily
  <1>9. Bandless(x) /\ Bandless(y) /\ Bandless(z)
    BY <1>5, <1>6, <1>7
  <1> HIDE DEF x, y, z, slot
  <1>10. FirstFound(<<x, y, z>>) \in {None, x, y, z}
    BY FoundIsOne
  <1>11. Bandless(None)
    BY DEF Bandless
  <1>12. Bandless(FirstFound(<<x, y, z>>))
    <2> DEFINE w == FirstFound(<<x, y, z>>)
    <2>1. w = None \/ w = x \/ w = y \/ w = z
      BY <1>10
    <2> HIDE DEF w
    <2>2. Bandless(w)
      BY <1>9, <1>11, <2>1
    <2> QED
      BY <2>2 DEF w
  <1> QED
    BY <1>8, <1>12 DEF slot

\* Nothing was drawn before the first pass.
QuietStart == \A h \in 0..(RunHour - 1) : used[h] = 0

LEMMA StartsQuiet == Spec => []QuietStart
  <1>1. Init => QuietStart
    BY DEF Init, QuietStart
  <1>2. Kept /\ QuietStart /\ [Next]_vars => QuietStart'
    <2> SUFFICES ASSUME Kept, QuietStart, [Next]_vars PROVE QuietStart'
      OBVIOUS
    <2>1. CASE Next
      <3>1. PICK regenerates \in BOOLEAN, water \in Patterns : used' = HoursDrawn(water, regenerates)
        BY <2>1, PassIs DEF Next
      <3>2. /\ used \in [0..(now - 1) -> Nat] /\ RunHour \in Nat /\ RunHour =< now /\ now \in Nat
        <4>1. Today \in Nat /\ now = Today * DayLen + RunHour /\ used \in [0..(now - 1) -> Nat]
          BY DEF Kept, HouseTyped
        <4>2. DayLen \in Nat /\ RunHour \in Nat
          BY Clock
        <4>3. Today * DayLen \in Nat
          BY <4>1, <4>2
        <4> QED
          BY <4>1, <4>2, <4>3
      <3>3. \A h \in 0..(RunHour - 1) : used'[h] = used[h]
        BY <3>1, <3>2 DEF HoursDrawn
      <3> QED
        BY <3>3 DEF QuietStart
    <2>2. CASE UNCHANGED vars
      BY <2>2 DEF vars, household, QuietStart
    <2> QED
      BY <2>1, <2>2
  <1> QED
    BY <1>1, <1>2, RecorderIsTheMeter, PTL DEF Spec

\* Hours of the same place in the day use the same.
LEMMA SameHourSameUse ==
  ASSUME Kept, Steady, NEW g \in Nat, RunHour =< g, NEW n \in Nat, g + n * DayLen < now
  PROVE  used[g + n * DayLen] = used[g]
  <1> DEFINE G == {m \in Nat : g + m * DayLen < now => used[g + m * DayLen] = used[g]}
  <1>1. DayLen \in Nat \ {0} /\ now \in Nat /\ RunHour \in Nat
    BY Clock, RecorderReads
  <1>2. 0 \in G
    <2>1. g + 0 * DayLen = g
      BY <1>1
    <2> QED
      BY <2>1
  <1>3. ASSUME NEW m \in Nat, m \in G PROVE m + 1 \in G
    <2> SUFFICES ASSUME g + (m + 1) * DayLen < now PROVE used[g + (m + 1) * DayLen] = used[g]
      OBVIOUS
    <2> DEFINE h == g + m * DayLen
    <2>1. m * DayLen \in Nat /\ (m + 1) * DayLen = m * DayLen + DayLen
      BY <1>1
    <2>2. h \in Nat /\ RunHour =< h /\ h + DayLen < now /\ g + (m + 1) * DayLen = h + DayLen
      BY <1>1, <2>1
    <2>3. used[h] = used[g]
      BY <1>1, <1>3, <2>2
    <2> HIDE DEF h
    <2>4. used[h + DayLen] = used[h]
      BY <2>2, HoursRepeat
    <2> QED
      BY <2>2, <2>3, <2>4
  <1>4. Nat \subseteq G
    <2> HIDE DEF G
    <2> QED
      BY <1>2, <1>3, Upward
  <1> QED
    BY <1>4

\* The certain hours of a bucket of the week are alike.
LEMMA BucketsAreEven ==
  ASSUME Kept, QuietStart, Steady,
         NEW a \in DOMAIN HourKnowledge(In.readings), NEW b \in DOMAIN HourKnowledge(In.readings),
         a % DayLen = b % DayLen, a =< b
  PROVE  HourKnowledge(In.readings)[a] = HourKnowledge(In.readings)[b]
  <1>1. DayLen \in Nat \ {0} /\ RunHour \in Nat /\ now \in Nat
    BY Clock, RecorderReads
  <1>2. /\ ReadingsOf(In.readings, used, now)
        /\ DOMAIN HourKnowledge(In.readings) \subseteq DOMAIN In.readings
    <2>1. ReadingsOf(In.readings, used, now)
      BY RecorderReads
    <2>2. DryHours(In.readings) = {}
      BY <1>1, <2>1, CertainOfTheNext
    <2>3. \A q \in Intervals(In.readings) : q[1] \in DOMAIN In.readings
      BY <1>1, <2>1, NextReading
    <2> QED
      BY <2>1, <2>2, <2>3 DEF HourKnowledge, PinnedHours
  <1>3. ASSUME NEW h \in DOMAIN HourKnowledge(In.readings)
        PROVE  /\ h \in Nat /\ h + 1 \in 0..(now - 1) /\ RunHour =< h + 1
               /\ HourKnowledge(In.readings)[h] = used[h + 1]
    <2>1. /\ h + 1 \in DOMAIN In.readings
          /\ HourKnowledge(In.readings)[h] = used[h + 1] /\ used[h + 1] > 0
      BY <1>1, <1>2, CertainOfTheNext
    <2>2. h \in 0..(now - 1) /\ h + 1 \in 0..(now - 1)
      BY <1>2, <2>1 DEF ReadingsOf
    <2>3. ~(h + 1 =< RunHour - 1)
      BY <1>1, <2>1, <2>2 DEF QuietStart
    <2> QED
      BY <1>1, <2>1, <2>2, <2>3
  <1>4. /\ a \in Nat /\ b \in Nat /\ a + 1 \in Nat /\ b + 1 < now /\ RunHour =< a + 1
        /\ HourKnowledge(In.readings)[a] = used[a + 1]
        /\ HourKnowledge(In.readings)[b] = used[b + 1]
    BY <1>1, <1>3
  <1> DEFINE n == (b \div DayLen) - (a \div DayLen)
  <1>5. n \in Nat /\ b = a + n * DayLen
    <2> DEFINE p == a \div DayLen
               q == b \div DayLen
    <2>1. /\ p \in Nat /\ a = DayLen * p + (a % DayLen)
          /\ q \in Nat /\ b = DayLen * q + (b % DayLen)
          /\ a % DayLen \in 0..(DayLen - 1)
      BY <1>1, <1>4
    <2> HIDE DEF p, q
    <2>2. /\ DayLen * p = p * DayLen /\ DayLen * q = q * DayLen
          /\ (q - p) * DayLen = q * DayLen - p * DayLen
          /\ p * DayLen \in Int /\ q * DayLen \in Int
      BY <1>1, <2>1
    <2>3. b = a + (q - p) * DayLen
      BY <1>1, <1>4, <2>1, <2>2
    <2>4. p =< q
      <3>1. CASE q < p
        <4>1. q * DayLen + DayLen =< p * DayLen
          BY <2>1, <3>1, DaysInOrder
        <4> QED
          BY <1>1, <1>4, <2>2, <2>3, <4>1
      <3>2. CASE ~(q < p)
        BY <2>1, <3>2
      <3> QED
        BY <3>1, <3>2
    <2> QED
      BY <2>1, <2>3, <2>4 DEF p, q
  <1> HIDE DEF n
  <1>6. n * DayLen \in Nat /\ (a + 1) + n * DayLen = b + 1
    BY <1>1, <1>4, <1>5
  <1>7. used[(a + 1) + n * DayLen] = used[a + 1]
    BY <1>4, <1>5, <1>6, SameHourSameUse
  <1> QED
    BY <1>4, <1>6, <1>7

\* So no hour stands out of its bucket.
LEMMA NoHourStandsOut ==
  ASSUME Kept, QuietStart, Steady
  PROVE  PointAnomalies(HourKnowledge(In.readings), now) = {}
  <1> DEFINE known == HourKnowledge(In.readings)
  <1> SUFFICES ASSUME NEW h \in PointAnomalies(known, now) PROVE FALSE
    OBVIOUS
  <1> DEFINE mine == SamplesOf(known, BucketOf(h))
             bucket == Bucket(known, BucketOf(h))
  <1>1. h \in DOMAIN known /\ Spread8(bucket) > 0
    BY Zenon DEF PointAnomalies
  <1>2. h \in mine /\ mine \subseteq DOMAIN known /\ \A k \in mine : BucketOf(k) = BucketOf(h)
    BY <1>1 DEF SamplesOf
  <1>3. now \in Nat /\ ReadingsOf(In.readings, used, now) /\ DayLen \in Nat \ {0}
    BY RecorderReads, Clock
  <1>4. DOMAIN known \subseteq 0..(now - 1) /\ \A k \in DOMAIN known : known[k] \in Nat
    <2>1. \A k \in DOMAIN known : k + 1 \in DOMAIN In.readings /\ known[k] = used[k + 1]
      BY <1>3, CertainOfTheNext
    <2>2. DOMAIN known \subseteq DOMAIN In.readings
      <3>1. DryHours(In.readings) = {}
        BY <1>3, CertainOfTheNext
      <3>2. \A q \in Intervals(In.readings) : q[1] \in DOMAIN In.readings
        BY <1>3, NextReading
      <3> QED
        BY <3>1, <3>2 DEF HourKnowledge, PinnedHours
    <2> QED
      BY <1>3, <2>1, <2>2 DEF ReadingsOf
  <1>5. ASSUME NEW k \in mine PROVE known[k] = known[h]
    <2>1. k \in DOMAIN known /\ h \in DOMAIN known /\ k \in Int /\ h \in Int
      BY <1>1, <1>2, <1>4
    <2>2. k % DayLen = h % DayLen
      BY <1>2 DEF BucketOf
    <2>3. CASE k =< h
      BY <2>1, <2>2, <2>3, BucketsAreEven
    <2>4. CASE h =< k
      BY <2>1, <2>2, <2>4, BucketsAreEven
    <2> QED
      BY <2>1, <2>3, <2>4
  <1>6. bucket = [k \in mine |-> known[k]]
    BY DEF Bucket
  <1>7. IsFiniteSet(mine)
    <2>1. IsFiniteSet(0..(now - 1)) /\ mine \subseteq 0..(now - 1)
      BY <1>2, <1>3, <1>4, FS_Interval
    <2> QED
      BY <2>1, FS_Subset
  <1>8. known[h] \in Int
    BY <1>1, <1>4
  <1> DEFINE c == known[h]
  <1>9. DOMAIN bucket = mine /\ \A k \in DOMAIN bucket : bucket[k] = c
    BY <1>5, <1>6
  <1> HIDE DEF bucket, mine, c
  <1>10. Spread8(bucket) = 0
    BY <1>2, <1>7, <1>8, <1>9, NoSpreadOfEqual DEF c
  <1> QED
    BY <1>1, <1>10

\* A household whose days are all alike is never an anomaly to what was learned of it,
\* whatever the import missed (daily_anomaly, point_anomaly_hours).
THEOREM SteadyLifeIsNeverAnAnomaly == Spec => []SteadyLifeIsNoAnomaly
  <1>1. ASSUME Kept, offline = {}, Steady, NEW d \in Int,
               \A w \in DOMAIN device.slots : device.slots[w].deviation = None
        PROVE  Bandless(Expected(In, History(In), d))
    <2> DEFINE learned == History(In)
               c == IF DOMAIN learned = {} THEN 0 ELSE Habit
    <2>1. IsFiniteSet(DOMAIN learned) /\ \A k \in DOMAIN learned : learned[k] = Habit /\ Habit \in Nat
      BY <1>1, HabitIsLearned
    <2> HIDE DEF learned
    <2>2. c \in Int /\ \A k \in DOMAIN learned : learned[k] = c
      BY <2>1
    <2>3. device.slots[Weekday(d)].deviation = None
      <3>1. WeekDays \in Nat \ {0}
        BY BaselineAssumption
      <3>2. Weekday(d) \in 0..(WeekDays - 1)
        BY <3>1 DEF Weekday
      <3>3. DOMAIN device.slots = 0..(WeekDays - 1)
        BY <1>1, AnalysisAssumption DEF Kept, HouseTyped
      <3> QED
        BY <1>1, <3>2, <3>3
    <2> HIDE DEF c
    <2>4. Bandless(ExpectedDaily(d, device.slots[Weekday(d)], device.overall, now, learned))
      BY <2>1, <2>2, <2>3, LearnedIsBandless
    <2> QED
      BY <2>4 DEF Expected, In, Inputs, learned
  <1>2. Kept /\ QuietStart => SteadyLifeIsNoAnomaly
    <2> SUFFICES ASSUME Kept, QuietStart, offline = {}, Steady,
                        \A w \in DOMAIN device.slots : device.slots[w].deviation = None
                 PROVE  result.anomaly.active # TRUE
      BY DEF SteadyLifeIsNoAnomaly
    <2> DEFINE known == HourKnowledge(In.readings)
               totals == Totals(In, WindowDays)
               days == NoonDays(WindowDays, now)
               seen == {d \in DOMAIN totals : totals[d] # None}
    <2>1. result.anomaly = AnomalyState(In, totals, known, History(In))
      <3>1. result = Analytics(In, HourKnowledge(In.readings),
                               Nights(In, HourKnowledge(In.readings)), History(In))
        BY DEF Kept, ResultIsCurrent, ComputeAnalytics
      <3> QED
        BY <3>1, Zenon DEF Analytics
    <2>2. Cardinality(PointAnomalies(known, now)) < PointHours
      <3>1. PointAnomalies(known, now) = {}
        BY NoHourStandsOut
      <3>2. PointHours \in Nat \ {0}
        BY DetectorAssumption
      <3> HIDE DEF known
      <3> QED
        BY <3>1, <3>2, FS_EmptySet
    <2>3. ASSUME NEW total, NEW expected, Bandless(expected)
          PROVE  AnomalyOf(total, expected, known, now).active # TRUE
      <3>1. ~DailyAnomaly(total, expected)
        BY <2>3 DEF DailyAnomaly, Bandless
      <3>2. ~(Cardinality(PointAnomalies(known, now)) >= PointHours)
        <4>1. Cardinality(PointAnomalies(known, now)) = 0 /\ PointHours \in Nat \ {0}
          BY NoHourStandsOut, FS_EmptySet, DetectorAssumption
        <4> HIDE DEF known
        <4> QED
          BY <4>1
      <3> DEFINE daily == DailyAnomaly(total, expected)
                 point == Cardinality(PointAnomalies(known, now)) >= PointHours
                 comparable == expected # None \/ \E b \in Buckets : Mature(known, b)
      <3>3. AnomalyOf(total, expected, known, now) = Judged(comparable, daily, point)
        BY Zenon DEF AnomalyOf
      <3> HIDE DEF daily, point, comparable
      <3>4. Judged(comparable, daily, point).active = IF comparable THEN daily \/ point ELSE None
        BY Zenon DEF Judged
      <3>5. ~daily /\ ~point
        BY <3>1, <3>2 DEF daily, point
      <3>6. None # TRUE
        BY AnalysisAssumption
      <3> QED
        BY <3>3, <3>4, <3>5, <3>6, Zenon
    <2>4. CASE seen = {}
      <3>1. AnomalyState(In, totals, known, History(In)) = AnomalyOf(None, None, known, In.now)
        BY <2>4 DEF AnomalyState
      <3>2. In.now = now /\ Bandless(None)
        BY DEF In, Inputs, Bandless
      <3> QED
        BY <2>1, <2>3, <3>1, <3>2
    <2>5. CASE seen # {}
      <3>1. seen \subseteq 0..Today /\ Today \in Nat
        <4>1. days = (Today - WindowDays)..(Today - 1) /\ Today \in Nat /\ WindowDays \in Nat
          BY DaysJudged
        <4>2. ASSUME NEW d \in seen PROVE d \in 0..Today
          <5>1. d \in days /\ Assessable(In.readings, d)
            BY DEF Totals, In, Inputs
          <5>2. d \in Int /\ d < Today
            BY <4>1, <5>1
          <5>3. 1 =< d
            BY <5>1, <5>2, TotalIsTheDay
          <5> QED
            BY <4>1, <5>2, <5>3
        <4> HIDE DEF seen
        <4> QED
          BY <4>1, <4>2
      <3>2. Latest(totals) \in seen
        <4>1. Latest(totals) = Max(seen)
          BY DEF Latest
        <4> HIDE DEF seen
        <4> QED
          BY <2>5, <3>1, <4>1, MaxIsGreatest
      <3>3. Latest(totals) \in Int
        BY <3>1, <3>2
      <3>4. AnomalyState(In, totals, known, History(In))
              = AnomalyOf(totals[Latest(totals)], Expected(In, History(In), Latest(totals)), known, In.now)
        BY <2>5, Zenon DEF AnomalyState
      <3>5. In.now = now
        BY DEF In, Inputs
      <3>6. Bandless(Expected(In, History(In), Latest(totals)))
        BY <1>1, <3>3
      <3> HIDE DEF totals, known
      <3> QED
        BY <2>1, <2>3, <3>4, <3>5, <3>6
    <2> QED
      BY <2>4, <2>5
  <1> QED
    BY <1>2, StartsQuiet, RecorderIsTheMeter, PTL

=============================================================================
