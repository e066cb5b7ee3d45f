----------------------------- MODULE MeterSeries -----------------------------
(***************************************************************************)
(* The meter series of the analytics tier (analytics/series.py): operators *)
(* over readings, a partial function from hours (the start of the bucket)  *)
(* to the cumulative counter the recorder stores for it.  The device       *)
(* pushes only when water moves, so an hour without flow has no reading.   *)
(* Volumes keep the meter's unit; local time is a count of whole hours.    *)
(***************************************************************************)
EXTENDS Integers, Sequences, FiniteSets, FiniteSetsExt

CONSTANTS
  None,
  DayLen,       \* hours of a day
  Noon,         \* the hour every analytics day is cut at
  BoundSlack    \* ASSESSABLE_BOUND_HOURS

ASSUME SeriesAssumption ==
  /\ DayLen \in Nat \ {0} /\ Noon \in 0..(DayLen - 1) /\ BoundSlack \in Nat

NoReadings == [h \in {} |-> None]

NoonOf(day) == day * DayLen + Noon

\* The last reading at or before an instant, the first one at or after it.
SeenBy(readings, t) == \E h \in DOMAIN readings : h =< t
SeenFrom(readings, t) == \E h \in DOMAIN readings : h >= t
LastBy(readings, t) == Max({h \in DOMAIN readings : h =< t})
FirstFrom(readings, t) == Min({h \in DOMAIN readings : h >= t})

\* build_intervals: consecutive readings, as <<start, end>>.
Intervals(readings) ==
  {<<h, FirstFrom(readings, h + 1)>> : h \in {k \in DOMAIN readings : SeenFrom(readings, k + 1)}}

Delta(readings, p) == readings[p[2]] - readings[p[1]]
Drawn(readings, p) == Max({Delta(readings, p), 0})

\* hour_knowledge: an interval of one hour pins its first hour to its delta, an
\* interval without a delta proves all its hours dry; any other hour is unknown.
PinnedHours(readings) ==
  {p[1] : p \in {q \in Intervals(readings) : q[2] = q[1] + 1 /\ Delta(readings, q) > 0}}
DryHours(readings) ==
  UNION {p[1]..(p[2] - 1) : p \in {q \in Intervals(readings) : Delta(readings, q) = 0}}
HourKnowledge(readings) ==
  LET dry == DryHours(readings)
  IN [h \in PinnedHours(readings) \cup dry |->
        IF h \in dry THEN 0 ELSE readings[h + 1] - readings[h]]

\* reading_hours: the hours in which the device pushed.
ReadingHours(readings) == DOMAIN readings

\* counter_at
CounterAt(readings, t) ==
  IF SeenBy(readings, t) THEN readings[LastBy(readings, t)] ELSE None

\* day_total_liters: None if the series begins later, or ran backwards.
DayTotal(readings, day) ==
  LET opening == CounterAt(readings, NoonOf(day - 1))
      closing == CounterAt(readings, NoonOf(day))
  IN IF opening = None \/ closing = None THEN None
     ELSE IF closing < opening THEN None
     ELSE closing - opening

\* The intervals that lie entirely within a day.
DrawsOf(readings, day) ==
  LET inside == {h \in DOMAIN readings : NoonOf(day - 1) =< h /\ h =< NoonOf(day)}
  IN Intervals([h \in inside |-> readings[h]])

\* largest_event_liters, event_count
LargestEvent(readings, day) ==
  LET draws == DrawsOf(readings, day)
  IN IF draws = {} THEN None ELSE Max({Drawn(readings, p) : p \in draws})
EventCount(readings, day) ==
  Cardinality({p \in DrawsOf(readings, day) : Drawn(readings, p) > 0})

\* bounded: the meter was seen shortly before a window opened and shortly
\* after it closed.
Bounded(readings, start, end) ==
  /\ SeenBy(readings, start) /\ LastBy(readings, start) >= start - BoundSlack
  /\ SeenFrom(readings, end) /\ FirstFrom(readings, end) =< end + BoundSlack

\* noon_days: the newest completed ones, oldest first, as an interval of days.
NewestNoonDay(now) ==
  IF now % DayLen >= Noon THEN now \div DayLen ELSE now \div DayLen - 1
NoonDays(window, now) == (NewestNoonDay(now) - window + 1)..NewestNoonDay(now)

=============================================================================
