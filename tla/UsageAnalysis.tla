---------------------------- MODULE UsageAnalysis ----------------------------
(***************************************************************************)
(* The analytics engine over a household (analytics/engine.py and the      *)
(* verdicts of Detectors).  A step is a day, from one morning's pass to    *)
(* the next: water is drawn hour by hour, the softener may regenerate at   *)
(* night, the device may be offline for a stretch, the activity feed       *)
(* shows its newest regenerations, the import succeeds or fails, and the   *)
(* pass publishes what it makes of it.  What the household really did is   *)
(* kept beside it, and the properties compare the two.                     *)
(***************************************************************************)
EXTENDS Detectors, Functions

CONSTANTS
  RunHour,      \* ANALYTICS_RUN_LOCAL_TIME
  LastDay,      \* bound: the days simulated
  Patterns,     \* what a household may draw, per hour since the last pass
  Ordinary,     \* those of them that are no reason for an alarm
  Stretches,    \* the hours since the last pass the device may be offline in
  OutageBound,  \* bound: days with an outage
  TroubleBound, \* bound: nights with a regeneration, outages and failed imports together
  RegenUse,     \* what a regeneration draws in its hour
  LateBound,    \* bound: passes whose import has failed
  FeedPage,     \* regenerations the activity feed shows
  Devices       \* the averages a device may report: [slots, overall]

ASSUME AnalysisAssumption ==
  /\ RunHour \in NightEnd..(Noon - 1)
  /\ \A p \in Patterns : p \in [1..DayLen -> Nat]
  /\ \A off \in Stretches : off \subseteq 0..(DayLen - 1)
  /\ RegenUse \in Nat /\ FeedPage \in Nat \ {0}
  /\ None \notin BOOLEAN /\ None \notin Nat
  /\ \A dev \in Devices :
       dev.slots \in [0..(WeekDays - 1) ->
                       [average : Nat \cup {None}, deviation : Nat \cup {None},
                        updated : Nat \cup {None}]]

VARIABLES
  device,    \* its own averages
  now,       \* the hour the last pass ran in
  used,      \* hour -> the water drawn in it
  offline,   \* the hours the device was offline in
  regens,    \* the regenerations: [start, end]
  imported,  \* the hour the last import ran in
  rows,      \* the meter series in the recorder
  failures,  \* imports that failed so far
  result,    \* the published analytics
  heard      \* what the last event of each detector said, None before one

household == <<device, now, used, offline, regens, imported, rows, failures>>
vars == <<household, result, heard>>

(***************************************************************************)
(* The engine                                                              *)
(***************************************************************************)
\* async_schedule: today's run hour if it is to come, or tomorrow's.
NextRun(t) ==
  (IF t % DayLen < RunHour THEN t \div DayLen ELSE t \div DayLen + 1) * DayLen + RunHour

\* _async_load_readings: the rows of the baseline window.
LoadReadings(series, t) ==
  Restrict(series, {h \in DOMAIN series : h >= t - BaselineDays * DayLen})

\* statistics.py: a row per hour with a push, holding the counter the bucket
\* reached, stamped with the start of the bucket.
NewRows(u, off, from, before) ==
  [h \in {k \in from..(before - 1) : u[k] > 0 /\ k \notin off} |-> SumFunctionOnSet(u, 0..h)]

\* The recorder keeps a row per hour, the last one it was handed.
Upserted(series, new) ==
  [h \in DOMAIN series \cup DOMAIN new |-> IF h \in DOMAIN new THEN new[h] ELSE series[h]]

\* _regen_windows: the known regenerations, and the oldest as the start of
\* what they cover.
Known(events) ==
  {r \in events : Cardinality({q \in events : q.start > r.start}) < FeedPage}
Coverage(events) == IF events = {} THEN None ELSE Min({r.start : r \in Known(events)})

\* _build_inputs
Inputs(dev, t, readings, off, events, ok) ==
  [readings |-> LoadReadings(readings, t),
   regens |-> Known(events), coverage |-> Coverage(events),
   slots |-> dev.slots, overall |-> dev.overall,
   now |-> t, online |-> (t - 1) \notin off, fresh |-> ok]

\* _fire_flip: a verdict that flips is told; from or to None it is not.
Flip(was, is, said) == IF None \in {was, is} \/ was = is THEN said ELSE is

\* _fire_transitions, to whoever has listened since the start.
FireTransitions(before, after, said) ==
  [leak |-> Flip(before.leak.active, after.leak.active, said.leak),
   anomaly |-> Flip(before.anomaly.active, after.anomaly.active, said.anomaly),
   vacation |-> Flip(before.vacation.active, after.vacation.active, said.vacation)]

\* _async_update_data: the pass, on inputs the quantifier has TLC evaluate once.
Publish(inputs) == \E in \in {inputs} : result' = ComputeAnalytics(in)

OutageDays(off) == {(h - RunHour) \div DayLen : h \in off}

\* A day and the pass that ends it.
Pass ==
  \E off \in Stretches, regenerates, ok \in BOOLEAN, water \in Patterns :
    LET hours == now..(NextRun(now) - 1)
        day == now \div DayLen + 1
        cycle == [start |-> WindowStart(day), end |-> WindowStart(day) + 1]
        drawn == [h \in DOMAIN used \cup hours |->
                    IF h < now THEN used[h]
                    ELSE water[h - now + 1]
                         + (IF regenerates /\ h = cycle.start THEN RegenUse ELSE 0)]
    IN /\ day =< LastDay
       /\ UNCHANGED device
       /\ now' = NextRun(now)
       /\ offline' = offline \cup {now + i : i \in off}
       /\ regens' = IF regenerates THEN regens \cup {cycle} ELSE regens
       /\ failures' = IF ok THEN failures ELSE failures + 1
       /\ Cardinality(OutageDays(offline')) =< OutageBound
       /\ failures' =< LateBound
       /\ Cardinality(regens') + Cardinality(OutageDays(offline')) + failures' =< TroubleBound
       /\ used' = drawn
       /\ imported' = IF ok THEN now' ELSE imported
       /\ rows' = IF ok THEN Upserted(rows, NewRows(drawn, offline', imported, now')) ELSE rows
       /\ Publish(Inputs(device, now', rows', offline', regens', ok))
       /\ heard' = FireTransitions(result, result', heard)

\* _async_run_startup_pipeline: the first pass of a device without a history.
Init ==
  /\ device \in Devices
  /\ now = RunHour
  /\ used = [h \in 0..(RunHour - 1) |-> 0]
  /\ offline = {} /\ regens = {}
  /\ imported = RunHour /\ failures = 0 /\ rows = NoReadings
  /\ result = ComputeAnalytics(Inputs(device, now, rows, offline, regens, TRUE))
  /\ heard = [leak |-> None, anomaly |-> None, vacation |-> None]

Next == Pass

Spec == Init /\ [][Next]_vars

(***************************************************************************)
(* Properties                                                              *)
(***************************************************************************)
Wet(h) == h \in DOMAIN used /\ used[h] > 0
Online(hours) == hours \cap offline = {}
HoursOf(day) == (NoonOf(day - 1) + 1)..NoonOf(day)
Water(hours) == SumFunctionOnSet(used, hours)
DayUse(day) == [i \in 1..DayLen |-> used[(day - 1) * DayLen + RunHour + i - 1]]

\* A night is called a leak only if water ran in every hour of its window and
\* the softener did not regenerate in it, whatever the feed has forgotten and
\* the import missed (classify_night, masked_nights).
LeakNightsAreReal ==
  \A n \in DOMAIN result.nights : result.nights[n].verdict = "leak" =>
    /\ \A h \in WindowHours(n) : Wet(h)
    /\ ~Masked(regens, n)

\* A leak that is claimed is a fact: water ran in every hour of the windows of as
\* many nights as it takes, none of them with a regeneration, or in every one of the
\* last PersistentHours (leak_state, persistent_flow).
LeaksAreReal ==
  result.leak.active = TRUE =>
    \/ \E nights \in SUBSET DOMAIN result.nights :
         /\ Cardinality(nights) >= LeakNights
         /\ \A n \in nights : ~Masked(regens, n) /\ \A h \in WindowHours(n) : Wet(h)
    \/ \A h \in TrailingHours(now, PersistentHours) : Wet(h)

\* Water has not stopped since before the night first, the device was online, the
\* import is current, and enough nights since are free of regenerations and late
\* enough for the feed to vouch for that.
HasLeakedSince(first) ==
  LET since == (WindowStart(first) - 1)..(now - 1)
      telling == {n \in DOMAIN result.nights :
                    /\ n >= first /\ ~Masked(regens, n)
                    /\ \E r \in Known(regens) : r.end =< WindowEnd(n)}
  IN /\ \A h \in since : Wet(h)
     /\ Online(since)
     /\ imported = now
     /\ Cardinality(telling) >= LeakNights

\* Water that does not stop is found by the next pass (leak_state).
LastingLeaksAreFound ==
  \A first \in DOMAIN result.nights : HasLeakedSince(first) => result.leak.active = TRUE

\* Water that does not stop is found by the next pass, and who listens has heard of
\* it, if no import was missed and the night before is cleared and was free of
\* regenerations, so that it was cleared all along (leak_state, _fire_transitions).
LeaksAreFound ==
  /\ LastingLeaksAreFound
  /\ \A first \in DOMAIN result.nights :
       (/\ HasLeakedSince(first)
        /\ failures = 0 /\ first - 1 \in DOMAIN result.nights
        /\ result.nights[first - 1].verdict = "no_leak"
        /\ ~Masked(regens, first - 1)) => heard.leak = TRUE

\* The device has an average of the weekday, with its spread, and it is not too old.
Vouched(slot) ==
  /\ SlotFresh(slot, now)
  /\ slot.average # None /\ slot.average > 0 /\ slot.deviation # None

\* Every day of a claimed absence on which the device was never offline used
\* less than the vacation share of the average the device itself keeps for it, or
\* nothing before the noon hour that ends it: a silence is judged with the draw that
\* ends it, spread over its days (_occupancy).
AbsencesAreReal ==
  result.vacation.active = TRUE =>
    \A d \in result.vacation.days :
      LET slot == device.slots[Weekday(d)]
      IN (Online(HoursOf(d)) /\ Vouched(slot)) =>
           \/ 10 * Water(HoursOf(d)) < 3 * slot.average
           \/ Water(HoursOf(d) \ {NoonOf(d)}) = 0

\* An empty house is noticed once it was empty for the days it takes, with
\* the device online and the import current, although it pushes nothing at
\* all, as long as the baseline window reaches back to its last water
\* (vacation_state).
LongAbsenceIsSeen ==
  LET newest == NewestNoonDay(now)
      since == NoonOf(newest - VacationDays)..(now - 1)
      learned == {h \in DOMAIN used : h >= now - BaselineDays * DayLen}
  IN (/\ newest - VacationDays >= 1
      /\ \A w \in DOMAIN device.slots : Vouched(device.slots[w])
      /\ Water(since) = 0 /\ Water(learned) > 0
      /\ Online(DOMAIN used) /\ imported = now)
     => result.vacation.active = TRUE

\* The modelled households, whose days are all alike but for those they are away,
\* never raise an anomaly, long as the absence may be (daily_anomaly,
\* point_anomaly_hours).  Where days of more kinds alternate it would not be so:
\* the rarest kind of a day from noon to noon may well stand out.
OrdinaryLifeIsNoAnomaly ==
  (/\ regens = {} /\ offline = {}
   /\ \A d \in 1..(now \div DayLen) : DayUse(d) \in Ordinary)
  => result.anomaly.active # TRUE

\* A device without averages of its own, a household whose days are all alike, and
\* what one of its days uses.
Untold == /\ device.overall.average = None
          /\ \A w \in DOMAIN device.slots : device.slots[w].average = None
Steady == \A d \in 1..(now \div DayLen) : DayUse(d) = DayUse(1)
Habit == Water(RunHour..(RunHour + DayLen - 1))

\* A household whose days are all alike is forecast what it uses, to a device that
\* keeps no averages, whatever the import missed; the service that asks for more
\* days gets the same (forecast_for, compute_forecasts).
ForecastIsTheHabit ==
  LET asked == ComputeForecasts(Inputs(device, now, rows, offline, regens, imported = now), WeekDays)
      told == {result.forecast} \cup Range(asked)
  IN offline = {} /\ Untold /\ Steady => \A f \in told : f = None \/ f.expected2 = 2 * Habit

\* No day of such a household is an anomaly to spreads that are learned: they are
\* none, and a spread of none is no band (daily_anomaly, point_anomaly_hours).
SteadyLifeIsNoAnomaly ==
  (/\ offline = {} /\ Steady
   /\ \A w \in DOMAIN device.slots : device.slots[w].deviation = None)
  => result.anomaly.active # TRUE

\* hour_knowledge: the water "certainly used within that hour" (series.py:106)
\* was drawn in that hour.
CertainHoursAreTrue ==
  LET known == HourKnowledge(rows)
  IN \A h \in DOMAIN known : known[h] = used[h]

\* What it is true of is the hour after: a counter is stamped with the start of the
\* bucket at whose end it was read.
CertainHoursAreTheNext ==
  LET known == HourKnowledge(rows)
  IN \A h \in DOMAIN known : known[h] > 0 /\ Wet(h + 1) /\ known[h] = used[h + 1]

=============================================================================
