------------------------------ MODULE Detectors ------------------------------
(***************************************************************************)
(* The verdicts of one analytics pass (analytics/detectors.py), a function *)
(* of its inputs: the readings, the regenerations the activity feed knows, *)
(* the device's own averages, whether the device is online and the import  *)
(* current, and the hour the pass runs in.  Left out: the drift charts     *)
(* (CUSUM and EWMA over a Hampel-cleaned series), whose real arithmetic    *)
(* TLC cannot follow, and the wording of the result.                       *)
(***************************************************************************)
EXTENDS Baseline

CONSTANTS
  NightStart, NightEnd,  \* MNF_WINDOW_START_HOUR, MNF_WINDOW_END_HOUR
  LeakNights,            \* LEAK_CONSECUTIVE_NIGHTS
  PersistentHours,       \* PERSISTENT_FLOW_HOURS
  WindowDays,            \* DETECTOR_WINDOW_DAYS
  BaselineDays,          \* BASELINE_WINDOW_DAYS
  TierLimits,            \* LEAK_TIER_*: [info, warning, urgent], per day
  K,                     \* ANALYTICS_K
  PointHours,            \* POINT_ANOMALY_MIN_HOURS
  VacationDays,          \* VACATION_MIN_DAYS
  MaxEvents, LargeEvent  \* VACATION_MAX_EVENTS, VACATION_LARGE_EVENT_GALLONS

ASSUME DetectorAssumption ==
  /\ NightStart \in Nat /\ NightEnd \in Nat
  /\ NightStart < NightEnd /\ NightEnd =< Noon
  /\ {LeakNights, PersistentHours, WindowDays, PointHours, VacationDays} \subseteq Nat \ {0}
  /\ BaselineDays \in Nat /\ BaselineDays >= WindowDays
  /\ VacationDays =< WindowDays
  /\ None \notin {"empty", "lived_in"}

(***************************************************************************)
(* Nights                                                                  *)
(***************************************************************************)
WindowStart(night) == night * DayLen + NightStart
WindowEnd(night) == night * DayLen + NightEnd
WindowHours(night) == WindowStart(night)..(WindowEnd(night) - 1)

\* _trailing_local_hours: the newest completed hours.
TrailingHours(now, count) == (now - count)..(now - 1)

\* masked_nights: the windows a known regeneration overlaps.
Masked(regens, night) ==
  \E r \in regens : r.start < WindowEnd(night) /\ r.end > WindowStart(night)

\* Mutant of Covered: any known regeneration vouches for every night.
CoveredOnFaith(coverage, night) == coverage # None

\* The regeneration history reaches back to the night.
Covered(coverage, night) == coverage # None /\ night >= coverage \div DayLen

\* classify_night: a masked night is no evidence, an unbounded one a gap; one
\* hour proven dry, or silent, clears the night before it can be a leak.
ClassifyNight(in, knowledge, night) ==
  LET certain == WindowHours(night) \cap DOMAIN knowledge
      dry == \E h \in WindowHours(night) : h \notin ReadingHours(in.readings)
                                           \/ (h \in certain /\ knowledge[h] = 0)
      verdict == IF Masked(in.regens, night) THEN "masked"
                 ELSE IF ~Bounded(in.readings, WindowStart(night), WindowEnd(night))
                   THEN "unassessed"
                 ELSE IF dry THEN "no_leak"
                 ELSE IF ~Covered(in.coverage, night) THEN "unknown"
                 ELSE "leak"
  IN [verdict |-> verdict,
      rate |-> IF verdict = "no_leak" THEN 0
               ELSE IF verdict = "leak" /\ certain # {} THEN Min({knowledge[h] : h \in certain})
               ELSE None]

\* _latest_closed_night, _assess_nights
NewestNight(now) ==
  IF now % DayLen < NightEnd THEN now \div DayLen - 1 ELSE now \div DayLen
Nights(in, knowledge) ==
  [n \in (NewestNight(in.now) - WindowDays + 1)..NewestNight(in.now) |->
     ClassifyNight(in, knowledge, n)]

\* persistent_flow: the completed hours of the last days all had flow.
PersistentFlow(in, knowledge) ==
  \A h \in TrailingHours(in.now, PersistentHours) :
    /\ h \in ReadingHours(in.readings)
    /\ h \in DOMAIN knowledge => knowledge[h] > 0

\* _leak_tier of an implied daily volume
Tier(volume) ==
  IF volume = None \/ volume < TierLimits.info THEN None
  ELSE IF volume < TierLimits.warning THEN "info"
  ELSE IF volume < TierLimits.urgent THEN "warning" ELSE "urgent"

\* Mutant of Streak: nights that cannot be told break it.
StreakUnbroken(nights) ==
  {n \in DOMAIN nights :
     \A k \in DOMAIN nights : k >= n => nights[k].verdict = "leak"}

\* leak_state: the streak runs over determinate nights only, newest first, and
\* a night without a leak ends it; an all-clear needs a determinate night.
Streak(nights) ==
  {n \in DOMAIN nights :
     /\ nights[n].verdict = "leak"
     /\ \A k \in DOMAIN nights : k > n => nights[k].verdict # "no_leak"}

Implied(rates) == IF rates = {} THEN None ELSE DayLen * Min(rates)
LeakState(nights, persistent) ==
  LET streak == Streak(nights)
      determinate == \E n \in DOMAIN nights : nights[n].verdict \in {"leak", "no_leak"}
  IN [active |-> IF Cardinality(streak) >= LeakNights \/ persistent THEN TRUE
                 ELSE IF determinate THEN FALSE ELSE None,
      nights |-> Cardinality(streak),
      tier |-> Tier(Implied({nights[n].rate : n \in streak} \ {None})),
      persistent |-> persistent]

(***************************************************************************)
(* Days                                                                    *)
(***************************************************************************)
\* _noon_days: the totals of a window, those its readings do not bound dropped.
Assessable(readings, day) ==
  /\ Bounded(readings, NoonOf(day - 1), NoonOf(day))
  /\ DayTotal(readings, day) # None
Totals(in, window) ==
  [d \in NoonDays(window, in.now) |->
     IF Assessable(in.readings, d) THEN DayTotal(in.readings, d) ELSE None]

\* Mutant of History: a day counts whether or not its readings bound it.
HistoryOfAnyDay(in) ==
  Learned([d \in NoonDays(BaselineDays, in.now) |-> DayTotal(in.readings, d)])

\* _history_and_learned
History(in) == Learned(Totals(in, BaselineDays))

Expected(in, learned, day) ==
  ExpectedDaily(day, in.slots[Weekday(day)], in.overall, in.now, learned)

\* Mutant of DailyAnomaly: a spread of nothing makes a band.
DailyAnomalyUnguarded(total, expected) ==
  /\ total # None /\ expected # None
  /\ 8 * total > 4 * expected.expected2 + K * expected.spread8

\* daily_anomaly: a total above its band; without a spread there is no band.
DailyAnomaly(total, expected) ==
  /\ total # None /\ expected # None
  /\ expected.spread8 > 0  \* no spread, no band
  /\ 8 * total > 4 * expected.expected2 + K * expected.spread8

\* point_anomaly_hours: of the last day's completed hours, those whose certain
\* use is above the band of their mature bucket.
PointAnomalies(knowledge, now) ==
  {h \in TrailingHours(now, DayLen) \cap DOMAIN knowledge :
     LET bucket == Bucket(knowledge, BucketOf(h))
     IN /\ Mature(knowledge, BucketOf(h))
        /\ Spread8(bucket) > 0
        /\ 8 * knowledge[h] > 4 * Centre2(bucket) + K * Spread8(bucket)}

\* _anomaly_state, without the drift charts: unknown without anything to
\* compare with.
Latest(totals) == Max({d \in DOMAIN totals : totals[d] # None})
Judged(comparable, daily, point) ==
  [active |-> IF comparable THEN daily \/ point ELSE None, daily |-> daily, point |-> point]
AnomalyOf(total, expected, knowledge, now) ==
  Judged(expected # None \/ \E b \in Buckets : Mature(knowledge, b),
         DailyAnomaly(total, expected),
         Cardinality(PointAnomalies(knowledge, now)) >= PointHours)
AnomalyState(in, totals, knowledge, learned) ==
  IF \A d \in DOMAIN totals : totals[d] = None
    THEN AnomalyOf(None, None, knowledge, in.now)
    ELSE AnomalyOf(totals[Latest(totals)], Expected(in, learned, Latest(totals)), knowledge, in.now)

(***************************************************************************)
(* Absence                                                                 *)
(***************************************************************************)
\* use < VACATION_RATIO (3/10) of what the day is expected to use, over days
\* measured in hours: the use of a span averaged over a day.
BelowRatio(used, span, expected) == 20 * used * DayLen < 3 * expected.expected2 * span

\* _unoccupied: little water, hardly a draw, and no large one.
Unoccupied(in, day, expected) ==
  /\ expected # None
  /\ BelowRatio(DayTotal(in.readings, day), DayLen, expected)
  /\ EventCount(in.readings, day) =< MaxEvents
  /\ \/ LargestEvent(in.readings, day) = None
     \/ LargestEvent(in.readings, day) < LargeEvent

Verdict(empty) == IF empty THEN "empty" ELSE "lived_in"
Silent(readings, day) == ~\E h \in DOMAIN readings : NoonOf(day - 1) < h /\ h < NoonOf(day)

\* Mutants of TrailingSilence: an import that failed reads as silence; silence
\* is nothing.
SilenceUnimported(in) == in.online

SilenceIsNothing(in) == FALSE

\* Silence after the last reading tells something only of a device that is
\* online and a series that is current.
TrailingSilence(in) == in.online /\ in.fresh

\* _occupancy: "empty", "lived_in", or None.  A day without bounds is judged
\* only from a silence it lies in: the average of the gap around it, or
\* nothing, if it lasts.
OverGap(readings, from, to, expected) ==
  IF readings[to] < readings[from] THEN None
  ELSE Verdict(BelowRatio(readings[to] - readings[from], to - from, expected))
Occupancy(in, day, expected) ==
  IF Assessable(in.readings, day) THEN Verdict(Unoccupied(in, day, expected))
  ELSE IF \/ expected = None \/ ~Silent(in.readings, day)
          \/ ~SeenBy(in.readings, NoonOf(day - 1)) THEN None
  ELSE IF SeenFrom(in.readings, NoonOf(day))
    THEN OverGap(in.readings, LastBy(in.readings, NoonOf(day - 1)),
                 FirstFrom(in.readings, NoonOf(day)), expected)
  ELSE IF TrailingSilence(in) THEN "empty" ELSE None

\* vacation_state: the newest days in a row that were empty.
EmptyDays(verdicts) ==
  {d \in DOMAIN verdicts : \A k \in DOMAIN verdicts : k >= d => verdicts[k] = "empty"}
VacationOf(online, verdicts) ==
  [active |-> IF \A d \in DOMAIN verdicts : verdicts[d] = None THEN None
              ELSE online /\ Cardinality(EmptyDays(verdicts)) >= VacationDays,
   days |-> EmptyDays(verdicts)]
VacationState(in, learned) ==
  VacationOf(in.online, [d \in NoonDays(WindowDays, in.now) |->
                           Occupancy(in, d, Expected(in, learned, d))])

(***************************************************************************)
(* The pass                                                                *)
(***************************************************************************)
\* forecast_for: the expectation of a day with the band around it, or None.
Banded(expected) ==
  IF expected = None THEN None
  ELSE [expected2 |-> expected.expected2, band8 |-> K * expected.spread8]
ForecastFor(in, learned, day) == Banded(Expected(in, learned, day))

Tomorrow(in) == in.now \div DayLen + 1

\* compute_analytics
Analytics(in, knowledge, nights, learned) ==
  [leak |-> LeakState(nights, PersistentFlow(in, knowledge)),
   nights |-> nights,
   anomaly |-> AnomalyState(in, Totals(in, WindowDays), knowledge, learned),
   vacation |-> VacationState(in, learned),
   active |-> ActiveHours(knowledge),
   peaks |-> [w \in 0..(WeekDays - 1) |-> PeakHours(knowledge, w)],
   forecast |-> ForecastFor(in, learned, Tomorrow(in))]
ComputeAnalytics(in) ==
  Analytics(in, HourKnowledge(in.readings), Nights(in, HourKnowledge(in.readings)), History(in))

\* compute_forecasts: the days after today, each resolved for itself.
ComputeForecasts(in, days) ==
  [d \in Tomorrow(in)..(Tomorrow(in) + days - 1) |-> ForecastFor(in, History(in), d)]

=============================================================================
