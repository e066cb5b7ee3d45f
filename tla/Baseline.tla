------------------------------- MODULE Baseline -------------------------------
(***************************************************************************)
(* The learned baselines (analytics/baseline.py): robust statistics over   *)
(* the certain hours and over the assessable days, and the chain that      *)
(* resolves what a day is expected to use.  Medians are kept doubled and   *)
(* spreads eightfold, with MAD_SCALE rounded to 3/2, which keeps the       *)
(* statistics in the integers.                                             *)
(***************************************************************************)
EXTENDS MeterSeries, SequencesExt

CONSTANTS
  WeekDays,      \* days of a week
  MinSamples,    \* MIN_BUCKET_SAMPLES
  MinDays,       \* LEARNED_DAILY_MIN_DAYS
  PeaksPerDay,   \* PEAK_HOURS_PER_WEEKDAY
  Freshness      \* WEEKDAY_SLOT_FRESHNESS_DAYS, in hours

ASSUME BaselineAssumption ==
  /\ {WeekDays, MinSamples, MinDays, PeaksPerDay, Freshness} \subseteq Nat \ {0}
  /\ None \notin [expected2 : Nat, spread8 : Nat,
                  source : {"device_average", "learned_weekday", "overall_average"}]

Weekday(day) == day % WeekDays
Buckets == (0..(WeekDays - 1)) \X (0..(DayLen - 1))
BucketOf(h) == <<Weekday(h \div DayLen), h % DayLen>>

\* Twice the median of a family of integers f[i], i in a finite set: the least value
\* at least half of them do not exceed, and the greatest one at least half reach.
Half(f, these) == 2 * Cardinality(these) >= Cardinality(DOMAIN f)
LowerMiddle(f) ==
  Min({f[i] : i \in {k \in DOMAIN f : Half(f, {j \in DOMAIN f : f[j] =< f[k]})}})
UpperMiddle(f) ==
  Max({f[i] : i \in {k \in DOMAIN f : Half(f, {j \in DOMAIN f : f[j] >= f[k]})}})
TwiceMedian(f) == LowerMiddle(f) + UpperMiddle(f)

Distance(a, b) == IF a < b THEN b - a ELSE a - b

\* _robust_center_spread: twice the median, eight times the scaled MAD.
Centre2(f) == TwiceMedian(f)
Spread8(f) == 3 * TwiceMedian([i \in DOMAIN f |-> Distance(2 * f[i], Centre2(f))])

\* build_grid: per bucket of the week its samples; a bucket without one is
\* unknown, not quiet.
SamplesOf(knowledge, bucket) == {h \in DOMAIN knowledge : BucketOf(h) = bucket}
Bucket(knowledge, bucket) == [h \in SamplesOf(knowledge, bucket) |-> knowledge[h]]
Mature(knowledge, bucket) == Cardinality(SamplesOf(knowledge, bucket)) >= MinSamples

\* activity_grid: a mature bucket at least half of whose samples carried water.
ActiveHours(knowledge) ==
  {b \in Buckets :
     /\ Mature(knowledge, b)
     /\ 2 * Cardinality({h \in SamplesOf(knowledge, b) : knowledge[h] > 0})
          >= Cardinality(SamplesOf(knowledge, b))}

\* peak_hours: a weekday's mature buckets with a draw, the largest medians
\* first and the earlier hour on a tie, cut to the number kept.
Drawing(knowledge, weekday) ==
  {hour \in 0..(DayLen - 1) :
     /\ Mature(knowledge, <<weekday, hour>>)
     /\ Centre2(Bucket(knowledge, <<weekday, hour>>)) > 0}
Ahead(knowledge, weekday, a, b) ==
  LET ca == Centre2(Bucket(knowledge, <<weekday, a>>))
      cb == Centre2(Bucket(knowledge, <<weekday, b>>))
  IN ca > cb \/ (ca = cb /\ a < b)
PeakHours(knowledge, weekday) ==
  {hour \in Drawing(knowledge, weekday) :
     Cardinality({k \in Drawing(knowledge, weekday) : Ahead(knowledge, weekday, k, hour)})
       < PeaksPerDay}

\* slot_fresh: the stamp of the slot's last change is young enough.
SlotFresh(slot, now) == slot.updated # None /\ now - slot.updated =< Freshness

\* LearnedDaily.from_days: the totals of the assessable days.
Learned(totals) == [d \in {k \in DOMAIN totals : totals[k] # None} |-> totals[d]]
OfWeekday(learned, day) ==
  [d \in {k \in DOMAIN learned : Weekday(k) = Weekday(day)} |-> learned[d]]
Count(f) == Cardinality(DOMAIN f)

\* _learned_spread_liters: the weekday's own spread once it has matured, the
\* household's once it has warmed up.
LearnedSpread8(learned, day) ==
  IF Count(OfWeekday(learned, day)) >= MinSamples THEN Spread8(OfWeekday(learned, day))
  ELSE IF Count(learned) >= MinDays THEN Spread8(learned)
  ELSE None

\* _resolved: an expectation needs a positive centre and a spread.
Expectation(centre2, spread8, source) ==
  IF spread8 # None /\ centre2 > 0
    THEN [expected2 |-> centre2, spread8 |-> spread8, source |-> source]
    ELSE None

\* expected_daily_liters: the device's fresh weekday average, the learned
\* weekday, the device's fresh overall average with the learned spread.
FromSlot(day, slot, now, learned) ==
  IF slot.average = None \/ ~SlotFresh(slot, now) THEN None
  ELSE Expectation(2 * slot.average,
                   IF slot.deviation # None THEN 8 * slot.deviation
                   ELSE LearnedSpread8(learned, day), "device_average")
FromDays(mine) ==
  IF Count(mine) < MinSamples THEN None
  ELSE Expectation(Centre2(mine), Spread8(mine), "learned_weekday")
FromWeekday(day, learned) == FromDays(OfWeekday(learned, day))
FromOverall(overall, now, learned) ==
  IF overall.average = None \/ ~SlotFresh(overall, now) \/ Count(learned) < MinDays THEN None
  ELSE Expectation(2 * overall.average, Spread8(learned), "overall_average")
FirstFound(chain) ==
  LET found == {i \in DOMAIN chain : chain[i] # None}
  IN IF found = {} THEN None ELSE chain[Min(found)]
ExpectedDaily(day, slot, overall, now, learned) ==
  FirstFound(<<FromSlot(day, slot, now, learned), FromWeekday(day, learned),
               FromOverall(overall, now, learned)>>)

=============================================================================
