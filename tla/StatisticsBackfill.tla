-------------------------- MODULE StatisticsBackfill --------------------------
(***************************************************************************)
(* The import of a softener's water history into the recorder              *)
(* (statistics.py).  A pass reads the unit and the newest rows the         *)
(* recorder holds, fetches the meter readings the cloud retains - daily     *)
(* ones, then hourly ones backwards - merges both resolutions, turns them  *)
(* into rows with a running sum, and queues the import on the recorder's   *)
(* thread, behind which it waits.  Every request and every recorder read   *)
(* is a step of its own: the device uploads late, the account's and the    *)
(* installation's units change, requests fail, passes are cancelled, the   *)
(* entry is removed and Home Assistant crashes in between.                 *)
(*                                                                         *)
(* Hours are numbered; a reading is the cloud's bucket maximum, in gallons *)
(* until a unit scales it.  Time zones, DST and the pacing of requests are *)
(* left out: labels are exact and every window falls on a midnight.        *)
(***************************************************************************)
EXTENDS Integers, Sequences, FiniteSets, FiniteSetsExt

CONSTANTS
  None,
  Days, DayLen,      \* the modelled calendar: days and hours per day
  MonthDays, YearDays,
  FirstHour,         \* the hour Home Assistant first runs in
  Meters,            \* possible households: [meter, drawn : hour -> Nat]
  LateBound,         \* bound: hours the device may owe the cloud at a time
  PassDays,          \* bound: midnights a pass may live to see
  FlipBound,         \* bound: changes of the installation's unit system
  GlitchesInOrder,   \* a glitch reading arrives after all earlier readings
  Overlap,           \* BACKFILL_OVERLAP_DAYS
  Margin,            \* _RESUME_MARGIN_DAYS
  HourlyChunk,       \* BACKFILL_HOURLY_CHUNK_DAYS
  HourlyRetention,   \* days the cloud keeps hourly buckets
  ProbeYears,        \* BACKFILL_DEPTH_PROBE_YEARS
  QueueBound         \* bound: tasks waiting on the recorder when a pass starts

Hours == 0..(Days * DayLen - 1)

Units == {"liters", "gallons"}

\* A resumed pass must reach back no further than one hourly window, and the
\* cloud must keep hourly buckets at least that long (30 + 2, 92, ~130 days),
\* however long the pass takes; the overlap is within the years that are probed.
ASSUME WindowsAssumption ==
  /\ {Days, DayLen, MonthDays, YearDays, Overlap, HourlyChunk, ProbeYears}
       \subseteq Nat \ {0}
  /\ {Margin, FirstHour, LateBound, FlipBound, PassDays, QueueBound, HourlyRetention}
       \subseteq Nat
  /\ Overlap + Margin =< HourlyChunk
  /\ HourlyChunk < HourlyRetention
  /\ Overlap + PassDays < HourlyRetention
  /\ Overlap =< YearDays
  /\ FirstHour \in Hours

\* None is no number, no unit, no row and no pass that waits.
ASSUME NoneAssumption ==
  None \notin
    Nat \cup Units \cup [start : Hours, state : Nat, sum : Nat] \cup
    [pc : {"wait"}, bound : BOOLEAN, unit : Units, rebuild : BOOLEAN,
     anchor : [start : Hours, state : Nat, sum : Nat] \cup {None},
     factor : Units, now : Hours, from : Int, upto : Int,
     daily : {<<>>}, hourly : {<<>>}, held : Nat]

\* TOTAL_WATER_CLAMP_TOLERANCE: a dip of at most a twentieth is a glitch.
IsGlitch(value, previous) == value < previous /\ 20 * value >= 19 * previous

\* The hours of a household with a reading, those whose reading moved, and what
\* the bucket of an hour may show: the counter, and the water it had counted by
\* then (history only); one gallon less while an hour that moved it is filling.
ReadHours(house) == {h \in Hours : house.meter[h] > 0}
Moved(house, h) ==
  house.meter[h] > 1 /\ \A k \in ReadHours(house) : k < h => house.meter[k] # house.meter[h]
Shown(house, h) ==
  {[value |-> house.meter[h] - owed, drawn |-> house.drawn[h] - owed] :
     owed \in IF Moved(house, h) THEN {0, 1} ELSE {0}}

\* Households the meter tells apart: a reading that is not below an earlier one
\* is the same counter's, a glitch repeats water, and any other drop is a new
\* counter, which has counted what it shows.
ASSUME HouseholdAssumption ==
  \A house \in Meters :
    /\ house.meter \in [Hours -> Nat] /\ house.drawn \in [Hours -> Nat]
    /\ \A h \in ReadHours(house) : Shown(house, h) \subseteq [value : Nat \ {0}, drawn : Nat]
    /\ \A k, h \in ReadHours(house) :
         k < h => \A r \in Shown(house, k), s \in Shown(house, h) :
           IF s.value >= r.value THEN s.drawn - r.drawn = s.value - r.value
           ELSE IF IsGlitch(s.value, r.value) THEN s.drawn =< r.drawn
           ELSE s.value =< s.drawn - r.drawn

VARIABLES
  home,       \* the household: what its meter reads and what it has drawn
  clock,      \* the hour that is running
  cloud,      \* per hour, what of its bucket was uploaded: "none" | "part" | "full"
  haUnit,     \* the installation's unit system
  flips,      \* changes of haUnit so far
  series,     \* the recorder's rows: slot -> [state, sum, drawn]
  seriesUnit, \* the unit in the series' metadata
  queue,      \* tasks of the recorder's thread
  entry,      \* "loaded" | "stopped" (after a login failure) | "removed"
  pass        \* the pass under way, or None

world == <<home, clock, cloud, haUnit, flips>>
store == <<series, seriesUnit, queue>>
vars == <<world, store, entry, pass>>

NoRows == [s \in {} |-> None]

(***************************************************************************)
(* The calendar and the readings                                           *)
(***************************************************************************)
Day(h) == h \div DayLen
Midnight(d) == d * DayLen
Month(d) == d \div MonthDays
Year(d) == d \div YearDays

Scale == [liters |-> 4, gallons |-> 1]

\* What the bucket of an hour shows.
Reading(h) ==
  LET owed == IF cloud[h] = "part" THEN 1 ELSE 0
  IN [value |-> home.meter[h] - owed, drawn |-> home.drawn[h] - owed]

\* Buckets with a reading; zeros are the server's filling and are dropped.
Uploaded == {h \in Hours : cloud[h] # "none"}
HourlyKept == {h \in Uploaded : Day(h) + HourlyRetention > Day(clock)}

InUnit(reading, unit) == [reading EXCEPT !.value = @ * Scale[unit]]
InGallons(reading, unit) == [reading EXCEPT !.value = @ \div Scale[unit]]

\* The hourly and the daily series of a span of slots, as a response holds
\* them; a day's bucket is the maximum over all it uploaded.
HourlySeries(from, to, unit) ==
  [h \in {k \in HourlyKept : k \in from..to} |-> InUnit(Reading(h), unit)]
DailySeries(from, to, unit) ==
  [d \in {Day(k) : k \in {u \in Uploaded : Day(u) \in Day(from)..Day(to)}} |->
     LET top == CHOOSE h \in {u \in Uploaded : Day(u) = d} :
                  \A u \in Uploaded : Day(u) = d => Reading(u).value =< Reading(h).value
     IN InUnit(Reading(top), unit)]

\* merge_resolutions: a day with an hourly reading is imported by the hour,
\* any other day by its daily reading, on its midnight.
MergeResolutions(hourly, daily) ==
  LET byDay == {d \in DOMAIN daily : \A h \in DOMAIN hourly : Day(h) # d}
  IN [s \in DOMAIN hourly \cup {Midnight(d) : d \in byDay} |->
        IF s \in DOMAIN hourly THEN hourly[s] ELSE daily[Day(s)]]

\* Rows are keyed by their slot: new ones replace old ones.
Upserted(new, old) ==
  [s \in DOMAIN new \cup DOMAIN old |-> IF s \in DOMAIN new THEN new[s] ELSE old[s]]

\* One reading of build_meter_rows: the first one is a baseline, a glitch is
\* skipped, a larger drop restarts the counter.
AddRow(acc, slot, reading) ==
  LET v == reading.value
      delta == IF acc.previous = None THEN 0
               ELSE IF v >= acc.previous THEN v - acc.previous ELSE v
      sum == acc.total + delta
  IN IF acc.previous # None /\ IsGlitch(v, acc.previous) THEN acc
     ELSE [previous |-> v, total |-> sum,
           rows |-> Upserted([s \in {slot} |-> [state |-> v, sum |-> sum, drawn |-> reading.drawn]],
                            acc.rows)]

\* build_meter_rows over the readings, oldest first, on top of the anchor.
NoneYet(anchor) ==
  [previous |-> IF anchor = None THEN None ELSE anchor.state,
   total |-> IF anchor = None THEN 0 ELSE anchor.sum,
   rows |-> NoRows]
BuildMeterRows(readings, anchor) ==
  MapThenFoldSet(LAMBDA slot, acc : AddRow(acc, slot, readings[slot]), NoneYet(anchor),
                 LAMBDA slot : slot, Max, DOMAIN readings).rows

(***************************************************************************)
(* What a pass reads from the recorder                                     *)
(***************************************************************************)
\* _async_load_anchor: the newest row before the overlap.
Anchor(now) ==
  LET old == {s \in DOMAIN series : s =< now - Overlap * DayLen}
  IN IF old = {} THEN None
     ELSE [start |-> Max(old), state |-> series[Max(old)].state, sum |-> series[Max(old)].sum]

\* _async_probe_history_start: the first month, of the first probed year, that
\* holds a reading.
ProbedStart(now) ==
  LET days == {d \in {Day(h) : h \in Uploaded} : Year(d) >= Year(Day(now)) - ProbeYears}
  IN IF days = {} THEN None ELSE Midnight(Month(Min(days)) * MonthDays)

\* Where the hourly walk's next window begins.
WindowStart(p) == Max({Midnight(Day(p.upto) - HourlyChunk), p.from})

\* The rows of a pass whose fetches are complete, in the unit it read at its
\* start; nothing at or before the anchor is rewritten.
CollectedRows(p, hourly) ==
  LET merged == MergeResolutions(hourly, p.daily)
      newer == {s \in DOMAIN merged : p.anchor # None => s > p.anchor.start}
      inUnit(s) == InUnit(InGallons(merged[s], p.factor), p.unit)
  IN BuildMeterRows([s \in newer |-> inUnit(s)], p.anchor)

\* The newest water the cloud knows of within the overlap (history only).
Held ==
  Max({Reading(h).drawn : h \in {u \in Uploaded : u > clock - Overlap * DayLen}} \cup {0})

(***************************************************************************)
(* The recorder's thread: one queue, in order                              *)
(***************************************************************************)
Clear == [kind |-> "clear"]
Import(unit, rows) == [kind |-> "import", unit |-> unit, rows |-> rows]
Marker == [kind |-> "sync"]

\* Mutant of ImportTasks: the marker overtakes the import.
MarkerFirst(p, rows) ==
  (IF p.rebuild THEN <<Clear>> ELSE <<>>) \o <<Marker, Import(p.unit, rows)>>

\* What a pass queues at once: a rebuild clears the series right before it
\* imports the replacement, and the marker comes last.
ImportTasks(p, rows) ==
  (IF p.rebuild THEN <<Clear>> ELSE <<>>) \o <<Import(p.unit, rows), Marker>>

\* The marker of a pass that has gone means nothing to anybody.
Orphan == [kind |-> "orphan"]
Abandoned(tasks) == [i \in DOMAIN tasks |-> IF tasks[i] = Marker THEN Orphan ELSE tasks[i]]

RecorderRuns ==
  /\ queue # <<>>
  /\ queue' = Tail(queue)
  /\ LET task == Head(queue) IN
       \/ /\ task.kind = "clear"
          /\ series' = NoRows /\ seriesUnit' = None
          /\ UNCHANGED pass
       \/ /\ task.kind = "import"
          /\ series' = Upserted(task.rows, series) /\ seriesUnit' = task.unit
          /\ UNCHANGED pass
       \/ /\ task.kind = "sync"
          /\ pass' = [pass EXCEPT !.pc = "drained"]
          /\ UNCHANGED <<series, seriesUnit>>
       \/ /\ task.kind = "orphan"
          /\ UNCHANGED <<series, seriesUnit, pass>>
  /\ UNCHANGED <<world, entry>>

(***************************************************************************)
(* A pass                                                                  *)
(***************************************************************************)
NewPass(bound) ==
  [pc |-> "unit", bound |-> bound, unit |-> haUnit, rebuild |-> FALSE, anchor |-> None,
   factor |-> None, now |-> clock, from |-> 0, upto |-> clock,
   daily |-> NoRows, hourly |-> NoRows, held |-> Held]

\* _async_update_data.  The startup pipeline and the 12-hour cadence end with
\* the entry (bound); the engine's daily run and the service do not.
StartPass(bound) ==
  /\ entry = "loaded" /\ pass = None
  /\ Len(queue) < QueueBound
  /\ pass' = NewPass(bound)
  /\ UNCHANGED <<world, store, entry>>

At(pc) == pass # None /\ pass.pc = pc

\* Mutant of ReadStoredUnit: the mismatched series is cleared before its
\* replacement is fetched.
ReadStoredUnitClears ==
  /\ At("unit")
  /\ LET mismatch == seriesUnit # None /\ seriesUnit # pass.unit
     IN /\ pass' = [pass EXCEPT !.pc = IF mismatch THEN "probe" ELSE "anchor"]
        /\ queue' = IF mismatch THEN Append(queue, Clear) ELSE queue
  /\ UNCHANGED <<world, series, seriesUnit, entry>>

\* _async_stored_unit, answered by the recorder's executor, not by its queue.
ReadStoredUnit ==
  /\ At("unit")
  /\ LET mismatch == seriesUnit # None /\ seriesUnit # pass.unit
     IN pass' = [pass EXCEPT !.rebuild = mismatch,
                             !.pc = IF mismatch THEN "probe" ELSE "anchor"]
  /\ UNCHANGED <<world, store, entry>>

ReadAnchor ==
  /\ At("anchor")
  /\ LET a == Anchor(pass.now)
     IN pass' = IF a = None THEN [pass EXCEPT !.pc = "probe"]
                ELSE [pass EXCEPT !.pc = "daily", !.anchor = a,
                                  !.from = Midnight(Day(a.start) - Margin)]
  /\ UNCHANGED <<world, store, entry>>

\* Mutant of Accepted: the unit of every answer is trusted by itself.
AnyKnownUnit(unit) == unit \in Units

\* normalize_volume_unit and _async_fetch_series: an answer is in the unit the
\* account has at that moment; one that is not recognized, or not the one the
\* pass began with, aborts the pass (PassFails).
Accepted(unit) == unit \in Units /\ pass.factor \in {None, unit}

\* The yearly and the monthly sweep; nothing retained ends the pass.
Probe(unit) ==
  /\ At("probe") /\ Accepted(unit)
  /\ LET start == ProbedStart(pass.now)
     IN pass' = IF start = None THEN None
                ELSE [pass EXCEPT !.pc = "daily", !.from = start, !.factor = unit]
  /\ UNCHANGED <<world, store, entry>>

FetchDaily(unit) ==
  /\ At("daily") /\ Accepted(unit)
  /\ pass' = [pass EXCEPT !.pc = "hourly", !.factor = unit,
                          !.daily = DailySeries(pass.from, pass.now, unit)]
  /\ UNCHANGED <<world, store, entry>>

\* One window of the backwards walk; after the last one, an empty one or the
\* one at the floor, the pass queues what it collected without awaiting.
FetchHourly(unit) ==
  /\ At("hourly") /\ Accepted(unit)
  /\ LET start == WindowStart(pass)
         window == HourlySeries(start, pass.upto, unit)
         hourly == Upserted(pass.hourly, window)
         rows == CollectedRows(pass, hourly)
     IN IF window # NoRows /\ start > pass.from
          THEN /\ pass' = [pass EXCEPT !.hourly = hourly, !.upto = start]
               /\ UNCHANGED queue
          ELSE IF rows = NoRows THEN pass' = None /\ UNCHANGED queue
          ELSE /\ pass' = [pass EXCEPT !.pc = "wait", !.hourly = NoRows, !.daily = NoRows]
               /\ queue' = queue \o ImportTasks(pass, rows)
  /\ UNCHANGED <<world, series, seriesUnit, entry>>

\* The marker came back: the refresh is a success.
PassDone ==
  /\ At("drained")
  /\ pass' = None
  /\ UNCHANGED <<world, store, entry>>

Requesting == pass # None /\ pass.pc \in {"probe", "daily", "hourly"}

\* UpdateFailed: a throttle, the network, a contract failure, a unit; or the
\* recorder did not confirm in time.
PassFails ==
  /\ Requesting \/ At("wait")
  /\ pass' = None
  /\ queue' = Abandoned(queue)
  /\ UNCHANGED <<world, series, seriesUnit, entry>>

\* ConfigEntryAuthFailed: no further pass until the entry is set up again.
PassNeedsLogin ==
  /\ Requesting
  /\ pass' = None
  /\ entry' = IF entry = "loaded" THEN "stopped" ELSE entry
  /\ UNCHANGED <<world, store>>

(***************************************************************************)
(* The entry around the passes                                             *)
(***************************************************************************)
\* Unloading ends the passes that belong to the entry.
EndBoundPass ==
  IF pass # None /\ pass.bound
    THEN pass' = None /\ queue' = Abandoned(queue)
    ELSE UNCHANGED <<pass, queue>>

Reload ==
  /\ entry \in {"loaded", "stopped"}
  /\ entry' = "loaded"
  /\ EndBoundPass
  /\ UNCHANGED <<world, series, seriesUnit>>

\* async_remove_entry: unload, then async_clear_device_statistics.
RemoveEntry ==
  /\ entry \in {"loaded", "stopped"}
  /\ entry' = "removed"
  /\ IF pass # None /\ pass.bound
       THEN pass' = None /\ queue' = Append(Abandoned(queue), Clear)
       ELSE queue' = Append(queue, Clear) /\ UNCHANGED pass
  /\ UNCHANGED <<world, series, seriesUnit>>

\* Home Assistant dies with whatever it had queued, and comes back.
Crash ==
  /\ entry # "removed"
  /\ pass' = None /\ queue' = <<>> /\ entry' = "loaded"
  /\ UNCHANGED <<world, series, seriesUnit>>

(***************************************************************************)
(* The household, the device's uploads and the units                       *)
(***************************************************************************)
Read == ReadHours(home)
Before(h) == {k \in Read : k < h}
Glitches == {h \in Read : Before(h) # {} /\ IsGlitch(home.meter[h], home.meter[Max(Before(h))])}

MayUpload(h) ==
  /\ h \in Read
  /\ (GlitchesInOrder /\ h \in Glitches) => \A k \in Before(h) : cloud[k] = "full"

Owed(h) == h \in Read /\ cloud[h] # "full"

\* The running hour's bucket is uploaded before the hour is over.
UploadPart ==
  /\ MayUpload(clock) /\ cloud[clock] = "none" /\ Moved(home, clock)
  /\ cloud' = [cloud EXCEPT ![clock] = "part"]
  /\ UNCHANGED <<home, clock, haUnit, flips, store, entry, pass>>

\* An hour ends; the device uploads its reading now or owes it.
Tick ==
  /\ clock + 1 \in Hours
  /\ pass # None => Day(clock + 1) =< Day(pass.now) + PassDays
  /\ clock' = clock + 1
  /\ \/ MayUpload(clock) /\ cloud' = [cloud EXCEPT ![clock] = "full"]
     \/ /\ clock \in Read => Cardinality({h \in 0..(clock - 1) : Owed(h)}) < LateBound
        /\ UNCHANGED cloud
  /\ UNCHANGED <<home, haUnit, flips, store, entry, pass>>

UploadLate ==
  /\ \E h \in 0..(clock - 1) :
       /\ Owed(h) /\ MayUpload(h)
       /\ cloud' = [cloud EXCEPT ![h] = "full"]
  /\ UNCHANGED <<home, clock, haUnit, flips, store, entry, pass>>

InstallationChangesUnit ==
  /\ flips < FlipBound
  /\ haUnit' \in Units \ {haUnit}
  /\ flips' = flips + 1
  /\ UNCHANGED <<home, clock, cloud, store, entry, pass>>

Init ==
  /\ home \in Meters
  /\ clock = FirstHour
  /\ cloud = [h \in Hours |-> IF h < FirstHour /\ home.meter[h] > 0 THEN "full" ELSE "none"]
  /\ haUnit = "liters"
  /\ flips = 0
  /\ series = NoRows /\ seriesUnit = None /\ queue = <<>>
  /\ entry = "loaded"
  /\ pass = None

Request == \E unit \in Units : Probe(unit) \/ FetchDaily(unit) \/ FetchHourly(unit)

World == UploadPart \/ Tick \/ UploadLate \/ InstallationChangesUnit

Next ==
  \/ \E bound \in BOOLEAN : StartPass(bound)
  \/ ReadStoredUnit \/ ReadAnchor \/ Request \/ PassDone \/ PassFails \/ PassNeedsLogin
  \/ RecorderRuns
  \/ Reload \/ RemoveEntry \/ Crash
  \/ World

Spec == Init /\ [][Next]_vars

(***************************************************************************)
(* Properties                                                              *)
(***************************************************************************)
Row == [state : Nat, sum : Nat, drawn : Nat]

TypeOK ==
  /\ home \in Meters /\ clock \in Hours
  /\ cloud \in [Hours -> {"none", "part", "full"}]
  /\ haUnit \in Units /\ flips \in 0..FlipBound
  /\ DOMAIN series \subseteq Hours /\ \A s \in DOMAIN series : series[s] \in Row
  /\ seriesUnit \in Units \cup {None}
  /\ entry \in {"loaded", "stopped", "removed"}

\* No water is lost, invented or counted twice, in whatever order readings
\* arrive, units change and passes fail: between two consecutive rows the sum
\* grows by what the household drew between their readings, in the one unit of
\* the series; only what an exchanged meter never showed is missing
\* (statistics.py:18-21, build_meter_rows).
NoWaterLost ==
  \A a, b \in DOMAIN series :
    (a < b /\ \A s \in DOMAIN series : s =< a \/ b =< s) =>
      LET counted == series[b].sum - series[a].sum
          flowed == Scale[seriesUnit] * (series[b].drawn - series[a].drawn)
      IN IF series[b].state >= series[a].state THEN counted = flowed
         ELSE 0 =< counted /\ counted =< flowed

\* The user's history is never deleted without its replacement next in the
\* recorder's queue, unless the entry is removed (_async_rebuilt_rows).
HistorySurvivesRebuild ==
  [][(series # NoRows /\ series' = NoRows) =>
       \/ entry = "removed"
       \/ queue' # <<>> /\ Head(queue').kind = "import" /\ Head(queue').rows # NoRows]_vars

\* A refresh that succeeds with an import has it readable: the series then
\* reaches the newest water of the overlap the cloud knew of when the pass
\* began, which the analysis behind it relies on (_async_wait_for_recorder).
CompletedPassIsCurrent ==
  [][(At("drained") /\ pass' = None /\ queue' = queue /\ entry' = entry /\ entry # "removed") =>
       \E s \in DOMAIN series : series[s].drawn >= pass.held]_vars

\* Removing the entry deletes the imported series (README.md:503): once its
\* clear has run, nothing is in the series.
RemovedSeriesStaysGone ==
  (entry = "removed" /\ \A i \in DOMAIN queue : queue[i] # Clear) => series = NoRows

=============================================================================
