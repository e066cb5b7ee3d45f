---------------------------- MODULE RegenScheduler ----------------------------
(***************************************************************************)
(* The regeneration scheduler of one device (scheduler.py,                  *)
(* automation_state.py, command.py): the user's three opt-ins, the vacation *)
(* deferral, and the schedule and cancel commands they lead to.             *)
(*                                                                         *)
(* Every evaluation and every setter runs under one FIFO asyncio lock, and  *)
(* the only await under it is a cloud command; an action is what happens    *)
(* between two awaits.  The scheduler decides on the device view of the     *)
(* last poll, which lags the device: a command is fire-and-forget and its   *)
(* effect surfaces on a later poll.  Reported verdicts (last_decision) are  *)
(* left out; device-local days are kept as "today or not".                  *)
(***************************************************************************)
EXTENDS Integers, Sequences

CONSTANTS
  Requests,     \* the public setters this instance exercises
  Budget,       \* REGEN_CANCEL_DAILY_BUDGET
  WaitBound,    \* how many callers may wait for the lock
  Detections,   \* vacation verdicts the analytics engine may publish
  Readings,     \* [online, allowed, need] of the view at a decision
  TileLags,     \* the cloud's recharge tile may lag the device
  Restarts,     \* the entry may be reloaded and Home Assistant may crash
  PatientReload,\* no reload completes while a command is in flight
  None

Setters == {"defer_on", "defer_off", "suggested", "follow_on", "follow_off",
            "smart_on", "smart_off"}
Passes == {"engine", "fast"}
Recharges == {"ready", "scheduled", "regenerating"}
Verdicts == {"yes", "no", "unknown"}

ASSUME RequestsAssumption == Requests \subseteq Setters
ASSUME SchedulerBounds == Budget \in Nat \ {0} /\ WaitBound \in Nat \ {0}
ASSUME DetectionsAssumption == Detections \subseteq Verdicts
ASSUME SchedulerReadings ==
  Readings \subseteq [online: BOOLEAN, allowed: BOOLEAN,
                      need: {"low", "enough", "unknown"}]
ASSUME SchedulerFlags == {TileLags, Restarts, PatientReload} \subseteq BOOLEAN
ASSUME SchedulerNone == None \notin {"manual", "auto", "fresh", "over"}

VARIABLES
  auto,      \* the AutomationState: flags, deferral source and age
  options,   \* its copy in the config entry's options
  vacation,  \* the engine's published vacation verdict
  device,    \* what the device is going to do
  tile,      \* what the cloud says of it
  view,      \* what the last poll brought
  queue,     \* callers waiting for _lock
  inflight,  \* the command the lock's holder awaits, or None
  latch,     \* _scheduled_day is today
  cancel,    \* _cancel_day is today, _cancels_today, _cancel_failures_today
  expiry,    \* _expiry_fired
  stopping,  \* _stopping
  old,       \* an unloaded scheduler still awaiting its command, or None
  ledger     \* what the cloud accepted today, for the properties

world == <<device, tile, view>>
vars == <<auto, options, vacation, world, queue, inflight, latch, cancel, expiry,
          stopping, old, ledger>>

AutomationStates ==
  [deferral: BOOLEAN, follow: BOOLEAN, smart: BOOLEAN,
   source: {"manual", "auto", None}, age: {"fresh", "over", None}]

AllOff ==
  [deferral |-> FALSE, follow |-> FALSE, smart |-> FALSE, source |-> None, age |-> None]

CancelActs == {"enforce", "start"}
ScheduleActs == {"catch_up", "low_capacity"}

Commands ==
  [act: CancelActs \cup ScheduleActs, decide: BOOLEAN, vacation: Verdicts,
   sameDay: BOOLEAN]

Budgets == [current: BOOLEAN, sent: 0..Budget, failed: 0..Budget]

\* What the cloud accepted today from this scheduler: enforcement's cancels, and
\* schedules not cancelled since; each capped.
Ledgers == [enforced: 0..Budget + 1, standing: 0..2]

NothingAccepted == [enforced |-> 0, standing |-> 0]

CountTo(n, cap) == IF n < cap THEN n + 1 ELSE cap

-----------------------------------------------------------------------------
(* Commands and what they wait for.                                        *)

Command(act, decide, detected) ==
  [act |-> act, decide |-> decide, vacation |-> detected, sameDay |-> TRUE]

\* _blocking_reason, read on the scheduler's state and on the polled view.
Unblocked(a, scheduledToday, detected, reading) ==
  /\ a.smart /\ ~a.deferral
  /\ detected # "yes"
  /\ reading.online /\ reading.allowed
  /\ view = "ready"
  /\ reading.need # "unknown"
  /\ ~scheduledToday

\* _async_decide: the nightly command, or None.
Decision(a, scheduledToday, detected, reading) ==
  IF Unblocked(a, scheduledToday, detected, reading) /\ reading.need = "low"
  THEN Command("low_capacity", FALSE, detected)
  ELSE None

\* Mutant of CatchUpDue: the once-a-day latch is not asked.
CatchUpUnlatched(reading) ==
  reading.need = "low" /\ reading.allowed /\ view = "ready"

\* _async_catch_up.
CatchUpDue(reading) ==
  reading.need = "low" /\ reading.allowed /\ view = "ready" /\ ~latch

Deferred(a, source) ==
  [a EXCEPT !.deferral = TRUE, !.source = source, !.age = "fresh"]
Undeferred(a) == [a EXCEPT !.deferral = FALSE, !.source = None, !.age = None]

\* _async_apply: publish and persist.
Apply(a) == auto' = a /\ options' = a
NoApply == UNCHANGED <<auto, options>>

\* _async_apply_deferral(True): the cancel that takes effect at once is free of the
\* budget.  engine says the caller goes on to decide, which the deferral blocks.
StartDeferral(source, engine, detected) ==
  /\ Apply(Deferred(auto, source))
  /\ expiry' = FALSE
  /\ inflight' = IF view = "scheduled" THEN Command("start", engine, detected) ELSE None
  /\ UNCHANGED <<cancel, ledger>>

\* _async_apply_deferral(False) with the catch-up; an engine pass goes on to decide.
EndDeferral(engine, detected, reading) ==
  /\ Apply(Undeferred(auto))
  /\ inflight' = IF CatchUpDue(reading) THEN Command("catch_up", engine, detected)
                 ELSE IF engine
                 THEN Decision(Undeferred(auto), latch, detected, reading)
                 ELSE None
  /\ UNCHANGED <<cancel, expiry, ledger>>

Nothing == NoApply /\ UNCHANGED <<inflight, cancel, expiry, ledger>>

-----------------------------------------------------------------------------
(* The bodies run under the lock.                                          *)

SetFlags(a) == Apply(a) /\ UNCHANGED <<inflight, cancel, expiry, ledger>>

\* async_set_vacation_deferral, by the switch or by a confirmed suggestion.
SetDeferral(on, source, reading) ==
  IF auto.deferral = on THEN Nothing
  ELSE IF on THEN StartDeferral(source, FALSE, vacation)
  ELSE EndDeferral(FALSE, vacation, reading)

\* async_set_auto_vacation(True) defers at once when already away.
FollowOn ==
  IF vacation = "yes" /\ ~auto.deferral
  THEN /\ Apply(Deferred([auto EXCEPT !.follow = TRUE], "auto"))
       /\ expiry' = FALSE
       /\ inflight' = IF view = "scheduled" THEN Command("start", FALSE, vacation)
                                            ELSE None
       /\ UNCHANGED <<cancel, ledger>>
  ELSE SetFlags([auto EXCEPT !.follow = TRUE])

\* Mutants of MayRelease: any deferral ends when water is used again; only while the
\* follower is on.
MayReleaseAny == vacation = "no" /\ auto.deferral

MayReleaseFollowing ==
  vacation = "no" /\ auto.deferral /\ auto.source = "auto" /\ auto.follow

MayRelease == vacation = "no" /\ auto.deferral /\ auto.source = "auto"

\* _async_evaluate_engine: follow the verdict, then decide.  A decision that sends
\* nothing is recorded, which persists the state again.
EnginePass(reading) ==
  IF vacation = "yes" /\ auto.follow /\ ~auto.deferral
  THEN StartDeferral("auto", TRUE, vacation)
  ELSE IF MayRelease THEN EndDeferral(TRUE, vacation, reading)
  ELSE LET next == Decision(auto, latch, vacation, reading)
       IN /\ inflight' = next
          /\ IF next = None THEN Apply(auto) ELSE NoApply
          /\ UNCHANGED <<cancel, expiry, ledger>>

\* The counters after _claim_cancel_budget has rolled them to today.
RolledBudget ==
  IF cancel.current THEN cancel ELSE [current |-> TRUE, sent |-> 0, failed |-> 0]

\* Mutant of MayClaim: off by one.
MayClaimOneMore(counts) == counts.sent <= Budget /\ counts.failed < Budget

MayClaim(counts) == counts.sent < Budget /\ counts.failed < Budget

\* Mutant of PastCap: the hygiene cap is ignored.
PastCapNever == FALSE

PastCap == auto.age = "over"

\* _async_enforce_deferral.
FastPass ==
  IF ~auto.deferral \/ view # "scheduled" THEN Nothing
  ELSE IF PastCap
  THEN /\ IF expiry THEN NoApply ELSE Apply(auto)
       /\ expiry' = TRUE
       /\ UNCHANGED <<inflight, cancel, ledger>>
  ELSE /\ cancel' = RolledBudget
       /\ inflight' = IF MayClaim(RolledBudget)
                      THEN Command("enforce", FALSE, vacation) ELSE None
       /\ NoApply
       /\ UNCHANGED <<expiry, ledger>>

Body(op, reading) ==
  \/ op = "defer_on" /\ SetDeferral(TRUE, "manual", reading)
  \/ op = "suggested" /\ SetDeferral(TRUE, "auto", reading)
  \/ op = "defer_off" /\ SetDeferral(FALSE, "manual", reading)
  \/ op = "follow_on" /\ FollowOn
  \/ op = "follow_off" /\ SetFlags([auto EXCEPT !.follow = FALSE])
  \/ op = "smart_on" /\ SetFlags([auto EXCEPT !.smart = TRUE])
  \/ op = "smart_off" /\ SetFlags([auto EXCEPT !.smart = FALSE])
  \/ op \in Passes /\ stopping /\ Nothing
  \/ op = "engine" /\ ~stopping /\ EnginePass(reading)
  \/ op = "fast" /\ ~stopping /\ FastPass

\* The next caller in line gets the lock and runs to its first await.
Run(reading) ==
  /\ queue # <<>>
  /\ inflight = None
  /\ queue' = Tail(queue)
  /\ Body(Head(queue), reading)
  /\ UNCHANGED <<vacation, world, latch, stopping, old>>

-----------------------------------------------------------------------------
(* The answer of the cloud.                                                *)

\* What an accepted command makes of the device; a cancel ends a started cycle too.
DeviceAfter(command) ==
  IF command.act \in CancelActs THEN "ready"
  ELSE IF device = "ready" THEN "scheduled" ELSE device

\* A command that reports an error may still have been carried out.
CommandActs(command, acted) ==
  /\ device' = IF acted THEN DeviceAfter(command) ELSE device
  /\ tile' = IF TileLags THEN tile ELSE device'
  /\ UNCHANGED view

\* A sent cancel re-opens the day; a schedule closes the day it was decided on.
LatchAfter(command, ok, before) ==
  IF ~ok THEN before ELSE command.act \in ScheduleActs /\ command.sameDay

BudgetAfter(command, ok) ==
  IF command.act # "enforce" THEN cancel
  ELSE IF ok THEN [cancel EXCEPT !.sent = @ + 1] ELSE [cancel EXCEPT !.failed = @ + 1]

LedgerAfter(command, ok) ==
  IF ~ok THEN ledger
  ELSE IF command.act \in ScheduleActs
  THEN IF command.sameDay THEN [ledger EXCEPT !.standing = CountTo(@, 2)] ELSE ledger
  ELSE [ledger EXCEPT
          !.standing = 0,
          !.enforced = IF command.sameDay /\ command.act = "enforce"
                       THEN CountTo(@, Budget + 1) ELSE @]

\* The engine pass the command belongs to goes on to its decision.
NextCommand(command, a, scheduledToday, reading) ==
  IF command.decide THEN Decision(a, scheduledToday, command.vacation, reading) ELSE None

\* Every answered command but the free cancel records a verdict, and a decision that
\* sends nothing records one as well: both persist the state again.
Records(command, next) == command.act # "start" \/ (command.decide /\ next = None)

Answer(ok, acted, reading) ==
  /\ inflight # None
  /\ ok => acted
  /\ latch' = LatchAfter(inflight, ok, latch)
  /\ cancel' = BudgetAfter(inflight, ok)
  /\ ledger' = LedgerAfter(inflight, ok)
  /\ inflight' = NextCommand(inflight, auto, latch', reading)
  /\ IF Records(inflight, inflight') THEN Apply(auto) ELSE NoApply
  /\ CommandActs(inflight, acted)
  /\ UNCHANGED <<vacation, queue, expiry, stopping, old>>

\* The same for a scheduler whose entry was unloaded while it waited: its pass goes
\* on, and what it records overwrites the options of the scheduler set up since.
OldAnswer(ok, acted, reading) ==
  /\ old # None
  /\ ok => acted
  /\ LET closed == LatchAfter(old.command, ok, old.latch)
         next == NextCommand(old.command, old.auto, closed, reading)
     IN /\ old' = IF next = None THEN None
                  ELSE [old EXCEPT !.command = next, !.latch = closed]
        /\ options' = IF Records(old.command, next) THEN old.auto ELSE options
  /\ CommandActs(old.command, acted)
  /\ UNCHANGED <<auto, vacation, queue, inflight, latch, cancel, expiry, stopping,
                 ledger>>

-----------------------------------------------------------------------------
(* What asks for the lock: the user, the polls and the analytics engine.   *)

Wait(op) == Len(queue) < WaitBound /\ queue' = Append(queue, op)

\* Mutant of Request: a suggested deferral is shown before its setter has the lock.
RequestShowsFirst(op, reading) ==
  /\ ~stopping
  /\ IF inflight = None /\ queue = <<>>
     THEN Body(op, reading) /\ UNCHANGED queue
     ELSE /\ Wait(op)
          /\ IF op = "suggested" THEN Apply(Deferred(auto, "auto")) ELSE NoApply
          /\ UNCHANGED <<inflight, cancel, expiry, ledger>>
  /\ UNCHANGED <<vacation, world, latch, stopping, old>>

\* A setter runs at once when nobody holds the lock or waits for it.
Request(op, reading) ==
  /\ ~stopping
  /\ IF inflight = None /\ queue = <<>>
     THEN Body(op, reading) /\ UNCHANGED queue
     ELSE Wait(op) /\ Nothing
  /\ UNCHANGED <<vacation, world, latch, stopping, old>>

\* A poll that reached the cloud, and one that re-served the cached view; the
\* listener of the fast coordinator does not tell them apart.
Poll(fresh) ==
  /\ Wait("fast")
  /\ view' = IF fresh THEN tile ELSE view
  /\ UNCHANGED <<auto, options, vacation, device, tile, inflight, latch, cancel,
                 expiry, stopping, old, ledger>>

Analyse(detected) ==
  /\ Wait("engine")
  /\ vacation' = detected
  /\ UNCHANGED <<auto, options, world, inflight, latch, cancel, expiry, stopping, old,
                 ledger>>

-----------------------------------------------------------------------------
(* The device, the cloud's tile and the calendar.                          *)

DeviceMoves(from, to) ==
  /\ device = from
  /\ device' = to
  /\ tile' = IF TileLags THEN tile ELSE to
  /\ UNCHANGED <<auto, options, vacation, view, queue, inflight, latch, cancel, expiry,
                 stopping, old, ledger>>

DeviceSchedules == DeviceMoves("ready", "scheduled")
DeviceStarts == DeviceMoves("scheduled", "regenerating")
DeviceFinishes == DeviceMoves("regenerating", "ready")

TileFollows ==
  /\ tile # device
  /\ tile' = device
  /\ UNCHANGED <<auto, options, vacation, device, view, queue, inflight, latch, cancel,
                 expiry, stopping, old, ledger>>

Yesterday(command) ==
  IF command = None THEN None ELSE [command EXCEPT !.sameDay = FALSE]

DayTurns ==
  /\ latch' = FALSE
  /\ cancel' = [cancel EXCEPT !.current = FALSE]
  /\ inflight' = Yesterday(inflight)
  /\ old' = IF old = None THEN None
            ELSE [old EXCEPT !.latch = FALSE, !.command = Yesterday(@)]
  /\ ledger' = NothingAccepted
  /\ UNCHANGED <<auto, options, vacation, world, queue, expiry, stopping>>

Aged(a) == IF a.deferral THEN [a EXCEPT !.age = "over"] ELSE a

DeferralAges ==
  /\ "fresh" \in {auto.age, options.age}
  /\ auto' = Aged(auto)
  /\ options' = Aged(options)
  /\ old' = IF old = None THEN None ELSE [old EXCEPT !.auto = Aged(@)]
  /\ UNCHANGED <<vacation, world, queue, inflight, latch, cancel, expiry, stopping,
                 ledger>>

-----------------------------------------------------------------------------
(* Unload, setup and crash.                                                *)

Stop ==
  /\ Restarts /\ ~stopping
  /\ stopping' = TRUE
  /\ UNCHANGED <<auto, options, vacation, world, queue, inflight, latch, cancel, expiry,
                 old, ledger>>

\* state_from_options.
Restored == options

\* __init__ of the next scheduler: only the options survive.
Fresh ==
  /\ auto' = Restored
  /\ queue' = <<>>
  /\ inflight' = None
  /\ latch' = FALSE
  /\ cancel' = [current |-> FALSE, sent |-> 0, failed |-> 0]
  /\ expiry' = FALSE
  /\ stopping' = FALSE
  /\ vacation' = "unknown"
  /\ view' = tile
  /\ ledger' = NothingAccepted

\* At most one unloaded scheduler at a time still waits for the cloud.
Setup ==
  /\ stopping
  /\ \A i \in 1..Len(queue) : queue[i] \in Passes
  /\ PatientReload => inflight = None
  /\ old = None
  /\ old' = IF inflight = None THEN None
            ELSE [auto |-> auto, latch |-> latch, command |-> inflight]
  /\ Fresh
  /\ UNCHANGED <<options, device, tile>>

\* Home Assistant dies; a command on its way is carried out or not.
Crash(acted) ==
  /\ Restarts
  /\ Fresh
  /\ old' = None
  /\ device' = IF acted /\ inflight # None THEN DeviceAfter(inflight) ELSE device
  /\ tile' = IF TileLags THEN tile ELSE device'
  /\ UNCHANGED options

-----------------------------------------------------------------------------
Init ==
  /\ auto = AllOff /\ options = AllOff
  /\ vacation = "unknown"
  /\ device \in Recharges /\ tile = device /\ view = device
  /\ queue = <<>>
  /\ inflight = None
  /\ latch = FALSE
  /\ cancel = [current |-> FALSE, sent |-> 0, failed |-> 0]
  /\ expiry = FALSE
  /\ stopping = FALSE
  /\ old = None
  /\ ledger = NothingAccepted

Work ==
  \/ \E reading \in Readings :
       \/ Run(reading)
       \/ \E op \in Requests : Request(op, reading)
       \/ \E ok, acted \in BOOLEAN :
            Answer(ok, acted, reading) \/ OldAnswer(ok, acted, reading)
  \/ \E fresh \in BOOLEAN : Poll(fresh)
  \/ \E detected \in Detections : Analyse(detected)

World == DeviceSchedules \/ DeviceStarts \/ DeviceFinishes \/ TileFollows
         \/ DayTurns \/ DeferralAges

Lifecycle == Stop \/ Setup \/ \E acted \in BOOLEAN : Crash(acted)

Next == Work \/ World \/ Lifecycle

Spec == Init /\ [][Next]_vars

-----------------------------------------------------------------------------
(* Properties.                                                             *)

\* Every variable stays in its type; the daily counters stay within the budget.
TypeOK ==
  /\ auto \in AutomationStates /\ options \in AutomationStates
  /\ vacation \in Verdicts
  /\ device \in Recharges /\ tile \in Recharges /\ view \in Recharges
  /\ queue \in Seq(Setters \cup Passes)
  /\ inflight \in Commands \cup {None}
  /\ latch \in BOOLEAN
  /\ cancel \in Budgets
  /\ expiry \in BOOLEAN /\ stopping \in BOOLEAN
  /\ old \in [auto: AutomationStates, latch: BOOLEAN, command: Commands] \cup {None}
  /\ ledger \in Ledgers

\* A deferral started while a schedule command is on its way waits for the lock, so
\* no regeneration is ever asked for by a scheduler whose deferral is on.
ScheduleRespectsDeferral ==
  inflight # None /\ inflight.act \in ScheduleActs => ~auto.deferral

\* Enforcement cancels at most REGEN_CANCEL_DAILY_BUDGET regenerations in one
\* device-local day, whatever midnight, refusals and re-scheduling come between.
EnforcementBudget == ledger.enforced <= Budget

\* The nightly decision and the catch-up share one latch: no second schedule of a day
\* is accepted unless a cancel was accepted since the first.
OneScheduleADay == ledger.standing <= 1

\* A deferral set by hand ends by hand: no verdict, suggestion, reload or crash ends
\* it or turns it into one that releases itself.
ManualDeferralIsTheUsers ==
  [][auto.deferral /\ auto.source = "manual"
       => \/ auto'.deferral /\ auto'.source = "manual"
          \/ /\ auto' = Undeferred(auto)
             /\ queue = <<>> \/ Head(queue) = "defer_off"]_vars

-----------------------------------------------------------------------------
(* What the documentation says of the program, and the code does not do.   *)

\* scheduler.py:704: "a genuine cancel-then-return day still gets its catch-up".
ReturnCatchesUp ==
  [][/\ auto.deferral /\ ~auto'.deferral
     /\ device = "ready" /\ ~latch
     /\ Readings = {r \in Readings : r.need = "low" /\ r.allowed}
     => inflight' # None /\ inflight'.act = "catch_up"]_vars

\* The class docstring: "a restart never forgets an opt-in", for the state is written
\* to the options before it is shown.
PersistedIsCurrent == options = auto

-----------------------------------------------------------------------------
(* Liveness.                                                               *)

\* Every command is answered (client timeouts), the lock is handed on, polls and
\* nightly passes keep coming, the tile catches up, days pass, and a cloud that is
\* asked again and again takes a command in the end.  Strong fairness on the passes:
\* only the bound on the waiting line can keep one out.
SchedulerIsFair ==
  /\ WF_vars(\E reading \in Readings : Run(reading))
  /\ WF_vars(\E reading \in Readings, ok, acted \in BOOLEAN : Answer(ok, acted, reading))
  /\ SF_vars(\E reading \in Readings : Answer(TRUE, TRUE, reading))
  /\ SF_vars(Poll(TRUE))
  /\ SF_vars(\E detected \in Detections : Analyse(detected))
  /\ WF_vars(TileFollows)
  /\ WF_vars(DayTurns)

FairSpec == Spec /\ SchedulerIsFair

\* A deferral that holds keeps the device from regenerating: what it schedules is
\* cancelled, through refusals, lost answers, stale views and spent budgets.
DeferralBites ==
  <>[](auto.deferral /\ auto.age = "fresh") => []<>(device # "scheduled")

\* A deferral past the hygiene cap lets the regenerations the device schedules run:
\* from some point on none is cancelled any more.
OverdueIsLetThrough ==
  <>[](auto.age = "over") => <>[][device = "scheduled" => device' # "ready"]_device

\* A deferral the system started is released once the household is back.
AutoDeferralReleases ==
  <>[](vacation = "no") => []<>(auto.source # "auto")

=============================================================================
