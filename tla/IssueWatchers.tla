---------------------------- MODULE IssueWatchers ----------------------------
(***************************************************************************)
(* The watchers of one device (issues.py).  Each is a closure over what it *)
(* last reported, evaluated whenever a coordinator it listens to notifies. *)
(* A watcher is an operator from the registry and its memory, kept in      *)
(* [registry, memory, told], to the ones after it; told counts the events  *)
(* the leak-while-away watcher fired.                                      *)
(*                                                                         *)
(* What they read: the salt countdown, the last analytics result, the      *)
(* scheduler's flags, and the regeneration hour of the settings document.  *)
(***************************************************************************)
EXTENDS Integers, FiniteSets, FiniteSetsExt, IssueRegistry

CONSTANTS
  CriticalDays, WarningDays, Hysteresis,  \* SALT_DAYS_*
  DayHours,                               \* hours of a day
  CandidateHours                          \* QUIET_REGEN_CANDIDATE_HOURS

ASSUME WatcherAssumption ==
  /\ {CriticalDays, WarningDays, Hysteresis} \subseteq Nat
  /\ CriticalDays + Hysteresis < WarningDays
  /\ DayHours \in Nat \ {0} /\ CandidateHours \subseteq 0..(DayHours - 1)

\* The issues the watchers file for a device.
ASSUME IssueAssumption == Issues = {"salt", "urgent", "away", "defer", "quiet"}

NoMemory ==
  [salt |-> [tier |-> "none", days |-> None], urgent |-> None,
   away |-> [reported |-> None, announced |-> FALSE], defer |-> None, quiet |-> None]

(***************************************************************************)
(* Salt                                                                    *)
(***************************************************************************)
\* _next_tier: a tier is entered at its threshold and left past the hysteresis.
NextTier(tier, days) ==
  IF days = None THEN "none"
  ELSE IF \/ days =< CriticalDays
          \/ tier = "critical" /\ days =< CriticalDays + Hysteresis THEN "critical"
  ELSE IF \/ days =< WarningDays
          \/ tier # "none" /\ days =< WarningDays + Hysteresis THEN "warning"
  ELSE "none"

\* Mutants of Escalates: an ignored warning stays ignored as it escalates; any
\* entry into the upper tier deletes first.
NeverEscalates(tier, new) == FALSE

EscalatesFromNone(tier, new) == tier # "critical" /\ new = "critical"

\* An escalation that was observed must be seen, so it deletes first.
Escalates(tier, new) == tier = "warning" /\ new = "critical"

WatchSalt(w, days) ==
  LET tier == w.memory.salt.tier
      new == NextTier(tier, days)
      base == IF Escalates(tier, new) THEN Delete(w.registry, "salt") ELSE w.registry
      seen == [tier |-> new, days |-> days]
  IN IF new = "none"
       THEN [w EXCEPT !.registry = Delete(@, "salt"), !.memory.salt = NoMemory.salt]
     ELSE IF w.memory.salt = seen THEN w
     ELSE [w EXCEPT !.registry = Create(base, "salt", seen), !.memory.salt = seen]

(***************************************************************************)
(* Leaks                                                                   *)
(***************************************************************************)
\* _household_away: an absence observed, or one declared.
Away(result, flags) == result.vacation = TRUE \/ flags.deferral

LeakKnown(result) == result # None /\ result.leak # None

UrgentLeak(result, flags) ==
  result.leak = TRUE /\ result.tier = "urgent" /\ ~Away(result, flags)

\* async_setup_leak_issues: a leak of a lower tier at home changes nothing.
WatchUrgentLeak(w, result, flags) ==
  IF ~LeakKnown(result) THEN w
  ELSE IF UrgentLeak(result, flags)
    THEN IF w.memory.urgent = result.litres THEN w
         ELSE [w EXCEPT !.registry = Create(@, "urgent", result.litres),
                        !.memory.urgent = result.litres]
  ELSE IF result.leak = FALSE \/ Away(result, flags)
    THEN [w EXCEPT !.registry = Delete(@, "urgent"), !.memory.urgent = None]
  ELSE w

\* Mutant of Rendered: a leak that is shown anew is announced anew.
RenderedAnew(memory, reported) ==
  [reported |-> reported, announced |-> memory.announced /\ memory.reported = reported]

Rendered(memory, reported) == [memory EXCEPT !.reported = reported]

\* async_setup_leak_away_issues: any tier files it; the event is fired once
\* for an onset.
WatchLeakAway(w, result, flags) ==
  IF ~LeakKnown(result) THEN w
  ELSE IF result.leak = FALSE \/ ~Away(result, flags)
    THEN [w EXCEPT !.registry = Delete(@, "away"), !.memory.away = NoMemory.away]
  ELSE LET reported == <<result.litres, IF result.tier = None THEN "info" ELSE result.tier>>
           seen == Rendered(w.memory.away, reported)
       IN [w EXCEPT !.registry = IF reported = w.memory.away.reported THEN @
                                 ELSE Create(@, "away", reported),
                    !.memory.away = [seen EXCEPT !.announced = TRUE],
                    !.told = IF seen.announced THEN @ ELSE @ + 1]

(***************************************************************************)
(* Suggestions                                                             *)
(***************************************************************************)
\* async_setup_vacation_defer_issues: the flags are asked before the verdict.
WatchVacationDefer(w, result, flags) ==
  IF flags.auto \/ flags.deferral
    THEN [w EXCEPT !.registry = Delete(@, "defer"), !.memory.defer = None]
  ELSE IF result = None \/ result.vacation = None THEN w
  ELSE IF result.vacation = FALSE
    THEN [w EXCEPT !.registry = Delete(@, "defer"), !.memory.defer = None]
  ELSE IF w.memory.defer = result.days THEN w
  ELSE [w EXCEPT !.registry = Create(@, "defer", result.days), !.memory.defer = result.days]

\* _hour_distance: around the clock.
HourDistance(a, b) ==
  LET gap == IF a < b THEN b - a ELSE a - b
  IN Min({gap, DayHours - gap})

\* _proposed_quiet_hour: the nearest candidate no weekday uses, the earlier of
\* two; None if there is none.
QuietHours(result) == CandidateHours \ result.busy
ProposedQuietHour(result, hour) ==
  IF QuietHours(result) = {} THEN None
  ELSE CHOOSE best \in QuietHours(result) :
         \A other \in QuietHours(result) :
           \/ HourDistance(best, hour) < HourDistance(other, hour)
           \/ HourDistance(best, hour) = HourDistance(other, hour) /\ best =< other

\* Mutant of ClearQuiet: the issue is withdrawn only if this load filed it.
ClearOwnQuiet(w) ==
  IF w.memory.quiet = None THEN w
  ELSE [w EXCEPT !.registry = Delete(@, "quiet"), !.memory.quiet = None]

ClearQuiet(w) == [w EXCEPT !.registry = Delete(@, "quiet"), !.memory.quiet = None]

\* async_setup_regen_time_issues: opt-in; the hour of the document against the
\* grid of the result; a proposal that changed is filed from nothing.
WatchRegenTime(w, result, flags, hour) ==
  IF ~flags.smart THEN ClearQuiet(w)
  ELSE IF result = None \/ hour = None THEN w
  ELSE IF result.busy = None THEN w
  ELSE IF hour \notin result.busy \/ QuietHours(result) = {} THEN ClearQuiet(w)
  ELSE LET proposal == <<hour, ProposedQuietHour(result, hour)>>
       IN IF w.memory.quiet = proposal THEN w
          ELSE [w EXCEPT !.registry = Create(Delete(@, "quiet"), "quiet", proposal),
                         !.memory.quiet = proposal]

(***************************************************************************)
(* Notifications, in the order the watchers subscribed                     *)
(***************************************************************************)
EngineNotifies(w, result, flags, hour) ==
  WatchRegenTime(
    WatchVacationDefer(
      WatchLeakAway(
        WatchUrgentLeak(w, result, flags), result, flags), result, flags), result, flags, hour)

\* The first evaluation of each, at setup: the engine has no result yet.
SetUp(registry, days, flags, hour) ==
  EngineNotifies(WatchSalt([registry |-> registry, memory |-> NoMemory, told |-> 0], days),
                 None, flags, hour)

\* async_remove_salt_issues, async_remove_leak_issues,
\* async_remove_automation_issues
RemoveIssues(registry) ==
  Delete(Delete(Delete(Delete(Delete(registry, "salt"), "urgent"), "away"), "defer"), "quiet")

=============================================================================
