---------------------------- MODULE RepairIssues ----------------------------
(***************************************************************************)
(* The Repairs issues of one device over the life of its config entry:     *)
(* the watchers of IssueWatchers driven by polls, analytics passes and     *)
(* flags, the settings document with its polls and writes (coordinator.py, *)
(* AquaHomeSettingsCoordinator), and the dialogs that confirm a fix        *)
(* (repairs.py).  Polls, writes and dialogs take time, and everything else *)
(* happens in between: reloads, restarts, the removal of the entry, and    *)
(* the user who ignores an issue.                                          *)
(*                                                                         *)
(* A behaviour draws its inputs from one scenario.  Bounds: one poll, one  *)
(* write and one dialog at a time.                                         *)
(***************************************************************************)
EXTENDS IssueWatchers

CONSTANTS
  Scenarios,  \* [readings, results, flags, hours]: salt countdowns, analytics
              \* results, scheduler flags and regeneration hours
  NoFlags     \* the flags of a new entry

Hours == 0..(DayHours - 1)
LeakTiers == {"info", "warning", "urgent"}

\* What the engine publishes of leaks, absences and the hours of the week.
Results ==
  [leak : BOOLEAN \cup {None}, tier : LeakTiers \cup {None}, litres : Nat,
   vacation : BOOLEAN \cup {None}, days : Nat, busy : (SUBSET Hours) \cup {None}]
Flags == [auto : BOOLEAN, deferral : BOOLEAN, smart : BOOLEAN]

ASSUME ScenarioAssumption ==
  /\ \A s \in Scenarios :
       /\ s.readings \subseteq Nat \cup {None}
       /\ s.results \subseteq Results
       /\ s.flags \subseteq Flags
       /\ s.hours \subseteq Hours
  /\ NoFlags \in Flags

\* What an issue can be about.
About(i) ==
  CASE i = "salt"  -> [tier : {"warning", "critical"}, days : Nat]
    [] i = "away"  -> Nat \X LeakTiers
    [] i = "quiet" -> Hours \X Hours
    [] OTHER       -> Nat
Filings(i) == [active : BOOLEAN, ignored : BOOLEAN, about : About(i)]
Writes == [hour : Hours, fix : BOOLEAN]

ASSUME NoneAssumption ==
  /\ None \notin Nat /\ None \notin Results /\ None \notin Writes
  /\ \A i \in Issues : None \notin About(i) /\ None \notin Filings(i)

VARIABLES
  scenario,
  entry,    \* "loaded", "unloaded" or "removed"
  watch,    \* the registry, the watchers' memory, and the leaks told
  days,     \* the salt countdown of the fast coordinator
  result,   \* the engine's data, None before its first pass
  flags,    \* the scheduler's persisted flags
  device,   \* the hour the device is set to
  doc,      \* the hour in the settings coordinator's document
  poll,     \* the hour a settings poll has read and not published, or None
  write,    \* a setting on its way: [hour, fix], or None
  dialog    \* an open fix flow: [issue, about, sent], or None

documents == <<device, doc, poll, write>>
vars == <<scenario, entry, watch, days, result, flags, device, doc, poll, write, dialog>>

Loaded == entry = "loaded"

(***************************************************************************)
(* What the coordinators publish                                           *)
(***************************************************************************)
\* The leak is over, or somebody is home: what was told is history.
Settled(w, r, f) ==
  IF LeakKnown(r) /\ (r.leak = FALSE \/ ~Away(r, f)) THEN [w EXCEPT !.told = 0] ELSE w

Published(r, f) == Settled(EngineNotifies(watch, r, f, doc), r, f)

SaltPoll ==
  /\ Loaded
  /\ \E d \in scenario.readings :
       /\ days' = d
       /\ watch' = WatchSalt(watch, d)
  /\ UNCHANGED <<scenario, entry, result, flags, documents, dialog>>

\* A pass, or one that failed and notifies over the result it kept.
EnginePass ==
  /\ Loaded
  /\ \E r \in scenario.results \cup {result} :
       /\ result' = r
       /\ watch' = Published(r, flags)
  /\ UNCHANGED <<scenario, entry, days, flags, documents, dialog>>

\* The scheduler records a setter's flags, or those of a pass of its own.
FlagsChange ==
  /\ Loaded
  /\ \E f \in scenario.flags :
       /\ flags' = f
       /\ watch' = Published(result, f)
  /\ UNCHANGED <<scenario, entry, days, result, documents, dialog>>

(***************************************************************************)
(* The settings document                                                   *)
(***************************************************************************)
\* Mutant of SettingsNotify: the proposal is not subscribed to the settings.
SettingsUnheard(w, hour) == w

SettingsNotify(w, hour) == WatchRegenTime(w, result, flags, hour)

PollStarts ==
  /\ Loaded /\ poll = None
  /\ poll' = device
  /\ UNCHANGED <<scenario, entry, watch, days, result, flags, device, doc, write, dialog>>

PollEnds ==
  /\ poll # None
  /\ doc' = poll /\ poll' = None
  /\ watch' = SettingsNotify(watch, poll)
  /\ UNCHANGED <<scenario, entry, days, result, flags, device, write, dialog>>

\* _serve_stale: the document is re-served, or kept unavailable past its grace.
PollFails ==
  /\ poll # None
  /\ poll' = None
  /\ watch' = SettingsNotify(watch, doc)
  /\ UNCHANGED <<scenario, entry, days, result, flags, device, doc, write, dialog>>

UserWrites ==
  /\ Loaded /\ write = None
  /\ \E h \in scenario.hours : write' = [hour |-> h, fix |-> FALSE]
  /\ UNCHANGED <<scenario, entry, watch, days, result, flags, device, doc, poll, dialog>>

\* Mutant of Closed: a dialog that ends leaves its issue.
ClosedLeaving(w, i) == w

\* The flow manager deletes the issue a finished flow was opened for.
Closed(w, i) == [w EXCEPT !.registry = Delete(@, i)]

\* async_write_setting: the document the cloud echoes is published; a flow that
\* waited for it finishes.
WriteAnswers ==
  /\ write # None
  /\ device' = write.hour /\ write' = None
  /\ doc' = IF Loaded THEN write.hour ELSE doc
  /\ LET heard == IF Loaded THEN SettingsNotify(watch, write.hour) ELSE watch
     IN watch' = IF write.fix THEN Closed(heard, "quiet") ELSE heard
  /\ dialog' = IF write.fix THEN None ELSE dialog
  /\ UNCHANGED <<scenario, entry, days, result, flags, poll>>

\* Refused, or answered to nobody: the dialog aborts and the issue stays.
WriteFails ==
  /\ write # None
  /\ device' \in {device, write.hour} /\ write' = None
  /\ dialog' = IF write.fix THEN None ELSE dialog
  /\ UNCHANGED <<scenario, entry, watch, days, result, flags, doc, poll>>

(***************************************************************************)
(* The user                                                                *)
(***************************************************************************)
IgnoreIssue ==
  /\ \E i \in Issues :
       /\ Standing(watch.registry, i)
       /\ watch' = [watch EXCEPT !.registry = Ignore(@, i)]
  /\ UNCHANGED <<scenario, entry, days, result, flags, documents, dialog>>

\* async_create_fix_flow: the dialog holds what its issue was filed with.
OpenDialog ==
  /\ dialog = None
  /\ \E i \in {"defer", "quiet"} :
       /\ Standing(watch.registry, i)
       /\ dialog' = [issue |-> i, about |-> watch.registry[i].about, sent |-> FALSE]
  /\ UNCHANGED <<scenario, entry, watch, days, result, flags, documents>>

Confirming(i) == dialog # None /\ dialog.issue = i /\ ~dialog.sent

\* The user closes it, or confirms one whose entry is not loaded.
LeaveDialog ==
  /\ dialog # None /\ ~dialog.sent
  /\ dialog' = None
  /\ UNCHANGED <<scenario, entry, watch, days, result, flags, documents>>

\* VacationDeferFixFlow: an automatic deferral.
ConfirmDefer ==
  /\ Loaded /\ Confirming("defer")
  /\ flags' = [flags EXCEPT !.deferral = TRUE]
  /\ watch' = Closed(Published(result, flags'), "defer")
  /\ dialog' = None
  /\ UNCHANGED <<scenario, entry, days, result, documents>>

\* RegenTimeFixFlow: the value that was filed, whatever has moved since.
ConfirmQuiet ==
  /\ Loaded /\ Confirming("quiet") /\ write = None
  /\ write' = [hour |-> dialog.about[2], fix |-> TRUE]
  /\ dialog' = [dialog EXCEPT !.sent = TRUE]
  /\ UNCHANGED <<scenario, entry, watch, days, result, flags, device, doc, poll>>

(***************************************************************************)
(* The entry                                                               *)
(***************************************************************************)
\* The closures go with the entry, and what they remember with them.
Forgotten(w) == [w EXCEPT !.memory = NoMemory, !.told = 0]

\* async_unload_entry: the listeners are gone, the issues stay.
Unload ==
  /\ Loaded
  /\ entry' = "unloaded" /\ poll' = None /\ result' = None
  /\ watch' = Forgotten(watch)
  /\ UNCHANGED <<scenario, days, flags, device, doc, write, dialog>>

\* _async_first_settings_refresh: a failure leaves no document.
FirstSettings == {device, None}

\* async_setup_entry: first refreshes, then the watchers; the engine's first pass
\* comes later, in the background.
SetUpEntry ==
  /\ entry = "unloaded"
  /\ entry' = "loaded"
  /\ \E d \in scenario.readings, h \in FirstSettings :
       /\ days' = d /\ doc' = h
       /\ watch' = SetUp(watch.registry, d, flags, h)
  /\ UNCHANGED <<scenario, result, flags, device, poll, write, dialog>>

Restart ==
  /\ entry # "removed"
  /\ entry' = "unloaded" /\ poll' = None /\ write' = None /\ dialog' = None /\ result' = None
  /\ watch' = [Forgotten(watch) EXCEPT !.registry = Restarted(@)]
  /\ device' \in {device} \cup (IF write = None THEN {} ELSE {write.hour})
  /\ UNCHANGED <<scenario, days, flags, doc>>

\* async_remove_entry, after the unload
RemoveEntry ==
  /\ entry = "unloaded"
  /\ entry' = "removed"
  /\ watch' = [watch EXCEPT !.registry = RemoveIssues(@)]
  /\ UNCHANGED <<scenario, days, result, flags, documents, dialog>>

Init ==
  /\ scenario \in Scenarios
  /\ entry = "unloaded" /\ flags = NoFlags /\ result = None
  /\ watch = [registry |-> NoIssues, memory |-> NoMemory, told |-> 0]
  /\ days \in scenario.readings
  /\ device \in scenario.hours /\ doc = None
  /\ poll = None /\ write = None /\ dialog = None

Next ==
  \/ SaltPoll \/ EnginePass \/ FlagsChange
  \/ PollStarts \/ PollEnds \/ PollFails \/ UserWrites \/ WriteAnswers \/ WriteFails
  \/ IgnoreIssue \/ OpenDialog \/ LeaveDialog \/ ConfirmDefer \/ ConfirmQuiet
  \/ Unload \/ SetUpEntry \/ Restart \/ RemoveEntry

Spec == Init /\ [][Next]_vars

(***************************************************************************)
(* Properties                                                              *)
(***************************************************************************)
RegistryTyped(g) ==
  /\ g = [i \in Issues |-> g[i]]
  /\ \A i \in Issues : g[i] \in Filings(i) \cup {None}

Memories ==
  [salt : [tier : {"none", "warning", "critical"}, days : Nat \cup {None}],
   urgent : Nat \cup {None},
   away : [reported : About("away") \cup {None}, announced : BOOLEAN],
   defer : Nat \cup {None},
   quiet : About("quiet") \cup {None}]

WatchTyped(w) ==
  /\ w \in [registry : {w.registry}, memory : Memories, told : Nat]
  /\ RegistryTyped(w.registry)

DialogTyped(d) ==
  /\ d = [issue |-> d.issue, about |-> d.about, sent |-> d.sent]
  /\ d.issue \in {"defer", "quiet"} /\ d.about \in About(d.issue) /\ d.sent \in BOOLEAN

\* Every variable stays in its type, and an entry that is not loaded keeps no poll
\* under way and no result.
TypeOK ==
  /\ scenario \in Scenarios
  /\ entry \in {"loaded", "unloaded", "removed"}
  /\ WatchTyped(watch)
  /\ days \in Nat \cup {None}
  /\ result \in Results \cup {None}
  /\ flags \in Flags
  /\ device \in Hours
  /\ doc \in Hours \cup {None} /\ poll \in Hours \cup {None}
  /\ write \in Writes \cup {None}
  /\ dialog # None => DialogTyped(dialog)
  /\ ~Loaded => poll = None /\ result = None

\* An escalation the integration watches happen reaches the user, although the
\* warning may have been ignored (async_setup_salt_issues).
EscalationReachesTheUser ==
  [][(/\ Loaded /\ Loaded'
      /\ days # None /\ days > CriticalDays + Hysteresis /\ days =< WarningDays
      /\ days' # None /\ days' =< CriticalDays)
     => Standing(watch.registry', "salt") /\ ~Ignored(watch.registry', "salt")]_vars

\* What the user ignored stays ignored until its reason is gone, over reloads
\* and restarts too; only the salt that escalates speaks again.  The quiet
\* hour is left out: see IgnoredAdviceStaysIgnored.
ReasonGone(i) ==
  \/ entry = "removed"
  \/ i = "salt" /\ (days = None \/ days > WarningDays)
  \/ i = "urgent" /\ (result # None /\ (result.leak = FALSE \/ Away(result, flags)))
  \/ i = "away" /\ (result # None /\ (result.leak = FALSE \/ ~Away(result, flags)))
  \/ i = "defer" /\ (flags.auto \/ flags.deferral \/ (result # None /\ result.vacation = FALSE))
IgnoredStaysIgnored ==
  [][\A i \in Issues \ {"quiet"} :
       Ignored(watch.registry, i) /\ ~Ignored(watch.registry', i)
         => \/ ReasonGone(i)'
            \/ i = "salt" /\ Loaded /\ days' < days /\ days' =< CriticalDays]_vars

\* A leak is said once: the urgent issue and the one for an empty house never
\* stand together (async_setup_leak_issues, async_setup_leak_away_issues).
LeakIsSaidOnce == ~(Standing(watch.registry, "urgent") /\ Standing(watch.registry, "away"))

\* While a load knows of water running through an empty house, its issue is
\* filed and the event has been fired for this onset, exactly once.
AwayLeakIsToldOnce ==
  /\ watch.told =< 1
  /\ (Loaded /\ LeakKnown(result) /\ result.leak = TRUE /\ Away(result, flags))
       => watch.told = 1 /\ Standing(watch.registry, "away")

\* A proposal that stands is the one today's grid and the published document
\* make, or one the integration cannot judge now (async_setup_regen_time_issues).
AdviceIsCurrent ==
  (/\ Loaded /\ Standing(watch.registry, "quiet")
   /\ result # None /\ doc # None)
  => \/ result.busy = None
     \/ /\ flags.smart /\ doc \in result.busy
        /\ watch.registry["quiet"].about = <<doc, ProposedQuietHour(result, doc)>>

\* A removed entry leaves no issue behind, whatever dialog or write was still
\* open (async_remove_entry).
RemovedEntryLeavesNothing == entry = "removed" => watch.registry = NoIssues

\* issues.py:543-545: an unchanged proposal is left alone; issues.py:689-691:
\* the registry preserves a user's ignore across reloads and restarts.
IgnoredAdviceStaysIgnored ==
  [][Ignored(watch.registry, "quiet") /\ Filed(watch.registry', "quiet")
     /\ watch.registry'["quiet"].about = watch.registry["quiet"].about
       => Ignored(watch.registry', "quiet")]_vars

\* coordinator.py:468: a write is authoritative, so the document that follows
\* it is not older (async_write_setting).
WriteIsAuthoritative ==
  [][doc = device /\ write = None /\ Loaded /\ doc' # None => doc' = device']_vars

=============================================================================
