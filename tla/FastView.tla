------------------------------- MODULE FastView -------------------------------
(***************************************************************************)
(* The fast telemetry coordinator of one device (AquaHomeCoordinator in    *)
(* coordinator.py) and the capability debounce that listens to it          *)
(* (dynamic.py).  A poll re-serves the last good view over transient       *)
(* failures; a live push publishes a view of its own and reschedules the   *)
(* poll, which a floor keeps from starving.                                *)
(*                                                                         *)
(* An action is one run of the event loop between two awaits, with the     *)
(* listeners it notifies.  Time passes in ticks; a poll and a requested    *)
(* refresh take less than one.  The base class's rules are external: a     *)
(* success always notifies, a failure only after a success; refreshes      *)
(* never overlap; a refresh and a push replace the scheduled poll, except  *)
(* that an authentication failure schedules none.                          *)
(***************************************************************************)
EXTENDS Integers

CONSTANTS
  Interval,   \* UPDATE_INTERVAL, in ticks
  StaleFor,   \* MAX_STALE_SECONDS, in ticks
  Debounce,   \* CAPABILITY_DEBOUNCE_POLLS (2), or 1 where a view is authoritative
  Unread,     \* possible alert badge counts
  Unknown     \* a badge or a tile the view does not carry

ASSUME PaceAssumption ==
  Interval \in Nat \ {0} /\ StaleFor \in Nat \ {0} /\ Debounce \in 1..2
ASSUME UnreadAssumption == Unread \subseteq Nat /\ Unknown \notin Nat \cup BOOLEAN

VARIABLES
  timer,     \* ticks to the scheduled poll, Off when none is scheduled
  since,     \* ticks since the last attempt and success (_last_attempt,
             \* _last_good) and since a poll really started (history)
  owed,      \* what the loop still owes: a poll's answer, a requested refresh
  view,      \* the enriched part of the published view, and one capability key
  health,    \* last_update_success and _serving_stale
  debounce,  \* the key has its entity; else its sightings in a row (pending)
  streak     \* history: genuine polls in a row that carried the key

fastVars == <<timer, since, owed, view, health, debounce, streak>>

Off == -1

Views ==
  {v \in [badge: Unread \cup {Unknown}, regen: BOOLEAN \cup {Unknown}, key: BOOLEAN]:
     v.badge = Unknown <=> v.regen = Unknown}

\* Clocks are kept up to the largest age anything asks for.
Later(n, limit) == IF n < limit THEN n + 1 ELSE n

FastInit ==
  /\ timer = Interval
  /\ since = [attempt |-> 0, good |-> 0, poll |-> 0]
  /\ owed = [answer |-> FALSE, refresh |-> "no"]
  /\ view \in Views
  /\ health = [ok |-> TRUE, stale |-> FALSE]
  /\ debounce = [known |-> view.key, sighted |-> 0]
  /\ streak = IF view.key THEN 1 ELSE 0

-----------------------------------------------------------------------------
(* The poll.                                                               *)

\* The scheduled poll is due, or a requested refresh runs.  A request that
\* finds a poll under way is dropped by the base class.
StartPoll ==
  /\ ~owed.answer
  /\ timer = 0 \/ owed.refresh # "no"
  /\ timer' = Off
  /\ since' = [since EXCEPT !.attempt = 0, !.poll = 0]
  /\ owed' = [owed EXCEPT !.answer = TRUE, !.refresh = "no"]
  /\ UNCHANGED <<view, health, debounce, streak>>

DropRefresh ==
  /\ owed.answer
  /\ owed.refresh # "no"
  /\ owed' = [owed EXCEPT !.refresh = "no"]
  /\ UNCHANGED <<timer, since, view, health, debounce, streak>>

Answered == owed.answer /\ owed' = [owed EXCEPT !.answer = FALSE]

Enough(n) == n >= Debounce

\* _handle_update of dynamic.py, on an update that carries the key or not.
Sight(key) ==
  debounce' =
    IF debounce.known THEN debounce
    ELSE IF ~key THEN [known |-> FALSE, sighted |-> 0]
    ELSE IF Enough(debounce.sighted + 1) THEN [known |-> TRUE, sighted |-> 0]
    ELSE [debounce EXCEPT !.sighted = @ + 1]

PollSucceeds(v) ==
  /\ Answered
  /\ timer' = Interval
  /\ since' = [since EXCEPT !.good = 0]
  /\ view' = v
  /\ health' = [ok |-> TRUE, stale |-> FALSE]
  /\ Sight(v.key)
  /\ streak' = IF v.key THEN Later(streak, Debounce) ELSE 0

\* A stale re-serve notifies, and the debounce looks away.
Unobserved == UNCHANGED debounce

\* _serve_stale within the grace period.
ServeStale ==
  /\ since.good < StaleFor
  /\ Answered
  /\ timer' = Interval
  /\ health' = [ok |-> TRUE, stale |-> TRUE]
  /\ Unobserved
  /\ UNCHANGED <<since, view, streak>>

\* UpdateFailed or ConfigEntryAuthFailed.  After a success the listeners are
\* notified; the view they find is the old one, and unless it was being
\* re-served already the debounce takes it for an update.
PollFails(how) ==
  /\ how = "transient" => since.good >= StaleFor
  /\ Answered
  /\ timer' = IF how = "auth" THEN Off ELSE Interval
  /\ health' = [health EXCEPT !.ok = FALSE]
  /\ IF health.ok /\ ~health.stale THEN Sight(view.key) ELSE UNCHANGED debounce
  /\ UNCHANGED <<since, view, streak>>

Failures == {"transient", "refused", "auth"}

-----------------------------------------------------------------------------
(* Live pushes, the refresh button, time.                                  *)

\* Mutant of FloorPassed: no floor.
NoFloor == FALSE

\* The floor of async_apply_live_update.
FloorPassed == since.attempt >= Interval

\* _apply_pending and async_apply_live_update, whenever the frames coalesced
\* since the last push are due: the push carries the enriched part verbatim and
\* replaces the scheduled poll, and past the floor claims the slot and asks for
\* a refresh.  It cancels one asked by hand that the base class still holds back.
Push ==
  /\ timer' = Interval
  /\ health' = [health EXCEPT !.ok = TRUE]
  /\ since' = [since EXCEPT !.attempt = IF FloorPassed THEN 0 ELSE @]
  /\ \E kept \in {owed.refresh} \cup {r \in {"no"} : owed.refresh = "hand"}:
       owed' = [owed EXCEPT !.refresh = IF FloorPassed THEN "push" ELSE kept]
  /\ UNCHANGED <<view, debounce, streak>>

\* _async_poll_after_command of the refresh button.
AskByHand ==
  /\ owed.refresh = "no"
  /\ owed' = [owed EXCEPT !.refresh = "hand"]
  /\ UNCHANGED <<timer, since, view, health, debounce, streak>>

Tick ==
  /\ ~owed.answer /\ owed.refresh = "no"
  /\ timer # 0
  /\ timer' = IF timer = Off THEN Off ELSE timer - 1
  /\ since' = [attempt |-> Later(since.attempt, Interval),
               good |-> Later(since.good, StaleFor),
               poll |-> Later(since.poll, 2 * Interval)]
  /\ UNCHANGED <<owed, view, health, debounce, streak>>

\* Every step but a genuine poll, whose answer DeviceFeeds takes from the cloud.
FastStep ==
  \/ StartPoll \/ DropRefresh \/ ServeStale \/ Push \/ AskByHand
  \/ Tick
  \/ \E how \in Failures: PollFails(how)

-----------------------------------------------------------------------------
FastTypeOK ==
  /\ timer \in {Off} \cup 0..Interval
  /\ since \in [attempt: 0..Interval, good: 0..StaleFor, poll: 0..2 * Interval]
  /\ owed \in [answer: BOOLEAN, refresh: {"no", "push", "hand"}]
  /\ view \in Views
  /\ health \in [ok: BOOLEAN, stale: BOOLEAN]
  /\ debounce \in [known: BOOLEAN, sighted: 0..Debounce - 1]
  /\ streak \in 0..Debounce

(* A stream never starves the poll: however densely pushes come, a poll is *)
(* on its way or due less than two intervals after the last one started,   *)
(* unless an authentication failure stopped the schedule (the docstring of *)
(* async_apply_live_update).                                               *)
StreamKeepsPolling ==
  timer # Off /\ ~owed.answer /\ owed.refresh = "no" => since.poll < 2 * Interval

(* Pushes never add load: a poll starts a full interval after the one      *)
(* before, failing or not, unless the user asked for it by the button.     *)
PollsKeepTheirPace ==
  [][owed'.answer /\ ~owed.answer =>
       since.poll >= Interval \/ owed.refresh = "hand"]_fastVars

(* An entity appears only when as many genuine polls in a row as the       *)
(* debounce asks for carried its key, never by a re-served view or a push. *)
(* (A failure reported over a fresh view still counts as a sighting.)      *)
SightingsAreGenuine ==
  [][debounce'.known /\ ~debounce.known =>
       streak' >= Debounce \/ (health.ok /\ ~health'.ok)]_fastVars
=============================================================================
