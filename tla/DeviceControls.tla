---------------------------- MODULE DeviceControls ----------------------------
(***************************************************************************)
(* A control of the device whose effect shows only on a later poll: the    *)
(* water shutoff valve (valve.py) or the scan for leak detectors           *)
(* (switch.py, AquaHomeLeakScanSwitch).  After a command the entity shows  *)
(* what it was asked for, until the published view confirms it or a timer  *)
(* runs out.  Polls, pushes, commands and timers come in any order, and    *)
(* the entry may be reloaded between any two of them.                      *)
(*                                                                         *)
(* A behaviour is about one kind of control.  Its state is a goal: the     *)
(* valve closed, or the scan on.  FastView has the pace of the polls; here *)
(* a poll reads the cloud's report and publishes it later, and any other   *)
(* update notifies of the same view.  Home Assistant (external) runs one   *)
(* command of a platform at a time and writes no state of a removed entity.*)
(***************************************************************************)
EXTENDS Naturals

CONSTANTS
  Ttl,      \* OPTIMISTIC_STATE_TTL_SECONDS, in ticks
  Unknown,  \* a status that is no position, or a block that is absent
  None

ASSUME ControlAssumption ==
  /\ Ttl \in Nat \ {0}
  /\ Unknown \notin BOOLEAN
  /\ None \notin BOOLEAN \cup Nat

VARIABLES
  kind,     \* "valve" or "scan"
  device,   \* the goal the device is at
  report,   \* what the cloud says: [is, barred], barred the goals its dialog disables
  poll,     \* the report a poll has read and not published, or None
  view,     \* the published report
  added,    \* the entity is there
  command,  \* the command on its way: [goal, late], or None
  motion,   \* the goal shown while a command settles, or None
  timers,   \* the ticks left of each armed timer
  handle,   \* those of the timer the entity would cancel, or None
  age       \* history: ticks since the motion started

world == <<kind, device, report>>
shown == <<motion, timers, handle, age>>
vars == <<world, poll, view, added, command, shown>>

-----------------------------------------------------------------------------
(* The optimistic motion.                                                  *)

\* _closed_from_status, _scanning: every other status is unknown.
ClosedFromStatus(d) == {d, Unknown}

\* The dialog may disable the position the valve is at.
Reports(d) == [is: ClosedFromStatus(d), barred: {{}, {d}}]

\* _raise_if_blocked: only the valve asks the dialog.
Blocked(goal) == kind = "valve" /\ goal \in view.barred

\* The valve waits for its target, the scan for any real state.
ValveConfirms(v, goal) == v.is = goal
ScanConfirms(v) == v.is # Unknown
Confirms(v, goal) == IF kind = "valve" THEN ValveConfirms(v, goal) ELSE ScanConfirms(v)

\* _cancel_optimistic_timer
Remaining == timers \ {handle}

\* Mutant of StartOptimistic: the timer of the command before stays armed.
StartOverArmed(goal) ==
  motion' = goal /\ timers' = timers \cup {Ttl} /\ handle' = Ttl /\ age' = 0

\* _start_optimistic, _set_optimistic
StartOptimistic(goal) ==
  motion' = goal /\ timers' = Remaining \cup {Ttl} /\ handle' = Ttl /\ age' = 0

\* _clear_optimistic
ClearOptimistic ==
  motion' = None /\ timers' = Remaining /\ handle' = None /\ UNCHANGED age

\* Mutant of Expire: the timer goes and what it was to end stays.
ExpireTimerOnly ==
  /\ 0 \in timers
  /\ timers' = timers \ {0} /\ handle' = None
  /\ UNCHANGED <<world, poll, view, added, command, motion, age>>

\* _expire_optimistic, _optimistic_expired
Expire ==
  /\ 0 \in timers
  /\ timers' = timers \ {0} /\ handle' = None /\ motion' = None
  /\ UNCHANGED <<world, poll, view, added, command, age>>

Tick ==
  /\ 0 \notin timers
  /\ timers' = {t - 1 : t \in timers}
  /\ handle' = IF handle = None THEN None ELSE handle - 1
  /\ age' = IF age < Ttl THEN age + 1 ELSE Ttl
  /\ UNCHANGED <<world, poll, view, added, command, motion>>

-----------------------------------------------------------------------------
(* Commands.                                                               *)

\* async_open_valve, async_close_valve, async_turn_on, async_turn_off
Ask ==
  /\ added /\ command = None
  /\ \E goal \in BOOLEAN :
       ~Blocked(goal) /\ command' = [goal |-> goal, late |-> FALSE]
  /\ UNCHANGED <<world, poll, view, added, shown>>

\* The cloud accepted it; the device may still ignore it.
Done(moves) ==
  /\ command' = None
  /\ device' = IF moves THEN command.goal ELSE device
  /\ UNCHANGED <<kind, report, poll, view, added>>

Answered ==
  /\ command # None /\ ~command.late
  /\ \E moves \in BOOLEAN : Done(moves)
  /\ StartOptimistic(command.goal)

\* Refused, or the answer is lost; or answered to an entity that is gone.
Unanswered ==
  /\ command # None
  /\ \E moves \in BOOLEAN : Done(moves)
  /\ UNCHANGED shown

\* Somebody turns the valve, or the scan ends.
DeviceMoves ==
  /\ device' = ~device
  /\ UNCHANGED <<kind, report, poll, view, added, command, shown>>

-----------------------------------------------------------------------------
(* Updates.                                                                *)

\* The cloud catches up with the device, or loses sight of it.
CloudTells ==
  /\ report' \in {r \in Reports(device) : r.is = device} /\ report' # report
  /\ UNCHANGED <<kind, device, poll, view, added, command, shown>>

CloudLosesSight ==
  /\ report' \in {r \in Reports(device) : r.is = Unknown} /\ report' # report
  /\ UNCHANGED <<kind, device, poll, view, added, command, shown>>

\* _handle_coordinator_update of either entity
Publish(v) ==
  /\ view' = v
  /\ IF motion # None /\ Confirms(v, motion) THEN ClearOptimistic ELSE UNCHANGED shown

PollStarts ==
  /\ added /\ poll = None
  /\ poll' = report
  /\ UNCHANGED <<world, view, added, command, shown>>

PollEnds ==
  /\ poll # None
  /\ poll' = None /\ Publish(poll)
  /\ UNCHANGED <<world, added, command>>

\* A poll that failed, re-served or not, notifies of the view there is.
PollFails ==
  /\ poll # None
  /\ poll' = None /\ Publish(view)
  /\ UNCHANGED <<world, added, command>>

\* async_apply_live_update: a push carries the enriched part verbatim.
Push ==
  /\ added
  /\ Publish(view)
  /\ UNCHANGED <<world, poll, added, command>>

\* async_will_remove_from_hass
Remove ==
  /\ added
  /\ added' = FALSE /\ poll' = None
  /\ command' = IF command = None THEN None ELSE [command EXCEPT !.late = TRUE]
  /\ ClearOptimistic
  /\ UNCHANGED <<world, view>>

\* The first refresh, and a new entity.
Setup ==
  /\ ~added
  /\ added' = TRUE /\ view' = report
  /\ UNCHANGED <<world, poll, command, shown>>

-----------------------------------------------------------------------------
Init ==
  /\ kind \in {"valve", "scan"} /\ device \in BOOLEAN
  /\ report \in Reports(device)
  /\ poll = None /\ view = report /\ added = TRUE /\ command = None
  /\ motion = None /\ timers = {} /\ handle = None /\ age = 0

\* What keeps the control from coming to rest.
Disturbed == Ask \/ DeviceMoves \/ CloudLosesSight \/ Remove

Next ==
  \/ Disturbed
  \/ Answered \/ Unanswered \/ CloudTells \/ PollStarts \/ PollEnds \/ PollFails
  \/ Push \/ Setup \/ Expire \/ Tick

Spec == Init /\ [][Next]_vars

\* The clock runs, requests end by their timeouts, the coordinator polls on and on,
\* and a cloud that is asked again and again answers in the end.
ControlsAreFair ==
  /\ WF_vars(Tick) /\ WF_vars(Expire) /\ WF_vars(Setup)
  /\ WF_vars(Answered \/ Unanswered) /\ WF_vars(CloudTells)
  /\ WF_vars(PollStarts) /\ SF_vars(PollEnds)

FairSpec == Spec /\ ControlsAreFair

-----------------------------------------------------------------------------
(* Properties.                                                             *)

Views == [is : BOOLEAN \cup {Unknown}, barred : SUBSET BOOLEAN]

\* Every variable stays in its type.
TypeOK ==
  /\ kind \in {"valve", "scan"}
  /\ device \in BOOLEAN
  /\ report \in Views /\ view \in Views /\ poll \in Views \cup {None}
  /\ added \in BOOLEAN
  /\ command \in [goal : BOOLEAN, late : BOOLEAN] \cup {None}
  /\ motion \in BOOLEAN \cup {None}
  /\ timers \subseteq 0..Ttl
  /\ handle \in 0..Ttl \cup {None}
  /\ age \in 0..Ttl

\* What a command shows ends when it is confirmed, or when its own time is up:
\* never because of a timer an earlier command has armed, however commands,
\* confirmations and reloads follow each other (_start_optimistic, _set_optimistic).
MotionLastsItsTime ==
  [][motion # None /\ motion' = None /\ added'
       => age = Ttl \/ Confirms(view', motion)]_vars

\* Once the control is left alone, the entity comes to show the state the device
\* is in, whether the last command was obeyed, refused, ignored or answered to an
\* entity that was gone (_expire_optimistic, _handle_coordinator_update).
DisplaySettles ==
  (<>[][~Disturbed]_vars) => <>[](motion = None /\ view.is = device)

-----------------------------------------------------------------------------
(* What the documentation says of the program, and the code does not do.   *)

\* switch.py:17: the override decays with its time or as soon as the cloud reports
\* a real state; a push and a failed poll report what was known before.
OverrideOutlivesOldNews ==
  [][kind = "scan" /\ motion # None /\ motion' = None /\ added' /\ 0 \notin timers
       => poll # None /\ poll' = None /\ view' = poll]_vars

=============================================================================
