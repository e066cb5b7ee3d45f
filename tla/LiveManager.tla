----------------------------- MODULE LiveManager -----------------------------
(***************************************************************************)
(* The live-mode manager of one device (live.py, live_state.py): every     *)
(* trigger funnels through one grant gate into one background task that    *)
(* owns the websocket, renews it window by window while something holds    *)
(* it, and backs off when it fails.                                        *)
(*                                                                         *)
(* An action is one run of the asyncio loop between two awaits.  Clock     *)
(* readings are kept as the answers the code derives from them ("still in  *)
(* backoff", "inside the minimum gap"), and time passing is an action that *)
(* changes the answer.  What the cloud and the polled device view say at   *)
(* the moment they are read is an input of the action that reads them.     *)
(***************************************************************************)
EXTENDS Integers, FiniteSets

CONSTANTS
  Tasks,          \* background-task identities, reused once a task is done
  Triggers,       \* the sources this instance exercises, a subset of Sources
  MinBudget,      \* LIVE_SESSIONS_PER_DAY_MIN
  MaxBudget,      \* LIVE_SESSIONS_PER_DAY_MAX
  RawBudgets,     \* values the sessions-per-day number may be set to
  GapAnswers,     \* what a new minimum gap may make of "inside the gap"
  NoFlowLimit,    \* LIVE_SMART_NO_FLOW_SUSPEND
  FailureLimit,   \* LIVE_FAILURES_FOR_ISSUE; failures are counted up to it
  IQua2,          \* the client talks to the newer API host
  Readings,       \* possible readings of the cloud: [online, throttled]
  PromptWakeup,   \* no ready callback runs between the end of a cancelled
                  \* session task and the wake-up of the caller awaiting it
  None

Sources == {"manual", "continuous", "smart", "regen", "anomaly", "use"}
Verdicts == {"yes", "no", "unknown"}

ASSUME TriggersAssumption == Triggers \subseteq Sources
ASSUME BudgetAssumption ==
  /\ MinBudget \in Nat \ {0}
  /\ MaxBudget \in Nat
  /\ MinBudget <= MaxBudget
  /\ RawBudgets \subseteq Int
ASSUME LimitAssumption ==
  /\ NoFlowLimit \in Nat \ {0}
  /\ FailureLimit \in Nat \ {0}
ASSUME FlagAssumption == IQua2 \in BOOLEAN /\ PromptWakeup \in BOOLEAN
ASSUME GapAssumption == GapAnswers \subseteq {"recent", "past"}
ASSUME ReadingAssumption == Readings \subseteq [online: BOOLEAN, throttled: BOOLEAN]
ASSUME NoneAssumption == None \notin Tasks /\ None \notin Sources

VARIABLES
  phase,        \* phase[t]: where session task t stands
  src,          \* src[t]: the source t was granted to
  sessionTask,  \* _session_task
  stops,        \* callers of _async_stop_session awaiting a cancelled task
  state,        \* the published LiveState, without its config
  config,       \* the persisted LiveConfig
  timer,        \* which timers are armed (_unsub_* is not None)
  window,       \* _window_saw_frames and _window_saw_flow
  day,          \* the counters _roll_day resets, and whether the day turned
  hour,         \* what the learned grid says of the device-local hour
  seen,         \* _regen_active and _anomaly_active
  issue,        \* the live_mode_failing repair issue is in the registry
  stopping      \* _stopping

taskVars == <<phase, src>>
vars == <<phase, src, sessionTask, stops, state, config, timer, window, day,
          hour, seen, issue, stopping>>

Phases == {"done", "opening", "streaming", "renewing", "ending", "unwinding"}

LiveStates ==
  [status: {"idle", "live", "backoff"}, source: Sources \cup {None},
   liveView: BOOLEAN, sessionsToday: Nat, failures: 0..FailureLimit,
   backoff: {"none", "pending", "passed"}, lastEnd: {"none", "recent", "past"},
   suspended: {"none", "active", "past"}]

LiveConfigs ==
  [smart: BOOLEAN, continuous: BOOLEAN, budget: MinBudget..MaxBudget]

Timers == [viewCap: BOOLEAN, backoff: BOOLEAN, smart: BOOLEAN, window: BOOLEAN]

DayCounters ==
  [turned: BOOLEAN, noFlow: 0..NoFlowLimit, cooling: BOOLEAN, baseline: BOOLEAN]

FreshState ==
  [status |-> "idle", source |-> None, liveView |-> FALSE, sessionsToday |-> 0,
   failures |-> 0, backoff |-> "none", lastEnd |-> "none", suspended |-> "none"]

NoTimers == [viewCap |-> FALSE, backoff |-> FALSE, smart |-> FALSE, window |-> FALSE]

NewWindow == [frames |-> FALSE, flow |-> FALSE]

-----------------------------------------------------------------------------
(* What the manager derives from its state.                                *)

ClampBudget(n) ==
  IF n < MinBudget THEN MinBudget ELSE IF n > MaxBudget THEN MaxBudget ELSE n

\* Mutant of Running: asks whether a session streams, not whether a task owns it.
StreamRunning == sessionTask # None /\ phase[sessionTask] = "streaming"

\* _session_running: the task reference is set and the task is not done.
Running == sessionTask # None /\ phase[sessionTask] # "done"

Cancelled(t) == \E r \in stops : r.task = t

\* A cancelled task has ended and its canceller has not been woken yet.
WakeupDue == \E r \in stops : phase[r.task] = "done"

\* A callback may run now.  Only callbacks already queued in the same pass of
\* the loop can slip in before a due wake-up, never a network answer.
CallbackMayRun == PromptWakeup => ~WakeupDue

\* _hold_wanted: continuous outranks the manual hold; None when neither is on.
HoldWanted(s, c) ==
  IF c.continuous THEN "continuous" ELSE IF s.liveView THEN "manual" ELSE None

SmartBlockWanted(s, c) == c.smart /\ s.suspended # "active" /\ hour = "peak"

\* Mutant of ResumableHold: only the manual hold is retried.
ManualHoldOnly(s, c) == IF s.liveView THEN "manual" ELSE None

\* The hold _resume_hold re-requests.
ResumableHold(s, c) ==
  IF HoldWanted(s, c) # None THEN HoldWanted(s, c)
  ELSE IF SmartBlockWanted(s, c) THEN "smart" ELSE None

\* _roll_day, on the published state and on the daily counters.
RollState(s) ==
  IF day.turned THEN [s EXCEPT !.sessionsToday = 0, !.suspended = "none"] ELSE s

RollDay ==
  IF day.turned
  THEN [turned |-> FALSE, noFlow |-> 0, cooling |-> FALSE, baseline |-> FALSE]
  ELSE day

BudgetLeft(s) == s.sessionsToday < config.budget

\* _can_grant; s and d are the state and the counters after _roll_day.
CanGrant(source, s, d, reading) ==
  /\ ~Running
  /\ s.backoff # "pending"
  /\ ~reading.throttled
  /\ reading.online
  /\ BudgetLeft(s)
  /\ s.lastEnd # "recent"
  /\ source = "use" => ~d.cooling
  /\ source = "smart" => s.suspended # "active" /\ hour # "night"

\* The task hand-off of a granted request.
StartSession(source) ==
  \E t \in {u \in Tasks : phase[u] = "done" /\ ~Cancelled(u)} :
    /\ phase' = [phase EXCEPT ![t] = "opening"]
    /\ src' = [src EXCEPT ![t] = source]
    /\ sessionTask' = t

NoGrant == UNCHANGED <<phase, src, sessionTask>>

\* _request: roll the day, then grant or refuse.  s is the state the caller has
\* just published.
Request(source, s, reading) ==
  /\ state' = RollState(s)
  /\ day' = RollDay
  /\ IF CanGrant(source, RollState(s), RollDay, reading)
     THEN StartSession(source)
     ELSE NoGrant

\* _finish_session, on the published state and on the timers.
FinishState(s) ==
  IF s.status # "live" THEN s
  ELSE [s EXCEPT !.status = "idle", !.source = None, !.lastEnd = "recent",
                 !.liveView = FALSE]

FinishTimers(s, armed) ==
  IF s.status # "live" THEN armed ELSE [armed EXCEPT !.viewCap = FALSE]

-----------------------------------------------------------------------------
(* _async_stop_session: cancel the task and await it, or settle at once    *)
(* when no task runs.  s and armed are what the caller has just published. *)

Stop(s, armed, publishIdle) ==
  \/ /\ Running
     /\ stops' = stops \cup {[task |-> sessionTask, idle |-> publishIdle]}
     /\ state' = s
     /\ timer' = armed
     /\ UNCHANGED sessionTask
  \/ /\ ~Running
     /\ sessionTask' = None
     /\ state' = IF publishIdle THEN FinishState(s) ELSE s
     /\ timer' = [IF publishIdle THEN FinishTimers(s, armed) ELSE armed
                    EXCEPT !.window = FALSE]
     /\ UNCHANGED stops

Keep(s, armed) ==
  /\ state' = s
  /\ timer' = armed
  /\ UNCHANGED <<stops, sessionTask>>

\* Mutant of ReleaseHold: forgets that a peak block holds the socket too.
ReleaseHoldMidBlock(s, c, armed) ==
  IF HoldWanted(s, c) = None /\ sessionTask # None THEN Stop(s, armed, TRUE)
                                                  ELSE Keep(s, armed)

\* _async_release_hold.
ReleaseHold(s, c, armed) ==
  IF HoldWanted(s, c) = None /\ ~SmartBlockWanted(s, c) /\ sessionTask # None
  THEN Stop(s, armed, TRUE)
  ELSE Keep(s, armed)

\* _async_release_smart_hold.
ReleaseSmartHold(s, c, armed) ==
  IF s.source = "smart" /\ HoldWanted(s, c) = None /\ sessionTask # None
  THEN Stop(s, armed, TRUE)
  ELSE Keep(s, armed)

\* The body of async_set_live_view(False), shared with the hold cap.
EndLiveView ==
  /\ ReleaseHold([state EXCEPT !.liveView = FALSE], config,
                 [timer EXCEPT !.viewCap = FALSE])
  /\ UNCHANGED <<taskVars, config, window, day, hour, seen, issue, stopping>>

-----------------------------------------------------------------------------
(* The user's switches and numbers.                                        *)

UserMayAct == ~stopping /\ CallbackMayRun

LiveViewOn(reading) ==
  /\ UserMayAct /\ "manual" \in Triggers
  /\ ~state.liveView
  /\ timer' = [timer EXCEPT !.viewCap = TRUE]
  /\ Request("manual", [state EXCEPT !.liveView = TRUE], reading)
  /\ UNCHANGED <<stops, config, window, hour, seen, issue, stopping>>

LiveViewOff ==
  /\ UserMayAct
  /\ state.liveView
  /\ EndLiveView

ContinuousOn(reading) ==
  /\ UserMayAct /\ "continuous" \in Triggers
  /\ ~config.continuous
  /\ config' = [config EXCEPT !.continuous = TRUE]
  /\ Request("continuous", state, reading)
  /\ UNCHANGED <<stops, timer, window, hour, seen, issue, stopping>>

ContinuousOff ==
  /\ UserMayAct
  /\ config.continuous
  /\ config' = [config EXCEPT !.continuous = FALSE]
  /\ ReleaseHold(state, [config EXCEPT !.continuous = FALSE], timer)
  /\ UNCHANGED <<taskVars, window, day, hour, seen, issue, stopping>>

\* A usable grid always has a next peak hour; hour = "peak" implies a usable one.
NextPeakKnown == IF hour = "peak" THEN {TRUE} ELSE BOOLEAN

SmartWindowsOn ==
  /\ UserMayAct /\ "smart" \in Triggers
  /\ ~config.smart
  /\ config' = [config EXCEPT !.smart = TRUE]
  /\ \E known \in NextPeakKnown : timer' = [timer EXCEPT !.smart = known]
  /\ UNCHANGED <<taskVars, sessionTask, stops, state, window, day, hour, seen,
                 issue, stopping>>

SmartWindowsOff ==
  /\ UserMayAct
  /\ config.smart
  /\ config' = [config EXCEPT !.smart = FALSE]
  /\ ReleaseSmartHold(state, [config EXCEPT !.smart = FALSE],
                      [timer EXCEPT !.smart = FALSE])
  /\ UNCHANGED <<taskVars, window, day, hour, seen, issue, stopping>>

SetSessionsPerDay(n) ==
  /\ UserMayAct
  /\ ClampBudget(n) # config.budget
  /\ config' = [config EXCEPT !.budget = ClampBudget(n)]
  /\ UNCHANGED <<taskVars, sessionTask, stops, state, timer, window, day, hour,
                 seen, issue, stopping>>

\* async_set_min_gap: only what it does to the answer "inside the gap" matters.
SetMinGap ==
  /\ UserMayAct
  /\ state.lastEnd # "none"
  /\ \E gap \in GapAnswers : state' = [state EXCEPT !.lastEnd = gap]
  /\ UNCHANGED <<taskVars, sessionTask, stops, config, timer, window, day, hour,
                 seen, issue, stopping>>

-----------------------------------------------------------------------------
(* The passes a fresh poll and a fresh analytics verdict start.            *)

\* The order _async_evaluate_fast asks in: the first grant makes the gate
\* refuse the requests after it.
AskedBefore(a, b) ==
  \/ a = "regen" /\ b # "regen"
  \/ a = "use" /\ b \notin {"regen", "use"}

\* regen is the polled recharge state.  usage is what the today-counter says
\* against the baseline: "none" (a stale re-serve, or no counter), "quiet" (below
\* the delta, or backwards), "jump" (the delta or more, if there is a baseline).
EvaluateFast(regen, usage, reading) ==
  LET s == RollState(state)
      jumps == usage = "jump" /\ RollDay.baseline
      asked == {source \in Sources :
                  \/ source = "regen" /\ regen = "yes" /\ seen.regen = "no"
                  \/ source = "use" /\ jumps
                  \/ source = ResumableHold(s, config)}
      granted == {source \in asked : CanGrant(source, s, RollDay, reading)}
  IN /\ ~stopping /\ CallbackMayRun
     /\ seen' = [seen EXCEPT !.regen = regen]
     /\ state' = s
     /\ day' = IF usage = "none" THEN RollDay ELSE [RollDay EXCEPT !.baseline = TRUE]
     /\ \/ granted = {} /\ NoGrant
        \/ \E source \in granted :
             /\ \A other \in granted : ~AskedBefore(other, source)
             /\ StartSession(source)
     /\ UNCHANGED <<stops, config, timer, window, hour, issue, stopping>>

EvaluateEngine(anomaly, reading) ==
  /\ ~stopping /\ CallbackMayRun
  /\ seen' = [seen EXCEPT !.anomaly = anomaly]
  /\ IF anomaly = "yes" /\ seen.anomaly # "yes"
     THEN Request("anomaly", state, reading)
     ELSE state' = RollState(state) /\ day' = RollDay /\ NoGrant
  /\ \E known \in NextPeakKnown :
       timer' = [timer EXCEPT !.smart = config.smart /\ known]
  /\ UNCHANGED <<stops, config, window, hour, issue, stopping>>

\* A trigger reading the instance exercises.
RegenReadings == IF "regen" \in Triggers THEN Verdicts ELSE {"unknown"}
AnomalyReadings == IF "anomaly" \in Triggers THEN Verdicts ELSE {"unknown"}
UsageReadings == IF "use" \in Triggers THEN {"none", "quiet", "jump"} ELSE {"none"}

-----------------------------------------------------------------------------
(* Timers.                                                                 *)

SmartTimerFires(reading) ==
  /\ timer.smart /\ CallbackMayRun
  /\ Request("smart", state, reading)
  /\ \E known \in NextPeakKnown :
       timer' = [timer EXCEPT !.smart = config.smart /\ known]
  /\ UNCHANGED <<stops, config, window, hour, seen, issue, stopping>>

ViewCapFires ==
  /\ timer.viewCap /\ CallbackMayRun
  /\ IF state.liveView
     THEN EndLiveView
     ELSE /\ timer' = [timer EXCEPT !.viewCap = FALSE]
          /\ UNCHANGED <<taskVars, sessionTask, stops, state, config, window, day,
                         hour, seen, issue, stopping>>

\* _handle_backoff_expiry with _resume_hold; the timer outlasts backoff_until.
BackoffTimerFires(reading) ==
  LET s == [state EXCEPT !.status = "idle", !.backoff = "none"]
      hold == ResumableHold(s, config)
  IN /\ timer.backoff /\ CallbackMayRun
     /\ state.backoff # "pending"
     /\ timer' = [timer EXCEPT !.backoff = FALSE]
     /\ IF state.status # "backoff" THEN UNCHANGED <<state, day>> /\ NoGrant
        ELSE IF hold # None /\ ~Running THEN Request(hold, s, reading)
        ELSE state' = s /\ UNCHANGED day /\ NoGrant
     /\ UNCHANGED <<stops, config, window, hour, seen, issue, stopping>>

\* _handle_window_timer: the socket is closed under the frame loop, which then
\* ends with the reason "timer".
WindowTimerFires ==
  /\ timer.window /\ CallbackMayRun
  /\ timer' = [timer EXCEPT !.window = FALSE]
  /\ UNCHANGED <<taskVars, sessionTask, stops, state, config, window, day, hour,
                 seen, issue, stopping>>

-----------------------------------------------------------------------------
(* The session task.  A cancelled task only unwinds; a network answer is   *)
(* never delivered before a due wake-up.                                   *)

MayProgress(t, p) == phase[t] = p /\ ~Cancelled(t) /\ ~WakeupDue

TaskDone(t) ==
  /\ phase' = [phase EXCEPT ![t] = "done"]
  /\ src' = [src EXCEPT ![t] = None]

MoveTo(t, p) ==
  /\ phase' = [phase EXCEPT ![t] = p]
  /\ UNCHANGED src

\* Mutant of PublishLive: the handshake clears the failure run.
PublishLiveForgives(s, source) ==
  [s EXCEPT !.status = "live", !.source = source, !.backoff = "none",
            !.failures = 0, !.sessionsToday = @ + 1]

PublishLive(s, source) ==
  [s EXCEPT !.status = "live", !.source = source, !.backoff = "none",
            !.sessionsToday = @ + 1]

\* _publish_live, then the first lines of _async_stream.
OpenSucceeds(t) ==
  /\ MayProgress(t, "opening")
  /\ MoveTo(t, "streaming")
  /\ state' = PublishLive(state, src[t])
  /\ day' = [day EXCEPT !.cooling = (src[t] = "use") \/ @]
  /\ window' = NewWindow
  /\ timer' = [timer EXCEPT !.window = TRUE]
  /\ UNCHANGED <<sessionTask, stops, config, hour, seen, issue, stopping>>

\* _handle_failure; the caller says where the task goes to close its socket.
HandleFailure(reading) ==
  LET failures == IF state.failures < FailureLimit THEN state.failures + 1
                                                   ELSE FailureLimit
  IN /\ state' = [state EXCEPT !.status = "backoff", !.source = None,
                               !.failures = failures, !.backoff = "pending"]
     /\ timer' = [timer EXCEPT !.backoff = TRUE, !.window = FALSE]
     /\ issue' = (issue \/ (failures >= FailureLimit /\ reading.online))
     /\ UNCHANGED <<sessionTask, stops, config, window, day, hour, seen, stopping>>

\* The ticket, the handshake or the one retry of either failed: no socket is
\* left to close, so the task ends in the same step.
OpenFails(t, reading) ==
  /\ MayProgress(t, "opening") \/ MayProgress(t, "renewing")
  /\ TaskDone(t)
  /\ HandleFailure(reading)

\* _note_stream_alive.
NoteStreamAlive ==
  IF state.failures = 0 THEN UNCHANGED <<state, timer, issue>>
  ELSE /\ state' = [state EXCEPT !.failures = 0, !.backoff = "none"]
       /\ timer' = [timer EXCEPT !.backoff = FALSE]
       /\ issue' = FALSE

\* One streamed frame; moved says whether it moves a water counter.
Frame(t, moved) ==
  /\ MayProgress(t, "streaming")
  /\ window' = [frames |-> TRUE, flow |-> window.flow \/ moved]
  /\ IF window.frames THEN UNCHANGED <<state, timer, issue>> ELSE NoteStreamAlive
  /\ UNCHANGED <<taskVars, sessionTask, stops, config, day, hour, seen, stopping>>

\* A window that delivered nothing is a failure.
FramelessEnd(t, reading) ==
  /\ MayProgress(t, "streaming")
  /\ ~window.frames
  /\ MoveTo(t, "unwinding")
  /\ HandleFailure(reading)

\* Mutant of TierPays: a burst the block keeps open is not counted.
OnlySmartPays == HoldWanted(state, config) = None /\ state.source = "smart"

\* _account_window: whether the tier pays for the window, and what it counts to.
TierPays ==
  /\ HoldWanted(state, config) = None
  /\ state.source = "smart" \/ SmartBlockWanted(state, config)

QuietCount ==
  IF ~TierPays THEN day.noFlow
  ELSE IF window.flow THEN 0
  ELSE IF day.noFlow < NoFlowLimit THEN day.noFlow + 1 ELSE NoFlowLimit

BrakeBites == TierPays /\ ~window.flow /\ QuietCount = NoFlowLimit

\* The device said the window is over, the window timer closed the socket, or
\* the server ended the stream.
EndReasons ==
  {"app_inactive"} \cup {IF timer.window THEN "stream_end" ELSE "timer"}

\* Mutant of WantsRenewal: the legacy host's closing window reads as a reconnect.
RenewsOnEveryHost(s, reason) ==
  \/ HoldWanted(s, config) # None
  \/ SmartBlockWanted(s, config)
  \/ reason = "app_inactive" /\ s.source # "smart"

\* _wants_renewal, on the state _account_window left.
WantsRenewal(s, reason) ==
  \/ HoldWanted(s, config) # None
  \/ SmartBlockWanted(s, config)
  \/ IQua2 /\ reason = "app_inactive" /\ s.source # "smart"

\* _renewal_blocked.
RenewalBlocked(s, reading) ==
  s.backoff = "pending" \/ reading.throttled \/ ~reading.online

\* A window with frames ends: account for it, then renew or start the clean end.
WindowEnds(t, reason, reading) ==
  LET s == IF BrakeBites THEN [state EXCEPT !.suspended = "active"] ELSE state
  IN /\ MayProgress(t, "streaming")
     /\ window.frames
     /\ day' = [day EXCEPT !.noFlow = QuietCount]
     /\ state' = s
     /\ timer' = [timer EXCEPT !.window = FALSE]
     /\ IF WantsRenewal(s, reason) /\ ~RenewalBlocked(s, reading)
        THEN MoveTo(t, "renewing")
        ELSE MoveTo(t, "ending")
     /\ UNCHANGED <<sessionTask, stops, config, window, hour, seen, issue, stopping>>

\* Mutant of RenewalOpens: a renewal spends a grant.
RenewalSpendsGrant(t) ==
  /\ MayProgress(t, "renewing")
  /\ MoveTo(t, "streaming")
  /\ state' = [state EXCEPT !.sessionsToday = @ + 1]
  /\ window' = NewWindow
  /\ timer' = [timer EXCEPT !.window = TRUE]
  /\ UNCHANGED <<sessionTask, stops, config, day, hour, seen, issue, stopping>>

\* Close, pace, fresh ticket, reconnect.
RenewalOpens(t) ==
  /\ MayProgress(t, "renewing")
  /\ MoveTo(t, "streaming")
  /\ window' = NewWindow
  /\ timer' = [timer EXCEPT !.window = TRUE]
  /\ UNCHANGED <<sessionTask, stops, state, config, day, hour, seen, issue, stopping>>

\* The socket of a cleanly ending session is closed: _finish_session.
SessionEnds(t) ==
  /\ MayProgress(t, "ending")
  /\ TaskDone(t)
  /\ state' = FinishState(state)
  /\ timer' = FinishTimers(state, [timer EXCEPT !.window = FALSE])
  /\ UNCHANGED <<sessionTask, stops, config, window, day, hour, seen, issue, stopping>>

\* CancelledError reaches the task: an established socket is closed in the
\* finally block, anything else ends it at once.
TaskCancelled(t) ==
  /\ Cancelled(t)
  /\ phase[t] \in {"opening", "streaming", "renewing", "ending"}
  /\ IF phase[t] = "streaming" THEN MoveTo(t, "unwinding") ELSE TaskDone(t)
  /\ timer' = [timer EXCEPT !.window = FALSE]
  /\ UNCHANGED <<sessionTask, stops, state, config, window, day, hour, seen, issue,
                 stopping>>

TaskUnwound(t) ==
  /\ phase[t] = "unwinding"
  /\ TaskDone(t)
  /\ UNCHANGED <<sessionTask, stops, state, config, timer, window, day, hour, seen,
                 issue, stopping>>

\* The rest of _async_stop_session once the awaited task is done.
StopResumes(r) ==
  /\ phase[r.task] = "done"
  /\ stops' = stops \ {r}
  /\ sessionTask' = None
  /\ state' = IF r.idle THEN FinishState(state) ELSE state
  /\ timer' = [IF r.idle THEN FinishTimers(state, timer) ELSE timer
                 EXCEPT !.window = FALSE]
  /\ UNCHANGED <<taskVars, config, window, day, hour, seen, issue, stopping>>

-----------------------------------------------------------------------------
(* Shutdown, and the setup that may follow it.                             *)

\* Mutant of Shutdown: the session is stopped, the timers are left armed.
ShutdownKeepsTimers ==
  /\ UserMayAct
  /\ stopping' = TRUE
  /\ Stop(state, timer, FALSE)
  /\ UNCHANGED <<taskVars, config, window, day, hour, seen, issue>>

Shutdown ==
  /\ UserMayAct
  /\ stopping' = TRUE
  /\ Stop(state, NoTimers, FALSE)
  /\ UNCHANGED <<taskVars, config, window, day, hour, seen, issue>>

\* __init__ and async_start of the next manager: only the config (through the
\* entry options) and the issue registry outlive the old one.
Setup ==
  /\ stopping /\ stops = {}
  /\ stopping' = FALSE
  /\ phase' = [t \in Tasks |-> "done"]
  /\ src' = [t \in Tasks |-> None]
  /\ sessionTask' = None
  /\ state' = FreshState
  /\ timer' = NoTimers
  /\ window' = NewWindow
  /\ day' = [turned |-> FALSE, noFlow |-> 0, cooling |-> FALSE,
             baseline |-> "use" \in Triggers]
  /\ \E regen \in RegenReadings, anomaly \in AnomalyReadings :
       seen' = [regen |-> regen, anomaly |-> anomaly]
  /\ UNCHANGED <<stops, config, hour, issue>>

-----------------------------------------------------------------------------
(* Time.                                                                   *)

Pass(change) ==
  /\ change
  /\ UNCHANGED <<taskVars, sessionTask, stops, config, timer, window, seen, issue,
                 stopping>>

GapElapses ==
  Pass(/\ state.lastEnd = "recent"
       /\ state' = [state EXCEPT !.lastEnd = "past"]
       /\ UNCHANGED <<day, hour>>)

BackoffElapses ==
  Pass(/\ state.backoff = "pending"
       /\ state' = [state EXCEPT !.backoff = "passed"]
       /\ UNCHANGED <<day, hour>>)

CooldownElapses ==
  Pass(/\ day.cooling
       /\ day' = [day EXCEPT !.cooling = FALSE]
       /\ UNCHANGED <<state, hour>>)

DayTurns ==
  Pass(/\ ~day.turned
       /\ day' = [day EXCEPT !.turned = TRUE]
       /\ UNCHANGED <<state, hour>>)

\* _block_end walks the contiguous peak hours: the brake holds into the next
\* hour exactly when that hour is a peak outside the night.
HourTurns(next) ==
  Pass(/\ "smart" \in Triggers
       /\ hour' = next
       /\ state' = IF state.suspended = "active" /\ next # "peak"
                   THEN [state EXCEPT !.suspended = "past"] ELSE state
       /\ UNCHANGED day)

Hours == {"quiet", "peak", "night"}

-----------------------------------------------------------------------------
Init ==
  /\ phase = [t \in Tasks |-> "done"]
  /\ src = [t \in Tasks |-> None]
  /\ sessionTask = None
  /\ stops = {}
  /\ state = FreshState
  /\ config \in {c \in LiveConfigs :
                   /\ c.smart => "smart" \in Triggers
                   /\ c.continuous => "continuous" \in Triggers
                   /\ c.budget = MaxBudget}
  /\ timer = NoTimers
  /\ window = NewWindow
  /\ day = [turned |-> FALSE, noFlow |-> 0, cooling |-> FALSE,
            baseline |-> "use" \in Triggers]
  /\ hour \in IF "smart" \in Triggers THEN Hours ELSE {"quiet"}
  /\ \E regen \in RegenReadings, anomaly \in AnomalyReadings :
       seen = [regen |-> regen, anomaly |-> anomaly]
  /\ issue = FALSE
  /\ stopping = FALSE

UserStep ==
  \/ \E reading \in Readings : LiveViewOn(reading) \/ ContinuousOn(reading)
  \/ LiveViewOff \/ ContinuousOff \/ SmartWindowsOn \/ SmartWindowsOff \/ SetMinGap
  \/ \E n \in RawBudgets : SetSessionsPerDay(n)

PassStep ==
  \E reading \in Readings :
    \/ \E regen \in RegenReadings, usage \in UsageReadings :
         EvaluateFast(regen, usage, reading)
    \/ \E anomaly \in AnomalyReadings : EvaluateEngine(anomaly, reading)

TimerStep ==
  \/ \E reading \in Readings : SmartTimerFires(reading) \/ BackoffTimerFires(reading)
  \/ ViewCapFires \/ WindowTimerFires

TaskStep(t) ==
  \/ OpenSucceeds(t) \/ RenewalOpens(t) \/ SessionEnds(t)
  \/ TaskCancelled(t) \/ TaskUnwound(t)
  \/ \E moved \in BOOLEAN : Frame(t, moved)
  \/ \E reading \in Readings : OpenFails(t, reading) \/ FramelessEnd(t, reading)
  \/ \E reason \in EndReasons, reading \in Readings : WindowEnds(t, reason, reading)

TimeStep ==
  \/ GapElapses \/ BackoffElapses \/ CooldownElapses \/ DayTurns
  \/ \E next \in Hours : HourTurns(next)

Next ==
  \/ UserStep \/ PassStep \/ TimerStep \/ TimeStep
  \/ \E t \in Tasks : TaskStep(t)
  \/ \E r \in stops : StopResumes(r)
  \/ Shutdown \/ Setup

Spec == Init /\ [][Next]_vars

-----------------------------------------------------------------------------
(* Properties.                                                             *)

\* Every variable stays in its type; the persisted budget stays in the range the
\* clamp promises whatever value the number entity is given.
TypeOK ==
  /\ phase \in [Tasks -> Phases]
  /\ src \in [Tasks -> Sources \cup {None}]
  /\ sessionTask \in Tasks \cup {None}
  /\ stops \subseteq [task : Tasks, idle : BOOLEAN]
  /\ state \in LiveStates
  /\ config \in LiveConfigs
  /\ timer \in Timers
  /\ window \in [frames : BOOLEAN, flow : BOOLEAN]
  /\ day \in DayCounters
  /\ hour \in Hours
  /\ seen \in [regen : Verdicts, anomaly : Verdicts]
  /\ issue \in BOOLEAN
  /\ stopping \in BOOLEAN

\* Exactly one session: a task that is not done is the one _session_task names,
\* so no combination of triggers, releases and failures opens two sockets
\* (the class docstring of AquaHomeLiveManager).
SingleSession == \A t \in Tasks : phase[t] # "done" => t = sessionTask

\* The entities never show a session that is not running, and never hide one:
\* status and source describe exactly the task that holds or renews the socket,
\* except between a cancellation and its caller's wake-up.
LiveIsRunning ==
  /\ \A t \in Tasks : phase[t] \in {"streaming", "renewing", "ending"} =>
       state.status = "live" /\ state.source = src[t]
  /\ state.status = "live" =>
       \/ stopping \/ stops # {}
       \/ \E t \in Tasks : phase[t] \in {"streaming", "renewing", "ending"}
  /\ state.source # None <=> state.status = "live"

\* backoff_until is set exactly while the status is backoff (LiveState), and the
\* timer that ends the backoff is armed: no interleaving of failures, late expiries
\* and releases leaves the manager refusing every trigger for ever.
BackoffExpires ==
  /\ state.status = "backoff" <=> state.backoff # "none"
  /\ state.status = "backoff" /\ ~stopping => timer.backoff

\* A Live view that is on has its auto-off cap armed, across failures, renewals
\* and a hold that outlives its session, so a forgotten switch ends.
LiveViewIsCapped == state.liveView /\ ~stopping => timer.viewCap

\* Grants in flight are spent as well: the count and the sessions still opening
\* never exceed the largest budget the day can have had.
BudgetKept ==
  state.sessionsToday + Cardinality({t \in Tasks : phase[t] = "opening"}) <= MaxBudget

\* A session is cancelled on the user's behalf only when nothing wants it any more:
\* the block is never torn down by one path while another still wants it
\* (_smart_block_wanted).
WantedSessionsAreKept ==
  [][\A r \in stops' \ stops :
       r.idle => /\ HoldWanted(state', config') = None
                 /\ ~SmartBlockWanted(state', config')]_vars

\* Once async_shutdown has started no timer is armed, and once it is over no task
\* runs, whatever pass, failure or toggle was under way.
StoppedIsQuiet ==
  stopping =>
    /\ timer = NoTimers
    /\ stops = {} => sessionTask = None /\ \A t \in Tasks : phase[t] = "done"

\* A failure run ends only on a streamed frame: a handshake alone, a clean end or a
\* release never restarts the backoff at its floor (_publish_live, _note_stream_alive).
FailuresEndOnFrames ==
  [][state'.failures < state.failures => window'.frames \/ stopping]_<<state, window>>

\* With the no-flow count at its limit the tier does not hold the socket for another
\* window: only the user's hold, or the newer host's reconnect, renews a quiet block.
BrakeEndsQuietBlock ==
  [][\A t \in Tasks :
       /\ phase[t] = "streaming" /\ phase'[t] = "renewing"
       /\ ~window.flow
       /\ HoldWanted(state, config) = None
       /\ IQua2 => state.source = "smart"
       => /\ day'.noFlow = day.noFlow + 1
          /\ day'.noFlow < NoFlowLimit]_vars

\* The manager is one lease on the device's live endpoint (SessionLease).
LeaseOwner == IF Running THEN sessionTask ELSE None
LeasePaid == Running /\ phase[sessionTask] # "opening"
Lease == INSTANCE SessionLease WITH
           Sessions <- Tasks, NoSession <- None, Allowance <- MaxBudget,
           owner <- LeaseOwner, paid <- LeasePaid, spent <- state.sessionsToday
LeaseSpec == Lease!Spec

-----------------------------------------------------------------------------
(* Liveness.                                                               *)

\* asyncio runs every ready callback and every due timer, awaited closes and
\* opens are bounded by timeouts, the coordinator keeps polling, time passes.
LoopIsFair ==
  /\ \A t \in Tasks :
       /\ WF_vars(TaskCancelled(t)) /\ WF_vars(TaskUnwound(t))
       /\ WF_vars(SessionEnds(t))
       /\ WF_vars(\/ OpenSucceeds(t) \/ RenewalOpens(t)
                  \/ \E reading \in Readings : OpenFails(t, reading))
       /\ WF_vars(/\ ~timer.window
                  /\ \E reading \in Readings :
                       \/ FramelessEnd(t, reading)
                       \/ WindowEnds(t, "timer", reading))
  /\ WF_vars(\E r \in stops : StopResumes(r))
  /\ WF_vars(\E reading \in Readings : BackoffTimerFires(reading))
  /\ WF_vars(ViewCapFires) /\ WF_vars(WindowTimerFires)
  /\ WF_vars(BackoffElapses) /\ WF_vars(GapElapses)
  /\ WF_vars(\E reading \in Readings, regen \in RegenReadings, usage \in UsageReadings :
               EvaluateFast(regen, usage, reading))

\* A cloud that keeps being asked for a session opens one in the end.
CloudAnswers == \A t \in Tasks : SF_vars(OpenSucceeds(t))

FairSpec == Spec /\ LoopIsFair /\ CloudAnswers

\* Continuous mode that stays on keeps coming back live while days go by, through
\* failures, backoff, a spent budget and the minimum gap.
ContinuousComesBack ==
  <>[](config.continuous /\ ~stopping) /\ []<>day.turned
    => []<>(state.status = "live")

\* A released or unloading session is torn down.
StopSettles == stops # {} ~> stops = {}

\* With no hold on the socket every session ends, whoever opened it.
UnheldSessionsEnd ==
  <>[](HoldWanted(state, config) = None /\ ~SmartBlockWanted(state, config))
    => []<>(state.status # "live" \/ stopping)

\* A quiet house cannot keep a session open for the rest of the day: the brake ends
\* the block, whichever source opened the session.
QuietSessionsEnd ==
  <>[](HoldWanted(state, config) = None /\ ~window.flow /\ ~day.turned)
    => []<>(state.status # "live" \/ stopping)

=============================================================================
