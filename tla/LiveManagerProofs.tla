-------------------------- MODULE LiveManagerProofs --------------------------
(***************************************************************************)
(* Theorems about LiveManager for any set of tasks, any budget range and   *)
(* any limits: type correctness, the single session and what rests on it   *)
(* (a quiet unload, the entities' view of the session, the lease the       *)
(* manager takes on the cloud), and what no step may do.                   *)
(***************************************************************************)
EXTENDS LiveManager, TLAPS

-----------------------------------------------------------------------------
(* What the helpers return.                                                *)

LEMMA ClampInRange ==
  ASSUME NEW n \in Int
  PROVE  ClampBudget(n) \in MinBudget..MaxBudget
  BY BudgetAssumption DEF ClampBudget

LEMMA RollTyped ==
  ASSUME TypeOK, NEW s \in LiveStates
  PROVE  /\ RollState(s) \in LiveStates
         /\ RollDay \in DayCounters
  <1>1. RollState(s) \in LiveStates
    BY DEF RollState, LiveStates
  <1>2. 0 \in 0..NoFlowLimit
    BY LimitAssumption
  <1>3. RollDay \in DayCounters
    BY <1>2 DEF TypeOK, RollDay, DayCounters
  <1>4. QED
    BY <1>1, <1>3

LEMMA FinishTyped ==
  ASSUME NEW s \in LiveStates, NEW armed \in Timers
  PROVE  /\ FinishState(s) \in LiveStates
         /\ FinishTimers(s, armed) \in Timers
  BY DEF FinishState, FinishTimers, LiveStates, Timers

LEMMA PublishTyped ==
  ASSUME NEW s \in LiveStates, NEW source \in Sources \cup {None}
  PROVE  PublishLive(s, source) \in LiveStates
  <1> DEFINE count == s.sessionsToday + 1
  <1>1. count \in Nat
    BY DEF LiveStates
  <1>2. PublishLive(s, source) =
          [s EXCEPT !.status = "live", !.source = source, !.backoff = "none",
                    !.sessionsToday = count]
    BY DEF PublishLive
  <1> HIDE DEF count
  <1>3. QED
    BY <1>1, <1>2 DEF LiveStates

LEMMA StartTyped ==
  ASSUME TypeOK, NEW source \in Sources, StartSession(source)
  PROVE  /\ phase' \in [Tasks -> Phases]
         /\ src' \in [Tasks -> Sources \cup {None}]
         /\ sessionTask' \in Tasks \cup {None}
  BY DEF TypeOK, StartSession, Phases

LEMMA RequestTyped ==
  ASSUME TypeOK, NEW source \in Sources, NEW s \in LiveStates, NEW reading,
         Request(source, s, reading)
  PROVE  /\ phase' \in [Tasks -> Phases]
         /\ src' \in [Tasks -> Sources \cup {None}]
         /\ sessionTask' \in Tasks \cup {None}
         /\ state' \in LiveStates
         /\ day' \in DayCounters
  <1>1. state' \in LiveStates /\ day' \in DayCounters
    BY RollTyped DEF Request
  <1>2. CASE StartSession(source)
    BY <1>1, <1>2, StartTyped
  <1>3. CASE NoGrant
    BY <1>1, <1>3 DEF NoGrant, TypeOK
  <1>4. QED
    BY <1>2, <1>3 DEF Request

LEMMA StopTyped ==
  ASSUME TypeOK, NEW s \in LiveStates, NEW armed \in Timers,
         NEW publishIdle \in BOOLEAN, Stop(s, armed, publishIdle)
  PROVE  /\ sessionTask' \in Tasks \cup {None}
         /\ stops' \subseteq [task : Tasks, idle : BOOLEAN]
         /\ state' \in LiveStates
         /\ timer' \in Timers
  <1>1. CASE Running
    BY <1>1 DEF Stop, Running, TypeOK
  <1>2. CASE ~Running
    <2>1. /\ sessionTask' = None
          /\ stops' = stops
          /\ state' = IF publishIdle THEN FinishState(s) ELSE s
          /\ timer' = [IF publishIdle THEN FinishTimers(s, armed) ELSE armed
                         EXCEPT !.window = FALSE]
      BY <1>2 DEF Stop
    <2>2. state' \in LiveStates
      BY <2>1, FinishTyped
    <2>3. (IF publishIdle THEN FinishTimers(s, armed) ELSE armed) \in Timers
      BY FinishTyped
    <2>4. timer' \in Timers
      BY <2>1, <2>3 DEF Timers
    <2>5. QED
      BY <2>1, <2>2, <2>4 DEF TypeOK
  <1>3. QED
    BY <1>1, <1>2

LEMMA ReleaseTyped ==
  ASSUME TypeOK, NEW s \in LiveStates, NEW c \in LiveConfigs, NEW armed \in Timers,
         ReleaseHold(s, c, armed) \/ ReleaseSmartHold(s, c, armed)
  PROVE  /\ sessionTask' \in Tasks \cup {None}
         /\ stops' \subseteq [task : Tasks, idle : BOOLEAN]
         /\ state' \in LiveStates
         /\ timer' \in Timers
  <1>1. CASE Stop(s, armed, TRUE)
    BY <1>1, StopTyped
  <1>2. CASE Keep(s, armed)
    BY <1>2 DEF Keep, TypeOK
  <1>3. QED
    BY <1>1, <1>2 DEF ReleaseHold, ReleaseSmartHold

LEMMA HoldTyped ==
  ASSUME NEW s, NEW c
  PROVE  ResumableHold(s, c) \in Sources \cup {None}
  BY DEF ResumableHold, HoldWanted, Sources

-----------------------------------------------------------------------------
(* Type correctness, one lemma per group of actions.                       *)

LEMMA UserTyped ==
  ASSUME TypeOK, UserStep
  PROVE  TypeOK'
  <1> USE DEF taskVars
  <1>1. ASSUME NEW reading \in Readings, LiveViewOn(reading)
        PROVE  TypeOK'
    <2>1. [state EXCEPT !.liveView = TRUE] \in LiveStates
      BY DEF TypeOK, LiveStates
    <2>2. Request("manual", [state EXCEPT !.liveView = TRUE], reading)
      BY <1>1 DEF LiveViewOn
    <2>3. "manual" \in Sources
      BY DEF Sources
    <2>4. timer' \in Timers
      BY <1>1 DEF LiveViewOn, TypeOK, Timers
    <2>5. QED
      BY <1>1, <2>1, <2>2, <2>3, <2>4, RequestTyped DEF LiveViewOn, TypeOK
  <1>2. ASSUME NEW reading \in Readings, ContinuousOn(reading)
        PROVE  TypeOK'
    <2>1. Request("continuous", state, reading) /\ "continuous" \in Sources
      BY <1>2 DEF ContinuousOn, Sources
    <2>2. config' \in LiveConfigs
      BY <1>2 DEF ContinuousOn, TypeOK, LiveConfigs
    <2>3. QED
      BY <1>2, <2>1, <2>2, RequestTyped DEF ContinuousOn, TypeOK
  <1>3. CASE LiveViewOff
    <2>1. /\ [state EXCEPT !.liveView = FALSE] \in LiveStates
          /\ [timer EXCEPT !.viewCap = FALSE] \in Timers
      BY DEF TypeOK, LiveStates, Timers
    <2>2. QED
      BY <1>3, <2>1, ReleaseTyped DEF LiveViewOff, EndLiveView, TypeOK
  <1>4. CASE ContinuousOff
    <2>1. [config EXCEPT !.continuous = FALSE] \in LiveConfigs
      BY DEF TypeOK, LiveConfigs
    <2>2. QED
      BY <1>4, <2>1, ReleaseTyped DEF ContinuousOff, TypeOK
  <1>5. CASE SmartWindowsOn
    BY <1>5 DEF SmartWindowsOn, NextPeakKnown, TypeOK, LiveConfigs, Timers
  <1>6. CASE SmartWindowsOff
    <2>1. /\ [config EXCEPT !.smart = FALSE] \in LiveConfigs
          /\ [timer EXCEPT !.smart = FALSE] \in Timers
      BY DEF TypeOK, LiveConfigs, Timers
    <2>2. QED
      BY <1>6, <2>1, ReleaseTyped DEF SmartWindowsOff, TypeOK
  <1>7. CASE SetMinGap
    BY <1>7, GapAssumption DEF SetMinGap, TypeOK, LiveStates
  <1>8. ASSUME NEW n \in RawBudgets, SetSessionsPerDay(n)
        PROVE  TypeOK'
    <2>1. ClampBudget(n) \in MinBudget..MaxBudget
      BY BudgetAssumption, ClampInRange
    <2>2. config' \in LiveConfigs
      BY <1>8, <2>1 DEF SetSessionsPerDay, TypeOK, LiveConfigs
    <2>3. QED
      BY <1>8, <2>2 DEF SetSessionsPerDay, TypeOK
  <1>9. QED
    BY <1>1, <1>2, <1>3, <1>4, <1>5, <1>6, <1>7, <1>8 DEF UserStep

LEMMA PassTyped ==
  ASSUME TypeOK, PassStep
  PROVE  TypeOK'
  <1>1. ASSUME NEW reading \in Readings, NEW regen \in RegenReadings,
               NEW usage \in UsageReadings, EvaluateFast(regen, usage, reading)
        PROVE  TypeOK'
    <2>1. seen' \in [regen : Verdicts, anomaly : Verdicts]
      BY <1>1 DEF EvaluateFast, RegenReadings, TypeOK, Verdicts
    <2>2. state' \in LiveStates
      BY <1>1, RollTyped DEF EvaluateFast, TypeOK
    <2>3. day' \in DayCounters
      <3>1. RollDay \in DayCounters
        BY RollTyped DEF TypeOK
      <3>2. QED
        BY <1>1, <3>1 DEF EvaluateFast, DayCounters
    <2>4. NoGrant \/ \E source \in Sources : StartSession(source)
      BY <1>1 DEF EvaluateFast
    <2>5. /\ phase' \in [Tasks -> Phases]
          /\ src' \in [Tasks -> Sources \cup {None}]
          /\ sessionTask' \in Tasks \cup {None}
      BY <2>4, StartTyped DEF NoGrant, TypeOK
    <2>6. QED
      BY <1>1, <2>1, <2>2, <2>3, <2>5 DEF EvaluateFast, TypeOK
  <1>2. ASSUME NEW reading \in Readings, NEW anomaly \in AnomalyReadings,
               EvaluateEngine(anomaly, reading)
        PROVE  TypeOK'
    <2>1. seen' \in [regen : Verdicts, anomaly : Verdicts]
      BY <1>2 DEF EvaluateEngine, AnomalyReadings, TypeOK, Verdicts
    <2>2. timer' \in Timers
      BY <1>2 DEF EvaluateEngine, NextPeakKnown, TypeOK, Timers, LiveConfigs
    <2>3. /\ phase' \in [Tasks -> Phases]
          /\ src' \in [Tasks -> Sources \cup {None}]
          /\ sessionTask' \in Tasks \cup {None}
          /\ state' \in LiveStates
          /\ day' \in DayCounters
      <3>1. CASE Request("anomaly", state, reading)
        BY <3>1, RequestTyped DEF TypeOK, Sources
      <3>2. CASE state' = RollState(state) /\ day' = RollDay /\ NoGrant
        BY <3>2, RollTyped DEF TypeOK, NoGrant
      <3>3. QED
        BY <1>2, <3>1, <3>2 DEF EvaluateEngine
    <2>4. QED
      BY <1>2, <2>1, <2>2, <2>3 DEF EvaluateEngine, TypeOK
  <1>3. QED
    BY <1>1, <1>2 DEF PassStep

LEMMA TimerTyped ==
  ASSUME TypeOK, TimerStep
  PROVE  TypeOK'
  <1> USE DEF taskVars
  <1>1. ASSUME NEW reading \in Readings, SmartTimerFires(reading)
        PROVE  TypeOK'
    <2>1. timer' \in Timers
      BY <1>1 DEF SmartTimerFires, NextPeakKnown, TypeOK, Timers, LiveConfigs
    <2>2. Request("smart", state, reading) /\ "smart" \in Sources
      BY <1>1 DEF SmartTimerFires, Sources
    <2>3. QED
      BY <1>1, <2>1, <2>2, RequestTyped DEF SmartTimerFires, TypeOK
  <1>2. ASSUME NEW reading \in Readings, BackoffTimerFires(reading)
        PROVE  TypeOK'
    <2> DEFINE s == [state EXCEPT !.status = "idle", !.backoff = "none"]
               hold == ResumableHold(s, config)
    <2>1. s \in LiveStates
      BY DEF TypeOK, LiveStates
    <2>2. hold # None => hold \in Sources
      BY HoldTyped
    <2>3. timer' \in Timers
      BY <1>2 DEF BackoffTimerFires, TypeOK, Timers
    <2>4. /\ phase' \in [Tasks -> Phases]
          /\ src' \in [Tasks -> Sources \cup {None}]
          /\ sessionTask' \in Tasks \cup {None}
          /\ state' \in LiveStates
          /\ day' \in DayCounters
      <3> HIDE DEF s, hold
      <3>1. CASE UNCHANGED <<state, day>> /\ NoGrant
        BY <3>1 DEF TypeOK, NoGrant
      <3>2. CASE hold # None /\ Request(hold, s, reading)
        BY <3>2, <2>1, <2>2, RequestTyped
      <3>3. CASE state' = s /\ UNCHANGED day /\ NoGrant
        BY <3>3, <2>1 DEF TypeOK, NoGrant
      <3>4. QED
        BY <1>2, <3>1, <3>2, <3>3 DEF BackoffTimerFires, s, hold
    <2>5. QED
      BY <1>2, <2>3, <2>4 DEF BackoffTimerFires, TypeOK
  <1>3. CASE ViewCapFires
    <2>1. /\ [state EXCEPT !.liveView = FALSE] \in LiveStates
          /\ [timer EXCEPT !.viewCap = FALSE] \in Timers
      BY DEF TypeOK, LiveStates, Timers
    <2>2. QED
      BY <1>3, <2>1, ReleaseTyped DEF ViewCapFires, EndLiveView, TypeOK
  <1>4. CASE WindowTimerFires
    BY <1>4 DEF WindowTimerFires, TypeOK, Timers
  <1>5. QED
    BY <1>1, <1>2, <1>3, <1>4 DEF TimerStep

LEMMA FailureTyped ==
  ASSUME TypeOK, NEW reading \in Readings, HandleFailure(reading)
  PROVE  state' \in LiveStates /\ timer' \in Timers /\ issue' \in BOOLEAN
  <1> DEFINE failures == IF state.failures < FailureLimit THEN state.failures + 1
                                                         ELSE FailureLimit
  <1>1. failures \in 0..FailureLimit
    BY LimitAssumption DEF TypeOK, LiveStates
  <1>2. state' = [state EXCEPT !.status = "backoff", !.source = None,
                               !.failures = failures, !.backoff = "pending"]
    BY DEF HandleFailure
  <1>3. state' \in LiveStates
    <2> HIDE DEF failures
    <2>1. QED
      BY <1>1, <1>2 DEF TypeOK, LiveStates
  <1>4. timer' \in Timers
    BY DEF HandleFailure, TypeOK, Timers
  <1>5. issue' \in BOOLEAN
    BY DEF HandleFailure, TypeOK
  <1>6. QED
    BY <1>3, <1>4, <1>5

LEMMA TaskTyped ==
  ASSUME TypeOK, NEW t \in Tasks, TaskStep(t)
  PROVE  TypeOK'
  <1> USE DEF taskVars
  <1>1. CASE OpenSucceeds(t)
    <2>1. state' \in LiveStates
      <3>1. src[t] \in Sources \cup {None} /\ state \in LiveStates
        BY DEF TypeOK
      <3>2. PublishLive(state, src[t]) \in LiveStates
        BY <3>1, PublishTyped
      <3>3. QED
        BY <1>1, <3>2 DEF OpenSucceeds
    <2>2. day' \in DayCounters
      <3> DEFINE cooling == (src[t] = "use") \/ day.cooling
      <3>1. cooling \in BOOLEAN
        OBVIOUS
      <3>2. day' = [day EXCEPT !.cooling = cooling]
        BY <1>1 DEF OpenSucceeds
      <3> HIDE DEF cooling
      <3>3. QED
        BY <3>1, <3>2 DEF TypeOK, DayCounters
    <2>3. timer' \in Timers
      BY <1>1 DEF OpenSucceeds, TypeOK, Timers
    <2>4. QED
      BY <1>1, <2>1, <2>2, <2>3 DEF OpenSucceeds, MoveTo, NewWindow, TypeOK, Phases
  <1>2. CASE RenewalOpens(t)
    BY <1>2 DEF RenewalOpens, MoveTo, NewWindow, TypeOK, Phases, Timers
  <1>3. CASE SessionEnds(t)
    <2>1. [timer EXCEPT !.window = FALSE] \in Timers
      BY DEF TypeOK, Timers
    <2>2. state' \in LiveStates /\ timer' \in Timers
      BY <1>3, <2>1, FinishTyped DEF SessionEnds, TypeOK
    <2>3. QED
      BY <1>3, <2>2 DEF SessionEnds, TaskDone, TypeOK, Phases
  <1>4. CASE TaskCancelled(t)
    BY <1>4 DEF TaskCancelled, TaskDone, MoveTo, TypeOK, Phases, Timers
  <1>5. CASE TaskUnwound(t)
    BY <1>5 DEF TaskUnwound, TaskDone, TypeOK, Phases
  <1>6. ASSUME NEW moved \in BOOLEAN, Frame(t, moved)
        PROVE  TypeOK'
    <2>1. 0 \in 0..FailureLimit
      BY LimitAssumption
    <2>2. state' \in LiveStates /\ timer' \in Timers /\ issue' \in BOOLEAN
      <3>1. CASE UNCHANGED <<state, timer, issue>>
        BY <3>1 DEF TypeOK
      <3>2. CASE /\ state' = [state EXCEPT !.failures = 0, !.backoff = "none"]
                 /\ timer' = [timer EXCEPT !.backoff = FALSE]
                 /\ issue' = FALSE
        <4>1. state' \in LiveStates
          BY <3>2, <2>1 DEF TypeOK, LiveStates
        <4>2. timer' \in Timers
          BY <3>2 DEF TypeOK, Timers
        <4>3. QED
          BY <3>2, <4>1, <4>2
      <3>3. QED
        BY <1>6, <3>1, <3>2 DEF Frame, NoteStreamAlive
    <2>3. window' \in [frames : BOOLEAN, flow : BOOLEAN]
      BY <1>6 DEF Frame, TypeOK
    <2>4. QED
      BY <1>6, <2>2, <2>3 DEF Frame, TypeOK
  <1>7. ASSUME NEW reading \in Readings, OpenFails(t, reading)
        PROVE  TypeOK'
    BY <1>7, FailureTyped DEF OpenFails, TaskDone, HandleFailure, TypeOK, Phases
  <1>8. ASSUME NEW reading \in Readings, FramelessEnd(t, reading)
        PROVE  TypeOK'
    BY <1>8, FailureTyped DEF FramelessEnd, MoveTo, HandleFailure, TypeOK, Phases
  <1>9. ASSUME NEW reason \in EndReasons, NEW reading \in Readings,
               WindowEnds(t, reason, reading)
        PROVE  TypeOK'
    <2>1. state' \in LiveStates
      BY <1>9 DEF WindowEnds, TypeOK, LiveStates
    <2>2. QuietCount \in 0..NoFlowLimit
      BY LimitAssumption DEF QuietCount, TypeOK, DayCounters
    <2>3. day' \in DayCounters
      BY <1>9, <2>2 DEF WindowEnds, TypeOK, DayCounters
    <2>4. timer' \in Timers
      BY <1>9 DEF WindowEnds, TypeOK, Timers
    <2>5. phase' \in [Tasks -> Phases] /\ src' = src
      BY <1>9 DEF WindowEnds, MoveTo, TypeOK, Phases
    <2>6. QED
      BY <1>9, <2>1, <2>3, <2>4, <2>5 DEF WindowEnds, TypeOK
  <1>10. QED
    BY <1>1, <1>2, <1>3, <1>4, <1>5, <1>6, <1>7, <1>8, <1>9 DEF TaskStep

LEMMA RestTyped ==
  ASSUME TypeOK,
         TimeStep \/ (\E r \in stops : StopResumes(r)) \/ Shutdown \/ Setup
  PROVE  TypeOK'
  <1> USE DEF taskVars
  <1>1. CASE TimeStep
    <2>1. state' \in LiveStates
      BY <1>1 DEF TimeStep, Pass, GapElapses, BackoffElapses, CooldownElapses,
                  DayTurns, HourTurns, TypeOK, LiveStates
    <2>2. day' \in DayCounters
      BY <1>1 DEF TimeStep, Pass, GapElapses, BackoffElapses, CooldownElapses,
                  DayTurns, HourTurns, TypeOK, DayCounters
    <2>3. hour' \in Hours
      BY <1>1 DEF TimeStep, Pass, GapElapses, BackoffElapses, CooldownElapses,
                  DayTurns, HourTurns, TypeOK, Hours
    <2>4. UNCHANGED <<phase, src, sessionTask, stops, config, timer, window, seen,
                      issue, stopping>>
      BY <1>1 DEF TimeStep, Pass, GapElapses, BackoffElapses, CooldownElapses,
                  DayTurns, HourTurns
    <2>5. QED
      BY <2>1, <2>2, <2>3, <2>4 DEF TypeOK
  <1>2. ASSUME NEW r \in stops, StopResumes(r)
        PROVE  TypeOK'
    <2>1. state' \in LiveStates
      BY <1>2, FinishTyped DEF StopResumes, TypeOK
    <2>2. (IF r.idle THEN FinishTimers(state, timer) ELSE timer) \in Timers
      BY FinishTyped DEF TypeOK
    <2>3. timer' \in Timers
      BY <1>2, <2>2 DEF StopResumes, Timers
    <2>4. QED
      BY <1>2, <2>1, <2>3 DEF StopResumes, TypeOK
  <1>3. CASE Shutdown
    <2>1. state \in LiveStates /\ NoTimers \in Timers
      BY DEF TypeOK, NoTimers, Timers
    <2>2. QED
      BY <1>3, <2>1, StopTyped DEF Shutdown, TypeOK
  <1>4. CASE Setup
    <2>1. 0 \in 0..FailureLimit /\ 0 \in 0..NoFlowLimit
      BY LimitAssumption
    <2>2. FreshState \in LiveStates /\ NoTimers \in Timers
      BY <2>1 DEF FreshState, LiveStates, NoTimers, Timers
    <2>3. day' \in DayCounters
      BY <1>4, <2>1 DEF Setup, DayCounters
    <2>4. seen' \in [regen : Verdicts, anomaly : Verdicts]
      BY <1>4 DEF Setup, RegenReadings, AnomalyReadings, Verdicts
    <2>5. QED
      BY <1>4, <2>2, <2>3, <2>4 DEF Setup, TypeOK, NewWindow, Phases
  <1>5. QED
    BY <1>1, <1>2, <1>3, <1>4

\* Every reachable state is well typed, for every instance: in particular the
\* persisted budget never leaves the range clamp_sessions_per_day promises, and the
\* failure and no-flow counts never leave theirs.
THEOREM Typing == Spec => []TypeOK
  <1>1. Init => TypeOK
    <2> SUFFICES ASSUME Init PROVE TypeOK
      OBVIOUS
    <2>1. 0 \in 0..FailureLimit /\ 0 \in 0..NoFlowLimit
      BY LimitAssumption
    <2>2. FreshState \in LiveStates /\ NoTimers \in Timers
      BY <2>1 DEF FreshState, LiveStates, NoTimers, Timers
    <2>3. day \in DayCounters
      BY <2>1 DEF Init, DayCounters
    <2>4. hour \in Hours
      BY DEF Init, Hours
    <2>5. seen \in [regen : Verdicts, anomaly : Verdicts]
      BY DEF Init, RegenReadings, AnomalyReadings, Verdicts
    <2>6. QED
      BY <2>2, <2>3, <2>4, <2>5 DEF Init, TypeOK, NewWindow, Phases
  <1>2. TypeOK /\ [Next]_vars => TypeOK'
    <2> SUFFICES ASSUME TypeOK, [Next]_vars PROVE TypeOK'
      OBVIOUS
    <2>1. CASE UNCHANGED vars
      BY <2>1 DEF vars, TypeOK
    <2>2. CASE Next
      BY <2>2, UserTyped, PassTyped, TimerTyped, TaskTyped, RestTyped DEF Next
    <2>3. QED
      BY <2>1, <2>2
  <1>3. QED
    BY <1>1, <1>2, PTL DEF Spec

-----------------------------------------------------------------------------
(* The single session.  SingleSession is not inductive: a caller that      *)
(* wakes up clears _session_task, which is safe only because nothing was   *)
(* granted between the end of the task it awaited and its wake-up.         *)

\* A caller due to wake up finds every task done.
WakeupFindsNothing ==
  \A r \in stops : phase[r.task] = "done" => \A t \in Tasks : phase[t] = "done"

OneSession == SingleSession /\ WakeupFindsNothing

\* A refused or granted request.
LEMMA GrantKeepsOne ==
  ASSUME PromptWakeup, TypeOK, OneSession, CallbackMayRun, UNCHANGED stops,
         NoGrant \/ (~Running /\ \E source \in Sources : StartSession(source))
  PROVE  OneSession'
  <1> USE DEF OneSession, SingleSession, WakeupFindsNothing
  <1>1. CASE NoGrant
    BY <1>1 DEF NoGrant
  <1>2. CASE ~Running /\ \E source \in Sources : StartSession(source)
    <2>1. \A t \in Tasks : phase[t] = "done"
      BY <1>2, NoneAssumption DEF Running
    <2>2. stops = {}
      BY <2>1 DEF CallbackMayRun, WakeupDue, TypeOK
    <2>3. PICK t \in Tasks : phase' = [phase EXCEPT ![t] = "opening"] /\ sessionTask' = t
      BY <1>2 DEF StartSession
    <2>4. \A u \in Tasks : u # t => phase'[u] = "done"
      BY <2>1, <2>3 DEF TypeOK
    <2>5. QED
      BY <2>2, <2>3, <2>4
  <1>3. QED
    BY <1>1, <1>2

LEMMA RequestKeepsOne ==
  ASSUME PromptWakeup, TypeOK, OneSession, CallbackMayRun, UNCHANGED stops,
         NEW source \in Sources, NEW s, NEW reading, Request(source, s, reading)
  PROVE  OneSession'
  BY GrantKeepsOne DEF Request, CanGrant

\* A release: the caller awaits the running task, or finds none.
LEMMA StopKeepsOne ==
  ASSUME TypeOK, OneSession, UNCHANGED phase,
         NEW s, NEW armed, NEW publishIdle \in BOOLEAN,
         Stop(s, armed, publishIdle) \/ Keep(s, armed)
  PROVE  OneSession'
  <1> USE DEF OneSession, SingleSession, WakeupFindsNothing
  <1>1. CASE Keep(s, armed)
    BY <1>1 DEF Keep
  <1>2. CASE Running /\ Stop(s, armed, publishIdle)
    BY <1>2 DEF Stop, Running
  <1>3. CASE ~Running /\ Stop(s, armed, publishIdle)
    <2>1. \A t \in Tasks : phase[t] = "done"
      BY <1>3, NoneAssumption DEF Running
    <2>2. QED
      BY <1>3, <2>1 DEF Stop
  <1>4. QED
    BY <1>1, <1>2, <1>3

\* A step of the session task that keeps the task alive, or ends it.
LEMMA TaskKeepsOne ==
  ASSUME TypeOK, OneSession, UNCHANGED <<stops, sessionTask>>,
         NEW t \in Tasks, phase[t] # "done",
         \/ UNCHANGED phase
         \/ TaskDone(t)
         \/ \E p \in Phases \ {"done"} : MoveTo(t, p)
  PROVE  OneSession'
  <1> USE DEF OneSession, SingleSession, WakeupFindsNothing
  <1>1. CASE UNCHANGED phase
    BY <1>1
  <1>2. CASE TaskDone(t)
    <2>1. \A u \in Tasks : phase'[u] = "done"
      BY <1>2 DEF TaskDone, TypeOK
    <2>2. QED
      BY <2>1
  <1>3. ASSUME NEW p \in Phases \ {"done"}, MoveTo(t, p)
        PROVE  OneSession'
    <2>1. \A u \in Tasks : phase'[u] = "done" <=> phase[u] = "done"
      BY <1>3 DEF MoveTo, TypeOK
    <2>2. QED
      BY <2>1 DEF TypeOK
  <1>4. QED
    BY <1>1, <1>2, <1>3

LEMMA OneSessionStep ==
  ASSUME PromptWakeup, TypeOK, OneSession, [Next]_vars
  PROVE  OneSession'
  <1> USE DEF taskVars
  <1>1. CASE UNCHANGED vars
    BY <1>1 DEF vars, OneSession, SingleSession, WakeupFindsNothing
  <1>2. CASE UserStep
    <2>1. ASSUME NEW reading \in Readings,
                 LiveViewOn(reading) \/ ContinuousOn(reading)
          PROVE  OneSession'
      BY <2>1, RequestKeepsOne DEF LiveViewOn, ContinuousOn, UserMayAct, Sources
    <2>2. CASE LiveViewOff
      BY <2>2, StopKeepsOne DEF LiveViewOff, EndLiveView, ReleaseHold
    <2>3. CASE ContinuousOff
      BY <2>3, StopKeepsOne DEF ContinuousOff, ReleaseHold
    <2>4. CASE SmartWindowsOff
      BY <2>4, StopKeepsOne DEF SmartWindowsOff, ReleaseSmartHold
    <2>5. CASE SmartWindowsOn \/ SetMinGap \/ \E n \in RawBudgets : SetSessionsPerDay(n)
      BY <2>5 DEF SmartWindowsOn, SetMinGap, SetSessionsPerDay,
                  OneSession, SingleSession, WakeupFindsNothing
    <2>6. QED
      BY <1>2, <2>1, <2>2, <2>3, <2>4, <2>5 DEF UserStep
  <1>3. CASE PassStep
    <2>1. ASSUME NEW reading \in Readings, NEW regen \in RegenReadings,
                 NEW usage \in UsageReadings, EvaluateFast(regen, usage, reading)
          PROVE  OneSession'
      <3>1. CallbackMayRun /\ UNCHANGED stops
        BY <2>1 DEF EvaluateFast
      <3>2. NoGrant \/ (~Running /\ \E source \in Sources : StartSession(source))
        BY <2>1 DEF EvaluateFast, CanGrant
      <3>3. QED
        BY <3>1, <3>2, GrantKeepsOne
    <2>2. ASSUME NEW reading \in Readings, NEW anomaly \in AnomalyReadings,
                 EvaluateEngine(anomaly, reading)
          PROVE  OneSession'
      <3>1. CallbackMayRun /\ UNCHANGED stops
        BY <2>2 DEF EvaluateEngine
      <3>2. NoGrant \/ Request("anomaly", state, reading)
        BY <2>2 DEF EvaluateEngine
      <3>3. QED
        BY <3>1, <3>2, GrantKeepsOne, RequestKeepsOne DEF Sources
    <2>3. QED
      BY <1>3, <2>1, <2>2 DEF PassStep
  <1>4. CASE TimerStep
    <2>1. ASSUME NEW reading \in Readings, SmartTimerFires(reading)
          PROVE  OneSession'
      BY <2>1, RequestKeepsOne DEF SmartTimerFires, Sources
    <2>2. ASSUME NEW reading \in Readings, BackoffTimerFires(reading)
          PROVE  OneSession'
      <3> DEFINE s == [state EXCEPT !.status = "idle", !.backoff = "none"]
                 asked == ResumableHold(s, config)
      <3>1. asked # None => asked \in Sources
        BY HoldTyped
      <3> HIDE DEF s, asked
      <3>2. NoGrant \/ (asked # None /\ Request(asked, s, reading))
        BY <2>2 DEF BackoffTimerFires, s, asked
      <3>3. CallbackMayRun /\ UNCHANGED stops
        BY <2>2 DEF BackoffTimerFires
      <3>4. QED
        BY <3>1, <3>2, <3>3, GrantKeepsOne, RequestKeepsOne
    <2>3. CASE ViewCapFires
      <3>1. CASE EndLiveView
        BY <3>1, StopKeepsOne DEF EndLiveView, ReleaseHold
      <3>2. CASE ~state.liveView
        BY <2>3, <3>2 DEF ViewCapFires, OneSession, SingleSession, WakeupFindsNothing
      <3>3. QED
        BY <2>3, <3>1, <3>2 DEF ViewCapFires
    <2>4. CASE WindowTimerFires
      BY <2>4 DEF WindowTimerFires, OneSession, SingleSession, WakeupFindsNothing
    <2>5. QED
      BY <1>4, <2>1, <2>2, <2>3, <2>4 DEF TimerStep
  <1>5. ASSUME NEW t \in Tasks, TaskStep(t)
        PROVE  OneSession'
    <2>1. /\ UNCHANGED <<stops, sessionTask>>
          /\ phase[t] # "done"
          /\ \/ UNCHANGED phase
             \/ TaskDone(t)
             \/ \E p \in Phases \ {"done"} : MoveTo(t, p)
      BY <1>5 DEF TaskStep, OpenSucceeds, RenewalOpens, SessionEnds, TaskCancelled,
                  TaskUnwound, Frame, OpenFails, FramelessEnd, WindowEnds,
                  HandleFailure, MayProgress, Phases
    <2>2. QED
      BY <2>1, TaskKeepsOne
  <1>6. CASE TimeStep
    BY <1>6 DEF TimeStep, Pass, GapElapses, BackoffElapses, CooldownElapses, DayTurns,
                HourTurns, OneSession, SingleSession, WakeupFindsNothing
  <1>7. ASSUME NEW r \in stops, StopResumes(r)
        PROVE  OneSession'
    <2>1. \A t \in Tasks : phase[t] = "done"
      BY <1>7 DEF StopResumes, OneSession, WakeupFindsNothing
    <2>2. QED
      BY <1>7, <2>1 DEF StopResumes, OneSession, SingleSession, WakeupFindsNothing
  <1>8. CASE Shutdown
    BY <1>8, StopKeepsOne DEF Shutdown
  <1>9. CASE Setup
    BY <1>9 DEF Setup, OneSession, SingleSession, WakeupFindsNothing, TypeOK
  <1>10. QED
    BY <1>1, <1>2, <1>3, <1>4, <1>5, <1>6, <1>7, <1>8, <1>9 DEF Next

\* The inductive invariant behind the single session, for every instance whose
\* loop wakes the caller of a cancelled task before it runs another trigger.
LEMMA OneSessionAlways ==
  ASSUME PromptWakeup
  PROVE  Spec => []OneSession
  <1>1. Init => OneSession
    BY DEF Init, OneSession, SingleSession, WakeupFindsNothing
  <1>2. TypeOK /\ OneSession /\ [Next]_vars => OneSession'
    BY OneSessionStep
  <1>3. QED
    BY <1>1, <1>2, Typing, PTL DEF Spec

\* Exactly one session runs at a time (the class docstring of AquaHomeLiveManager):
\* no combination of triggers, renewals, failures, releases and an unload leaves a
\* session task behind that the manager no longer knows of.  The hypothesis is
\* necessary: with PromptWakeup = FALSE the instance of LiveHolds reaches an orphan.
THEOREM OneSessionAtATime ==
  ASSUME PromptWakeup
  PROVE  Spec => []SingleSession
  <1>1. OneSession => SingleSession
    BY DEF OneSession
  <1>2. QED
    BY <1>1, OneSessionAlways, PTL

-----------------------------------------------------------------------------
(* The unload.  What keeps a stopped manager quiet is that every task it   *)
(* still has is cancelled, so no answer of the cloud can make it act, and  *)
(* that the reference to that task goes with the last caller awaiting it.  *)

Quiet ==
  stopping =>
    /\ timer = NoTimers
    /\ \A t \in Tasks : phase[t] # "done" => Cancelled(t)
    /\ sessionTask # None => stops # {}

LEMMA CancelledTimersStay ==
  ASSUME NEW armed, armed = NoTimers
  PROVE  /\ [armed EXCEPT !.window = FALSE] = armed
         /\ [armed EXCEPT !.viewCap = FALSE] = armed
  <1> DEFINE cleared == [armed EXCEPT !.window = FALSE]
             uncapped == [armed EXCEPT !.viewCap = FALSE]
  <1>1. armed \in Timers /\ ~armed.window /\ ~armed.viewCap
    BY DEF NoTimers, Timers
  <1>2. cleared = armed
    BY <1>1 DEF Timers
  <1>3. uncapped = armed
    BY <1>1 DEF Timers
  <1>4. QED
    BY <1>2, <1>3

\* No trigger of a stopped manager runs: its timers are gone, its passes return.
LEMMA StoppedTriggersSleep ==
  ASSUME Quiet, stopping, UserStep \/ PassStep \/ TimerStep \/ Shutdown
  PROVE  FALSE
  <1>1. timer = NoTimers
    BY DEF Quiet
  <1>2. CASE UserStep
    BY <1>2 DEF UserStep, LiveViewOn, ContinuousOn, LiveViewOff, ContinuousOff,
                SmartWindowsOn, SmartWindowsOff, SetMinGap, SetSessionsPerDay, UserMayAct
  <1>3. CASE PassStep
    BY <1>3 DEF PassStep, EvaluateFast, EvaluateEngine
  <1>4. CASE TimerStep
    BY <1>1, <1>4 DEF TimerStep, SmartTimerFires, BackoffTimerFires, ViewCapFires,
                      WindowTimerFires, NoTimers
  <1>5. CASE Shutdown
    BY <1>5 DEF Shutdown, UserMayAct
  <1>6. QED
    BY <1>2, <1>3, <1>4, <1>5

LEMMA QuietStep ==
  ASSUME TypeOK, OneSession, Quiet, [Next]_vars
  PROVE  Quiet'
  <1> USE DEF taskVars
  <1>1. CASE UNCHANGED vars
    BY <1>1 DEF vars, Quiet, Cancelled
  <1>2. CASE UserStep \/ PassStep \/ TimerStep
    <2>1. ~stopping
      BY <1>2, StoppedTriggersSleep
    <2>2. stopping' = stopping
      BY <1>2 DEF UserStep, LiveViewOn, ContinuousOn, LiveViewOff, EndLiveView,
           ContinuousOff, SmartWindowsOn, SmartWindowsOff, SetMinGap, SetSessionsPerDay,
           PassStep, EvaluateFast, EvaluateEngine, TimerStep, SmartTimerFires,
           BackoffTimerFires, ViewCapFires, WindowTimerFires
    <2>3. QED
      BY <2>1, <2>2 DEF Quiet
  <1>3. ASSUME NEW t \in Tasks, TaskStep(t)
        PROVE  Quiet'
    <2>1. UNCHANGED <<stops, sessionTask, stopping>>
      BY <1>3 DEF TaskStep, OpenSucceeds, RenewalOpens, SessionEnds, TaskCancelled,
                  TaskUnwound, Frame, OpenFails, FramelessEnd, WindowEnds, HandleFailure
    <2>2. CASE ~stopping
      BY <2>1, <2>2 DEF Quiet
    <2>3. CASE stopping
      <3>1. phase[t] # "done" => Cancelled(t)
        BY <2>3 DEF Quiet
      <3>2. TaskCancelled(t) \/ TaskUnwound(t)
        BY <1>3, <3>1 DEF TaskStep, OpenSucceeds, RenewalOpens, SessionEnds, Frame,
                          OpenFails, FramelessEnd, WindowEnds, MayProgress
      <3>3. timer' = NoTimers
        BY <2>3, <3>2, CancelledTimersStay DEF TaskCancelled, TaskUnwound, Quiet
      <3>4. phase[t] # "done"
        BY <3>2 DEF TaskCancelled, TaskUnwound
      <3>5. \A u \in Tasks : phase'[u] # "done" => phase[u] # "done"
        BY <3>2, <3>4 DEF TaskCancelled, TaskUnwound, TaskDone, MoveTo, TypeOK
      <3>6. QED
        BY <2>1, <2>3, <3>3, <3>5 DEF Quiet, Cancelled
    <2>4. QED
      BY <2>2, <2>3
  <1>4. CASE TimeStep
    BY <1>4 DEF TimeStep, Pass, GapElapses, BackoffElapses, CooldownElapses, DayTurns,
                HourTurns, Quiet, Cancelled
  <1>5. ASSUME NEW r \in stops, StopResumes(r)
        PROVE  Quiet'
    <2>1. \A t \in Tasks : phase'[t] = "done"
      BY <1>5 DEF StopResumes, OneSession, WakeupFindsNothing
    <2>2. stopping => timer' = NoTimers
      <3>1. stopping => timer = NoTimers
        BY DEF Quiet
      <3>2. timer' = [IF r.idle THEN FinishTimers(state, timer) ELSE timer
                        EXCEPT !.window = FALSE]
        BY <1>5 DEF StopResumes
      <3>3. stopping => (IF r.idle THEN FinishTimers(state, timer) ELSE timer) = NoTimers
        BY <3>1, CancelledTimersStay DEF FinishTimers
      <3>4. QED
        BY <3>2, <3>3, CancelledTimersStay
    <2>3. sessionTask' = None /\ stopping' = stopping
      BY <1>5 DEF StopResumes
    <2>4. QED
      BY <2>1, <2>2, <2>3 DEF Quiet
  <1>6. CASE Shutdown
    <2>1. CASE Running
      <3>1. /\ stops' = stops \cup {[task |-> sessionTask, idle |-> FALSE]}
            /\ timer' = NoTimers
            /\ UNCHANGED <<phase, sessionTask>>
        BY <1>6, <2>1 DEF Shutdown, Stop
      <3>2. [task |-> sessionTask, idle |-> FALSE] \in stops'
        BY <3>1
      <3>3. \A t \in Tasks : phase'[t] # "done" => Cancelled(t)'
        BY <3>1, <3>2 DEF OneSession, SingleSession, Cancelled
      <3>4. QED
        BY <3>1, <3>2, <3>3 DEF Quiet
    <2>2. CASE ~Running
      <3>1. /\ sessionTask' = None
            /\ timer' = [NoTimers EXCEPT !.window = FALSE]
            /\ UNCHANGED phase
        BY <1>6, <2>2, Zenon DEF Shutdown, Stop, taskVars
      <3>2. timer' = NoTimers
        BY <3>1 DEF NoTimers
      <3>3. \A t \in Tasks : phase[t] = "done"
        BY <2>2, NoneAssumption DEF Running, OneSession, SingleSession
      <3>4. QED
        BY <3>1, <3>2, <3>3 DEF Quiet
    <2>3. QED
      BY <2>1, <2>2
  <1>7. CASE Setup
    BY <1>7 DEF Setup, Quiet
  <1>8. QED
    BY <1>1, <1>2, <1>3, <1>4, <1>5, <1>6, <1>7 DEF Next

LEMMA QuietAlways ==
  ASSUME PromptWakeup
  PROVE  Spec => []Quiet
  <1>1. Init => Quiet
    BY DEF Init, Quiet
  <1>2. TypeOK /\ OneSession /\ Quiet /\ [Next]_vars => Quiet'
    BY QuietStep
  <1>3. QED
    BY <1>1, <1>2, Typing, OneSessionAlways, PTL DEF Spec

\* An unloading manager (async_shutdown) has no timer left, and once nobody awaits a
\* cancelled task any more no task runs and none is referred to: a pass, a failure or a
\* toggle that was under way cannot bring a session back.
THEOREM ShutdownIsQuiet ==
  ASSUME PromptWakeup
  PROVE  Spec => []StoppedIsQuiet
  <1>1. TypeOK /\ Quiet => StoppedIsQuiet
    BY DEF Quiet, StoppedIsQuiet, Cancelled, TypeOK
  <1>2. QED
    BY <1>1, Typing, QuietAlways, PTL

-----------------------------------------------------------------------------
(* The lease (SessionLease): who holds it, whether it is paid, and what    *)
(* the day has cost.  An opening session has room left in the allowance,   *)
(* because nothing but a session spends it and there is only one.          *)

Affordable ==
  /\ state.sessionsToday <= MaxBudget
  /\ \A t \in Tasks : phase[t] = "opening" => state.sessionsToday < MaxBudget

LEMMA NothingRuns ==
  ASSUME OneSession, ~Running
  PROVE  \A t \in Tasks : phase[t] = "done"
  BY NoneAssumption DEF Running, OneSession, SingleSession

LEMMA RunningTask ==
  ASSUME OneSession, NEW t \in Tasks, phase[t] # "done"
  PROVE  sessionTask = t /\ Running
  BY NoneAssumption DEF Running, OneSession, SingleSession

\* What a step of no interest to the lease looks like.
LeaseRests ==
  /\ \/ UNCHANGED <<phase, sessionTask>>
     \/ ~Running /\ UNCHANGED phase /\ sessionTask' = None
  /\ state'.sessionsToday \in {state.sessionsToday, 0}

\* The grant gate lets a session in only while the day has room for it.
LeaseGranted ==
  \E source \in Sources :
    /\ ~Running
    /\ StartSession(source)
    /\ state'.sessionsToday \in {state.sessionsToday, 0}
    /\ state'.sessionsToday < MaxBudget

LEMMA LeaseRestsOrNewDay ==
  ASSUME TypeOK, LeaseRests
  PROVE  [Lease!Acquire \/ Lease!Pay \/ Lease!Release \/ Lease!NewDay]_(Lease!leaseVars)
  <1>1. UNCHANGED <<LeaseOwner, LeasePaid>>
    BY DEF LeaseRests, LeaseOwner, LeasePaid, Running
  <1>2. CASE state'.sessionsToday = state.sessionsToday
    BY <1>1, <1>2 DEF Lease!leaseVars
  <1>3. CASE state'.sessionsToday = 0
    BY <1>1, <1>3 DEF Lease!NewDay
  <1>4. QED
    BY <1>2, <1>3 DEF LeaseRests

LEMMA LeaseIsAcquired ==
  ASSUME TypeOK, LeaseGranted
  PROVE  Lease!Acquire
  <1>1. PICK t \in Tasks : phase' = [phase EXCEPT ![t] = "opening"] /\ sessionTask' = t
    BY DEF LeaseGranted, StartSession
  <1>2. phase'[t] = "opening" /\ t # None
    BY <1>1, NoneAssumption DEF TypeOK
  <1>3. LeaseOwner = None /\ LeaseOwner' = t /\ ~LeasePaid'
    BY <1>1, <1>2 DEF LeaseGranted, LeaseOwner, LeasePaid, Running
  <1>4. QED
    BY <1>3, Zenon DEF LeaseGranted, Lease!Acquire, LeasePaid

\* Rolling the day leaves the count as it is, or starts it again.
LEMMA RollCounts ==
  ASSUME NEW s \in LiveStates
  PROVE  RollState(s).sessionsToday \in {s.sessionsToday, 0}
  BY DEF RollState, LiveStates

LEMMA RequestAndLease ==
  ASSUME TypeOK, NEW source \in Sources, NEW s \in LiveStates,
         s.sessionsToday = state.sessionsToday, NEW reading, Request(source, s, reading)
  PROVE  LeaseRests \/ LeaseGranted
  <1>1. state'.sessionsToday \in {state.sessionsToday, 0}
    BY RollCounts DEF Request
  <1>2. CASE NoGrant
    BY <1>1, <1>2 DEF NoGrant, LeaseRests
  <1>3. CASE CanGrant(source, RollState(s), RollDay, reading) /\ StartSession(source)
    <2>1. ~Running /\ state'.sessionsToday < config.budget
      BY <1>3 DEF CanGrant, BudgetLeft, Request
    <2>2. config.budget \in MinBudget..MaxBudget
      BY DEF TypeOK, LiveConfigs
    <2>3. state'.sessionsToday \in Nat
      BY <1>1 DEF TypeOK, LiveStates
    <2>4. state'.sessionsToday < MaxBudget
      BY <2>1, <2>2, <2>3, BudgetAssumption
    <2>5. QED
      BY <1>1, <1>3, <2>1, <2>4 DEF LeaseGranted
  <1>4. QED
    BY <1>2, <1>3 DEF Request

\* A release or an unload: it publishes no new count, and clears the reference only
\* when no session runs.
LEMMA StopAndLease ==
  ASSUME UNCHANGED phase, NEW s \in LiveStates, NEW armed, NEW publishIdle \in BOOLEAN,
         s.sessionsToday = state.sessionsToday,
         Stop(s, armed, publishIdle) \/ Keep(s, armed)
  PROVE  LeaseRests
  <1>1. FinishState(s).sessionsToday = s.sessionsToday
    BY DEF FinishState, LiveStates
  <1>2. CASE Running
    BY <1>2 DEF Stop, Keep, LeaseRests
  <1>3. CASE ~Running
    BY <1>1, <1>3 DEF Stop, Keep, LeaseRests
  <1>4. QED
    BY <1>2, <1>3

\* Every step of a trigger, a pass or a timer, of the unload or of time.
LEMMA TriggersAndLease ==
  ASSUME TypeOK, UserStep \/ PassStep \/ TimerStep \/ TimeStep \/ Shutdown
  PROVE  LeaseRests \/ LeaseGranted
  <1> USE DEF taskVars
  <1>1. ASSUME NEW reading \in Readings, LiveViewOn(reading)
        PROVE  LeaseRests \/ LeaseGranted
    <2>1. /\ [state EXCEPT !.liveView = TRUE] \in LiveStates
          /\ [state EXCEPT !.liveView = TRUE].sessionsToday = state.sessionsToday
      BY DEF TypeOK, LiveStates
    <2>2. QED
      BY <1>1, <2>1, RequestAndLease DEF LiveViewOn, Sources
  <1>2. ASSUME NEW reading \in Readings, ContinuousOn(reading)
        PROVE  LeaseRests \/ LeaseGranted
    BY <1>2, RequestAndLease DEF ContinuousOn, Sources, TypeOK
  <1>3. CASE LiveViewOff \/ ViewCapFires
    <2>1. /\ [state EXCEPT !.liveView = FALSE] \in LiveStates
          /\ [state EXCEPT !.liveView = FALSE].sessionsToday = state.sessionsToday
      BY DEF TypeOK, LiveStates
    <2>2. CASE EndLiveView
      BY <2>1, <2>2, StopAndLease DEF EndLiveView, ReleaseHold
    <2>3. CASE UNCHANGED <<phase, sessionTask, state>>
      BY <2>3 DEF LeaseRests
    <2>4. QED
      BY <1>3, <2>2, <2>3 DEF LiveViewOff, ViewCapFires
  <1>4. CASE ContinuousOff \/ SmartWindowsOff
    BY <1>4, StopAndLease DEF ContinuousOff, SmartWindowsOff, ReleaseHold,
                              ReleaseSmartHold, TypeOK
  <1>5. CASE SetMinGap
    BY <1>5 DEF SetMinGap, LeaseRests, TypeOK, LiveStates
  <1>6. CASE SmartWindowsOn \/ WindowTimerFires \/ \E n \in RawBudgets : SetSessionsPerDay(n)
    BY <1>6 DEF SmartWindowsOn, WindowTimerFires, SetSessionsPerDay, LeaseRests
  <1>7. ASSUME NEW reading \in Readings, NEW regen \in RegenReadings,
               NEW usage \in UsageReadings, EvaluateFast(regen, usage, reading)
        PROVE  LeaseRests \/ LeaseGranted
    <2>1. state' = RollState(state)
      BY <1>7 DEF EvaluateFast
    <2>2. state'.sessionsToday \in {state.sessionsToday, 0}
      BY <2>1, RollCounts DEF TypeOK
    <2>3. CASE NoGrant
      BY <2>2, <2>3 DEF NoGrant, LeaseRests
    <2>4. ASSUME NEW source \in Sources, StartSession(source),
                 CanGrant(source, state', RollDay, reading)
          PROVE  LeaseGranted
      <3>1. ~Running /\ state'.sessionsToday < config.budget
        BY <2>4 DEF CanGrant, BudgetLeft
      <3>2. config.budget \in MinBudget..MaxBudget
        BY DEF TypeOK, LiveConfigs
      <3>3. state'.sessionsToday \in Nat
        BY <2>2 DEF TypeOK, LiveStates
      <3>4. state'.sessionsToday < MaxBudget
        BY <3>1, <3>2, <3>3, BudgetAssumption
      <3>5. QED
        BY <2>2, <2>4, <3>1, <3>4 DEF LeaseGranted
    <2>5. QED
      BY <1>7, <2>1, <2>3, <2>4 DEF EvaluateFast
  <1>8. ASSUME NEW reading \in Readings, NEW anomaly \in AnomalyReadings,
               EvaluateEngine(anomaly, reading)
        PROVE  LeaseRests \/ LeaseGranted
    <2>1. CASE Request("anomaly", state, reading)
      BY <2>1, RequestAndLease DEF Sources, TypeOK
    <2>2. CASE state' = RollState(state) /\ NoGrant
      BY <2>2, RollCounts DEF LeaseRests, NoGrant, TypeOK
    <2>3. QED
      BY <1>8, <2>1, <2>2 DEF EvaluateEngine
  <1>9. ASSUME NEW reading \in Readings, SmartTimerFires(reading)
        PROVE  LeaseRests \/ LeaseGranted
    BY <1>9, RequestAndLease DEF SmartTimerFires, Sources, TypeOK
  <1>10. ASSUME NEW reading \in Readings, BackoffTimerFires(reading)
         PROVE  LeaseRests \/ LeaseGranted
    <2> DEFINE s == [state EXCEPT !.status = "idle", !.backoff = "none"]
               asked == ResumableHold(s, config)
    <2>1. s \in LiveStates /\ s.sessionsToday = state.sessionsToday
      BY DEF TypeOK, LiveStates
    <2>2. asked # None => asked \in Sources
      BY HoldTyped
    <2> HIDE DEF s, asked
    <2>3. \/ UNCHANGED state /\ NoGrant
          \/ asked # None /\ Request(asked, s, reading)
          \/ state' = s /\ NoGrant
      BY <1>10 DEF BackoffTimerFires, s, asked
    <2>4. QED
      BY <2>1, <2>2, <2>3, RequestAndLease DEF LeaseRests, NoGrant
  <1>11. CASE TimeStep
    BY <1>11 DEF TimeStep, Pass, GapElapses, BackoffElapses, CooldownElapses, DayTurns,
                 HourTurns, LeaseRests, TypeOK, LiveStates
  <1>12. CASE Shutdown
    BY <1>12, StopAndLease DEF Shutdown, TypeOK
  <1>13. QED
    BY <1>1, <1>2, <1>3, <1>4, <1>5, <1>6, <1>7, <1>8, <1>9, <1>10, <1>11, <1>12
       DEF UserStep, PassStep, TimerStep

\* A step of the session task pays for the session, ends it, or leaves the lease alone.
TaskPays(t) ==
  /\ phase[t] = "opening" /\ MoveTo(t, "streaming")
  /\ state'.sessionsToday = state.sessionsToday + 1

TaskEnds(t) ==
  /\ phase[t] # "done" /\ TaskDone(t)
  /\ state'.sessionsToday = state.sessionsToday

TaskGoesOn(t) ==
  /\ \/ UNCHANGED phase
     \/ /\ phase[t] \notin {"done", "opening"}
        /\ \E p \in Phases \ {"done", "opening"} : MoveTo(t, p)
  /\ state'.sessionsToday = state.sessionsToday

LEMMA TaskAndLease ==
  ASSUME TypeOK, NEW t \in Tasks, TaskStep(t)
  PROVE  /\ UNCHANGED sessionTask
         /\ TaskPays(t) \/ TaskEnds(t) \/ TaskGoesOn(t)
  <1> USE DEF taskVars
  <1>1. UNCHANGED sessionTask
    BY DEF TaskStep, OpenSucceeds, RenewalOpens, SessionEnds, TaskCancelled,
           TaskUnwound, Frame, OpenFails, FramelessEnd, WindowEnds, HandleFailure
  <1>2. state \in LiveStates
    BY DEF TypeOK
  <1>3. ASSUME NEW reading \in Readings, HandleFailure(reading)
        PROVE  state'.sessionsToday = state.sessionsToday
    BY <1>2, <1>3 DEF HandleFailure, LiveStates
  <1>4. CASE OpenSucceeds(t)
    <2> DEFINE count == state.sessionsToday + 1
    <2>1. state' = [state EXCEPT !.status = "live", !.source = src[t],
                                 !.backoff = "none", !.sessionsToday = count]
      BY <1>4 DEF OpenSucceeds, PublishLive
    <2> HIDE DEF count
    <2>2. state'.sessionsToday = count
      BY <1>2, <2>1 DEF LiveStates
    <2>3. QED
      BY <1>4, <2>2 DEF OpenSucceeds, MayProgress, TaskPays, count
  <1>5. CASE RenewalOpens(t) \/ TaskCancelled(t) \/ TaskUnwound(t)
    BY <1>5 DEF RenewalOpens, TaskCancelled, TaskUnwound, MayProgress, TaskEnds,
                TaskGoesOn, Phases
  <1>6. CASE SessionEnds(t)
    <2>1. state'.sessionsToday = state.sessionsToday
      BY <1>2, <1>6 DEF SessionEnds, FinishState, LiveStates
    <2>2. QED
      BY <1>6, <2>1 DEF SessionEnds, MayProgress, TaskEnds
  <1>7. ASSUME NEW moved \in BOOLEAN, Frame(t, moved)
        PROVE  TaskGoesOn(t)
    <2>1. state'.sessionsToday = state.sessionsToday
      BY <1>2, <1>7 DEF Frame, NoteStreamAlive, LiveStates
    <2>2. QED
      BY <1>7, <2>1 DEF Frame, TaskGoesOn
  <1>8. ASSUME NEW reading \in Readings, OpenFails(t, reading) \/ FramelessEnd(t, reading)
        PROVE  TaskEnds(t) \/ TaskGoesOn(t)
    <2>1. state'.sessionsToday = state.sessionsToday
      BY <1>3, <1>8 DEF OpenFails, FramelessEnd
    <2>2. QED
      BY <1>8, <2>1 DEF OpenFails, FramelessEnd, MayProgress, TaskEnds, TaskGoesOn, Phases
  <1>9. ASSUME NEW reason \in EndReasons, NEW reading \in Readings,
               WindowEnds(t, reason, reading)
        PROVE  TaskGoesOn(t)
    <2>1. state'.sessionsToday = state.sessionsToday
      BY <1>2, <1>9 DEF WindowEnds, LiveStates
    <2>2. QED
      BY <1>9, <2>1 DEF WindowEnds, MayProgress, TaskGoesOn, Phases
  <1>10. QED
    BY <1>1, <1>4, <1>5, <1>6, <1>7, <1>8, <1>9 DEF TaskStep

LEMMA ResumeAndLease ==
  ASSUME TypeOK, OneSession, NEW r \in stops, StopResumes(r)
  PROVE  LeaseRests
  <1>1. ~Running
    BY DEF StopResumes, OneSession, WakeupFindsNothing, Running, TypeOK
  <1>2. state'.sessionsToday = state.sessionsToday
    BY DEF StopResumes, FinishState, TypeOK, LiveStates
  <1>3. QED
    BY <1>1, <1>2 DEF StopResumes, LeaseRests, taskVars

\* The next manager starts with no lease, and so did the one that stopped.
LEMMA SetupAndLease ==
  ASSUME TypeOK, OneSession, Quiet, Setup
  PROVE  /\ LeaseRests
         /\ state'.sessionsToday = 0
  <1>1. sessionTask = None /\ ~Running
    BY DEF Setup, Quiet, Running
  <1>2. phase' = phase
    <2>1. \A t \in Tasks : phase[t] = "done"
      BY <1>1, NothingRuns
    <2>2. QED
      BY <2>1 DEF Setup, TypeOK
  <1>3. state'.sessionsToday = 0
    BY DEF Setup, FreshState
  <1>4. QED
    BY <1>1, <1>2, <1>3 DEF LeaseRests, Setup

\* Every step of the manager, seen from the lease.
LEMMA StepAndLease ==
  ASSUME TypeOK, OneSession, Quiet, [Next]_vars
  PROVE  \/ LeaseRests \/ LeaseGranted
         \/ /\ UNCHANGED sessionTask
            /\ \E t \in Tasks : TaskPays(t) \/ TaskEnds(t) \/ TaskGoesOn(t)
  <1>1. CASE UNCHANGED vars
    BY <1>1 DEF vars, LeaseRests
  <1>2. CASE Next
    BY <1>2, TriggersAndLease, TaskAndLease, ResumeAndLease, SetupAndLease DEF Next
  <1>3. QED
    BY <1>1, <1>2

LEMMA AffordableStep ==
  ASSUME TypeOK, OneSession, Quiet, Affordable, [Next]_vars
  PROVE  Affordable'
  <1>1. state.sessionsToday \in Nat /\ MaxBudget \in Nat /\ 0 < MaxBudget
    BY BudgetAssumption DEF TypeOK, LiveStates
  <1>2. CASE LeaseRests
    <2>1. phase' = phase
      BY <1>2 DEF LeaseRests
    <2>2. state'.sessionsToday = state.sessionsToday \/ state'.sessionsToday = 0
      BY <1>2 DEF LeaseRests
    <2>3. QED
      BY <1>1, <2>1, <2>2 DEF Affordable
  <1>3. CASE LeaseGranted
    <2>1. state'.sessionsToday < MaxBudget
      BY <1>3 DEF LeaseGranted
    <2>2. state'.sessionsToday \in Nat
      BY <1>1, <1>3 DEF LeaseGranted
    <2>3. QED
      BY <1>1, <2>1, <2>2 DEF Affordable
  <1>4. ASSUME NEW t \in Tasks, TaskPays(t)
        PROVE  Affordable'
    <2>1. \A u \in Tasks : u # t => phase[u] = "done"
      BY <1>4, RunningTask DEF TaskPays
    <2>2. \A u \in Tasks : phase'[u] # "opening"
      BY <1>4, <2>1 DEF TaskPays, MoveTo, TypeOK
    <2>3. state.sessionsToday < MaxBudget
      BY <1>4 DEF TaskPays, Affordable
    <2>4. QED
      BY <1>1, <1>4, <2>2, <2>3 DEF TaskPays, Affordable
  <1>5. ASSUME NEW t \in Tasks, TaskEnds(t) \/ TaskGoesOn(t)
        PROVE  Affordable'
    <2>1. \A u \in Tasks : phase'[u] = "opening" => phase[u] = "opening"
      BY <1>5 DEF TaskEnds, TaskGoesOn, TaskDone, MoveTo, TypeOK
    <2>2. state'.sessionsToday = state.sessionsToday
      BY <1>5 DEF TaskEnds, TaskGoesOn
    <2>3. QED
      BY <2>1, <2>2 DEF Affordable
  <1>6. QED
    BY <1>2, <1>3, <1>4, <1>5, StepAndLease

LEMMA AffordableAlways ==
  ASSUME PromptWakeup
  PROVE  Spec => []Affordable
  <1>1. Init => Affordable
    BY BudgetAssumption DEF Init, Affordable, FreshState
  <1>2. TypeOK /\ OneSession /\ Quiet /\ Affordable /\ [Next]_vars => Affordable'
    BY AffordableStep
  <1>3. QED
    BY <1>1, <1>2, Typing, OneSessionAlways, QuietAlways, PTL DEF Spec

\* No step of the manager is anything but a step of the lease, or none at all.
LEMMA StepsLease ==
  ASSUME TypeOK, OneSession, Quiet, Affordable, [Next]_vars
  PROVE  [Lease!Acquire \/ Lease!Pay \/ Lease!Release \/ Lease!NewDay]_(Lease!leaseVars)
  <1>1. CASE LeaseRests
    BY <1>1, LeaseRestsOrNewDay
  <1>2. CASE LeaseGranted
    BY <1>2, LeaseIsAcquired
  <1>3. ASSUME NEW t \in Tasks, UNCHANGED sessionTask, TaskPays(t)
        PROVE  Lease!Pay
    <2>1. sessionTask = t /\ Running /\ t # None
      BY <1>3, RunningTask, NoneAssumption DEF TaskPays
    <2>2. phase'[t] = "streaming"
      BY <1>3 DEF TaskPays, MoveTo, TypeOK
    <2>3. /\ LeaseOwner = t /\ ~LeasePaid
          /\ LeaseOwner' = t /\ LeasePaid'
      BY <1>3, <2>1, <2>2 DEF TaskPays, LeaseOwner, LeasePaid, Running
    <2>4. state'.sessionsToday = state.sessionsToday + 1
      BY <1>3 DEF TaskPays
    <2>5. state'.sessionsToday <= MaxBudget
      <3>1. state.sessionsToday < MaxBudget
        BY <1>3 DEF TaskPays, Affordable
      <3>2. QED
        BY <2>4, <3>1, BudgetAssumption DEF TypeOK, LiveStates
    <2>6. LeasePaid' = TRUE
      BY <2>3 DEF LeasePaid
    <2>7. QED
      BY <2>1, <2>3, <2>4, <2>5, <2>6 DEF Lease!Pay
  <1>4. ASSUME NEW t \in Tasks, UNCHANGED sessionTask, TaskEnds(t)
        PROVE  Lease!Release
    <2>1. sessionTask = t /\ Running /\ t # None
      BY <1>4, RunningTask, NoneAssumption DEF TaskEnds
    <2>2. phase'[t] = "done"
      BY <1>4 DEF TaskEnds, TaskDone, TypeOK
    <2>3. LeaseOwner = t /\ LeaseOwner' = None /\ LeasePaid' = FALSE
      BY <1>4, <2>1, <2>2 DEF LeaseOwner, LeasePaid, Running
    <2>4. QED
      BY <1>4, <2>1, <2>3 DEF TaskEnds, Lease!Release
  <1>5. ASSUME NEW t \in Tasks, UNCHANGED sessionTask, TaskGoesOn(t)
        PROVE  UNCHANGED Lease!leaseVars
    <2>1. CASE UNCHANGED phase
      BY <1>5, <2>1 DEF TaskGoesOn, Lease!leaseVars, LeaseOwner, LeasePaid, Running
    <2>2. ASSUME NEW p \in Phases \ {"done", "opening"}, MoveTo(t, p),
                 phase[t] \notin {"done", "opening"}
          PROVE  UNCHANGED Lease!leaseVars
      <3>1. sessionTask = t /\ Running
        BY <2>2, RunningTask
      <3>2. phase'[t] = p
        BY <2>2 DEF MoveTo, TypeOK
      <3>3. UNCHANGED LeaseOwner /\ LeasePaid = TRUE /\ LeasePaid' = TRUE
        BY <1>5, <2>2, <3>1, <3>2, NoneAssumption DEF LeaseOwner, LeasePaid, Running
      <3>4. QED
        BY <1>5, <3>3 DEF TaskGoesOn, Lease!leaseVars
    <2>3. QED
      BY <1>5, <2>1, <2>2 DEF TaskGoesOn
  <1>6. QED
    BY <1>1, <1>2, <1>3, <1>4, <1>5, StepAndLease

\* The manager implements the lease: one session at a time, each counted once when its
\* socket opens (_publish_live), whatever ends it, and none begun on a day whose
\* allowance is used up, over renewals, failures, unloads and reloads.
THEOREM ManagerIsALease ==
  ASSUME PromptWakeup
  PROVE  Spec => LeaseSpec
  <1>1. Init => Lease!Init
    BY DEF Init, Lease!Init, LeaseOwner, LeasePaid, Running, FreshState
  <1>2. TypeOK /\ OneSession /\ Quiet /\ Affordable /\ [Next]_vars =>
          [Lease!Acquire \/ Lease!Pay \/ Lease!Release \/ Lease!NewDay]_(Lease!leaseVars)
    BY StepsLease
  <1>3. QED
    BY <1>1, <1>2, Typing, OneSessionAlways, QuietAlways, AffordableAlways, PTL
       DEF Spec, LeaseSpec, Lease!Spec

-----------------------------------------------------------------------------
(* What the entities show.  The status and the source are published by the *)
(* task that holds the socket and withdrawn by whoever ends it; the timers *)
(* that must end a backoff or a forgotten switch are armed in the same     *)
(* step and outlive the session.                                           *)

Holding(t) == phase[t] \in {"streaming", "renewing", "ending"}

SourceKnown == \A t \in Tasks : phase[t] # "done" => src[t] # None

\* Only the unload cancels a session without publishing the idle state.
QuietStopsUnload == \A r \in stops : ~r.idle => stopping

TasksAreShown ==
  \A t \in Tasks : Holding(t) => state.status = "live" /\ state.source = src[t]

LiveIsHeld ==
  state.status = "live" => stopping \/ stops # {} \/ \E t \in Tasks : Holding(t)

Coherent(s) ==
  /\ s.source # None <=> s.status = "live"
  /\ s.status = "backoff" <=> s.backoff # "none"

EndsByTimer(s, armed) ==
  /\ s.status = "backoff" => armed.backoff
  /\ s.liveView => armed.viewCap

Shown ==
  /\ SourceKnown /\ QuietStopsUnload
  /\ TasksAreShown /\ LiveIsHeld
  /\ Coherent(state)
  /\ ~stopping => EndsByTimer(state, timer)

\* Who holds the socket, and for whom, is what it was.
SameHolders ==
  /\ \A t \in Tasks : Holding(t)' <=> Holding(t)
  /\ \A t \in Tasks : Holding(t) => src'[t] = src[t]

LEMMA SameHoldersShown ==
  ASSUME Shown, SameHolders, UNCHANGED stopping, stops \subseteq stops',
         state'.status = state.status, state'.source = state.source
  PROVE  TasksAreShown' /\ LiveIsHeld'
  BY DEF Shown, SameHolders, TasksAreShown, LiveIsHeld

\* A request, granted or refused, on a state the caller made coherent.
LEMMA GrantIsShown ==
  ASSUME TypeOK, Shown, UNCHANGED <<stops, stopping>>,
         NoGrant \/ (~Running /\ \E source \in Sources : StartSession(source))
  PROVE  SourceKnown' /\ QuietStopsUnload' /\ SameHolders
  <1>1. QuietStopsUnload'
    BY DEF Shown, QuietStopsUnload
  <1>2. CASE NoGrant
    BY <1>1, <1>2 DEF NoGrant, Shown, SourceKnown, SameHolders, Holding
  <1>3. ASSUME NEW source \in Sources, StartSession(source)
        PROVE  SourceKnown' /\ SameHolders
    <2>1. PICK t \in Tasks : /\ phase[t] = "done"
                             /\ phase' = [phase EXCEPT ![t] = "opening"]
                             /\ src' = [src EXCEPT ![t] = source]
      BY <1>3 DEF StartSession
    <2>2. source # None
      BY NoneAssumption
    <2>3. SourceKnown'
      BY <2>1, <2>2 DEF TypeOK, Shown, SourceKnown
    <2>4. \A u \in Tasks : Holding(u)' <=> Holding(u)
      BY <2>1 DEF TypeOK, Holding
    <2>5. \A u \in Tasks : Holding(u) => src'[u] = src[u]
      BY <2>1 DEF TypeOK, Holding
    <2>6. QED
      BY <2>3, <2>4, <2>5 DEF SameHolders
  <1>4. QED
    BY <1>1, <1>2, <1>3

LEMMA RollIsCoherent ==
  ASSUME NEW s \in LiveStates
  PROVE  /\ RollState(s).status = s.status
         /\ RollState(s).source = s.source
         /\ RollState(s).backoff = s.backoff
         /\ RollState(s).liveView = s.liveView
  BY DEF RollState, LiveStates

\* A pass or a trigger that publishes the same status, and keeps the timers that count.
LEMMA TriggerIsShown ==
  ASSUME TypeOK, Shown, UNCHANGED <<stops, stopping>>,
         NoGrant \/ (~Running /\ \E source \in Sources : StartSession(source)),
         state'.status = state.status, state'.source = state.source,
         state'.backoff = state.backoff,
         timer'.backoff = timer.backoff,
         state'.liveView /\ ~stopping => timer'.viewCap
  PROVE  Shown'
  <1>1. SourceKnown' /\ QuietStopsUnload' /\ SameHolders
    BY GrantIsShown
  <1>2. TasksAreShown' /\ LiveIsHeld'
    BY <1>1, SameHoldersShown
  <1>3. QED
    BY <1>1, <1>2 DEF Shown, Coherent, EndsByTimer

\* A release, an unload, or nothing to release.  s and armed are what the caller has
\* just published: the same status, the timers that must end it.
LEMMA StopIsShown ==
  ASSUME TypeOK, OneSession, Shown, UNCHANGED taskVars,
         NEW s \in LiveStates, NEW armed \in Timers, NEW publishIdle \in BOOLEAN,
         s.status = state.status, s.source = state.source, s.backoff = state.backoff,
         stopping => stopping',
         ~publishIdle => stopping',
         ~stopping' => EndsByTimer(s, armed),
         Stop(s, armed, publishIdle) \/ (publishIdle /\ Keep(s, armed))
  PROVE  Shown'
  <1> USE DEF taskVars
  <1>1. SourceKnown' /\ SameHolders
    BY DEF Shown, SourceKnown, SameHolders, Holding
  <1>2. Coherent(s)
    BY DEF Shown, Coherent
  <1>3. CASE Keep(s, armed)
    BY <1>1, <1>2, <1>3 DEF Keep, Shown, QuietStopsUnload, TasksAreShown, LiveIsHeld,
                            SameHolders
  <1>4. CASE Running /\ Stop(s, armed, publishIdle)
    <2>1. /\ stops' = stops \cup {[task |-> sessionTask, idle |-> publishIdle]}
          /\ state' = s /\ timer' = armed
      BY <1>4 DEF Stop
    <2>2. QuietStopsUnload'
      BY <2>1 DEF Shown, QuietStopsUnload
    <2>3. TasksAreShown'
      BY <1>1, <2>1 DEF Shown, TasksAreShown, SameHolders
    <2>4. LiveIsHeld'
      BY <2>1 DEF LiveIsHeld
    <2>5. QED
      BY <1>1, <1>2, <2>1, <2>2, <2>3, <2>4 DEF Shown
  <1>5. CASE ~Running /\ Stop(s, armed, publishIdle)
    <2>1. \A t \in Tasks : phase'[t] = "done"
      BY <1>5, NothingRuns
    <2> DEFINE ended == IF publishIdle THEN FinishState(s) ELSE s
               left == IF publishIdle THEN FinishTimers(s, armed) ELSE armed
    <2>2. UNCHANGED stops /\ state' = ended /\ timer' = [left EXCEPT !.window = FALSE]
      BY <1>5 DEF Stop
    <2>3. Coherent(ended) /\ (publishIdle => ended.status # "live")
      BY <1>2 DEF Coherent, FinishState, LiveStates
    <2>4. left \in Timers /\ (~stopping' => EndsByTimer(ended, left))
      <3>1. left \in Timers
        BY FinishTyped
      <3>2. EndsByTimer(s, armed) => EndsByTimer(FinishState(s), FinishTimers(s, armed))
        BY DEF EndsByTimer, FinishState, FinishTimers, LiveStates, Timers
      <3>3. QED
        BY <3>1, <3>2
    <2> HIDE DEF ended, left
    <2>5. ~stopping' => EndsByTimer(state', timer')
      BY <2>2, <2>4 DEF EndsByTimer, Timers
    <2>6. QuietStopsUnload'
      BY <2>2 DEF Shown, QuietStopsUnload
    <2>7. TasksAreShown' /\ LiveIsHeld'
      BY <2>1, <2>2, <2>3 DEF TasksAreShown, LiveIsHeld, Holding
    <2>8. QED
      BY <1>1, <2>2, <2>3, <2>5, <2>6, <2>7 DEF Shown
  <1>6. QED
    BY <1>3, <1>4, <1>5

LEMMA RequestIsShown ==
  ASSUME TypeOK, Shown, UNCHANGED <<stops, stopping>>,
         NEW source \in Sources, NEW s \in LiveStates, NEW reading,
         Request(source, s, reading),
         s.status = state.status, s.source = state.source, s.backoff = state.backoff,
         timer'.backoff = timer.backoff,
         s.liveView /\ ~stopping => timer'.viewCap
  PROVE  Shown'
  <1>1. /\ state'.status = state.status /\ state'.source = state.source
        /\ state'.backoff = state.backoff /\ state'.liveView = s.liveView
    BY RollIsCoherent DEF Request
  <1>2. NoGrant \/ (~Running /\ \E other \in Sources : StartSession(other))
    BY DEF Request, CanGrant
  <1>3. QED
    BY <1>1, <1>2, TriggerIsShown

LEMMA UserIsShown ==
  ASSUME TypeOK, OneSession, Shown, UserStep
  PROVE  Shown'
  <1> USE DEF taskVars
  <1>1. ~stopping => EndsByTimer(state, timer)
    BY DEF Shown
  <1>2. ASSUME NEW reading \in Readings, LiveViewOn(reading)
        PROVE  Shown'
    <2> DEFINE s == [state EXCEPT !.liveView = TRUE]
    <2>1. /\ s \in LiveStates /\ s.status = state.status
          /\ s.source = state.source /\ s.backoff = state.backoff
      BY DEF TypeOK, LiveStates
    <2>2. timer'.viewCap = TRUE /\ timer'.backoff = timer.backoff
      BY <1>2 DEF LiveViewOn, TypeOK, Timers
    <2>3. Request("manual", s, reading) /\ UNCHANGED <<stops, stopping>>
      BY <1>2 DEF LiveViewOn
    <2> HIDE DEF s
    <2>4. QED
      BY <2>1, <2>2, <2>3, RequestIsShown DEF Sources
  <1>3. ASSUME NEW reading \in Readings, ContinuousOn(reading)
        PROVE  Shown'
    <2>1. state.liveView /\ ~stopping => timer'.viewCap
      BY <1>1, <1>3 DEF ContinuousOn, EndsByTimer
    <2>2. QED
      BY <1>3, <2>1, RequestIsShown DEF ContinuousOn, Sources, TypeOK
  <1>4. ASSUME EndLiveView
        PROVE  Shown'
    <2> DEFINE s == [state EXCEPT !.liveView = FALSE]
               armed == [timer EXCEPT !.viewCap = FALSE]
    <2>1. /\ s \in LiveStates /\ s.status = state.status /\ s.liveView = FALSE
          /\ s.source = state.source /\ s.backoff = state.backoff
      BY DEF TypeOK, LiveStates
    <2>2. armed \in Timers /\ armed.backoff = timer.backoff
      BY DEF TypeOK, Timers
    <2>3. ~stopping => EndsByTimer(s, armed)
      BY <1>1, <2>1, <2>2 DEF EndsByTimer
    <2>4. /\ Stop(s, armed, TRUE) \/ Keep(s, armed)
          /\ UNCHANGED <<taskVars, stopping>>
      BY <1>4 DEF EndLiveView, ReleaseHold
    <2> HIDE DEF s, armed
    <2>5. QED
      BY <2>1, <2>2, <2>3, <2>4, StopIsShown
  <1>5. CASE ContinuousOff
    <2>1. /\ Stop(state, timer, TRUE) \/ Keep(state, timer)
          /\ UNCHANGED <<taskVars, stopping>>
      BY <1>5 DEF ContinuousOff, ReleaseHold
    <2>2. QED
      BY <1>1, <2>1, StopIsShown DEF TypeOK
  <1>6. CASE SmartWindowsOff
    <2> DEFINE armed == [timer EXCEPT !.smart = FALSE]
    <2>1. /\ armed \in Timers /\ armed.backoff = timer.backoff
          /\ armed.viewCap = timer.viewCap
      BY DEF TypeOK, Timers
    <2>2. ~stopping => EndsByTimer(state, armed)
      BY <1>1, <2>1 DEF EndsByTimer
    <2>3. /\ Stop(state, armed, TRUE) \/ Keep(state, armed)
          /\ UNCHANGED <<taskVars, stopping>>
      BY <1>6 DEF SmartWindowsOff, ReleaseSmartHold
    <2> HIDE DEF armed
    <2>4. QED
      BY <2>1, <2>2, <2>3, StopIsShown DEF TypeOK
  <1>7. CASE SmartWindowsOn \/ SetMinGap \/ \E n \in RawBudgets : SetSessionsPerDay(n)
    <2>1. /\ state'.status = state.status /\ state'.source = state.source
          /\ state'.backoff = state.backoff /\ state'.liveView = state.liveView
      BY <1>7 DEF SmartWindowsOn, SetMinGap, SetSessionsPerDay, TypeOK, LiveStates
    <2>2. timer'.backoff = timer.backoff /\ timer'.viewCap = timer.viewCap
      BY <1>7 DEF SmartWindowsOn, SetMinGap, SetSessionsPerDay, TypeOK, Timers
    <2>3. NoGrant /\ UNCHANGED <<stops, stopping>>
      BY <1>7 DEF SmartWindowsOn, SetMinGap, SetSessionsPerDay, NoGrant
    <2>4. QED
      BY <1>1, <2>1, <2>2, <2>3, TriggerIsShown DEF EndsByTimer
  <1>8. QED
    BY <1>2, <1>3, <1>4, <1>5, <1>6, <1>7 DEF UserStep, LiveViewOff

LEMMA PassIsShown ==
  ASSUME TypeOK, Shown, PassStep
  PROVE  Shown'
  <1>1. ~stopping => EndsByTimer(state, timer)
    BY DEF Shown
  <1>2. ASSUME NEW reading \in Readings, NEW regen \in RegenReadings,
               NEW usage \in UsageReadings, EvaluateFast(regen, usage, reading)
        PROVE  Shown'
    <2>1. state' = RollState(state) /\ UNCHANGED <<stops, stopping, timer>>
      BY <1>2 DEF EvaluateFast
    <2>2. NoGrant \/ (~Running /\ \E source \in Sources : StartSession(source))
      BY <1>2 DEF EvaluateFast, CanGrant
    <2>3. QED
      BY <1>1, <2>1, <2>2, RollIsCoherent, TriggerIsShown DEF EndsByTimer, TypeOK
  <1>3. ASSUME NEW reading \in Readings, NEW anomaly \in AnomalyReadings,
               EvaluateEngine(anomaly, reading)
        PROVE  Shown'
    <2>1. /\ timer'.backoff = timer.backoff /\ timer'.viewCap = timer.viewCap
          /\ UNCHANGED <<stops, stopping>>
      BY <1>3 DEF EvaluateEngine, TypeOK, Timers
    <2>2. CASE Request("anomaly", state, reading)
      BY <1>1, <2>1, <2>2, RequestIsShown DEF Sources, EndsByTimer, TypeOK
    <2>3. CASE state' = RollState(state) /\ NoGrant
      BY <1>1, <2>1, <2>3, RollIsCoherent, TriggerIsShown DEF EndsByTimer, TypeOK
    <2>4. QED
      BY <1>3, <2>2, <2>3 DEF EvaluateEngine
  <1>4. QED
    BY <1>2, <1>3 DEF PassStep

LEMMA TimerIsShown ==
  ASSUME TypeOK, OneSession, Shown, TimerStep
  PROVE  Shown'
  <1> USE DEF taskVars
  <1>1. ~stopping => EndsByTimer(state, timer)
    BY DEF Shown
  <1>2. ASSUME NEW reading \in Readings, SmartTimerFires(reading)
        PROVE  Shown'
    <2>1. timer'.backoff = timer.backoff /\ timer'.viewCap = timer.viewCap
      BY <1>2 DEF SmartTimerFires, TypeOK, Timers
    <2>2. QED
      BY <1>1, <1>2, <2>1, RequestIsShown DEF SmartTimerFires, Sources, EndsByTimer, TypeOK
  <1>3. CASE ViewCapFires
    <2>1. CASE state.liveView
      <3> DEFINE s == [state EXCEPT !.liveView = FALSE]
                 armed == [timer EXCEPT !.viewCap = FALSE]
      <3>1. /\ s \in LiveStates /\ s.status = state.status /\ s.liveView = FALSE
            /\ s.source = state.source /\ s.backoff = state.backoff
        BY DEF TypeOK, LiveStates
      <3>2. armed \in Timers /\ armed.backoff = timer.backoff
        BY DEF TypeOK, Timers
      <3>3. ~stopping => EndsByTimer(s, armed)
        BY <1>1, <3>1, <3>2 DEF EndsByTimer
      <3>4. /\ Stop(s, armed, TRUE) \/ Keep(s, armed)
            /\ UNCHANGED <<taskVars, stopping>>
        BY <1>3, <2>1 DEF ViewCapFires, EndLiveView, ReleaseHold
      <3> HIDE DEF s, armed
      <3>5. QED
        BY <3>1, <3>2, <3>3, <3>4, StopIsShown
    <2>2. CASE ~state.liveView
      <3>1. NoGrant /\ UNCHANGED <<stops, stopping, state>>
            /\ timer'.backoff = timer.backoff
        BY <1>3, <2>2 DEF ViewCapFires, NoGrant, TypeOK, Timers
      <3>2. QED
        BY <2>2, <3>1, TriggerIsShown
    <2>3. QED
      BY <2>1, <2>2
  <1>4. ASSUME NEW reading \in Readings, BackoffTimerFires(reading)
        PROVE  Shown'
    <2> DEFINE s == [state EXCEPT !.status = "idle", !.backoff = "none"]
               asked == ResumableHold(s, config)
    <2>1. timer'.backoff = FALSE /\ timer'.viewCap = timer.viewCap
      BY <1>4 DEF BackoffTimerFires, TypeOK, Timers
    <2>2. UNCHANGED <<stops, stopping>>
      BY <1>4 DEF BackoffTimerFires
    <2>3. /\ s \in LiveStates /\ s.status = "idle" /\ s.backoff = "none"
          /\ s.source = state.source /\ s.liveView = state.liveView
      BY DEF TypeOK, LiveStates
    <2>4. asked # None => asked \in Sources
      BY HoldTyped
    <2> HIDE DEF s, asked
    <2>5. CASE state.status # "backoff"
      <3>1. NoGrant /\ UNCHANGED state
        BY <1>4, <2>5 DEF BackoffTimerFires
      <3>2. SourceKnown' /\ QuietStopsUnload' /\ SameHolders
        BY <2>2, <3>1, GrantIsShown
      <3>3. TasksAreShown' /\ LiveIsHeld'
        BY <2>2, <3>1, <3>2, SameHoldersShown
      <3>4. ~stopping => EndsByTimer(state', timer')
        BY <1>1, <2>1, <2>5, <3>1 DEF EndsByTimer
      <3>5. QED
        BY <2>2, <3>1, <3>2, <3>3, <3>4 DEF Shown
    <2>6. CASE state.status = "backoff"
      <3>1. \/ asked # None /\ Request(asked, s, reading)
            \/ state' = s /\ NoGrant
        BY <1>4, <2>6 DEF BackoffTimerFires, s, asked
      <3>2. /\ state'.status = "idle" /\ state'.backoff = "none"
            /\ state'.source = state.source /\ state'.liveView = state.liveView
        BY <2>3, <3>1, RollIsCoherent DEF Request
      <3>3. NoGrant \/ (~Running /\ \E source \in Sources : StartSession(source))
        BY <2>4, <3>1 DEF Request, CanGrant
      <3>4. SourceKnown' /\ QuietStopsUnload' /\ SameHolders
        BY <2>2, <3>3, GrantIsShown
      <3>5. \A t \in Tasks : ~Holding(t)
        BY <2>6 DEF Shown, TasksAreShown
      <3>6. TasksAreShown' /\ LiveIsHeld'
        BY <3>2, <3>4, <3>5 DEF SameHolders, TasksAreShown, LiveIsHeld
      <3>7. state.source = None
        BY <2>6 DEF Shown, Coherent
      <3>8. Coherent(state)'
        BY <3>2, <3>7 DEF Coherent
      <3>9. ~stopping => EndsByTimer(state', timer')
        BY <1>1, <2>1, <3>2 DEF EndsByTimer
      <3>10. QED
        BY <2>2, <3>4, <3>6, <3>8, <3>9 DEF Shown
    <2>7. QED
      BY <2>5, <2>6
  <1>5. CASE WindowTimerFires
    <2>1. /\ NoGrant /\ UNCHANGED <<stops, stopping, state>>
          /\ timer'.backoff = timer.backoff /\ timer'.viewCap = timer.viewCap
      BY <1>5 DEF WindowTimerFires, NoGrant, TypeOK, Timers
    <2>2. QED
      BY <1>1, <2>1, TriggerIsShown DEF EndsByTimer
  <1>6. QED
    BY <1>2, <1>3, <1>4, <1>5 DEF TimerStep

\* A step of the task that ends it, for a state published as not live any more or a
\* cancellation somebody still awaits.
LEMMA LastTaskEnds ==
  ASSUME TypeOK, OneSession, Shown, NEW t \in Tasks, phase[t] # "done",
         UNCHANGED <<stops, stopping>>,
         TaskDone(t) \/ MoveTo(t, "unwinding"),
         state'.status = "live" => stops # {}
  PROVE  SourceKnown' /\ QuietStopsUnload' /\ TasksAreShown' /\ LiveIsHeld'
  <1>1. \A u \in Tasks : u # t => phase[u] = "done"
    BY RunningTask
  <1>2. \A u \in Tasks : ~Holding(u)'
    BY <1>1 DEF TaskDone, MoveTo, Holding, TypeOK
  <1>3. SourceKnown'
    BY <1>1 DEF TaskDone, MoveTo, Shown, SourceKnown, TypeOK
  <1>4. QED
    BY <1>2, <1>3 DEF Shown, QuietStopsUnload, TasksAreShown, LiveIsHeld

\* A step of the task that keeps the socket.
LEMMA HolderStays ==
  ASSUME TypeOK, Shown, NEW t \in Tasks, Holding(t),
         UNCHANGED <<stops, stopping>>,
         \/ UNCHANGED taskVars
         \/ \E p \in {"streaming", "renewing", "ending"} : MoveTo(t, p)
  PROVE  SourceKnown' /\ QuietStopsUnload' /\ SameHolders
  <1>1. UNCHANGED src
    BY DEF taskVars, MoveTo
  <1>2. \A u \in Tasks : phase'[u] = phase[u] \/ (Holding(u) /\ Holding(u)')
    BY DEF taskVars, MoveTo, Holding, TypeOK
  <1>3. QED
    BY <1>1, <1>2 DEF Shown, SourceKnown, QuietStopsUnload, SameHolders, Holding

LEMMA TaskIsShown ==
  ASSUME TypeOK, OneSession, Shown, NEW t \in Tasks, TaskStep(t)
  PROVE  Shown'
  <1> USE DEF taskVars
  <1>1. ~stopping => EndsByTimer(state, timer)
    BY DEF Shown
  <1>2. CASE OpenSucceeds(t)
    <2>1. /\ phase[t] = "opening" /\ MoveTo(t, "streaming")
          /\ UNCHANGED <<stops, stopping>>
          /\ state' = PublishLive(state, src[t])
          /\ timer' = [timer EXCEPT !.window = TRUE]
      BY <1>2 DEF OpenSucceeds, MayProgress
    <2>2. /\ state'.status = "live" /\ state'.source = src[t] /\ state'.backoff = "none"
          /\ state'.liveView = state.liveView
      <3> DEFINE count == state.sessionsToday + 1
      <3>1. state' = [state EXCEPT !.status = "live", !.source = src[t],
                                   !.backoff = "none", !.sessionsToday = count]
        BY <2>1 DEF PublishLive
      <3> HIDE DEF count
      <3>2. QED
        BY <3>1 DEF TypeOK, LiveStates
    <2>3. timer'.viewCap = timer.viewCap
      BY <2>1 DEF TypeOK, Timers
    <2>4. \A u \in Tasks : u # t => phase[u] = "done"
      BY <2>1, RunningTask
    <2>5. src[t] # None
      BY <2>1 DEF Shown, SourceKnown
    <2>6. SourceKnown' /\ QuietStopsUnload'
      BY <2>1, <2>4, <2>5 DEF MoveTo, Shown, SourceKnown, QuietStopsUnload, TypeOK
    <2>7. TasksAreShown' /\ LiveIsHeld'
      BY <2>1, <2>2, <2>4 DEF MoveTo, TasksAreShown, LiveIsHeld, Holding, TypeOK
    <2>8. QED
      BY <1>1, <2>1, <2>2, <2>3, <2>5, <2>6, <2>7 DEF Shown, Coherent, EndsByTimer
  <1>3. CASE RenewalOpens(t)
    <2>1. /\ Holding(t) /\ MoveTo(t, "streaming")
          /\ UNCHANGED <<stops, stopping, state>>
      BY <1>3 DEF RenewalOpens, MayProgress, Holding
    <2>2. timer'.backoff = timer.backoff /\ timer'.viewCap = timer.viewCap
      BY <1>3 DEF RenewalOpens, TypeOK, Timers
    <2>3. SourceKnown' /\ QuietStopsUnload' /\ SameHolders
      BY <2>1, HolderStays
    <2>4. TasksAreShown' /\ LiveIsHeld'
      BY <2>1, <2>3, SameHoldersShown
    <2>5. QED
      BY <1>1, <2>1, <2>2, <2>3, <2>4 DEF Shown, Coherent, EndsByTimer
  <1>4. CASE SessionEnds(t)
    <2>1. /\ phase[t] # "done" /\ TaskDone(t)
          /\ UNCHANGED <<stops, stopping>>
          /\ state' = FinishState(state)
          /\ timer' = FinishTimers(state, [timer EXCEPT !.window = FALSE])
      BY <1>4 DEF SessionEnds, MayProgress
    <2>2. Coherent(state') /\ state'.status # "live"
      BY <2>1 DEF Shown, Coherent, FinishState, TypeOK, LiveStates
    <2>3. ~stopping => EndsByTimer(state', timer')
      BY <1>1, <2>1 DEF EndsByTimer, FinishState, FinishTimers, TypeOK, LiveStates, Timers
    <2>4. QED
      BY <2>1, <2>2, <2>3, LastTaskEnds DEF Shown
  <1>5. CASE TaskCancelled(t)
    <2>1. /\ phase[t] # "done" /\ (TaskDone(t) \/ MoveTo(t, "unwinding"))
          /\ UNCHANGED <<stops, stopping, state>> /\ stops # {}
      BY <1>5 DEF TaskCancelled, Cancelled
    <2>2. timer'.backoff = timer.backoff /\ timer'.viewCap = timer.viewCap
      BY <1>5 DEF TaskCancelled, TypeOK, Timers
    <2>3. QED
      BY <1>1, <2>1, <2>2, LastTaskEnds DEF Shown, Coherent, EndsByTimer
  <1>6. CASE TaskUnwound(t)
    <2>1. /\ phase[t] = "unwinding" /\ TaskDone(t)
          /\ UNCHANGED <<stops, stopping, state, timer>>
      BY <1>6 DEF TaskUnwound
    <2>2. \A u \in Tasks : ~Holding(u)
      BY <2>1, RunningTask DEF Holding
    <2>3. state.status = "live" => stops # {} \/ stopping
      BY <2>2 DEF Shown, LiveIsHeld
    <2>4. SourceKnown' /\ \A u \in Tasks : ~Holding(u)'
      BY <2>1, <2>2 DEF TaskDone, Holding, Shown, SourceKnown, TypeOK
    <2>5. QED
      BY <2>1, <2>3, <2>4 DEF Shown, QuietStopsUnload, TasksAreShown, LiveIsHeld,
                              Coherent, EndsByTimer
  <1>7. ASSUME NEW moved \in BOOLEAN, Frame(t, moved)
        PROVE  Shown'
    <2>1. Holding(t) /\ UNCHANGED <<taskVars, stops, stopping>>
      BY <1>7 DEF Frame, MayProgress, Holding
    <2>2. state.status = "live"
      BY <2>1 DEF Shown, TasksAreShown
    <2>3. /\ state'.status = state.status /\ state'.source = state.source
          /\ state'.backoff = "none" /\ state'.liveView = state.liveView
          /\ timer'.viewCap = timer.viewCap
      <3>1. CASE UNCHANGED <<state, timer>>
        BY <2>2, <3>1 DEF Shown, Coherent
      <3>2. CASE /\ state' = [state EXCEPT !.failures = 0, !.backoff = "none"]
                 /\ timer' = [timer EXCEPT !.backoff = FALSE]
        BY <3>2 DEF TypeOK, LiveStates, Timers
      <3>3. QED
        BY <1>7, <3>1, <3>2 DEF Frame, NoteStreamAlive
    <2>4. SourceKnown' /\ QuietStopsUnload' /\ SameHolders
      BY <2>1, HolderStays
    <2>5. TasksAreShown' /\ LiveIsHeld'
      BY <2>1, <2>3, <2>4, SameHoldersShown
    <2>6. QED
      BY <1>1, <2>1, <2>2, <2>3, <2>4, <2>5 DEF Shown, Coherent, EndsByTimer
  <1>8. ASSUME NEW reading \in Readings, OpenFails(t, reading) \/ FramelessEnd(t, reading)
        PROVE  Shown'
    <2>1. /\ phase[t] # "done" /\ (TaskDone(t) \/ MoveTo(t, "unwinding"))
          /\ HandleFailure(reading)
      BY <1>8 DEF OpenFails, FramelessEnd, MayProgress
    <2>2. UNCHANGED <<stops, stopping>>
      BY <2>1 DEF HandleFailure
    <2>3. /\ state'.status = "backoff" /\ state'.source = None
          /\ state'.backoff = "pending" /\ state'.liveView = state.liveView
      BY <2>1 DEF HandleFailure, TypeOK, LiveStates
    <2>4. timer'.backoff = TRUE /\ timer'.viewCap = timer.viewCap
      BY <2>1 DEF HandleFailure, TypeOK, Timers
    <2>5. SourceKnown' /\ QuietStopsUnload' /\ TasksAreShown' /\ LiveIsHeld'
      BY <2>1, <2>2, <2>3, LastTaskEnds
    <2>6. QED
      BY <1>1, <2>2, <2>3, <2>4, <2>5 DEF Shown, Coherent, EndsByTimer
  <1>9. ASSUME NEW reason \in EndReasons, NEW reading \in Readings,
               WindowEnds(t, reason, reading)
        PROVE  Shown'
    <2>1. /\ Holding(t) /\ UNCHANGED <<stops, stopping>>
          /\ \E p \in {"streaming", "renewing", "ending"} : MoveTo(t, p)
      BY <1>9 DEF WindowEnds, MayProgress, Holding
    <2>2. /\ state'.status = state.status /\ state'.source = state.source
          /\ state'.backoff = state.backoff /\ state'.liveView = state.liveView
      BY <1>9 DEF WindowEnds, TypeOK, LiveStates
    <2>3. timer'.backoff = timer.backoff /\ timer'.viewCap = timer.viewCap
      BY <1>9 DEF WindowEnds, TypeOK, Timers
    <2>4. SourceKnown' /\ QuietStopsUnload' /\ SameHolders
      BY <2>1, HolderStays
    <2>5. TasksAreShown' /\ LiveIsHeld'
      BY <2>1, <2>2, <2>4, SameHoldersShown
    <2>6. QED
      BY <1>1, <2>1, <2>2, <2>3, <2>4, <2>5 DEF Shown, Coherent, EndsByTimer
  <1>10. QED
    BY <1>2, <1>3, <1>4, <1>5, <1>6, <1>7, <1>8, <1>9 DEF TaskStep

LEMMA RestIsShown ==
  ASSUME TypeOK, OneSession, Shown,
         TimeStep \/ (\E r \in stops : StopResumes(r)) \/ Shutdown \/ Setup
  PROVE  Shown'
  <1> USE DEF taskVars
  <1>1. ~stopping => EndsByTimer(state, timer)
    BY DEF Shown
  <1>2. CASE TimeStep
    <2>1. UNCHANGED <<phase, src, sessionTask, stops, timer, stopping>>
      BY <1>2 DEF TimeStep, Pass, GapElapses, BackoffElapses, CooldownElapses,
                  DayTurns, HourTurns
    <2>2. /\ state'.status = state.status /\ state'.source = state.source
          /\ state'.liveView = state.liveView
          /\ state'.backoff = "none" <=> state.backoff = "none"
      BY <1>2 DEF TimeStep, Pass, GapElapses, BackoffElapses, CooldownElapses,
                  DayTurns, HourTurns, TypeOK, LiveStates
    <2>3. QED
      BY <1>1, <2>1, <2>2 DEF Shown, SourceKnown, QuietStopsUnload, TasksAreShown,
                              LiveIsHeld, Holding, Coherent, EndsByTimer
  <1>3. ASSUME NEW r \in stops, StopResumes(r)
        PROVE  Shown'
    <2> DEFINE ended == IF r.idle THEN FinishState(state) ELSE state
               left == IF r.idle THEN FinishTimers(state, timer) ELSE timer
    <2>1. /\ stops' = stops \ {r} /\ UNCHANGED <<phase, src, stopping>>
          /\ state' = ended /\ timer' = [left EXCEPT !.window = FALSE]
      BY <1>3 DEF StopResumes
    <2>2. \A t \in Tasks : phase'[t] = "done"
      BY <1>3 DEF StopResumes, OneSession, WakeupFindsNothing
    <2>3. Coherent(ended) /\ (ended.status = "live" => stopping)
      BY DEF Shown, QuietStopsUnload, Coherent, FinishState, TypeOK, LiveStates
    <2>4. left \in Timers /\ (~stopping => EndsByTimer(ended, left))
      <3>1. left \in Timers
        BY FinishTyped DEF TypeOK
      <3>2. EndsByTimer(state, timer) =>
              EndsByTimer(FinishState(state), FinishTimers(state, timer))
        BY DEF EndsByTimer, FinishState, FinishTimers, TypeOK, LiveStates, Timers
      <3>3. QED
        BY <1>1, <3>1, <3>2
    <2> HIDE DEF ended, left
    <2>5. ~stopping' => EndsByTimer(state', timer')
      BY <2>1, <2>4 DEF EndsByTimer, Timers
    <2>6. SourceKnown' /\ QuietStopsUnload' /\ TasksAreShown' /\ LiveIsHeld'
      BY <2>1, <2>2, <2>3 DEF Shown, SourceKnown, QuietStopsUnload, TasksAreShown,
                              LiveIsHeld, Holding
    <2>7. QED
      BY <2>1, <2>3, <2>5, <2>6 DEF Shown
  <1>4. CASE Shutdown
    <2>1. stopping' = TRUE /\ Stop(state, NoTimers, FALSE) /\ UNCHANGED taskVars
      BY <1>4 DEF Shutdown
    <2>2. state \in LiveStates /\ NoTimers \in Timers
      BY DEF TypeOK, NoTimers, Timers
    <2>3. QED
      BY <2>1, <2>2, StopIsShown
  <1>5. CASE Setup
    <2>1. /\ phase' = [t \in Tasks |-> "done"] /\ state' = FreshState
          /\ stops' = {} /\ stops = {}
      BY <1>5 DEF Setup
    <2>2. SourceKnown' /\ QuietStopsUnload' /\ TasksAreShown'
      BY <2>1 DEF SourceKnown, QuietStopsUnload, TasksAreShown, Holding
    <2>3. LiveIsHeld' /\ Coherent(state)' /\ EndsByTimer(state, timer)'
      BY <2>1 DEF LiveIsHeld, Coherent, EndsByTimer, FreshState
    <2>4. QED
      BY <2>2, <2>3 DEF Shown
  <1>6. QED
    BY <1>2, <1>3, <1>4, <1>5

LEMMA ShownAlways ==
  ASSUME PromptWakeup
  PROVE  Spec => []Shown
  <1>1. Init => Shown
    BY DEF Init, Shown, SourceKnown, QuietStopsUnload, TasksAreShown, LiveIsHeld,
           Holding, Coherent, EndsByTimer, FreshState
  <1>2. TypeOK /\ OneSession /\ Shown /\ [Next]_vars => Shown'
    <2> SUFFICES ASSUME TypeOK, OneSession, Shown, [Next]_vars PROVE Shown'
      OBVIOUS
    <2>1. CASE UNCHANGED vars
      BY <2>1 DEF vars, Shown, SourceKnown, QuietStopsUnload, TasksAreShown, LiveIsHeld,
                  Holding, Coherent, EndsByTimer
    <2>2. CASE Next
      BY <2>2, UserIsShown, PassIsShown, TimerIsShown, TaskIsShown, RestIsShown DEF Next
    <2>3. QED
      BY <2>1, <2>2
  <1>3. QED
    BY <1>1, <1>2, Typing, OneSessionAlways, PTL DEF Spec

\* The live status and its source are those of the session that holds the socket: no
\* failure, renewal or release leaves the entities showing a session that is gone, or
\* hiding one that runs.
THEOREM TheSessionIsShown ==
  ASSUME PromptWakeup
  PROVE  Spec => []LiveIsRunning
  <1>1. Shown => LiveIsRunning
    BY DEF Shown, TasksAreShown, LiveIsHeld, Holding, Coherent, LiveIsRunning
  <1>2. QED
    BY <1>1, ShownAlways, PTL

\* A backoff always has the timer that ends it, and a Live view that is on its cap
\* (_handle_failure, async_set_live_view): the manager is never left refusing
\* every trigger, and no switch is left on, for want of a timer.
THEOREM TimersOutliveSessions ==
  ASSUME PromptWakeup
  PROVE  Spec => [](BackoffExpires /\ LiveViewIsCapped)
  <1>1. Shown => BackoffExpires /\ LiveViewIsCapped
    BY DEF Shown, Coherent, EndsByTimer, BackoffExpires, LiveViewIsCapped
  <1>2. QED
    BY <1>1, ShownAlways, PTL

-----------------------------------------------------------------------------
(* What no step may do.                                                    *)

RunOfFailuresKept == state'.failures >= state.failures

LEMMA TriggersKeepFailures ==
  ASSUME TypeOK,
         \/ UserStep \/ PassStep \/ TimerStep \/ TimeStep \/ Shutdown
         \/ \E r \in stops : StopResumes(r)
  PROVE  RunOfFailuresKept
  <1>1. state \in LiveStates /\ state.failures \in Int
    BY LimitAssumption DEF TypeOK, LiveStates
  <1>2. SUFFICES state'.failures = state.failures
    BY <1>1 DEF RunOfFailuresKept
  <1>3. ASSUME NEW s \in LiveStates
        PROVE  /\ RollState(s).failures = s.failures
               /\ FinishState(s).failures = s.failures
    BY DEF RollState, FinishState, LiveStates
  <1>4. ASSUME EndLiveView
        PROVE  state'.failures = state.failures
    <2> DEFINE s == [state EXCEPT !.liveView = FALSE]
    <2>1. s \in LiveStates /\ s.failures = state.failures
      BY <1>1 DEF LiveStates
    <2> HIDE DEF s
    <2>2. state' = s \/ state' = FinishState(s)
      BY <1>4 DEF EndLiveView, ReleaseHold, Stop, Keep, s
    <2>3. QED
      BY <1>3, <2>1, <2>2
  <1>5. /\ [state EXCEPT !.liveView = TRUE] \in LiveStates
        /\ [state EXCEPT !.status = "idle", !.backoff = "none"] \in LiveStates
        /\ [state EXCEPT !.liveView = TRUE].failures = state.failures
        /\ [state EXCEPT !.status = "idle", !.backoff = "none"].failures = state.failures
    BY <1>1 DEF LiveStates
  <1>6. CASE UserStep
    <2>1. ASSUME NEW reading \in Readings, LiveViewOn(reading) \/ ContinuousOn(reading)
          PROVE  state'.failures = state.failures
      BY <1>1, <1>3, <1>5, <2>1 DEF LiveViewOn, ContinuousOn, Request
    <2>2. CASE LiveViewOff
      BY <1>4, <2>2 DEF LiveViewOff
    <2>3. CASE ContinuousOff \/ SmartWindowsOff
      BY <1>1, <1>3, <2>3 DEF ContinuousOff, SmartWindowsOff, ReleaseHold,
                              ReleaseSmartHold, Stop, Keep
    <2>4. CASE SmartWindowsOn \/ SetMinGap \/ \E n \in RawBudgets : SetSessionsPerDay(n)
      BY <1>1, <2>4 DEF SmartWindowsOn, SetMinGap, SetSessionsPerDay, LiveStates
    <2>5. QED
      BY <1>6, <2>1, <2>2, <2>3, <2>4 DEF UserStep
  <1>7. CASE PassStep
    BY <1>1, <1>3, <1>7 DEF PassStep, EvaluateFast, EvaluateEngine, Request
  <1>8. CASE TimerStep
    <2>1. ASSUME NEW reading \in Readings, SmartTimerFires(reading) \/ WindowTimerFires
          PROVE  state'.failures = state.failures
      BY <1>1, <1>3, <2>1 DEF SmartTimerFires, WindowTimerFires, Request
    <2>2. CASE ViewCapFires
      BY <1>4, <2>2 DEF ViewCapFires
    <2>3. ASSUME NEW reading \in Readings, BackoffTimerFires(reading)
          PROVE  state'.failures = state.failures
      <3> DEFINE s == [state EXCEPT !.status = "idle", !.backoff = "none"]
                 asked == ResumableHold(s, config)
      <3>1. s \in LiveStates /\ s.failures = state.failures
        BY <1>5
      <3> HIDE DEF s, asked
      <3>2. UNCHANGED state \/ Request(asked, s, reading) \/ state' = s
        BY <2>3 DEF BackoffTimerFires, s, asked
      <3>3. QED
        BY <1>3, <3>1, <3>2 DEF Request
    <2>4. QED
      BY <1>8, <2>1, <2>2, <2>3 DEF TimerStep, WindowTimerFires
  <1>9. CASE TimeStep
    BY <1>1, <1>9 DEF TimeStep, Pass, GapElapses, BackoffElapses, CooldownElapses,
                      DayTurns, HourTurns, LiveStates
  <1>10. CASE Shutdown
    BY <1>1, <1>10 DEF Shutdown, Stop
  <1>11. CASE \E r \in stops : StopResumes(r)
    BY <1>1, <1>3, <1>11 DEF StopResumes
  <1>12. QED
    BY <1>6, <1>7, <1>8, <1>9, <1>10, <1>11

LEMMA TaskKeepsFailures ==
  ASSUME TypeOK, NEW t \in Tasks, TaskStep(t)
  PROVE  RunOfFailuresKept \/ window'.frames
  <1>1. state \in LiveStates /\ state.failures \in 0..FailureLimit /\ FailureLimit \in Nat
    BY LimitAssumption DEF TypeOK, LiveStates
  <1>2. CASE state'.failures = state.failures
    BY <1>1, <1>2 DEF RunOfFailuresKept
  <1>3. CASE OpenSucceeds(t)
    <2> DEFINE count == state.sessionsToday + 1
    <2>1. state' = [state EXCEPT !.status = "live", !.source = src[t],
                                 !.backoff = "none", !.sessionsToday = count]
      BY <1>3 DEF OpenSucceeds, PublishLive
    <2> HIDE DEF count
    <2>2. QED
      BY <1>1, <1>2, <2>1 DEF LiveStates
  <1>4. CASE RenewalOpens(t) \/ TaskCancelled(t) \/ TaskUnwound(t)
    BY <1>2, <1>4 DEF RenewalOpens, TaskCancelled, TaskUnwound
  <1>5. CASE SessionEnds(t)
    BY <1>1, <1>2, <1>5 DEF SessionEnds, FinishState, LiveStates
  <1>6. CASE \E moved \in BOOLEAN : Frame(t, moved)
    BY <1>6 DEF Frame
  <1>7. ASSUME NEW reading \in Readings, OpenFails(t, reading) \/ FramelessEnd(t, reading)
        PROVE  RunOfFailuresKept
    <2> DEFINE count == IF state.failures < FailureLimit THEN state.failures + 1
                                                        ELSE FailureLimit
    <2>1. state' = [state EXCEPT !.status = "backoff", !.source = None,
                                 !.failures = count, !.backoff = "pending"]
      BY <1>7 DEF OpenFails, FramelessEnd, HandleFailure
    <2>2. count >= state.failures
      BY <1>1
    <2> HIDE DEF count
    <2>3. QED
      BY <1>1, <2>1, <2>2 DEF RunOfFailuresKept, LiveStates
  <1>8. ASSUME NEW reason \in EndReasons, NEW reading \in Readings,
               WindowEnds(t, reason, reading)
        PROVE  RunOfFailuresKept \/ window'.frames
    <2>1. state' = state \/ state' = [state EXCEPT !.suspended = "active"]
      BY <1>8 DEF WindowEnds
    <2>2. state'.failures = state.failures
      BY <1>1, <2>1 DEF LiveStates
    <2>3. QED
      BY <1>2, <2>2
  <1>9. QED
    BY <1>3, <1>4, <1>5, <1>6, <1>7, <1>8 DEF TaskStep

\* The run of failures that paces the backoff ends on a streamed frame and nowhere
\* else (_publish_live, _note_stream_alive): a handshake the cloud accepts and then
\* leaves silent cannot restart the backoff at its floor.
THEOREM HandshakesForgiveNothing == Spec => FailuresEndOnFrames
  <1> DEFINE Kept == state'.failures < state.failures => window'.frames \/ stopping
  <1>1. TypeOK /\ [Next]_vars => [Kept]_<<state, window>>
    <2> SUFFICES ASSUME TypeOK, [Next]_vars, ~UNCHANGED <<state, window>>
                 PROVE  Kept
      OBVIOUS
    <2>1. Next
      BY DEF vars
    <2>2. CASE RunOfFailuresKept
      <3>1. state.failures \in Int
        BY LimitAssumption DEF TypeOK, LiveStates
      <3>2. TypeOK'
        BY UserTyped, PassTyped, TimerTyped, TaskTyped, RestTyped, <2>1 DEF Next
      <3>3. state'.failures \in Int
        BY <3>2, LimitAssumption DEF TypeOK, LiveStates
      <3>4. QED
        BY <2>2, <3>1, <3>3 DEF RunOfFailuresKept
    <2>3. CASE Setup
      BY <2>3 DEF Setup
    <2>4. QED
      BY <2>1, <2>2, <2>3, TriggersKeepFailures, TaskKeepsFailures DEF Next
  <1>2. QED
    BY <1>1, Typing, PTL DEF Spec, FailuresEndOnFrames

\* What a release asks for is what nothing wants.
Unwanted == HoldWanted(state', config') = None /\ ~SmartBlockWanted(state', config')

LEMMA ReleasesAreUnwanted ==
  ASSUME NEW s, NEW c, NEW armed, config' = c,
         NEW r \in stops' \ stops,
         \/ ReleaseHold(s, c, armed)
         \/ ReleaseSmartHold(s, c, armed) /\ ~c.smart
  PROVE  Unwanted
  <1>1. state' = s
    BY DEF ReleaseHold, ReleaseSmartHold, Stop, Keep
  <1>2. HoldWanted(s, c) = None /\ ~SmartBlockWanted(s, c)
    BY DEF ReleaseHold, ReleaseSmartHold, Stop, Keep, SmartBlockWanted
  <1>3. QED
    BY <1>1, <1>2 DEF Unwanted

\* A session is cancelled on somebody's behalf only when, with what that caller has just
\* published, neither a hold nor a peak block wants it (_async_release_hold,
\* _async_release_smart_hold): one path never tears down what another still wants.
THEOREM NothingWantedIsReleased == Spec => WantedSessionsAreKept
  <1> DEFINE Wanted ==
        \A r \in stops' \ stops :
          r.idle => /\ HoldWanted(state', config') = None
                    /\ ~SmartBlockWanted(state', config')
  <1>1. TypeOK /\ [Next]_vars => [Wanted]_vars
    <2> SUFFICES ASSUME TypeOK, Next, NEW r \in stops' \ stops, r.idle
                 PROVE  Unwanted
      BY DEF Unwanted
    <2> USE DEF taskVars
    <2>1. ASSUME EndLiveView
          PROVE  Unwanted
      BY <2>1, ReleasesAreUnwanted DEF EndLiveView
    <2>2. CASE UserStep
      <3>1. CASE LiveViewOff
        BY <2>1, <3>1 DEF LiveViewOff
      <3>2. CASE ContinuousOff
        BY <3>2, ReleasesAreUnwanted DEF ContinuousOff
      <3>3. CASE SmartWindowsOff
        <4>1. ~[config EXCEPT !.smart = FALSE].smart
          BY DEF TypeOK, LiveConfigs
        <4>2. QED
          BY <3>3, <4>1, ReleasesAreUnwanted DEF SmartWindowsOff
      <3>4. QED
        BY <2>2, <3>1, <3>2, <3>3 DEF UserStep, LiveViewOn, ContinuousOn, SmartWindowsOn,
                                      SetMinGap, SetSessionsPerDay
    <2>3. CASE TimerStep
      BY <2>1, <2>3 DEF TimerStep, SmartTimerFires, BackoffTimerFires, ViewCapFires,
                        WindowTimerFires
    <2>4. CASE Shutdown
      BY <2>4 DEF Shutdown, Stop
    <2>5. CASE PassStep \/ TimeStep \/ (\E q \in stops : StopResumes(q)) \/ Setup
      BY <2>5 DEF PassStep, EvaluateFast, EvaluateEngine, TimeStep, Pass, GapElapses,
                  BackoffElapses, CooldownElapses, DayTurns, HourTurns, StopResumes, Setup
    <2>6. ASSUME NEW t \in Tasks, TaskStep(t)
          PROVE  FALSE
      BY <2>6 DEF TaskStep, OpenSucceeds, RenewalOpens, SessionEnds, TaskCancelled,
                  TaskUnwound, Frame, OpenFails, FramelessEnd, WindowEnds, HandleFailure
    <2>7. QED
      BY <2>2, <2>3, <2>4, <2>5, <2>6 DEF Next
  <1>2. QED
    BY <1>1, Typing, PTL DEF Spec, WantedSessionsAreKept

\* Only a window that delivered frames and that something wants is renewed.
LEMMA RenewalsComeFromWindows ==
  ASSUME TypeOK, Next, NEW t \in Tasks, phase[t] = "streaming", phase'[t] = "renewing"
  PROVE  \E reason \in EndReasons, reading \in Readings :
           /\ WindowEnds(t, reason, reading)
           /\ WantsRenewal(IF BrakeBites THEN [state EXCEPT !.suspended = "active"]
                                         ELSE state, reason)
  <1> USE DEF taskVars
  <1>1. ~(\E source \in Sources : StartSession(source))
    BY DEF StartSession, TypeOK
  <1>2. ~NoGrant /\ phase' # phase
    BY DEF NoGrant
  <1>3. ~(UserStep \/ PassStep \/ TimerStep)
    <2>1. ASSUME NEW source \in Sources, NEW s, NEW reading
          PROVE  ~Request(source, s, reading)
      BY <1>1, <1>2 DEF Request
    <2>2. ~UserStep
      BY <1>2, <2>1 DEF UserStep, LiveViewOn, ContinuousOn, LiveViewOff, EndLiveView,
           ContinuousOff, SmartWindowsOn, SmartWindowsOff, SetMinGap, SetSessionsPerDay,
           Sources
    <2>3. ~PassStep
      BY <1>1, <1>2, <2>1 DEF PassStep, EvaluateFast, EvaluateEngine, Sources
    <2>4. ASSUME NEW reading \in Readings, BackoffTimerFires(reading)
          PROVE  FALSE
      <3> DEFINE s == [state EXCEPT !.status = "idle", !.backoff = "none"]
                 asked == ResumableHold(s, config)
      <3>1. asked # None => asked \in Sources
        BY HoldTyped
      <3> HIDE DEF s, asked
      <3>2. NoGrant \/ (asked # None /\ Request(asked, s, reading))
        BY <2>4 DEF BackoffTimerFires, s, asked
      <3>3. QED
        BY <1>2, <2>1, <3>1, <3>2
    <2>5. ~TimerStep
      BY <1>2, <2>1, <2>4 DEF TimerStep, SmartTimerFires, ViewCapFires, EndLiveView,
                              WindowTimerFires, Sources
    <2>6. QED
      BY <2>2, <2>3, <2>5
  <1>4. ~(TimeStep \/ (\E r \in stops : StopResumes(r)) \/ Shutdown \/ Setup)
    BY <1>2 DEF TimeStep, Pass, GapElapses, BackoffElapses, CooldownElapses, DayTurns,
                HourTurns, StopResumes, Shutdown, Setup
  <1>5. PICK u \in Tasks : TaskStep(u)
    BY <1>3, <1>4 DEF Next
  <1>6. PICK reason \in EndReasons, reading \in Readings : WindowEnds(u, reason, reading)
    BY <1>2, <1>5 DEF TaskStep, OpenSucceeds, RenewalOpens, SessionEnds, TaskCancelled,
                TaskUnwound, Frame, OpenFails, FramelessEnd, MayProgress, TaskDone,
                MoveTo, TypeOK
  <1>7. u = t
    BY <1>6 DEF WindowEnds, MoveTo, TypeOK
  <1>8. ~MoveTo(t, "ending")
    BY DEF MoveTo, TypeOK
  <1>9. QED
    BY <1>6, <1>7, <1>8 DEF WindowEnds

\* A quiet window counts against the tier that pays for it, and the window that brings
\* the count to its limit is the last one (_account_window, then _wants_renewal).
THEOREM TheBrakeEndsQuietBlocks == Spec => BrakeEndsQuietBlock
  <1> DEFINE Braked ==
        \A t \in Tasks :
          /\ phase[t] = "streaming" /\ phase'[t] = "renewing"
          /\ ~window.flow
          /\ HoldWanted(state, config) = None
          /\ IQua2 => state.source = "smart"
          => /\ day'.noFlow = day.noFlow + 1
             /\ day'.noFlow < NoFlowLimit
  <1>1. TypeOK /\ [Next]_vars => [Braked]_vars
    <2> SUFFICES ASSUME TypeOK, Next, NEW t \in Tasks,
                        phase[t] = "streaming", phase'[t] = "renewing", ~window.flow,
                        HoldWanted(state, config) = None,
                        IQua2 => state.source = "smart"
                 PROVE  day'.noFlow = day.noFlow + 1 /\ day'.noFlow < NoFlowLimit
      OBVIOUS
    <2> DEFINE s == IF BrakeBites THEN [state EXCEPT !.suspended = "active"] ELSE state
    <2>1. PICK reason \in EndReasons, reading \in Readings :
            WindowEnds(t, reason, reading) /\ WantsRenewal(s, reason)
      BY RenewalsComeFromWindows
    <2>2. s.liveView = state.liveView /\ s.source = state.source
      BY DEF TypeOK, LiveStates
    <2>3. BrakeBites => s.suspended = "active"
      BY DEF TypeOK, LiveStates
    <2>4. ~BrakeBites => s = state
      OBVIOUS
    <2> HIDE DEF s
    <2>5. SmartBlockWanted(s, config)
      BY <2>1, <2>2 DEF WantsRenewal, HoldWanted
    <2>6. ~BrakeBites /\ SmartBlockWanted(state, config)
      BY <2>3, <2>4, <2>5 DEF SmartBlockWanted
    <2>7. TierPays /\ QuietCount # NoFlowLimit
      BY <2>6 DEF TierPays, BrakeBites
    <2>8. day.noFlow \in 0..NoFlowLimit /\ NoFlowLimit \in Nat
      BY LimitAssumption DEF TypeOK, DayCounters
    <2>9. QuietCount = day.noFlow + 1 /\ QuietCount < NoFlowLimit
      BY <2>7, <2>8 DEF QuietCount
    <2> HIDE DEF Braked
    <2>10. day'.noFlow = QuietCount
      <3> DEFINE count == QuietCount
      <3>1. day' = [day EXCEPT !.noFlow = count]
        BY <2>1 DEF WindowEnds
      <3> HIDE DEF count
      <3>2. day'.noFlow = count
        BY <3>1 DEF TypeOK, DayCounters
      <3>3. QED
        BY <3>2 DEF count
    <2>11. QED
      BY <2>9, <2>10
  <1>2. QED
    BY <1>1, Typing, PTL DEF Spec, BrakeEndsQuietBlock
=============================================================================
