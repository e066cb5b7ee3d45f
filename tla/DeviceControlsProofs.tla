------------------------- MODULE DeviceControlsProofs -------------------------
(***************************************************************************)
(* Theorems about DeviceControls, for either kind of control and any time  *)
(* an optimistic state may last: typing, the one timer, and what ends what *)
(* a command shows.                                                        *)
(***************************************************************************)
EXTENDS DeviceControls, TLAPS

-----------------------------------------------------------------------------
(* Typing.                                                                 *)

LEMMA ReportTyped ==
  ASSUME NEW d \in BOOLEAN, NEW r \in Reports(d)
  PROVE  r \in Views
  BY DEF Reports, ClosedFromStatus, Views

LEMMA DoneTyped ==
  ASSUME TypeOK, command # None, NEW moves \in BOOLEAN, Done(moves)
  PROVE  /\ device' \in BOOLEAN
         /\ command' \in [goal : BOOLEAN, late : BOOLEAN] \cup {None}
  BY DEF TypeOK, Done

LEMMA ClearTyped ==
  ASSUME TypeOK, ClearOptimistic
  PROVE  /\ motion' \in BOOLEAN \cup {None}
         /\ timers' \subseteq 0..Ttl
         /\ handle' \in 0..Ttl \cup {None}
         /\ age' \in 0..Ttl
  BY DEF TypeOK, ClearOptimistic, Remaining

LEMMA PublishTyped ==
  ASSUME TypeOK, NEW v \in Views, Publish(v)
  PROVE  /\ view' \in Views
         /\ motion' \in BOOLEAN \cup {None}
         /\ timers' \subseteq 0..Ttl
         /\ handle' \in 0..Ttl \cup {None}
         /\ age' \in 0..Ttl
  <1>1. CASE ClearOptimistic
    BY <1>1, ClearTyped DEF Publish
  <1>2. CASE UNCHANGED shown
    BY <1>2 DEF Publish, shown, TypeOK
  <1>3. QED
    BY <1>1, <1>2 DEF Publish

-----------------------------------------------------------------------------
(* The one timer.  A motion has exactly one timer armed, the one the       *)
(* entity holds the handle of, and that timer has left what of the time    *)
(* has not gone by since the command; without a motion none is armed.      *)

Timed ==
  \/ motion = None /\ timers = {} /\ handle = None
  \/ motion # None /\ timers = {handle} /\ handle \in 0..Ttl /\ handle + age = Ttl

LEMMA StartIsTimed ==
  ASSUME TypeOK, Timed, NEW goal \in BOOLEAN, StartOptimistic(goal)
  PROVE  /\ Timed'
         /\ motion' = goal /\ timers' \subseteq 0..Ttl /\ handle' \in 0..Ttl
         /\ age' \in 0..Ttl
  <1>1. Remaining = {}
    BY DEF Timed, Remaining
  <1>2. timers' = {Ttl} /\ handle' = Ttl /\ age' = 0 /\ motion' = goal
    BY <1>1 DEF StartOptimistic
  <1>3. Ttl \in 0..Ttl /\ 0 \in 0..Ttl /\ goal # None
    BY ControlAssumption
  <1>4. QED
    BY <1>2, <1>3, ControlAssumption DEF Timed

LEMMA ClearIsTimed ==
  ASSUME Timed, ClearOptimistic
  PROVE  Timed'
  BY DEF Timed, ClearOptimistic, Remaining

LEMMA PublishIsTimed ==
  ASSUME Timed, NEW v, Publish(v)
  PROVE  Timed'
  <1>1. CASE UNCHANGED shown
    BY <1>1 DEF shown, Timed
  <1>2. QED
    BY <1>1, ClearIsTimed DEF Publish

LEMMA TickIsTimed ==
  ASSUME TypeOK, Timed, Tick
  PROVE  TypeOK' /\ Timed'
  <1>1. UNCHANGED <<world, poll, view, added, command, motion>>
    BY DEF Tick
  <1>2. age' \in 0..Ttl
    BY ControlAssumption DEF Tick, TypeOK
  <1>3. CASE motion = None
    <2>1. timers' = {} /\ handle' = None
      BY <1>3 DEF Timed, Tick
    <2>2. QED
      BY <1>1, <1>2, <1>3, <2>1 DEF TypeOK, Timed, world
  <1>4. CASE motion # None
    <2>1. timers = {handle} /\ handle \in 1..Ttl /\ handle + age = Ttl
      BY <1>4, ControlAssumption DEF Timed, Tick
    <2>2. handle # None
      BY <2>1, ControlAssumption
    <2>3. timers' = {handle - 1} /\ handle' = handle - 1
      BY <2>1, <2>2 DEF Tick
    <2>4. age < Ttl /\ age' = age + 1
      BY <2>1, ControlAssumption DEF Tick, TypeOK
    <2>5. handle' \in 0..Ttl /\ handle' + age' = Ttl
      BY <2>1, <2>3, <2>4, ControlAssumption DEF TypeOK
    <2>6. QED
      BY <1>1, <1>2, <1>4, <2>3, <2>5 DEF TypeOK, Timed, world
  <1>5. QED
    BY <1>3, <1>4

LEMMA ControlStep ==
  ASSUME TypeOK, Timed, [Next]_vars
  PROVE  TypeOK' /\ Timed'
  <1> USE DEF world
  <1>1. CASE UNCHANGED vars
    BY <1>1 DEF vars, shown, TypeOK, Timed
  <1>2. CASE Ask
    BY <1>2 DEF Ask, shown, TypeOK, Timed
  <1>3. CASE DeviceMoves
    BY <1>3 DEF DeviceMoves, shown, TypeOK, Timed
  <1>4. CASE CloudTells \/ CloudLosesSight
    BY <1>4, ReportTyped DEF CloudTells, CloudLosesSight, shown, TypeOK, Timed
  <1>5. CASE Answered
    <2>1. command.goal \in BOOLEAN
      BY <1>5 DEF Answered, TypeOK
    <2>2. PICK moves \in BOOLEAN : Done(moves)
      BY <1>5 DEF Answered
    <2>3. StartOptimistic(command.goal) /\ command # None
      BY <1>5 DEF Answered
    <2>4. QED
      BY <2>1, <2>2, <2>3, DoneTyped, StartIsTimed DEF Done, TypeOK
  <1>6. CASE Unanswered
    BY <1>6, DoneTyped DEF Unanswered, Done, shown, TypeOK, Timed
  <1>7. CASE PollStarts
    BY <1>7 DEF PollStarts, shown, TypeOK, Timed
  <1>8. CASE PollEnds
    <2>1. poll \in Views /\ Publish(poll)
      BY <1>8 DEF PollEnds, TypeOK
    <2>2. QED
      BY <1>8, <2>1, PublishTyped, PublishIsTimed DEF PollEnds, TypeOK
  <1>9. CASE PollFails
    BY <1>9, PublishTyped, PublishIsTimed DEF PollFails, TypeOK
  <1>10. CASE Push
    BY <1>10, PublishTyped, PublishIsTimed DEF Push, TypeOK
  <1>11. CASE Remove
    <2>1. command' \in [goal : BOOLEAN, late : BOOLEAN] \cup {None}
      BY <1>11 DEF Remove, TypeOK
    <2>2. QED
      BY <1>11, <2>1, ClearTyped, ClearIsTimed DEF Remove, TypeOK
  <1>12. CASE Setup
    BY <1>12 DEF Setup, shown, TypeOK, Timed
  <1>13. CASE Expire
    <2>1. timers = {0} /\ timers' = {} /\ handle' = None /\ motion' = None
      BY <1>13 DEF Expire, Timed
    <2>2. QED
      BY <1>13, <2>1 DEF Expire, TypeOK, Timed
  <1>14. CASE Tick
    BY <1>14, TickIsTimed
  <1>15. QED
    BY <1>1, <1>2, <1>3, <1>4, <1>5, <1>6, <1>7, <1>8, <1>9, <1>10, <1>11, <1>12,
       <1>13, <1>14 DEF Next, Disturbed

LEMMA ControlAlways == Spec => [](TypeOK /\ Timed)
  <1>1. Init => TypeOK /\ Timed
    BY ReportTyped, ControlAssumption DEF Init, TypeOK, Timed
  <1>2. TypeOK /\ Timed /\ [Next]_vars => TypeOK' /\ Timed'
    BY ControlStep
  <1>3. QED
    BY <1>1, <1>2, PTL DEF Spec

\* Every reachable state is well typed, and an entity has one timer armed while it
\* shows what a command asked for, its own, and none otherwise, however commands,
\* confirmations, expiries and reloads follow each other.
THEOREM OneTimerPerMotion ==
  Spec => [](TypeOK /\ timers = IF motion = None THEN {} ELSE {handle})
  <1>1. TypeOK /\ Timed => timers = IF motion = None THEN {} ELSE {handle}
    BY DEF Timed
  <1>2. QED
    BY <1>1, ControlAlways, PTL

\* What a command shows ends when the published view confirms it, when its own time is
\* up, or with its entity: the timer of an earlier command, an earlier entity or an
\* earlier motion never ends it (_start_optimistic, _set_optimistic).
THEOREM MotionsLastTheirTime == Spec => MotionLastsItsTime
  <1> DEFINE Lasts == motion # None /\ motion' = None /\ added'
                        => age = Ttl \/ Confirms(view', motion)
  <1>1. TypeOK /\ Timed /\ [Next]_vars => [Lasts]_vars
    <2> SUFFICES ASSUME TypeOK, Timed, Next, motion # None, motion' = None, added'
                 PROVE  age = Ttl \/ Confirms(view', motion)
      OBVIOUS
    <2>1. ASSUME NEW v, Publish(v)
          PROVE  Confirms(view', motion)
      BY <2>1 DEF Publish, shown
    <2>2. CASE Expire
      <3>1. handle = 0
        BY <2>2 DEF Expire, Timed
      <3>2. QED
        BY <3>1, ControlAssumption DEF Timed, TypeOK
    <2>3. ~Answered
      BY ControlAssumption DEF Answered, StartOptimistic, TypeOK
    <2>4. ~Remove
      BY DEF Remove
    <2>5. QED
      BY <2>1, <2>2, <2>3, <2>4 DEF Next, Disturbed, Ask, DeviceMoves, CloudTells,
           CloudLosesSight, Unanswered, PollStarts, PollEnds, PollFails, Push, Setup,
           Tick, shown
  <1>2. QED
    BY <1>1, ControlAlways, PTL DEF Spec, MotionLastsItsTime
=============================================================================
