------------------------- MODULE RegenSchedulerProofs -------------------------
(***************************************************************************)
(* Theorems about RegenScheduler for any cancel budget, any waiting line   *)
(* and any readings: type correctness, no schedule under a deferral, the   *)
(* budget of enforcement's cancels, and one schedule a day.                *)
(*                                                                         *)
(* The inductive invariant says of the command in flight what was asked    *)
(* before it was sent and must still hold when it is answered, for nobody  *)
(* else may take the lock in between; and of the day's counters how they   *)
(* bound what the cloud has accepted.                                      *)
(***************************************************************************)
EXTENDS RegenScheduler, TLAPS

\* What the guards asked of a command when it was sent still holds, with the
\* state a, the latch l and the counters k.
Fits(c, a, l, k) ==
  c # None =>
    /\ c.act \in ScheduleActs => ~a.deferral /\ ~l
    /\ c.act = "enforce" => k.sent < Budget /\ k.failed < Budget
    /\ c.act = "enforce" /\ c.sameDay => k.current

\* The latch l and the counters k account for what the cloud accepted today.
Accounts(l, k, g) ==
  /\ g.standing <= 1
  /\ g.standing = 1 => l
  /\ k.current => g.enforced <= k.sent
  /\ ~k.current => g.enforced = 0

Guarded ==
  /\ TypeOK
  /\ Fits(inflight, auto, latch, cancel)
  /\ Accounts(latch, cancel, ledger)

-----------------------------------------------------------------------------
(* What the helpers return.                                                *)

LEMMA CommandTyped ==
  ASSUME NEW act \in CancelActs \cup ScheduleActs, NEW decide \in BOOLEAN,
         NEW detected \in Verdicts
  PROVE  /\ Command(act, decide, detected) \in Commands
         /\ Command(act, decide, detected).act = act
         /\ Command(act, decide, detected).sameDay = TRUE
  BY DEF Command, Commands

LEMMA DeferredTyped ==
  ASSUME NEW a \in AutomationStates, NEW source \in {"manual", "auto"}
  PROVE  Deferred(a, source) \in AutomationStates
  BY DEF Deferred, AutomationStates

LEMMA UndeferredTyped ==
  ASSUME NEW a \in AutomationStates
  PROVE  Undeferred(a) \in AutomationStates /\ ~Undeferred(a).deferral
  BY DEF Undeferred, AutomationStates

LEMMA AgedTyped ==
  ASSUME NEW a \in AutomationStates
  PROVE  Aged(a) \in AutomationStates /\ Aged(a).deferral = a.deferral
  BY DEF Aged, AutomationStates

\* A decision schedules only with the deferral off and the latch open.
LEMMA DecisionFits ==
  ASSUME NEW a \in AutomationStates, NEW l \in BOOLEAN, NEW detected \in Verdicts,
         NEW reading \in Readings, NEW k
  PROVE  /\ Decision(a, l, detected, reading) \in Commands \cup {None}
         /\ Fits(Decision(a, l, detected, reading), a, l, k)
  <1>1. "low_capacity" \in CancelActs \cup ScheduleActs
    BY DEF ScheduleActs
  <1>2. CASE Unblocked(a, l, detected, reading) /\ reading.need = "low"
    <2>1. Decision(a, l, detected, reading) = Command("low_capacity", FALSE, detected)
      BY <1>2 DEF Decision
    <2>2. ~a.deferral /\ ~l
      BY <1>2 DEF Unblocked
    <2>3. QED
      BY <1>1, <2>1, <2>2, CommandTyped DEF Fits
  <1>3. CASE ~(Unblocked(a, l, detected, reading) /\ reading.need = "low")
    BY <1>3 DEF Decision, Fits
  <1>4. QED
    BY <1>2, <1>3

LEMMA RolledTyped ==
  ASSUME Guarded
  PROVE  /\ RolledBudget \in Budgets
         /\ RolledBudget.current
         /\ Accounts(latch, RolledBudget, ledger)
  <1>1. CASE cancel.current
    BY <1>1 DEF RolledBudget, Guarded, TypeOK
  <1>2. CASE ~cancel.current
    <2> DEFINE rolled == [current |-> TRUE, sent |-> 0, failed |-> 0]
    <2>1. rolled \in Budgets /\ rolled.current = TRUE /\ rolled.sent = 0
      BY SchedulerBounds DEF Budgets
    <2>2. RolledBudget = rolled
      BY <1>2 DEF RolledBudget
    <2> HIDE DEF rolled
    <2>3. ledger.enforced = 0
      BY <1>2 DEF Guarded, Accounts
    <2>4. QED
      BY <2>1, <2>2, <2>3 DEF Guarded, Accounts
  <1>3. QED
    BY <1>1, <1>2

-----------------------------------------------------------------------------
(* The bodies run with nothing in flight.                                  *)

\* What every body establishes of the variables it may change.
BodyTyped ==
  /\ auto' \in AutomationStates
  /\ options' \in AutomationStates
  /\ inflight' \in Commands \cup {None}
  /\ cancel' \in Budgets
  /\ expiry' \in BOOLEAN
  /\ ledger' = ledger
  /\ Fits(inflight', auto', latch, cancel')
  /\ Accounts(latch, cancel', ledger)

LEMMA NothingDone ==
  ASSUME Guarded, Nothing
  PROVE  BodyTyped
  BY DEF Guarded, TypeOK, Nothing, NoApply, BodyTyped

LEMMA FlagsSet ==
  ASSUME Guarded, inflight = None, NEW a \in AutomationStates, SetFlags(a)
  PROVE  BodyTyped
  BY DEF Guarded, TypeOK, SetFlags, Apply, BodyTyped, Fits

LEMMA DeferralStarts ==
  ASSUME Guarded, NEW a \in AutomationStates, Apply(a),
         NEW engine \in BOOLEAN,
         inflight' = IF view = "scheduled" THEN Command("start", engine, vacation)
                                           ELSE None,
         expiry' = FALSE, UNCHANGED <<cancel, ledger>>
  PROVE  BodyTyped
  <1>1. "start" \in CancelActs /\ "start" \notin ScheduleActs /\ "start" # "enforce"
    BY DEF CancelActs, ScheduleActs
  <1>2. /\ inflight' \in Commands \cup {None}
        /\ inflight' # None => inflight'.act = "start"
    BY <1>1, CommandTyped DEF Guarded, TypeOK
  <1>3. Fits(inflight', auto', latch, cancel')
    BY <1>1, <1>2 DEF Fits
  <1>4. QED
    BY <1>2, <1>3 DEF Guarded, TypeOK, Apply, BodyTyped

LEMMA DeferralEnds ==
  ASSUME Guarded, NEW engine \in BOOLEAN, NEW reading \in Readings,
         EndDeferral(engine, vacation, reading)
  PROVE  BodyTyped
  <1>1. auto \in AutomationStates /\ vacation \in Verdicts /\ latch \in BOOLEAN
    BY DEF Guarded, TypeOK
  <1>2. auto' = Undeferred(auto) /\ options' = Undeferred(auto)
    BY DEF EndDeferral, Apply
  <1>3. Undeferred(auto) \in AutomationStates /\ ~Undeferred(auto).deferral
    BY <1>1, UndeferredTyped
  <1>4. /\ inflight' \in Commands \cup {None}
        /\ Fits(inflight', Undeferred(auto), latch, cancel')
    <2>1. CASE CatchUpDue(reading)
      <3>1. ~latch /\ inflight' = Command("catch_up", engine, vacation)
        BY <2>1 DEF CatchUpDue, EndDeferral
      <3>2. "catch_up" \in CancelActs \cup ScheduleActs /\ "catch_up" # "enforce"
        BY DEF ScheduleActs
      <3>3. QED
        BY <1>1, <1>3, <3>1, <3>2, CommandTyped DEF Fits
    <2>2. CASE ~CatchUpDue(reading) /\ engine
      <3>1. inflight' = Decision(Undeferred(auto), latch, vacation, reading)
        BY <2>2 DEF EndDeferral
      <3>2. QED
        BY <1>1, <1>3, <3>1, DecisionFits
    <2>3. CASE ~CatchUpDue(reading) /\ ~engine
      BY <2>3 DEF EndDeferral, Fits
    <2>4. QED
      BY <2>1, <2>2, <2>3
  <1>5. QED
    BY <1>2, <1>3, <1>4 DEF Guarded, TypeOK, EndDeferral, BodyTyped

LEMMA DeferralSet ==
  ASSUME Guarded, inflight = None, NEW on \in BOOLEAN,
         NEW source \in {"manual", "auto"}, NEW reading \in Readings,
         SetDeferral(on, source, reading)
  PROVE  BodyTyped
  <1>1. CASE auto.deferral = on
    BY <1>1, NothingDone DEF SetDeferral
  <1>2. CASE auto.deferral # on /\ on
    <2>1. StartDeferral(source, FALSE, vacation)
      BY <1>2 DEF SetDeferral
    <2>2. Deferred(auto, source) \in AutomationStates
      BY DeferredTyped DEF Guarded, TypeOK
    <2>3. QED
      BY <2>1, <2>2, DeferralStarts DEF StartDeferral
  <1>3. CASE auto.deferral # on /\ ~on
    BY <1>3, DeferralEnds DEF SetDeferral
  <1>4. QED
    BY <1>1, <1>2, <1>3

LEMMA FollowSet ==
  ASSUME Guarded, inflight = None, FollowOn
  PROVE  BodyTyped
  <1> DEFINE following == [auto EXCEPT !.follow = TRUE]
  <1>1. following \in AutomationStates
    BY DEF Guarded, TypeOK, AutomationStates
  <1>2. CASE vacation = "yes" /\ ~auto.deferral
    <2>1. Deferred(following, "auto") \in AutomationStates
      BY <1>1, DeferredTyped
    <2>2. /\ Apply(Deferred(following, "auto"))
          /\ expiry' = FALSE
          /\ inflight' = IF view = "scheduled" THEN Command("start", FALSE, vacation)
                                               ELSE None
          /\ UNCHANGED <<cancel, ledger>>
      BY <1>2 DEF FollowOn
    <2> HIDE DEF following
    <2>3. QED
      BY <2>1, <2>2, DeferralStarts
  <1>3. CASE ~(vacation = "yes" /\ ~auto.deferral)
    BY <1>1, <1>3, FlagsSet DEF FollowOn
  <1>4. QED
    BY <1>2, <1>3

LEMMA EnginePassed ==
  ASSUME Guarded, inflight = None, NEW reading \in Readings, EnginePass(reading)
  PROVE  BodyTyped
  <1>1. auto \in AutomationStates /\ vacation \in Verdicts /\ latch \in BOOLEAN
    BY DEF Guarded, TypeOK
  <1>2. CASE vacation = "yes" /\ auto.follow /\ ~auto.deferral
    <2>1. StartDeferral("auto", TRUE, vacation)
      BY <1>2 DEF EnginePass
    <2>2. Deferred(auto, "auto") \in AutomationStates
      BY <1>1, DeferredTyped
    <2>3. QED
      BY <2>1, <2>2, DeferralStarts DEF StartDeferral
  <1>3. CASE ~(vacation = "yes" /\ auto.follow /\ ~auto.deferral) /\ MayRelease
    <2>1. EndDeferral(TRUE, vacation, reading)
      BY <1>3 DEF EnginePass
    <2>2. QED
      BY <2>1, DeferralEnds
  <1>4. CASE ~(vacation = "yes" /\ auto.follow /\ ~auto.deferral) /\ ~MayRelease
    <2>1. /\ inflight' = Decision(auto, latch, vacation, reading)
          /\ Apply(auto) \/ NoApply
          /\ UNCHANGED <<cancel, expiry, ledger>>
      BY <1>4 DEF EnginePass
    <2>2. /\ auto' = auto
          /\ options' \in AutomationStates
      BY <1>1, <2>1 DEF Apply, NoApply, Guarded, TypeOK
    <2>3. /\ inflight' \in Commands \cup {None}
          /\ Fits(inflight', auto, latch, cancel')
      BY <1>1, <2>1, DecisionFits
    <2>4. QED
      BY <1>1, <2>1, <2>2, <2>3 DEF Guarded, TypeOK, BodyTyped
  <1>5. QED
    BY <1>2, <1>3, <1>4

LEMMA FastPassed ==
  ASSUME Guarded, inflight = None, FastPass
  PROVE  BodyTyped
  <1>1. auto \in AutomationStates /\ options \in AutomationStates /\ vacation \in Verdicts
    BY DEF Guarded, TypeOK
  <1>2. CASE ~auto.deferral \/ view # "scheduled"
    BY <1>2, NothingDone DEF FastPass
  <1>3. CASE ~(~auto.deferral \/ view # "scheduled") /\ PastCap
    <2>1. /\ auto' = auto
          /\ options' \in AutomationStates
          /\ expiry' = TRUE
          /\ UNCHANGED <<inflight, cancel, ledger>>
      BY <1>1, <1>3 DEF FastPass, Apply, NoApply
    <2>2. QED
      BY <1>1, <2>1 DEF Guarded, TypeOK, BodyTyped
  <1>4. CASE ~(~auto.deferral \/ view # "scheduled") /\ ~PastCap
    <2>1. /\ cancel' = RolledBudget
          /\ inflight' = IF MayClaim(RolledBudget)
                         THEN Command("enforce", FALSE, vacation) ELSE None
          /\ UNCHANGED <<auto, options, expiry, ledger>>
      BY <1>4 DEF FastPass, NoApply
    <2>2. /\ cancel' \in Budgets
          /\ cancel'.current
          /\ Accounts(latch, cancel', ledger)
      BY <2>1, RolledTyped
    <2>3. "enforce" \in CancelActs \cup ScheduleActs /\ "enforce" \notin ScheduleActs
      BY DEF CancelActs, ScheduleActs
    <2>4. CASE MayClaim(RolledBudget)
      <3>1. cancel'.sent < Budget /\ cancel'.failed < Budget
        BY <2>1, <2>4 DEF MayClaim
      <3>2. /\ inflight' \in Commands
            /\ inflight'.act = "enforce"
        BY <1>1, <2>1, <2>3, <2>4, CommandTyped
      <3>3. Fits(inflight', auto', latch, cancel')
        BY <2>2, <2>3, <3>1, <3>2 DEF Fits
      <3>4. QED
        BY <1>1, <2>1, <2>2, <3>2, <3>3 DEF Guarded, TypeOK, BodyTyped
    <2>5. CASE ~MayClaim(RolledBudget)
      <3>1. inflight' = None
        BY <2>1, <2>5
      <3>2. QED
        BY <1>1, <2>1, <2>2, <3>1 DEF Guarded, TypeOK, BodyTyped, Fits
    <2>6. QED
      BY <2>4, <2>5
  <1>5. QED
    BY <1>2, <1>3, <1>4

LEMMA BodyRuns ==
  ASSUME Guarded, inflight = None, NEW op \in Setters \cup Passes,
         NEW reading \in Readings, Body(op, reading)
  PROVE  BodyTyped
  <1>1. /\ [auto EXCEPT !.follow = FALSE] \in AutomationStates
        /\ [auto EXCEPT !.smart = TRUE] \in AutomationStates
        /\ [auto EXCEPT !.smart = FALSE] \in AutomationStates
    BY DEF Guarded, TypeOK, AutomationStates
  <1>2. CASE \/ SetDeferral(TRUE, "manual", reading)
             \/ SetDeferral(TRUE, "auto", reading)
             \/ SetDeferral(FALSE, "manual", reading)
    BY <1>2, DeferralSet
  <1>3. CASE FollowOn
    BY <1>3, FollowSet
  <1>4. CASE \/ SetFlags([auto EXCEPT !.follow = FALSE])
             \/ SetFlags([auto EXCEPT !.smart = TRUE])
             \/ SetFlags([auto EXCEPT !.smart = FALSE])
    BY <1>1, <1>4, FlagsSet
  <1>5. CASE Nothing
    BY <1>5, NothingDone
  <1>6. CASE EnginePass(reading)
    BY <1>6, EnginePassed
  <1>7. CASE FastPass
    BY <1>7, FastPassed
  <1>8. QED
    BY <1>2, <1>3, <1>4, <1>5, <1>6, <1>7 DEF Body

-----------------------------------------------------------------------------
(* The cloud answers, and time passes, for the command in flight.          *)

LEMMA NextFits ==
  ASSUME NEW c \in Commands, NEW a \in AutomationStates, NEW l \in BOOLEAN,
         NEW reading \in Readings, NEW k
  PROVE  /\ NextCommand(c, a, l, reading) \in Commands \cup {None}
         /\ Fits(NextCommand(c, a, l, reading), a, l, k)
  <1>1. c.vacation \in Verdicts
    BY DEF Commands
  <1>2. CASE c.decide
    BY <1>1, <1>2, DecisionFits DEF NextCommand
  <1>3. CASE ~c.decide
    BY <1>3 DEF NextCommand, Fits
  <1>4. QED
    BY <1>2, <1>3

LEMMA LatchTyped ==
  ASSUME NEW c \in Commands, NEW ok \in BOOLEAN, NEW l \in BOOLEAN
  PROVE  LatchAfter(c, ok, l) \in BOOLEAN
  BY DEF LatchAfter, Commands

\* An answer to a cancel of enforcement spends the budget it was sent within.
LEMMA BudgetTyped ==
  ASSUME Guarded, inflight # None, NEW ok \in BOOLEAN
  PROVE  /\ BudgetAfter(inflight, ok) \in Budgets
         /\ BudgetAfter(inflight, ok).current = cancel.current
         /\ BudgetAfter(inflight, ok).sent =
              IF ok /\ inflight.act = "enforce" THEN cancel.sent + 1 ELSE cancel.sent
  <1>1. cancel \in Budgets /\ Budget \in Nat
    BY SchedulerBounds DEF Guarded, TypeOK
  <1>2. CASE inflight.act # "enforce"
    BY <1>1, <1>2 DEF BudgetAfter
  <1>3. CASE inflight.act = "enforce"
    <2> DEFINE sent == cancel.sent + 1
               failed == cancel.failed + 1
    <2>1. sent \in 0..Budget /\ failed \in 0..Budget
      BY <1>1, <1>3 DEF Guarded, Fits, Budgets
    <2>2. BudgetAfter(inflight, ok) = IF ok THEN [cancel EXCEPT !.sent = sent]
                                            ELSE [cancel EXCEPT !.failed = failed]
      BY <1>3 DEF BudgetAfter
    <2>3. sent = cancel.sent + 1
      OBVIOUS
    <2> HIDE DEF sent, failed
    <2>4. QED
      BY <1>1, <1>3, <2>1, <2>2, <2>3 DEF Budgets
  <1>4. QED
    BY <1>2, <1>3

\* The ledger after an answer is the one the latch and the budget account for.
LEMMA LedgerTyped ==
  ASSUME Guarded, inflight # None, NEW ok \in BOOLEAN
  PROVE  /\ LedgerAfter(inflight, ok) \in Ledgers
         /\ Accounts(LatchAfter(inflight, ok, latch), BudgetAfter(inflight, ok),
                     LedgerAfter(inflight, ok))
  <1> DEFINE standing == CountTo(ledger.standing, 2)
             enforced == CountTo(ledger.enforced, Budget + 1)
  <1>1. /\ ledger \in Ledgers /\ cancel \in Budgets /\ inflight \in Commands
        /\ latch \in BOOLEAN /\ Budget \in Nat
    BY SchedulerBounds DEF Guarded, TypeOK
  <1>2. /\ ledger.standing \in 0..2
        /\ ledger.enforced \in 0..Budget + 1
        /\ cancel.sent \in 0..Budget
        /\ cancel.current \in BOOLEAN
    BY <1>1 DEF Ledgers, Budgets
  <1>3. Fits(inflight, auto, latch, cancel) /\ Accounts(latch, cancel, ledger)
    BY DEF Guarded
  <1>4. /\ BudgetAfter(inflight, ok).current = cancel.current
        /\ BudgetAfter(inflight, ok).sent =
             IF ok /\ inflight.act = "enforce" THEN cancel.sent + 1 ELSE cancel.sent
    BY BudgetTyped
  <1>5. CASE ~ok
    BY <1>1, <1>3, <1>4, <1>5 DEF LedgerAfter, LatchAfter, Accounts
  <1>6. CASE ok /\ inflight.act \in ScheduleActs
    <2>0. inflight.act # "enforce"
      BY <1>6 DEF ScheduleActs
    <2>1. CASE inflight.sameDay
      <3>1. ~latch /\ ledger.standing = 0
        BY <1>2, <1>3, <1>6, <2>1 DEF Fits, Accounts
      <3>2. standing = 1
        BY <3>1 DEF CountTo
      <3>3. LedgerAfter(inflight, ok) = [ledger EXCEPT !.standing = standing]
        BY <1>6, <2>1 DEF LedgerAfter
      <3>4. LatchAfter(inflight, ok, latch) = TRUE
        BY <1>6, <2>1 DEF LatchAfter
      <3> HIDE DEF standing
      <3>5. QED
        BY <1>1, <1>3, <1>4, <2>0, <3>2, <3>3, <3>4 DEF Accounts, Ledgers
    <2>2. CASE ~inflight.sameDay
      <3>1. LedgerAfter(inflight, ok) = ledger
        BY <1>6, <2>2 DEF LedgerAfter
      <3>2. LatchAfter(inflight, ok, latch) = FALSE
        BY <1>6, <2>2 DEF LatchAfter
      <3>3. ledger.standing # 1
        BY <1>3, <1>6 DEF Fits, Accounts
      <3>4. QED
        BY <1>1, <1>3, <1>4, <2>0, <3>1, <3>2, <3>3 DEF Accounts
    <2>3. QED
      BY <2>1, <2>2
  <1>7. CASE ok /\ inflight.act \notin ScheduleActs
    <2>0. LatchAfter(inflight, ok, latch) = FALSE
      BY <1>7 DEF LatchAfter
    <2>1. CASE inflight.sameDay /\ inflight.act = "enforce"
      <3>1. cancel.current /\ cancel.sent < Budget /\ ledger.enforced <= cancel.sent
        BY <1>3, <2>1 DEF Fits, Accounts
      <3>2. enforced \in 0..Budget + 1 /\ enforced <= cancel.sent + 1
        BY <1>1, <1>2, <3>1 DEF CountTo
      <3>3. LedgerAfter(inflight, ok) =
              [ledger EXCEPT !.standing = 0, !.enforced = enforced]
        BY <1>7, <2>1 DEF LedgerAfter
      <3> HIDE DEF enforced
      <3>4. 0 \in 0..2
        OBVIOUS
      <3>5. BudgetAfter(inflight, ok).sent = cancel.sent + 1
        BY <1>4, <1>7, <2>1
      <3>6. /\ LedgerAfter(inflight, ok) \in Ledgers
            /\ LedgerAfter(inflight, ok).standing = 0
            /\ LedgerAfter(inflight, ok).enforced = enforced
        BY <1>1, <3>2, <3>3, <3>4 DEF Ledgers
      <3>7. QED
        BY <1>4, <2>0, <3>1, <3>2, <3>5, <3>6 DEF Accounts
    <2>2. CASE ~(inflight.sameDay /\ inflight.act = "enforce")
      <3>1. LedgerAfter(inflight, ok) =
              [ledger EXCEPT !.standing = 0, !.enforced = ledger.enforced]
        BY <1>7, <2>2 DEF LedgerAfter
      <3>2. /\ cancel.current => ledger.enforced <= BudgetAfter(inflight, ok).sent
            /\ ~cancel.current => ledger.enforced = 0
        BY <1>2, <1>3, <1>4 DEF Accounts
      <3>3. /\ LedgerAfter(inflight, ok) \in Ledgers
            /\ LedgerAfter(inflight, ok).standing = 0
            /\ LedgerAfter(inflight, ok).enforced = ledger.enforced
        <4>1. 0 \in 0..2
          OBVIOUS
        <4>2. QED
          BY <1>1, <1>2, <3>1, <4>1 DEF Ledgers
      <3>4. /\ BudgetAfter(inflight, ok).current = cancel.current
            /\ BudgetAfter(inflight, ok).current \in BOOLEAN
        BY <1>2, <1>4
      <3>5. QED
        BY <2>0, <3>2, <3>3, <3>4 DEF Accounts
    <2>3. QED
      BY <2>1, <2>2
  <1>8. QED
    BY <1>5, <1>6, <1>7

LEMMA DeviceTyped ==
  ASSUME TypeOK, NEW c \in Commands
  PROVE  DeviceAfter(c) \in Recharges
  BY DEF TypeOK, DeviceAfter, Recharges

LEMMA ActsTyped ==
  ASSUME TypeOK, NEW c \in Commands, NEW acted \in BOOLEAN, CommandActs(c, acted)
  PROVE  device' \in Recharges /\ tile' \in Recharges /\ view' \in Recharges
  <1>1. device' \in Recharges
    BY DeviceTyped DEF CommandActs, TypeOK
  <1>2. QED
    BY <1>1 DEF CommandActs, TypeOK

-----------------------------------------------------------------------------
(* Every step keeps the invariant.                                         *)

LEMMA WaitTyped ==
  ASSUME TypeOK, NEW op \in Setters \cup Passes, Wait(op)
  PROVE  queue' \in Seq(Setters \cup Passes)
  BY DEF TypeOK, Wait

LEMMA RunKeeps ==
  ASSUME Guarded, NEW reading \in Readings, Run(reading)
  PROVE  Guarded'
  <1>1. queue \in Seq(Setters \cup Passes) /\ queue # <<>>
    BY DEF Guarded, TypeOK, Run
  <1>2. /\ Head(queue) \in Setters \cup Passes
        /\ Tail(queue) \in Seq(Setters \cup Passes)
    BY <1>1
  <1>3. BodyTyped
    BY <1>2, BodyRuns DEF Run
  <1>4. QED
    BY <1>2, <1>3 DEF Run, BodyTyped, Guarded, TypeOK, world

LEMMA RequestKeeps ==
  ASSUME Guarded, NEW reading \in Readings, NEW op \in Requests, Request(op, reading)
  PROVE  Guarded'
  <1>1. op \in Setters \cup Passes
    BY RequestsAssumption
  <1>2. CASE inflight = None /\ queue = <<>>
    <2>1. BodyTyped /\ UNCHANGED <<queue, vacation, world, latch, stopping, old>>
      BY <1>1, <1>2, BodyRuns DEF Request
    <2>2. QED
      BY <2>1 DEF BodyTyped, Guarded, TypeOK, world
  <1>3. CASE ~(inflight = None /\ queue = <<>>)
    <2>1. /\ Wait(op) /\ Nothing
          /\ UNCHANGED <<vacation, world, latch, stopping, old>>
      BY <1>3 DEF Request
    <2>2. BodyTyped
      BY <2>1, NothingDone
    <2>3. queue' \in Seq(Setters \cup Passes)
      BY <1>1, <2>1, WaitTyped DEF Guarded
    <2>4. QED
      BY <2>1, <2>2, <2>3 DEF BodyTyped, Guarded, TypeOK, world
  <1>4. QED
    BY <1>2, <1>3

LEMMA AnswerKeeps ==
  ASSUME Guarded, NEW ok \in BOOLEAN, NEW acted \in BOOLEAN, NEW reading \in Readings,
         Answer(ok, acted, reading)
  PROVE  Guarded'
  <1>1. /\ TypeOK /\ inflight # None /\ inflight \in Commands /\ latch \in BOOLEAN
        /\ auto \in AutomationStates
    BY DEF Guarded, TypeOK, Answer
  <1>2. /\ latch' = LatchAfter(inflight, ok, latch)
        /\ cancel' = BudgetAfter(inflight, ok)
        /\ ledger' = LedgerAfter(inflight, ok)
        /\ inflight' = NextCommand(inflight, auto, latch', reading)
        /\ auto' = auto
        /\ options' \in {auto, options}
        /\ CommandActs(inflight, acted)
        /\ UNCHANGED <<vacation, queue, expiry, stopping, old>>
    BY DEF Answer, Apply, NoApply
  <1>3. latch' \in BOOLEAN
    BY <1>1, <1>2, LatchTyped
  <1>4. cancel' \in Budgets
    BY <1>1, <1>2, BudgetTyped
  <1>5. ledger' \in Ledgers /\ Accounts(latch', cancel', ledger')
    BY <1>1, <1>2, LedgerTyped
  <1>6. inflight' \in Commands \cup {None} /\ Fits(inflight', auto', latch', cancel')
    BY <1>1, <1>2, <1>3, NextFits
  <1>7. device' \in Recharges /\ tile' \in Recharges /\ view' \in Recharges
    BY <1>1, <1>2, ActsTyped
  <1>8. QED
    BY <1>1, <1>2, <1>3, <1>4, <1>5, <1>6, <1>7 DEF Guarded, TypeOK

LEMMA OldAnswerKeeps ==
  ASSUME Guarded, NEW ok \in BOOLEAN, NEW acted \in BOOLEAN, NEW reading \in Readings,
         OldAnswer(ok, acted, reading)
  PROVE  Guarded'
  <1> DEFINE Olds == [auto: AutomationStates, latch: BOOLEAN, command: Commands]
             closed == LatchAfter(old.command, ok, old.latch)
             next == NextCommand(old.command, old.auto, closed, reading)
  <1>1. /\ TypeOK /\ old \in Olds
        /\ old.auto \in AutomationStates /\ old.latch \in BOOLEAN
        /\ old.command \in Commands
    BY DEF Guarded, TypeOK, OldAnswer
  <1>2. closed \in BOOLEAN
    BY <1>1, LatchTyped
  <1>3. next \in Commands \cup {None}
    BY <1>1, <1>2, NextFits
  <1>4. /\ old' = IF next = None THEN None
                  ELSE [old EXCEPT !.command = next, !.latch = closed]
        /\ options' \in {old.auto, options}
        /\ CommandActs(old.command, acted)
        /\ UNCHANGED <<auto, vacation, queue, inflight, latch, cancel, expiry,
                       stopping, ledger>>
    BY DEF OldAnswer
  <1>5. device' \in Recharges /\ tile' \in Recharges /\ view' \in Recharges
    BY <1>1, <1>4, ActsTyped
  <1> HIDE DEF closed, next
  <1>6. old' \in Olds \cup {None}
    BY <1>1, <1>2, <1>3, <1>4
  <1>7. options' \in AutomationStates
    BY <1>1, <1>4 DEF TypeOK
  <1>8. QED
    BY <1>4, <1>5, <1>6, <1>7 DEF Guarded, TypeOK

LEMMA DayKeeps ==
  ASSUME Guarded, DayTurns
  PROVE  Guarded'
  <1>1. Budget \in Nat /\ TypeOK
    BY SchedulerBounds DEF Guarded
  <1>2. /\ inflight' \in Commands \cup {None}
        /\ inflight' # None => inflight # None /\ inflight'.act = inflight.act
                               /\ inflight'.sameDay = FALSE
    BY <1>1 DEF DayTurns, Yesterday, TypeOK, Commands
  <1>3. /\ cancel' \in Budgets /\ cancel'.current = FALSE
        /\ cancel'.sent = cancel.sent /\ cancel'.failed = cancel.failed
    BY <1>1 DEF DayTurns, TypeOK, Budgets
  <1>4. old' \in [auto: AutomationStates, latch: BOOLEAN, command: Commands]
                   \cup {None}
    <2>1. CASE old = None
      BY <2>1 DEF DayTurns
    <2>2. CASE old # None
      <3>1. old \in [auto: AutomationStates, latch: BOOLEAN, command: Commands]
        BY <1>1, <2>2 DEF TypeOK
      <3> DEFINE command == Yesterday(old.command)
      <3>2. command \in Commands \/ (command = None /\ old.command = None)
        BY <3>1 DEF Yesterday, Commands
      <3>3. old' = [old EXCEPT !.latch = FALSE, !.command = command]
        BY <2>2 DEF DayTurns
      <3>4. command \in Commands
        BY <3>1, <3>2
      <3> HIDE DEF command
      <3>5. QED
        BY <3>1, <3>3, <3>4
    <2>3. QED
      BY <2>1, <2>2
  <1>5. Fits(inflight', auto', latch', cancel')
    BY <1>2, <1>3 DEF Guarded, Fits, DayTurns
  <1>6. ledger' \in Ledgers /\ Accounts(latch', cancel', ledger')
    <2>1. NothingAccepted \in Ledgers
      BY <1>1 DEF NothingAccepted, Ledgers
    <2>2. QED
      BY <1>3, <2>1 DEF DayTurns, NothingAccepted, Accounts
  <1>7. QED
    BY <1>1, <1>2, <1>3, <1>4, <1>5, <1>6 DEF DayTurns, Guarded, TypeOK, world

LEMMA AgeKeeps ==
  ASSUME Guarded, DeferralAges
  PROVE  Guarded'
  <1>1. TypeOK
    BY DEF Guarded
  <1>2. /\ auto' \in AutomationStates /\ auto'.deferral = auto.deferral
        /\ options' \in AutomationStates
    BY <1>1, AgedTyped DEF DeferralAges, TypeOK
  <1>3. old' \in [auto: AutomationStates, latch: BOOLEAN, command: Commands]
                   \cup {None}
    <2>1. CASE old = None
      BY <2>1 DEF DeferralAges
    <2>2. CASE old # None
      <3>1. old \in [auto: AutomationStates, latch: BOOLEAN, command: Commands]
        BY <1>1, <2>2 DEF TypeOK
      <3>2. Aged(old.auto) \in AutomationStates
        BY <3>1, AgedTyped
      <3>3. old' = [old EXCEPT !.auto = Aged(old.auto)]
        BY <2>2 DEF DeferralAges
      <3>4. QED
        BY <3>1, <3>2, <3>3
    <2>3. QED
      BY <2>1, <2>2
  <1>4. Fits(inflight', auto', latch', cancel')
    BY <1>2 DEF Guarded, Fits, DeferralAges
  <1>5. QED
    BY <1>2, <1>3, <1>4 DEF DeferralAges, Guarded, TypeOK, world

LEMMA FreshKeeps ==
  ASSUME Guarded, Fresh, options' = options,
         device' \in Recharges, tile' \in Recharges,
         old' \in [auto: AutomationStates, latch: BOOLEAN, command: Commands]
                    \cup {None}
  PROVE  Guarded'
  <1>1. Budget \in Nat /\ TypeOK
    BY SchedulerBounds DEF Guarded
  <1>2. cancel' \in Budgets /\ ~cancel'.current
    BY <1>1 DEF Fresh, Budgets
  <1>3. ledger' \in Ledgers /\ ledger'.enforced = 0 /\ ledger'.standing = 0
    BY <1>1 DEF Fresh, NothingAccepted, Ledgers
  <1>4. /\ auto' \in AutomationStates /\ options' \in AutomationStates
        /\ vacation' \in Verdicts
        /\ queue' \in Seq(Setters \cup Passes)
        /\ inflight' = None
        /\ latch' = FALSE
        /\ expiry' = FALSE
        /\ stopping' = FALSE
        /\ view' \in Recharges
    BY <1>1 DEF Fresh, Restored, TypeOK, Verdicts
  <1>5. Accounts(latch', cancel', ledger')
    BY <1>2, <1>3 DEF Accounts
  <1>6. QED
    BY <1>2, <1>3, <1>4, <1>5 DEF Guarded, TypeOK, Fits

LEMMA RestartKeeps ==
  ASSUME Guarded, Lifecycle
  PROVE  Guarded'
  <1>1. TypeOK
    BY DEF Guarded
  <1>2. CASE Stop
    BY <1>2 DEF Stop, Guarded, TypeOK, world
  <1>3. CASE Setup
    <2>1. Fresh /\ UNCHANGED <<options, device, tile>>
      BY <1>3 DEF Setup
    <2>2. old' \in [auto: AutomationStates, latch: BOOLEAN, command: Commands]
                     \cup {None}
      BY <1>1, <1>3 DEF Setup, TypeOK
    <2>3. QED
      BY <1>1, <2>1, <2>2, FreshKeeps DEF TypeOK
  <1>4. ASSUME NEW acted \in BOOLEAN, Crash(acted)
        PROVE  Guarded'
    <2>1. /\ Fresh /\ old' = None /\ options' = options
          /\ device' = IF acted /\ inflight # None THEN DeviceAfter(inflight) ELSE device
          /\ tile' = IF TileLags THEN tile ELSE device'
      BY <1>4 DEF Crash
    <2>2. device' \in Recharges
      BY <1>1, <2>1, DeviceTyped DEF TypeOK
    <2>3. QED
      BY <1>1, <2>1, <2>2, FreshKeeps DEF TypeOK
  <1>5. QED
    BY <1>2, <1>3, <1>4 DEF Lifecycle

LEMMA WorldKeeps ==
  ASSUME Guarded, World
  PROVE  Guarded'
  <1>1. ASSUME NEW from \in Recharges, NEW to \in Recharges, DeviceMoves(from, to)
        PROVE  Guarded'
    BY <1>1 DEF DeviceMoves, Guarded, TypeOK
  <1>2. CASE DeviceSchedules \/ DeviceStarts \/ DeviceFinishes
    BY <1>1, <1>2 DEF DeviceSchedules, DeviceStarts, DeviceFinishes, Recharges
  <1>3. CASE TileFollows
    BY <1>3 DEF TileFollows, Guarded, TypeOK
  <1>4. QED
    BY <1>2, <1>3, DayKeeps, AgeKeeps DEF World

LEMMA WorkKeeps ==
  ASSUME Guarded, Work
  PROVE  Guarded'
  <1>1. TypeOK
    BY DEF Guarded
  <1>2. ASSUME NEW fresh \in BOOLEAN, Poll(fresh)
        PROVE  Guarded'
    <2>1. queue' \in Seq(Setters \cup Passes)
      BY <1>1, <1>2, WaitTyped DEF Poll, Passes
    <2>2. QED
      BY <1>2, <2>1 DEF Poll, Guarded, TypeOK
  <1>3. ASSUME NEW detected \in Detections, Analyse(detected)
        PROVE  Guarded'
    <2>1. queue' \in Seq(Setters \cup Passes)
      BY <1>1, <1>3, WaitTyped DEF Analyse, Passes
    <2>2. QED
      BY <1>3, <2>1, DetectionsAssumption DEF Analyse, Guarded, TypeOK, world
  <1>4. QED
    BY <1>2, <1>3, RunKeeps, RequestKeeps, AnswerKeeps, OldAnswerKeeps DEF Work

LEMMA InitGuarded ==
  ASSUME Init
  PROVE  Guarded
  <1>1. Budget \in Nat
    BY SchedulerBounds
  <1>2. AllOff \in AutomationStates
    BY DEF AllOff, AutomationStates
  <1>3. cancel \in Budgets /\ cancel.current = FALSE
    BY <1>1 DEF Init, Budgets
  <1>4. ledger \in Ledgers /\ ledger.enforced = 0 /\ ledger.standing = 0
    BY <1>1 DEF Init, NothingAccepted, Ledgers
  <1>5. TypeOK
    <2>1. queue \in Seq(Setters \cup Passes)
      BY DEF Init
    <2>2. /\ auto \in AutomationStates /\ options \in AutomationStates
          /\ device \in Recharges /\ tile \in Recharges /\ view \in Recharges
          /\ vacation \in Verdicts /\ inflight = None /\ old = None
          /\ latch = FALSE /\ expiry = FALSE /\ stopping = FALSE
      BY <1>2 DEF Init, Verdicts
    <2>3. QED
      BY <1>3, <1>4, <2>1, <2>2 DEF TypeOK
  <1>6. QED
    BY <1>3, <1>4, <1>5 DEF Init, Guarded, Fits, Accounts

LEMMA StepGuarded ==
  ASSUME Guarded, [Next]_vars
  PROVE  Guarded'
  <1>1. CASE Next
    BY <1>1, WorkKeeps, WorldKeeps, RestartKeeps DEF Next
  <1>2. CASE UNCHANGED vars
    BY <1>2 DEF vars, world, Guarded, TypeOK
  <1>3. QED
    BY <1>1, <1>2

THEOREM AlwaysGuarded == Spec => []Guarded
  <1>1. Init => Guarded
    BY InitGuarded
  <1>2. Guarded /\ [Next]_vars => Guarded'
    BY StepGuarded
  <1>3. QED
    BY <1>1, <1>2, PTL DEF Spec

-----------------------------------------------------------------------------
(* The results.                                                            *)

\* Every variable of the scheduler stays in its type, its daily counters within the
\* budget (_claim_cancel_budget), for every budget and every setter.
THEOREM SchedulerTyping == Spec => []TypeOK
  <1>1. Guarded => TypeOK
    BY DEF Guarded
  <1>2. QED
    BY <1>1, AlwaysGuarded, PTL

\* No regeneration is ever asked for under a deferral: the lock keeps the flag a
\* schedule command was sent under until it is answered (_lock).
THEOREM NoScheduleUnderDeferral == Spec => []ScheduleRespectsDeferral
  <1>1. Guarded => ScheduleRespectsDeferral
    BY DEF Guarded, Fits, ScheduleRespectsDeferral
  <1>2. QED
    BY <1>1, AlwaysGuarded, PTL

\* Enforcement never cancels more than Budget regenerations in a day
\* (_claim_cancel_budget), though it counts them after the answer.
THEOREM CancelsWithinBudget == Spec => []EnforcementBudget
  <1>1. Guarded => EnforcementBudget
    <2> SUFFICES ASSUME Guarded PROVE EnforcementBudget
      OBVIOUS
    <2>1. /\ cancel.sent \in 0..Budget /\ cancel.current \in BOOLEAN
          /\ Budget \in Nat
      BY SchedulerBounds DEF Guarded, TypeOK, Budgets
    <2>2. ledger.enforced \in 0..Budget + 1
      BY DEF Guarded, TypeOK, Ledgers
    <2>3. QED
      BY <2>1, <2>2 DEF Guarded, Accounts, EnforcementBudget
  <1>2. QED
    BY <1>1, AlwaysGuarded, PTL

\* The cloud accepts a second schedule of a day only after a cancel: the latch is set
\* by the answer, but no other schedule can be on its way meanwhile (_scheduled_day).
THEOREM OneScheduleEachDay == Spec => []OneScheduleADay
  <1>1. Guarded => OneScheduleADay
    BY DEF Guarded, Accounts, OneScheduleADay
  <1>2. QED
    BY <1>1, AlwaysGuarded, PTL

-----------------------------------------------------------------------------
(* Whose deferral it is.                                                   *)

\* Where no reload overtakes a command, the options always hold the flags in use.
Persisted == old = None /\ options = auto

\* The deferral of a is the user's own.
Manual(a) == a.deferral /\ a.source = "manual"

LEMMA BodyPersists ==
  ASSUME NEW op, NEW reading, options = auto, Body(op, reading)
  PROVE  options' = auto'
  <1>1. ASSUME NEW a, Apply(a) PROVE options' = auto'
    BY <1>1 DEF Apply
  <1>2. NoApply => options' = auto'
    BY DEF NoApply
  <1>3. ASSUME NEW on, NEW source, SetDeferral(on, source, reading)
        PROVE  options' = auto'
    BY <1>1, <1>2, <1>3, Zenon DEF SetDeferral, StartDeferral, EndDeferral, Nothing
  <1>4. CASE FollowOn
    BY <1>1, <1>4, Zenon DEF FollowOn, SetFlags
  <1>5. ASSUME NEW a, SetFlags(a) PROVE options' = auto'
    BY <1>1, <1>5 DEF SetFlags
  <1>6. CASE EnginePass(reading)
    BY <1>1, <1>2, <1>6, Zenon DEF EnginePass, StartDeferral, EndDeferral
  <1>7. CASE FastPass \/ Nothing
    BY <1>1, <1>2, <1>7, Zenon DEF FastPass, Nothing
  <1> QED
    BY <1>3, <1>4, <1>5, <1>6, <1>7, Zenon DEF Body

LEMMA StepPersists ==
  ASSUME PatientReload, Persisted, [Next]_vars
  PROVE  Persisted'
  <1>1. old = None /\ options = auto
    BY DEF Persisted
  <1>2. CASE Work
    <2>1. ASSUME NEW reading \in Readings, Run(reading) PROVE Persisted'
      BY <1>1, <2>1, BodyPersists DEF Run, Persisted
    <2>2. ASSUME NEW reading \in Readings, NEW op \in Requests, Request(op, reading)
          PROVE  Persisted'
      BY <1>1, <2>2, BodyPersists DEF Request, Nothing, NoApply, Persisted
    <2>3. ASSUME NEW reading \in Readings, NEW ok, NEW acted, Answer(ok, acted, reading)
          PROVE  Persisted'
      BY <1>1, <2>3 DEF Answer, Apply, NoApply, Persisted
    <2>4. ~\E ok, acted \in BOOLEAN, reading \in Readings : OldAnswer(ok, acted, reading)
      BY <1>1 DEF OldAnswer
    <2>5. CASE \/ \E fresh \in BOOLEAN : Poll(fresh)
               \/ \E detected \in Detections : Analyse(detected)
      BY <1>1, <2>5 DEF Poll, Analyse, Persisted
    <2> QED
      BY <1>2, <2>1, <2>2, <2>3, <2>4, <2>5 DEF Work
  <1>3. CASE World
    BY <1>1, <1>3 DEF World, DeviceSchedules, DeviceStarts, DeviceFinishes, DeviceMoves,
                      TileFollows, DayTurns, DeferralAges, Persisted
  <1>4. CASE Lifecycle
    BY <1>1, <1>4 DEF Lifecycle, Stop, Setup, Crash, Fresh, Restored, Persisted
  <1>5. CASE UNCHANGED vars
    BY <1>1, <1>5 DEF vars, Persisted
  <1> QED
    BY <1>2, <1>3, <1>4, <1>5 DEF Next

\* Under the lock only the setter that ends a deferral ends the user's.
LEMMA BodyRespects ==
  ASSUME auto \in AutomationStates, Manual(auto), NEW op, NEW reading, Body(op, reading)
  PROVE  \/ Manual(auto')
         \/ op = "defer_off" /\ auto' = Undeferred(auto)
  <1>1. auto.deferral = TRUE /\ auto.source = "manual"
    BY DEF Manual, AutomationStates
  <1>2. CASE op \in {"defer_on", "suggested"}
    BY <1>1, <1>2 DEF Body, SetDeferral, Nothing, NoApply, Manual, Passes
  <1>3. CASE op = "defer_off"
    BY <1>1, <1>3 DEF Body, SetDeferral, EndDeferral, Apply, Passes
  <1>4. CASE op = "follow_on"
    <2>1. auto' = [auto EXCEPT !.follow = TRUE]
      BY <1>1, <1>4 DEF Body, FollowOn, SetFlags, Apply, Passes
    <2> QED
      BY <1>1, <2>1 DEF AutomationStates, Manual
  <1>5. CASE op \in {"follow_off", "smart_on", "smart_off"}
    <2>1. \/ auto' = [auto EXCEPT !.follow = FALSE]
          \/ auto' = [auto EXCEPT !.smart = TRUE]
          \/ auto' = [auto EXCEPT !.smart = FALSE]
      BY <1>5 DEF Body, SetFlags, Apply, Passes
    <2> QED
      BY <1>1, <2>1 DEF AutomationStates, Manual
  <1>6. CASE op = "engine"
    <2>1. auto' = auto
      BY <1>1, <1>6 DEF Body, EnginePass, MayRelease, Apply, Nothing, NoApply, Passes
    <2> QED
      BY <1>1, <2>1 DEF Manual
  <1>7. CASE op = "fast"
    BY <1>1, <1>7 DEF Body, FastPass, Apply, Nothing, NoApply, Passes, Manual
  <1> QED
    BY <1>2, <1>3, <1>4, <1>5, <1>6, <1>7 DEF Body, Passes

LEMMA StepRespects ==
  ASSUME Guarded, Persisted, [Next]_vars, Manual(auto)
  PROVE  \/ Manual(auto')
         \/ /\ auto' = Undeferred(auto)
            /\ queue = <<>> \/ Head(queue) = "defer_off"
  <1>1. auto \in AutomationStates /\ options = auto /\ old = None
    BY DEF Guarded, TypeOK, Persisted
  <1>2. CASE Work
    <2>1. ASSUME NEW reading \in Readings, Run(reading)
          PROVE  Manual(auto') \/ (Head(queue) = "defer_off" /\ auto' = Undeferred(auto))
      BY <1>1, <2>1, BodyRespects DEF Run
    <2>2. ASSUME NEW reading \in Readings, NEW op \in Requests, Request(op, reading)
          PROVE  Manual(auto') \/ (queue = <<>> /\ auto' = Undeferred(auto))
      BY <1>1, <2>2, BodyRespects DEF Request, Nothing, NoApply
    <2>3. ASSUME NEW reading \in Readings, NEW ok, NEW acted, Answer(ok, acted, reading)
          PROVE  auto' = auto
      BY <2>3 DEF Answer, Apply, NoApply
    <2>4. ~\E ok, acted \in BOOLEAN, reading \in Readings : OldAnswer(ok, acted, reading)
      BY <1>1 DEF OldAnswer
    <2>5. CASE \/ \E fresh \in BOOLEAN : Poll(fresh)
               \/ \E detected \in Detections : Analyse(detected)
      BY <2>5 DEF Poll, Analyse
    <2> QED
      BY <1>2, <2>1, <2>2, <2>3, <2>4, <2>5 DEF Work
  <1>3. CASE World
    <2>1. auto' = auto \/ auto' = Aged(auto)
      BY <1>3 DEF World, DeviceSchedules, DeviceStarts, DeviceFinishes, DeviceMoves,
                  TileFollows, DayTurns, DeferralAges
    <2>2. Manual(Aged(auto))
      BY <1>1 DEF Manual, Aged, AutomationStates
    <2> QED
      BY <2>1, <2>2
  <1>4. CASE Lifecycle
    BY <1>1, <1>4 DEF Lifecycle, Stop, Setup, Crash, Fresh, Restored
  <1>5. CASE UNCHANGED vars
    BY <1>5 DEF vars
  <1> QED
    BY <1>2, <1>3, <1>4, <1>5 DEF Next

\* A deferral the user set by hand ends by hand, over verdicts, suggestions, crashes
\* and reloads (MayRelease, state_from_options), where no reload overtakes a command:
\* with one that does, the old scheduler may persist flags of before (PersistedIsCurrent).
THEOREM DeferralsAreTheUsers ==
  ASSUME PatientReload PROVE Spec => ManualDeferralIsTheUsers
  <1>1. Init => Persisted
    BY DEF Init, Persisted
  <1>2. Persisted /\ [Next]_vars => Persisted'
    BY StepPersists
  <1>3. Guarded /\ Persisted /\ [Next]_vars =>
          [auto.deferral /\ auto.source = "manual"
           => \/ auto'.deferral /\ auto'.source = "manual"
              \/ /\ auto' = Undeferred(auto)
                 /\ queue = <<>> \/ Head(queue) = "defer_off"]_vars
    BY StepRespects DEF Manual
  <1> QED
    BY <1>1, <1>2, <1>3, AlwaysGuarded, PTL DEF Spec, ManualDeferralIsTheUsers

=============================================================================
