---------------------------- MODULE MCLiveManager ----------------------------
(***************************************************************************)
(* LiveManager on small instances: two task identities (a second session   *)
(* needs a second task), budgets scaled from 4..200 down to 1..2, the brake *)
(* and the failure threshold scaled from 3 and 5 down to 2.                *)
(***************************************************************************)
EXTENDS LiveManager

OnlineOrNot ==
  {[online |-> TRUE, throttled |-> FALSE], [online |-> FALSE, throttled |-> FALSE]}
Healthy == {[online |-> TRUE, throttled |-> FALSE]}

HoldTriggers == {"manual", "continuous"}
FairTriggers == {"continuous", "smart", "use"}

BudgetInputs == {0, 1, 2, 9}
NoInputs == {}
AnyGap == {"recent", "past"}
=============================================================================
