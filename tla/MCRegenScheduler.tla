--------------------------- MODULE MCRegenScheduler ---------------------------
(***************************************************************************)
(* RegenScheduler on small instances: the cancel budget scaled from 3 down *)
(* to 1, one caller waiting for the lock.                                  *)
(***************************************************************************)
EXTENDS RegenScheduler

ByHand == {"defer_on", "defer_off"}
Opted == {"suggested", "defer_off", "smart_on"}
Suggested == {"suggested", "defer_on", "defer_off", "follow_on", "follow_off"}

NoDetections == {"unknown"}
AwayOrHome == {"yes", "no"}
HomeOnly == {"no"}

Reading(online, allowed, need) == [online |-> online, allowed |-> allowed, need |-> need]
LowOnly == {Reading(TRUE, TRUE, "low")}
LowOrEnough == {Reading(TRUE, TRUE, "low"), Reading(TRUE, TRUE, "enough")}
=============================================================================
