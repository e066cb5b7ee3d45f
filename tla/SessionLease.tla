---------------------------- MODULE SessionLease ----------------------------
(***************************************************************************)
(* What the live manager promises the cloud: one session at a time, each   *)
(* charged to the day's allowance once, when its socket opens, and none    *)
(* begun with nothing left to charge.                                      *)
(***************************************************************************)
EXTENDS Naturals

CONSTANTS Sessions, NoSession, Allowance

VARIABLES
  owner,   \* the session that holds the lease, or NoSession
  paid,    \* it has been charged
  spent    \* charged today

leaseVars == <<owner, paid, spent>>

Init == owner = NoSession /\ paid = FALSE /\ spent = 0

\* The allowance of a new day counts at once for a session it lets in.
Acquire ==
  /\ owner = NoSession
  /\ owner' \in Sessions
  /\ paid' = FALSE
  /\ spent' \in {spent, 0}
  /\ spent' < Allowance

Pay ==
  /\ owner # NoSession /\ ~paid
  /\ paid' = TRUE
  /\ spent' = spent + 1
  /\ spent' <= Allowance
  /\ UNCHANGED owner

Release ==
  /\ owner # NoSession
  /\ owner' = NoSession
  /\ paid' = FALSE
  /\ UNCHANGED spent

NewDay ==
  /\ spent' = 0
  /\ UNCHANGED <<owner, paid>>

Spec == Init /\ [][Acquire \/ Pay \/ Release \/ NewDay]_leaseVars

=============================================================================
