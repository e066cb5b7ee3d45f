------------------------ MODULE MCStatisticsBackfill ------------------------
(***************************************************************************)
(* StatisticsBackfill on small instances: days of two hours, a first run   *)
(* on the second day, an overlap of a day.  The household draws in most    *)
(* hours; its meter may read a little too low once, or be exchanged.       *)
(***************************************************************************)
EXTENDS StatisticsBackfill

Household(meter, drawn) ==
  [meter |-> [h \in Hours |-> meter[h + 1]], drawn |-> [h \in Hours |-> drawn[h + 1]]]

\* Silent hours, a glitch in hour 4, a new meter in hour 6.
Exchanged == Household(<<40, 42, 0, 45, 44, 47, 3, 5>>, <<40, 42, 42, 45, 44, 47, 50, 52>>)
OneOfThem == {Exchanged}
=============================================================================
