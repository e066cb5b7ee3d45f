---------------------------- MODULE MCRepairIssues ----------------------------
EXTENDS RepairIssues

MCIssues == {"salt", "urgent", "away", "defer", "quiet"}

FlagsOf(auto, deferral, smart) == [auto |-> auto, deferral |-> deferral, smart |-> smart]
MCNoFlags == FlagsOf(FALSE, FALSE, FALSE)

NoResult == [leak |-> None, tier |-> None, litres |-> 0, vacation |-> None, days |-> 0, busy |-> None]
Leaks == {[leak |-> FALSE, tier |-> None, litres |-> 0], [leak |-> TRUE, tier |-> "info", litres |-> 1],
          [leak |-> TRUE, tier |-> "urgent", litres |-> 2], [leak |-> TRUE, tier |-> "urgent", litres |-> 3]}

\* A leak that is known comes with a verdict on the absence.
LeakResults ==
  {NoResult} \cup
  {[leak |-> l.leak, tier |-> l.tier, litres |-> l.litres, vacation |-> v, days |-> 0, busy |-> None] :
     l \in Leaks, v \in BOOLEAN}
AbsenceResults ==
  {[NoResult EXCEPT !.vacation = v, !.days = d] : v \in BOOLEAN \cup {None}, d \in {3, 4}}
GridResults == {[NoResult EXCEPT !.busy = b] : b \in {None, {}, {2}, {1, 2}, {1, 2, 3}}}

\* One concern each: salt, leaks, absences, quiet hours.
MCScenarios ==
  {[readings |-> {None, 0, 1, 2, 3, 4, 5}, results |-> {}, flags |-> {MCNoFlags}, hours |-> {2}],
   [readings |-> {None}, results |-> LeakResults, hours |-> {2},
    flags |-> {MCNoFlags, FlagsOf(FALSE, TRUE, FALSE)}],
   [readings |-> {None}, results |-> AbsenceResults, hours |-> {2},
    flags |-> {MCNoFlags, FlagsOf(TRUE, FALSE, FALSE), FlagsOf(FALSE, TRUE, FALSE)}],
   [readings |-> {None}, results |-> GridResults, hours |-> {2, 3},
    flags |-> {MCNoFlags, FlagsOf(FALSE, FALSE, TRUE)}]}

=============================================================================
