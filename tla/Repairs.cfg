SPECIFICATION Spec
CONSTANTS
  None = None
  Issues <- MCIssues
  Scenarios <- MCScenarios
  NoFlags <- MCNoFlags
  CriticalDays = 0
  WarningDays = 3
  Hysteresis = 1
  DayHours = 6
  CandidateHours = {1, 2, 3}
CHECK_DEADLOCK FALSE
INVARIANTS AwayLeakIsToldOnce AdviceIsCurrent
PROPERTIES EscalationReachesTheUser IgnoredStaysIgnored
