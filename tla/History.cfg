SPECIFICATION Spec
CONSTANTS
  None = None
  Days = 4
  DayLen = 2
  MonthDays = 2
  YearDays = 4
  FirstHour = 4
  Meters <- OneOfThem
  LateBound = 1
  PassDays = 1
  FlipBound = 1
  GlitchesInOrder = TRUE
  Overlap = 1
  Margin = 1
  HourlyChunk = 2
  HourlyRetention = 3
  ProbeYears = 1
  QueueBound = 1
CHECK_DEADLOCK FALSE
 
PROPERTIES HistorySurvivesRebuild CompletedPassIsCurrent
