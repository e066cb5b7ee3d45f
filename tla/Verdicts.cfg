SPECIFICATION Spec
CONSTANTS
  None = None
  DayLen = 6
  Noon = 5
  NightStart = 1
  NightEnd = 3
  RunHour = 4
  BoundSlack = 12
  WeekDays = 2
  MinSamples = 2
  MinDays = 2
  PeaksPerDay = 2
  Freshness = 24
  LeakNights = 2
  PersistentHours = 22
  WindowDays = 4
  BaselineDays = 5
  K = 3
  PointHours = 1
  VacationDays = 2
  MaxEvents = 1
  LargeEvent = 5
  TierLimits <- MCTierLimits
  Devices <- MCDevices
  Patterns <- MCPatterns
  Ordinary <- MCOrdinary
  Stretches <- MCStretches
  LastDay = 4
  OutageBound = 1
  TroubleBound = 3
  RegenUse = 3
  LateBound = 1
  FeedPage = 2
CHECK_DEADLOCK FALSE
INVARIANTS  LeaksAreFound AbsencesAreReal LongAbsenceIsSeen OrdinaryLifeIsNoAnomaly ForecastIsTheHabit
