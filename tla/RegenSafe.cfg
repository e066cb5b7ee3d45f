SPECIFICATION Spec
CONSTANTS
  None = None
  Requests <- Opted
  Budget = 1
  WaitBound = 1
  Detections <- HomeOnly
  Readings <- LowOnly
  TileLags = FALSE
  Restarts = TRUE
  PatientReload = FALSE
INVARIANTS ScheduleRespectsDeferral  OneScheduleADay
