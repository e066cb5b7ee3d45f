SPECIFICATION FairSpec
CONSTANTS
  None = None
  Requests <- Suggested
  Budget = 1
  WaitBound = 1
  Detections <- AwayOrHome
  Readings <- LowOrEnough
  TileLags = TRUE
  Restarts = FALSE
  PatientReload = TRUE
PROPERTIES  OverdueIsLetThrough AutoDeferralReleases
