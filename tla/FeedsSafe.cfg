SPECIFICATION Spec
CONSTANTS
  Interval = 1
  StaleFor = 2
  Debounce = 2
  Unread <- Badges
  Unknown = Unknown
  Alerts = {a1}
  None = None
INVARIANTS StreamKeepsPolling AlertsAreHeardOnce
PROPERTIES EntityFollowsTheBus
