SPECIFICATION Spec
CONSTANTS
  SmaPeriod = 2
  Horizon = 1
  RecentWindow = 2
  PageLimit = 2
INVARIANTS
  WeekIsCurrent
CHECK_DEADLOCK FALSE
