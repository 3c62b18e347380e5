SPECIFICATION Spec
CONSTANTS
  SmaPeriod = 2
  Horizon = 1
  RecentWindow = 2
  PageLimit = 2
INVARIANTS
  PlanIsLargestAffordable
  CrowdingNeverHelps
  MaxPainIsGlobal
  BacktestIsCausal
  RecencyCounts
  NewsIsEvenHanded
  SessionsAreComplete
  TrendsAreIsolated
  TrendsAreDated
  StoredReadsBack
  PageIsTwoSided
  CallFollowsOutlook
CHECK_DEADLOCK FALSE
