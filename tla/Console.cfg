SPECIFICATION ConsoleFairSpec
CONSTANTS
  Requests = {q1, q2}
  Earlier = {e1}
  Lookback = 1
  None = None
INVARIANTS
  AuditFollowsRealTime
  HistorySurvivesFallback
  DisplayIsTrue
  StoredIsExplained
PROPERTIES
  LedgerSpec
  OldNeverReplacesNew
  FormComesBack
