SPECIFICATION Spec
CONSTANTS
  Requests = {q1, q2, q3}
  Instruments = {inst1, inst2}
  Lookback = 2
\* every request ends and none follows it
CHECK_DEADLOCK FALSE
INVARIANTS
  OrderMatchesStore
  ListingIsComplete
PROPERTY
  LedgerSpec
