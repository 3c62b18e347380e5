SPECIFICATION Spec
CONSTANTS
  Requests = {q1, q2}
  Instruments = {inst1}
  Lookback = 2
CHECK_DEADLOCK FALSE
INVARIANTS
  ListingNeverRaises
