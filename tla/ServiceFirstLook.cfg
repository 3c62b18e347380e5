SPECIFICATION Spec
CONSTANTS
  Requests = {q1, q2, q3}
  Instruments = {inst1, inst2}
  Lookback = 1
  MaxClock = 2
SYMMETRY Symmetry
INVARIANTS
  FirstLookIsFirst
