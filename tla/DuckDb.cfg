SPECIFICATION FairSpec
CONSTANTS
  Threads = {t1, t2, t3}
  Ids = {r1}
  MaxCalls = 2
  None = None
\* the threads stop when their calls are used up
CHECK_DEADLOCK FALSE
INVARIANTS
  ConnectionIsSerial
PROPERTIES
  AtomicSpec
  CallsReturn
