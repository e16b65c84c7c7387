\* What does the gauge show while nothing is written?
SPECIFICATION Spec
CONSTANTS
  Requests = {}
  Ttl = 1
  MaxWork = 0
  MaxTime = 5
  MaxFaults = 0
  WindowLen = 1
  MaxStale = 1
  RefreshEvery = 1
INVARIANT StaleDataRaises
CHECK_DEADLOCK FALSE
