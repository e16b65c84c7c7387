\* The transactions of the sink and of the rollup, with the orphans they leave.
SPECIFICATION FairSpec
CONSTANTS
  Rows = {w1, w2}
  Sessions = {s1, s2}
  NoSession = NoSession
  MaxBatches = 2
  MaxFaults = 1
  Attempts = {a1, a2}
  MaxAttempts = 2
INVARIANTS StoreInv TableIsWhole
PROPERTIES ImplementsAtomicWrites DailyNeverGoesBack BatchesGetAcked
CHECK_DEADLOCK FALSE
