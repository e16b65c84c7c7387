\* Parallel requests, lost replies, failing commands and restarts of Redis.
SPECIFICATION FairSpec
CONSTANTS
  Requests = {r1, r2, r3}
  MaxRequests = 2
  Window = 2
  MaxCount = 4
  MaxFaults = 2
INVARIANTS BurstBound BurstInv ExpiryIsComing
PROPERTIES WindowNotProlonged LimitIsTemporary
