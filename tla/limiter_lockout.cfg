\* One failure of Redis between INCR and EXPIRE.
SPECIFICATION FairSpec
CONSTANTS
  Requests = {r1, r2, r3}
  MaxRequests = 2
  Window = 2
  MaxCount = 4
  MaxFaults = 1
PROPERTY OutageLeavesNoLockout
