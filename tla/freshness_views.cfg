\* Parallel requests, outages of Postgres and Redis, the loop of the gauge.
SPECIFICATION FairSpec
CONSTANTS
  Requests = {r1, r2}
  Ttl = 1
  MaxWork = 1
  MaxTime = 4
  MaxFaults = 1
  WindowLen = 1
  MaxStale = 1
  RefreshEvery = 1
INVARIANTS AnswersAreRecent CliNeverHidesStaleness GaugeIsOneRoundBehind
PROPERTY ServedWithoutRedis
CHECK_DEADLOCK FALSE
