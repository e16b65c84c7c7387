\* Progress through outages, failures and kills; what reaches which of three sinks.
SPECIFICATION FairSpec
CONSTANTS
  Queries = {"page_views_1m_pg", "clicks_ch", "clicks_dlq"}
  Records <- EventAndBad
  WindowLen = 1
  Delay = 2
  MaxLog = 2
  MaxFaults = 1
  MaxRedeploys = 0
  MaxTrims = 0
  MaxCopies = 2
INVARIANTS ParseSplit CountedOnce
PROPERTIES EventuallyCommitted FailedQueryRestarts
CHECK_DEADLOCK FALSE
