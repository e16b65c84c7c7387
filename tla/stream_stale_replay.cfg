\* Replay from the earliest offset after a redeployment, with retention.
SPECIFICATION Spec
CONSTANTS
  Queries = {"page_views_1m_pg"}
  Records <- EventsOnly
  WindowLen = 1
  Delay = 2
  MaxLog = 3
  MaxFaults = 0
  MaxRedeploys = 1
  MaxTrims = 1
  MaxCopies = 2
PROPERTY ReplacingIsSafe
CHECK_DEADLOCK FALSE
