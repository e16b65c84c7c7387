\* A timestamp the validator accepts and Spark does not.
SPECIFICATION FairSpec
CONSTANTS
  Queries = {"page_views_1m_pg", "clicks_dlq"}
  Records <- EventAndOdd
  WindowLen = 1
  Delay = 2
  MaxLog = 2
  MaxFaults = 0
  MaxRedeploys = 0
  MaxTrims = 0
  MaxCopies = 2
PROPERTY BadRecordDoesNotBlock
CHECK_DEADLOCK FALSE
