\* Do the Postgres and the ClickHouse page views agree?
SPECIFICATION Spec
CONSTANTS
  Queries = {"page_views_1m_pg", "page_views_1m_ch"}
  Records <- EventsOnly
  WindowLen = 1
  Delay = 2
  MaxLog = 2
  MaxFaults = 0
  MaxRedeploys = 0
  MaxTrims = 0
  MaxCopies = 2
INVARIANT SinksAligned
CHECK_DEADLOCK FALSE
