\* One aggregation under kills, outages, ambiguous writes, retention and a redeployment.
SPECIFICATION Spec
CONSTANTS
  Queries = {"page_views_1m_pg"}
  Records <- EventsOfThreeMinutes
  WindowLen = 1
  Delay = 2
  MaxLog = 3
  MaxFaults = 2
  MaxRedeploys = 1
  MaxTrims = 1
  MaxCopies = 2
INVARIANTS TypeOK SinkInv MissingOnlyIfLate PunctualEventsCounted CountedOnce StateIsOpenWindows
PROPERTIES RowsNeverShrink ImplementsExactlyOnceSink
CHECK_DEADLOCK FALSE
