\* The broker goes away just before the producer closes.
SPECIFICATION Spec
CONSTANTS
  MaxEvents = 2
  MaxQueue = 4
  MaxInFlight = 1
  MaxFaults = 1
INVARIANT NothingSilentlyDropped
CHECK_DEADLOCK FALSE
