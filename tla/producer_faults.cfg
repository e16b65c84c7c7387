\* All parts around the streaming job; a broker outage, broken connections, reruns.
SPECIFICATION DeploymentSpec
CONSTANTS
  MaxEvents = 3
  MaxQueue = 2
  MaxInFlight = 2
  MaxFaults = 2
  Declared = 3
  MaxDead = 1
  MaxPolls = 2
  MaxMisses = 1
  Second = 2
  MaxDraws = 3
  Takes = {1, 2}
  SessionLengths = {2}
  MaxRuns = 2
  MaxWall = 4
  MaxQuality = 1
INVARIANTS DeploymentTypeOK TopicInOrder Accounted HealthyRunDeliversAll StartedMeansReady RecoveredMeansReplaced SeedRepeatsIds RestartOverwrites TimestampsAreHonest PassMeansRows
PROPERTIES LimitedRunEnds RoundsAreComplete DeadLettersShow ImplementsOrderedDelivery
CHECK_DEADLOCK FALSE
