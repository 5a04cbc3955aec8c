SPECIFICATION FairSpec
CONSTANTS
  Workers <- MCWorkers
  Nobody = Nobody
  Nothing = Nothing
  Any = Any
  bounds = 2
  MaxItems = 2
  MaxWakeups = 1
  Listeners <- MCListeners
  Closers <- MCClosers
  Joiners <- MCJoiners
  MaxTries = 1
PROPERTIES
  QueueSpec
  WorkEnds
CHECK_DEADLOCK FALSE
