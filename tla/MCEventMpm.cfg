SPECIFICATION Spec
CONSTANTS
  ServerLimit = 3
  ThreadsPerChild = 1
  NumBuckets = 2
  MinSpare = 2
  MaxSpare = 3
  MaxWorkers = 4
  ActiveDaemonsLimit = 3
  MAX_SPAWN_RATE = 4
  HoldOff = 1
  StartServers = 3
  PodCapacity = 1
  MaxGeneration = 1
  MaxFaults = 1
INVARIANTS
  LiveSlotsCovered
  RestartReachesAll
PROPERTIES
  PoolSpec
CHECK_DEADLOCK FALSE
