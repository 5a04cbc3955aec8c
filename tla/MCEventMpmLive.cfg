SPECIFICATION FairSpec
CONSTANTS
  ServerLimit = 3
  ThreadsPerChild = 1
  NumBuckets = 1
  MinSpare = 2
  MaxSpare = 3
  MaxWorkers = 3
  ActiveDaemonsLimit = 3
  MAX_SPAWN_RATE = 2
  HoldOff = 1
  StartServers = 2
  PodCapacity = 2
  MaxGeneration = 1
  MaxFaults = 1
INVARIANTS
  FreeSlotsFit
PROPERTIES
  PoolSettles
  OldGenerationsLeave
CHECK_DEADLOCK FALSE
