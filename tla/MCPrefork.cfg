SPECIFICATION FairPreforkSpec
CONSTANTS
  c1 = c1
  c2 = c2
  Children = {c1, c2}
  None = None
  NumListeners = 2
  MaxRequests = 2
  Versions <- AllVersions
  MaxGeneration = 1
  MaxFaults = 1
INVARIANTS
  NoOrphanedMutex
  NothingStale
PROPERTIES
  EveryConnectionServed
  SignalledLeaves
CHECK_DEADLOCK FALSE
