SPECIFICATION FairStopSpec
CONSTANTS
  p1 = p1
  p2 = p2
  p3 = p3
  StopSlots = {1, 2}
  Procs = {p1, p2, p3}
  None = None
  FirstChild <- MCFirstChild
  Timeouts = {0, 8}
  DeafSets <- MCDeafSets
  Versions <- AllVersions
INVARIANTS
  NobodyForgotten
PROPERTIES
  Escalates
  GracefulWaits
  StopEnds
CHECK_DEADLOCK FALSE
