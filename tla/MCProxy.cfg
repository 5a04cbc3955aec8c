SPECIFICATION MCSpec
CONSTANTS
  c1 = c1
  c2 = c2
  s1 = s1
  s2 = s2
  s3 = s3
  Versions <- MCVersions
  Requests <- MCRequests
  MaxInterim = 2
  Configurations <- MCConfigurations
  Urls <- MCUrls
  SlotNames = {"relative"}
  Children = {c1, c2}
  Segments = {s1, s2, s3}
  MaxWorkers = 2
  MaxGeneration = 1
  None = None
  Roles = {"user"}
  Headers = {1}
  ConfMaxfwd = 0
  MaxAttempts = 1
  MaxBusy = 1
  MaxHops = 2
SYMMETRY Symmetry
INVARIANTS
  SlotsAgree
  RightWorker
  Bounded
  AnswerKept
PROPERTY ConnectionKept
CHECK_DEADLOCK FALSE
