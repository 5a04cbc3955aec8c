SPECIFICATION FairSpec
CONSTANTS
  a = a
  b = b
  Conns = {a, b}
  Us = Us
  Other = Other
  Clients <- MCClients
  Versions <- AllVersions
  MaxAsks = 4
  MaxFaults = 2
INVARIANTS
  TableKept
PROPERTIES
  RequestsSettled
CHECK_DEADLOCK FALSE
