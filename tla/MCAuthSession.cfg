SPECIFICATION SessionSpec
CONSTANTS
  q1 = q1
  q2 = q2
  Requests = {q1, q2}
  Realms = {"A", "B"}
  Users = {"u", "v", "w"}
  Passwords = {"x", "y"}
  RealmLogins <- MCLogins
  Sites = {"s"}
  Null = Null
  NotLoaded = NotLoaded
  SessionCopies <- MCCopies
SYMMETRY Symmetry
INVARIANTS
  HashOfUser
  OneLogin
CHECK_DEADLOCK FALSE
