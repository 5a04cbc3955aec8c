SPECIFICATION Spec
CONSTANTS
  r1 = r1
  r2 = r2
  r3 = r3
  Requests = {r1, r2, r3}
  None = None
  AuthNames = {"A", "no realm"}
  NoRealm = "no realm"
  Logins <- MCLogins
  Null = Null
  Wants <- MCWants
  NotesCopies <- MCCopies
SYMMETRY Symmetry
INVARIANTS
  NotesWhole
PROPERTIES
  SharesLogin
CHECK_DEADLOCK FALSE
