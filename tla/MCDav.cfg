SPECIFICATION MCSpec
CONSTANTS
  t1 = t1
  t2 = t2
  anna = anna
  bert = bert
  Tokens = {t1, t2}
  Users = {anna, bert}
  NoUser = NoUser
  Headers <- MCHeaders
  LockLists <- MCLockLists
  Versions <- AllVersions
  r1 = r1
  r2 = r2
  Requests = {r1, r2}
  res1 = res1
  res2 = res2
  col1 = col1
  col2 = col2
  NoCollection = NoCollection
  Resources <- MCResources
  Collections <- MCCollections
  Parent <- MCParent
  Objections <- MCObjections
  prop1 = prop1
  prop2 = prop2
  Props = {prop1, prop2}
  Values = {"x", "y"}
  Absent = "absent"
  Documents <- MCDocuments
SYMMETRY Symmetry
INVARIANTS
  AnswersVerdict
  LockedNeedsToken
  ConditionsHold
  AllOrNothing
PROPERTIES
  NothingLost
CHECK_DEADLOCK FALSE
