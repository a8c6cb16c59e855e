CONSTANTS
  Paths = {1, 2}
  Contents = {a, b}
  Absent = Absent
  i1 = i1
  Ids = {i1}
  IdOf <- MCIdOf
  NoId = NoId
  Callers = {c1, c2}
  MaxEdits = 2
SPECIFICATION FairSpec
INVARIANTS
  NothingForgotten
  IdsAsRebuilt
PROPERTIES
  FreshUnlessJoined
  ReindexReturns
CHECK_DEADLOCK FALSE
