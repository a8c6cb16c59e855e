CONSTANTS
  Ops = {c1, c2, c3}
  Calls = {c1, c2, c3}
  NoOp = NoOp
  Timeout = 1
  Keys = {k1, k2}
  Args = {w1, w2}
  Identities <- MCIdentities
  Ttl = 2
  MaxEntries = 1
  Free = Free
  NoKey = NoKey
  NoRev = NoRev
  Preconditions = FALSE
  Writers = {}
  MaxEdits = 0
SPECIFICATION Spec
SYMMETRY MCSymmetry
INVARIANTS
  JournaledOnce
  CorrectsATimeout
  DedupedTellsTheStory
  RetryNeverRepeats
  NoLostWakeup
PROPERTIES
  KeptUntilExpiry
  ServesInOrder
CHECK_DEADLOCK FALSE
