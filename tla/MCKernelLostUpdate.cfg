CONSTANTS
  Ops = {c1, c2, c3}
  Calls = {c1, c2, c3}
  NoOp = NoOp
  Timeout = 1
  Keys = {}
  Args = {w}
  Identities <- MCIdentities
  Ttl = 1
  MaxEntries = 1
  Free = Free
  NoKey = NoKey
  NoRev = NoRev
  Preconditions = TRUE
  Writers = {c1, c2, c3}
  MaxEdits = 0
SPECIFICATION Spec
SYMMETRY MCSymmetry
PROPERTY ConditionalWriteIsCurrent
CHECK_DEADLOCK FALSE
