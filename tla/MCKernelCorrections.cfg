CONSTANTS
  Ops = {c1, c2}
  Calls = {c1, c2}
  NoOp = NoOp
  Timeout = 1
  Keys = {}
  Args = {w}
  Identities <- MCIdentities
  Ttl = 1
  MaxEntries = 1
  Free = Free
  NoKey = NoKey
  NoRev = NoRev
  Preconditions = FALSE
  Writers = {}
  MaxEdits = 0
SPECIFICATION Spec
SYMMETRY MCSymmetry
INVARIANT CorrectionNamesItsRecord
CHECK_DEADLOCK FALSE
