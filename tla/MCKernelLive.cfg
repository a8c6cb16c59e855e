CONSTANTS
  Ops = {c1, c2}
  Calls = {c1, c2}
  NoOp = NoOp
  Timeout = 1
  Keys = {k1}
  Args = {w}
  Identities <- MCIdentities
  Ttl = 1
  MaxEntries = 1
  Free = Free
  NoKey = NoKey
  NoRev = NoRev
  Preconditions = TRUE
  Writers = {c1, c2}
  MaxEdits = 1
SPECIFICATION FairSpec
PROPERTIES
  EveryCallEnds
  OnlyBypassersLoseUpdates
CHECK_DEADLOCK FALSE
