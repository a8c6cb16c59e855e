CONSTANTS
  Holders = {h1, h2}
  Scopes <- MCScopes
  Paths <- MCPaths
  TtlMin = 1
  TtlMax = 2
  MaxLocks = 3
  MaxPerHolder = 2
  MaxId = 4
SPECIFICATION Spec
SYMMETRY MCSymmetry
INVARIANTS
  WithinCaps
  SomebodyKnows
PROPERTY NeverTaken
