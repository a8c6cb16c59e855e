CONSTANTS
  Backends = {b1, b2, b3, b4}
  MaxSessions = 2
  Runs = {r1, r2}
  NoRun = NoRun
SPECIFICATION Spec
SYMMETRY MCSymmetry
INVARIANTS
  NeverOverstated
  MissesOnlyForgotten
  SessionsWhileDown
  CleanStopsCloseWatchers
