CONSTANTS
  Gestures = {g1, g2}
  p1 = p1
  p2 = p2
  n1 = n1
  n2 = n2
  Proposals = {p1, p2}
  NoteOf <- MCNoteOf
  NoClaim = NoClaim
  Unknown = Unknown
  MaxMounts = 2
  MaxFaults = 2
  MaxEdits = 1
SPECIFICATION Spec
SYMMETRY MCSymmetry
INVARIANTS
  OutcomesTellTheTruth
  ProjectionNeverAhead
  DuplicatesOnlyWhenBlind
  ChainNeverWedges
PROPERTIES
  VerdictsAreFinal
  ImplementsLedger
CHECK_DEADLOCK FALSE
