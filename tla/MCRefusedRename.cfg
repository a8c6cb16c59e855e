CONSTANTS
  x = x
  y = y
  z = z
  n1 = n1
  n2 = n2
  Paths = {x, y, z}
  Notes = {n1, n2}
  NoNote = NoNote
  None = None
  Torn = Torn
  Tasks = {t1, t2}
  MaxAccepts = 2
  MaxMoves = 3
  MaxFaults = 0
  Home <- MCHome
SPECIFICATION Spec
PROPERTY RefusalProtectsTheOccupant
CHECK_DEADLOCK FALSE
