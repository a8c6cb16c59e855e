SPECIFICATION ForegroundSpec
CONSTANTS
  n1 = n1
  w1 = w1
  w2 = w2
  Notes = {n1}
  Writes = {w1, w2}
  NoteOf <- MCNoteOf
  Mechanical = {w1}
  Tasks = {t1, t2}
  MaxGestures = 1
INVARIANTS SignatureCovered BaselineBlessed
PROPERTIES NeverRegresses Surfaces
CHECK_DEADLOCK FALSE
