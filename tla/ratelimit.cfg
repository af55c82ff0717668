SPECIFICATION Spec
CONSTANTS
  Callers = {g1, g2, g3}
  N = 2
  Second = 3
  MaxTime = 8
SYMMETRY Symmetry
CHECK_DEADLOCK FALSE
INVARIANTS
  TypeOK
  LongRunRate
  BurstBound
PROPERTY
  NoNeedlessRefusal
