SPECIFICATION Spec
CONSTANTS
  Conns = {c1, c2, c3}
  Publishers = {p1, p2}
  MaxClients = 2
  Buffer = 1
  MaxRows = 3
SYMMETRY Symmetry
CHECK_DEADLOCK FALSE
INVARIANTS
  TypeOK
  RegisteredIffOpen
  SlotsBelongToHandlers
  GaplessUntilDropped
PROPERTY
  ImplementsFanout
