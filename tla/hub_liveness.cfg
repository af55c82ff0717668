SPECIFICATION FairSpec
CONSTANTS
  Conns = {c1, c2}
  Publishers = {p1, p2}
  MaxClients = 2
  Buffer = 1
  MaxRows = 2
CHECK_DEADLOCK FALSE
PROPERTIES
  CloseEndsHandlers
  SlowClientIsDisconnected
