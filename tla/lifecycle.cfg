SPECIFICATION FairSpec
CONSTANTS
  HTTPReqs = {q1, q2}
  RPCs = {r1}
  Sockets = {w1}
  Stoppers = {g1, g2}
CHECK_DEADLOCK FALSE
INVARIANTS
  TypeOK
  ClosedInReverse
  StoreOutlivesRequests
  ServerFailureIsReported
PROPERTY
  StopTerminates
