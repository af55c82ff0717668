SPECIFICATION Spec
CONSTANTS
  full = full
  log = log
  huge = huge
  Batches <- MCBatches
  Content <- MCContent
  TraceOf <- MCTraceOf
  LiveRows <- MCLiveRows
  Oversized <- MCOversized
  Handlers = {h1, h2}
  Readers = {r1}
  MaxAttempts <- MCMaxAttempts
  MaxCrashes = 1
SYMMETRY Symmetry
CHECK_DEADLOCK FALSE
INVARIANTS
  TypeOK
  AckedIsStored
  LiveIsStored
  CopiesComeFromAttempts
  ReadAfterAckIsComplete
