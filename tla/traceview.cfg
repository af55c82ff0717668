SPECIFICATION Spec
CONSTANTS
  Empty = 0
  MaxSpans = 3
  MaxTraceSpans = 6
  MaxBottlenecks = 2
  Offered <- MCOffered
  MaxRequest = 4
  MaxInserts = 3
CHECK_DEADLOCK FALSE
INVARIANTS
  TypeOK
  LiveRowIsSearchRow
  PathIsTheWaitChain
  BottlenecksWorkAlone
  WaterfallShowsTheTree
PROPERTY
  RetryChangesNothing
