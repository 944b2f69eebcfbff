CONSTANTS
  a = a
  k1 = k1
  k2 = k2
  Stop = Stop
  num_shards = 2
  Calls <- MCCalls
  Closers <- MCClosers
SPECIFICATION FairSpec
INVARIANTS OrderlyEnd OutstandingBalanced
PROPERTIES CloseReturnsWhenServed AcceptedCallCompletes
CHECK_DEADLOCK FALSE
