CONSTANTS
  a = a
  k1 = k1
  k2 = k2
  Stop = Stop
  num_shards = 2
  Calls <- MCCalls
  Closers <- MCClosers1
SPECIFICATION FairSpec
PROPERTIES CloseReturns
CHECK_DEADLOCK FALSE
