CONSTANTS
  t1 = t1
  t2 = t2
  w1 = w1
  w2 = w2
  r1 = r1
  r2 = r2
  r3 = r3
  r4 = r4
  k1 = k1
  k2 = k2
  v1 = v1
  v2 = v2
  Absent = Absent
  NoReq = NoReq
  Threads <- MCThreads
  Workers <- MCWorkers1
  Reqs <- MCReqs
  Keys <- MCKeys1
  Vals <- MCVals1
  Batches <- MCBatches1
  QUEUE_SIZE = 4
  Capacity = 1
SPECIFICATION FairSpec
PROPERTIES StopReturns WaitReturns
