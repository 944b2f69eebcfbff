CONSTANTS
  t1 = t1
  t2 = t2
  t3 = t3
  c1 = c1
  Threads <- MCThreads
  Clients <- MCClients
  MAX_KEYS = 2
SPECIFICATION FairSpec
INVARIANTS ClientInv KeyIsAttested
PROPERTIES AlwaysReleased
