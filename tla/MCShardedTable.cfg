CONSTANTS
  c1 = c1
  Clients = {c1}
  Loader = Loader
  NUM_SHARDS = 2
  k1 = k1
  k2 = k2
  v1 = v1
  v2 = v2
  Keys = {k1, k2}
  Vals = {v1, v2}
  Absent = Absent
  ShardOf <- MCShardOf
  Queries <- MCQueries
  Loads <- MCLoads
  MAX_LOADS = 2
  MAX_FAILURES = 1
SPECIFICATION Spec
INVARIANTS CallsInv QueryLinearizable LoadApplied
PROPERTY CallsReturn
