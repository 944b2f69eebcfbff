CONSTANTS
  k1 = k1
  k2 = k2
  k3 = k3
  k4 = k4
  k5 = k5
  k6 = k6
  v1 = v1
  v2 = v2
  NoKey = NoKey
  Absent = Absent
  Keys <- MCKeys5
  Vals <- MCVals2
  NUM_BLOCKS = 2
  ITEMS_PER_BLOCK = 2
  RawHashes <- MCRaw
SPECIFICATION Spec
INVARIANTS PutsEnd NothingLost ProbeChain LookupSound
SYMMETRY MCSymmetry
