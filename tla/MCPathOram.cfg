CONSTANTS
  v1 = v1
  v2 = v2
  Vals <- MCVals
  Unset = Unset
  NoBlock = NoBlock
  BLOCKS_PER_BUCKET = 1
  PATH_LENGTH = 2
  PATH_LENGTH_0 = 2
  OVERFLOW = 1
  OVERFLOW_0 = 1
  ENTRIES_PER_BLOCK = 1
  NUM_BLOCKS = 2
  MAX_FAILURES = 1
SPECIFICATION Spec
SYMMETRY MCSymmetry
INVARIANT OramInv
PROPERTY ImplementsArray
CHECK_DEADLOCK FALSE
