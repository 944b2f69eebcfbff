CONSTANTS
  BITS = 4
  HALF_BYTES = 2
  WORD_BYTES = 3
  HEAP_HEADER = 5
  ALIGNMENT = 4
  MAX_ITEMS = 2
  MESSAGE_SIZE = 6
  DIGIT_BITS = 3
  NUM_SHARDS = 2
  NoData = NoData
  QueryKeys = {0, 1, 2}
  QueryHashes = {30, 31, 61, 62}
  MAX_QUERIES = 3
  NULL = NULL
  WORKSPACE_SIZE = 7
  HEADER_SIZE = 1
  MAC_SIZE = 2
  NOISE_MAX_PACKET_SIZE = 5
  Plaintexts <- MCPlaintexts
  Keys <- MCKeys
  Hashes = {0, 1, 3}
  INITIAL_CAP = 5
  LOAD = 2
  GROWTH = 2
  MAX_CAP = 8
SPECIFICATION Spec
INVARIANTS
  DivisionExact BatchesAnswered NoiseDelivers MergeComplete SizesAgree SetInv TriplesFiltered
PROPERTIES
  MessagesRoundTrip WorkspaceEnough
CHECK_DEADLOCK FALSE
