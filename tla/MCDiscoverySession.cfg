CONSTANTS
  Sessions = {s1, s2}
  Tokens = {1, 2}
  NoToken = NoToken
  BUCKET_SIZE = 2
  LEAK_SCALAR = 2
  LEAK_DURATION = 1
  MAX_DELETE = 1
  MAX_TIME = 1
  n1 = n1
  n2 = n2
  Requests <- MCRequests
  MAX_SESSIONS = 2
  MAX_PENDING = 2
SPECIFICATION Spec
SYMMETRY MCSymmetry
INVARIANTS SessionInv NoLostCharge AnswersPaid
PROPERTIES  SessionsEnd
CHECK_DEADLOCK FALSE
