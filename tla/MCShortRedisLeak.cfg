\* A GET that throws keeps its connection.
CONSTANTS
  u1 = u1
  u2 = u2
  None = None
  BASE = 2
  SHORT_URL_LENGTH = 2
  Hashes <- MCHashes
  Urls <- MCUrls
  kMaxAttempts = 2
  Workers = {w1}
  pool_size = 1
  Faults = {"redis_error"}
  Codes <- DisjointCodes
  base62_encode <- Disjoint
SPECIFICATION FairSpec
PROPERTY GetReturns
CHECK_DEADLOCK FALSE
