\* A connection for every worker and no Redis error.
CONSTANTS
  u1 = u1
  u2 = u2
  None = None
  BASE = 2
  SHORT_URL_LENGTH = 2
  Hashes <- MCHashes
  Urls <- MCUrls
  kMaxAttempts = 2
  Workers = {w1, w2}
  pool_size = 2
  Faults = {"db_error"}
  Codes <- OneCode
  base62_encode <- AllSame
SPECIFICATION FairSpec
PROPERTY RequestsEnd
PROPERTY RedisNeverDropped
PROPERTY KeepsWeakPromise
PROPERTY StaysBound
