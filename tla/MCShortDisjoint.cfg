\* Everything goes wrong, but no two URLs share a code.
CONSTANTS
  u1 = u1
  u2 = u2
  None = None
  BASE = 2
  SHORT_URL_LENGTH = 2
  Hashes <- MCHashes
  Urls <- MCUrls
  kMaxAttempts = 2
  Workers = {w1, w2}
  pool_size = 1
  Faults = {"db_error", "db_loss", "redis_error", "evict", "kill"}
  Codes <- DisjointCodes
  base62_encode <- Disjoint
SPECIFICATION Spec
SYMMETRY WorkerSymmetry
INVARIANT TypeOK
INVARIANT ConnsAccounted
PROPERTY PgNeverDropped
PROPERTY RedisPoolUsed
PROPERTY RedirectsToStored
PROPERTY IssuedNotLost
INVARIANT CodesCollide
PROPERTY KeepsStrongPromise
