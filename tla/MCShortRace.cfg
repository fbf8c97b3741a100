\* Two POSTs, two URLs, one code.
CONSTANTS
  u1 = u1
  u2 = u2
  None = None
  BASE = 2
  SHORT_URL_LENGTH = 2
  Hashes <- MCHashes
  Urls <- MCUrls
  kMaxAttempts = 2
  Workers = {w1, w2}
  pool_size = 2
  Faults = {}
  Codes <- CollidingCodes
  base62_encode <- Colliding
SPECIFICATION Spec
SYMMETRY WorkerSymmetry
INVARIANT IssuedResolves
