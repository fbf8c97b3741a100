\* Five callers and two connections, with dropped connections.
CONSTANTS
  Threads = {t1, t2, t3, t4, t5}
  pool_size = 2
SPECIFICATION FairSpec
INVARIANT TypeOK
INVARIANT Exclusive
INVARIANT NoLostWakeup
PROPERTY ImplementsContract
PROPERTY PoolProgress
