\* A handler may be stuck with one connection; the other sends two requests.
CONSTANTS
  c1 = c1
  c2 = c2
  t1 = t1
  t2 = t2
  Conns = {c1, c2}
  Threads = {t1, t2}
  MaxHalves <- HalfAndFour
  MAX_LENGTH = 3
  Invalid = {2}
  Large = {}
  Stuck = {c1}
  Faults = {"throw", "accept_error"}
SPECIFICATION FairSpec
INVARIANT TypeOK
INVARIANT SessionHeld
INVARIANT OneThreadPerClient
PROPERTY KeepsHttpPromise
PROPERTY Served
CHECK_DEADLOCK FALSE
