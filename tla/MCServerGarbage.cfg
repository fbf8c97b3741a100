\* A client that gets an answer larger than one send.
CONSTANTS
  c1 = c1
  c2 = c2
  t1 = t1
  t2 = t2
  Conns = {c1}
  Threads = {t1, t2}
  MaxHalves <- OneRequest
  MAX_LENGTH = 3
  Invalid = {2}
  Large = {c1}
  Stuck = {}
  Faults = {}
SPECIFICATION Spec
INVARIANT SendsResponse
CHECK_DEADLOCK FALSE
