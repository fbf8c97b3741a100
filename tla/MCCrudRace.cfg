\* Two POSTs to one resource.
CONSTANTS
  r1 = r1
  r2 = r2
  short = short
  long = long
  None = None
  NotInt = NotInt
  NotJson = NotJson
  Torn = Torn
  Data <- MCData
  Size <- MCSize
  Inodes <- SixInodes
  MaxId = 2
  Workers = {w1, w2}
  Resources <- OneResource
  MinId = 0
  Clients <- PostClients
  Overlapping = {"POST"}
  Faults = {}
SPECIFICATION Spec
INVARIANT AckedKept
