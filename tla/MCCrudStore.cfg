\* Requests to two resources; readers and deleters of one may overlap.
CONSTANTS
  r1 = r1
  r2 = r2
  short = short
  long = long
  None = None
  NotInt = NotInt
  NotJson = NotJson
  Torn = Torn
  Data <- MCData
  Size <- MCSize
  Inodes <- SixInodes
  MaxId = 2
  Workers = {w1, w2}
  Resources <- TwoResources
  MinId <- MinusOne
  Clients <- StoreClients
  Overlapping = {"GET", "DELETE"}
  Faults = {}
SPECIFICATION Spec
SYMMETRY WorkerSymmetry
PROPERTY ImplementsStore
