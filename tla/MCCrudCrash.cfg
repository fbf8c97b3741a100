\* The file system fails, writes are lost, and the process ends and starts again.
CONSTANTS
  r1 = r1
  r2 = r2
  short = short
  long = long
  None = None
  NotInt = NotInt
  NotJson = NotJson
  Torn = Torn
  Data <- MCData
  Size <- MCSize
  Inodes <- SixInodes
  MaxId = 2
  Workers = {w1, w2}
  Resources <- OneResource
  MinId <- MinusOne
  Clients <- CrashClients
  Overlapping = {"GET", "DELETE"}
  Faults = {"fs_error", "disk_full", "kill"}
SPECIFICATION Spec
SYMMETRY WorkerSymmetry
INVARIANT TypeOK
INVARIANT AckedKept
