SPECIFICATION Spec
CONSTANTS
  a = a
  b = b
  c = c
  Jobs = {a, b}
  Parents <- NoEdges
  EdgeInfo = {}
  Sync = {}
  Later <- NoChunks
  HasDelay = {}
  Retrials = 1
  TotalJobs = 2
  MaxWaiting = 2
  Batch = TRUE
  Ids = {1, 2, 3, 4, 5}
  NoJob = NoJob
  NoId = NoId
  Faults = {"poll"}
  MaxFaults = 1
  MaxFailures = 2
INVARIANTS
  RetrialsRespected
