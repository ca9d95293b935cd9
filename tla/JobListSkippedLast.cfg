SPECIFICATION Spec
CONSTANTS
  a = a
  b = b
  c = c
  Jobs = {a, b, c}
  Parents <- AfterBoth
  EdgeInfo <- BWithA
  Sync = {}
  Later <- ChunkAfterA
  HasDelay = {}
  Retrials = 1
  TotalJobs = 2
  MaxWaiting = 2
  Batch = TRUE
  Ids = {1, 2, 3, 4}
  NoJob = NoJob
  NoId = NoId
  Faults = {}
  MaxFaults = 1
  MaxFailures = 1
INVARIANTS
  NothingLeftToRun
