SPECIFICATION Spec
CONSTANTS
  a = a
  b = b
  c = c
  Jobs = {a, b, c}
  Parents <- Join
  EdgeInfo <- StartsWithA
  Sync = {c}
  Later <- ChunkOfA
  HasDelay = {}
  Retrials = 1
  TotalJobs = 2
  MaxWaiting = 2
  Batch = TRUE
  Ids = {1, 2, 3, 4}
  NoJob = NoJob
  NoId = NoId
  Faults = {"kill", "lost", "refuse", "io", "hidden"}
  MaxFaults = 1
  MaxFailures = 1
INVARIANTS
  LaunchedAfterParents
  SavedIdIsOwn
  NoTwins
  SyncAfterParents
PROPERTIES
  ImplementsWorkflow
