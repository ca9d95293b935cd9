SPECIFICATION FairSpec
CONSTANTS
  a = a
  b = b
  c = c
  Jobs = {a, b}
  Parents <- NoEdges
  EdgeInfo = {}
  Sync = {}
  Later <- NoChunks
  HasDelay = {a}
  Retrials = 1
  TotalJobs = 1
  MaxWaiting = 2
  Batch = FALSE
  Ids = {1, 2, 3, 4}
  NoJob = NoJob
  NoId = NoId
  Faults = {"kill", "refuse", "io", "stop", "poll", "nofile", "reason", "lost"}
  MaxFaults = 1
  MaxFailures = 1
INVARIANTS
  CleanStop
  CompletedHasFile
  NothingLeftToRun
  OneLostPerFault
PROPERTIES
  Ends
