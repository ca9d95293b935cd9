SPECIFICATION FairSpec
CONSTANTS
  Files <- AllFiles
  Minimal = "minimal"
  ConfFolder <- ConfFiles
  Inside <- Folders
  Keys = {"M", "X", "Y"}
  Mandatory = {"M", "Y"}
  Jobs = {j, k}
  FirstFiles <- Starts
  Edits <- SomeEdits
  ReloadWhileRunning = TRUE
  Absent = Absent
  Broken = Broken
  Unwritten = Unwritten
  NoJob = NoJob
  MaxEdits = 2
INVARIANTS
  Precedence
  
PROPERTIES
  EditsLoaded
CHECK_DEADLOCK FALSE
