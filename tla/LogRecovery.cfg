SPECIFICATION FairSpec
CONSTANTS
  a = a
  b = b
  Jobs = {a, b}
  Preset = {b}
  Retrials = 1
  Tries = 2
  MaxRuns = 2
  Faults = {"kill", "stop", "reload", "critical", "child", "nolog", "unknown", "stats", "refused", "transfer"}
  MaxFaults = 2
INVARIANTS
  ChildEndsWithNothingLeft
  Accounted
  FlagHasLog
PROPERTIES
  RunEnds
CHECK_DEADLOCK FALSE
