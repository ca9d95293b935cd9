SPECIFICATION Spec
CONSTANTS
  j1 = j1
  j2 = j2
  j3 = j3
  Jobs = {j1, j2, j3}
  Types = {"vertical", "horizontal", "vertical-horizontal", "horizontal-vertical"}
  Chains <- ListsOf
  Parents <- ParentsOf
  Retrials = 1
  MaxId = 6
  Faults <- Troubles
  MaxFaults = 2
INVARIANTS
  NoTwins
  OrderKept
PROPERTIES
  Ends
CHECK_DEADLOCK FALSE
