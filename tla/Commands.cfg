SPECIFICATION Spec
CONSTANTS
  Jobs = {"A", "B"}
  Parents <- Chain
  Retrials = 1
  Ids = {1, 2, 3}
  NoId = NoId
  DummyId = DummyId
  Procs = {p, q}
  NoProc = NoProc
  Unlinked = Unlinked
  NoRow = NoRow
  Partial = Partial
  Empty = Empty
  Absent = Absent
  NoList = NoList
  NoEdit = NoEdit
  Requests <- Mixed
  Edits <- SomeEdits
  Settings <- Both
  MaxCommands = 2
  MaxFaults = 1
INVARIANTS
  ListKept
PROPERTIES
  ForgetsOnlyCancelled
  RecoveredInOrder
CHECK_DEADLOCK FALSE
