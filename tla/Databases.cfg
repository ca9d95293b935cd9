SPECIFICATION MCSpec
CONSTANTS
  Procs = {p, q}
  MaxName = 5
  Letter <- Letters
  FirstOf <- Firsts
  Backends = {"sqlite", "postgres"}
  MaxCommands = 3
  MaxFaults = 1
  a = a
  b = b
  Jobs = {a, b}
  Wrapped = {a, b}
  Settings <- SlurmOrphanInner
  MaxAttempts = 2
  UserStatuses = {"WAITING", "COMPLETED"}
  MaxOrders = 3
INVARIANTS
  ExperimentsKept
  AttemptsKept
  OthersStartAfterEnd
CHECK_DEADLOCK FALSE
