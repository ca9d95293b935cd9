SPECIFICATION MCSpec
CONSTANTS
  Kinds = {"git", "svn", "local"}
  MaxWork = 2
  MaxCommands = 4
  MaxFaults = 2
  Configurations <- MCConfigurations
  Workflows <- MCWorkflows
  Requests <- MCRequests
  Statuses <- MCStatuses
  s11 = s11
  s12 = s12
  s13 = s13
  s21 = s21
  s22 = s22
  h1 = h1
  h2 = h2
  h3 = h3
  p1 = p1
  JobSeq <- TwoMembers
  Parents <- ParentsOf
  Section <- SectionOf
  Priority <- PriorityOf
  SameMember <- MemberOf
  Wrappers <- Two
  InWrapper <- SectionsOf
  WrapperType <- TypeOf
  MinWrapped <- AtLeastTwo
  MaxWrapped <- AtMost
  MaxOfSection <- MaxBySection
  Wallclock <- LongLast
  MaxWallclock = 3
  Processors <- One
  MaxProcessors = 2
  TotalJobs = 3
  MaxWaiting = 3
  SectionTotal <- PlatformTotal
  SectionWaiting <- PlatformWaiting
  Retrials = 1
  Policies = {"flexible", "strict", "mixed"}
  MaxFailures = 2
INVARIANTS
  CodeIsWhole
  WorkflowAsAsked
  SelectedAsNamed
  OrderIsKept
  GroupsAreTrue
  OncePerJob
  DeadlockIsReal
  NeverIdle
PROPERTIES
  WorkIsKept
  RunsWhatIsPushed
  InOrder
CHECK_DEADLOCK FALSE
