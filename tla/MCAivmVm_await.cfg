SPECIFICATION Spec
CONSTANTS
  Programs <- NestedTask
  Constants <- Pool
  Strings = {7}
  Nodes = {1}
  Counts = {0}
  SysTargets = {7}
  SysResults <- Answers
  Garbage <- Unset
  StackCapacity = 4
  StackInitial = 1
  StackStep = 2
  FrameCapacity = 3
  FrameInitial = 1
  FrameStep = 1
  LocalsCapacity = 3
  LocalsInitial = 1
  LocalsStep = 1
  MaxCallArgs = 2
  MaxSyscallArgs = 2
  TaskCapacity = 2
  ParContextCapacity = 2
  ParValueCapacity = 2
  IntMin <- MinInt
  IntMax = 5
  MaxBlocks = 1
PROPERTY AwaitResolvesTask
