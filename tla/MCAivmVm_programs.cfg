SPECIFICATION Spec
CONSTANTS
  Programs <- CheckedPrograms
  Constants <- Pool
  Strings = {7}
  Nodes = {1}
  Counts = {0}
  SysTargets = {7}
  SysResults <- Answer2
  Garbage <- Unset
  StackCapacity = 3
  StackInitial = 1
  StackStep = 2
  FrameCapacity = 3
  FrameInitial = 1
  FrameStep = 1
  LocalsCapacity = 3
  LocalsInitial = 1
  LocalsStep = 1
  MaxCallArgs = 2
  MaxSyscallArgs = 2
  TaskCapacity = 3
  ParContextCapacity = 3
  ParValueCapacity = 3
  IntMin <- MinInt
  IntMax = 6
  MaxBlocks = 2
INVARIANTS
  TypeOK
  LocalsNested
  WithinArrays
  TaskTableOrdered
  ParNested
  AsyncReturnsToItsCall
PROPERTIES
  CallerLocalsIntact
  HeldTasksSurvive
