SPECIFICATION RunSpec
CONSTANTS
  Builds <- CheckedBuilds
  MaxSources = 3
  MaxFuncs = 8
  MaxFixups = 12
  MaxLocals = 6
  MaxLoopDepth = 3
  MaxLoopFixups = 3
  MaxArgs = 3
  MaxInstructions = 128
  MaxConstants = 24
  MaxActivations = 3
  SysAnswer <- Answer
  Fuel = 14
  Programs <- NoProgram
  Constants <- Pool
  Strings = {0, 1, 2, 3, 4, 5}
  Nodes = {1}
  Counts = {0}
  SysTargets = {1, 2, 3}
  SysResults <- Answers
  Garbage <- Unset
  StackCapacity = 8
  StackInitial = 8
  StackStep = 1
  FrameCapacity = 8
  FrameInitial = 8
  FrameStep = 1
  LocalsCapacity = 20
  LocalsInitial = 20
  LocalsStep = 1
  MaxCallArgs = 4
  MaxSyscallArgs = 4
  TaskCapacity = 1
  ParContextCapacity = 0
  ParValueCapacity = 0
  IntMin <- MinInt
  IntMax = 7
  MaxBlocks = 0

  
  
  
  
PROPERTY
  CompiledProgramsStop
