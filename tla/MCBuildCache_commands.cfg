SPECIFICATION BuildSpec
CONSTANTS
  Builders = {b1}
  Files = {"main", "lib"}
  Main = "main"
  Contents <- SourceContents
  SimpleCompile <- CompiledProgram
  Chunk = 16
  EditsDuringBuild = FALSE
  MaxEdits = 2
  MaxBuilds = 3
  MaxFaults = 1
  MaxSections = 2
  MaxProgramInstructions = 4
  MaxProgramConstants = 8
  MaxStringBytes = 4
  MaxBytesStorage = 2
  LastOpcode = 2
  ConstOpcode = 1
  SyscallOpcodes = {2}
INVARIANTS
  WrittenImageSound
  NoTornImage
  CacheEntriesMatchKey
  UndisturbedBuildIsCurrent
  PublishedImageLoads
PROPERTIES
  RunsCurrentSource
CHECK_DEADLOCK FALSE
