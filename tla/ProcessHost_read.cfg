CONSTANTS
    ProcessCapacity = 1
    MaxSpawns = 1
    MaxOutput = 1
    PipeCapacity = 1
    ExitCodes = {0, 1}
SPECIFICATION Spec
INVARIANT ReadsAreIntact
CHECK_DEADLOCK FALSE
