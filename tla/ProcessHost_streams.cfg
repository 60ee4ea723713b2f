CONSTANTS
    ProcessCapacity = 1
    MaxSpawns = 2
    MaxOutput = 2
    PipeCapacity = 1
    ExitCodes = {0}
SPECIFICATION FairSpec
INVARIANTS
    TypeOK
    NoBytesLost
PROPERTIES
    SignalsOnlyItsChild
    WaitReturns
CHECK_DEADLOCK FALSE
