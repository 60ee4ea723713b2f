CONSTANTS
    HandleCapacity = 2
    AsyncCapacity = 2
    MaxFd = 3
    MaxBytes = 2
SPECIFICATION FairSpec
INVARIANTS
    TypeOK
    DescriptorsOwnedOnce
    NoLeakedDescriptor
    WriteReportsItsBytes
PROPERTIES
    TerminalIsFinal
    AwaitedConnectReturns
