CONSTANTS
    Caps = {"cap.remote", "cap.other"}
    Allowed = {"cap.remote"}
    BufferCapacity = 3
    MaxFrameSize = 2
    SendBuffer = 1
    MaxFrames = 3
    MaxConnections = 2
SPECIFICATION FairSpec
INVARIANTS
    AnsweredInOrder
    GrantsFollowPolicy
    NoSpuriousHangup
PROPERTY EveryFrameAnswered
CHECK_DEADLOCK FALSE
