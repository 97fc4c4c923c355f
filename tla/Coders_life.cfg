CONSTANTS
    Setpoint = 2
    RingMax = 3
    InboxMax = 2
    MaxCalls = 2
    MaxBlocks = 2
    MaxSent = 1
SPECIFICATION CodersSpec
INVARIANTS TypeOK PointersAreGood OnlyTimeoutRunsOn CodersReady
PROPERTY SilentStreamEnds
CHECK_DEADLOCK FALSE
