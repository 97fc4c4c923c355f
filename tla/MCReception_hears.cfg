\* Packets over a network that loses, repeats and reorders, across a rollover
CONSTANTS
    Data <- MCData
    Blocks <- MCBlocks
    Stale <- MCStale
    Size = 8
    SeqMod = 8
    RollWindow = 3
    FirstNumbers <- MCFirstNumbers
    Ratios = {1, 2}
    Setpoint = 1
    FrameBytes = 2
    BlockFrames = 2
    Resampled = {1, 3}
    Reorder = 1
    WireMax = 2
    MaxPackets = 3
    MaxCalls = 2
SPECIFICATION Spec
VIEW MCView
CHECK_DEADLOCK FALSE
INVARIANTS
    TypeOK
    InStep
    Accounting
    ReportsGoOn
    WholeFrames
    NeverAgain
    VectorsPartTheRing
PROPERTIES
    ImplementsFifo
