SPECIFICATION TerminalSpec
CONSTANTS
    TotalInput = 4
    MaxPrint = 1
    MaxDrops = 1
    InCap = 1
    OutCap = 2
    LowWater = 2
    Chunk = 2
    PtyCap = 1
    MaxPending = 1
    BufCap = 1
    RateLimit = 2
    MaxData = 2
    MaxFaults = 3
CHECK_DEADLOCK FALSE
INVARIANTS
    PipelineInv
    LoopInv
PROPERTIES
    InputReachesShell
    EndIsNoticed
    BufferIsRead
