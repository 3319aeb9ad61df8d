SPECIFICATION HtmSpec
CONSTANTS
    MaxPanes = 4
    MaxQueue = 1
    MaxBufferLines = 3
    MaxBufferChars = 4
    ReadSize = 3
    MaxOut = 8
CHECK_DEADLOCK FALSE
INVARIANTS
    PanesInv
    LinesInv
PROPERTY DeadPaneCloses
