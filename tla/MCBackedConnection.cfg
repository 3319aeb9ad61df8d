CONSTANTS
    MaxBackup = 1
    MaxOutage = 1
    ProtoLimit = 2
    HalfRange = 100
    SocketBuffer = 4
    MaxPackets <- MCPackets
    MaxLinks = 4
    MaxFaults = 3
SPECIFICATION Spec
CHECK_DEADLOCK FALSE
INVARIANTS
    SessionInv
PROPERTIES
    FatalOnlyOverLimit
    ImplementsChannel
