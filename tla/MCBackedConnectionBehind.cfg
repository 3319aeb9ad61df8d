CONSTANTS
    MaxBackup = 3
    MaxOutage = 2
    ProtoLimit = 100
    HalfRange = 100
    SocketBuffer = 2
    MaxPackets <- MCServerPackets
    MaxLinks = 4
    MaxFaults = 3
SPECIFICATION Spec
INVARIANT NeverTooFarBehind
CHECK_DEADLOCK FALSE
