CONSTANTS
    MAX_BACKUP_BYTES = 5
    DISCONNECT_BUFFER_BYTES = 5
    MACBYTES = 1
    Lengths <- MCLengths
    MaxPackets = 7
SPECIFICATION Spec
CHECK_DEADLOCK FALSE
INVARIANTS
    WriterInv
    RecoverExact
    BackupGrowth
PROPERTY NoDropWhileDisconnected
