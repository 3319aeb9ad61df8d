SPECIFICATION LifecycleSpec
CONSTANTS
    Budget = 1
    MaxFaults = 3
    Backlogs <- MCBacklogs
    Capacity = 2
    UnitsIn5s = 4
    MaxTries = 3
    MaxLinkFaults = 3
    Collide = {FALSE}
    RouterTimely = TRUE
CHECK_DEADLOCK FALSE
INVARIANTS
    ReconnectInv
    StreamIntact
    SetupInv
PROPERTIES
    EndsWhenTold
    LinkComesBack
    EventuallyDelivered
    RecoveryCompletes
    SetupEnds
