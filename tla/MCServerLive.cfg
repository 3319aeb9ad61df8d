SPECIFICATION ServerSpec
CONSTANTS
    Parts = {"registry", "table", "log"}
    Sockets = {1, 2}
    Connections = {1, 2}
    Passkeys = {1}
    PoolSize = 2
    CallsShutdown = FALSE
    MaxProcs = 2
    MaxFaults = 2
    Handlers = {h1, h2}
    h1 = h1
    h2 = h2
    NFds = 2
    MaxConns = 3
    MaxTries = 1
    Ports = {}
    Addresses = 2
    OwnedFds = 2
    OwnedConns = 3
    Loggers = {"l1", "l2"}
    Main = "main"
    Victims = {"l1", "main"}
    BufferSize = 1
    BatchSize = 2
    MaxLogs = 3
    MaxEnds = 1
CHECK_DEADLOCK FALSE
PROPERTIES
    ReturningServed
    LateClientTold
    OperationsEnd
    SenderLive
