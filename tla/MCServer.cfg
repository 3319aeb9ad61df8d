SPECIFICATION ServerSpec
CONSTANTS
    Parts = {"registry", "table", "owned", "log"}
    Sockets = {1, 2, 3}
    Connections = {1, 2}
    Passkeys = {1, 2}
    PoolSize = 2
    CallsShutdown = TRUE
    MaxProcs = 2
    MaxFaults = 1
    Handlers = {h1, h2, h3}
    h1 = h1
    h2 = h2
    h3 = h3
    NFds = 3
    MaxConns = 3
    MaxTries = 1
    Ports = {p}
    p = p
    Addresses = 2
    OwnedFds = 3
    OwnedConns = 4
    Loggers = {"l1", "l2"}
    Main = "main"
    Victims = {"l1", "main"}
    BufferSize = 1
    BatchSize = 2
    MaxLogs = 4
    MaxEnds = 1
CHECK_DEADLOCK FALSE
SYMMETRY ThreadSymmetry
INVARIANTS
    RegistryInv
    TableInv
    RightPeer
    LogInv
