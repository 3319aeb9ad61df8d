SPECIFICATION RelaysSpec
CONSTANTS
    Handlers = {h1, h2}
    Conns = {1, 2}
    Fds = {3, 4}
    MaxData = 1
    MaxStalls = 1
    MaxRedraws = 1
    MaxMany = 2
    MaxFew = 1
    MaxFaults = 1
    PipeCap = 1
    OutCap = 1
CHECK_DEADLOCK FALSE
SYMMETRY HandlerSymmetry
INVARIANTS
    ForwardInv
    RelayInv
