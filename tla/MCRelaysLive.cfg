SPECIFICATION RelaysSpec
CONSTANTS
    Handlers = {h1}
    Conns = {1, 2}
    Fds = {3}
    MaxData = 1
    MaxStalls = 0
    MaxRedraws = 0
    MaxMany = 1
    MaxFew = 0
    MaxFaults = 1
    PipeCap = 1
    OutCap = 2
CHECK_DEADLOCK FALSE
PROPERTIES
    EndReachesPeer
    DataReachesPeer
    DataArrives
    EndIsTold
