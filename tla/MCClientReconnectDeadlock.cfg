CONSTANTS
    Budget = 1
    MaxFaults = 3
SPECIFICATION FairSpec
PROPERTY ReconnectsAutomatically
CHECK_DEADLOCK FALSE
