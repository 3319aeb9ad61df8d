SPECIFICATION Spec
CONSTANTS
    Lines <- MCLines
    LongLines <- MCLongLines
    CommandLines <- MCCommandLines
    LocalUser = "local"
    None = None
    MaxLines = 3
    MaxOpen = 2
    LongMaxLines = 4
    LongMaxOpen = 3
    Elements <- MCElements
    MaxElements = 3
    MaxForwards = 2
    Chars = {"a", "b"}
    Wild = {"*", "?"}
CHECK_DEADLOCK FALSE
INVARIANTS
    SettingsInv
    TunnelInv
    PatternInv
