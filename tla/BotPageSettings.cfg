SPECIFICATION Spec
CONSTANTS
    Null = Null
    Length = 1
    Levels = {0, 1, 2}
    Lossy = {2}
    Modes = {"repeat"}
    Songs = 0
    MaxClicks = 2
    MaxCalls = 2
    MaxTrouble = 2
INVARIANTS
    WishKept
    ModesShown
CHECK_DEADLOCK FALSE
