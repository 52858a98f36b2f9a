SPECIFICATION Spec
CONSTANTS
    Null = Null
    Length = 1
    Levels = {0}
    Lossy = {}
    Modes = {}
    Songs = 2
    MaxClicks = 1
    MaxCalls = 2
    MaxTrouble = 1
INVARIANTS
    TypeOK
    PlayingIsWatched
PROPERTIES
    SongFollowed
CHECK_DEADLOCK FALSE
