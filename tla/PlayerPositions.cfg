SPECIFICATION Spec
CONSTANTS
    Players = {p}
    MaxEvents = 4
INVARIANTS
    TypeOK
    FlagMatchesList
    PlaceIsRight
    DataIsFresh
CHECK_DEADLOCK FALSE
