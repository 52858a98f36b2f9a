SPECIFICATION Spec
CONSTANTS
    List = {A, B}
    None = None
    Old = {A, B}
    Sizes = {3}
    PerPage = 2
    MaxSongs = 4
    MaxClicks = 3
    MaxCalls = 2
    MaxTrouble = 1
INVARIANTS
    TypeOK
    WrongRowHasCause
    NothingUnseen
    OverviewCurrent
    LoadingHasRequest
CHECK_DEADLOCK FALSE
