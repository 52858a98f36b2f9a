SPECIFICATION Spec
CONSTANTS
    Players = {p}
    MaxEvents = 3
INVARIANT
    LeftIsGone
CHECK_DEADLOCK FALSE
