SPECIFICATION Spec
CONSTANTS
    A = A
    B = B
    Bot = {A, B}
    Away = Away
    Text = {pw}
    Other = {hashed, autohash}
    Pw = pw
    Hashed = hashed
    AutoHash = autohash
    Values = {0, 1, 2}
    Given <- Settings
    Expert = {hashed, autohash}
    None = None
    MaxClicks = 3
    MaxTrouble = 1
INVARIANTS
    TypeOK
    EditsArrive
    ShownIsSaved
CHECK_DEADLOCK FALSE
