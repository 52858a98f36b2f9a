SPECIFICATION FairSpec
CONSTANTS
    Mod = 4
    ReceiveWindow = 3
    PartCounts = {1, 3}
    MayGarble = {}
    MayFail = {1}
    StartId = 2
    StartGeneration = 0
    MaxPackets = 3
    Empty = none
PROPERTY
    EventuallyTaken
CHECK_DEADLOCK FALSE
