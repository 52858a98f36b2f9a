SPECIFICATION Spec
CONSTANTS
    Mod = 3
    ReceiveWindow = 2
    PartCounts = {1, 2}
    MayGarble = {2}
    MayFail = {1, 2}
    StartId = 1
    StartGeneration = 0
    MaxPackets = 4
    Empty = none
INVARIANTS
    TypeOK
    SlotsInSequence
    DeliveredInOrder
    AckedIsReceived
CHECK_DEADLOCK FALSE
