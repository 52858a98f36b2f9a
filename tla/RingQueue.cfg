SPECIFICATION Spec
CONSTANTS
    Mod = 7
    ReceiveWindow = 5
    InitialBufferSize = 2
    MaxGeneration = 2
    Item = {a, b}
    Default = none
INVARIANTS
    TypeOK
    NoStaleFlag
    StatusTruthful
PROPERTY
    ImplementsReceiveQueue
