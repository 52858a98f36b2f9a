SPECIFICATION FairSpec
CONSTANTS
    MaxConnections = 2
    MaxRequests = 1
    User = user
    Nothing = nothing
INVARIANTS
    TypeOK
    AnnouncedOnce
    CodesAreFresh
    ClosedWithoutStray
    ConnectedIsIn
PROPERTY
    DisconnectReturns
CHECK_DEADLOCK FALSE
