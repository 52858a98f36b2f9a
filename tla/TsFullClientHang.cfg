SPECIFICATION FairSpec
CONSTANTS
    MaxConnections = 1
    MaxRequests = 1
    User = user
    Nothing = nothing
PROPERTY
    ConnectReturns
CHECK_DEADLOCK FALSE
