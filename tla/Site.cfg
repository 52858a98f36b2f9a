SPECIFICATION Spec
CONSTANTS
    Bot = {x, y}
    Channel = {1, 2}
    Cred = {right, wrong}
    Good = {right}
    Anonymous = Anonymous
    None = None
    First = {"home", "overview", "bots", "server"}
    Later = {"home"}
    MaxVisits = 2
    MaxClicks = 2
    BotClicks = 1
    MaxCalls = 2
    MaxTrouble = 1
INVARIANTS
    TypeOK
    ConnectingIsPolled
    WrongBotHasCause
    ListRight
    LoginRight
PROPERTIES
    PollingEnds
    TreeFollowed
CHECK_DEADLOCK FALSE
