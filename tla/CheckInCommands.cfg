SPECIFICATION Spec
CONSTANTS
    h1 = h1
    h2 = h2
    Flow = flow
    Handlers = {h1, h2}
    Schedules = {hourly}
    DefaultSchedule = hourly
    Contents = {plain}
    InitialContent = plain
    NonceHistorySize = 4
    MaxCommandsPerResponse = 2
    LastTime = 1
    CheckTimes <- LatestOnly
    MaxRevision = 1
    MaxCommands = 1
    MaxRequests = 3
    MaxDay = 1
    MaxRestarts = 1
    MaxTimezoneMoves = 0
SYMMETRY HandlerSymmetry
PROPERTIES
    ImplementsQueue
INVARIANTS
    TypeOK
    CommandKeptUntilAcknowledged
    ForgottenCommandNeverReturns
