SPECIFICATION Spec
CONSTANTS
    h1 = h1
    h2 = h2
    Flow = flow
    Handlers = {h1}
    Schedules = {hourly}
    DefaultSchedule = hourly
    Contents = {plain}
    InitialContent = plain
    NonceHistorySize = 4
    MaxCommandsPerResponse = 2
    LastTime = 0
    CheckTimes = {0, 1}
    MaxRevision = 1
    MaxCommands = 2
    MaxRequests = 2
    MaxDay = 2
    MaxRestarts = 1
    MaxTimezoneMoves = 0
CONSTRAINT EditedBeforeCheckIns
INVARIANTS
    OneAutomaticPerDay
    OneCommandPerKind
