SPECIFICATION LiveSpec
CONSTANTS
    h1 = h1
    h2 = h2
    Flow = flow
    Handlers = {h1, h2}
    Schedules = {hourly}
    DefaultSchedule = hourly
    Contents = {plain}
    InitialContent = plain
    NonceHistorySize = 4
    MaxCommandsPerResponse = 2
    LastTime = 0
    CheckTimes = {0, 1}
    MaxRevision = 1
    MaxCommands = 0
    MaxRequests = 2
    MaxDay = 1
    MaxRestarts = 1
    MaxTimezoneMoves = 0
PROPERTIES
    EveryCheckInEnds
    ReconfigureEnds
