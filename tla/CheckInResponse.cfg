SPECIFICATION Spec
CONSTANTS
    h1 = h1
    h2 = h2
    Flow = flow
    Handlers = {h1}
    Schedules = {hourly, nightly}
    DefaultSchedule = hourly
    Contents = {plain, other}
    InitialContent = plain
    NonceHistorySize = 4
    MaxCommandsPerResponse = 2
    LastTime = 0
    CheckTimes <- LatestOnly
    MaxRevision = 2
    MaxCommands = 0
    MaxRequests = 1
    MaxDay = 1
    MaxRestarts = 0
    MaxTimezoneMoves = 0
INVARIANTS
    ResponseIsOfOneRevision
