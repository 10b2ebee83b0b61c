SPECIFICATION Spec
CONSTANTS
    h1 = h1
    h2 = h2
    Flow = flow
    Handlers = {h1, h2}
    Schedules = {hourly}
    DefaultSchedule = hourly
    Contents = {plain, other}
    InitialContent = plain
    NonceHistorySize = 4
    MaxCommandsPerResponse = 2
    LastTime = 0
    CheckTimes <- LatestOnly
    MaxRevision = 2
    MaxCommands = 0
    MaxRequests = 3
    MaxDay = 2
    MaxRestarts = 1
    MaxTimezoneMoves = 1
SYMMETRY HandlerSymmetry
PROPERTIES
    ImplementsRegister
INVARIANTS
    RevisionOrder
    RevisionsIncrease
    AppliedMeansActive
    NonceProcessedOnce
    NewestSnapshotIsCurrent
