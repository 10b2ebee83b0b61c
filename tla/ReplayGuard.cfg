SPECIFICATION Spec
CHECK_DEADLOCK FALSE
CONSTANTS
    h1 = h1
    h2 = h2
    Handlers = {h1, h2}
    NonceHistorySize = 1
    Limit = 2
    RateWindow = 2
    ReplayWindow = 1
    MaxTime = 2
    MaxRequests = 2
    MaxAccepted = 3
    MaxStarts = 2
SYMMETRY HandlerSymmetry
INVARIANTS
    AcceptedOncePerHistory
    LimiterIsExact
    LimitOfEachLimiter
