SPECIFICATION Spec
CHECK_DEADLOCK FALSE
CONSTANTS
    h1 = h1
    h2 = h2
    Handlers = {h1, h2}
    NonceHistorySize = 2
    Limit = 2
    RateWindow = 2
    ReplayWindow = 1
    MaxTime = 1
    MaxRequests = 3
    MaxAccepted = 4
    MaxStarts = 1
SYMMETRY HandlerSymmetry
INVARIANT RollingLimit
