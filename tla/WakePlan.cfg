SPECIFICATION Spec
CHECK_DEADLOCK FALSE
CONSTANTS
    Zones <- SomeZones
    StoredSchedules <- StoredOnes
    ChosenSchedules <- ChosenOnes
    Corrections <- SomeCorrections
    Intervals = {5}
    Drifts <- SomeDrifts
    Latencies = {30}
    Start = 79500
    Horizon = 87000
    MaxChanges = 1
    MaxFailures = 1
INVARIANTS
    HalfOfTheRealCycle
    NoSecondRefresh
    AvailableUntilItWakes
PROPERTIES
    BoundariesInOrder
