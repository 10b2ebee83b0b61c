SPECIFICATION Spec
CONSTANTS
    Displays = {d1,d2}
    Flows = {f1,f2}
    Terms = {v}
    Handlers = {h1}
    None = none
    Setup = setup
    MaxRuntimes = 3
    MaxRestarts = 0
    MaxOrders = 1
    MaxResets = 0
SYMMETRY Symmetry
CHECK_DEADLOCK FALSE
INVARIANTS
    TypeOK
    RemovedIsNotServed
