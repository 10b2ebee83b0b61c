SPECIFICATION Spec
CONSTANTS
    Displays = {d1}
    Flows = {f1,f2}
    Terms = {v,w}
    Handlers = {h1}
    None = none
    Setup = setup
    MaxRuntimes = 3
    MaxRestarts = 1
    MaxOrders = 1
    MaxResets = 1
SYMMETRY Symmetry
CHECK_DEADLOCK FALSE
INVARIANTS
    TermsAgree
    OneActiveKey
    OnlyKeyAgrees
    ActiveKeyWasStored
