SPECIFICATION Spec
CONSTANTS
    Displays = {d1, d2}
    Capabilities = {temperature}
INVARIANTS
    CheckInNotDisturbed
