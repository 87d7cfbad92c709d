\* Two known visors, no faults: only links and the back button.
CONSTANTS
    a = a
    b = b
    Nodes = {a, b}
    Known = {a, b}
    None = None
    MaxHistory = 3
    MaxFaults = 0
    Reloads = FALSE
SPECIFICATION Spec
INVARIANTS CurrentNodeIsOwn
CHECK_DEADLOCK FALSE
