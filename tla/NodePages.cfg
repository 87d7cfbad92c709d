\* A known and an unknown visor; two entries of history.
CONSTANTS
    a = a
    b = b
    Nodes = {a, b}
    Known = {a}
    None = None
    MaxHistory = 2
    MaxFaults = 3
    Reloads = TRUE
SPECIFICATION Spec
INVARIANTS TypeOK ShownIsPolled
PROPERTIES LeftIsForgotten PagesSettle
CHECK_DEADLOCK FALSE
