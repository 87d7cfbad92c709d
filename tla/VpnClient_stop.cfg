\* A stop may fail.
CONSTANTS
    Servers = {s1, s2}
    None = None
    FaultyOps = {"stop"}
    InitialRetries = 1
    OpRetries = 1
    MaxDisturbances = 6
SPECIFICATION Spec
PROPERTIES StopMeansStop
CHECK_DEADLOCK FALSE
