\* Two servers, two tabs; everything but a stop may fail.
CONSTANTS
    s1 = s1
    s2 = s2
    Servers = {s1, s2}
    None = None
    FaultyOps = {"poll", "start", "change"}
    InitialRetries = 1
    OpRetries = 1
    MaxDisturbances = 6
    Tabs = {t1, t2}
    InitialStore <- Earlier
    VisorPks = {s1, s2}
    MaxVersion = 4
SPECIFICATION Spec
INVARIANTS TypeOK OperationAlone SavedDataHold
PROPERTIES Converges UserDataKept
CHECK_DEADLOCK FALSE
