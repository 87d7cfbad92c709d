\* Two callers, the route IDs 1 and 2 and a counter that can be exhausted.
CONSTANTS
    c1 = c1
    c2 = c2
    Callers = {c1, c2}
    MaxUint32 = 3
    MaxReserve = 2
    MaxSaves = 1
    KeepAlives = {1}
    MaxIdle = 2
SPECIFICATION LiveSpec
INVARIANTS
    TypeOK
    Consistent
PROPERTIES
    NeverRevived
    CollectedOnlyIfIdle
    AbandonedRuleCollected
