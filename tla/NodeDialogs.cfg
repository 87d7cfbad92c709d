\* Each of the lists and windows of a visor.
CONSTANTS
    Windows = {"bulk", "client", "logs", "form", "list"}
    Order <- MCOrder
    NewAddresses = {"", "new"}
    MaxToggles = 2
    Keys = {"k1", "k2", "k3"}
    Notes = {"", "n"}
    Proxies <- MCProxies
    MatchingKeys <- MCMatchingKeys
    FirstHistories <- MCFirstHistories
    MaxHistory = 2
    PageSize = 2
    MaxOps = 3
    Levels = {1, 2}
    Old = 1
    MaxShown = 2
    MaxWritten = 3
    MaxLoads = 2
    Kinds = {"userApp", "server", "chat", "rewards", "hops", "dns", "password", "account", "transport"}
    Others = {"o"}
    MaxTyped = 3
    MaxRequests = 3
    N = 3
    ListPageSize = 2
    Lists = {"transports", "routes", "apps", "autostart"}
    FirstState <- MCFirst
    MaxListOps = 1
    MaxMoves = 1
    MaxChanges = 1
    None = None
SPECIFICATION Spec
INVARIANTS TypeOK OnlyConsented ShownIsTrue ListIsTrue DataHold
PROPERTIES ClientKeeps WindowFree
CHECK_DEADLOCK FALSE
