\* Two visors, one label, two tabs.
CONSTANTS
    a = a
    b = b
    l1 = l1
    t1 = t1
    t2 = t2
    Ids = {a, b}
    Labels = {l1}
    Tabs = {t1, t2}
    ListTab = t1
    None = None
    Leftovers <- MCLeftovers
    FirstReports <- MCFirstReports
    MaxOps = 2
    MaxFlips = 2
SPECIFICATION Spec
INVARIANTS TypeOK CachesAreTrue
PROPERTIES ImplementsStore DeletedLeaves
CHECK_DEADLOCK FALSE
