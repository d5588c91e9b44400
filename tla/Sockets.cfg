CONSTANTS
    p1 = p1
    p2 = p2
    s1 = s1
    s2 = s2
    Procs = {p1, p2}
    Sids = {s1, s2}
    Worlds <- SmallWorlds
    Timeout = 2
    MaxLate = 1
    None = None
SPECIFICATION FairSpec
INVARIANTS TypeOK HolderCleans
PROPERTIES PoolPromise OrphansReaped UseForgotten
CHECK_DEADLOCK FALSE
