CONSTANTS
    i1 = i1
    i2 = i2
    Instances = {i1, i2}
    TaskIds = {t1, t2}
    Items = {c1}
    ItemOf <- ItemOfOneChat
    Turns = {t1}
    Stoppers = {s1}
    Deployments <- Both
    MaxFaults = 1
    None = None
SPECIFICATION FairSpec
INVARIANT HashTracks
PROPERTIES StopEnds Forgotten
CHECK_DEADLOCK FALSE
