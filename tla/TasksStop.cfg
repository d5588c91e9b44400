CONSTANTS
    i1 = i1
    i2 = i2
    Instances = {i1, i2}
    TaskIds = {t1, t2}
    Items = {c1}
    ItemOf <- ItemOfOneChat
    Turns = {t1, t2}
    Stoppers = {s1}
    Deployments <- WithoutRedis
    MaxFaults = 0
    None = None
SPECIFICATION Spec
INVARIANTS StopItemStopsAll
CHECK_DEADLOCK FALSE
