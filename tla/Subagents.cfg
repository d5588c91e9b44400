CONSTANTS
    i1 = i1
    i2 = i2
    k1 = k1
    k2 = k2
    a1 = a1
    a2 = a2
    Agents = {a1, a2}
    Turns = {k1, k2, k3, k4}
    Instances = {i1, i2}
    Worlds <- SmallWorlds
    None = None
SPECIFICATION FairSpec
INVARIANTS WithinCapacity SlotsAccounted GivenOnce
PROPERTIES ResultGiven
CHECK_DEADLOCK FALSE
