CONSTANTS
    i1 = i1
    i2 = i2
    c1 = c1
    c2 = c2
    Autos = {a1, a2}
    Stored = {a1}
    Instances = {i1, i2}
    Clients = {c1, c2}
    Server <- ServerFirst
    Rules = {"every", "once", "autumn", "night", "spring"}
    Occurs <- OccursOfRules
    Zone <- ZoneOfRules
    Metas = {None}
    Worlds <- SmallWorlds
    Limit = 1
    MaxCount = 1
    MaxTime = 3
    MaxClaims = 2
    MaxExecs = 2
    None = None
SPECIFICATION FairSpec
INVARIANTS TypeOK ClaimedOnce NeverStranded
PROPERTIES DueClaimed RunRecorded
CHECK_DEADLOCK FALSE
