CONSTANTS
    s1 = s1
    s2 = s2
    h1 = h1
    h2 = h2
    Servers = {s1, s2}
    Handlers = {h1, h2}
    Actors = {a1, a2}
    Tasks = {t1, t2}
    Worlds <- SmallWorlds
    None = None
SPECIFICATION FairSpec
INVARIANTS TypeOK OnlyRegisteredServed NoStrayTask ReadyzHonest
PROPERTY BootCompletes
