CONSTANTS
    Instances = {i1, i2}
    TimerIds = {t1, t2}
    ChatIds = {c1}
    Execs = {e1, e2}
    Parent <- ParentOneChat
    Cancellable = {t1, t2}
    RowLocks = TRUE
    Redis = TRUE
    MaxTurns = 1
    MaxFaults = 1
    None = None
SPECIFICATION FairSpec
INVARIANTS TypeOK FiresOnce PromptsKept
PROPERTIES CancelHolds TimerResolves
CHECK_DEADLOCK FALSE
