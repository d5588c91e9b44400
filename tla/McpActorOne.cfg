CONSTANTS
    Handlers = {h1}
    Tasks = {t1, t2}
    Requests = {r1, r2}
    ListRequests = {r1}
    Helpers = {p1}
    Ops = {"start", "stop", "restart"}
    MaxRestarts = 1
    MaxCrashes = 1
    WaitForSwallows = TRUE
    None = None
SPECIFICATION Spec
INVARIANTS TypeOK QueueHasDrainer ReadyHasSession ServedOnce SingleOwner StoppedIsIdle ChildGoneBeforeRetry
SYMMETRY Symmetry
CHECK_DEADLOCK FALSE
