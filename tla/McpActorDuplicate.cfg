CONSTANTS
    Handlers = {h1, h2}
    Tasks = {t1, t2, t3}
    Requests = {}
    ListRequests = {}
    Helpers = {}
    Ops = {"restart"}
    MaxRestarts = 0
    MaxCrashes = 0
    WaitForSwallows = FALSE
    None = None
SPECIFICATION Spec
INVARIANT OneChild
CHECK_DEADLOCK FALSE
