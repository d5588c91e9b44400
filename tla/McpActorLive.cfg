CONSTANTS
    Handlers = {h1}
    Tasks = {t1, t2}
    Requests = {r1}
    ListRequests = {}
    Helpers = {}
    Ops = {"start", "stop", "restart"}
    MaxRestarts = 1
    MaxCrashes = 1
    WaitForSwallows = FALSE
    None = None
SPECIFICATION FairSpec
PROPERTIES HandlersReturn CrashNoticed
CHECK_DEADLOCK FALSE
