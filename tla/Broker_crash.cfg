SPECIFICATION Spec
CONSTANTS
    Ids = {1}
    MaxQueueSize = 1
    MaxRetries = 1
    MaxRestarts = 1
    Procs = {p1}
    Checker = checker
    Listeners = {}
    MsgListeners = {}
    FeedCap = 1
    CrossDevice = FALSE
    Faults = {"crash in rewrite"}
    Absent = Absent
    Torn = Torn
INVARIANT Durable
