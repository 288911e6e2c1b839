SPECIFICATION FairSpec
CONSTANTS
    Ids = {1, 2}
    MaxQueueSize = 1
    MaxRetries = 1
    MaxRestarts = 0
    Procs = {p1, p2}
    Checker = checker
    Listeners = {}
    MsgListeners = {}
    FeedCap = 1
    CrossDevice = FALSE
    Faults = {}
    Absent = Absent
    Torn = Torn
PROPERTIES
    CallsReturn
    LateReturns
