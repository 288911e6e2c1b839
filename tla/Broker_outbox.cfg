SPECIFICATION Spec
CONSTANTS
    Ids = {1, 2}
    MaxQueueSize = 1
    MaxRetries = 1
    MaxRestarts = 1
    Procs = {p1, p2}
    Checker = checker
    Listeners = {}
    MsgListeners = {}
    FeedCap = 1
    CrossDevice = TRUE
    Faults = {"bad path"}
    Absent = Absent
    Torn = Torn
SYMMETRY ProcSymmetry
INVARIANTS
    Durable
PROPERTIES
    IsOutbox
