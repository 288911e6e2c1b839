SPECIFICATION Spec
CONSTANTS
    Ids = {1, 2}
    MaxQueueSize = 1
    MaxRetries = 1
    MaxRestarts = 1
    Procs = {p1, p2}
    Checker = checker
    Listeners = {l1}
    MsgListeners = {}
    FeedCap = 1
    CrossDevice = FALSE
    Faults = {"bad path", "rewrite error", "crash in rewrite"}
    Absent = Absent
    Torn = Torn
SYMMETRY ProcSymmetry
INVARIANTS
    TypeOK
    OnePlace
    AckIsFinal
    DLQSizeIsHonest
