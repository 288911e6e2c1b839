SPECIFICATION Spec
CONSTANTS
    Ids = {1, 2, 3}
    MaxQueueSize = 0
    MaxRetries = 1
    MaxRestarts = 1
    Procs = {p1}
    Checker = checker
    Listeners = {}
    MsgListeners = {d1}
    FeedCap = 2
    CrossDevice = FALSE
    Faults = {"crash in rewrite"}
    Absent = Absent
    Torn = Torn
INVARIANTS
    FileIsCurrent
    FeedIsHonest
PROPERTIES
    KeepsOrder
