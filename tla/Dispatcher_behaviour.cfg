SPECIFICATION Spec
CONSTANTS
    Ids = {1, 2}
    Targets = {t1}
    Workers = {w1, w2}
    MaxRetries = 1
    FirstBackoff = 1
    TaskCap = 1
    FeedCap = 1
    Hour = 3
    Off = Off
    Lag = 1
    Stored = {1, 2}
    Early = {}
    MaxPops = 1
SYMMETRY WorkerSymmetry
INVARIANTS
    TypeOK
    Accounted
    OneCopy
    TimerIsTimely
CHECK_DEADLOCK FALSE
