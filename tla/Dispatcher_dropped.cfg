SPECIFICATION FairSpec
CONSTANTS
    Ids = {1, 2}
    Targets = {t1}
    Workers = {w1}
    MaxRetries = 1
    FirstBackoff = 1
    TaskCap = 1
    FeedCap = 1
    Hour = 1
    Off = Off
    Lag = 0
    Stored = {1}
    Early = {2}
    MaxPops = 1
PROPERTIES
    PickedUp
CHECK_DEADLOCK FALSE
