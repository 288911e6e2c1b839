SPECIFICATION FairSpec
CONSTANTS
    Names = {a, b}
    Configs = {x, y}
    Configured = {b}
    Default = x
    NoTarget = NoTarget
    MaxRegistrations = 3
    MaxRestarts = 1
INVARIANTS
    TypeOK
    NothingForgotten
    SpacedWriteThrough
PROPERTY
    SavesLand
CHECK_DEADLOCK FALSE
