SPECIFICATION FairSpec
CONSTANTS
    Conns = {c1}
    Streamer = Streamer
    StartUp = {"merge", "figures", "targets"}
    MaxChanges = 2
INVARIANTS
    TypeOK
    NobodyForgotten
PROPERTIES
    ShownInTheEnd
CHECK_DEADLOCK FALSE
