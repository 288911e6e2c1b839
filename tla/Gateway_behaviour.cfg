SPECIFICATION FairSpec
CONSTANTS
    Ids = {m1, m2}
    Handlers = {h1, h2}
    Consumers = {k1}
    Nothing = Nothing
    MaxQueueSize = 1
    Thresholds = {1}
    MaxFaults = 1
INVARIANTS
    TypeOK
    AtLeastOnce
    AnswersAreTrue
PROPERTIES
    PushesGetThrough
