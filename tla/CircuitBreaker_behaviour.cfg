SPECIFICATION FairSpec
CONSTANTS
    Callers = {c1, c2, c3}
    Thresholds = {0, 1, 3}
INVARIANTS
    TypeOK
    CounterMatchesState
    OneTrialPerPeriod
    TrialFlagIsHonest
PROPERTIES
    OpenEnds
    HalfOpenEnds
