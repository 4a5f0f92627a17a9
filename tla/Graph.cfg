SPECIFICATION Spec
CONSTANTS
    Threads = {t1, t2}
    BuildThreads = {t1, t2}
    Caller = t1
    NoThread = none
    Sets <- Several
    M = 2
    EfConstruction = 2
    RangeSize = 2
    MaxPasses = 16
    MaxDead = 2
CHECK_DEADLOCK FALSE
INVARIANTS TypeOK LateNodesHidden EveryPositionIn NoneUnreachable
PROPERTIES BuildEnds
