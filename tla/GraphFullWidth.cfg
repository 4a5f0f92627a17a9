SPECIFICATION Spec
CONSTANTS
    Threads = {t1}
    BuildThreads = {t1}
    Caller = t1
    NoThread = none
    Sets <- TwoClusters
    M = 2
    EfConstruction = 200
    RangeSize = 64
    MaxPasses = 16
    MaxDead = 0
CHECK_DEADLOCK FALSE
INVARIANTS FullWidthFindsAll
