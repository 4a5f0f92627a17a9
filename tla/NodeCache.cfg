SPECIFICATION Spec
CONSTANTS
    t1 = t1
    t2 = t2
    Threads <- BothThreads
    Trust = 1
    MaxSid = 2
    MaxTime = 2
    MaxSwaps = 3
SYMMETRY Symmetry
CHECK_DEADLOCK FALSE
INVARIANTS TypeOK ActiveResolves OneLoadOfGrace NoticedInTime
