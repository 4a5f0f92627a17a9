SPECIFICATION Spec
CONSTANTS
    u1 = u1
    u2 = u2
    job = job
    Sessions <- AllSessions
    Sees <- SameUser
    MinKeep = 1
    MaxBuild = 1
    Patience = 1
CHECK_DEADLOCK FALSE
INVARIANTS TypeOK SingleRefresh RunningIsMarked
PROPERTY NeverStuck
