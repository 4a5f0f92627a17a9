SPECIFICATION Spec
CONSTANTS
    n1 = n1
    n2 = n2
    default = default
    own = own
    disk = disk
    builtin = builtin
    set = set
    Nodes = {n1, n2}
    Subclusters <- OneCluster
    Default = default
    Sessions = {default, own}
    Homes = {disk, own}
    NoHome = none
    Values = {builtin, set}
    NoValue = builtin
    MaxSid = 2
    MaxCalls = 4
SYMMETRY Symmetry
CHECK_DEADLOCK FALSE
INVARIANTS TypeOK OptionsApplied
PROPERTY AnswersWhileMoving
