SPECIFICATION Spec
CONSTANTS
    n1 = n1
    n2 = n2
    default = default
    own = own
    disk = disk
    builtin = builtin
    set = set
    Nodes = {n1, n2}
    Subclusters <- TwoSubclusters
    Default = default
    Sessions = {default}
    Homes = {disk}
    NoHome = none
    Values = {builtin, set}
    NoValue = builtin
    MaxSid = 1
    MaxCalls = 5
SYMMETRY Symmetry
CHECK_DEADLOCK FALSE
INVARIANT LoadAllServes
