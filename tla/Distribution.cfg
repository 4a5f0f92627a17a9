SPECIFICATION Spec
CONSTANTS
    n1 = n1
    n2 = n2
    Nodes = {n1, n2}
    Clusters <- OneOrTwo
    MaxSid = 3
    MaxGen = 1
    MaxFaults = 1
SYMMETRY Symmetry
CHECK_DEADLOCK FALSE
INVARIANTS TypeOK ChainReplays RepairRestores PatchFindsBase SteadyNodesServe DeltaViewCurrent
