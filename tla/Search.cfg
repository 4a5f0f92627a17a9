SPECIFICATION Spec
CONSTANTS
    NaN = NaN
    Huge = Huge
    None = None
    BadVec = BadVec
    CodeTop = 2
    SerialRows = 4
    HeapRoom = 12
    Tile = 1
    CopyCost = 1
    FilterFloor = 2
    FilterScale = 1
    StampTop = 2
    PoolArrays = 2
    Calls <- AllCalls
    Pools <- KeptArrays
    BlockRows = 2
    MaxK = 4
    MaxEf = 8
    LongDims = 512
    EfBest = 4
    EfBalanced = 2
    EfFast = 1
    Cores = 2
    MaxUnits = 3
CHECK_DEADLOCK FALSE
INVARIANTS TypeOK ExactAnswer ApproximateAnswer NewestRowsKept WantedSnapshot
