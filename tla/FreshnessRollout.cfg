SPECIFICATION Spec
CONSTANTS
    Ids = {a, b}
    Writers = {w1}
    Nodes = {n1, n2}
    Readers = {q}
    Margin = 2
    Skew = 1
    Lag = 0
    Gap = 1
    VerifyEvery = 1
    Tamper = FALSE
    MaxTime = 4
    MaxRows = 2
    MaxSid = 3
SYMMETRY Symmetry
CHECK_DEADLOCK FALSE
INVARIANTS TypeOK ExactFresh ExactAtEpoch NoRowBehindBoundary
PROPERTY BoundaryMonotone
