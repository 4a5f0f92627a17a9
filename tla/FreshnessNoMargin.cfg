SPECIFICATION Spec
CONSTANTS
    Ids = {a, b}
    Writers = {w1, w2}
    Nodes = {n1}
    Readers = {q}
    Margin = 0
    Skew = 0
    Lag = 0
    Gap = 1
    VerifyEvery = 1
    Tamper = FALSE
    MaxTime = 3
    MaxRows = 2
    MaxSid = 2
SYMMETRY Symmetry
CHECK_DEADLOCK FALSE
INVARIANTS ExactFresh
