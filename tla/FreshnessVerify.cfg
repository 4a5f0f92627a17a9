SPECIFICATION Spec
CONSTANTS
    Ids = {a}
    Writers = {w1}
    Nodes = {n1}
    Readers = {}
    Margin = 0
    Skew = 0
    Lag = 0
    Gap = 0
    VerifyEvery = 2
    Tamper = TRUE
    MaxTime = 3
    MaxRows = 2
    MaxSid = 3
SYMMETRY Symmetry
CHECK_DEADLOCK FALSE
INVARIANTS ActiveHoldsJournal DigestCoversSnapshot
