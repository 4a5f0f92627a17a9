SPECIFICATION Spec
CONSTANTS
    Ids <- TwoIds
    Vectors <- TwoVectors
    Growths <- NoneOrHalf
    Kept = kept
    Gone = gone
    MinGrowth = 1
    Block = 2
    Chunk = 4
    UpperFull = TRUE
    MaxPositions = 4
INVARIANTS TypeOK NodesAssembleIt RunsAreSound LookupsAgree
PROPERTIES AnswersChanges BothWaysAgree
