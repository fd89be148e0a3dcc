SPECIFICATION FairSpec
CONSTANTS
    a = a  b = b
    Evaluations = {1, 2}
    Heads = {a, b}
    HeadOf <- MCHeadOf
    Results = {"failure"}
    MaxDisturbances = 2
INVARIANTS
    WrittenOnce RowsAreTrue
PROPERTIES
    ConnectionChangesWin StatusIsPublished
CHECK_DEADLOCK FALSE
