SPECIFICATION FairSpec
CONSTANTS
    Indicators = {a}
    None = None
    MaxValue = 2
    MaxKeyOffs = 1
    MaxUser = 3
    MaxTimeouts = 1
INVARIANTS ReadsAreAnswerable UserDisconnectHolds
PROPERTIES StatusCatchesUp ComesBack
CHECK_DEADLOCK FALSE
