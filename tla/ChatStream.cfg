SPECIFICATION Spec
CONSTANTS
    None = None
    Provisional = {p1}
    MaxPosts = 2
    MaxTexts = 2
    Cap = 3
    MaxMishaps = 2
    Budget = 3
INVARIANTS TypeOK PendingTruthful  RunShownOnce NothingLost ShownTruthful
 
CHECK_DEADLOCK FALSE
