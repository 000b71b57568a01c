SPECIFICATION Spec
CONSTANTS
    None = None
    Provisional = {p1}
    MaxPosts = 3
    MaxTexts = 3
    Cap = 3
    MaxMishaps = 0
    Budget = 3
INVARIANTS ConflictResolvedBeforeSend
CHECK_DEADLOCK FALSE
