CONSTANTS
    Ids = {1, 2}
    MaxEph = 2
    PollMax = 4
    HeadMayFail = FALSE
    LateSends = FALSE
    None = None
SPECIFICATION Spec
INVARIANT HelloReachable
CHECK_DEADLOCK FALSE
