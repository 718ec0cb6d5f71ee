CONSTANTS
    MaxCtr = 3
    MaxSkipLookahead = 3
    SkippedCap = 3
    Tasks = {t1, t2}
    QueueLen = 2
    PollCap = 2
    RespCap = 3
    MaxInbox = 3
    InOrder = FALSE
    MaxCuts = 1
    MaxRestarts = 1
SPECIFICATION RecvSpec
SYMMETRY Symmetry
INVARIANTS
    RecvTypeOK
    ShownOnce
    NothingSkipped
