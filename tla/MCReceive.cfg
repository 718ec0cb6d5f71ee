CONSTANTS
    MaxCtr = 4
    MaxSkipLookahead = 4
    SkippedCap = 4
    Tasks = {t1}
    QueueLen = 4
    PollCap = 2
    RespCap = 3
    MaxInbox = 3
    InOrder = TRUE
    MaxCuts = 2
    MaxRestarts = 0
SPECIFICATION FairRecvSpec
PROPERTY EventuallyShown
