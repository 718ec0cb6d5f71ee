CONSTANTS
    MaxCtr = 5
    MaxSkipLookahead = 2
    SkippedCap = 2
    NvsMayFail = FALSE
SPECIFICATION ChatSpec
INVARIANTS
    CounterNeverReused
    GenuineAccepted
