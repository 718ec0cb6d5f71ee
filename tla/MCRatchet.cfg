CONSTANTS
    MaxCtr = 8
    MaxSkipLookahead = 3
    SkippedCap = 3
SPECIFICATION Spec
INVARIANTS
    TypeOK
    KeysSingleUse
    WindowRetained
    GenuineAccepted
PROPERTIES
    ImplementsChannel
