CONSTANTS
    Ids = {1, 2, 3}
    MaxEph = 4
    PollMax = 2
    HeadMayFail = TRUE
    LateSends = TRUE
    None = None
SPECIFICATION Spec
INVARIANTS
    HandshakeTypeOK
    KeysAgree
PROPERTY NoSilentRekey
CHECK_DEADLOCK FALSE
