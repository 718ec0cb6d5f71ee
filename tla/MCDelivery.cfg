CONSTANTS
    Users = {u1, u2}
    Ids = {i1, i2}
    First = i1
    None = None
    MaxInbox = 2
    MaxUpdates = 3
    MaxSends = 2
    MaxRestarts = 1
SPECIFICATION Spec
SYMMETRY Symmetry
INVARIANTS
    TablesInverse
    StateIsReplay
    ConnectionsCurrent
    InboxIsReplay
    CopyWasPosted
CHECK_DEADLOCK FALSE
