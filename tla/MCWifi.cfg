CONSTANTS
    Networks = {right, wrong}
    Working = {right}
    None = None
    Attempts = 2
    Retries = 4
    QueueSize = 3
    MaxFails = 3
    MaxDrops = 2
    MaxReboots = 1
SPECIFICATION Spec
INVARIANTS
    ConnectedIsTrue
    SavedCredentialsWork
PROPERTY Rejoins
CHECK_DEADLOCK FALSE
