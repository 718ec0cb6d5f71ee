CONSTANTS
    Rows = 4
    Relays = {a, b}
    Default = None
    None = None
    Word <- MCWord
    Chars <- MCChars
    Cap = 3
    MaxPeers = 4
    MaxIds = 2
    MaxCuts = 2
    SaveMayFail = TRUE
SPECIFICATION Spec
INVARIANTS
    SetupTypeOK
    HighlightShown
    IdAndHostMatch
    TokenOfRelay
    RecordsOfIdentity
