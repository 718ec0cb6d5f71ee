CONSTANTS
    Users = {u1, u2}
    Devices = {d1, d2}
    Codes = {c1, c2}
    MaxTokens = 3
    SaveMayFail = TRUE
    None = None
SPECIFICATION Spec
SYMMETRY Symmetry
INVARIANTS
    BindTypeOK
    TokenNamesItsUser
    TokenOnOneDevice
    OneTokenPerUser
PROPERTY OnlyOwnerDetaches
