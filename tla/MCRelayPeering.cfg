CONSTANTS
    Users = {u1, u2}
    MaxUpdates = 4
    MaxRestarts = 1
    None = None
SPECIFICATION Spec
SYMMETRY Symmetry
INVARIANTS
    PeeringTypeOK
    PeersSymmetric
    PeersAgreed
    AgreementKept
CHECK_DEADLOCK FALSE
