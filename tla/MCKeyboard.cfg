CONSTANTS
    Codes <- MCCodes
    Legend <- MCLegend
    NoName = NoName
    FifoSize = 3
    PerCall = 2
    MaxEvents = 6
    MaxFaults = 1
SPECIFICATION Spec
INVARIANTS
    KeyboardTypeOK
    TypedAsHeld
    NoStuckModifier
PROPERTY NoStranding
