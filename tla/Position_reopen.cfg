\* init_permission lands once more after the position was opened.
CONSTANTS
    Keys = {k1, k2}
    NoKey = NoKey
    Viewers = {v1}
    SESSION_TTL = 2
    Leeway = 1
    MAX_PERMISSION_MEMBERS = 4
    ClosesFirst = TRUE
    Reopens = TRUE
    MaxTime = 1
    ONE = 1000
    Prices = {900, 1000, 1301}
    Lots = {3}
    MaxShares = 6
    MaxSyncs = 3
SPECIFICATION PositionSpec
SYMMETRY KeySymmetry
INVARIANT FlagMirrorsGate
