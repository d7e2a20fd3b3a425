\* Sessions, gates, moves and trades of one position in every order.
CONSTANTS
    Keys = {k1, k2}
    NoKey = NoKey
    Viewers = {v1}
    SESSION_TTL = 2
    Leeway = 1
    MAX_PERMISSION_MEMBERS = 4
    ClosesFirst = TRUE
    Reopens = FALSE
    MaxTime = 1
    ONE = 1000
    Prices = {900, 1000, 1301}
    Lots = {3}
    MaxShares = 6
    MaxSyncs = 3
SPECIFICATION PositionSpec
SYMMETRY KeySymmetry
INVARIANTS PositionTypeOK SessionIsTheReader FlagMirrorsGate LifetimeBounded
INVARIANTS EntryInRange YieldIsPriceMoves
PROPERTIES ViewersKept ExpiryForward
