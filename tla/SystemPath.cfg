\* Set-up, both keepers and a private depositor, with failures of each.
CONSTANTS
    Scripts = {"setup", "setup_private", "migrate", "position", "privacy", "e2e"}
    MaxLate = 1
    MaxThrows = 2
    COMMIT_LIMIT = 1
    EXITS_EVERY = 2
    SHIELDED_COMMIT_EVERY = 2
    SPONSOR_EVERY = 2
    SPONSOR_FLOOR = 1
    SPONSOR_REFILL = 1
    Turns = 2
    MaxMishaps = 1
    Kinds = {"session", "stealth"}
    Units = 2
    Lot = 2
    ABSORB_EVERY = 2
    Cycles = 2
    OthersCommit = TRUE
    MaxCrashes = 1
SPECIFICATION LiveSystem
INVARIANTS PathTypeOK InOrder
PROPERTIES OnlyTheQueueStrands SendsCredited RedemptionsPaid
PROPERTIES AggregateReachesSolana Regated SharesRedeemable
PROPERTIES BookReachesSolana RecyclesFinish
CHECK_DEADLOCK FALSE
