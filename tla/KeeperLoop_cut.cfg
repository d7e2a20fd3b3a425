\* The same keeper with nobody to restart it.
CONSTANTS
    COMMIT_LIMIT = 2
    ABSORB_EVERY = 2
    Cycles = 2
    OthersCommit = FALSE
    MaxCrashes = 0
SPECIFICATION Unattended
PROPERTY RecyclesFinish
