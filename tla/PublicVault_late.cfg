\* An absorb may land after the keeper has read the book again.
CONSTANTS
    U64Max = 1000
    Weights <- MCWeights
    YieldUnit = 1
    Users = {u1}
    Amounts = {1}
    InitApr <- MCInitApr
    Rates = {}
    PromptLanding = FALSE
    MaxFlow = 2
    MaxYield = 2
    MaxTopUp = 0
    MaxInflight = 2
    MaxTime = 0
SPECIFICATION Spec
INVARIANT BookNotAhead
