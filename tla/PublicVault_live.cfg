\* Every deposit reaches the committed book, through recycles, failed reads,
\* lost transactions and a lost delegation, with a custody that is topped up, so
\* that yield is paid out and payouts exceed the principal.
CONSTANTS
    U64Max = 1000
    Weights <- MCWeights
    YieldUnit = 1
    Users = {u1}
    Amounts = {2}
    InitApr <- MCUnevenRates
    Rates = {}
    PromptLanding = TRUE
    MaxFlow = 2
    MaxYield = 1
    MaxTopUp = 2
    MaxInflight = 1
    MaxTime = 1
SPECIFICATION LiveSpec
INVARIANT FlowCarriedOnce
PROPERTIES SharePriceNeverFalls DepositsReachTheBook
