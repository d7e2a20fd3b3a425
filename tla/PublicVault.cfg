\* Two depositors, the keeper, commits, recycles, a lost delegation, a
\* migration and a change of rates, in every order.
CONSTANTS
    U64Max = 1000
    Weights <- MCWeights
    YieldUnit = 2
    Users = {u1, u2}
    Amounts = {1, 2}
    InitApr <- MCTwoRates
    Rates = {2}
    PromptLanding = TRUE
    MaxFlow = 2
    MaxYield = 2
    MaxTopUp = 0
    MaxInflight = 1
    MaxTime = 2
SPECIFICATION Spec
SYMMETRY UserSymmetry
INVARIANTS TypeOK BookNotAhead NavExact SharesCoveredAtPar
PROPERTIES CommittedNeverRegresses TradesFairly
