\* Private flow reaches the book, whatever is lost, late
\* or aborted, through recycles of the aggregate.
CONSTANTS
    U64Max = 1000
    Weights <- MCWeights
    YieldUnit = 1
    Owners = {o1}
    Amounts = {2}
    InitApr <- MCNoApr
    Groups = {g1}
    Slots = 1
    MaxFlow = 2
    MaxYield = 0
    MaxSent = 1
    MaxTime = 0
SPECIFICATION LiveSpec
PROPERTY PrivateFlowReachesTheBook
