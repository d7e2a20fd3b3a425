\* Yield committed while a private deposit is not.
CONSTANTS
    U64Max = 1000
    Weights <- MCWeights
    YieldUnit = 1
    Owners = {o1}
    Amounts = {1}
    InitApr <- MCInitApr
    Groups = {g1}
    Slots = 1
    MaxFlow = 2
    MaxYield = 2
    MaxSent = 0
    MaxTime = 1
SPECIFICATION Spec
INVARIANT SharesWorthTheSame
