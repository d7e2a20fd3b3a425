\* Public and private deposits and redemptions, with yield, around commits of
\* the book and recycles of the aggregate; tickets paid late, twice or never,
\* and group ids drawn again.
CONSTANTS
    U64Max = 1000
    Weights <- MCWeights
    YieldUnit = 1
    Owners = {o1, o2}
    Amounts = {1, 2}
    InitApr <- MCInitApr
    Groups = {g1, g2}
    Slots = 2
    MaxFlow = 2
    MaxYield = 2
    MaxSent = 2
    MaxTime = 1
SPECIFICATION Spec
SYMMETRY OwnerAndGroupSymmetry
INVARIANTS TypeOK BothNavsExact AggregateInOrder TicketsCovered PaidOnce SharesAreThePositions
PROPERTY PrivateTradesKeepThePrice
