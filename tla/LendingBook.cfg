\* Ticks, absorptions and rate changes in every order over three seconds, on
\* two hosts whose clocks agree; the loops are tried on every book on the way.
CONSTANTS
    U64Max = 1000
    Weights <- MCWeights
    YieldUnit = 4
    Hosts = {solana, rollup}
    FirstHost = solana
    ClockLag <- MCSameClocks
    InitApr <- MCInitApr
    Rates = {5}
    Flows = {0, 1, 2}
    MaxFlow = 3
    MaxTime = 3
SPECIFICATION Spec
INVARIANTS TypeOK NeverOverAccrues LossIsOnlyRounding PrincipalCoversMarks
INVARIANT ClosedFormsMatchLoops
