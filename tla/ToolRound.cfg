SPECIFICATION FairSpec
CONSTANTS
    x = x
    None = None
    Round <- MCRound
    Target <- MCTarget
    Prior <- MCPrior
    Mode <- MCMode
    MaxConcurrent = 2
    MaxParallel = 2
    MaxToolCalls = 3
    MaxBytesRead = 3
    RedundantCalls = 2
    ReadBytes = 2
    MaxLeft = 1
INVARIANTS
    TypeOK
    EditsInOrder
    RoundPaired
    NeverRefused
    BudgetHolds
    
    
PROPERTIES
    CancelStopsTools
    CancelledRoundEnds
CHECK_DEADLOCK FALSE
