SPECIFICATION FairSpec
CONSTANTS
    x = x
    None = None
    Round <- MCWorkers
    Target <- MCTarget
    Prior <- MCNothing
    Mode <- MCMode
    MaxConcurrent = 2
    MaxParallel = 2
    MaxToolCalls = 3
    MaxBytesRead = 3
    RedundantCalls = 2
    ReadBytes = 2
    MaxLeft = 1
INVARIANTS
    PromptsReachUser
CHECK_DEADLOCK FALSE
