SPECIFICATION Spec
CONSTANTS
    l1 = l1
    l2 = l2
    t = t
    LocalCall <- MCLocalCall
    TurnCall <- MCTurnCall
    NoCall = NoCall
    MaxRetained = 2
    MaxCancels = 2
INVARIANTS
    TypeOK
    RunningIsCancellable
PROPERTIES
    OldestGoesFirst
    CancelledJobEnds
CHECK_DEADLOCK FALSE
