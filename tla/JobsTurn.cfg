SPECIFICATION Spec
CONSTANTS
    l1 = l1
    l2 = l2
    t = t
    LocalCall <- MCLocalCall
    TurnCall <- MCTurnCall
    NoCall = NoCall
    MaxRetained = 2
    MaxCancels = 2
PROPERTIES
    AbortedTurnLeavesNoJob
CHECK_DEADLOCK FALSE
