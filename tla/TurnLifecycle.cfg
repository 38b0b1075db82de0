SPECIFICATION FairSpec
CONSTANTS
    f1 = f1
    p1 = p1
    MaxTurns = 2
    FollowUp <- MCFollowUp
    Pin <- MCPin
INVARIANTS
    TypeOK
    LatestTurnOwnsSlot
    SupersededIsCancelled
    DrainedIsSettled
PROPERTIES
    
    CancelledTurnEnds
