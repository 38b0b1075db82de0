SPECIFICATION FairSpec
CONSTANTS
    t1 = t1
    t2 = t2
    t3 = t3
    Task <- MCTask
    Key <- MCKey
    Requests <- MCRequests
    Links <- MCLinks
    Present = {1, 2}
    Orig = Orig
    Absent = Absent
    None = None
INVARIANTS
    TypeOK
    MutualExclusion
    StagedIsFresh
PROPERTIES
    NoBlindOverwrite
    ImplementsPathLock
    EveryCallEnds
