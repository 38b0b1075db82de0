SPECIFICATION FairSpec
CONSTANTS
    Answer <- MCAnswer
    MaxRetries = 1
    MaxStreams = 2
    Routed = TRUE
    CanRotate = TRUE
INVARIANTS
    TypeOK
    OneGeneration
    DivergenceIsReal
PROPERTIES
    RequestEnds
