SPECIFICATION Spec
CONSTANTS
    w1 = w1
    w2 = w2
    w3 = w3
    Dist <- MCDist
    N = 6
    Points <- Clusters6
    Worker <- One
    Building = FALSE
    MaxLayer = 2
    LevelDraws <- AnyLevels
    M = 2
    MMax = 2
    MMax0 = 3
    EfConstruct = 3
    NearestM = TRUE
INVARIANTS
    EveryLayerLinked
