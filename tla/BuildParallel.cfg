SPECIFICATION Spec
CONSTANTS
    w1 = w1
    w2 = w2
    w3 = w3
    Dist <- MCDist
    N = 5
    Points <- Clusters
    Worker <- Two
    Building = TRUE
    MaxLayer = 1
    LevelDraws <- AnyLevels
    M = 2
    MMax = 2
    MMax0 = 2
    EfConstruct = 2
    NearestM = FALSE
SYMMETRY WorkerSymmetry
INVARIANTS
    SafeToFollow
    WalkInBounds
    DegreeCap
    NoDoubleEntry
    TopIsTallest
    HasWayOut
PROPERTIES
    NoSilentEdgeLoss
