SPECIFICATION Spec
CONSTANTS
    w1 = w1
    w2 = w2
    w3 = w3
    Dist <- MCDist
    N = 4
    Points <- Scattered
    Worker <- Three
    Building = TRUE
    MaxLayer = 2
    LevelDraws <- AnyLevels
    M = 2
    MMax = 3
    MMax0 = 3
    EfConstruct = 3
    NearestM = FALSE
SYMMETRY WorkerSymmetry
INVARIANTS
    OnePiece
