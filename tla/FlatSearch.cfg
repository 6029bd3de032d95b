SPECIFICATION Spec
CONSTANTS
    Count = 5
    K = 3
    Workers = 3
    Farthest = 2
    Query <- AnyDistances
    Dist <- MCDist
INVARIANTS
    IInv
    Exact
    Tiled
PROPERTIES
    Answers
