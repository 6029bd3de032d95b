SPECIFICATION Spec
CONSTANTS
    c1 = c1
    Client <- MCClient
    N = 6
    Dist <- MCDist
    Undefined <- MCUndefined
    MaxLayer = 1
    Indexes <- MCIndexes
    Widths <- MCWidths
    Asks <- MCAsks
INVARIANTS
    IInv
    HeapsHold
    LocallyBest
    Enough
    ExactIfWide
PROPERTIES
    Implements
    Returns
