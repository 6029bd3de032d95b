SPECIFICATION Spec
CONSTANTS
    p1 = p1
    p2 = p2
    s1 = s1
    s2 = s2
    Space <- Spaces
    Search <- Searches
    Sizes <- Counts
    Widths <- Counts
    MaxEpoch = 2
    None = None
SYMMETRY Alike
INVARIANTS
    Unshared
    StampsPast
    OwnWork
PROPERTIES
    SearchesIndependent
