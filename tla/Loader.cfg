SPECIFICATION Spec
CONSTANTS
    MaxInt = 3
    MaxByte = 2
    MaxElements = 2
    Headers <- EdgeHeaders
INVARIANTS
    IInv
    LoadedSafe
    Aligned
    SavesBack
    BottomAgrees
PROPERTIES
    LoadEnds
