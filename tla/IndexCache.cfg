SPECIFICATION Spec
CONSTANTS
    r1 = r1
    r2 = r2
    r3 = r3
    Run <- Three
    SinglePass <- Single
    Index <- Indexes
    Size <- Blocks
    Unstorable <- Absurd
    Zeros = Zeros
INVARIANTS
    IInv
    IntactUnlessCut
    SettledIsReused
PROPERTIES
    SettledStays
CHECK_DEADLOCK FALSE
