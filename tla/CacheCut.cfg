SPECIFICATION Spec
CONSTANTS
    r1 = r1
    r2 = r2
    r3 = r3
    Run <- Two
    SinglePass = {}
    Index <- Storable
    Size <- Blocks
    Unstorable = {}
    Zeros = Zeros
INVARIANTS
    ReadsOrBuilds
CHECK_DEADLOCK FALSE
