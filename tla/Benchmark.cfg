SPECIFICATION Spec
CONSTANTS
    r1 = r1
    r2 = r2
    Run <- MCRun
    Settings <- MCSettings
    Dim = 1
    MaxDim = 3
    K = 2
    N = 3
    Dist <- MCDist
    Efs <- MCEfs
    MaxRepeats = 4
    MaxInt = 7
    Least = 2
    Elapses <- MCElapses
CHECK_DEADLOCK FALSE
INVARIANTS
    RealTruth
    Measured
PROPERTIES
    Ends
