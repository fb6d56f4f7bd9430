CONSTANTS
    a1 = a1
    a2 = a2
    a3 = a3
    b1 = b1
    w1 = w1
    w2 = w2
    None = None
    BadRecord = BadRecord
    OBUOf <- MCOBUOf
    At <- MCAt
    Points <- MCPoints
    CalcDist <- MCCalcDist
    Half = 4
    Events = {a1, a2, a3, w1}
    Partitions = {1}
    PartitionOf <- MCOnePartition
    Infinite = 3
    Protocol = "http"
    CallIDs = {c1, c2}
    MaxLog = 3
    MaxCrashes = 2
    MaxAggCrashes = 1
    MayRepeat = FALSE
SPECIFICATION Spec
SYMMETRY MCSymmetry
INVARIANTS
    TypeOK
    CommittedWereApplied
    PositionTracksCommit
    NeverOvercharged
PROPERTIES
    ImplementsAtLeastOnce
