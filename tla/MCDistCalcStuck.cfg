CONSTANTS
    a1 = a1
    a2 = a2
    a3 = a3
    b1 = b1
    w1 = w1
    w2 = w2
    None = None
    BadRecord = BadRecord
    OBUOf <- MCOBUOf
    At <- MCAt
    Points <- MCPoints
    CalcDist <- MCCalcDist
    Half = 4
    Events = {w1, b1}
    Partitions = {1, 2}
    PartitionOf <- MCTwoPartitions
    Infinite = 100
    Protocol = "grpc"
    CallIDs = {c1}
    MaxLog = 2
    MaxCrashes = 1
    MaxAggCrashes = 0
    MayRepeat = FALSE
SPECIFICATION LoopSpec
PROPERTIES
    HealthyPartitionsDrain
    StopEndsLoop
