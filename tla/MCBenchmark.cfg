SPECIFICATION FairSpec
CONSTANTS
    WarmUps = 1
    Requests = 3
    Workers = {w1, w2}
    Durations = {1, 2}
    Loads <- MCLoads
    Bounds <- MCBounds
    Quantiles = {50, 95}
    MaxStrangers = 1
    MaxResets = 1
INVARIANTS
    RunnerTypeOK
    TransportIsNearestRank
PROPERTIES
    LoadsReportedExactly
    BenchmarkEnds
