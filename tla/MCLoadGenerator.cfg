SPECIFICATION FairSpec
CONSTANTS
    OBUs = 3
    Connections = 2
    Capacity = 1
    Configs <- MCConfigs
    EventIDs <- MCFive
    HashBits = 2
    EventIDFingerprint <- MCHash
INVARIANTS
    TypeOK
    OBUsStayInOrder
    SummaryDescribesWrites
    AttemptsAccounted
    ConnectionsReleased
PROPERTIES
    RunEnds
