CONSTANTS
    e1 = e1
    e2 = e2
    e3 = e3
    None = None
    NoEventID = NoEventID
    EventIDs <- MCEventIDs
    HashBits = 2
    EventIDFingerprint <- MCFingerprint
    Goroutines = {t1, t2, t3}
    Distances <- MCDistances
    OBUIDs = {1, 2}
    Infinite = 100
SPECIFICATION FairSpec
INVARIANTS
    TypeOK
    StoreAgreesWithCharges
PROPERTIES
    ChargesAreFinal
    ImplementsLedger
    EveryCallReturns
