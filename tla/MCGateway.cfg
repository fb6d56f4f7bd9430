\* The calls are finitely many, and the process ends.
CHECK_DEADLOCK FALSE
CONSTANTS
    e1 = e1
    e2 = e2
    c1 = c1
    c2 = c2
    c3 = c3
    None = None
    NoEventID = NoEventID
    Malformed = Malformed
    EventIDs <- MCEventIDs
    HashBits = 2
    EventIDFingerprint <- MCFingerprint
    Calls = {c1, c2, c3}
    Requests <- MCRequests
    Distances <- MCDistances
    OBUIDs = {1}
    Infinite = 10
    Now = 1
SPECIFICATION Spec
INVARIANTS
    TypeOK
    ClientTypeOK
    MetricsDescribeLedger
    ShutdownCutsNothing
    InvoicesNeverShrink
    AcceptedIsDone
    ResponsesWereCounted
PROPERTIES
    ShutdownEnds
