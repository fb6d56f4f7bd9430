SPECIFICATION Spec
CONSTANTS
    c1 = c1
    c2 = c2
    e1 = e1
    e2 = e2
    e3 = e3
    Bad = Bad
    Conns = {c1, c2}
    Stream <- MCStream
    MaxLog = 3
    MayStop = FALSE
INVARIANTS
    TypeOK
    PublishedInOrder
    PollerNeverBlocks
    MessagesAccounted
