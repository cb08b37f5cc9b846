SPECIFICATION FairSpec
CONSTANTS
    k1 = k1
    k2 = k2
    c1 = c1
    Keyboards <- MCKeyboards
    Clients <- MCClients
    RingSize = 3
    MaxBatch = 2
    MaxOutput = 2
    MaxSent = 2
    Free = Free
    NoRecord = NoRecord
INVARIANTS
    TypeOK
    NothingSkipped
    PendingInOrder
PROPERTIES
    ImplementsInputQueue
    CallsReturn
