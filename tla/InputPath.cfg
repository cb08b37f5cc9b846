SPECIFICATION FairSpec
CONSTANTS
    b1 = b1
    b2 = b2
    Keyboards <- MCKeyboards
    Keys <- MCEnterOnly
    Enter <- MCEnter
    RingCapacity = 2
    PollRecords = 1
    MaxRecords = 3
    MaxBatch = 2
    MaxRefusals = 1
    MaxLaunches = 2
INVARIANTS
    NothingStaleDispatched
    NoStuckKey
PROPERTIES
    DispatchInOrder
    WaitingIsTaken
    CcsReceivesAll
