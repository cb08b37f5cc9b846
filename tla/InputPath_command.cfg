SPECIFICATION Spec
CONSTANTS
    b1 = b1
    b2 = b2
    Keyboards <- MCOneKeyboard
    Keys <- MCEnterAndShift
    Enter <- MCEnter
    RingCapacity = 2
    PollRecords = 1
    MaxRecords = 3
    MaxBatch = 2
    MaxRefusals = 1
    MaxLaunches = 1
INVARIANTS
    CommandNeverDispatched
