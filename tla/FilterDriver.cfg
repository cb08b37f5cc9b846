SPECIFICATION FairSpec
CONSTANTS
    s1 = s1
    s2 = s2
    Stacks <- MCStacks
    MaxHandles = 1
INVARIANTS
    TypeOK
    NothingLeaks
    ExtensionIsAlive
    CallbackOnLiveFilter
    UpperIsClass
PROPERTIES
    RemovalEnds
