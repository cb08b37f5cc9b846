SPECIFICATION BuilderSpec
CONSTANTS
    p1 = p1
    p2 = p2
    Scripts <- MCScripts
    MaxTime = 2
    MaxVersion = 4
INVARIANTS
    TargetIsSound
    TargetIsFound
    DeploymentCanBeUndone
    OnlyRefusedStays
    BuildIsKept
PROPERTIES
    HiveOwner
SYMMETRY Symmetry
CHECK_DEADLOCK FALSE
