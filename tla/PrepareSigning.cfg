SPECIFICATION FairSpec
CONSTANTS
    Stages = 3
    PatchStage = 2
    MaxSends = 3
    MaxAttempts = 2
    MaxApplications = 2
INVARIANTS
    OneOwner
    MarkerIsFresh
    HiveNeverLost
    StockStoreKept
    OnceIsComplete
PROPERTIES
    ScriptEnds
CHECK_DEADLOCK FALSE
