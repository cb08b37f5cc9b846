SPECIFICATION Spec
CONSTANTS
    Stages = 3
    PatchStage = 2
    MaxSends = 3
    MaxAttempts = 2
    MaxApplications = 2
INVARIANTS
    PreparedIsComplete
CHECK_DEADLOCK FALSE
