CONSTANTS
    N = 3
    Files = {f1}
    MaxWrites = 2
    MaxFailures = 1
SPECIFICATION OneThreadSpec
INVARIANTS
    KeptChanges
PROPERTIES
    OnlyKeptChanges
    StartsClean
    StepsAreTransitions
CONSTRAINT FollowedIfComplete
CHECK_DEADLOCK FALSE
