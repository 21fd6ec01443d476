SPECIFICATION Spec
CONSTANTS
    N = 4
    Recordings <- MCRecordings
INVARIANT ReuseIsSound
INVARIANT PlanForetells
INVARIANT FailureReachesRun
INVARIANT BranchIsExplained
INVARIANT DiffIsExplained
