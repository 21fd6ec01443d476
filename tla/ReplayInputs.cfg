CONSTANTS
    N = 4
    Recordings <- MCRecordings
    Modes = {"blocked", "fake", "recorded", "command"}
    Templates <- MCTemplates
    Environments <- MCEnvironments
    Outside <- MCOutside
    Answers <- MCAnswers
    Complaints <- MCComplaints
    Fixtures <- MCFixtures
    MaxForks = 2
SPECIFICATION Spec
INVARIANTS
    InputsCurrent
    ReusedInputsStand
    PlannedAnswers
    OverrideReachesAll
    ResponsesMatchPrompts
CHECK_DEADLOCK FALSE
