CONSTANTS
    Runs = {r1, r2}
    SpanIds = {s1, s2}
    None = None
    MaxClicks = 3
SPECIFICATION FairSpec
INVARIANTS
    ShownTogether
    InspectorShowsSelection
    BranchesForkTheirRun
PROPERTIES
    LoadsSettle
CHECK_DEADLOCK FALSE
