CONSTANTS
    Processes = {sh, bg}
    Shell = sh
    Capacity = 1
    MaxChunks = 1
    MaxInput = 2
SPECIFICATION CommandSpec
INVARIANTS
    OutputWhole
    LimitStopsGroup
PROPERTIES
    Returns
CHECK_DEADLOCK FALSE
