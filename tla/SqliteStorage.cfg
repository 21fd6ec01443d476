CONSTANTS
    c1 = c1
    c2 = c2
    Clients <- MCClients
    Owner <- MCOwner
    Requests <- MCRequests
    Stores <- MCStores
    Idle = Idle
    NoSpan = NoSpan
    MaxCalls = 3
SPECIFICATION Spec
INVARIANTS
    ReferencesResolve
    ReadsAgree
PROPERTY ImplementsMemory
CHECK_DEADLOCK FALSE
