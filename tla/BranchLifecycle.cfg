SPECIFICATION Spec
CONSTANTS
    Branches = {b1, b2}
    Clients = {c1}
    Origin = Origin
    None = None
SYMMETRY Symmetry
INVARIANT EndedJobIsTrue
PROPERTY AnsweredStays
