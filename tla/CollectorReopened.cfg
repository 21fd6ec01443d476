CONSTANTS
    Allocated = {a1, a2}
    Named = {a2}
    Tasks = {t1, t2}
    NoSpan = NoSpan
    ReadErrors = TRUE
    MaxSequence = 2
    MaxPoints = 0
SPECIFICATION Spec
SYMMETRY Symmetry
PROPERTIES
    FinishedStaysFinished
