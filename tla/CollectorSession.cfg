CONSTANTS
    Allocated = {a1, a2}
    n1 = n1
    Named = {n1}
    Tasks = {t1, t2}
    NoSpan = NoSpan
    ReadErrors = FALSE
    MaxSequence = 3
    MaxPoints = 4
    AppSpans <- MCAppSpans
    Programs <- MCPrograms
SPECIFICATION SessionSpec
SYMMETRY Symmetry
CONSTRAINT Captures
INVARIANTS
    FinishedRunComplete
    SpansFormTrees
    BeforePrecedesAfter
    OrdinalsWithoutGaps
PROPERTIES
    EndedSpansFinal
