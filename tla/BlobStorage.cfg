CONSTANTS
    Runs = {r1, r2, r3}
    Shas = {s1}
    Tasks = {t1, t2}
    NoTask = NoTask
    NoRun = NoRun
    NoSha = NoSha
SPECIFICATION FairSpec
INVARIANTS
    StoredRowsReadable
PROPERTIES
    RemovedOnlyUnreferenced
    ImplementsPromise
    CallsReturn
