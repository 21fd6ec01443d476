--------------------------- MODULE ArtifactStore ---------------------------
(***************************************************************************)
(* What the Storage trait promises of runs and of the artifacts stored in  *)
(* them together with their content: every operation is one step.  This is *)
(* InMemoryStorage, whose lock is held through each operation.             *)
(***************************************************************************)
CONSTANTS Runs, Shas

VARIABLES
    runs,      \* the runs that exist
    artifacts  \* <<run, sha>>: run holds an artifact whose content reads back

Init == runs = {} /\ artifacts = {}

InsertRun(r) ==
    /\ r \notin runs
    /\ runs' = runs \cup {r}
    /\ UNCHANGED artifacts

\* store_artifact_with_content: row and content appear together.
Store(r, s) ==
    /\ r \in runs
    /\ artifacts' = artifacts \cup {<<r, s>>}
    /\ UNCHANGED runs

\* cleanup_branch_execution: the run goes with all of its rows, and takes no
\* other run's content with it.
Cleanup(r) ==
    /\ r \in runs
    /\ runs' = runs \ {r}
    /\ artifacts' = {a \in artifacts : a[1] # r}

Next == \E r \in Runs :
    \/ InsertRun(r)
    \/ \E s \in Shas : Store(r, s)
    \/ Cleanup(r)

Spec == Init /\ [][Next]_<<runs, artifacts>>
============================================================================
