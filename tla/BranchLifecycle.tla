-------------------------- MODULE BranchLifecycle --------------------------
(***************************************************************************)
(* The rows a branch leaves in the database: its run, its replay job, its  *)
(* branch record and the cached diff with its source.                      *)
(*                                                                         *)
(* create_branch (API server or CLI) writes them one transaction at a      *)
(* time: execute_fork opens them as Running, replays, and closes run,      *)
(* branch and job in this order; then the runs are diffed, and if that     *)
(* fails the branch is cleaned up.  Meanwhile clients compute diffs of any *)
(* branch, branches are forked from branches, the API process may die,     *)
(* and the collector, a process of its own, may restart and run its        *)
(* recovery scan.                                                          *)
(*                                                                         *)
(* What the replay itself does is the subject of ReplayEngine: here it     *)
(* ends with any status, or with an error.                                 *)
(***************************************************************************)
CONSTANTS
    Branches,  \* branch commands; each has its run, job and branch record
    Clients,   \* POST /v1/diffs requests in flight
    Origin,    \* a recorded run that nothing removes
    None

ASSUME BranchAssumption == Origin \notin Branches /\ None \notin Branches \cup {Origin}

VARIABLES
    run, job, branch,  \* the rows' status
    diff,              \* the cached diff with the source: target_status
    source,            \* the run a branch was forked from
    pc,                \* where its create_branch is
    seen,              \* the target status its task has in memory
    asked, got         \* per client: branch, and the target status it has read

rowVars == <<run, job, branch, diff>>
vars    == <<run, job, branch, diff, source, pc, seen, asked, got>>

Final     == {"Completed", "Failed", "Blocked", "Canceled"}
RunStatus == {"absent", "Running", "Interrupted"} \cup Final

\* Status of the replay job of a run that ended so.
JobOf(s) == IF s \in {"Blocked", "Failed"} THEN s ELSE "Completed"

Working ==
    {"insert_run", "insert_job", "insert_branch", "replay",
     "update_run", "update_branch", "update_job"}
Diffing   == {"diff", "diff_check", "diff_insert"}
Positions == Working \cup Diffing \cup {"idle", "cleanup", "answered", "gone"}

TypeOK ==
    /\ run \in [Branches -> RunStatus]
    /\ job \in [Branches -> {"absent", "Running", "Completed", "Failed", "Blocked"}]
    /\ branch \in [Branches -> {"absent", "Running"} \cup Final]
    /\ diff \in [Branches -> RunStatus]
    /\ source \in [Branches -> Branches \cup {Origin, None}]
    /\ pc \in [Branches -> Positions]
    /\ seen \in [Branches -> RunStatus]
    /\ asked \in [Clients -> Branches \cup {None}]
    /\ got \in [Clients -> RunStatus]

Init ==
    /\ run = [b \in Branches |-> "absent"]
    /\ job = [b \in Branches |-> "absent"]
    /\ branch = [b \in Branches |-> "absent"]
    /\ diff = [b \in Branches |-> "absent"]
    /\ source = [b \in Branches |-> None]
    /\ pc = [b \in Branches |-> "idle"]
    /\ seen = [b \in Branches |-> "absent"]
    /\ asked = [c \in Clients |-> None]
    /\ got = [c \in Clients |-> "absent"]

----------------------------------------------------------------------------
RunExists(r) == r = Origin \/ (r \in Branches /\ run[r] # "absent")

\* Both runs of a row to be written: ensure_run_exists_conn.
RunsExist(b) == RunExists(source[b]) /\ RunExists(b)

Goto(b, from, to) == pc[b] = from /\ pc' = [pc EXCEPT ![b] = to]

(* execute_fork                                                            *)

\* The plan is made from the source's rows, whatever its status.
Fork(b) ==
    /\ Goto(b, "idle", "insert_run")
    /\ \E r \in {Origin} \cup (Branches \ {b}) :
          RunExists(r) /\ source' = [source EXCEPT ![b] = r]
    /\ UNCHANGED <<rowVars, seen, asked, got>>

InsertRun(b) ==
    /\ Goto(b, "insert_run", "insert_job")
    /\ run' = [run EXCEPT ![b] = "Running"]
    /\ UNCHANGED <<job, branch, diff, source, seen, asked, got>>

InsertJob(b) ==
    /\ Goto(b, "insert_job", "insert_branch")
    /\ RunsExist(b)
    /\ job' = [job EXCEPT ![b] = "Running"]
    /\ UNCHANGED <<run, branch, diff, source, seen, asked, got>>

\* After copy_run_data, which writes to the target only.
InsertBranch(b) ==
    /\ Goto(b, "insert_branch", "replay")
    /\ RunsExist(b)
    /\ branch' = [branch EXCEPT ![b] = "Running"]
    /\ UNCHANGED <<run, job, diff, source, seen, asked, got>>

\* replay_spans has ended: get_run and derive_run_status.
ReplayEnds(b) ==
    /\ Goto(b, "replay", "update_run")
    /\ \E s \in Final : seen' = [seen EXCEPT ![b] = s]
    /\ UNCHANGED <<rowVars, source, asked, got>>

UpdateRun(b) ==
    /\ Goto(b, "update_run", "update_branch")
    /\ run' = [run EXCEPT ![b] = seen[b]]
    /\ UNCHANGED <<job, branch, diff, source, seen, asked, got>>

\* Faulty variant: the record read back is written back as it was.
UpdateBranchUnchanged(b) ==
    /\ Goto(b, "update_branch", "update_job")
    /\ RunsExist(b)
    /\ UNCHANGED <<rowVars, source, seen, asked, got>>

\* get_branch and insert_branch, which checks its runs again.
UpdateBranch(b) ==
    /\ Goto(b, "update_branch", "update_job")
    /\ RunsExist(b)
    /\ branch' = [branch EXCEPT ![b] = seen[b]]
    /\ UNCHANGED <<run, job, diff, source, seen, asked, got>>

UpdateJob(b) ==
    /\ Goto(b, "update_job", "diff")
    /\ RunsExist(b)
    /\ job' = [job EXCEPT ![b] = JobOf(seen[b])]
    /\ UNCHANGED <<run, branch, diff, source, seen, asked, got>>

\* A storage call, the sandbox or an executor fails, or a row it needs is gone:
\* execute_fork returns, and create_branch with it.
ForkFails(b) ==
    /\ pc[b] \in Working
    /\ pc' = [pc EXCEPT ![b] = "gone"]
    /\ UNCHANGED <<rowVars, source, seen, asked, got>>

----------------------------------------------------------------------------
(* create_branch: diff and cleanup                                         *)

DiffRead(b) ==
    /\ Goto(b, "diff", "diff_check")
    /\ RunsExist(b)
    /\ seen' = [seen EXCEPT ![b] = run[b]]
    /\ UNCHANGED <<rowVars, source, asked, got>>

\* insert_diff looks for the runs and then inserts, without a transaction.
DiffCheck(b) ==
    /\ Goto(b, "diff_check", "diff_insert")
    /\ RunsExist(b)
    /\ UNCHANGED <<rowVars, source, seen, asked, got>>

DiffInsert(b) ==
    /\ Goto(b, "diff_insert", "answered")
    /\ diff' = [diff EXCEPT ![b] = seen[b]]
    /\ UNCHANGED <<run, job, branch, source, seen, asked, got>>

DiffFails(b) ==
    /\ pc[b] \in Diffing
    /\ pc' = [pc EXCEPT ![b] = "cleanup"]
    /\ UNCHANGED <<rowVars, source, seen, asked, got>>

\* Faulty variant: what was forked from the run goes with it.
CleanupCascades(b) ==
    LET gone    == {b} \cup {x \in Branches : source[x] = b}
        drop(f) == [x \in Branches |-> IF x \in gone THEN "absent" ELSE f[x]]
    IN  /\ Goto(b, "cleanup", "gone")
        /\ run' = drop(run)
        /\ job' = drop(job)
        /\ branch' = drop(branch)
        /\ diff' = drop(diff)
        /\ UNCHANGED <<source, seen, asked, got>>

\* cleanup_branch_execution, phase 1: one transaction.
Cleanup(b) ==
    /\ Goto(b, "cleanup", "gone")
    /\ run' = [run EXCEPT ![b] = "absent"]
    /\ job' = [job EXCEPT ![b] = "absent"]
    /\ branch' = [branch EXCEPT ![b] = "absent"]
    /\ diff' = [x \in Branches |->
                   IF x = b \/ source[x] = b THEN "absent" ELSE diff[x]]
    /\ UNCHANGED <<source, seen, asked, got>>

CleanupFails(b) ==
    /\ Goto(b, "cleanup", "gone")
    /\ UNCHANGED <<rowVars, source, seen, asked, got>>

----------------------------------------------------------------------------
(* compute_diff, by a client, of a branch in any state                     *)

ClientRead(c) ==
    /\ asked[c] = None
    /\ \E b \in Branches :
          /\ RunsExist(b)
          /\ asked' = [asked EXCEPT ![c] = b]
          /\ got' = [got EXCEPT ![c] = run[b]]
    /\ UNCHANGED <<rowVars, source, pc, seen>>

ClientEnds(c) ==
    /\ asked' = [asked EXCEPT ![c] = None]
    /\ got' = [got EXCEPT ![c] = "absent"]

ClientInsert(c) ==
    /\ asked[c] # None
    /\ diff' = [diff EXCEPT ![asked[c]] = got[c]]
    /\ ClientEnds(c)
    /\ UNCHANGED <<run, job, branch, source, pc, seen>>

ClientFails(c) ==
    /\ asked[c] # None
    /\ ClientEnds(c)
    /\ UNCHANGED <<rowVars, source, pc, seen>>

----------------------------------------------------------------------------
(* Crash and recovery                                                      *)

\* The API process dies, and with it what it was doing.
ApiCrash ==
    /\ pc' = [b \in Branches |->
                 IF pc[b] \in {"idle", "answered"} THEN pc[b] ELSE "gone"]
    /\ asked' = [c \in Clients |-> None]
    /\ got' = [c \in Clients |-> "absent"]
    /\ UNCHANGED <<rowVars, source, seen>>

\* recover_interrupted_runs, when a collector starts on this data root.
Recover ==
    /\ run' = [b \in Branches |->
                  IF run[b] = "Running" THEN "Interrupted" ELSE run[b]]
    /\ UNCHANGED <<job, branch, diff, source, pc, seen, asked, got>>

----------------------------------------------------------------------------
Create(b) ==
    \/ Fork(b) \/ InsertRun(b) \/ InsertJob(b) \/ InsertBranch(b) \/ ReplayEnds(b)
    \/ UpdateRun(b) \/ UpdateBranch(b) \/ UpdateJob(b) \/ ForkFails(b)
    \/ DiffRead(b) \/ DiffCheck(b) \/ DiffInsert(b) \/ DiffFails(b)
    \/ Cleanup(b) \/ CleanupFails(b)

Diff(c) == ClientRead(c) \/ ClientInsert(c) \/ ClientFails(c)

Next ==
    \/ \E b \in Branches : Create(b)
    \/ \E c \in Clients : Diff(c)
    \/ ApiCrash \/ Recover

Spec == Init /\ [][Next]_vars

----------------------------------------------------------------------------
(* Properties                                                              *)

\* A replay job that has ended can be believed: the branch record and the run
\* have ended too, with the status the job says, whatever crashed, recovered or
\* was cleaned up in between.
EndedJobIsTrue ==
    \A b \in Branches : job[b] \notin {"absent", "Running"} =>
        /\ run[b] \in Final
        /\ branch[b] = run[b]
        /\ job[b] = JobOf(run[b])

\* A branch record never outlives its run or its job: cleanup removes the three
\* together, and nothing brings one back.
RowsComeTogether ==
    \A b \in Branches :
        /\ branch[b] # "absent" => job[b] # "absent"
        /\ job[b] # "absent" => run[b] # "absent"

\* A branch that create_branch has answered for keeps its outcome for good: no
\* other fork, cleanup, diff, crash or recovery scan changes its run.
AnsweredStays ==
    [][\A b \in Branches : pc[b] = "answered" =>
          run[b] \in Final /\ run'[b] = run[b] /\ job'[b] = job[b]]_vars

\* "Branch completion does not produce half-finalized target runs"
\* (architecture 31.2): the three rows are closed in three transactions.
BranchCompletesAtOnce ==
    \A b \in Branches : pc[b] = "gone" /\ run[b] \in Final => branch[b] = run[b]

\* A branch has its "diff cache once complete" (replay-semantics, Branch
\* persistence): the cached diff of an answered branch is of its final run.
CachedDiffIsFinal ==
    \A b \in Branches : pc[b] = "answered" /\ diff[b] # "absent" => diff[b] = run[b]

\* cleanup_branch_execution removes "any diffs where the target run is either
\* side", all or nothing: no diff is left of a run that is gone.
DiffsHaveTheirRuns ==
    \A b \in Branches : diff[b] # "absent" => run[b] # "absent"

\* The recovery scan is for "runs left in running" (architecture 13.9): a run
\* whose replay is in progress is not interrupted.
LiveReplayNotInterrupted ==
    \A b \in Branches : pc[b] \in Working => run[b] # "Interrupted"
=============================================================================
