----------------------- MODULE BranchLifecycleProofs -----------------------
(***************************************************************************)
(* For any number of branches and clients: a replay job that has ended     *)
(* tells the truth, rows come together and answered branches stay.         *)
(*                                                                         *)
(* The invariant says, for each position of create_branch, which rows      *)
(* exist and which are closed.  Only the task of a branch writes its       *)
(* branch and job rows; its run row is also written by the recovery scan,  *)
(* which is why "running" is a set of two.                                 *)
(***************************************************************************)
EXTENDS BranchLifecycle, TLAPS

Open == {"Running", "Interrupted"}

NoRows(b)     == run[b] = "absent" /\ job[b] = "absent" /\ branch[b] = "absent"
ClosedRows(b) == run[b] \in Final /\ branch[b] = run[b] /\ job[b] = JobOf(run[b])

\* What is in the database when the task of b is at its position.
RowsAt(b) ==
    /\ pc[b] \in {"idle", "insert_run"} => NoRows(b)
    /\ pc[b] = "insert_job" =>
          run[b] \in Open /\ job[b] = "absent" /\ branch[b] = "absent"
    /\ pc[b] = "insert_branch" =>
          run[b] \in Open /\ job[b] = "Running" /\ branch[b] = "absent"
    /\ pc[b] \in {"replay", "update_run"} =>
          run[b] \in Open /\ job[b] = "Running" /\ branch[b] = "Running"
    /\ pc[b] = "update_run" => seen[b] \in Final
    /\ pc[b] = "update_branch" =>
          /\ run[b] \in Final /\ seen[b] = run[b]
          /\ job[b] = "Running" /\ branch[b] = "Running"
    /\ pc[b] = "update_job" =>
          /\ run[b] \in Final /\ seen[b] = run[b]
          /\ job[b] = "Running" /\ branch[b] = run[b]
    /\ pc[b] \in Diffing \cup {"cleanup", "answered"} => ClosedRows(b)
    /\ job[b] \notin {"absent", "Running"} => ClosedRows(b)
    /\ branch[b] # "absent" => job[b] # "absent"
    /\ job[b] # "absent" => run[b] # "absent"

Inv == TypeOK /\ \A b \in Branches : RowsAt(b)

-----------------------------------------------------------------------------
LEMMA JobOfType == \A s \in Final : JobOf(s) \in {"Completed", "Failed", "Blocked"}
  BY DEF JobOf, Final

LEMMA InitInv == Init => Inv
  BY DEF Init, Inv, TypeOK, RowsAt, NoRows, ClosedRows, RunStatus, Final,
         Positions, Working, Diffing

\* A step of one branch's task touches no row of another branch.
LEMMA CreateInv == Inv /\ (\E b \in Branches : Create(b)) => Inv'
<1> SUFFICES ASSUME Inv, NEW a \in Branches, Create(a) PROVE Inv'
  OBVIOUS
<1> USE JobOfType DEF Inv, TypeOK, RunStatus, Positions, Working, Diffing, Goto
<1>1. CASE Fork(a)
  BY <1>1, BranchAssumption DEF Fork, rowVars, RowsAt, NoRows, ClosedRows
<1>2. CASE InsertRun(a)
  BY <1>2 DEF InsertRun, RowsAt, NoRows, ClosedRows, Open, Final
<1>3. CASE InsertJob(a)
  BY <1>3 DEF InsertJob, RowsAt, NoRows, ClosedRows, Open, Final
<1>4. CASE InsertBranch(a)
  BY <1>4 DEF InsertBranch, RowsAt, NoRows, ClosedRows, Open, Final
<1>5. CASE ReplayEnds(a)
  BY <1>5 DEF ReplayEnds, rowVars, RowsAt, NoRows, ClosedRows
<1>6. CASE UpdateRun(a)
  BY <1>6 DEF UpdateRun, RowsAt, NoRows, ClosedRows, Open, Final
<1>7. CASE UpdateBranch(a)
  BY <1>7 DEF UpdateBranch, RowsAt, NoRows, ClosedRows, Open, Final
<1>8. CASE UpdateJob(a)
  BY <1>8 DEF UpdateJob, RowsAt, NoRows, ClosedRows, Open, Final
<1>9. CASE ForkFails(a)
  BY <1>9 DEF ForkFails, rowVars, RowsAt, NoRows, ClosedRows
<1>10. CASE DiffRead(a)
  BY <1>10 DEF DiffRead, rowVars, RowsAt, NoRows, ClosedRows
<1>11. CASE DiffCheck(a)
  BY <1>11 DEF DiffCheck, rowVars, RowsAt, NoRows, ClosedRows
<1>12. CASE DiffInsert(a)
  BY <1>12 DEF DiffInsert, RowsAt, NoRows, ClosedRows
<1>13. CASE DiffFails(a)
  BY <1>13 DEF DiffFails, rowVars, RowsAt, NoRows, ClosedRows
<1>14. CASE Cleanup(a)
  BY <1>14 DEF Cleanup, RowsAt, NoRows, ClosedRows, Final
<1>15. CASE CleanupFails(a)
  BY <1>15 DEF CleanupFails, rowVars, RowsAt, NoRows, ClosedRows
<1> QED
  BY <1>1, <1>2, <1>3, <1>4, <1>5, <1>6, <1>7, <1>8, <1>9, <1>10, <1>11,
     <1>12, <1>13, <1>14, <1>15 DEF Create

\* Clients write diffs and nothing else.
LEMMA DiffInv == Inv /\ (\E c \in Clients : Diff(c)) => Inv'
<1> SUFFICES ASSUME Inv, NEW c \in Clients, Diff(c) PROVE Inv'
  OBVIOUS
<1>1. UNCHANGED <<run, job, branch, source, pc, seen>>
  BY DEF Diff, ClientRead, ClientInsert, ClientFails, rowVars
<1>2. diff' \in [Branches -> RunStatus]
  BY DEF Diff, ClientRead, ClientInsert, ClientFails, rowVars, Inv, TypeOK
<1>3. /\ asked' \in [Clients -> Branches \cup {None}]
      /\ got' \in [Clients -> RunStatus]
  BY DEF Diff, ClientRead, ClientInsert, ClientFails, ClientEnds, Inv, TypeOK, RunStatus
<1> QED
  BY <1>1, <1>2, <1>3 DEF Inv, TypeOK, RowsAt, NoRows, ClosedRows

LEMMA FaultInv == Inv /\ (ApiCrash \/ Recover) => Inv'
<1>1. Inv /\ ApiCrash => Inv'
  BY DEF ApiCrash, rowVars, Inv, TypeOK, RowsAt, NoRows, ClosedRows, RunStatus,
         Positions, Working, Diffing
<1>2. Inv /\ Recover => Inv'
  BY DEF Recover, Inv, TypeOK, RowsAt, NoRows, ClosedRows, RunStatus, Open, Final,
         Positions, Working, Diffing
<1> QED
  BY <1>1, <1>2

LEMMA StutterInv == Inv /\ UNCHANGED vars => Inv'
  BY DEF vars, Inv, TypeOK, RowsAt, NoRows, ClosedRows

THEOREM InvHolds == Spec => []Inv
<1>1. Inv /\ [Next]_vars => Inv'
  BY CreateInv, DiffInv, FaultInv, StutterInv DEF Next
<1> QED
  BY InitInv, <1>1, PTL DEF Spec

-----------------------------------------------------------------------------
\* Every row and every local keeps its type.
THEOREM TypeCorrect == Spec => []TypeOK
  BY InvHolds, PTL DEF Inv

\* A replay job that has ended agrees with its run and its branch record.
THEOREM EndedJobsAreTrue == Spec => []EndedJobIsTrue
<1>1. Inv => EndedJobIsTrue
  BY DEF Inv, RowsAt, ClosedRows, EndedJobIsTrue
<1> QED
  BY <1>1, InvHolds, PTL

\* A branch record has its job, and a job has its run.
THEOREM RowsTogether == Spec => []RowsComeTogether
<1>1. Inv => RowsComeTogether
  BY DEF Inv, RowsAt, RowsComeTogether
<1> QED
  BY <1>1, InvHolds, PTL

\* What create_branch has answered for is never changed again.
THEOREM AnsweredForGood == Spec => AnsweredStays
<1> DEFINE Stays == \A b \in Branches : pc[b] = "answered" =>
                       run[b] \in Final /\ run'[b] = run[b] /\ job'[b] = job[b]
<1>1. Inv /\ [Next]_vars => Stays
  <2> SUFFICES ASSUME Inv, [Next]_vars, NEW b \in Branches, pc[b] = "answered"
               PROVE  run[b] \in Final /\ run'[b] = run[b] /\ job'[b] = job[b]
    OBVIOUS
  <2> USE DEF Inv, TypeOK
  <2>1. run[b] \in Final
    BY DEF RowsAt, ClosedRows, Diffing
  <2>2. ASSUME NEW a \in Branches, Create(a)
        PROVE  run'[b] = run[b] /\ job'[b] = job[b]
    BY <2>2 DEF Create, Fork, InsertRun, InsertJob, InsertBranch, ReplayEnds, UpdateRun,
       UpdateBranch, UpdateJob, ForkFails, DiffRead, DiffCheck, DiffInsert, DiffFails,
       Cleanup, CleanupFails, Goto, rowVars
  <2>3. ASSUME NEW c \in Clients, Diff(c)
        PROVE  run'[b] = run[b] /\ job'[b] = job[b]
    BY <2>3 DEF Diff, ClientRead, ClientInsert, ClientFails, rowVars
  <2>4. ApiCrash \/ Recover => run'[b] = run[b] /\ job'[b] = job[b]
    BY <2>1 DEF ApiCrash, Recover, rowVars, Final
  <2>5. UNCHANGED vars => run'[b] = run[b] /\ job'[b] = job[b]
    BY DEF vars
  <2> QED
    BY <2>1, <2>2, <2>3, <2>4, <2>5 DEF Next
<1>2. Inv /\ [Next]_vars => [Stays]_vars
  BY <1>1
<1> QED
  BY <1>2, InvHolds, PTL DEF Spec, AnsweredStays
=============================================================================
