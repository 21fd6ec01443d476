------------------------- MODULE BlobStorageProofs -------------------------
(***************************************************************************)
(* Proofs about BlobStorage for any sets of runs, contents and tasks.      *)
(***************************************************************************)
EXTENDS BlobStorage, TLAPS

----------------------------------------------------------------------------
(* The inductive invariant                                                 *)

\* A task inside an IMMEDIATE transaction is the one that holds the
\* reservation, and nobody else does.
Exclusive == \A t \in Tasks : pc[t] \in Holding <=> reserved = t

\* What a task has put in its locals when it needs them.
Locals == \A t \in Tasks :
    /\ pc[t] \in {"publish", "record", "insert", "remove"} => sha[t] \in Shas
    /\ pc[t] # "idle" => run[t] \in Runs

\* The file of a store is there until the store has inserted its row.
Published == \A t \in Tasks : pc[t] = "record" => sha[t] \in blobs

\* What a cleanup found unreferenced stays so until it has removed the file.
Unreferenced == \A t \in Tasks : pc[t] = "remove" => ~Referenced(sha[t])

\* A copying transaction whose snapshot is current can trust what it read.
TargetExists == \A t \in Tasks :
    pc[t] = "insert" /\ t \notin stale => run[t] \in runs

IInv ==
    /\ TypeOK
    /\ Exclusive
    /\ Locals
    /\ Published
    /\ Unreferenced
    /\ TargetExists
    /\ StoredRowsReadable
    /\ NoOrphanRows

----------------------------------------------------------------------------
\* The initial state satisfies it: nothing exists and no call is in flight.
LEMMA InitInv == Init => IInv
BY NoneAssumption DEF Init, IInv, TypeOK, Positions, Holding, Origins, Exclusive, Locals,
   Published, Unreferenced, TargetExists, StoredRowsReadable, Scan, NoOrphanRows

\* Every step preserves it.
LEMMA StepInv == IInv /\ [Next]_vars => IInv'
<1> SUFFICES ASSUME IInv, [Next]_vars PROVE IInv'
  OBVIOUS
<1> USE NoneAssumption DEF IInv, TypeOK, Positions, Holding, Origins, Locals, Referenced, ShasOf,
        Verify, Readable, Listable, Scan, dbVars, taskVars, Goto, Return, Reserve, Release, WriteTurn, Commit
<1>1. ASSUME NEW r \in Runs, BeginRun(r)
      PROVE  IInv'
  BY <1>1 DEF BeginRun, Exclusive, Published, Unreferenced, TargetExists,
      StoredRowsReadable, NoOrphanRows
<1>2. ASSUME OtherWrite
      PROVE  IInv'
  BY <1>2 DEF OtherWrite, Exclusive, Published, Unreferenced, TargetExists,
      StoredRowsReadable, NoOrphanRows
<1>3. ASSUME NEW t \in Tasks, NEW r \in Runs, NEW s \in Shas, StoreBegin(t, r, s)
      PROVE  IInv'
  BY <1>3 DEF StoreBegin, Exclusive, Published, Unreferenced, TargetExists,
      StoredRowsReadable, NoOrphanRows
<1>4. ASSUME NEW t \in Tasks, StorePublish(t)
      PROVE  IInv'
  BY <1>4 DEF StorePublish, Exclusive, Published, Unreferenced, TargetExists,
      StoredRowsReadable, NoOrphanRows
\* The row it adds names a file that Published says is there; no cleanup is
\* between its check and its removal, for the reservation is t's.
<1>5. ASSUME NEW t \in Tasks, StoreRecord(t)
      PROVE  IInv'
  <2>1. TypeOK' /\ Exclusive' /\ Locals' /\ Published'
    BY <1>5 DEF StoreRecord, Exclusive, Published
  <2>2. Unreferenced'
    BY <1>5 DEF StoreRecord, Unreferenced, Exclusive
  <2>3. TargetExists'
    BY <1>5 DEF StoreRecord, TargetExists
  <2>4. StoredRowsReadable' /\ NoOrphanRows'
    BY <1>5 DEF StoreRecord, StoredRowsReadable, Published, NoOrphanRows
  <2> QED BY <2>1, <2>2, <2>3, <2>4
<1>6. ASSUME NEW t \in Tasks, StoreFail(t)
      PROVE  IInv'
  BY <1>6 DEF StoreFail, Exclusive, Published, Unreferenced, TargetExists,
      StoredRowsReadable, NoOrphanRows
<1>7. ASSUME NEW t \in Tasks, NEW source \in Runs, NEW target \in Runs,
             ForkBegin(t, source, target)
      PROVE  IInv'
  BY <1>7 DEF ForkBegin, Exclusive, Published, Unreferenced, TargetExists,
      StoredRowsReadable, NoOrphanRows
<1>8. ASSUME NEW t \in Tasks, ForkInsertRun(t)
      PROVE  IInv'
  BY <1>8 DEF ForkInsertRun, Exclusive, Published, Unreferenced, TargetExists,
      StoredRowsReadable, NoOrphanRows
<1>9. ASSUME NEW t \in Tasks, NEW s \in Shas, CopyValidate(t, s)
      PROVE  IInv'
  BY <1>9 DEF CopyValidate, Exclusive, Published, Unreferenced, TargetExists,
      StoredRowsReadable, NoOrphanRows
\* No cleanup holds the reservation, and the snapshot is current, so the
\* target still exists.
<1>10. ASSUME NEW t \in Tasks, CopyInsert(t)
      PROVE  IInv'
  <2>1. TypeOK' /\ Exclusive' /\ Locals' /\ Published' /\ TargetExists'
    BY <1>10 DEF CopyInsert, Exclusive, Published, TargetExists
  <2>2. Unreferenced'
    BY <1>10 DEF CopyInsert, Unreferenced, Exclusive
  <2>3. StoredRowsReadable' /\ NoOrphanRows'
    BY <1>10 DEF CopyInsert, StoredRowsReadable, NoOrphanRows, TargetExists
  <2> QED BY <2>1, <2>2, <2>3
<1>11. ASSUME NEW t \in Tasks, CopyFail(t)
      PROVE  IInv'
  BY <1>11 DEF CopyFail, Exclusive, Published, Unreferenced, TargetExists,
      StoredRowsReadable, NoOrphanRows
<1>12. ASSUME NEW t \in Tasks, CopyDone(t)
      PROVE  IInv'
  BY <1>12 DEF CopyDone, Exclusive, Published, Unreferenced, TargetExists,
      StoredRowsReadable, NoOrphanRows
<1>13. ASSUME NEW t \in Tasks, ForkFails(t)
      PROVE  IInv'
  BY <1>13 DEF ForkFails, Exclusive, Published, Unreferenced, TargetExists,
      StoredRowsReadable, NoOrphanRows
<1>14. ASSUME NEW t \in Tasks, DiffSucceeds(t)
      PROVE  IInv'
  BY <1>14 DEF DiffSucceeds, Exclusive, Published, Unreferenced, TargetExists,
      StoredRowsReadable, NoOrphanRows
<1>15. ASSUME NEW t \in Tasks, DiffFails(t)
      PROVE  IInv'
  BY <1>15 DEF DiffFails, Exclusive, Published, Unreferenced, TargetExists,
      StoredRowsReadable, NoOrphanRows
\* The run goes together with all of its rows, and the commit outdates the
\* snapshot of every copy into it.
<1>16. ASSUME NEW t \in Tasks, CleanupMetadata(t)
      PROVE  IInv'
  <2>1. TypeOK' /\ Exclusive' /\ Locals' /\ Published'
    BY <1>16 DEF CleanupMetadata, Exclusive, Published
  <2>2. Unreferenced' /\ TargetExists'
    BY <1>16 DEF CleanupMetadata, Unreferenced, TargetExists
  <2>3. StoredRowsReadable' /\ NoOrphanRows'
    BY <1>16 DEF CleanupMetadata, StoredRowsReadable, NoOrphanRows
  <2> QED BY <2>1, <2>2, <2>3
<1>17. ASSUME NEW t \in Tasks, CleanupReserve(t)
      PROVE  IInv'
  BY <1>17 DEF CleanupReserve, Exclusive, Published, Unreferenced,
      TargetExists, StoredRowsReadable, NoOrphanRows
<1>18. ASSUME NEW t \in Tasks, NEW s \in Shas, CleanupCheck(t, s)
      PROVE  IInv'
  BY <1>18 DEF CleanupCheck, Exclusive, Published, Unreferenced, TargetExists,
      StoredRowsReadable, NoOrphanRows
\* No row names the file, and no other task is between publishing that
\* file and recording it, for it would hold the reservation.
<1>19. ASSUME NEW t \in Tasks, CleanupRemove(t)
      PROVE  IInv'
  <2>1. TypeOK' /\ Exclusive' /\ Locals' /\ TargetExists'
    BY <1>19 DEF CleanupRemove, Exclusive, TargetExists
  <2>2. Published'
    BY <1>19 DEF CleanupRemove, Published, Exclusive
  <2>3. Unreferenced'
    BY <1>19 DEF CleanupRemove, Unreferenced, Exclusive
  <2>4. StoredRowsReadable' /\ NoOrphanRows'
    BY <1>19 DEF CleanupRemove, StoredRowsReadable, Unreferenced, NoOrphanRows
  <2> QED BY <2>1, <2>2, <2>3, <2>4
<1>20. ASSUME NEW t \in Tasks, CleanupDone(t)
      PROVE  IInv'
  BY <1>20 DEF CleanupDone, Exclusive, Published, Unreferenced, TargetExists,
      StoredRowsReadable, NoOrphanRows
<1>21. ASSUME NEW t \in Tasks, BusyTimeout(t)
      PROVE  IInv'
  BY <1>21 DEF BusyTimeout, Exclusive, Published, Unreferenced, TargetExists,
      StoredRowsReadable, NoOrphanRows
<1>22. ASSUME NEW t \in Tasks, ReportFailure(t)
      PROVE  IInv'
  BY <1>22 DEF ReportFailure, Exclusive, Published, Unreferenced,
      TargetExists, StoredRowsReadable, NoOrphanRows
<1>23. ASSUME NEW t \in Tasks, Crash(t)
      PROVE  IInv'
  BY <1>23 DEF Crash, Exclusive, Published, Unreferenced, TargetExists,
      StoredRowsReadable, NoOrphanRows
<1>24. CASE UNCHANGED vars
  BY <1>24 DEF vars, Exclusive, Published, Unreferenced, TargetExists,
      StoredRowsReadable, NoOrphanRows
<1> QED
  BY <1>1, <1>2, <1>3, <1>4, <1>5, <1>6, <1>7, <1>8, <1>9, <1>10, <1>11,
     <1>12, <1>13, <1>14, <1>15, <1>16, <1>17, <1>18, <1>19, <1>20, <1>21,
     <1>22, <1>23, <1>24 DEF Next, Call,
     Step

\* Hence it always holds.
LEMMA Invariance == Spec => []IInv
<1>1. Init => IInv
  BY InitInv
<1>2. IInv /\ [Next]_vars => IInv'
  BY StepInv
<1> QED BY <1>1, <1>2, PTL DEF Spec

----------------------------------------------------------------------------
(* The theorems                                                            *)

\* Every variable keeps its type.
THEOREM TypeCorrect == Spec => []TypeOK
<1>1. IInv => TypeOK
  BY DEF IInv
<1> QED BY <1>1, Invariance, PTL

\* An artifact stored with its content is readable while its row exists.
THEOREM StoredRowsStayReadable == Spec => []StoredRowsReadable
<1>1. IInv => StoredRowsReadable
  BY DEF IInv
<1> QED BY <1>1, Invariance, PTL

\* No artifact row outlives its run.
THEOREM RowsHaveTheirRun == Spec => []NoOrphanRows
<1>1. IInv => NoOrphanRows
  BY DEF IInv
<1> QED BY <1>1, Invariance, PTL

\* Only blobs that no row names are ever removed.  CleanupRemove is the one
\* step that removes a blob, and it keeps the rows its check has seen.
THEOREM RemovalIsSafe == Spec => RemovedOnlyUnreferenced
<1> DEFINE Safe == \A s \in blobs : s \notin blobs' => ~Referenced(s)
<1>1. IInv /\ [Next]_vars => [Safe]_vars
  <2> SUFFICES ASSUME IInv, Next PROVE Safe
    OBVIOUS
  <2>1. ASSUME NEW t \in Tasks, CleanupRemove(t) PROVE Safe
    BY <2>1 DEF CleanupRemove, IInv, Unreferenced
  <2>2. ASSUME NEW t \in Tasks, StorePublish(t) PROVE Safe
    BY <2>2 DEF StorePublish
  <2>3. CASE UNCHANGED blobs
    BY <2>3
  <2> QED
    BY <2>1, <2>2, <2>3 DEF Next, Call, Step, BeginRun, OtherWrite,
       StoreBegin, StoreRecord, StoreFail, ForkBegin, ForkInsertRun,
       CopyValidate, CopyInsert, CopyFail, CopyDone, ForkFails, DiffSucceeds, DiffFails,
       CleanupMetadata, CleanupReserve, CleanupCheck, CleanupDone,
       BusyTimeout, ReportFailure, Crash
<1> QED BY <1>1, Invariance, PTL DEF Spec, RemovedOnlyUnreferenced

----------------------------------------------------------------------------
(* The refinement                                                          *)

StoredRows == {row \in rows : row[3] = "stored"}

\* Since stored rows are readable, what the abstract store sees depends on the
\* rows alone.
LEMMA StoredByRows ==
    IInv => Stored = {<<row[1], row[2]>> : row \in StoredRows}
BY DEF IInv, Stored, StoredRows, StoredRowsReadable, Scan, Verify

\* Every step is a step of ArtifactStore or changes nothing it sees.
LEMMA StepImplements ==
    IInv /\ IInv' /\ [Next]_vars => [Promise!Next]_<<runs, Stored>>
<1> SUFFICES ASSUME IInv, IInv', [Next]_vars
             PROVE  [Promise!Next]_<<runs, Stored>>
  OBVIOUS
<1> DEFINE Pairs == {<<row[1], row[2]>> : row \in StoredRows}
<1>a. Stored = Pairs /\ Stored' = Pairs'
  BY StoredByRows DEF StoredRows, IInv, Stored, StoredRowsReadable, Scan, Verify
<1>b. rows' = rows => Stored' = Stored
  BY <1>a DEF StoredRows
<1>c. ASSUME NEW r \in Runs, runs' = runs \cup {r}, rows' = rows
      PROVE  [Promise!Next]_<<runs, Stored>>
  BY <1>b, <1>c DEF Promise!Next, Promise!InsertRun
<1>1. ASSUME NEW r \in Runs, BeginRun(r)
      PROVE  [Promise!Next]_<<runs, Stored>>
  BY <1>c, <1>1 DEF BeginRun
<1>2. ASSUME NEW t \in Tasks, ForkInsertRun(t)
      PROVE  [Promise!Next]_<<runs, Stored>>
  BY <1>c, <1>2 DEF ForkInsertRun, IInv, Locals, dbVars
<1>3. ASSUME NEW t \in Tasks, StoreRecord(t)
      PROVE  [Promise!Next]_<<runs, Stored>>
  <2> DEFINE new == <<run[t], sha[t], "stored">>
  <2>1. run[t] \in runs /\ runs' = runs /\ rows' = rows \cup {new}
    BY <1>3 DEF StoreRecord
  <2>2. run[t] \in Runs /\ sha[t] \in Shas
    BY <1>3 DEF StoreRecord, IInv, Locals
  <2>3. StoredRows' = StoredRows \cup {new}
    BY <2>1 DEF StoredRows
  <2>4. Pairs' = Pairs \cup {<<run[t], sha[t]>>}
    <3>1. ASSUME NEW a
          PROVE  a \in Pairs' <=> a \in Pairs \/ a = <<new[1], new[2]>>
      BY <2>3, Zenon
    <3> QED BY <3>1
  <2> QED
    BY <1>a, <2>1, <2>2, <2>4 DEF Promise!Next, Promise!Store
<1>4. ASSUME NEW t \in Tasks, CopyInsert(t)
      PROVE  [Promise!Next]_<<runs, Stored>>
  <2>1. runs' = runs /\ StoredRows' = StoredRows
    BY <1>4 DEF CopyInsert, StoredRows
  <2> QED BY <1>a, <2>1
<1>5. ASSUME NEW t \in Tasks, CleanupMetadata(t)
      PROVE  [Promise!Next]_<<runs, Stored>>
  <2>1. runs' = runs \ {run[t]} /\ rows' = {row \in rows : row[1] # run[t]}
    BY <1>5 DEF CleanupMetadata
  <2>2. run[t] \in Runs
    BY <1>5 DEF CleanupMetadata, IInv, Locals
  <2>3. CASE run[t] \in runs
    <3>1. StoredRows' = {row \in StoredRows : row[1] # run[t]}
      BY <2>1 DEF StoredRows
    <3>2. Pairs' = {a \in Pairs : a[1] # run[t]}
      BY <3>1
    <3> QED
      BY <1>a, <2>1, <2>2, <2>3, <3>2 DEF Promise!Next, Promise!Cleanup
  <2>4. CASE run[t] \notin runs
    <3>1. rows' = rows
      BY <2>1, <2>4 DEF IInv, NoOrphanRows
    <3> QED BY <1>b, <2>1, <2>4, <3>1
  <2> QED BY <2>3, <2>4
<1>6. CASE UNCHANGED <<runs, rows>>
  BY <1>b, <1>6
<1> QED
  BY <1>1, <1>2, <1>3, <1>4, <1>5, <1>6 DEF Next, Call, Step, vars, dbVars,
     OtherWrite, StoreBegin, StorePublish, StoreFail, ForkBegin, CopyValidate,
     CopyFail, CopyDone, ForkFails, DiffSucceeds, DiffFails, CleanupReserve, CleanupCheck,
     CleanupRemove, CleanupDone, BusyTimeout, ReportFailure, Crash

\* SqliteStorage keeps the promise of the Storage trait for the artifacts
\* stored with their content: it implements ArtifactStore.
THEOREM Implementation == Spec => ImplementsPromise
<1>1. Init => Promise!Init
  BY DEF Init, Promise!Init, Stored
<1>2. IInv /\ IInv' /\ [Next]_vars => [Promise!Next]_<<runs, Stored>>
  BY StepImplements
<1> QED
  BY <1>1, <1>2, Invariance, PTL DEF Spec, ImplementsPromise, Promise!Spec
============================================================================
