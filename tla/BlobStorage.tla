---------------------------- MODULE BlobStorage ----------------------------
(***************************************************************************)
(* Artifact rows and content-addressed blobs of SqliteStorage, as several  *)
(* processes (collector, API server, CLI) use them on one data root.       *)
(*                                                                         *)
(* A row lives in the SQLite database, its content in a file named by the  *)
(* hash.  Nothing makes the two atomic: the code relies on the database's  *)
(* write reservation (BEGIN IMMEDIATE).  The module interleaves            *)
(*   - store_artifact_with_content: reserve, publish the blob, insert row; *)
(*   - insert_artifact, as a fork uses it to copy the rows of its source:  *)
(*     a DEFERRED transaction that reads, looks at the file, then inserts; *)
(*   - create_branch, whose diff may fail, and then                        *)
(*     cleanup_branch_execution: delete the metadata, and in a second      *)
(*     transaction remove the blobs nobody references any more.            *)
(* Any call may be cut short by a crash of its process.                    *)
(***************************************************************************)
CONSTANTS
    Runs,     \* run ids, handed out once each (allocate_id never repeats one)
    Shas,     \* contents, named by their hash
    Tasks,    \* calls in flight: handler threads of any process
    NoTask, NoRun, NoSha

ASSUME NoneAssumption ==
    /\ NoTask \notin Tasks
    /\ NoRun \notin Runs
    /\ NoSha \notin Shas

VARIABLES
    runs,      \* rows of table runs
    used,      \* run ids handed out so far
    rows,      \* rows of table artifacts: <<run, sha, how it was inserted>>
    blobs,     \* files under blobs/sha256
    reserved,  \* the task that holds SQLite's write reservation
    stale,     \* tasks whose read snapshot a later commit has outdated
    forking,   \* tasks inside create_branch
    pc, run, sha, work   \* each task's position and locals

dbVars   == <<runs, used, rows>>
taskVars == <<forking, pc, run, sha, work>>
vars     == <<runs, used, rows, blobs, reserved, stale,
              forking, pc, run, sha, work>>

\* "stored": inserted by store_artifact_with_content; "copied": by the
\* insert_artifact of copy_run_data.  The code keeps no such mark.
Origins == {"stored", "copied"}

\* Positions inside a transaction that holds the reservation.
Holding == {"publish", "record", "check", "remove"}

Positions == Holding \cup
    {"idle",       \* no call
     "listed",     \* execute_fork, before insert_run of the target
     "copying",    \* execute_fork, rows of the source left to copy
     "insert",     \* insert_artifact: read and validated, not yet inserted
     "replaying",  \* execute_fork, re-executing spans
     "cleanup",    \* create_branch: diff_runs failed
     "blobs",      \* cleanup_branch_execution between its transactions
     "failed"}     \* cleanup_branch_execution returned an error

TypeOK ==
    /\ runs \subseteq Runs
    /\ used \subseteq Runs
    /\ rows \subseteq Runs \X Shas \X Origins
    /\ blobs \subseteq Shas
    /\ reserved \in Tasks \cup {NoTask}
    /\ stale \subseteq Tasks
    /\ forking \subseteq Tasks
    /\ pc \in [Tasks -> Positions]
    /\ run \in [Tasks -> Runs \cup {NoRun}]
    /\ sha \in [Tasks -> Shas \cup {NoSha}]
    /\ work \in [Tasks -> SUBSET Shas]

Init ==
    /\ runs = {} /\ used = {} /\ rows = {} /\ blobs = {}
    /\ reserved = NoTask
    /\ stale = {}
    /\ forking = {}
    /\ pc = [t \in Tasks |-> "idle"]
    /\ run = [t \in Tasks |-> NoRun]
    /\ sha = [t \in Tasks |-> NoSha]
    /\ work = [t \in Tasks |-> {}]

----------------------------------------------------------------------------
(* SQLite                                                                  *)

Referenced(s) == \E row \in rows : row[2] = s

ShasOf(r) == {s \in Shas : \E how \in Origins : <<r, s, how>> \in rows}

\* LocalBlobStore::verify.  A file is renamed into place whole and named by its
\* hash, so it has the right size and hash if it is there.
Verify(s) == IF s \in blobs THEN "Valid" ELSE "Missing"

\* What read_artifact_content may be asked for without an error.
Readable(r) == {s \in ShasOf(r) : Verify(s) = "Valid"}

\* list_artifacts fails when one of the files is missing.
Listable(r) == Readable(r) = ShasOf(r)

\* scan_artifact_integrity: the rows it reports.
Scan == {row \in rows : Verify(row[2]) # "Valid"}

Reserve(t) == reserved = NoTask /\ reserved' = t
Release(t) == reserved = t /\ reserved' = NoTask

\* A write transaction with no step of its own: it waits for the reservation
\* and gives it back at once.
WriteTurn == reserved = NoTask /\ UNCHANGED reserved

\* A commit that changed the database outdates every other open snapshot; the
\* transaction that read it gets SQLITE_BUSY_SNAPSHOT when it tries to write.
Commit(t) == stale' = {u \in Tasks : pc[u] = "insert"} \ {t}

Goto(t, to) == pc' = [pc EXCEPT ![t] = to]

\* The call is over, answered or not, and its locals are gone.
Return(t, to) ==
    /\ Goto(t, to)
    /\ forking' = forking \ {t}
    /\ run' = [run EXCEPT ![t] = NoRun]
    /\ sha' = [sha EXCEPT ![t] = NoSha]
    /\ work' = [work EXCEPT ![t] = {}]

\* insert_run, for a run the collector records.
BeginRun(r) ==
    /\ WriteTurn
    /\ r \notin used
    /\ runs' = runs \cup {r}
    /\ used' = used \cup {r}
    /\ Commit(NoTask)
    /\ UNCHANGED <<rows, blobs, taskVars>>

\* Any other write of metadata (allocate_id, upsert_span, update_run...).  All
\* this module sees of it is that it commits.
OtherWrite ==
    /\ WriteTurn
    /\ Commit(NoTask)
    /\ UNCHANGED <<dbVars, blobs, taskVars>>

----------------------------------------------------------------------------
(* store_artifact_with_content                                             *)

\* BEGIN IMMEDIATE.  The call is an upload to any run that was ever handed
\* out, or a fork storing an output or a workspace snapshot of its target.
StoreBegin(t, r, s) ==
    /\ \/ pc[t] = "idle" /\ r \in used
       \/ pc[t] = "replaying" /\ r = run[t]
    /\ Reserve(t)
    /\ Goto(t, "publish")
    /\ run' = [run EXCEPT ![t] = r]
    /\ sha' = [sha EXCEPT ![t] = s]
    /\ UNCHANGED <<dbVars, blobs, stale, forking, work>>

\* LocalBlobStore::store: nothing to write when the file exists; otherwise a
\* temporary file is renamed into place.
StorePublish(t) ==
    /\ pc[t] = "publish"
    /\ blobs' = blobs \cup {sha[t]}
    /\ Goto(t, "record")
    /\ UNCHANGED <<dbVars, reserved, stale, forking, run, sha, work>>

\* insert_artifact_conn: the run exists, the file is there, INSERT, commit.
StoreRecord(t) ==
    /\ pc[t] = "record"
    /\ run[t] \in runs
    /\ sha[t] \in blobs
    /\ rows' = rows \cup {<<run[t], sha[t], "stored">>}
    /\ Release(t)
    /\ Commit(t)
    /\ IF t \in forking
       THEN /\ Goto(t, "replaying")
            /\ sha' = [sha EXCEPT ![t] = NoSha]
            /\ UNCHANGED <<forking, run, work>>
       ELSE Return(t, "idle")
    /\ UNCHANGED <<runs, used, blobs>>

\* Writing the file fails, or the run is gone: the transaction rolls back, the
\* file stays if it was published, and a fork fails with the call.
StoreFail(t) ==
    /\ \/ pc[t] = "publish"
       \/ pc[t] = "record" /\ (run[t] \notin runs \/ sha[t] \notin blobs)
    /\ Release(t)
    /\ Return(t, "idle")
    /\ UNCHANGED <<dbVars, blobs, stale>>

----------------------------------------------------------------------------
(* execute_fork                                                            *)

\* The artifacts of the source are listed once and an id is taken for the
\* target; the rows found are copied one by one, later.
ForkBegin(t, source, target) ==
    /\ pc[t] = "idle"
    /\ WriteTurn
    /\ source \in runs
    /\ target \notin used
    /\ used' = used \cup {target}
    /\ Listable(source)
    /\ work' = [work EXCEPT ![t] = ShasOf(source)]
    /\ run' = [run EXCEPT ![t] = target]
    /\ forking' = forking \cup {t}
    /\ Commit(t)
    /\ Goto(t, "listed")
    /\ UNCHANGED <<runs, rows, blobs, sha>>

ForkInsertRun(t) ==
    /\ pc[t] = "listed"
    /\ WriteTurn
    /\ runs' = runs \cup {run[t]}
    /\ Commit(t)
    /\ Goto(t, "copying")
    /\ UNCHANGED <<used, rows, blobs, forking, run, sha, work>>

\* insert_artifact opens a DEFERRED transaction: looking the run up takes the
\* read snapshot, validate_artifact_record looks at the file.
CopyValidate(t, s) ==
    /\ pc[t] = "copying"
    /\ s \in work[t]
    /\ run[t] \in runs
    /\ s \in blobs
    /\ Goto(t, "insert")
    /\ sha' = [sha EXCEPT ![t] = s]
    /\ stale' = stale \ {t}
    /\ UNCHANGED <<dbVars, blobs, reserved, forking, run, work>>

\* ... and the INSERT upgrades it: it needs a current snapshot and a free
\* reservation, and does not wait for either.
CopyInsert(t) ==
    /\ pc[t] = "insert"
    /\ t \notin stale
    /\ WriteTurn
    /\ rows' = rows \cup {<<run[t], sha[t], "copied">>}
    /\ Commit(t)
    /\ work' = [work EXCEPT ![t] = @ \ {sha[t]}]
    /\ sha' = [sha EXCEPT ![t] = NoSha]
    /\ Goto(t, "copying")
    /\ UNCHANGED <<runs, used, blobs, forking, run>>

\* Faulty variant: an outdated snapshot is retried for ever.
CopyFailRetries(t) ==
    /\ pc[t] = "copying"
    /\ \E s \in work[t] : run[t] \notin runs \/ s \notin blobs
    /\ Return(t, "idle")
    /\ stale' = stale \ {t}
    /\ UNCHANGED <<dbVars, blobs, reserved>>

\* A missing run or file, an outdated snapshot or a taken reservation ends the
\* fork with an error.  Whatever a failed fork has written stays.
CopyFail(t) ==
    /\ \/ /\ pc[t] = "copying"
          /\ \E s \in work[t] : run[t] \notin runs \/ s \notin blobs
       \/ /\ pc[t] = "insert"
          /\ t \in stale \/ reserved # NoTask
    /\ Return(t, "idle")
    /\ stale' = stale \ {t}
    /\ UNCHANGED <<dbVars, blobs, reserved>>

CopyDone(t) ==
    /\ pc[t] = "copying"
    /\ work[t] = {}
    /\ Goto(t, "replaying")
    /\ UNCHANGED <<dbVars, blobs, reserved, stale, forking, run, sha, work>>

\* Any other error of execute_fork: a lock timeout, an executor, a file.
ForkFails(t) ==
    /\ pc[t] \in {"listed", "copying", "replaying"}
    /\ Return(t, "idle")
    /\ UNCHANGED <<dbVars, blobs, reserved, stale>>

----------------------------------------------------------------------------
(* create_branch after the fork, and cleanup_branch_execution              *)

\* execute_fork lists the artifacts of its target before it returns.
DiffSucceeds(t) ==
    /\ pc[t] = "replaying"
    /\ Listable(run[t])
    /\ Return(t, "idle")
    /\ UNCHANGED <<dbVars, blobs, reserved, stale>>

DiffFails(t) ==
    /\ pc[t] = "replaying"
    /\ Listable(run[t])
    /\ Goto(t, "cleanup")
    /\ UNCHANGED <<dbVars, blobs, reserved, stale, forking, run, sha, work>>

\* Faulty variant: the row of the run itself is left.
CleanupMetadataKeepsRun(t) ==
    /\ pc[t] = "cleanup"
    /\ WriteTurn
    /\ work' = [work EXCEPT ![t] = ShasOf(run[t])]
    /\ rows' = {row \in rows : row[1] # run[t]}
    /\ Commit(t)
    /\ Goto(t, "blobs")
    /\ UNCHANGED <<runs, used, blobs, forking, run, sha>>

\* Phase 1, one IMMEDIATE transaction: remember the hashes of the target's
\* artifacts and delete every row of the target.
CleanupMetadata(t) ==
    /\ pc[t] = "cleanup"
    /\ WriteTurn
    /\ work' = [work EXCEPT ![t] = ShasOf(run[t])]
    /\ rows' = {row \in rows : row[1] # run[t]}
    /\ runs' = runs \ {run[t]}
    /\ Commit(t)
    /\ Goto(t, "blobs")
    /\ UNCHANGED <<used, blobs, forking, run, sha>>

\* Faulty variant: phase 2 takes no reservation.
CleanupReserveUnlocked(t) ==
    /\ pc[t] = "blobs"
    /\ Goto(t, "check")
    /\ UNCHANGED <<dbVars, blobs, reserved, stale, forking, run, sha, work>>

\* Phase 2, a second IMMEDIATE transaction over the remembered hashes.
CleanupReserve(t) ==
    /\ pc[t] = "blobs"
    /\ Reserve(t)
    /\ Goto(t, "check")
    /\ UNCHANGED <<dbVars, blobs, stale, forking, run, sha, work>>

\* Faulty variant: only rows written together with their content count.
CleanupCheckStoredOnly(t, s) ==
    /\ pc[t] = "check"
    /\ s \in work[t]
    /\ IF \E row \in rows : row[2] = s /\ row[3] = "stored"
       THEN /\ work' = [work EXCEPT ![t] = @ \ {s}]
            /\ UNCHANGED <<pc, sha>>
       ELSE /\ sha' = [sha EXCEPT ![t] = s]
            /\ Goto(t, "remove")
            /\ UNCHANGED work
    /\ UNCHANGED <<dbVars, blobs, reserved, stale, forking, run>>

CleanupCheck(t, s) ==
    /\ pc[t] = "check"
    /\ s \in work[t]
    /\ IF Referenced(s)
       THEN /\ work' = [work EXCEPT ![t] = @ \ {s}]
            /\ UNCHANGED <<pc, sha>>
       ELSE /\ sha' = [sha EXCEPT ![t] = s]
            /\ Goto(t, "remove")
            /\ UNCHANGED work
    /\ UNCHANGED <<dbVars, blobs, reserved, stale, forking, run>>

\* Removing a file may fail; that is logged and the loop goes on.
CleanupRemove(t) ==
    /\ pc[t] = "remove"
    /\ blobs' \in {blobs, blobs \ {sha[t]}}
    /\ work' = [work EXCEPT ![t] = @ \ {sha[t]}]
    /\ sha' = [sha EXCEPT ![t] = NoSha]
    /\ Goto(t, "check")
    /\ UNCHANGED <<dbVars, reserved, stale, forking, run>>

\* The transaction wrote nothing, so its commit outdates no snapshot.
CleanupDone(t) ==
    /\ pc[t] = "check"
    /\ work[t] = {}
    /\ Release(t)
    /\ Return(t, "idle")
    /\ UNCHANGED <<dbVars, blobs, stale>>

----------------------------------------------------------------------------
(* Timeouts and crashes                                                    *)

\* BEGIN IMMEDIATE waits at most busy_timeout for the reservation; a cleanup
\* then returns the error, whichever of its transactions it has reached.
BusyTimeout(t) ==
    /\ reserved \notin {NoTask, t}
    /\ pc[t] \in {"cleanup", "blobs"}
    /\ Goto(t, "failed")
    /\ UNCHANGED <<dbVars, blobs, reserved, stale, forking, run, sha, work>>

\* create_branch reports the failed cleanup to its caller.
ReportFailure(t) ==
    /\ pc[t] = "failed"
    /\ Return(t, "idle")
    /\ UNCHANGED <<dbVars, blobs, reserved, stale>>

\* The process dies: its locks are released, its open transaction rolls back,
\* and the files it has renamed or removed stay as they are.
Crash(t) ==
    /\ pc[t] # "idle"
    /\ Return(t, "idle")
    /\ reserved' = IF reserved = t THEN NoTask ELSE reserved
    /\ stale' = stale \ {t}
    /\ UNCHANGED <<dbVars, blobs>>

----------------------------------------------------------------------------
Step(t) ==
    \/ StorePublish(t) \/ StoreRecord(t) \/ StoreFail(t)
    \/ ForkInsertRun(t)
    \/ \E s \in Shas : CopyValidate(t, s)
    \/ CopyInsert(t) \/ CopyFail(t) \/ CopyDone(t) \/ ForkFails(t)
    \/ DiffSucceeds(t) \/ DiffFails(t)
    \/ CleanupMetadata(t) \/ CleanupReserve(t)
    \/ \E s \in Shas : CleanupCheck(t, s)
    \/ CleanupRemove(t) \/ CleanupDone(t)
    \/ BusyTimeout(t) \/ ReportFailure(t)

Call(t) ==
    \/ \E r \in Runs, s \in Shas : StoreBegin(t, r, s)
    \/ \E source, target \in Runs : ForkBegin(t, source, target)

Next ==
    \/ \E r \in Runs : BeginRun(r)
    \/ OtherWrite
    \/ \E t \in Tasks : Call(t) \/ Step(t) \/ Crash(t)

Spec == Init /\ [][Next]_vars

\* A running call goes on: a SQLite wait is bounded by busy_timeout, and the
\* replay loop stores a finite number of artifacts before the diff.
Fairness == \A t \in Tasks :
    /\ WF_vars(Step(t))
    /\ SF_vars(DiffSucceeds(t) \/ DiffFails(t) \/ ForkFails(t))

FairSpec == Spec /\ Fairness

----------------------------------------------------------------------------
(* Properties                                                              *)

\* An artifact stored together with its content stays readable for as long as
\* its row exists, whatever forks, cleanups and crashes happen around it, so that
\* an integrity scan at any moment reports none: the guarantee the write reservation of store_artifact_with_content and of the
\* second phase of cleanup_branch_execution is there to give.
StoredRowsReadable == \A row \in Scan : row[3] # "stored"

\* No artifact row outlives its run: a fork still copying into a target, or an
\* upload still writing its blob, never adds a row to a run that a cleanup has
\* deleted meanwhile.
NoOrphanRows == \A row \in rows : row[1] \in runs

\* "Callers must only invoke this once they have confirmed no remaining
\* metadata still references the blob" (BlobStore::remove): no step removes a
\* blob that a row names at that moment.
RemovedOnlyUnreferenced ==
    [][\A s \in blobs : s \notin blobs' => ~Referenced(s)]_vars

\* Every call comes to an end, and with it the reservation it may hold: no
\* order of commits, timeouts and crashes leaves a caller waiting for ever.
CallsReturn == \A t \in Tasks : pc[t] # "idle" ~> pc[t] = "idle"

\* The artifacts stored with their content behave as if every operation were
\* one step: publishing, recording and removing in steps of their own, and the
\* crashes in between, show through neither rows nor contents.
Stored == {<<row[1], row[2]>> : row \in
              {w \in rows : w[3] = "stored" /\ w[2] \in blobs}}

Promise == INSTANCE ArtifactStore WITH artifacts <- Stored

ImplementsPromise == Promise!Spec

\* After a quiet cleanup no row refers to a missing blob.  The code does not
\* ensure it for copied rows: insert_artifact looks at the file before it has
\* the reservation.
RowsReadable == Scan = {}

\* An error from cleanup_branch_execution means that the metadata is still
\* there.  The code does not ensure it: the second transaction can fail too.
CleanupErrorKeepsMetadata ==
    \A t \in Tasks : pc[t] = "failed" => run[t] \in runs
============================================================================
