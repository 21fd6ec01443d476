# ReplayKit in TLA+

ReplayKit records the runs of an agent as a graph of spans and *forks* them: a
fork patches one span, replays what depends on it in a sandbox and stores the
result as a new run, a branch that can be compared with its source.  This
directory specifies the parts of it where the order of steps or the combination
of inputs matters, checks them with TLC and proves their main invariants with
TLAPS.

Paths below are relative to the repository, `crates/` for `src/crates/`.

## 1. Inventory

| Part | State | Operations | Hard behaviour |
|---|---|---|---|
| Core model, `crates/core-model` | record types, statuses, edge kinds | summary of a run | which statuses are terminal, which failure names the run's class |
| SQLite storage, `crates/storage/src/lib.rs` | tables runs, spans, events, artifacts, snapshots, edges, branches, replay_jobs, diffs, run_sequences, id counters | one transaction per call, or none, each on a new connection (WAL, no foreign keys); `cleanup_branch_execution`; `recover_interrupted_runs` | deferred and immediate transactions and single statements interleave; a cleanup has two phases; a second store, `InMemoryStorage`, that tests take for the same |
| Blob store, `storage/src/blob.rs` | one file per content | store (write a temporary file, rename), read, remove, verify | files and rows are not one transaction |
| Workspace capture, `storage/src/workspace.rs` | workspace points, each a snapshot with an ordinal; archives of directory trees | capture, restore, apply a transition, diff, list, load | the ordinal is read before it is used; a path changes its kind; modes get in the way |
| Collector, `crates/collector` | none between requests | begin_run, start_span, end_span, add_event, add_artifact, add_snapshot, add_edge, finish_run, abort_run | a handler is a chain of storage calls without a lock; records are written back whole |
| SDK for tracing, `crates/sdk-rust-tracing` | a session, a handle per open span | open/close a span, record a completed span, finish, abort | spans of several threads overlap; errors are dropped, calls are repeated |
| Replay engine, `crates/replay-engine` | nothing between requests | plan_fork, execute_fork | graph closure, two judgements of the same span, reuse, containers, several storage calls at the end |
| Executors, `replay-engine/src/executors.rs` | none; `run_shell` has threads, pipes and a process group | check, execute | a limit races the exit; full pipes; background processes; which recording answers which prompt |
| Sandbox, `replay-engine/src/sandbox.rs` | a directory, a cursor on the recorded timeline | start, advance_to, finish | spans whose recordings overlap |
| Inputs, `replay-engine/src/inputs.rs` | none | bindings, references, rendering | the same template is rendered from two runs; forks of forks |
| Diff engine, `crates/diff-engine` | the diffs table as a cache | diff_runs | two runs read one after the other; where the first divergence is |
| API, `crates/api` | none between requests | create_branch, compute_diff, run tree, timeline, forensics | cleanup after a failure; requests overlap; forensics walk a graph with cycles |
| CLI, `crates/cli` | none | the same API in another process | a second process on the data root |
| Web app, `apps/web` | one reducer, `hooks/useAppState.ts` | select a run, a span; draft and create a branch; load views | answers arrive in any order |
| Fixtures, examples, deployment | | | none |

**Interaction.** The collector's HTTP handlers and the API's run synchronously on
worker threads and share nothing in memory but the storage object;
`SqliteStorage` opens a connection per call, so *everything* meets in the
database and the blob directory.  Collector, API server and CLI are separate
processes on one data root; the SDK calls a collector in the process of the
application.  A branch is created by `ApiService::create_branch`, which calls
`ReplayEngine::execute_fork`, then `diff_runs`, and on an error
`cleanup_branch_execution`.  `execute_fork` plans (with recorded inputs), copies
the run, walks the spans (with replayed inputs) and asks an executor for each; the
executors work in the sandbox.  The web app talks to the API only.

**What makes each part correct.** Storage: both stores are the same store, every
reference leads to a row, a row written with its content stays readable, a
cleanup takes all of its run and nothing of another's, every call returns.
Collector: sequence numbers identify spans and events, an ended span and a closed
run stay so, a finished run is whole, the workspace timeline has no holes.
Replay engine: everything affected is replayed and nothing else; a span runs with
current inputs, and one that is reused is one whose inputs did not change; a
block or a failure is visible downstream and in the run's status; the plan comes
true.  Executors: a command's output is whole, its group does not outlive its
limit, and it returns.  Workspaces: the fork's directory is the recorded one
except for what was re-executed.  Branches: a job that says it ended is backed by
its rows; what was answered stays; views and diffs lead to what went wrong.

The hazards these properties are aimed at are listed, at their lines, in
`PROJECT.json`.

## 2. Modules

A module marked *proofs* holds theorems about the one above it, or about those it names.

| Module | Models | Built from |
|---|---|---|
| `ArtifactStore` | what storage promises about artifacts: a store, a copy, a removal are each one step | |
| `BlobStorage` | `SqliteStorage` with the blob directory: uploads, forks, failing branches and their cleanup, as transactions and file operations | refines `ArtifactStore` |
| `BlobStorageProofs` | *proofs* | |
| `ListOrder` | the order of a list: by a key, equals by their id (operators only) | |
| `MemoryStorage` | `InMemoryStorage`: nested maps behind a lock, every call one step | `ListOrder` |
| `SqliteStorage` | the same calls on flat tables, split where other connections get in between | `ListOrder`; refines `MemoryStorage` |
| `SqliteStorageProofs` | *proofs* | |
| `Collector` | the collector's handlers on one run, one action per storage call, with crash and recovery | |
| `CollectorSession` | the same, called as the tracing layer and `record_completed_span` call it | `Collector` |
| `CollectorProofs` | *proofs*, of both | |
| `Recording` | a recorded run: spans, parents, edges, results (operators only) | |
| `DirtyMap` | `compute_dirty_map`, one span of the work-list per step | `Recording` |
| `ReplayEngine` | plan and replay of one fork: judging spans, reuse, blocking, containers, rollup | `Recording` |
| `RunViews` | tree, timeline, forensics, summary and diff of a run (operators only) | `Recording` |
| `BranchViews` | what those views say of a branch that was just replayed | `ReplayEngine`, `RunViews` |
| `ReplayEngineProofs` | *proofs*, of `DirtyMap`, `ReplayEngine` and `BranchViews` | |
| `UnifiedDiff` | `unified_diff`: the table, the walk, the hunks; and what `patch` makes of them (operators only) | |
| `SpanExecution` | contracts, checks and answers of every executor (operators only) | `UnifiedDiff` |
| `ReplayInputs` | bindings, patches, effective spans, plan and replay over a run, its fork and its fork's fork | `Recording`, `SpanExecution` |
| `CommandExecution` | `run_shell`: processes, pipes, three threads, the polling caller | |
| `ReplayInputsProofs` | *proofs*, of `ReplayInputs` and `CommandExecution` | |
| `WorkspaceArchive` | directory trees: capture, restore, transitions, diff (operators only) | |
| `WorkspaceTimeline` | the workspace of a recording and of its fork: captures, owners of changes, the walk of the sandbox | |
| `WorkspaceTimelineProofs` | *proofs* | |
| `BranchLifecycle` | branch commands, diffs, cleanup, crash and recovery, one action per storage call | |
| `BranchLifecycleProofs` | *proofs* | |
| `AppState` | the web app's reducer and effects: selections, drafts, created branches, answers in any order | |
| `AppStateProofs` | *proofs* | |
| `MC...` | the instances for TLC: symmetry, recordings, graphs, requests, programs | `MCWorkspaceTimeline` also joins `WorkspaceTimeline` and `WorkspaceArchive` |

What is next, in this order:

1. Composition: `ReplayEngine` inside one command of `BranchLifecycle`, so that
   the final status is the derived one, and its refinement of an abstract branch.
2. The forensics of a run that is still being recorded or replayed, read table by
   table while its rows change.

## 3. From the code to the modules

`PROJECT.json` maps every definition to its lines; this section says how to read them.

**`BlobStorage`.** `rows`, `runs` are tables, `blobs` the directory. A task is a
call in flight in any process. A transaction that holds the write reservation
(`BEGIN IMMEDIATE`) is several steps, because publishing and removing files
happens inside it; a deferred transaction that only writes is one step that waits
for its turn (`WriteTurn`). `insert_artifact` is the exception that matters: it reads, looks at
the file and only then writes, so it is `CopyValidate` and `CopyInsert`, and a
commit in between outdates its snapshot (`stale`; SQLite then refuses the write).
A row carries a mark, "stored" or "copied", that the
code does not have; only the properties look at it.

**`ArtifactStore`** is what a user of storage may assume of artifacts stored
with their content: storing, and removing a run, are each one step.

**`MemoryStorage`** has a map per kind of row and a call of every client: `Invoke`
starts one, `Perform` is the call, which is refused or takes effect in one step,
as it holds the lock throughout. Ids, statuses and timestamps are small numbers, and a branch
and its job bear the id of the run they belong to, with which `execute_fork` allocates them.

**`SqliteStorage`** has the same calls. Those that begin with a write are one
step; `Transaction` is `with_transaction`, whose write is refused when another
call has committed since its reads; `ReadByRead` is `with_connection`, where each
check and the insert stand alone. `Memory` maps the tables to the maps, and
`ImplementsMemory` says that each call takes effect at one moment. A run may be a fork in
progress (`InProgress`), which the command that makes it (`Owner`) may clean up at any time;
only that command inserts its branch and its job, while every other client may compare it
and fork it (`MayCall`). So a cleanup can come between the checks and the insert of a diff,
or of the branch and the job of a fork of that fork. Nothing in the code
prevents it: the insert goes through, which `ImplementsMemory` has
as a step of its own (`InsertsAfterCleanup`), and leaves a row that names a run that is gone.
`ReferencesIn` therefore exempts the references that may name a fork in progress: both sides of a diff,
and the source of a branch and a job. Everything else holds of such rows too. Section 8 has the
stronger statement (`NothingLeftBehind`). `Place` gives the position
at which a row came, a history that only the comparison with `InMemoryStorage` uses.

Databases to start from are sound ones (`StoresAssumption`): references lead to rows,
primary keys are unique (`KeysIn`), a run has its counter. What a list is sorted by, an id, a time or a sequence number,
is a natural number in them and in the requests (`NumbersIn`, `RequestsAssumption`); of ids only the order of their text matters.

**`ListOrder`**: SQLite sorts rows by a column and then the id (`ORDER BY`), the in-memory store sorts
by the same field what it takes from a map in the order of ids, with a sort that is stable.
`ReadsAgree` compares the answers. Events and edges are the exception: `InMemoryStorage`
lists them as they came, and SQLite by number and id, or by id. The two always
have the same members, and the same order when the rows came in that order (`CameInOrder`); overlapping
handlers insert events in another one, and then the stores differ (`ListsAgree`, section 8).
A member of a list has the position that the members
before it leave it (`Before`). The library's `SetToSortSeq` chooses one
among all permutations, of which nothing can be proved here.

**`Collector`** has the handlers of one run. Their locals (`copy`, `row`,
`ordinal`) are the records a handler has read; `pc` is the storage call that comes next. `Reject` ends
a handler with an error at any call, with its earlier writes in place. Only what the guards and the write-backs use is kept of
a record: status, parent, sequence number; root and, for the summary, the set
of spans it was computed from. `start_span` takes an optional id from its caller, and
allocates one otherwise (`span-` and a counter). It looks for a row only under an id that the caller gave. A
client may give any, also one the counter will come to: `Named` and
`Allocated` may overlap, and then the allocated id overwrites the client's span
(`AllocatedSpansStayEnded`, section 8). Requests to end a span or to finish a run carry the status to
be written, which may be Running (`EndRead`, `CloseList`). With `ReadErrors` a row may be
unreadable, which `start_span` takes for absent.

**`CollectorSession`** calls those handlers as an application does that has spans
(`AppSpans`) nested as a program says: the tracing layer opens and closes a span
with the application's, and drops errors; `record_completed_span` returns them and
may be called again; `finish` takes the session by value. The collector is in
the application's process and dies with it. Spans of different threads overlap. The layer gives a span
the parent it has in the application; `record_completed_span` takes any that its caller
names (`Parents`), recorded or not. An application chooses no id that the collector allocates.
`ReadErrors` is FALSE: with an unreadable row, a span that is recorded again takes the
place of the one that ended, and `EndedSpansFinal` fails.

**`Recording`** describes a recorded run: `kind`, `parent`, the data edges
`needs`, and per span a `result` (status and output fingerprint). Spans are
numbered in sequence order, and a parent precedes its children. The second is an assumption:
the collector ensures that the rows form trees (`SpansFormTrees`, proved of sessions), and
a child whose parent another thread starts may still have the smaller number
(`ParentsFirst`, section 8). A fork of such a run fails while it copies the rows, before
anything that is modelled here.

**`DirtyMap`** visits one span of the work-list per step. `ReplayEngine` takes
the result as an operator (`Reached`, `Triggers`), which `DirtyMap`'s
properties justify.

**`ReplayEngine`** goes through the phases of `plan_state` and `replay_spans`:
`predict` (spans in order, with the registry's judgement), `foresee`
(containers), `copy`, `replay`, `rollup`. Executors answer
anything: refuse, complete or fail, with the recorded output or another. The
registry's judgement at planning time and the executor's later one
are independent choices. The shipped binaries all use
`CompositeExecutorRegistry`, whose planner-step executor derives the status of containers: `DerivedStatus`.

**`RunViews`** are functions of a recording and the results its spans have.
`DeepestDependency` is a recursive function on the spans not yet on the path, as
the walk of the code is; among equally deep answers the order of the edges decides, and the
model leaves it open. `BranchViews` asks them about every branch `ReplayEngine` can finish.

**`SpanExecution`** takes a text for a sequence of pieces and hashes for
injective, so a fingerprint is what it is the hash of. What a command prints and
what a file holds depends on the sandbox: they are inputs of the operators, chosen from
`Answers` (stdout and files) and `Complaints` (stderr). A command prints to either stream or both, whatever code it exits
with. `UnifiedDiff` is the diff a write has for an output; a text is a sequence of lines
here, and the assumption `DiffsOfSmallTexts` of `MCReplayInputs` compares it with what
`patch` would make of it, for all pairs of texts of up to four lines.

**`ReplayInputs`** keeps the rows of every run of a chain, each fork being of the
latest. `Effective` is `effective_span`; the planner renders it from the source run
(`Refused`), the replay from the target (`Lookup`). Containers only pass
their children on; `ReplayEngine` has them. The replay reuses a span when the prints of what
it depends on are as recorded, so reuse is as sound as the prints are: a program may put what
it likes into a fingerprint, but `ReusedInputsStand` needs that it does not put there what an
executor would print of another output (`RecordingsTell`). The fixtures do not: their
prints are words of their own. The executors themselves leave one ambiguity: a tool that
exits with an error has the print of its stdout and that stdout as output, while one that cannot be started has
the print of the error and no output. If the recorded tool had printed what the error
says now, both are Failed with one fingerprint, and dependents are reused although their input is
gone (`FailuresTell`, section 8). `ReusedInputsStand` leaves out the spans that refer
to such a failure (`AmbiguousFailure`), and nothing else.

**`CommandExecution`**. The shell stands for its foreground commands, the other
processes are those it leaves in the background, which may redirect their output
or leave the group (`setsid`). A pipe counts chunks, of which `Capacity` fit. The three threads feed
and read (`Feed`, `ReadToEnd`); `Poll` is the loop around `try_wait`. What a
process has still to write, and whether it ends by itself, is chosen when it starts.

**`BranchLifecycle`** has one action per storage call of `create_branch`, of a
client's `POST /v1/diffs`, and of the recovery scan. The scan is one
transaction: it either marks every running run or fails as a whole. `insert_branch` checks its runs and writes in one
step: between the two only a cleanup of another branch could come, and it commutes with both;
`SqliteStorage` has the two apart.

**`WorkspaceTimeline`** first records (start, write, end, with captures that may
fail) and then forks what it has recorded. A file holds the name of what was
written last, and `by` remembers who wrote it: the code has no such field, only the
properties use it. Workspaces are functions from files to contents, and an absent
file is one more content.

**`WorkspaceArchive`** is the same on trees: a path is a directory, a link or a file, with a
mode. Restoring, and the changes of a transition, are made path by path in the order of the
code; an operation that fails has no outcome, since the replay ends there. The two modules meet in `MCWorkspaceTimeline`:
`StepsAreTransitions` says that what the walk does to a file is what `apply_transition` does to the
tree, when contents are files, links and directories; the assumption
`ArchivesAreExact` has the rest for all trees of four paths.

**`AppState`** takes the server's answers as values of its own: a view is the
run it shows, a detail the span, with its artifacts. A click and the effects it triggers are one step, since
React flushes the effects of a click before anything else runs; an answer and all
it dispatches are one step, since its dispatches are batched. Runs have the same span ids, because a
replay copies spans under their own. The server's
part is two steps, `ReadBranches` and `CreateBranch`, so that an answer can be older
than a branch. Where the provider turns a failure into `null` (timeline,
forensics), the hook's own `catch` cannot be reached and is left out. The list of branches is a
set, so it does not show that a branch can be listed twice. `InspectorShowsSelection` is about the inspector; the artifact
tab shows the previous span's artifacts while a detail loads.

## 4. Runs

TLC checks deadlock in every run except those where everything may come to an end:
`workspace_timeline` (the replay has finished, or the recording is at its bounds),
`app_state` (the user stops), `sqlite_storage` (`MaxCalls` calls have been answered),
`command_execution` (`run_shell` has returned) and `replay_inputs` (`MaxForks`
forks are made).

| Run | Instance | Shows |
|---|---|---|
| `blob_storage` | 3 runs, 1 content, 2 calls | stored rows stay readable; removal only of what no row names; every call returns; `ArtifactStore` is implemented |
| `sqlite_storage` | 2 clients, 3 calls out of 32 requests, on a finished run, or with a fork in progress that another client is forking | the two stores are the same store, list orders included where events and edges came in order; every reference leads to a row, or to a fork that was taken back |
| `collector` | 2 allocated ids, one of which clients name too, 2 requests, 2 sequence numbers, 1 point, unreadable rows, a status that is Running or not | what holds whatever clients do |
| `collector_session` | 2 allocated and 1 chosen id, 2 requests, 3 sequence numbers, up to 4 points; 4 programs of 3 spans | what holds for the calls of the SDK: finished runs are whole, spans form trees, ended spans are final, the timeline is ordered and without holes |
| `dirty_map` | every graph of 3 spans | termination, the right spans |
| `replay_engine` | every tree of 4 spans below a run, up to 2 edges (of work also a cycle of two with a way out), every fork and patch | reuse, failure, agreement of plan and replay; forensics, summary and diff lead to what went wrong |
| `replay_inputs` | 5 bound recordings of 4 spans, one with a tool that failed, commands with output on either stream and any exit code, 4 model modes, every patch, a fork and its fork | spans run with current inputs; kept results fit theirs; overrides and recorded responses go where they belong |
| `command_execution` | the shell and a background process, pipes of 1 chunk, 2 chunks of input | output is whole, a limit stops the group, `run_shell` returns |
| `workspace_timeline` | 3 spans, 1 file, 2 writes, 1 failed capture | the fork's workspace is the recorded one except for what was re-executed, on files and on trees |
| `branch` | 2 commands, 1 diff client | a job that ended is true; what was answered stays |
| `app_state` | 2 runs with the same 2 span ids, 3 clicks that count | the page shows one run; branches are forked from their run; loads end |
| `collector_reopened` | as `collector` | a deviation, section 8 |

**Why these bounds are enough.** Two calls are what an overlap needs: every hazard
of storage and collector is one handler between two steps of another, and a
restart adds the third. Three runs let a branch be forked from a
branch that is being cleaned up. Contents do not interact (a cleanup handles one
after the other), so one suffices for the runs; the theorems of `BlobStorageProofs` hold
for any number. Of the store's calls the third can still refer to what the first two have
left. Two sequence numbers are the least that can collide; the
session needs three, for three spans or for two and one that is recorded again, and four points for a
span captured within another. Three spans give every cycle and every self-loop
on a path of length two; the replay needs four for a container, a span
inside, a dependent and a bystander, and two edges for a block that travels; a failed span that rests
on itself and on another takes a third edge; the inputs
a span that produces a text, a model call on it and a span that uses the answer. Two
forks give every kind of patch over every other. A pipe of one chunk is full
at once, and one background process can hold a stream, outlive the shell or leave the group. Two
commands give a fork of a fork. Files do not interact, so one
suffices; two writes let the change of one span be covered by another's. Of the web app three
clicks that send requests are enough for a selection made while two others load, and for a
branch that is created and compared; `AppStateProofs` has the
safety properties for any number. The bounds `MaxClicks`, `MaxSequence`,
`MaxPoints`, `MaxCalls`, `MaxForks`, `MaxChunks`, `MaxInput`, `MaxWrites` and `MaxFailures` are in the
guards of the actions that count (`MaxChunks` and `MaxInput` in what is chosen). Three runs have a constraint besides. `FollowedIfComplete` of `workspace_timeline`: after a failed
capture it checks where the replay starts (`StartsClean`), and
does not follow it, because nothing more is claimed of it. `Captures` of `collector_session`:
how many captures a program makes that succeed, four if one span is within another,
two where two threads overlap and none where both record whole spans. `Representative` of
`collector`: its properties do not look at who is whose parent, at which status a span has ended
with or at captures, so one parent, one such status and a capture before any span stand for
all; `collector_session`, the deviations below and the theorems have the rest.

## 5. Fairness

*`BlobStorage`*: weak fairness of every call's next step: a thread is scheduled, waiting for SQLite is
bounded by `busy_timeout`, and a process that dies ends its calls. Arrivals and
crashes are not fair. The end of a replay needs strong fairness: artifacts that
`execute_fork` stores keep the call busy, but the replay loop visits finitely many
spans, so a call that can go on to its diff again and again does.

*`DirtyMap`*: weak fairness of `Next`: the function is a loop of one thread.

*`CommandExecution`*: weak fairness of every thread and process, which the system
schedules, and strong fairness of `KillGroup`: time passes, so a caller that keeps polling finds in
the end that the limit has passed. That a process ends is not assumed (`endless`),
and `Returns` leaves out exactly those that nothing stops (`Lingers`).

*`AppState`*: weak fairness of the answers: the browser answers or fails every request in the end (the
provider sets no time limit of its own), and timers of the retries fire. The user is not fair,
and has to stop clicking for `LoadsSettle`: `MaxClicks` says so.

Nothing else is assumed fair, and no other property is about what must happen.

## 6. What is proved

TLAPS checks the theorems for any number of runs, contents, requests, spans, files,
applications, branches, clients, processes and chunks. The constants are assumed distinct from the
"none" values and the bounds to be naturals (each `ASSUME` is named in its module, and TLC
evaluates it). Beyond that a theorem has the premise it names:

- `EndedForGood`, `RowsFormTrees`, `BeforeIsEarlier`: no row is unreadable (`~ReadErrors`); that an
  application chooses no id twice, and none the collector will allocate, is assumed of all sessions
  (`ProgramsAssumption`);
- `AllocatedForGood`, `ClosedForGood`: what their properties say of the clients: ids that none of
  them names, and steps at which no client's request to end a span or finish the run as Running
  is under way;
- the theorems on the views of a branch: what is forked is `RecordingsWhole`, every span of it
  ended and every container blocked that has a blocked child, which `BranchesAreWhole` proves of the
  forks themselves, so that it holds of forks of forks too;
- the theorems on workspaces: programs with one thread, and for `ChangesAreKept` and
  `OnlyTheirsAreKept` recordings with every capture (section 7);
- `ReusedStand`: `RecordingsTell` (section 3).

| Theorem | States | Inductive invariant |
|---|---|---|
| `BlobStorageProofs!StoredRowsStayReadable`, `RowsHaveTheirRun`, `RemovalIsSafe` | `StoredRowsReadable`, `NoOrphanRows`, `RemovedOnlyUnreferenced` | `IInv`: the reservation belongs to exactly the task inside such a transaction (`Exclusive`), a blob about to be recorded is there (`Published`), one about to be removed is named by no row (`Unreferenced`). The two last only hold because of the first: another task would need the reservation to add a row or remove a file. |
| `BlobStorageProofs!Implementation` | `SqliteStorage` implements `ArtifactStore` | the same; each step is a step of `ArtifactStore` or none |
| `SqliteStorageProofs!ReferencesHold` | `ReferencesResolve` | `IInv`: a snapshot that is still current shows the tables as they are (`SnapshotsCurrent`), and what a call without a transaction has found is still there (`FoundStays`): only a cleanup removes rows, and only of a fork in progress, which either the caller itself owns or one of the exempt references names |
| `SqliteStorageProofs!StoreImplementsMemory` | `ImplementsMemory` | `IInv` and `Rows`: keys are unique, and what is sorted by is a number. A read that passes is a stutter, the write or the refusal that ends a call is the call of `MemoryStorage`: its checks would answer the same at that moment, in a transaction because the snapshot is current, outside of one because of `FoundStays`, unless a fork in progress was taken back, which is `InsertsAfterCleanup`. What each call writes to a table, as a table and as a map, is a lemma of its own (`...Mapped`). |
| `SqliteStorageProofs!ReadsAreThoseOfMemory` | `ReadsAgree` | `Keyable` and `CallsTyped`, without `IInv`. Rows and map entries correspond one to one because keys are unique, and no two members of a list share a position while there are as many positions as members (`Positions`, `OnePosition`), so that both lists have the same id at each (`SameOrder`). Of events and edges this is shown of rows that came in order (`NumberedListsAgree`), and that the members are the same of all (`Members`). |
| `CollectorProofs!SequenceNumbersUnique` | `SequencesUnique` | `SequenceInv`: numbers drawn and not yet used (`Drawn`) are below `next_sequence` and belong to one handler (`Owned`), including those in stale copies that will be written back |
| `CollectorProofs!AllocatedForGood` | `AllocatedSpansNeverReopen` | of the ids that no client names. `IdentityInv`: such an id belongs to the one handler that starts it until its row exists, and whoever is about to end a span writes a row that has ended, unless its client says Running |
| `CollectorProofs!ClosedForGood`, `TimelineWithoutGaps` | `ClosedRunStaysClosed`, `OrdinalsWithoutGaps` | `CloseInv`: only `finish_run` and `abort_run` get to the write that closes the run, and what the second writes says Interrupted; a handler's ordinal has its predecessor in the timeline (`Continues`) |
| `CollectorProofs!SessionIsCollector` | a session implements the collector | types only: each call of the SDK is one that the collector expects |
| `CollectorProofs!FinishedRunIsWhole` | `FinishedRunComplete` | `FinishInv`: from `finish` on nobody starts a span (`Roles`), so that what `finish_run` has found in its one look stays true although spans still end |
| `CollectorProofs!EndedForGood`, `RowsFormTrees`, `BeforeIsEarlier` | `EndedSpansFinal`, `SpansFormTrees`, `BeforePrecedesAfter` | `OwnIds`: an id is being started by one request or is the handle of one application span, never both. To it come the parents that starts hold (`ParentInv`) and the ordinals that ends hold (`CaptureInv`). |
| `ReplayEngineProofs!AllAffectedFound`, `AllTriggersFound` | `FindsAllAffected`, `TriggersComplete` | `MapInv`: what visited spans reach is dirty and has them as triggers; everything dirty is reached |
| `ReplayEngineProofs!PlanIsKept`, `FailureIsReported` | `PlanForetells`, `FailureReachesRun` | `EndInvariant`: a container in the plan's list has a child in it (`Foretold`), what is in the list and has had its turn is blocked (`Kept`), and a container that was rolled up agrees with its children, none of which changes any more (`Derived`). The failure then rises by the definition of a subtree as the smallest closed set, which takes the place of an induction over the tree. |
| `ReplayEngineProofs!ReuseSound`, `BlocksReach`, `InputsFinalWhenRead` | `ReuseIsSound`, `BlocksPropagate`, `InputsSettled` | `Inv`: the dirty set is closed (`DirtyClosed`), spans before the current one are settled and those after it as recorded (`Progress`), and every outcome agrees with the row (`Results`) |
| `ReplayEngineProofs!BranchesAreWhole`, `DiffLeadsToReplay`, `ForensicsLeadToCause` | a branch is as whole as a recording must be; `DiffIsExplained`, `BranchIsExplained` | `Shown`, with the two above: a span that was not replayed shows its recorded result, and one that was shows what its outcome says. The walk along failed spans ends because each step leaves one span fewer to visit, and by then it has seen all the first one rests on. |
| `ReplayInputsProofs!InputsAreCurrent`, `PlanAnswered`, `OverridesReachAll` | `InputsCurrent`, `PlannedAnswers`, `OverrideReachesAll` | `Inv`: every span the replay has passed is `Good`: it ran with what its template gives on the target's rows (`RanRight`), or it was reused because no row it depends on has another print (`ReuseStands`), or it is blocked and has a reason for it (`BlockExplained`). Each of these stays true because the replay never returns to a row. |
| `ReplayInputsProofs!ResponsesFit`, `ReusedStand` | `ResponsesMatchPrompts`, `ReusedInputsStand` | `RowsStand`, of every row of every fork so far: a model's response answers the prompt next to it, or is the recording's own; an executor's print in a row is the print of the row's output, or of an error if it failed without one. A kept row is one of the source, so the fact travels along the chain of forks. |
| `ReplayInputsProofs!OutputIsWhole`, `GroupIsStopped` | `OutputWhole`, `LimitStopsGroup` | `CommandInv`: what was written to a stream is in its buffer or its pipe (`Conserved`), a reader that is done has nobody to write to it any more (`DoneForGood`), the caller has returned only after all threads (`Joined`), and a group that was killed stays empty (`KilledForGood`) |
| `WorkspaceTimelineProofs!ChangesAreKept`, `OnlyTheirsAreKept`, `ForkStartsClean` | `KeptChanges`, `OnlyKeptChanges`, `StartsClean` | `Inv`: the owner of a transition, computed from the points alone, wrote what changed in it (`OwnersWrite`), because the stack computed so far is the stack of open spans (`StackIsOpen`) and what has changed since the last point was written by the innermost of them (`LiveChanges`); and the walk has not passed a span that is still to be replayed (`Walk`). |
| `BranchLifecycleProofs!EndedJobsAreTrue`, `RowsTogether`, `AnsweredForGood` | `EndedJobIsTrue`, `RowsComeTogether`, `AnsweredStays` | `Inv`: where a command is determines which of its rows exist and which are closed (`RowsAt`) |
| `AppStateProofs!PageShowsOneRun`, `InspectorInStep`, `BranchesForked` | `ShownTogether`, `InspectorShowsSelection`, `BranchesForkTheirRun` | `IInv`: the three together, since a draft takes its span from what is shown; nothing is requested or listed before the first selection (`NothingUnselected`); submitted drafts fork their run (`SubmittedForkTheirRun`) |

Type correctness (`TypeCorrect`) is proved in `BlobStorageProofs`, `CollectorProofs`,
`ReplayEngineProofs`, `WorkspaceTimelineProofs`, `BranchLifecycleProofs` and `AppStateProofs`,
and as a part of the invariant in `ReplayInputsProofs`.
`NoOrphanRows`, `TriggersComplete`, `BlocksPropagate`, `InputsSettled` and `RowsComeTogether` are proved
and therefore no longer part of a run.

The prover unfolds a recursive function only by its equation, and the equation has to be
proved: `OpenAfterIsDefined`, `WalkIsDefined` and `DepthIsDefined`, `PlanAsksExecutors` do it,
with an induction on numbers that takes a least counterexample from a well-founded relation
(`LeastElement`, `Induction`).

Two of the properties were false as first stated, on inputs the runs did not have.
`BranchIsExplained` said that the cause of a failure rests on no failed span:
it may rest on itself, in a cycle of edges; the run now has such graphs. `PlannedAnswers` said that a block the plan does not list
comes from an input that has changed *and* cannot be rendered or is rendered otherwise; a template
with pieces of later spans can be rendered as before when it is looked at again.

## 7. What is only model-checked, and what is not modelled

Only checked: `CallsReturn`, `Terminates`, `Returns` and `LoadsSettle` (liveness is beyond the prover);
`StepsAreTransitions`, where `apply_transition` is a fold over the
paths of a tree; and, on all small inputs, the assumptions `DiffsOfSmallTexts` and `ArchivesAreExact`.

`WorkspaceTimeline` checks, and its theorems prove, `KeptChanges` and `OnlyKeptChanges` for
programs with one thread and recordings without a failed capture. Both conditions
are needed: section 8 has what threads do, and after a failed capture a change
belongs to the span around the one that made it. `StartsClean` needs the first only.

Not modelled:

- opening a database, its schema and the migration: they run before the store is shared;
- the byte format of archives, size limits, deduplication of snapshots; sharding
  and path checks of the blob directory;
- `add_edge` as a handler: it reads one row and inserts another, and both are in `SqliteStorage`;
- costs, labels, warnings, redaction, summaries of artifacts, texts of errors;
- retry groups, and queries and views that pass rows on; HTTP routing, JSON, error codes;
- the parsing of JSON, of `KEY=VALUE` lines and of templates: a value, or a failure to parse;
- the SDK's extraction of attributes and its helper macros;
- the CLI, one more caller of the same service; the web app's tabs, JSON mapping and components;
- fixtures, examples, packaging and end-to-end scripts, which keep no state.

Each part with its reason is in `PROJECT.json`.

## 8. Where the code and its documents disagree

One run of the project ends in a counterexample: `collector_reopened`,
`FinishedStaysFinished`. `start_span` reads the run, sets its root and writes the
whole record back in another transaction; a `finish_run` in between is lost, and the
run is running again ("a completed run should be treated as immutable", architecture 4.4).

The modules also state the following; the code does not ensure them, some against
a document, some merely against what one might expect. To see a counterexample, put the
property in place of the others of the configuration named.

| Property | Configuration | What happens |
|---|---|---|
| `RowsReadable` | `BlobStorage.cfg` | a fork validates a file, a cleanup removes it (its second transaction writes nothing and so outdates no snapshot), the fork inserts the row |
| `CleanupErrorKeepsMetadata` | `BlobStorage.cfg` | the second transaction of a cleanup times out after the first has committed, and the caller is told that the cleanup failed (comment at `crates/storage/src/lib.rs:2025`) |
| `NothingLeftBehind` | `SqliteStorage.cfg` | a client's diff is checked before a cleanup and inserted after it |
| `ListsAgree` | `SqliteStorage.cfg` | events that come out of the order of their numbers, and edges out of that of their ids: `InMemoryStorage` lists them as they came, `SqliteStorage` sorts them |
| `FinishedRunHasNoRunningSpans` | `CollectorReopened.cfg` | a span starts between `finish_run`'s look at the spans and its write, or later |
| `TerminalSpansFinal` | `CollectorReopened.cfg` | two `end_span` requests find the span running, and both succeed |
| `RecoveryInterruptsSpans` | `CollectorReopened.cfg` | the recovery scan looks at runs only (architecture 13.9 names spans and jobs too) |
| `AllocatedSpansStayEnded` | `Collector.cfg` | a client has named a span with the id that the counter comes to: the start that is given the id overwrites the ended span ("spans are immutable after completion", architecture 10.2) |
| `FinishingEnds` | `Collector.cfg` | a client's request to finish the run says Running |
| `SpansFormTrees` | `CollectorReopened.cfg` with `Named = {a1, a2}`, `MaxSequence = 3` | a start that takes a used id for free puts a span below its own child |
| `ParentsFirst` | `CollectorSession.cfg` | `start_span` draws its number before it looks for the parent, which may be a span that another thread is just starting: the child comes first, and a fork of the run fails |
| `CanFinish` | `CollectorSession.cfg` | `open_span` fails after its row was written: the layer keeps no handle, and the run cannot be finished |
| `RecordedAtOnce` | `CollectorSession.cfg` | `record_completed_span` is a start, attachments and an end ("atomic start + end", comment in `sink.rs`) |
| `PlanListsBlocks` | `ReplayEngine.cfg` | the registry accepts a span with recorded inputs (`plan_state`) and its executor refuses it with the replayed ones (`replay_spans`); replay semantics: "`blocked` lists every span the replay will block" |
| `ContainersBlockDependents` | `ReplayEngine.cfg` with `Recordings <- MCContainerEdges` | a span that depends on a container runs before the container is found blocked |
| `InputsFinal` | `ReplayEngine.cfg` | an edge to a later span: the dependent is replayed on the recorded output |
| `CompletedBranchIsWhole` | `ReplayEngine.cfg` with `Recordings <- MCUnfinished` | a run that is still recording is forked, running spans included |
| `ReasonIsTrue` | `ReplayEngine.cfg` | the diff gives "upstream output changed" for a span none of whose upstream has another output |
| `PatchesLast` | `ReplayInputs.cfg` | a fork of a branch renders the binding over an attribute that the branch had patched |
| `FailuresTell` | `ReplayInputs.cfg` | a recorded tool failed and had printed what the error of starting it says now: its fingerprint is unchanged and its output is gone, and what depends on it is reused |
| `InputPrintsTell` | `ReplayInputs.cfg` | spans that ran with different inputs have the same input fingerprint |
| `BranchShowsWhatRan` | `ReplayInputs.cfg` with `MaxForks = 1` | an environment override is persisted on the fork span only, not on the spans below that ran with it |
| `LimitReturns` | `CommandExecution.cfg` | once the shell has ended nobody looks at the clock: a background process that keeps a stream open holds `run_shell` |
| `SpanChangesKept` | `WorkspaceTimeline.cfg` with `Spec`, `N = 2`, `MaxWrites = 1`, `MaxFailures = 0` | a change made by one thread's span belongs to another thread's innermost one, and is lost if that is re-executed |
| `ReadOnlyIsReplayed` | `WorkspaceTimeline.cfg`, as an `ASSUME` of `MCWorkspaceTimeline` | `apply_transition` sets a directory's mode before it fills it, and cannot write to what is read-only |
| `DiffShowsAll` | the same | a file that has become a directory or a link is not shown |
| `BranchCompletesAtOnce` | `BranchLifecycle.cfg` | a crash after the run was closed leaves branch and job running for good |
| `CachedDiffIsFinal` | `BranchLifecycle.cfg` | a client's diff of the running branch overwrites the final one |
| `DiffsHaveTheirRuns` | `BranchLifecycle.cfg` | a diff is checked before a cleanup and inserted after it |
| `LiveReplayNotInterrupted` | `BranchLifecycle.cfg` | the collector's scan marks runs that another process is replaying |
| `LoadingIsRequested` | `AppState.cfg` | selecting the selected run again clears its views and starts to load them, and no effect runs ("selecting a run updates the main panel", web worktree, line 506); the detail of a span that is selected again never ends to load either |
| `ListedBranchesOfRun` | `AppState.cfg` | a branch whose creation is answered after another selection is listed there |
| `DraftsOutliveOthers` | `AppState.cfg` | the answer to one submission discards the draft started since |
| `DiffOfSelectedRun` | `AppState.cfg` with `MaxClicks = 4` | a difference is shown under the run selected since |
