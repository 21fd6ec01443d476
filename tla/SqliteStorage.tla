--------------------------- MODULE SqliteStorage ---------------------------
(***************************************************************************)
(* SqliteStorage: the same calls on flat tables of one database file, from *)
(* threads of several processes.  Each call opens its own connection.      *)
(*                                                                         *)
(* How far a call is one step depends on how it talks to the database:     *)
(*   - a call whose first statement writes waits for the database and is   *)
(*     one step;                                                           *)
(*   - a deferred transaction (with_transaction) reads on a snapshot and   *)
(*     then writes: if another call committed in between, the write is     *)
(*     refused (SQLITE_BUSY_SNAPSHOT), which the caller sees as Internal;  *)
(*   - without a transaction (with_connection: branches, replay jobs and   *)
(*     diffs are inserted so) every check is a read of its own and the     *)
(*     insert comes after them, whatever has happened meanwhile.           *)
(* The module asks when that is still the store MemoryStorage describes,   *)
(* and when every row's references lead to rows.                           *)
(***************************************************************************)
EXTENDS Naturals, Sequences, Functions, ListOrder

CONSTANTS
    Clients,       \* threads of any process with a call on the store
    Requests,      \* the calls they make
    Idle, NoSpan,
    MaxCalls,      \* bound: calls made in all
    Stores,        \* databases to start from
    Owner          \* run of a fork in progress -> the client whose fork it is

VARIABLES
    tables,     \* the rows, by table
    call,       \* client -> the call it is in, or Idle
    passed,     \* client -> how many of its reads have found what they look for
    snapshots,  \* clients in a transaction whose snapshot is still current
    reply,      \* client -> the answer to its last call, and its value if any
    made        \* calls made so far

vars == <<tables, call, passed, snapshots, reply, made>>

----------------------------------------------------------------------------
(* Tables                                                                  *)

HasRun(t, run) == \E row \in t.runs : row.run = run

\* The rows of a table with primary key (run_id, id).
Keyed(rows, run, id) == {row \in rows : row.run = run /\ row.id = id}

HasSpan(t, run, span) == Keyed(t.spans, run, span) # {}

HasArtifact(t, run, artifact) == Keyed(t.artifacts, run, artifact) # {}

Attached(t, run, artifact, span) ==
    \E row \in Keyed(t.artifacts, run, artifact) : row.span = span

OptionalSpan(t, run, span) == span # NoSpan => HasSpan(t, run, span)

\* The command that makes this run may still take it back.
InProgress(run) == run \in DOMAIN Owner

\* What every row of a database refers to is there, other than a fork in
\* progress that another run's branch or job, or a diff, was made from.
ReferencesIn(t) ==
    /\ \A row \in t.spans :
          /\ HasRun(t, row.run)
          /\ OptionalSpan(t, row.run, row.parent)
    /\ \A row \in t.events : HasRun(t, row.run) /\ HasSpan(t, row.run, row.span)
    /\ \A row \in t.artifacts :
          HasRun(t, row.run) /\ OptionalSpan(t, row.run, row.span)
    /\ \A row \in t.snapshots :
          /\ HasRun(t, row.run)
          /\ HasArtifact(t, row.run, row.artifact)
          /\ row.span # NoSpan => /\ HasSpan(t, row.run, row.span)
                                  /\ Attached(t, row.run, row.artifact, row.span)
    /\ \A row \in t.edges :
          /\ HasRun(t, row.run)
          /\ HasSpan(t, row.run, row.from) /\ HasSpan(t, row.run, row.to)
    /\ \A row \in t.branches :
          /\ HasRun(t, row.run) /\ HasArtifact(t, row.run, row.manifest)
          /\ InProgress(row.source) \/ HasSpan(t, row.source, row.span)
    /\ \A row \in t.jobs :
          HasRun(t, row.run) /\ (InProgress(row.source) \/ HasRun(t, row.source))
    /\ \A row \in t.diffs :
          \A run \in {row.source, row.run} : InProgress(run) \/ HasRun(t, run)

\* A database has these tables.
IsTables(t) ==
    t = [runs |-> t.runs, sequences |-> t.sequences, spans |-> t.spans,
         events |-> t.events, artifacts |-> t.artifacts,
         snapshots |-> t.snapshots, edges |-> t.edges,
         branches |-> t.branches, jobs |-> t.jobs, diffs |-> t.diffs,
         counters |-> t.counters]

\* A run and its counter of sequence numbers come and go together.
HasCounter(t, run) == \E row \in t.sequences : row.run = run

CountersIn(t) ==
    /\ \A row \in t.runs : HasCounter(t, row.run)
    /\ \A row \in t.sequences : HasRun(t, row.run)

\* Primary keys.
OnePerRun(rows) == \A a, b \in rows : a.run = b.run => a = b
OnePerId(rows) == \A a, b \in rows : a.run = b.run /\ a.id = b.id => a = b

KeysIn(t) ==
    /\ OnePerRun(t.runs) /\ OnePerRun(t.sequences)
    /\ OnePerRun(t.branches) /\ OnePerRun(t.jobs)
    /\ OnePerId(t.spans) /\ OnePerId(t.events) /\ OnePerId(t.artifacts)
    /\ OnePerId(t.snapshots) /\ OnePerId(t.edges)

\* What a list is sorted by is a number: ids in the order of their text, times,
\* and sequence numbers.
NumbersIn(t) ==
    /\ IsFiniteSet(t.runs) /\ IsFiniteSet(t.branches)
    /\ IsFiniteSet(t.spans) /\ IsFiniteSet(t.artifacts) /\ IsFiniteSet(t.snapshots)
    /\ IsFiniteSet(t.events) /\ IsFiniteSet(t.edges)
    /\ \A row \in t.runs : row.run \in Nat /\ row.record.started \in Nat
    /\ \A row \in t.branches : row.run \in Nat
    /\ \A row \in t.spans : row.id \in Nat /\ row.seq \in Nat
    /\ \A row \in t.artifacts \cup t.snapshots :
          row.id \in Nat /\ row.created \in Nat
    /\ \A row \in t.events : row.id \in Nat /\ row.seq \in Nat /\ row.at \in Nat
    /\ \A row \in t.edges : row.id \in Nat /\ row.at \in Nat

ASSUME StoresAssumption ==
    \A t \in Stores : /\ IsTables(t) /\ ReferencesIn(t) /\ CountersIn(t)
                      /\ KeysIn(t) /\ NumbersIn(t)

ASSUME RequestsAssumption ==
    \A q \in Requests :
        /\ q.op \in {"insert_run", "update_run"} =>
              q.run \in Nat /\ q.record.started \in Nat
        /\ q.op \in {"upsert_span", "insert_event"} => q.id \in Nat /\ q.seq \in Nat
        /\ q.op = "insert_edge" => q.id \in Nat
        /\ q.op \in {"insert_artifact", "insert_snapshot"} =>
              q.id \in Nat /\ q.created \in Nat
        /\ q.op = "insert_branch" => q.run \in Nat

ASSUME IdleAssumption == Idle \notin Requests

----------------------------------------------------------------------------
(* Reads: one SELECT each.  A get answers a sequence of one record or none *)
(* (NotFound), a list the ids in the order of its ORDER BY.                *)

Row(rows, Value(_)) == LET row == CHOOSE r \in rows : TRUE
                       IN  IF rows = {} THEN <<>> ELSE <<Value(row)>>

OrderBy(rows, Key(_), Id(_)) == InOrder(rows,
    [row \in rows |-> Key(row)], [row \in rows |-> Id(row)])

OfRun(rows, run) == {row \in rows : row.run = run}

\* The payload of a row, without its key.
Span(row)     == [parent |-> row.parent, seq |-> row.seq]
Event(row)    == [span |-> row.span, seq |-> row.seq, at |-> row.at]
Artifact(row) == [span |-> row.span, created |-> row.created]
Snapshot(row) == [span |-> row.span, artifact |-> row.artifact,
                  created |-> row.created]
Edge(row)     == [from |-> row.from, to |-> row.to, at |-> row.at]
Branch(row)   == [source |-> row.source, span |-> row.span,
                  manifest |-> row.manifest]
Job(row)      == [source |-> row.source, status |-> row.status]
Record(row)   == row.record
Counter(row)  == row.next
RunOf(row)    == row.run
IdOf(row)     == row.id

GetRun(run)          == Row(OfRun(tables.runs, run), Record)
GetSpan(run, id)     == Row(Keyed(tables.spans, run, id), Span)
GetArtifact(run, id) == Row(Keyed(tables.artifacts, run, id), Artifact)
GetSnapshot(run, id) == Row(Keyed(tables.snapshots, run, id), Snapshot)
GetBranch(run)       == Row(OfRun(tables.branches, run), Branch)
GetReplayJob(run)    == Row(OfRun(tables.jobs, run), Job)
GetDiff(source, run) ==
    \E row \in tables.diffs : row.source = source /\ row.run = run

\* Faulty variant of ListSpans: without its ORDER BY, rows come in key order.
ListSpansByKey(run) == OrderBy(OfRun(tables.spans, run), IdOf, IdOf)

ListRuns == OrderBy(tables.runs, LAMBDA row : row.record.started, RunOf)
ListSpans(run) ==
    OrderBy(OfRun(tables.spans, run), LAMBDA row : row.seq, IdOf)
ListArtifacts(run) ==
    OrderBy(OfRun(tables.artifacts, run), LAMBDA row : row.created, IdOf)
ListSnapshots(run) ==
    OrderBy(OfRun(tables.snapshots, run), LAMBDA row : row.created, IdOf)
ListBranches == OrderBy(tables.branches, LAMBDA row : 0, RunOf)
ListEvents(run) ==
    OrderBy(OfRun(tables.events, run), LAMBDA row : row.seq, IdOf)
ListEdges(run) == OrderBy(OfRun(tables.edges, run), LAMBDA row : 0, IdOf)

----------------------------------------------------------------------------
(* Calls                                                                   *)

Init ==
    /\ tables \in Stores
    /\ call = [c \in Clients |-> Idle]
    /\ passed = [c \in Clients |-> 0]
    /\ snapshots = {}
    /\ reply = [c \in Clients |-> <<"none", 0>>]
    /\ made = 0

\* create_branch makes a run, a branch and a replay job under ids it has
\* allocated, one call after another, and cleans up no other run.  Any client
\* may read and write in that run, fork it, and store diffs about it.
MayCall(c, q) ==
    /\ q.op = "cleanup" => InProgress(q.run)
    /\ /\ q.op \in {"cleanup", "insert_branch", "insert_replay_job",
                    "update_replay_job"}
       /\ InProgress(q.run)
       => Owner[q.run] = c

Invoke(c, q) ==
    /\ call[c] = Idle
    /\ made < MaxCalls
    /\ MayCall(c, q)
    /\ call' = [call EXCEPT ![c] = q]
    /\ made' = made + 1
    /\ reply' = [reply EXCEPT ![c] = <<"none", 0>>]
    /\ UNCHANGED <<tables, passed, snapshots>>

Answer(c, answer, value) ==
    /\ call' = [call EXCEPT ![c] = Idle]
    /\ passed' = [passed EXCEPT ![c] = 0]
    /\ reply' = [reply EXCEPT ![c] = <<answer, value>>]
    /\ UNCHANGED made

\* The connection or the transaction is dropped: nothing is written.
Refuse(c, answer) ==
    /\ Answer(c, answer, 0)
    /\ snapshots' = snapshots \ {c}
    /\ UNCHANGED tables

\* A commit outdates every other snapshot.
Commit(c, next, value) ==
    /\ Answer(c, "Ok", value)
    /\ tables' = next
    /\ snapshots' = {}

\* A lock is not granted within busy_timeout, or the file cannot be read.
Fail(c) == Refuse(c, "Internal")

Pass(c) ==
    /\ passed' = [passed EXCEPT ![c] = @ + 1]
    /\ UNCHANGED <<tables, call, reply, made>>

\* Faulty variant of Transaction: the write does not fail on an outdated snapshot.
TransactionOnOldSnapshot(c, refusal, taken, next) ==
    \/ /\ passed[c] = 0
       /\ \/ refusal # "Ok" /\ Refuse(c, refusal)
          \/ refusal = "Ok" /\ Pass(c) /\ snapshots' = snapshots \cup {c}
    \/ /\ passed[c] = 1
       /\ \/ taken /\ Refuse(c, "Conflict")
          \/ ~taken /\ Commit(c, next, 0)

\* with_transaction: all reads, then the insert, refused if its key is taken.
Transaction(c, refusal, taken, next) ==
    \/ /\ passed[c] = 0
       /\ \/ refusal # "Ok" /\ Refuse(c, refusal)
          \/ refusal = "Ok" /\ Pass(c) /\ snapshots' = snapshots \cup {c}
    \/ /\ passed[c] = 1
       /\ \/ c \notin snapshots /\ Refuse(c, "Internal")
          \/ c \in snapshots /\ taken /\ Refuse(c, "Conflict")
          \/ c \in snapshots /\ ~taken /\ Commit(c, next, 0)

\* with_connection: read after read, then the insert.
ReadByRead(c, found, taken, next) ==
    \/ /\ passed[c] < Len(found)
       /\ \/ ~found[passed[c] + 1] /\ Refuse(c, "NotFound")
          \/ found[passed[c] + 1] /\ Pass(c) /\ UNCHANGED snapshots
    \/ /\ passed[c] = Len(found)
       /\ \/ taken /\ Refuse(c, "Conflict")
          \/ ~taken /\ Commit(c, next, 0)

----------------------------------------------------------------------------
(* Calls whose first statement writes                                      *)

AllocateId(c, q) ==
    /\ q.op = "allocate_id"
    /\ Commit(c, [tables EXCEPT !.counters[q.kind] = @ + 1],
              tables.counters[q.kind] + 1)

InsertRun(c, q) ==
    /\ q.op = "insert_run"
    /\ \/ HasRun(tables, q.run) /\ Refuse(c, "Conflict")
       \/ /\ ~HasRun(tables, q.run)
          /\ Commit(c, [tables EXCEPT
                !.runs = @ \cup {[run |-> q.run, record |-> q.record]},
                !.sequences = @ \cup {[run |-> q.run, next |-> 0]}], 0)

UpdateRun(c, q) ==
    /\ q.op = "update_run"
    /\ \/ ~HasRun(tables, q.run) /\ Refuse(c, "NotFound")
       \/ /\ HasRun(tables, q.run)
          /\ Commit(c, [tables EXCEPT !.runs =
                {row \in @ : row.run # q.run}
                    \cup {[run |-> q.run, record |-> q.record]}], 0)

\* An immediate transaction: the delete statements of phase 1.
CleanupBranchExecution(c, q) ==
    LET Others(rows) == {row \in rows : row.run # q.run}
    IN  /\ q.op = "cleanup"
        /\ Commit(c, [tables EXCEPT
              !.diffs = {row \in @ : q.run \notin {row.source, row.run}},
              !.artifacts = Others(@), !.snapshots = Others(@),
              !.edges = Others(@), !.events = Others(@), !.spans = Others(@),
              !.sequences = Others(@), !.branches = Others(@),
              !.jobs = Others(@), !.runs = Others(@)], 0)

----------------------------------------------------------------------------
(* Deferred transactions                                                   *)

\* How many rows of a run came before, which no statement reads: the place that
\* InMemoryStorage gives the next.
Place(rows, run) == Cardinality({row.id : row \in OfRun(rows, run)})

\* The run's row of run_sequences is looked up, incremented and read again.
NextSequence(c, q) ==
    /\ q.op = "next_sequence"
    /\ \/ /\ passed[c] = 0
          /\ \/ ~HasCounter(tables, q.run) /\ Refuse(c, "NotFound")
             \/ /\ HasCounter(tables, q.run)
                /\ Pass(c)
                /\ snapshots' = snapshots \cup {c}
       \/ passed[c] = 1 /\ c \notin snapshots /\ Refuse(c, "Internal")
       \/ /\ passed[c] = 1 /\ c \in snapshots
          /\ \E row \in tables.sequences :
                /\ row.run = q.run
                /\ Commit(c, [tables EXCEPT !.sequences = (@ \ {row})
                       \cup {[run |-> q.run, next |-> row.next + 1]}],
                     row.next + 1)

UpsertSpan(c, q) ==
    /\ q.op = "upsert_span"
    /\ Transaction(c,
          IF ~HasRun(tables, q.run) THEN "NotFound"
          ELSE IF q.parent = q.id THEN "InvalidInput"
          ELSE IF OptionalSpan(tables, q.run, q.parent) THEN "Ok"
          ELSE "NotFound",
          FALSE,
          [tables EXCEPT !.spans = (@ \ Keyed(@, q.run, q.id)) \cup
             {[run |-> q.run, id |-> q.id, parent |-> q.parent, seq |-> q.seq]}])

InsertEvent(c, q) ==
    /\ q.op = "insert_event"
    /\ Transaction(c,
          IF HasRun(tables, q.run) /\ HasSpan(tables, q.run, q.span)
          THEN "Ok" ELSE "NotFound",
          Keyed(tables.events, q.run, q.id) # {},
          [tables EXCEPT !.events = @ \cup
             {[run |-> q.run, id |-> q.id, span |-> q.span, seq |-> q.seq,
               at |-> Place(@, q.run)]}])

InsertArtifact(c, q) ==
    /\ q.op = "insert_artifact"
    /\ Transaction(c,
          IF ~HasRun(tables, q.run) \/ ~OptionalSpan(tables, q.run, q.span)
          THEN "NotFound"
          ELSE IF q.valid THEN "Ok" ELSE "InvalidInput",
          HasArtifact(tables, q.run, q.id),
          [tables EXCEPT !.artifacts = @ \cup
             {[run |-> q.run, id |-> q.id, span |-> q.span,
               created |-> q.created]}])

InsertSnapshot(c, q) ==
    /\ q.op = "insert_snapshot"
    /\ Transaction(c,
          IF \/ ~HasRun(tables, q.run)
             \/ ~OptionalSpan(tables, q.run, q.span)
             \/ ~HasArtifact(tables, q.run, q.artifact)
          THEN "NotFound"
          ELSE IF q.span = NoSpan \/ Attached(tables, q.run, q.artifact, q.span)
          THEN "Ok" ELSE "InvalidInput",
          Keyed(tables.snapshots, q.run, q.id) # {},
          [tables EXCEPT !.snapshots = @ \cup
             {[run |-> q.run, id |-> q.id, span |-> q.span,
               artifact |-> q.artifact, created |-> q.created]}])

InsertEdge(c, q) ==
    /\ q.op = "insert_edge"
    /\ Transaction(c,
          IF /\ HasRun(tables, q.run)
             /\ HasSpan(tables, q.run, q.from)
             /\ HasSpan(tables, q.run, q.to)
          THEN "Ok" ELSE "NotFound",
          Keyed(tables.edges, q.run, q.id) # {},
          [tables EXCEPT !.edges = @ \cup
             {[run |-> q.run, id |-> q.id, from |-> q.from, to |-> q.to,
               at |-> Place(@, q.run)]}])

JobRow(q) == [run |-> q.run, source |-> q.source, status |-> q.status]

HasJob(t, run) == \E row \in t.jobs : row.run = run

\* The UPDATE that changes no row is reported after the transaction has begun
\* to write.
UpdateReplayJob(c, q) ==
    /\ q.op = "update_replay_job"
    /\ \/ /\ passed[c] = 1 /\ c \in snapshots /\ ~HasJob(tables, q.run)
          /\ Refuse(c, "NotFound")
       \/ /\ passed[c] = 0 \/ c \notin snapshots \/ HasJob(tables, q.run)
          /\ Transaction(c,
                IF HasRun(tables, q.source) /\ HasRun(tables, q.run)
                THEN "Ok" ELSE "NotFound",
                FALSE,
                [tables EXCEPT !.jobs =
                   {row \in @ : row.run # q.run} \cup {JobRow(q)}])

----------------------------------------------------------------------------
(* Calls outside of a transaction                                          *)

InsertBranch(c, q) ==
    /\ q.op = "insert_branch"
    /\ ReadByRead(c,
          << HasRun(tables, q.source), HasRun(tables, q.run),
             HasSpan(tables, q.source, q.span),
             HasArtifact(tables, q.run, q.manifest) >>,
          FALSE,
          [tables EXCEPT !.branches = {row \in @ : row.run # q.run} \cup
             {[run |-> q.run, source |-> q.source, span |-> q.span,
               manifest |-> q.manifest]}])

\* Faulty variant of InsertReplayJob: it overwrites the job of that id, as insert_branch
\* does with the branch.
InsertReplayJobOverwrites(c, q) ==
    /\ q.op = "insert_replay_job"
    /\ ReadByRead(c,
          << HasRun(tables, q.source), HasRun(tables, q.run) >>,
          FALSE,
          [tables EXCEPT !.jobs =
             {row \in @ : row.run # q.run} \cup {JobRow(q)}])

InsertReplayJob(c, q) ==
    /\ q.op = "insert_replay_job"
    /\ ReadByRead(c,
          << HasRun(tables, q.source), HasRun(tables, q.run) >>,
          HasJob(tables, q.run),
          [tables EXCEPT !.jobs = @ \cup {JobRow(q)}])

InsertDiff(c, q) ==
    /\ q.op = "insert_diff"
    /\ ReadByRead(c,
          << HasRun(tables, q.source), HasRun(tables, q.run) >>,
          FALSE,
          [tables EXCEPT !.diffs = @ \cup
             {[run |-> q.run, source |-> q.source]}])

----------------------------------------------------------------------------

Step(c, q) ==
    \/ Fail(c)
    \/ AllocateId(c, q) \/ NextSequence(c, q)
    \/ InsertRun(c, q) \/ UpdateRun(c, q)
    \/ UpsertSpan(c, q) \/ InsertEvent(c, q)
    \/ InsertArtifact(c, q) \/ InsertSnapshot(c, q) \/ InsertEdge(c, q)
    \/ InsertBranch(c, q) \/ InsertReplayJob(c, q) \/ UpdateReplayJob(c, q)
    \/ InsertDiff(c, q) \/ CleanupBranchExecution(c, q)

Next == \E c \in Clients :
    \/ \E q \in Requests : Invoke(c, q)
    \/ call[c] # Idle /\ Step(c, call[c])

Spec == Init /\ [][Next]_vars

----------------------------------------------------------------------------
(* Properties                                                              *)

\* No row refers to something that is not there: a parent, the span of an
\* event, the artifact of a snapshot, the ends of an edge, the run and manifest
\* of a branch, the run of a job, a run's counter, and whatever a branch, a job
\* or a diff was made from, unless that was a fork still in progress.
ReferencesResolve == ReferencesIn(tables) /\ CountersIn(tables)

\* What tables look like to a caller: the maps of InMemoryStorage.
NestedRows(rows, Value(_)) ==
    [run \in {row.run : row \in rows} |->
        LET mine == {row \in rows : row.run = run}
        IN  [id \in {row.id : row \in mine} |->
                Value(CHOOSE row \in mine : row.id = id)]]

ByRun(rows, Value(_)) ==
    [run \in {row.run : row \in rows} |->
        Value(CHOOSE row \in rows : row.run = run)]

Nested(t) ==
        [runs |-> ByRun(t.runs, Record),
         spans |-> NestedRows(t.spans, Span),
         events |-> NestedRows(t.events, Event),
         artifacts |-> NestedRows(t.artifacts, Artifact),
         snapshots |-> NestedRows(t.snapshots, Snapshot),
         edges |-> NestedRows(t.edges, Edge),
         branches |-> ByRun(t.branches, Branch),
         jobs |-> ByRun(t.jobs, Job),
         diffs |-> {<<row.source, row.run>> : row \in t.diffs},
         sequences |-> ByRun(t.sequences, Counter),
         counters |-> t.counters]

Memory == INSTANCE MemoryStorage WITH
    state <- Nested(tables),
    InitialStates <- {Nested(t) : t \in Stores}

\* An insert outside of a transaction goes on as if a fork in progress that it
\* has found were still there, though it has been cleaned up since.
InsertsAfterCleanup(c, q) ==
    /\ q.op \in {"insert_branch", "insert_replay_job", "insert_diff"}
    /\ \/ \E run \in {q.source, q.run} : InProgress(run) /\ ~HasRun(tables, run)
       \/ /\ q.op = "insert_branch"
          /\ InProgress(q.source) /\ ~HasSpan(tables, q.source, q.span)
    /\ \/ q.op = "insert_branch" /\ Memory!Settle(c, "Ok", Memory!BranchInserted(q))
       \/ /\ q.op = "insert_replay_job"
          /\ Memory!Settle(c, IF HasJob(tables, q.run) THEN "Conflict" ELSE "Ok",
                            Memory!JobInserted(q))
       \/ q.op = "insert_diff" /\ Memory!Settle(c, "Ok", Memory!DiffInserted(q))

MemoryNext ==
    \/ Memory!Next
    \/ \E c \in Clients : call[c] # Idle /\ InsertsAfterCleanup(c, call[c])

\* SqliteStorage answers and changes as InMemoryStorage does, each call taking
\* effect at one moment between its start and its answer, but for inserts that
\* come after the cleanup of a fork they refer to.
ImplementsMemory == Memory!Init /\ [][MemoryNext]_(Memory!vars)

\* The rows came in the order of their numbers.
CameInOrder(rows, Key(_)) == \A a, b \in rows :
    a.at < b.at <=> (Key(a) < Key(b) \/ (Key(a) = Key(b) /\ a.id < b.id))

\* Every read answers as InMemoryStorage would, lists in the same order; events
\* and edges, which it lists as they came, when they came in the order of their
\* numbers and ids, and otherwise the same ones.
ReadsAgree ==
    LET runs == {row.run : row \in tables.sequences}
        ids == {row.id : row \in tables.spans \cup tables.artifacts}
    IN  /\ ListRuns = Memory!ListRuns
        /\ ListBranches = Memory!ListBranches
        /\ \A run \in runs :
            /\ GetRun(run) = Memory!GetRun(run)
            /\ GetBranch(run) = Memory!GetBranch(run)
            /\ GetReplayJob(run) = Memory!GetReplayJob(run)
            /\ \A other \in runs : GetDiff(other, run) = Memory!GetDiff(other, run)
            /\ ListSpans(run) = Memory!ListSpans(run)
            /\ ListArtifacts(run) = Memory!ListArtifacts(run)
            /\ ListSnapshots(run) = Memory!ListSnapshots(run)
            /\ Range(ListEvents(run)) = Range(Memory!ListEvents(run))
            /\ CameInOrder(OfRun(tables.events, run), LAMBDA row : row.seq) =>
                   ListEvents(run) = Memory!ListEvents(run)
            /\ Range(ListEdges(run)) = Range(Memory!ListEdges(run))
            /\ CameInOrder(OfRun(tables.edges, run), LAMBDA row : 0) =>
                   ListEdges(run) = Memory!ListEdges(run)
            /\ \A id \in ids :
                /\ GetSpan(run, id) = Memory!GetSpan(run, id)
                /\ GetArtifact(run, id) = Memory!GetArtifact(run, id)
                /\ GetSnapshot(run, id) = Memory!GetSnapshot(run, id)

\* Events and edges are listed in the order of InMemoryStorage.
ListsAgree == \A row \in tables.sequences :
    /\ ListEvents(row.run) = Memory!ListEvents(row.run)
    /\ ListEdges(row.run) = Memory!ListEdges(row.run)

\* Atomically remove all persisted state of a failed branch command, and any
\* diffs where the target run is either side: nothing of the run comes back
\* after its cleanup has returned.
NothingLeftBehind == \A row \in tables.diffs :
    HasRun(tables, row.run) /\ HasRun(tables, row.source)
============================================================================
