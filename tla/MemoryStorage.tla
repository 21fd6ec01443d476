--------------------------- MODULE MemoryStorage ---------------------------
(***************************************************************************)
(* InMemoryStorage: the store the tests of every crate run on, and the     *)
(* promise SqliteStorage has to keep.  Its state is one structure of       *)
(* nested maps behind a lock that each call holds from its first look to   *)
(* its last change, so a call is one step: it refuses, or it takes effect. *)
(*                                                                         *)
(* A map is a function on the keys it holds.  Records keep the fields that *)
(* calls look at; a branch and its replay job bear the id of the run that  *)
(* execute_fork allocates together with them.  Contents and blobs are in   *)
(* BlobStorage.                                                            *)
(***************************************************************************)
EXTENDS Naturals, Functions, ListOrder

CONSTANTS
    Clients,      \* threads with a call on the store
    Requests,     \* the calls they make
    Idle,         \* no call
    NoSpan,       \* Option::None for a span id
    MaxCalls,     \* bound: calls made in all
    InitialStates \* what earlier calls may have left

VARIABLES
    state,   \* MemoryState
    call,    \* client -> the call it is in, or Idle
    reply,   \* client -> the answer to its last call, and its value if any
    made     \* calls made so far

vars == <<state, call, reply, made>>

Empty == [k \in {} |-> NoSpan]

Put(map, key, value) ==
    [k \in DOMAIN map \cup {key} |-> IF k = key THEN value ELSE map[k]]

Drop(map, key) == Restrict(map, DOMAIN map \ {key})

\* map.get(run), when the run has records; map.entry(run).or_default().
Of(map, run) == IF run \in DOMAIN map THEN map[run] ELSE Empty

PutOf(map, run, key, value) == Put(map, run, Put(Of(map, run), key, value))

Init ==
    /\ state \in InitialStates
    /\ call = [c \in Clients |-> Idle]
    /\ reply = [c \in Clients |-> <<"none", 0>>]
    /\ made = 0

----------------------------------------------------------------------------
(* Lookups                                                                 *)

RunExists(run) == run \in DOMAIN state.runs

SpanExists(run, span) == span \in DOMAIN Of(state.spans, run)

ArtifactExists(run, artifact) == artifact \in DOMAIN Of(state.artifacts, run)

\* ensure_artifact_attached_to_span
AttachedTo(run, artifact, span) == Of(state.artifacts, run)[artifact].span = span

----------------------------------------------------------------------------
(* Reads.  A get answers a sequence of one record, or of none: NotFound.   *)
(* A list answers ids, in the order of the records.                        *)

Found(map, id) == IF id \in DOMAIN map THEN <<map[id]>> ELSE <<>>

\* Values of a map come in the order of their ids; the sort by Key is stable.
Sorted(map, Key(_)) == InOrder(DOMAIN map,
    [id \in DOMAIN map |-> Key(map[id])], [id \in DOMAIN map |-> id])

GetRun(run)            == Found(state.runs, run)
GetSpan(run, id)       == Found(Of(state.spans, run), id)
GetArtifact(run, id)   == Found(Of(state.artifacts, run), id)
GetSnapshot(run, id)   == Found(Of(state.snapshots, run), id)
GetBranch(run)         == Found(state.branches, run)
GetReplayJob(run)      == Found(state.jobs, run)
GetDiff(source, run)   == <<source, run>> \in state.diffs

ListRuns           == Sorted(state.runs, LAMBDA r : r.started)
ListSpans(run)     == Sorted(Of(state.spans, run), LAMBDA r : r.seq)
ListArtifacts(run) == Sorted(Of(state.artifacts, run), LAMBDA r : r.created)
ListSnapshots(run) == Sorted(Of(state.snapshots, run), LAMBDA r : r.created)
ListBranches       == Sorted(state.branches, LAMBDA r : 0)

\* Events and edges are pushed onto a Vec and listed as they came: a record is
\* at the place that those before it leave.
Place(map, run) == Cardinality(DOMAIN Of(map, run))

ListEvents(run) == Sorted(Of(state.events, run), LAMBDA r : r.at)
ListEdges(run)  == Sorted(Of(state.edges, run), LAMBDA r : r.at)

----------------------------------------------------------------------------
(* Calls                                                                   *)

Invoke(c, q) ==
    /\ call[c] = Idle
    /\ made < MaxCalls
    /\ call' = [call EXCEPT ![c] = q]
    /\ made' = made + 1
    /\ reply' = [reply EXCEPT ![c] = <<"none", 0>>]
    /\ UNCHANGED state

Answer(c, answer, value) ==
    /\ call' = [call EXCEPT ![c] = Idle]
    /\ reply' = [reply EXCEPT ![c] = <<answer, value>>]
    /\ UNCHANGED made

\* The call is refused, or accepted with its effect.
Settle(c, refusal, next) ==
    \/ refusal # "Ok" /\ Answer(c, refusal, 0) /\ UNCHANGED state
    \/ refusal = "Ok" /\ Answer(c, "Ok", 0) /\ state' = next

\* The lock is poisoned.
Fail(c) == Answer(c, "Internal", 0) /\ UNCHANGED state

AllocateId(c, q) ==
    /\ q.op = "allocate_id"
    /\ state' = [state EXCEPT !.counters[q.kind] = @ + 1]
    /\ Answer(c, "Ok", state.counters[q.kind] + 1)

NextSequence(c, q) ==
    /\ q.op = "next_sequence"
    /\ \/ /\ ~RunExists(q.run)
          /\ Answer(c, "NotFound", 0)
          /\ UNCHANGED state
       \/ /\ RunExists(q.run)
          /\ state' = [state EXCEPT !.sequences[q.run] = @ + 1]
          /\ Answer(c, "Ok", state.sequences[q.run] + 1)

InsertRun(c, q) ==
    /\ q.op = "insert_run"
    /\ Settle(c, IF RunExists(q.run) THEN "Conflict" ELSE "Ok",
              [state EXCEPT !.sequences = Put(@, q.run, 0),
                            !.runs = Put(@, q.run, q.record)])

UpdateRun(c, q) ==
    /\ q.op = "update_run"
    /\ Settle(c, IF RunExists(q.run) THEN "Ok" ELSE "NotFound",
              [state EXCEPT !.runs = Put(@, q.run, q.record)])

UpsertSpan(c, q) ==
    /\ q.op = "upsert_span"
    /\ Settle(c, IF ~RunExists(q.run) THEN "NotFound"
                 ELSE IF q.parent = q.id THEN "InvalidInput"
                 ELSE IF q.parent # NoSpan /\ ~SpanExists(q.run, q.parent)
                      THEN "NotFound"
                 ELSE "Ok",
              [state EXCEPT !.spans =
                 PutOf(@, q.run, q.id, [parent |-> q.parent, seq |-> q.seq])])

InsertEvent(c, q) ==
    /\ q.op = "insert_event"
    /\ Settle(c, IF ~RunExists(q.run) \/ ~SpanExists(q.run, q.span)
                      THEN "NotFound"
                 ELSE IF q.id \in DOMAIN Of(state.events, q.run) THEN "Conflict"
                 ELSE "Ok",
              [state EXCEPT !.events =
                 PutOf(@, q.run, q.id,
                       [span |-> q.span, seq |-> q.seq, at |-> Place(@, q.run)])])

\* insert_artifact, and store_artifact_with_content after its content.
InsertArtifact(c, q) ==
    /\ q.op = "insert_artifact"
    /\ Settle(c, IF \/ ~RunExists(q.run)
                    \/ q.span # NoSpan /\ ~SpanExists(q.run, q.span)
                      THEN "NotFound"
                 ELSE IF ~q.valid THEN "InvalidInput"
                 ELSE IF ArtifactExists(q.run, q.id) THEN "Conflict"
                 ELSE "Ok",
              [state EXCEPT !.artifacts =
                 PutOf(@, q.run, q.id, [span |-> q.span, created |-> q.created])])

InsertSnapshot(c, q) ==
    /\ q.op = "insert_snapshot"
    /\ Settle(c, IF \/ ~RunExists(q.run)
                    \/ q.span # NoSpan /\ ~SpanExists(q.run, q.span)
                    \/ ~ArtifactExists(q.run, q.artifact)
                      THEN "NotFound"
                 ELSE IF q.span # NoSpan /\ ~AttachedTo(q.run, q.artifact, q.span)
                      THEN "InvalidInput"
                 ELSE IF q.id \in DOMAIN Of(state.snapshots, q.run)
                      THEN "Conflict"
                 ELSE "Ok",
              [state EXCEPT !.snapshots =
                 PutOf(@, q.run, q.id, [span |-> q.span, artifact |-> q.artifact,
                                  created |-> q.created])])

InsertEdge(c, q) ==
    /\ q.op = "insert_edge"
    /\ Settle(c, IF \/ ~RunExists(q.run)
                    \/ ~SpanExists(q.run, q.from) \/ ~SpanExists(q.run, q.to)
                      THEN "NotFound"
                 ELSE IF q.id \in DOMAIN Of(state.edges, q.run) THEN "Conflict"
                 ELSE "Ok",
              [state EXCEPT !.edges =
                 PutOf(@, q.run, q.id,
                       [from |-> q.from, to |-> q.to, at |-> Place(@, q.run)])])

BranchInserted(q) ==
    [state EXCEPT !.branches = Put(@, q.run,
        [source |-> q.source, span |-> q.span, manifest |-> q.manifest])]

JobInserted(q) ==
    [state EXCEPT !.jobs = Put(@, q.run,
        [source |-> q.source, status |-> q.status])]

DiffInserted(q) == [state EXCEPT !.diffs = @ \cup {<<q.source, q.run>>}]

InsertBranch(c, q) ==
    /\ q.op = "insert_branch"
    /\ Settle(c, IF \/ ~RunExists(q.source) \/ ~RunExists(q.run)
                    \/ ~SpanExists(q.source, q.span)
                    \/ ~ArtifactExists(q.run, q.manifest)
                      THEN "NotFound" ELSE "Ok",
              BranchInserted(q))

InsertReplayJob(c, q) ==
    /\ q.op = "insert_replay_job"
    /\ Settle(c, IF ~RunExists(q.source) \/ ~RunExists(q.run) THEN "NotFound"
                 ELSE IF q.run \in DOMAIN state.jobs THEN "Conflict"
                 ELSE "Ok",
              JobInserted(q))

UpdateReplayJob(c, q) ==
    /\ q.op = "update_replay_job"
    /\ Settle(c, IF \/ ~RunExists(q.source) \/ ~RunExists(q.run)
                    \/ q.run \notin DOMAIN state.jobs
                      THEN "NotFound" ELSE "Ok",
              JobInserted(q))

InsertDiff(c, q) ==
    /\ q.op = "insert_diff"
    /\ Settle(c, IF ~RunExists(q.source) \/ ~RunExists(q.run)
                      THEN "NotFound" ELSE "Ok",
              DiffInserted(q))

CleanupBranchExecution(c, q) ==
    /\ q.op = "cleanup"
    /\ Settle(c, "Ok",
              [state EXCEPT !.artifacts = Drop(@, q.run), !.spans = Drop(@, q.run),
                            !.events = Drop(@, q.run), !.snapshots = Drop(@, q.run),
                            !.edges = Drop(@, q.run), !.sequences = Drop(@, q.run),
                            !.runs = Drop(@, q.run), !.branches = Drop(@, q.run),
                            !.jobs = Drop(@, q.run),
                            !.diffs = {d \in @ : q.run \notin {d[1], d[2]}}])

Perform(c, q) ==
    \/ Fail(c)
    \/ AllocateId(c, q) \/ NextSequence(c, q)
    \/ InsertRun(c, q) \/ UpdateRun(c, q)
    \/ UpsertSpan(c, q) \/ InsertEvent(c, q)
    \/ InsertArtifact(c, q) \/ InsertSnapshot(c, q) \/ InsertEdge(c, q)
    \/ InsertBranch(c, q) \/ InsertReplayJob(c, q) \/ UpdateReplayJob(c, q)
    \/ InsertDiff(c, q) \/ CleanupBranchExecution(c, q)

Next == \E c \in Clients :
    \/ \E q \in Requests : Invoke(c, q)
    \/ call[c] # Idle /\ Perform(c, call[c])

Spec == Init /\ [][Next]_vars
============================================================================
