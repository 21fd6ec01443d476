------------------------------ MODULE Collector ------------------------------
(***************************************************************************)
(* How the collector records one run: start_span, end_span, add_event,     *)
(* finish_run and abort_run, as handlers that overlap.                     *)
(*                                                                         *)
(* The server runs every request on a worker thread and holds no lock: a   *)
(* handler is a chain of storage calls, each one transaction, and other    *)
(* handlers get in between.  Records are read, changed in memory and       *)
(* written back whole.  Any storage call can fail (SQLITE_BUSY), and the   *)
(* handler then returns an error with its earlier writes in place.  The    *)
(* server may crash and, when it starts again, marks running runs.         *)
(*                                                                         *)
(* The run's row exists from the start (begin_run has returned) and is     *)
(* never deleted: nothing cleans up a recorded run.                        *)
(***************************************************************************)
EXTENDS Integers, Sequences, FiniteSets

CONSTANTS
    Allocated,    \* span ids that allocate_id hands out: span-0..01, span-0..02, ...
    Named,        \* span ids that clients choose: any, also ones of Allocated
    Tasks,        \* requests in flight
    NoSpan,
    ReadErrors,   \* whether reading a span's row may fail
    MaxSequence,  \* bound on next_sequence
    MaxPoints     \* bound on the workspace snapshots that succeed

Spans == Allocated \cup Named

ASSUME CollectorAssumption ==
    /\ NoSpan \notin Spans
    /\ ReadErrors \in BOOLEAN
    /\ MaxSequence \in Nat
    /\ MaxPoints \in Nat

VARIABLES
    run,        \* the row of table runs
    spans,      \* table spans
    events,     \* sequence numbers of the rows of table events
    sequence,   \* run_sequences.next_sequence
    allocated,  \* span ids handed out so far
    points,     \* workspace snapshots, in the order they were inserted
    up,         \* the server accepts requests
    pc, op, target, copy, row, ordinal   \* each handler's locals

dbVars    == <<run, spans, events, sequence, allocated, points>>
localVars == <<target, copy, row, ordinal>>
vars      == <<run, spans, events, sequence, allocated, points, up,
               pc, op, target, copy, row, ordinal>>

\* "Completed" stands for every status but the other two.
RunStatus  == {"Running", "Completed", "Interrupted"}
Outcomes   == {"Completed", "Failed"}
SpanStatus == {"Running"} \cup Outcomes
Operations == {"start", "end", "event", "finish", "abort"}

Positions ==
    {"idle", "sequence", "identify", "upsert", "reread", "root",
     "read", "insert", "list", "update", "capture", "point"}

NoRecord == [status |-> "absent", parent |-> NoSpan, seq |-> 0]

SpanRecord == [status : {"absent"} \cup SpanStatus,
               parent : Spans \cup {NoSpan},
               seq    : Nat]

\* "counted" are the spans the summary was computed from.
RunRecord == [status  : RunStatus,
              root    : Spans \cup {NoSpan},
              counted : SUBSET Spans]

NewRun == [status |-> "Running", root |-> NoSpan, counted |-> {}]

Point == [span : Spans \cup {NoSpan}, by : Operations, ordinal : Nat]

TypeOK ==
    /\ run \in RunRecord
    /\ spans \in [Spans -> SpanRecord]
    /\ events \subseteq Nat
    /\ sequence \in Nat
    /\ allocated \subseteq Allocated
    /\ points \in Seq(Point)
    /\ up \in BOOLEAN
    /\ pc \in [Tasks -> Positions]
    /\ op \in [Tasks -> Operations]
    /\ target \in [Tasks -> Spans \cup {NoSpan}]
    /\ \A t \in Tasks : op[t] \in {"end", "event"} => target[t] \in Spans
    /\ copy \in [Tasks -> SpanRecord]
    /\ row \in [Tasks -> RunRecord]
    /\ ordinal \in [Tasks -> Nat]

Init ==
    /\ run = NewRun
    /\ spans = [x \in Spans |-> NoRecord]
    /\ events = {}
    /\ sequence = 0
    /\ allocated = {}
    /\ points = <<>>
    /\ up = TRUE
    /\ pc = [t \in Tasks |-> "idle"]
    /\ op = [t \in Tasks |-> "start"]
    /\ target = [t \in Tasks |-> NoSpan]
    /\ copy = [t \in Tasks |-> NoRecord]
    /\ row = [t \in Tasks |-> NewRun]
    /\ ordinal = [t \in Tasks |-> 0]

----------------------------------------------------------------------------
Exists(x)   == spans[x].status # "absent"
Existing    == {x \in Spans : Exists(x)}
Terminal(x) == spans[x].status \in Outcomes

Goto(t, to) == pc' = [pc EXCEPT ![t] = to]

\* The handler answers and its locals are gone.
Return(t) ==
    /\ Goto(t, "idle")
    /\ op' = [op EXCEPT ![t] = "start"]
    /\ target' = [target EXCEPT ![t] = NoSpan]
    /\ copy' = [copy EXCEPT ![t] = NoRecord]
    /\ row' = [row EXCEPT ![t] = NewRun]
    /\ ordinal' = [ordinal EXCEPT ![t] = 0]

\* A request arrives: operation o on span x (NoSpan: none, or one to allocate)
\* with the parent p.
Call(t, o, x, p, first) ==
    /\ up
    /\ pc[t] = "idle"
    /\ Goto(t, first)
    /\ op' = [op EXCEPT ![t] = o]
    /\ target' = [target EXCEPT ![t] = x]
    /\ copy' = [copy EXCEPT ![t].parent = p]
    /\ UNCHANGED <<dbVars, up, row, ordinal>>

----------------------------------------------------------------------------
(* start_span                                                              *)

\* A caller may name the new span; its parent may not exist yet.
StartCall(t) ==
    \E x \in Named \cup {NoSpan}, p \in Spans \cup {NoSpan} :
        Call(t, "start", x, p, "sequence")

\* Faulty variant: only spans move the counter on.
NextSequenceOfSpans(t) ==
    /\ pc[t] = "sequence"
    /\ sequence < MaxSequence
    /\ sequence' = IF op[t] = "start" THEN sequence + 1 ELSE sequence
    /\ copy' = [copy EXCEPT ![t].seq = sequence + 1]
    /\ Goto(t, IF op[t] = "start" THEN "identify" ELSE "insert")
    /\ UNCHANGED <<run, spans, events, allocated, points, up,
                   op, target, row, ordinal>>

\* next_sequence comes before any check: the number is used up even when the
\* request is rejected.
NextSequence(t) ==
    /\ pc[t] = "sequence"
    /\ sequence < MaxSequence
    /\ sequence' = sequence + 1
    /\ copy' = [copy EXCEPT ![t].seq = sequence + 1]
    /\ Goto(t, IF op[t] = "start" THEN "identify" ELSE "insert")
    /\ UNCHANGED <<run, spans, events, allocated, points, up,
                   op, target, row, ordinal>>

\* Faulty variant: the id counter is read and not moved on.
StartIdentifyPeeks(t) ==
    /\ pc[t] = "identify"
    /\ copy[t].parent # NoSpan => Exists(copy[t].parent)
    /\ IF target[t] = NoSpan
       THEN \E x \in Allocated \ allocated : target' = [target EXCEPT ![t] = x]
       ELSE ~Exists(target[t]) /\ UNCHANGED target
    /\ copy' = [copy EXCEPT ![t].status = "Running"]
    /\ Goto(t, "upsert")
    /\ UNCHANGED <<dbVars, up, op, row, ordinal>>

\* Faulty variant: nobody asks whether the id is taken.
StartIdentifyTaken(t) ==
    /\ pc[t] = "identify"
    /\ copy[t].parent # NoSpan => Exists(copy[t].parent)
    /\ IF target[t] = NoSpan
       THEN \E x \in Allocated \ allocated :
               /\ allocated' = allocated \cup {x}
               /\ target' = [target EXCEPT ![t] = x]
       ELSE UNCHANGED <<allocated, target>>
    /\ copy' = [copy EXCEPT ![t].status = "Running"]
    /\ Goto(t, "upsert")
    /\ UNCHANGED <<run, spans, events, sequence, points, up, op, row, ordinal>>

\* The parent exists.  A named id has to be free, and "get_span(..).is_ok()" takes
\* it for free also when its row cannot be read; of an allocated id nobody asks
\* whether a client has named a span so.
StartIdentify(t) ==
    /\ pc[t] = "identify"
    /\ copy[t].parent # NoSpan => Exists(copy[t].parent)
    /\ IF target[t] = NoSpan
       THEN \E x \in Allocated \ allocated :
               /\ allocated' = allocated \cup {x}
               /\ target' = [target EXCEPT ![t] = x]
       ELSE /\ Exists(target[t]) => ReadErrors
            /\ UNCHANGED <<allocated, target>>
    /\ copy' = [copy EXCEPT ![t].status = "Running"]
    /\ Goto(t, "upsert")
    /\ UNCHANGED <<run, spans, events, sequence, points, up,
                   op, row, ordinal>>

\* upsert_span replaces whatever row the id has by now.
UpsertSpan(t) ==
    /\ pc[t] = "upsert"
    /\ copy[t].parent # target[t]
    /\ copy[t].parent # NoSpan => Exists(copy[t].parent)
    /\ spans' = [spans EXCEPT ![target[t]] = copy[t]]
    /\ IF op[t] = "start"
       THEN Goto(t, "reread") /\ UNCHANGED copy
       ELSE Goto(t, "capture") /\ copy' = [copy EXCEPT ![t] = NoRecord]
    /\ UNCHANGED <<run, events, sequence, allocated, points, up,
                   op, target, row, ordinal>>

BecomesRoot(t) == copy[t].parent = NoSpan /\ run.root = NoSpan

\* get_run, to see whether this span becomes the root.
StartReread(t) ==
    /\ pc[t] = "reread"
    /\ IF BecomesRoot(t)
       THEN Goto(t, "root") /\ row' = [row EXCEPT ![t] = run]
       ELSE Goto(t, "capture") /\ UNCHANGED row
    /\ copy' = [copy EXCEPT ![t] = NoRecord]
    /\ UNCHANGED <<dbVars, up, op, target, ordinal>>

\* update_run writes the whole record back, not only the root.
StartRoot(t) ==
    /\ pc[t] = "root"
    /\ run' = [row[t] EXCEPT !.root = target[t]]
    /\ row' = [row EXCEPT ![t] = NewRun]
    /\ Goto(t, "capture")
    /\ UNCHANGED <<spans, events, sequence, allocated, points, up,
                   op, target, copy, ordinal>>

----------------------------------------------------------------------------
(* end_span                                                                *)

EndCall(t) == \E x \in Spans : Call(t, "end", x, NoSpan, "read")

\* The request names the status, and it may say Running.
EndRead(t) ==
    /\ pc[t] = "read"
    /\ op[t] = "end"
    /\ Exists(target[t])
    /\ ~Terminal(target[t])
    /\ \E status \in SpanStatus :
          copy' = [copy EXCEPT ![t] =
                      [spans[target[t]] EXCEPT !.status = status]]
    /\ Goto(t, "upsert")
    /\ UNCHANGED <<dbVars, up, op, target, row, ordinal>>

----------------------------------------------------------------------------
(* add_event                                                               *)

EventCall(t) == \E x \in Existing : Call(t, "event", x, NoSpan, "sequence")

EventInsert(t) ==
    /\ pc[t] = "insert"
    /\ Exists(target[t])
    /\ events' = events \cup {copy[t].seq}
    /\ Return(t)
    /\ UNCHANGED <<run, spans, sequence, allocated, points, up>>

----------------------------------------------------------------------------
(* finish_run and abort_run                                                *)

CloseCall(t) == \E o \in {"finish", "abort"} : Call(t, o, NoSpan, NoSpan, "read")

\* get_run: this copy is what the handler writes back in the end.
CloseRead(t) ==
    /\ pc[t] = "read"
    /\ op[t] \in {"finish", "abort"}
    /\ row' = [row EXCEPT ![t] = run]
    /\ Goto(t, "list")
    /\ UNCHANGED <<dbVars, up, op, target, copy, ordinal>>

\* What the run will say: the request to finish it names any status, Running
\* too, and abort_run's is Interrupted.
Closing(t) == IF op[t] = "finish" THEN RunStatus ELSE {"Interrupted"}

\* Faulty variant: nobody insists that the spans have ended.
CloseListUnchecked(t) ==
    /\ pc[t] = "list"
    /\ \E s \in Closing(t) :
          row' = [row EXCEPT ![t].counted = Existing, ![t].status = s]
    /\ Goto(t, IF op[t] = "finish" THEN "capture" ELSE "update")
    /\ UNCHANGED <<dbVars, up, op, target, copy, ordinal>>

\* Faulty variant: abort_run leaves the status it has read.
CloseListKeepsStatus(t) ==
    /\ pc[t] = "list"
    /\ op[t] = "finish" => \A x \in Existing : Terminal(x)
    /\ \E s \in IF op[t] = "finish" THEN RunStatus ELSE {row[t].status} :
          row' = [row EXCEPT ![t].counted = Existing, ![t].status = s]
    /\ Goto(t, IF op[t] = "finish" THEN "capture" ELSE "update")
    /\ UNCHANGED <<dbVars, up, op, target, copy, ordinal>>

\* list_spans: only finish_run insists that they have ended.  It then takes
\* the final workspace snapshot; abort_run takes none.
CloseList(t) ==
    /\ pc[t] = "list"
    /\ op[t] = "finish" => \A x \in Existing : Terminal(x)
    /\ \E s \in Closing(t) :
          row' = [row EXCEPT ![t].counted = Existing, ![t].status = s]
    /\ Goto(t, IF op[t] = "finish" THEN "capture" ELSE "update")
    /\ UNCHANGED <<dbVars, up, op, target, copy, ordinal>>

CloseUpdate(t) ==
    /\ pc[t] = "update"
    /\ run' = row[t]
    /\ Return(t)
    /\ UNCHANGED <<spans, events, sequence, allocated, points, up>>

----------------------------------------------------------------------------
(* capture_workspace                                                       *)

AfterCapture(t) ==
    IF op[t] = "finish"
    THEN Goto(t, "update") /\ UNCHANGED <<op, localVars>>
    ELSE Return(t)

\* list_workspace_points sorts by ordinal: n is one more than the last, or 0.
NextOrdinal(n) ==
    /\ \A i \in DOMAIN points : points[i].ordinal < n
    /\ n = 0 \/ \E i \in DOMAIN points : points[i].ordinal = n - 1

\* Faulty variant: the ordinal is the number of points.
CaptureReadCounts(t) ==
    /\ pc[t] = "capture"
    /\ Len(points) < MaxPoints
    /\ ordinal' = [ordinal EXCEPT ![t] = Len(points)]
    /\ Goto(t, "point")
    /\ UNCHANGED <<dbVars, up, op, target, copy, row>>

\* Faulty variant: each phase numbers its own points.
CaptureReadPerPhase(t) ==
    /\ pc[t] = "capture"
    /\ Len(points) < MaxPoints
    /\ ordinal' = [ordinal EXCEPT ![t] =
                      Cardinality({i \in DOMAIN points : points[i].by = op[t]})]
    /\ Goto(t, "point")
    /\ UNCHANGED <<dbVars, up, op, target, copy, row>>

\* The next ordinal is one more than the last that is recorded now ...
CaptureRead(t) ==
    /\ pc[t] = "capture"
    /\ Len(points) < MaxPoints
    /\ \E n \in 0 .. MaxPoints :
          NextOrdinal(n) /\ ordinal' = [ordinal EXCEPT ![t] = n]
    /\ Goto(t, "point")
    /\ UNCHANGED <<dbVars, up, op, target, copy, row>>

\* ... and the point is inserted later, after its archive is stored.
CaptureRecord(t) ==
    /\ pc[t] = "point"
    /\ points' = Append(points,
                   [span |-> target[t], by |-> op[t], ordinal |-> ordinal[t]])
    /\ AfterCapture(t)
    /\ UNCHANGED <<run, spans, events, sequence, allocated, up>>

\* The run declares no workspace, or capturing it fails: the recording goes on.
CaptureSkip(t) ==
    /\ pc[t] \in {"capture", "point"}
    /\ AfterCapture(t)
    /\ UNCHANGED <<dbVars, up>>

----------------------------------------------------------------------------
(* Errors, crash and recovery                                              *)

\* A check fails, or a storage call does.  What was written stays.
Reject(t) ==
    /\ pc[t] # "idle"
    /\ Return(t)
    /\ UNCHANGED <<dbVars, up>>

Crash ==
    /\ up
    /\ up' = FALSE
    /\ pc' = [t \in Tasks |-> "idle"]
    /\ op' = [t \in Tasks |-> "start"]
    /\ target' = [t \in Tasks |-> NoSpan]
    /\ copy' = [t \in Tasks |-> NoRecord]
    /\ row' = [t \in Tasks |-> NewRun]
    /\ ordinal' = [t \in Tasks |-> 0]
    /\ UNCHANGED dbVars

\* recover_interrupted_runs, before the server listens.  It looks at runs only.
Recover ==
    /\ ~up
    /\ up' = TRUE
    /\ run' = IF run.status = "Running"
              THEN [run EXCEPT !.status = "Interrupted"] ELSE run
    /\ UNCHANGED <<spans, events, sequence, allocated, points, pc, op, localVars>>

----------------------------------------------------------------------------
Calls(t) == StartCall(t) \/ EndCall(t) \/ EventCall(t) \/ CloseCall(t)

Step(t) ==
    \/ NextSequence(t) \/ StartIdentify(t) \/ UpsertSpan(t)
    \/ StartReread(t) \/ StartRoot(t)
    \/ EndRead(t) \/ EventInsert(t)
    \/ CloseRead(t) \/ CloseList(t) \/ CloseUpdate(t)
    \/ CaptureRead(t) \/ CaptureRecord(t) \/ CaptureSkip(t)
    \/ Reject(t)

Next ==
    \/ \E t \in Tasks : Calls(t) \/ Step(t)
    \/ Crash \/ Recover

Spec == Init /\ [][Next]_vars

----------------------------------------------------------------------------
(* Properties                                                              *)

\* "The collector should assign a monotonic sequence_no within each run": no
\* two spans, and no span and event, ever share a number, although handlers
\* draw, fail, crash and write stale copies back in any order.
SequencesUnique ==
    \A x \in Existing :
        /\ spans[x].seq \notin events
        /\ \A y \in Existing : spans[x].seq = spans[y].seq => x = y

\* An end_span that is about to write a status that is none.
EndsRunning(t) == op[t] = "end" /\ pc[t] = "upsert" /\ copy[t].status = "Running"

\* A span whose id the collector allocated, and that no client names, never runs
\* again once it has ended: no overlapping start, end or retry reaches its row with
\* an older copy, unless a client ends it as Running.
AllocatedSpansNeverReopen ==
    [][(\A t \in Tasks : ~EndsRunning(t)) =>
          \A x \in Allocated \ Named : Terminal(x) => Terminal(x)']_vars

\* A handler that is about to write a row of the run that says Running: a start
\* that has read it so, or a client's request to finish the run as Running.
HoldsRunning(t) ==
    /\ row[t].status = "Running"
    /\ pc[t] = "root" \/ (op[t] = "finish" /\ pc[t] \in {"capture", "point", "update"})

\* A run that is closed (finished, aborted or recovered) while no handler is
\* about to write that it runs stays closed.  Closing it twice, late spans and
\* restarts do not undo it.
ClosedRunStaysClosed ==
    [][run.status # "Running" /\ (\A t \in Tasks : ~HoldsRunning(t))
         => run'.status # "Running"]_vars

\* The workspace timeline has no holes: whatever order overlapping handlers
\* record their captures in, the ordinal before each one was there before it.
OrdinalsWithoutGaps ==
    \A i \in DOMAIN points :
        points[i].ordinal = 0
        \/ \E j \in 1 .. i - 1 : points[j].ordinal = points[i].ordinal - 1

\* finish_run's error "cannot finish while spans are still running".  It looks
\* once, and spans may start before it writes and after.
FinishedRunHasNoRunningSpans ==
    run.status = "Completed" => \A x \in Spans : spans[x].status # "Running"

\* The rows form trees: every parent is there, and no set of spans is closed under
\* going to the parent.  So run_tree, which starts at the spans without a parent,
\* finds every span, and timeline_depth, which follows the parents, ends.
SpansFormTrees ==
    /\ \A x \in Existing : spans[x].parent \in Existing \cup {NoSpan}
    /\ \A S \in SUBSET Existing : S # {} => \E x \in S : spans[x].parent \notin S

\* "A completed run should be treated as immutable" (architecture 4.4), by a
\* start_span at least.  One that read the run before it finished writes its copy
\* back.
FinishedStaysFinished ==
    [][run.status = "Completed" /\ (\E t \in Tasks : op[t] = "start" /\ pc'[t] # pc[t])
         => run'.status # "Running"]_vars

\* The same of allocated ids that clients may name: a client's span may have the
\* id already, and a start that is given the id writes over the row.
AllocatedSpansStayEnded ==
    [][(\A t \in Tasks : ~EndsRunning(t)) =>
          \A x \in Allocated : Terminal(x) => Terminal(x)']_vars

\* A closed run stays closed unless a start writes it back.  A request to finish
\* the run may name any status, Running too.
FinishingEnds ==
    [][run.status # "Running" /\ (\A t \in Tasks : pc[t] # "root")
         => run'.status # "Running"]_vars

\* "spans are immutable after completion" (architecture 10.2), and ending a
\* span twice is an error.  Two requests may both find the span running.
TerminalSpansFinal ==
    [][\A x \in Spans : Terminal(x) => spans'[x] = spans[x]]_vars

\* The recovery scan of architecture 13.9 covers "spans left in running": when
\* the server is back, and before any request, no span is running.
RecoveryInterruptsSpans ==
    [][~up /\ up' => \A x \in Spans : spans'[x].status # "Running"]_vars
=============================================================================
