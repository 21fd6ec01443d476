-------------------------- MODULE CollectorSession --------------------------
(***************************************************************************)
(* The collector driven by the SDK, in the process of the application: a   *)
(* tracing layer that opens and closes spans with those of the             *)
(* application, record_completed_span, and finish.                         *)
(*                                                                         *)
(* The layer keeps the id of a span it has opened in the extensions of the *)
(* application's span, and drops every error.  The tracing registry closes *)
(* a span after the spans within it.  Calls of several threads overlap.    *)
(* SemanticSession::start begins a run without a workspace; the run given  *)
(* to with_sink may have one, so that captures may be taken or skipped.    *)
(***************************************************************************)
EXTENDS Collector

CONSTANTS
    AppSpans,  \* spans of the application
    Programs   \* what they are: the span each is within, how it is recorded
               \* ("plain": not at all, "layer", "whole": record_completed_span)
               \* and the id that the application chooses

None == "none"

\* The application chooses no id for two of its spans, and none that allocate_id
\* will hand out.
ASSUME ProgramsAssumption ==
    /\ None \notin AppSpans
    /\ \A p \in Programs :
          /\ p.within \in [AppSpans -> AppSpans \cup {None}]
          /\ p.how \in [AppSpans -> {"plain", "layer", "whole"}]
          /\ p.chosen \in [AppSpans -> (Named \ Allocated) \cup {NoSpan}]
          /\ \A a, b \in AppSpans :
                p.chosen[a] = p.chosen[b] => a = b \/ p.chosen[a] = NoSpan

VARIABLES
    program,
    stage,    \* of each application span: "new", "opening", "open", "ending" or "closed"
    handle,   \* the span recorded for it, once open_span or start_span has answered
    doing,    \* the application span that each request is for
    closing   \* finish has been called

sessionLocals == <<program, stage, handle, doing, closing>>
sessionVars == <<vars, sessionLocals>>

SessionInit ==
    /\ Init
    /\ program \in Programs
    /\ stage = [a \in AppSpans |-> "new"]
    /\ handle = [a \in AppSpans |-> NoSpan]
    /\ doing = [t \in Tasks |-> None]
    /\ closing = FALSE

Within(a) == {b \in AppSpans : program.within[b] = a}

\* The fields of a tracing span that the layer reads: a span is recorded when
\* rk_kind names a kind, and rk_span_id chooses its id.
ChosenId(a) == program.chosen[a]
Recorded(a) == program.how[a] # "plain"

\* A request for a.
Asks(t, a, to) ==
    /\ doing' = [doing EXCEPT ![t] = a]
    /\ stage' = [stage EXCEPT ![a] = to]
    /\ UNCHANGED <<program, handle, closing>>

----------------------------------------------------------------------------
(* What the application calls                                              *)

MayStart(a) ==
    /\ up
    /\ ~closing
    /\ stage[a] = "new"
    /\ program.within[a] # None => stage[program.within[a]] = "open"

\* The layer looks no further than the span right around it: what is opened
\* within a span that is not recorded has no parent.  record_completed_span takes
\* the parent that its caller names, whether or not such a span was ever recorded.
Parents(a) ==
    IF program.how[a] = "whole" THEN Spans \cup {NoSpan}
    ELSE IF program.within[a] = None THEN {NoSpan}
    ELSE {handle[program.within[a]]}

\* Without rk_kind.
OpenPlain(a) ==
    /\ MayStart(a)
    /\ ~Recorded(a)
    /\ stage' = [stage EXCEPT ![a] = "open"]
    /\ UNCHANGED <<vars, program, handle, doing, closing>>

\* on_new_span, or the first part of record_completed_span.
Open(t, a) ==
    /\ MayStart(a)
    /\ Recorded(a)
    /\ \E p \in Parents(a) : Call(t, "start", ChosenId(a), p, "sequence")
    /\ Asks(t, a, "opening")

\* on_close of a span, and the last part of record_completed_span: the status is
\* the recorded one, whatever on_record or the caller has made of it.
Close(t, a) ==
    /\ stage[a] = "open"
    /\ \A b \in Within(a) : stage[b] \in {"new", "closed"}
    /\ handle[a] # NoSpan
    /\ Call(t, "end", handle[a], NoSpan, "read")
    /\ Asks(t, a, "ending")

\* A span that is not recorded, or whose open_span failed.
CloseUnrecorded(a) ==
    /\ up
    /\ stage[a] = "open"
    /\ \A b \in Within(a) : stage[b] \in {"new", "closed"}
    /\ handle[a] = NoSpan
    /\ stage' = [stage EXCEPT ![a] = "closed"]
    /\ UNCHANGED <<vars, program, handle, doing, closing>>

\* Between its start and its end, record_completed_span stores the artifacts and
\* the snapshot of the span.  One of the calls fails: the caller gets the error,
\* and the span stays as it is.  It may be recorded again under its chosen id.
AttachFails(a) ==
    /\ up
    /\ program.how[a] = "whole"
    /\ stage[a] = "open"
    /\ stage' = [stage EXCEPT ![a] = "new"]
    /\ handle' = [handle EXCEPT ![a] = NoSpan]
    /\ UNCHANGED <<vars, program, doing, closing>>

\* finish takes the session by value: it is called once, when no method that
\* borrows it is under way.  That no thread is still opening a span either is up
\* to the application, whose layer has a sink of its own.
Finish(t) ==
    /\ ~closing
    /\ \A u \in Tasks : pc[u] # "idle" => op[u] = "end" /\ program.how[doing[u]] = "layer"
    /\ Call(t, "finish", NoSpan, NoSpan, "read")
    /\ closing' = TRUE
    /\ UNCHANGED <<program, stage, handle, doing>>

----------------------------------------------------------------------------
(* What the collector answers                                              *)

Works(t) ==
    \/ NextSequence(t) \/ StartIdentify(t) \/ UpsertSpan(t)
    \/ StartReread(t) \/ StartRoot(t)
    \/ EndRead(t)
    \/ CloseRead(t) \/ CloseList(t) \/ CloseUpdate(t)
    \/ CaptureRead(t) \/ CaptureRecord(t) \/ CaptureSkip(t)

\* The answer to t, with what becomes of the application span that asked.
Settle(t, to, id) ==
    /\ doing' = [doing EXCEPT ![t] = None]
    /\ IF doing[t] = None THEN UNCHANGED <<stage, handle>>
       ELSE /\ stage' = [stage EXCEPT ![doing[t]] = to]
            /\ handle' = [handle EXCEPT ![doing[t]] = id]
    /\ UNCHANGED <<program, closing>>

\* Ok: open_span's id is kept until the span is closed.
Succeed(t) ==
    /\ Works(t)
    /\ IF pc'[t] # "idle" THEN UNCHANGED sessionLocals
       ELSE IF op[t] = "start" THEN Settle(t, "open", target[t])
       ELSE Settle(t, "closed", NoSpan)

\* Err: the layer drops it, and a span it could not open is not recorded.
\* record_completed_span returns it, and may be called again.
Fail(t) ==
    /\ Reject(t)
    /\ IF doing[t] # None /\ program.how[doing[t]] = "whole" THEN Settle(t, "new", NoSpan)
       ELSE Settle(t, IF op[t] = "start" THEN "open" ELSE "closed", NoSpan)

\* The application dies with its collector.
Die ==
    /\ Crash
    /\ stage' = [a \in AppSpans |-> "closed"]
    /\ handle' = [a \in AppSpans |-> NoSpan]
    /\ doing' = [t \in Tasks |-> None]
    /\ closing' = TRUE
    /\ UNCHANGED program

\* A collector server on the same data root looks at the run.
Restart == Recover /\ UNCHANGED sessionLocals

SessionNext ==
    \/ \E a \in AppSpans : OpenPlain(a) \/ CloseUnrecorded(a) \/ AttachFails(a)
    \/ \E t \in Tasks, a \in AppSpans : Open(t, a) \/ Close(t, a)
    \/ \E t \in Tasks : Finish(t) \/ Succeed(t) \/ Fail(t)
    \/ Die \/ Restart

SessionSpec == SessionInit /\ [][SessionNext]_sessionVars

----------------------------------------------------------------------------
(* Properties                                                              *)

\* A finished run is whole: every span has ended and the summary was computed
\* from all of them, although starts and ends overlapped, failed half-way, were
\* repeated or died, and finish_run looks at the spans only once.
FinishedRunComplete ==
    run.status = "Completed" =>
        /\ \A x \in Existing : Terminal(x)
        /\ run.counted = Existing

\* A span that has ended keeps its row for good, also when record_completed_span
\* is called again for it because an error came after the row was written.
EndedSpansFinal ==
    [][\A x \in Spans : Terminal(x) => spans'[x] = spans[x]]_sessionVars

\* The replayed workspace of a span lies between two captures: the one before
\* it comes earlier in the timeline than the one after it, whatever ordinals
\* other spans draw meanwhile.
BeforePrecedesAfter ==
    \A i, j \in DOMAIN points :
        /\ points[i].span # NoSpan
        /\ points[i].span = points[j].span
        /\ points[i].by = "start"
        /\ points[j].by = "end"
        => points[i].ordinal < points[j].ordinal

----------------------------------------------------------------------------
(* What one would expect and the code does not ensure                      *)

\* Once the application has closed all its spans, the run can be finished.  A
\* call that failed after its row was written leaves a span that nobody can end.
CanFinish ==
    up /\ (\A a \in AppSpans : stage[a] \in {"new", "closed"}) => \A x \in Existing : Terminal(x)

\* fork copies the rows in the order of their numbers, and upsert_span rejects a
\* child whose parent is not there yet.  start_span draws the number before it
\* looks for the parent, which may be another thread's: a child may come first.
ParentsFirst ==
    \A x \in Existing : spans[x].parent # NoSpan => spans[spans[x].parent].seq < spans[x].seq

\* "Record a fully-completed span (atomic start + end)" (comment in sink.rs): a
\* span recorded whole is never seen running.
RecordedAtOnce ==
    \A a \in AppSpans : program.how[a] = "whole" /\ program.chosen[a] # NoSpan =>
        spans[program.chosen[a]].status # "Running"
=============================================================================
