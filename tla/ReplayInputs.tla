---------------------------- MODULE ReplayInputs ----------------------------
(***************************************************************************)
(* The inputs of replayed spans, over a run, its forks and their forks.    *)
(*                                                                         *)
(* A span is executed with an effective copy of itself: attributes with an *)
(* input binding are rendered again from the outputs that the branch has   *)
(* so far, and the patch is applied to the fork span.  The planner checks  *)
(* the same copies rendered from the source run.  Containers are left to   *)
(* ReplayEngine: here they only pass their children on.                    *)
(***************************************************************************)
EXTENDS Naturals, SpanExecution

CONSTANTS
    N,             \* number of spans, numbered by sequence_no
    Recordings,    \* [shape, rows] of the runs that may be forked
    Modes,         \* the model modes the registry may be configured with
    Templates,     \* replacements of a patch, as templates
    Environments,  \* replacements of an env override
    MaxForks       \* bound: forks in a chain

\* Its operators describe the graph of a recording.
Graph == INSTANCE Recording WITH Recordings <- {}

Spans == Graph!Spans

\* A span as the storage keeps it: attrs and env are maps, outputs a sequence.
IsRow(row) ==
    row = [attrs |-> row.attrs, env |-> row.env, status |-> row.status,
           outputs |-> row.outputs, fp |-> row.fp, infp |-> row.infp]

ASSUME InputsAssumption ==
    /\ N \in Nat \ {0}
    /\ Modes \subseteq ModelModes
    /\ DOMAIN Fixtures = 1 .. Len(Fixtures)
    /\ \A r \in Recordings :
          /\ \A x \in Spans : IsRow(r.rows[x])
          /\ r.rows = [x \in Spans |-> r.rows[x]]

VARIABLES
    mode,      \* the registry's model mode
    shape,     \* what no fork changes: a graph of spans (kind, parent, needs), what
               \* each does, its name, its bindings, and those with a bad environment
    run,       \* the rows of the recorded run, of its fork, of the fork's fork, ...
    request,   \* the fork span, its patch and what it makes dirty
    planned,   \* the spans that the plan lists as blocked
    at,        \* the span the replay has come to, 0 before the first fork
    outcome,   \* what became of each span in this fork
    ranWith    \* the attributes and the environment it was executed with

vars == <<mode, shape, run, request, planned, at, outcome, ranWith>>

\* Each fork is of the latest run.
Target == Len(run)
Source == Target - 1
NoPatch == [attrs |-> <<>>, env |-> <<>>, output |-> {}, snapshot |-> FALSE]

\* A span as an executor sees it.
Span(rows, x) ==
    [kind |-> shape.does[x], name |-> shape.name[x], attrs |-> rows[x].attrs]

\* The map g with the entries of f put over it.
Over(f, g) ==
    [key \in DOMAIN f \cup DOMAIN g |-> IF key \in DOMAIN f THEN f[key] ELSE g[key]]

\* recorded_span: the source span, with what its outputs contain.
RecordedSpan(x) == run[Source][x]

IsContainer(x) == Graph!IsContainer(shape, x)
Upstream(x) == Graph!Upstream(shape, x)
Dirty == request.dirty

----------------------------------------------------------------------------
(* Templates: sequences of <<"piece", p>>, <<"span", x>> and <<"bad">>     *)

References(template) == {template[i][2] : i \in {j \in DOMAIN template : template[j][1] = "span"}}

\* Every placeholder is well-formed and names a span with an output.
Renders(template, rows) ==
    /\ \A i \in DOMAIN template : template[i] # <<"bad">>
    /\ \A x \in References(template) : x \in Spans /\ rows[x].outputs # <<>>

Render(template, rows) ==
    FlattenSeq([i \in DOMAIN template |->
        IF template[i][1] = "span" THEN rows[template[i][2]].outputs[1]
        ELSE <<template[i][2]>>])

----------------------------------------------------------------------------
(* Patches                                                                 *)

Edit(attr, template, env) ==
    [attrs |-> [a \in {attr} |-> template], env |-> env, output |-> {}, snapshot |-> FALSE]

\* patch_inputs for the patch types that patch_supported accepts for a kind.
\* env and snapshot overrides are for every kind.
Patches(kind) ==
    LET edits(attr) == {Edit(attr, t, <<>>) : t \in Templates}
        outputs == {[NoPatch EXCEPT !.output = {t}] : t \in Answers}
        envs == {[NoPatch EXCEPT !.env = e] : e \in Environments}
    IN  {[NoPatch EXCEPT !.snapshot = TRUE]} \cup envs
        \cup CASE kind = "llm"   -> edits("prompt") \cup edits("model")
               [] kind = "shell" -> edits("command")
                     \cup {Edit("cwd", t, e) : t \in Templates, e \in Environments}
               [] kind = "tool"  -> edits("command") \cup outputs
               [] kind = "write" -> edits("content")
               [] kind \in {"read", "retrieval"} -> outputs
               [] OTHER -> {}

\* The patch that applies to a span.
PatchOf(x) == IF x = request.fork THEN request.patch ELSE NoPatch

Satisfies(x) == PatchOf(x).output # {}
InEnvScope(x) == request.patch.env # <<>> /\ x \in Graph!Subtree(shape, request.fork)

\* span_env: the recorded environment, overridden for the fork span and all below.
SpanEnv(x, rows) ==
    IF InEnvScope(x) THEN Over(request.patch.env, rows[x].env) ELSE rows[x].env

----------------------------------------------------------------------------
(* The effective span                                                      *)

Bound(x) == DOMAIN shape.bindings[x]

\* What a span's inputs are rendered from: its bindings, unless patched, and
\* the patch.
Sources(x, patch) ==
    [attr \in (Bound(x) \cup DOMAIN patch.attrs) |->
        IF attr \in DOMAIN patch.attrs THEN patch.attrs[attr] ELSE shape.bindings[x][attr]]

InputReferences(x) ==
    LET from == Sources(x, PatchOf(x))
    IN  UNION {References(from[attr]) : attr \in DOMAIN from}

HasInputs(x, rows, patch) ==
    LET from == Sources(x, patch) IN \A attr \in DOMAIN from : Renders(from[attr], rows)

\* effective_span, when it has its inputs: rows are those of the run that the
\* outputs are looked up in, own is the source span.
Effective(x, own, rows, patch) ==
    LET from == Sources(x, patch)
    IN  [own EXCEPT !.attrs = Over([attr \in DOMAIN from |-> Render(from[attr], rows)], @)]

----------------------------------------------------------------------------
(* Planning                                                                *)

\* Faulty variant: the planner checks the spans without the patch.
RefusedUnpatched(x) ==
    LET rows == run[Source]
    IN  \/ ~HasInputs(x, rows, NoPatch)
        \/ x \in shape.badEnv
        \/ ~Check(mode, Effective(x, Span(rows, x), rows, NoPatch), RecordedSpan(x))

\* The registry's verdict on a span with the outputs of the source run.
Refused(x) ==
    LET rows == run[Source]
    IN  \/ ~HasInputs(x, rows, PatchOf(x))
        \/ x \in shape.badEnv
        \/ ~Check(mode, Effective(x, Span(rows, x), rows, PatchOf(x)), RecordedSpan(x))

\* The spans, in order, that will not run.
Blocked ==
    LET blocked[x \in Spans] ==
            /\ x \in Dirty
            /\ ~IsContainer(x)
            /\ ~Satisfies(x)
            /\ \/ \E y \in Upstream(x) : y < x /\ blocked[y]
               \/ Refused(x)
    IN  {x \in Spans : blocked[x]}

----------------------------------------------------------------------------
(* Replay                                                                  *)

Init ==
    /\ mode \in Modes
    /\ \E r \in Recordings : shape = r.shape /\ run = <<r.rows>>
    /\ request = [fork |-> 1, patch |-> NoPatch, dirty |-> {}]
    /\ planned = {}
    /\ at = 0
    /\ outcome = [x \in Spans |-> "none"]
    /\ ranWith = [x \in Spans |-> <<>>]

Finished == at \in {0, N + 1}

\* plan_state, and the copy of the source run.
Fork(x, patch) ==
    /\ Finished
    /\ Target <= MaxForks
    /\ UNCHANGED <<mode, shape>>
    /\ request' = [fork |-> x, patch |-> patch, dirty |-> Graph!DirtyFrom(shape, x)]
    /\ run' = Append(run, run[Target])
    /\ planned' = Blocked'
    /\ at' = 1
    /\ outcome' = [y \in Spans |-> "none"]
    /\ ranWith' = [y \in Spans |-> <<>>]

\* The loop comes to x, which is dirty and not a container.
Visits(x) == at = x /\ x \in Dirty /\ ~IsContainer(x)

Become(x, what, row) ==
    /\ outcome' = [outcome EXCEPT ![x] = what]
    /\ run' = [run EXCEPT ![Target][x] = row]
    /\ at' = at + 1
    /\ UNCHANGED <<mode, shape, request, planned>>

\* Clean spans keep their copy; containers come last.
Pass ==
    /\ at \in Spans
    /\ ~Visits(at)
    /\ at' = at + 1
    /\ UNCHANGED <<mode, shape, run, request, planned, outcome, ranWith>>

\* satisfy_with_patch: the replacement is the output.
Satisfy(x) ==
    /\ Visits(x)
    /\ Satisfies(x)
    /\ \E text \in PatchOf(x).output :
          Become(x, "satisfied",
              [run[Target][x] EXCEPT !.status = "Completed", !.outputs = <<text>>,
                                     !.fp = TextPrint(text)])
    /\ UNCHANGED ranWith

\* mark_blocked
BlockedRow(row) ==
    [row EXCEPT !.status = "Blocked", !.outputs = <<>>, !.fp = None]

IsBlocked(x) ==
    x \in planned \/ \E y \in Upstream(x) : outcome[y] = "blocked"

Block(x) ==
    /\ Visits(x)
    /\ ~Satisfies(x)
    /\ IsBlocked(x)
    /\ Become(x, "blocked", BlockedRow(run[Target][x]))
    /\ UNCHANGED ranWith

Goes(x) == Visits(x) /\ ~Satisfies(x) /\ ~IsBlocked(x)

\* Faulty variant: a span that ended as recorded counts as unchanged.
UnchangedStatus(y) ==
    \/ outcome[y] = "reused"
    \/ /\ outcome[y] \in {"executed", "satisfied"}
       /\ run[Target][y].status = run[Source][y].status

\* It ended as recorded, with the recorded output.
Unchanged(y) ==
    \/ outcome[y] = "reused"
    \/ /\ outcome[y] \in {"executed", "satisfied"}
       /\ run[Target][y].status = run[Source][y].status
       /\ run[Target][y].fp # None
       /\ run[Target][y].fp = run[Source][y].fp

\* upstream_unchanged: of all that made x dirty.
UpstreamUnchanged(x) ==
    /\ x # request.fork
    /\ \A y \in Graph!Triggers(shape, Dirty, x) : ~IsContainer(y) /\ Unchanged(y)

\* Faulty variant: an environment override does not keep a span from reuse.
ReusableInScope(x) == ~request.patch.snapshot /\ UpstreamUnchanged(x)

Reusable(x) ==
    /\ ~InEnvScope(x)
    /\ ~request.patch.snapshot
    /\ UpstreamUnchanged(x)

Reuse(x) ==
    /\ Goes(x)
    /\ Reusable(x)
    /\ Become(x, "reused", run[Target][x])
    /\ UNCHANGED ranWith

\* Faulty variant: the inputs are rendered from the source run.
LookupSource == run[Source]

\* The run that outputs are looked up in.
Lookup == run[Target]

\* An input cannot be rendered from the replayed outputs.
LackInputs(x) ==
    /\ Goes(x)
    /\ ~Reusable(x)
    /\ ~HasInputs(x, Lookup, PatchOf(x))
    /\ Become(x, "blocked", BlockedRow(run[Target][x]))
    /\ UNCHANGED ranWith

EffectiveNow(x) == Effective(x, Span(run[Source], x), Lookup, PatchOf(x))

\* inputs_fingerprint, for a span whose inputs are not the source span's.
InputPrint(x, attrs) ==
    IF attrs # run[Source][x].attrs \/ InEnvScope(x)
    THEN <<"inputs", attrs, SpanEnv(x, run[Source])>>
    ELSE run[Source][x].infp

\* The row before its result is known: the effective attributes, and on the
\* fork span the environment of the patch.
PreparedRow(x) ==
    [run[Target][x] EXCEPT
        !.attrs = EffectiveNow(x).attrs,
        !.env = IF x = request.fork /\ InEnvScope(x) THEN SpanEnv(x, run[Source]) ELSE @,
        !.infp = InputPrint(x, EffectiveNow(x).attrs)]

\* A bad environment would end the whole fork here; the plan has blocked x.
Runs(x) ==
    /\ Goes(x)
    /\ ~Reusable(x)
    /\ x \notin shape.badEnv
    /\ HasInputs(x, Lookup, PatchOf(x))

\* check is asked again, with the replayed inputs.
Refuse(x) ==
    /\ Runs(x)
    /\ ~Check(mode, EffectiveNow(x), RecordedSpan(x))
    /\ Become(x, "blocked", BlockedRow(PreparedRow(x)))
    /\ UNCHANGED ranWith

\* persist_executor_artifacts: the outputs are stored in order, each with its
\* content, and replace those of the copied row.
Persisted(result, row) ==
    [row EXCEPT !.status = result.status, !.outputs = result.outputs, !.fp = result.fp]

Execute(x) ==
    /\ Runs(x)
    /\ Check(mode, EffectiveNow(x), RecordedSpan(x))
    /\ \E result \in Results(mode, EffectiveNow(x), RecordedSpan(x)) :
          Become(x, "executed", Persisted(result, PreparedRow(x)))
    /\ ranWith' = [ranWith EXCEPT ![x] = [attrs |-> EffectiveNow(x).attrs,
                                          env |-> SpanEnv(x, run[Source])]]

Next ==
    \/ \E x \in Spans : \E patch \in Patches(shape.does[x]) : Fork(x, patch)
    \/ Pass
    \/ \E x \in Spans :
          \/ Satisfy(x) \/ Block(x) \/ Reuse(x)
          \/ LackInputs(x) \/ Refuse(x) \/ Execute(x)

Spec == Init /\ [][Next]_vars

----------------------------------------------------------------------------
(* Properties                                                              *)

Done == at = N + 1

\* The spans x takes its inputs from precede it.
InOrder(x) == \A y \in InputReferences(x) : y < x

\* An executed span ran with what the finished branch would render for it: with
\* the final outputs of the branch, never with recorded or intermediate ones, and
\* with the patch where both claim an attribute.  A reference to a later span is
\* rendered from what was recorded, so those are excluded.
InputsCurrent ==
    Done => \A x \in Spans : outcome[x] = "executed" /\ InOrder(x) =>
        LET patch == PatchOf(x)
        IN  /\ HasInputs(x, run[Target], patch)
            /\ ranWith[x].attrs =
                  Effective(x, Span(run[Source], x), run[Target], patch).attrs
            /\ \A attr \in DOMAIN patch.attrs :
                  ranWith[x].attrs[attr] = Render(patch.attrs[attr], run[Target])

\* The attributes of a row are what its bindings render to in its run.
Consistent(x, rows) ==
    /\ HasInputs(x, rows, NoPatch)
    /\ Effective(x, Span(rows, x), rows, NoPatch).attrs = rows[x].attrs

\* The first output, if any.
Primary(outputs) == IF outputs = <<>> THEN <<>> ELSE <<outputs[1]>>

\* What the first output may be that the fingerprint of an executor is made of. A
\* text print of a failure is that of an output, or of an error and no output.
Told(kind, status, fp) ==
    IF kind = "shell"
    THEN IF fp[1] # "shell" THEN {<<>>}
         ELSE LET streams == Stream(fp[3]) \o Stream(fp[4])
              IN  {Primary(IF streams = <<>> THEN <<<<"exit_code", fp[2]>>>> ELSE streams)}
    ELSE {<<fp[2]>>} \cup (IF status = "Failed" THEN {<<>>} ELSE {})

\* Fingerprints that the executors make.
IsExecutorPrint(kind, status, fp) ==
    /\ status \in {"Completed", "Failed"}
    /\ \/ fp[1] = "text" /\ (kind = "shell" => status = "Failed")
       \/ fp[1] = "shell" /\ kind = "shell"

PrintTells(sh, x, row) ==
    /\ sh.kind[x] = "work" /\ sh.does[x] # "write"
    /\ row.fp # None
    /\ IsExecutorPrint(sh.does[x], row.status, row.fp)
    => Primary(row.outputs) \in Told(sh.does[x], row.status, row.fp)

\* A program may fingerprint what it records as it likes, but not with the print
\* that an executor would make of another output.
RecordingsTell ==
    \A r \in Recordings : \A x \in Spans : PrintTells(r.shape, x, r.rows[x])

\* It failed as recorded, where the recorded failure printed what the error is
\* now: one fingerprint, with an output and without.
AmbiguousFailure(y) ==
    /\ run[Source][y].status = "Failed" /\ run[Target][y].status = "Failed"
    /\ run[Source][y].fp = run[Target][y].fp
    /\ run[Source][y].outputs # <<>> /\ run[Target][y].outputs = <<>>

\* A span that kept its recorded result, because it is clean or because its
\* upstream came out the same, keeps inputs that still are what its bindings
\* render to: equal fingerprints mean equal outputs.  It takes edges to the spans
\* it is bound to; none to a write, whose output is the diff but whose fingerprint
\* is the content, or to a failure whose error is what it printed when recorded.
ReusedInputsStand ==
    Done => \A x \in Spans :
        /\ outcome[x] \in {"none", "reused"}
        /\ ~IsContainer(x)
        /\ InOrder(x)
        /\ \A y \in InputReferences(x) :
              /\ y \in Graph!Needs(shape, x)
              /\ shape.does[y] # "write" /\ ~AmbiguousFailure(y)
        /\ Consistent(x, run[Source])
        => Consistent(x, run[Target])

\* A span is blocked that the plan did not list only if its inputs came out
\* otherwise than planned, or an upstream span was: planner and executors agree.
\* A text that takes its pieces from later spans too may still come out the same
\* in the end.
PlannedAnswers ==
    Done => \A x \in Spans : outcome[x] = "blocked" /\ x \notin planned =>
        LET seen(rows) == Effective(x, Span(run[Source], x), rows, PatchOf(x)).attrs
        IN  \/ \E y \in Upstream(x) : outcome[y] = "blocked"
            \/ /\ \E y \in InputReferences(x) :
                     y < x /\ run[Target][y].outputs # run[Source][y].outputs
               /\ InOrder(x) => \/ ~HasInputs(x, run[Target], PatchOf(x))
                                \/ seen(run[Target]) # seen(run[Source])

\* An environment override reaches every span below the fork span: none of them
\* keeps a result it had without.
OverrideReachesAll ==
    Done => \A x \in Spans : InEnvScope(x) /\ ~IsContainer(x) =>
        /\ outcome[x] \in {"executed", "blocked"}
        /\ outcome[x] = "executed" =>
              \A key \in DOMAIN request.patch.env :
                 ranWith[x].env[key] = request.patch.env[key]

\* The response was recorded for this prompt and model, by the run or a fixture.
Answered(row, own) ==
    \/ /\ own.outputs # <<>>
       /\ row.outputs[1] = own.outputs[1]
       /\ <<PromptOf(row), ModelOf(row)>> = <<PromptOf(own), ModelOf(own)>>
    \/ \E i \in DOMAIN Fixtures :
          /\ Fixtures[i].prompt = PromptOf(row)
          /\ Fixtures[i].model \in {AnyModel, ModelOf(row)}
          /\ Fixtures[i].response = row.outputs[1]

\* With recorded responses, whatever forks of forks are made, a model span never
\* shows a response to another prompt or of another model than the one it was
\* recorded for.
ResponsesMatchPrompts ==
    mode = "recorded" =>
        \A k \in DOMAIN run, x \in Spans :
            shape.does[x] = "llm" /\ run[k][x].outputs # <<>> => Answered(run[k][x], run[1][x])

\* Replay semantics: "The effective attributes are persisted on the branch span,
\* so the branch shows exactly what ran."  The environment is persisted on the
\* fork span only.
BranchShowsWhatRan ==
    Done => \A x \in Spans : outcome[x] = "executed" =>
        run[Target][x].attrs = ranWith[x].attrs /\ run[Target][x].env = ranWith[x].env

\* A patched input is still there in a fork of the branch that patches another
\* span: an attribute that its binding does not explain came from a patch.  The
\* code renders the binding over it as soon as the span runs again.
PatchesLast ==
    Done /\ Source > 1 =>
        \A x \in Spans \ {request.fork} :
            LET refs == UNION {References(shape.bindings[x][a]) : a \in Bound(x)}
            IN  /\ Consistent(x, run[1])
                /\ ~Consistent(x, run[Source])
                /\ \A y \in refs : run[Source][y].outputs = run[1][y].outputs
                => run[Target][x].attrs = run[Source][x].attrs

\* Early cutoff compares statuses and fingerprints: an unchanged failure has an
\* output if the recorded one had.  A tool may print what an error says.
FailuresTell ==
    Done => \A y \in Spans : Unchanged(y) => ~AmbiguousFailure(y)

\* Equal input fingerprints mean equal inputs, for the spans that ran.
InputPrintsTell ==
    Done => \A x \in Spans :
        outcome[x] = "executed" /\ run[Target][x].infp[1] = "inputs" =>
            run[Target][x].infp = <<"inputs", ranWith[x].attrs, ranWith[x].env>>
=============================================================================
