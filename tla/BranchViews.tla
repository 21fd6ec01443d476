---------------------------- MODULE BranchViews -----------------------------
(***************************************************************************)
(* The views of RunViews on a branch that ReplayEngine has finished: what  *)
(* its forensics, its summary and its diff against the recording say of    *)
(* what the replay did.                                                    *)
(***************************************************************************)
EXTENDS ReplayEngine, RunViews

\* The work spans that got a new row.
Replayed == {x \in Spans : outcome[x] \in {"Executed", "Satisfied", "Blocked"}}

\* replay_spans gives an executed span another input fingerprint if its
\* attributes were patched or it is in the scope of the environment.
NewInputs ==
    {x \in Spans :
        /\ outcome[x] = "Executed"
        /\ InEnvScope(x) \/ (x = fork /\ patch = "input")}

\* The spans x rests on through failed ones.
FailedReach(x) ==
    UNION {Closure(y, [z \in Spans |-> FailedNeeds(rec, target, z)]) :
              y \in FailedNeeds(rec, target, x)}

\* The forensics of a finished branch lead to what went wrong in it.  A branch
\* that is not Completed has a failed or blocked span; when nothing had failed
\* in the recording the deepest failure is a span the replay executed, never a
\* container that failed with it; the path to it goes down the tree; the cause is
\* a failed span it rests on, which in its turn rests on no failed span, or on
\* itself; and the class is ReplayUnsupported for blocked branches and no others.
BranchIsExplained ==
    phase = "done" =>
        LET shown   == Forensics(rec, target)
            path    == shown.path
            summary == RunSummary(rec, target, status)
        IN  /\ status # "Completed" => shown.deepest \cup shown.blocked # {}
            /\ Failed(rec.result) = {} =>
                  \A x \in shown.deepest : Work(x) /\ outcome[x] = "Executed"
            /\ path # <<>> =>
                  /\ rec.parent[path[1]] = NoParent
                  /\ {path[Len(path)]} = shown.deepest
                  /\ \A i \in 2 .. Len(path) : rec.parent[path[i]] = path[i - 1]
            /\ \A x \in shown.deepest, y \in shown.cause :
                  /\ y \in FailedReach(x)
                  /\ FailedNeeds(rec, target, y) = {} \/ y \in FailedReach(y)
            /\ summary.class = "ReplayUnsupported" <=> status = "Blocked"

\* The diff of a branch leads to what the replay did.  A changed span is one the
\* replay ran, patched or blocked, or a container with a changed child; the first
\* divergence is one of the former; and there is one whenever the branch ends with
\* another status than its recorded spans would.
DiffIsExplained ==
    phase = "done" =>
        LET replayed == Replayed
            inputs   == NewInputs
            differs  == status # DeriveRunStatus(rec, rec.result)
        IN  \A renewed \in SUBSET replayed :
                LET diff    == Diff(rec, rec.result, target, inputs, renewed)
                    changed == DOMAIN diff.spans
                IN  /\ \A x \in changed :
                          x \in replayed \/ Children(rec, x) \cap changed # {}
                    /\ diff.first \subseteq replayed
                    /\ differs => diff.first # {}

\* "upstream_output_changed": some span it waits for has another output.
ReasonIsTrue ==
    phase = "done" =>
        LET diff == Diff(rec, rec.result, target, NewInputs, {})
        IN  \A x \in DOMAIN diff.spans :
                diff.spans[x] = "upstream_output_changed" =>
                    \E y \in Upstream(rec, x) : target[y].output # rec.result[y].output
=============================================================================
