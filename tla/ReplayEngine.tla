---------------------------- MODULE ReplayEngine ----------------------------
(***************************************************************************)
(* One forked replay: plan_state's prediction of what will block, the copy *)
(* of the run, replay_spans over the dirty spans and then the containers,  *)
(* and the status of the branch.                                           *)
(*                                                                         *)
(* What an executor answers is nondeterministic: it may refuse (in the     *)
(* plan against recorded inputs, in the replay against replayed ones),     *)
(* complete or fail, with the recorded output or another.  The executors   *)
(* are those of CompositeExecutorRegistry, which accepts every container.  *)
(***************************************************************************)
EXTENDS Recording

VARIABLES
    rec, fork, patch,  \* the request
    dirty, rollup,     \* of the plan
    blocked,           \* spans the plan says will block
    phase,
    todo,              \* spans the current loop has still to visit
    target,            \* results in the branch run
    outcome,           \* of each replayed span
    status             \* of the branch run

vars == <<rec, fork, patch, dirty, rollup, blocked, phase, todo,
          target, outcome, status>>

request == <<rec, fork, patch>>

\* What the patch changes: inputs of the fork span, its output, the
\* environment of its subtree, or the workspace everything starts from.
Patches == {"input", "output", "env", "snapshot"}

Outcomes == {"none", "Executed", "Satisfied", "Reused", "Blocked"}

Phases == {"predict", "foresee", "copy", "replay", "rollup", "done", "failed"}

TypeOK ==
    /\ rec \in RecordingType
    /\ fork \in Spans
    /\ patch \in Patches
    /\ dirty \subseteq Spans
    /\ rollup \subseteq Spans
    /\ blocked \subseteq Spans
    /\ phase \in Phases
    /\ todo \subseteq Spans
    /\ target \in [Spans -> Result]
    /\ outcome \in [Spans -> Outcomes]
    /\ status \in SpanStatus

----------------------------------------------------------------------------
Work(x) == ~IsContainer(rec, x)

DirtyWork == {x \in dirty : Work(x)}

\* Containers that are re-derived after their children.
Derivable == {x \in dirty \cup rollup : ~Work(x)}

\* Faulty variant: only the containers right above a dirty span.
AncestorsParents(r, affected) ==
    {a \in Spans \ affected :
        IsContainer(r, a) /\ \E x \in affected : r.parent[x] = a}

\* The containers above a dirty span that are not dirty themselves, however far
\* above it and whatever is in between.
Ancestors(r, affected) ==
    {a \in Spans \ affected :
        IsContainer(r, a) /\ \E x \in affected : x \in Subtree(r, a)}

Init ==
    /\ rec \in Recordings
    /\ fork \in Spans
    /\ patch \in Patches
    /\ patch \in {"input", "output"} => rec.kind[fork] = "work"
    /\ dirty = DirtyFrom(rec, fork)
    /\ rollup = Ancestors(rec, dirty)
    /\ blocked = {}
    /\ phase = "predict"
    /\ todo = {x \in dirty : rec.kind[x] = "work"}
    /\ target = rec.result
    /\ outcome = [x \in Spans |-> "none"]
    /\ status = "Running"

\* The loops go up in sequence order, or down.
First(x) == x \in todo /\ \A y \in todo : x <= y
Last(x)  == x \in todo /\ \A y \in todo : y <= x

Leave(to, next) ==
    /\ todo = {}
    /\ phase' = to
    /\ todo' = next

\* The patch is this span's output: nothing runs.
SatisfiedByPatch(x) == x = fork /\ patch = "output"

----------------------------------------------------------------------------
(* plan_state                                                              *)

\* A dirty span blocks if one it waits for does, or if the registry refuses it
\* with the inputs it would have.
Predict(x) ==
    /\ phase = "predict"
    /\ First(x)
    /\ \/ SatisfiedByPatch(x) /\ UNCHANGED blocked
       \/ ~SatisfiedByPatch(x) /\ blocked' = blocked \cup {x}
       \/ /\ ~SatisfiedByPatch(x)
          /\ Upstream(rec, x) \cap blocked = {}
          /\ UNCHANGED blocked
    /\ todo' = todo \ {x}
    /\ UNCHANGED <<request, dirty, rollup, phase, target, outcome, status>>

PredictEnd ==
    /\ phase = "predict"
    /\ Leave("foresee", Derivable)
    /\ UNCHANGED <<request, dirty, rollup, blocked, target, outcome, status>>

\* A container blocks if a child does.
Foresee(x) ==
    /\ phase = "foresee"
    /\ Last(x)
    /\ blocked' = IF Children(rec, x) \cap blocked # {}
                  THEN blocked \cup {x} ELSE blocked
    /\ todo' = todo \ {x}
    /\ UNCHANGED <<request, dirty, rollup, phase, target, outcome, status>>

\* The plan is made: execute_fork inserts the branch run and copies the spans.
ForeseeEnd ==
    /\ phase = "foresee"
    /\ Leave("copy", {})
    /\ UNCHANGED <<request, dirty, rollup, blocked, target, outcome, status>>

Copy ==
    /\ phase = "copy"
    /\ Leave("replay", DirtyWork)
    /\ target' = rec.result
    /\ UNCHANGED <<request, dirty, rollup, blocked, outcome, status>>

----------------------------------------------------------------------------
(* replay_spans                                                            *)

Settle(x, how, result) ==
    /\ outcome' = [outcome EXCEPT ![x] = how]
    /\ target' = [target EXCEPT ![x] = result]
    /\ todo' = todo \ {x}
    /\ UNCHANGED <<request, dirty, rollup, blocked, phase, status>>

BlockedResult == [status |-> "Blocked", output |-> "none"]

\* satisfy_with_patch.  The patched output may be the recorded one.
Satisfy(x) ==
    /\ phase = "replay"
    /\ First(x)
    /\ SatisfiedByPatch(x)
    /\ \E o \in Outputs \ {"none"} :
          Settle(x, "Satisfied", [status |-> "Completed", output |-> o])

\* Faulty variant: the plan is forgotten.
WaitsForBlockedRuntime(x) == \E y \in Upstream(rec, x) : outcome[y] = "Blocked"

WaitsForBlocked(x) ==
    \/ x \in blocked
    \/ \E y \in Upstream(rec, x) : outcome[y] = "Blocked"

SkipBlocked(x) ==
    /\ phase = "replay"
    /\ First(x)
    /\ ~SatisfiedByPatch(x)
    /\ WaitsForBlocked(x)
    /\ Settle(x, "Blocked", BlockedResult)

\* Faulty variant: one unchanged trigger is enough.
UpstreamUnchangedAny(x) ==
    \E y \in Triggers(rec, dirty, x) :
        /\ Work(y)
        /\ \/ outcome[y] = "Reused"
           \/ /\ outcome[y] \in {"Executed", "Satisfied"}
              /\ target[y] = rec.result[y]
              /\ target[y].output # "none"

\* Every span that made x dirty replayed to its recorded status and output.
UpstreamUnchanged(x) ==
    \A y \in Triggers(rec, dirty, x) :
        /\ Work(y)
        /\ \/ outcome[y] = "Reused"
           \/ /\ outcome[y] \in {"Executed", "Satisfied"}
              /\ target[y] = rec.result[y]
              /\ target[y].output # "none"

InEnvScope(x) == patch = "env" /\ x \in Subtree(rec, fork)

\* Early cutoff.
MayReuse(x) ==
    /\ x # fork
    /\ ~InEnvScope(x)
    /\ patch # "snapshot"
    /\ UpstreamUnchanged(x)

Reuse(x) ==
    /\ phase = "replay"
    /\ First(x)
    /\ ~SatisfiedByPatch(x)
    /\ ~WaitsForBlocked(x)
    /\ MayReuse(x)
    /\ Settle(x, "Reused", target[x])

Runs(x) ==
    /\ phase = "replay"
    /\ First(x)
    /\ ~SatisfiedByPatch(x)
    /\ ~WaitsForBlocked(x)
    /\ ~MayReuse(x)

\* An input cannot be rendered, or the executor blocks.
Refuse(x) == Runs(x) /\ Settle(x, "Blocked", BlockedResult)

Execute(x) ==
    /\ Runs(x)
    /\ \E s \in {"Completed", "Failed"}, o \in Outputs \ {"none"} :
          Settle(x, "Executed", [status |-> s, output |-> o])

ReplayEnd ==
    /\ phase = "replay"
    /\ Leave("rollup", Derivable)
    /\ UNCHANGED <<request, dirty, rollup, blocked, target, outcome, status>>

\* PlannerStepExecutor: the status of a container from its children.
DerivedStatus(x) ==
    LET now(y) == target[y].status
        was(y) == rec.result[y].status
        kids   == Children(rec, x)
    IN  IF \E y \in kids : now(y) = "Blocked" THEN "Blocked"
        ELSE IF \A y \in kids : now(y) = was(y) THEN was(x)
        ELSE IF \E y \in kids : now(y) = "Failed" /\ was(y) # "Failed" THEN "Failed"
        ELSE IF was(x) = "Failed" /\ \A y \in kids : now(y) # "Failed"
        THEN "Completed" ELSE was(x)

RollUp(x) ==
    /\ phase = "rollup"
    /\ Last(x)
    /\ target' = [target EXCEPT ![x].status = DerivedStatus(x)]
    /\ todo' = todo \ {x}
    /\ UNCHANGED <<request, dirty, rollup, blocked, phase, outcome, status>>

\* execute_fork reads the spans back and closes the branch run.
Finish ==
    /\ phase = "rollup"
    /\ Leave("done", {})
    /\ status' = DeriveRunStatus(rec, target)
    /\ UNCHANGED <<request, dirty, rollup, blocked, target, outcome>>

\* A storage call, the sandbox or an executor fails: the rows stay as they are.
Abort ==
    /\ phase \in {"copy", "replay", "rollup"}
    /\ phase' = "failed"
    /\ UNCHANGED <<request, dirty, rollup, blocked, todo, target, outcome, status>>

Returned == phase \in {"done", "failed"} /\ UNCHANGED vars

----------------------------------------------------------------------------
Visit(x) ==
    \/ Predict(x) \/ Foresee(x)
    \/ Satisfy(x) \/ SkipBlocked(x) \/ Reuse(x) \/ Refuse(x) \/ Execute(x)
    \/ RollUp(x)

Proceed ==
    \/ \E x \in Spans : Visit(x)
    \/ PredictEnd \/ ForeseeEnd \/ Copy \/ ReplayEnd \/ Finish

Next == Proceed \/ Abort \/ Returned

Spec == Init /\ [][Next]_vars

----------------------------------------------------------------------------
(* Properties                                                              *)

\* The results of work spans that x rests on.
Inputs(x) == {y \in Upstream(rec, x) : Work(y)}

\* The branch shows a result for x, new or recorded.
Settled(x) == outcome[x] \in {"Executed", "Reused"}

\* A span that keeps its recorded result (it was never dirty, or early cutoff
\* reused it) rests on recorded results only: none of its inputs, executed,
\* patched or blocked, ended otherwise.
ReuseIsSound ==
    phase \in {"rollup", "done"} =>
        \A x \in Spans :
            Work(x) /\ (x \notin dirty \/ outcome[x] = "Reused") =>
                \A y \in Inputs(x) : target[y] = rec.result[y]

\* What a span reads is final: once a span has run or is reused, none of the
\* earlier spans it rests on changes again.
InputsSettled ==
    [][\A x \in Spans : Settled(x) =>
          \A y \in Inputs(x) : y < x => target'[y] = target[y]]_vars

\* "plan_fork propagates blocks downstream": a span that the replay runs or
\* reuses waits for no blocked span that came before it.
BlocksPropagate ==
    \A x \in Spans :
        Settled(x) =>
            \A y \in Inputs(x) : y < x => outcome[y] # "Blocked"

\* A span that the plan calls blocked is blocked in the finished branch, the
\* containers above blocked spans included.
PlanForetells ==
    phase = "done" => \A x \in blocked : target[x].status = "Blocked"

\* A span that did not fail in the recording and fails in the branch, below the
\* root Run span and under containers none of which had failed, fails the
\* containers up to the root: the branch is not Completed.
FailureReachesRun ==
    phase = "done" =>
        \A x \in dirty :
            /\ Work(x)
            /\ target[x].status = "Failed" /\ rec.result[x].status # "Failed"
            /\ \A a \in Spans \ {x} :
                  x \in Subtree(rec, a) => ~Work(a) /\ rec.result[a].status # "Failed"
            /\ \A a \in RootRuns(rec) : x \in Subtree(rec, a)
            => status \in {"Failed", "Blocked"}

\* "blocked lists every span the replay will block" (replay-semantics, Planning
\* agrees with execution).  The plan asks the registry with recorded inputs, and
\* the replay with replayed ones.
PlanListsBlocks ==
    phase = "done" =>
        \A x \in dirty : target[x].status = "Blocked" => x \in blocked

\* A span must wait for its data dependencies (comment at `upstream`), and blocks
\* propagate downstream.  Containers are replayed last.
ContainersBlockDependents ==
    phase = "done" =>
        \A x \in dirty : outcome[x] = "Executed" =>
            \A y \in Upstream(rec, x) \ Inputs(x) : target[y].status # "Blocked"

\* "It is better to rerun too much than to present a wrong branch result": no
\* span is replayed on the result of a span that is replayed after it.
InputsFinal ==
    [][\A x \in Spans : Settled(x) =>
          \A y \in Inputs(x) : target'[y] = target[y]]_vars

\* "branch completion does not produce half-finalized target runs" (architecture
\* 31.2).  Nothing asks whether the source run has finished.
CompletedBranchIsWhole ==
    phase = "done" /\ status = "Completed" =>
        \A x \in Spans : target[x].status # "Running"
=============================================================================
