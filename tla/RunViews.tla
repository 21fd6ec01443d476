------------------------------ MODULE RunViews ------------------------------
(***************************************************************************)
(* What the api shows of a run, computed from its rows: the tree, the      *)
(* timeline, the forensics of a failure, the summary stored with the run,  *)
(* and the diff of two runs.                                               *)
(*                                                                         *)
(* A run is a recording r and the results its spans have now.  Spans start *)
(* in the order of their numbers; a replay keeps started_at as recorded.   *)
(* Not here: retry groups, costs, durations, artifact counts and wording.  *)
(***************************************************************************)
EXTENDS Recording, FiniteSets, FiniteSetsExt, Sequences

\* The spans under each node of the tree, None's being the roots.
Tree(r) == [p \in Spans \cup {NoParent} |-> Children(r, p)]

\* The indentation of the timeline, and the level of a span in the tree.
Depth(r) ==
    LET depth[x \in Spans] ==
            IF r.parent[x] = NoParent THEN 0 ELSE depth[r.parent[x]] + 1
    IN  depth

\* The spans from the top of the tree down to x.
PathToRoot(r) ==
    LET path[x \in Spans] ==
            IF r.parent[x] = NoParent THEN <<x>>
            ELSE Append(path[r.parent[x]], x)
    IN  path

----------------------------------------------------------------------------
(* Forensics                                                               *)

Failed(result)  == {x \in Spans : result[x].status = "Failed"}
Blocked(result) == {x \in Spans : result[x].status = "Blocked"}

\* Faulty variant: the first failed span the walk meets on its way down.
DeepestFailureTopmost(r, result) ==
    {x \in Failed(result) :
        \A y \in Failed(result) :
            \/ Depth(r)[y] > Depth(r)[x]
            \/ Depth(r)[y] = Depth(r)[x] /\ y <= x}

\* The failed span on the lowest level of the tree that has one, the latest of
\* them; empty when nothing failed.
DeepestFailure(r, result) ==
    {x \in Failed(result) :
        \A y \in Failed(result) :
            \/ Depth(r)[y] < Depth(r)[x]
            \/ Depth(r)[y] = Depth(r)[x] /\ y <= x}

FailedNeeds(r, result, x) == Needs(r, x) \cap Failed(result)

\* The best of what was found along each dependency.
Furthest(found) ==
    LET far == Max({found[z].far : z \in DOMAIN found})
    IN  [far   |-> far + 1,
         spans |-> UNION {found[z].spans : z \in {w \in DOMAIN found : found[w].far = far}}]

\* The failed data dependencies of a span that are furthest away, and how far: the
\* walk goes from failed span to failed span and turns where it meets its own path.
FailureWalk(r, result) ==
    LET walk[at \in Spans \X SUBSET Spans] ==
            LET y    == at[1]
                path == at[2]
                next == FailedNeeds(r, result, y)
            IN  IF y \in path \/ next = {}
                THEN [far |-> 0, spans |-> {y}]
                ELSE Furthest([z \in next |-> walk[<<z, path \cup {y}>>]])
    IN  walk

\* Among equally far ones the order of the edges decides: any of the set.
DeepestDependency(r, result, x) ==
    LET found == FailureWalk(r, result)[<<x, {}>>]
    IN  IF found.far = 0 THEN {} ELSE found.spans

\* FailureForensicsView; each of its options is a set or sequence that may be
\* empty.
Forensics(r, result) ==
    LET deepest == DeepestFailure(r, result)
    IN  [first   |-> {x \in Failed(result) : \A y \in Failed(result) : x <= y},
         deepest |-> deepest,
         cause   |-> UNION {DeepestDependency(r, result, x) : x \in deepest},
         path    |-> IF deepest = {} THEN <<>>
                     ELSE PathToRoot(r)[CHOOSE x \in deepest : TRUE],
         blocked |-> Blocked(result)]

----------------------------------------------------------------------------
(* RunSummary                                                              *)

ContributesError(result) ==
    {x \in Spans : result[x].status \in {"Failed", "Blocked", "Canceled"}}

ImpliesError(status) == status \in {"Failed", "Interrupted", "Canceled", "Blocked"}

\* The nine classes of work that failed are one, "Work".  A span recorded as
\* Blocked was blocked by a replay.
Class(r, result, x) ==
    IF result[x].status = "Blocked" THEN "ReplayUnsupported"
    ELSE IF IsContainer(r, x) THEN "Unknown" ELSE "Work"

Specificity(class) ==
    CASE class = "Unknown"           -> 0
      [] class = "Work"              -> 1
      [] class = "ReplayUnsupported" -> 2

\* The class of the most specific failure, the latest of those.
FailureClass(r, result, status) ==
    LET weight(x) == Specificity(Class(r, result, x))
        decisive  == CHOOSE x \in ContributesError(result) :
                        \A y \in ContributesError(result) :
                            \/ weight(y) < weight(x)
                            \/ weight(y) = weight(x) /\ y <= x
    IN  IF ContributesError(result) # {} THEN Class(r, result, decisive)
        ELSE IF ImpliesError(status) THEN "Unknown" ELSE "none"

RunSummary(r, result, status) ==
    LET errors == Cardinality(ContributesError(result))
    IN  [errors |-> IF errors = 0 /\ ImpliesError(status) THEN 1 ELSE errors,
         class  |-> FailureClass(r, result, status)]

----------------------------------------------------------------------------
(* DiffEngine                                                              *)

\* The spans that differ between two runs with the same spans; "renewed" are
\* those with another input fingerprint, snapshot or error text.
Changed(before, after, renewed) ==
    {x \in Spans : before[x] # after[x]} \cup renewed

\* Faulty variant: containers count like the rest.
FirstDivergentAny(r, changed) == {x \in changed : \A y \in changed : x <= y}

\* The first changed span that is no container, or else the first one.
FirstDivergent(r, changed) ==
    LET work      == {x \in changed : ~IsContainer(r, x)}
        divergent == IF work # {} THEN work ELSE changed
    IN  {x \in divergent : \A y \in divergent : x <= y}

\* The dirty_reason of a changed span.
DiffReason(before, after, inputs, x) ==
    IF x \in inputs THEN "fingerprint_changed"
    ELSE IF before[x].output # after[x].output THEN "upstream_output_changed"
    ELSE "status_changed"

\* What diff_runs stores of a pair of runs; "inputs" are the spans with another
\* input fingerprint.
Diff(r, before, after, inputs, renewed) ==
    LET changed == Changed(before, after, inputs \cup renewed)
    IN  [count |-> Cardinality(changed),
         first |-> FirstDivergent(r, changed),
         spans |-> [x \in changed |-> DiffReason(before, after, inputs, x)]]
=============================================================================
