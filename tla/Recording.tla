----------------------------- MODULE Recording -----------------------------
(***************************************************************************)
(* A recorded run as a fork sees it: spans with their parents, their       *)
(* DataDependsOn edges and their recorded results.                         *)
(*                                                                         *)
(* Spans are numbered by sequence_no, 1 to N.  A parent comes before its   *)
(* children: upsert_span insists on it when a run is copied in this order. *)
(* An edge may join any two spans.                                         *)
(***************************************************************************)
EXTENDS Integers

CONSTANTS
    N,           \* number of spans
    Recordings   \* the runs that may be forked

Spans == 1 .. N
NoParent == 0

\* "run" and "step" (planner_step, subgraph) are containers, "work" the rest.
Kinds == {"run", "step", "work"}

\* The status Skipped is left out: like Canceled, nothing here sets it.
SpanStatus == {"Running", "Completed", "Failed", "Blocked", "Canceled"}

\* Fingerprints of an output: "old" and "new" are any two different ones.
Outputs == {"none", "old", "new"}

Result == [status : SpanStatus, output : Outputs]

RecordingType ==
    [kind   : [Spans -> Kinds],
     parent : [Spans -> Spans \cup {NoParent}],
     needs  : SUBSET (Spans \X Spans),
     result : [Spans -> Result]]

ASSUME RecordingAssumption ==
    /\ N \in Nat \ {0}
    /\ Recordings \subseteq RecordingType
    /\ \A r \in Recordings : \A x \in Spans : r.parent[x] < x

IsContainer(r, x) == r.kind[x] # "work"

Children(r, x) == {y \in Spans : r.parent[y] = x}

\* x DataDependsOn y.
Needs(r, x)      == {y \in Spans : <<x, y>> \in r.needs}
Dependents(r, x) == {y \in Spans : <<y, x>> \in r.needs}

\* What becomes dirty with x.
Reached(r, x) == Dependents(r, x) \cup Children(r, x)

\* The spans x waits for.
Upstream(r, x) ==
    Needs(r, x) \cup {y \in Spans : y = r.parent[x] /\ ~IsContainer(r, y)}

\* The smallest set with x in it that holds after[y] for each y it holds.
Closure(x, after) ==
    {z \in Spans :
        \A S \in SUBSET Spans :
            x \in S /\ (\A y \in S : after[y] \subseteq S) => z \in S}

\* The spans a fork of x makes dirty, and what makes a dirty span dirty.
DirtyFrom(r, x) == Closure(x, [y \in Spans |-> Reached(r, y)])
Triggers(r, dirty, x) == {y \in dirty : x \in Reached(r, y)}

\* x and its descendants.
Subtree(r, x) == Closure(x, [y \in Spans |-> Children(r, y)])

\* RunStatus of a replayed run: blocked spans first, then the root Run span,
\* then failures.
RootRuns(r) == {x \in Spans : r.parent[x] = NoParent /\ r.kind[x] = "run"}

DeriveRunStatus(r, result) ==
    LET has(s) == \E x \in Spans : result[x].status = s
        root   == CHOOSE x \in RootRuns(r) : \A y \in RootRuns(r) : x <= y
    IN  IF has("Blocked") THEN "Blocked"
        ELSE IF RootRuns(r) # {}
        THEN IF result[root].status \in {"Completed", "Canceled"}
             THEN result[root].status ELSE "Failed"
        ELSE IF has("Failed") THEN "Failed" ELSE "Completed"
=============================================================================
