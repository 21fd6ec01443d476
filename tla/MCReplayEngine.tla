--------------------------- MODULE MCReplayEngine ---------------------------
EXTENDS BranchViews

\* A root of any kind with the other spans below it, in every shape.
Trees == {p \in [Spans -> 0 .. N - 1] :
            /\ p[1] = NoParent
            /\ \A x \in 2 .. N : p[x] \in 1 .. x - 1}

\* Outputs are the recorded "old" ones; containers have none.
Recorded(kind, failed) ==
    [x \in Spans |->
        [status |-> IF x \in failed THEN "Failed" ELSE "Completed",
         output |-> IF kind[x] = "work" THEN "old" ELSE "none"]]

Below == 2 .. N

\* Spans of any kind below the root, with up to two edges between them, either way.
Graphs ==
    {[kind |-> k, needs |-> e] :
        k \in {q \in [Spans -> Kinds] : q[1] = "run" /\ \A x \in Below : q[x] # "run"},
        e \in {d \in SUBSET {<<x, y>> \in Below \X Below : x # y} : Cardinality(d) <= 2}}

\* Work below the root, two spans resting on each other and one on a third.
Cycles ==
    {[kind  |-> [x \in Spans |-> IF x = 1 THEN "run" ELSE "work"],
      needs |-> {<<t[1], t[2]>>, <<t[2], t[1]>>, <<t[1], t[3]>>}] :
        t \in {u \in Below \X Below \X Below : Cardinality({u[1], u[2], u[3]}) = 3}}

MCRecordings ==
    {[kind |-> g.kind, parent |-> p, needs |-> g.needs, result |-> Recorded(g.kind, f)] :
        g \in Graphs \cup Cycles, p \in Trees, f \in {{}, {N}}}

\* Only one edge, from a span to an earlier planner step.
MCContainerEdges ==
    {r \in MCRecordings :
        \E x, y \in Spans : r.needs = {<<x, y>>} /\ y < x /\ IsContainer(r, y)}

\* A run that is still recording, under a planner step: the step and the last
\* span have not ended.
MCUnfinished ==
    {[r EXCEPT !.kind[1] = "step",
               !.result[1].status = "Running",
               !.result[N].status = "Running"] : r \in MCRecordings}
=============================================================================
