----------------------------- MODULE MCDirtyMap -----------------------------
EXTENDS DirtyMap

\* Every graph of N spans: every tree over every set of edges, loops included.
MCRecordings ==
    {[kind   |-> [x \in Spans |-> "work"],
      parent |-> p,
      needs  |-> edges,
      result |-> [x \in Spans |-> [status |-> "Completed", output |-> "old"]]] :
        p \in {q \in [Spans -> 0 .. N - 1] : \A x \in Spans : q[x] < x},
        edges \in SUBSET (Spans \X Spans)}
=============================================================================
