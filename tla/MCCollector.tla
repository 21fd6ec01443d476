---------------------------- MODULE MCCollector ----------------------------
(* Collector for TLC: interchangeable requests.                            *)
EXTENDS Collector, TLC

Symmetry == Permutations(Tasks)

\* Bounds: a parent is a span that no client names, of the statuses a span may
\* end with only one is used, and a capture is made only before any span is started.
Representative ==
    /\ \A t \in Tasks :
          copy[t].parent \in (Allocated \ Named) \cup {NoSpan} /\ copy[t].status # "Failed"
    /\ points # <<>> \/ (\E t \in Tasks : pc[t] = "point") => sequence = 0
============================================================================
