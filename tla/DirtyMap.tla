------------------------------ MODULE DirtyMap ------------------------------
(***************************************************************************)
(* compute_dirty_map: the work-list that finds the spans a fork makes      *)
(* dirty, why, and through which other dirty spans.  The graph may have    *)
(* cycles.  The queue is a set here: its order does not change the result, *)
(* and any order includes the first-in first-out one of the code.          *)
(***************************************************************************)
EXTENDS Recording

VARIABLES
    tree, origin,  \* the arguments
    marked,        \* keys of the map
    reasons,       \* DirtySpanRecord.reasons
    triggers,      \* DirtySpanRecord.triggered_by
    queue

mapVars == <<tree, origin, marked, reasons, triggers, queue>>

Reasons == {"PatchedInput", "UpstreamOutputChanged", "DependencyUnknown"}

MapTypeOK ==
    /\ tree \in RecordingType
    /\ origin \in Spans
    /\ marked \subseteq Spans
    /\ reasons \in [Spans -> SUBSET Reasons]
    /\ triggers \in [Spans -> SUBSET Spans]
    /\ queue \subseteq marked

MapInit ==
    /\ tree \in Recordings
    /\ origin \in Spans
    /\ marked = {origin}
    /\ reasons = [x \in Spans |-> IF x = origin THEN {"PatchedInput"} ELSE {}]
    /\ triggers = [x \in Spans |-> {}]
    /\ queue = {origin}

\* A child that also depends on its parent is reached as a dependent only.
Reason(current, x) ==
    IF x \in Dependents(tree, current)
    THEN "UpstreamOutputChanged" ELSE "DependencyUnknown"

\* pop_front, and push_dirty for the spans reached.
Process(current, reached, noted, queued) ==
    /\ current \in queue
    /\ marked' = marked \cup reached
    /\ reasons' = [x \in Spans |-> IF x \in noted
                       THEN reasons[x] \cup {Reason(current, x)} ELSE reasons[x]]
    /\ triggers' = [x \in Spans |-> IF x \in noted
                       THEN triggers[x] \cup {current} ELSE triggers[x]]
    /\ queue' = (queue \ {current}) \cup queued
    /\ UNCHANGED <<tree, origin>>

\* Faulty variant: whatever is reached is queued, dirty or not.
PopRequeues(current) ==
    LET reached == Reached(tree, current)
    IN  Process(current, reached, reached, reached)

\* Faulty variant: children are taken to be covered by their edges.
PopDependents(current) ==
    LET reached == Dependents(tree, current)
    IN  Process(current, reached, reached, reached \ marked)

\* Only a span that was not dirty is queued; one that was gains a trigger.
PopFront(current) ==
    LET reached == Reached(tree, current)
    IN  Process(current, reached, reached, reached \ marked)

Return == queue = {} /\ UNCHANGED mapVars

MapNext == (\E current \in Spans : PopFront(current)) \/ Return

MapSpec == MapInit /\ [][MapNext]_mapVars

\* The loop is plain sequential code: it goes on while it can.
FairMapSpec == MapSpec /\ WF_mapVars(MapNext)

----------------------------------------------------------------------------
(* Properties                                                              *)

\* "The dirty set should be conservative", and "selective replay updates only
\* affected downstream spans": the map ends with exactly the spans that the
\* fork reaches, whatever cycles the edges form.
FindsAllAffected == queue = {} => marked = DirtyFrom(tree, origin)

\* Every dirty span ends with all the dirty spans that reach it as triggers,
\* those found after it included.  Early cutoff reuses a span when its triggers
\* are unchanged, so a missing one would let a stale result through.
TriggersComplete ==
    queue = {} =>
        \A x \in Spans : triggers[x] = Triggers(tree, marked, x)

\* The loop ends on every graph.
Terminates == <>(queue = {})
=============================================================================
