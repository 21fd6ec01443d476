------------------------- MODULE ReplayEngineProofs -------------------------
(***************************************************************************)
(* For a recording of any size: compute_dirty_map finds what a fork        *)
(* affects; what a branch reuses is sound, what it replays was read when   *)
(* it was final, blocks propagate, the plan is kept and a failure reaches  *)
(* the run.                                                                *)
(* And of a finished branch: its diff leads to a span that was replayed,   *)
(* and its forensics to a cause.                                           *)
(*                                                                         *)
(* The invariant follows the replay loop.  Work spans are settled in       *)
(* sequence order, so all that is settled lies below all that is to do.  A *)
(* work span that has not been replayed, or was reused, has its recorded   *)
(* result, and the triggers of a reused one have theirs.                   *)
(***************************************************************************)
EXTENDS BranchViews, DirtyMap, FiniteSetTheorems, SequenceTheorems, WellFoundedInduction, TLAPS

Planning == {"predict", "foresee", "copy"}

Recorded(x) == target[x] = rec.result[x]

DirtyClosed ==
    /\ fork \in dirty
    /\ \A x \in dirty : Reached(rec, x) \subseteq dirty

\* Where the loops are.
Progress ==
    /\ phase \in Planning => \A x \in Spans : outcome[x] = "none" /\ Recorded(x)
    /\ phase = "replay" =>
          /\ todo \subseteq DirtyWork
          /\ \A x \in todo : outcome[x] = "none"
          /\ \A x \in DirtyWork \ todo : outcome[x] # "none" /\ \A y \in todo : x < y
    /\ phase = "rollup" => \A x \in todo : ~Work(x)
    /\ phase \in {"rollup", "done"} => \A x \in DirtyWork : outcome[x] # "none"

Results ==
    /\ \A x \in Spans : outcome[x] # "none" => x \in DirtyWork
    /\ \A x \in Spans :
          Work(x) /\ outcome[x] \in {"none", "Reused"} => Recorded(x)
    /\ \A x \in Spans : outcome[x] = "Reused" =>
          \A y \in Triggers(rec, dirty, x) :
              Work(y) /\ outcome[y] # "none" /\ Recorded(y)

Inv ==
    /\ rec \in Recordings
    /\ TypeOK
    /\ DirtyClosed
    /\ Progress
    /\ Results
    /\ BlocksPropagate

-----------------------------------------------------------------------------
LEMMA ReachedIsSpans == \A r, x : Reached(r, x) \subseteq Spans
  BY DEF Reached, Dependents, Children

LEMMA DirtyFromClosed ==
    ASSUME NEW r, NEW f, NEW x \in DirtyFrom(r, f)
    PROVE  Reached(r, x) \subseteq DirtyFrom(r, f)
  <1> DEFINE after == [y \in Spans |-> Reached(r, y)]
  <1>1. SUFFICES ASSUME NEW z \in Reached(r, x), NEW S \in SUBSET Spans,
                        f \in S, \A y \in S : after[y] \subseteq S
                 PROVE  z \in S
    BY ReachedIsSpans DEF DirtyFrom, Closure
  <1>2. x \in S
    BY <1>1 DEF DirtyFrom, Closure
  <1>3. after[x] = Reached(r, x)
    BY <1>2
  <1> QED
    BY <1>1, <1>2, <1>3

\* A closed set with the fork in it holds the closure.
LEMMA DirtyFromLeast ==
    ASSUME NEW r, NEW f, NEW S \in SUBSET Spans, f \in S,
           \A x \in S : Reached(r, x) \subseteq S
    PROVE  DirtyFrom(r, f) \subseteq S
  <1> DEFINE after == [y \in Spans |-> Reached(r, y)]
  <1>1. \A y \in S : after[y] \subseteq S
    OBVIOUS
  <1> QED
    BY <1>1 DEF DirtyFrom, Closure

LEMMA RecordingsTyped == \A r \in Recordings : r \in RecordingType
  BY RecordingAssumption

-----------------------------------------------------------------------------
(* compute_dirty_map.  A span that is marked and no longer queued has been *)
(* visited: everything it reaches is marked and names it as a trigger.     *)
(* Nothing is marked that is not in every closed set with the origin in it.*)

Visited == marked \ queue

MapInv ==
    /\ tree \in Recordings
    /\ MapTypeOK
    /\ origin \in marked
    /\ marked \subseteq DirtyFrom(tree, origin)
    /\ \A x \in Visited : Reached(tree, x) \subseteq marked
    /\ \A x \in Spans : triggers[x] = {y \in Visited : x \in Reached(tree, y)}

LEMMA MapStart == MapInit => MapInv
  <1> SUFFICES ASSUME MapInit PROVE MapInv
    OBVIOUS
  <1>1. tree \in RecordingType
    BY RecordingAssumption DEF MapInit
  <1>2. origin \in DirtyFrom(tree, origin)
    BY DEF MapInit, DirtyFrom, Closure
  <1> QED
    BY <1>1, <1>2 DEF MapInit, MapInv, MapTypeOK, Visited, Reasons

LEMMA MapPop ==
    ASSUME MapInv, NEW current \in Spans, PopFront(current)
    PROVE  MapInv'
  <1> DEFINE reached == Reached(tree, current)
  <1>1. reached \subseteq Spans
    BY ReachedIsSpans
  <1>2. current \in marked /\ current \in queue
    BY DEF PopFront, Process, MapInv, MapTypeOK
  <1>3. marked' = marked \cup reached /\ queue' = (queue \ {current}) \cup (reached \ marked)
    BY DEF PopFront, Process
  <1>4. tree' = tree /\ origin' = origin
    BY DEF PopFront, Process
  <1>5. triggers' = [x \in Spans |-> IF x \in reached
                        THEN triggers[x] \cup {current} ELSE triggers[x]]
    BY DEF PopFront, Process
  <1>6. Visited' = Visited \cup {current}
    BY <1>2, <1>3 DEF Visited, MapInv, MapTypeOK
  <1>7. MapTypeOK'
    <2>1. reasons' \in [Spans -> SUBSET Reasons]
      BY DEF PopFront, Process, Reason, Reasons, MapInv, MapTypeOK
    <2>2. triggers' \in [Spans -> SUBSET Spans]
      BY <1>5 DEF MapInv, MapTypeOK
    <2> QED
      BY <2>1, <2>2, <1>1, <1>3, <1>4 DEF MapInv, MapTypeOK
  <1>8. (marked \subseteq DirtyFrom(tree, origin))'
    BY <1>2, <1>3, <1>4, DirtyFromClosed DEF MapInv
  <1>9. (\A x \in Visited : Reached(tree, x) \subseteq marked)'
    BY <1>3, <1>4, <1>6 DEF MapInv
  <1>10. (\A x \in Spans : triggers[x] = {y \in Visited : x \in Reached(tree, y)})'
    BY <1>4, <1>5, <1>6 DEF MapInv
  <1> QED
    BY <1>3, <1>4, <1>7, <1>8, <1>9, <1>10 DEF MapInv

LEMMA MapInvHolds == MapSpec => []MapInv
  <1>1. MapInv /\ UNCHANGED mapVars => MapInv'
    BY DEF MapInv, MapTypeOK, Visited, mapVars
  <1>2. MapInv /\ [MapNext]_mapVars => MapInv'
    BY MapPop, <1>1 DEF MapNext, Return
  <1> QED
    BY MapStart, <1>2, PTL DEF MapSpec

\* The map ends with exactly what the fork reaches, whatever cycles the graph
\* has: the set of dirty spans that the engine starts from.
THEOREM AllAffectedFound == MapSpec => []FindsAllAffected
  <1>1. MapInv => FindsAllAffected
    <2> SUFFICES ASSUME MapInv, queue = {} PROVE marked = DirtyFrom(tree, origin)
      BY DEF FindsAllAffected
    <2>1. \A x \in marked : Reached(tree, x) \subseteq marked
      BY DEF MapInv, Visited
    <2>2. DirtyFrom(tree, origin) \subseteq marked
      BY <2>1, DirtyFromLeast DEF MapInv, MapTypeOK
    <2> QED
      BY <2>2 DEF MapInv
  <1> QED
    BY <1>1, MapInvHolds, PTL

\* Every dirty span ends with every dirty span that reaches it as a trigger
\* (push_dirty), those found after it included.
THEOREM AllTriggersFound == MapSpec => []TriggersComplete
  <1>1. MapInv => TriggersComplete
    BY DEF MapInv, Visited, TriggersComplete, Triggers
  <1> QED
    BY <1>1, MapInvHolds, PTL

-----------------------------------------------------------------------------
(* The replay loop                                                         *)

\* What x rests on reaches x.
LEMMA InputsReach ==
    ASSUME NEW x \in Spans, NEW y \in Inputs(x)
    PROVE  y \in Spans /\ Work(y) /\ x \in Reached(rec, y)
  BY DEF Inputs, Upstream, Needs, Reached, Dependents, Children

LEMMA InitInv == Init => Inv
  <1> SUFFICES ASSUME Init PROVE Inv
    OBVIOUS
  <1>1. rec \in RecordingType
    BY RecordingsTyped DEF Init
  <1>2. DirtyClosed
    <2>1. fork \in dirty
      BY DEF Init, DirtyFrom, Closure
    <2> QED
      BY <2>1, DirtyFromClosed DEF Init, DirtyClosed
  <1>3. TypeOK
    <2>1. dirty \subseteq Spans /\ rollup \subseteq Spans
      BY DEF Init, DirtyFrom, Closure, Ancestors
    <2>2. rec.result \in [Spans -> Result]
      BY <1>1 DEF RecordingType
    <2> QED
      BY <1>1, <2>1, <2>2 DEF Init, TypeOK, Outcomes, Phases, SpanStatus
  <1>4. Progress /\ Results /\ BlocksPropagate
    BY DEF Init, Progress, Results, BlocksPropagate, Planning, Recorded, Settled
  <1> QED
    BY <1>2, <1>3, <1>4 DEF Inv, Init

\* The steps of the plan settle nothing.
LEMMA PlanInv ==
    ASSUME Inv,
           \/ \E x \in Spans : Predict(x) \/ Foresee(x)
           \/ PredictEnd \/ ForeseeEnd
    PROVE  Inv'
  <1>1. /\ UNCHANGED <<request, dirty, rollup, target, outcome, status>>
        /\ phase \in Planning /\ phase' \in Planning
    BY DEF Predict, Foresee, PredictEnd, ForeseeEnd, Leave, Planning
  <1>2. blocked' \subseteq Spans
    BY DEF Predict, Foresee, PredictEnd, ForeseeEnd, Inv, TypeOK
  <1>3. todo' \subseteq Spans
    BY DEF Predict, Foresee, PredictEnd, ForeseeEnd, Leave, Derivable, Inv, TypeOK
  <1>4. phase' \in Phases
    BY <1>1 DEF Planning, Phases
  <1>5. TypeOK'
    BY <1>1, <1>2, <1>3, <1>4 DEF Inv, TypeOK, request
  <1>6. (DirtyClosed /\ Results /\ BlocksPropagate)'
    BY <1>1 DEF Inv, DirtyClosed, Results, BlocksPropagate, request, DirtyWork, Work,
       Recorded, Settled, Inputs
  <1>7. Progress'
    BY <1>1 DEF Inv, Progress, request, Planning, Recorded
  <1> QED
    BY <1>1, <1>5, <1>6, <1>7 DEF Inv, request

LEMMA CopyInv == Inv /\ Copy => Inv'
  <1> SUFFICES ASSUME Inv, Copy PROVE Inv'
    OBVIOUS
  <1>1. /\ UNCHANGED <<rec, fork, patch, dirty, rollup, blocked, outcome, status>>
        /\ phase = "copy" /\ phase' = "replay" /\ todo' = DirtyWork /\ target' = rec.result
    BY DEF Copy, Leave, request
  <1>2. \A x \in Spans : outcome[x] = "none"
    BY <1>1 DEF Inv, Progress, Planning
  <1>3. rec.result \in [Spans -> Result]
    BY RecordingsTyped DEF Inv, RecordingType
  <1>4. TypeOK'
    BY <1>1, <1>3 DEF Inv, TypeOK, Phases, DirtyWork
  <1>5. Progress'
    BY <1>1, <1>2 DEF Progress, Planning, DirtyWork, Work, Inv, TypeOK
  <1>6. (DirtyClosed /\ Results /\ BlocksPropagate)'
    BY <1>1, <1>2 DEF Inv, DirtyClosed, Results, BlocksPropagate, Recorded, Settled
  <1> QED
    BY <1>1, <1>4, <1>5, <1>6 DEF Inv

\* One span of the replay loop is settled, in order.
LEMMA SettleInv ==
    ASSUME Inv, phase = "replay",
           NEW x \in Spans, First(x),
           NEW how \in Outcomes \ {"none"}, NEW result \in Result,
           Settle(x, how, result),
           how = "Reused" => result = target[x] /\ UpstreamUnchanged(x),
           how \in {"Executed", "Reused"} => ~WaitsForBlocked(x)
    PROVE  Inv'
  <1> USE DEF Inv
  <1>1. /\ UNCHANGED <<rec, fork, patch, dirty, rollup, blocked, phase, status>>
        /\ outcome' = [outcome EXCEPT ![x] = how]
        /\ target' = [target EXCEPT ![x] = result]
        /\ todo' = todo \ {x}
    BY DEF Settle, request
  <1>2. TypeOK'
    BY <1>1 DEF TypeOK
  <1>3. x \in DirtyWork /\ x \in dirty /\ Work(x) /\ outcome[x] = "none" /\ Recorded(x)
    BY DEF First, Progress, DirtyWork, Results, TypeOK
  <1>4. \A y \in todo : x <= y
    BY DEF First
  <1>5. \A y \in Spans \ {x} : outcome'[y] = outcome[y] /\ target'[y] = target[y]
    BY <1>1 DEF TypeOK
  <1>6. outcome'[x] = how /\ target'[x] = result
    BY <1>1 DEF TypeOK
  <1>7. DirtyClosed'
    BY <1>1 DEF DirtyClosed
  <1>8. Progress'
    <2>1. phase' = "replay" /\ DirtyWork' = DirtyWork
      BY <1>1 DEF DirtyWork, Work
    <2>2. todo' \subseteq DirtyWork /\ \A y \in todo' : outcome'[y] = "none"
      BY <1>1, <1>5 DEF Progress, TypeOK
    <2>3. ASSUME NEW y \in DirtyWork \ todo'
          PROVE  outcome'[y] # "none" /\ \A z \in todo' : y < z
      <3>1. CASE y = x
        <4>1. \A z \in todo' : z \in Int /\ x <= z /\ z # x
          BY <1>1, <1>4, RecordingAssumption DEF TypeOK, Spans
        <4> QED
          BY <3>1, <4>1, <1>6, RecordingAssumption DEF Spans
      <3>2. CASE y # x
        BY <3>2, <1>1, <1>5 DEF Progress, DirtyWork, TypeOK
      <3> QED
        BY <3>1, <3>2
    <2> QED
      BY <2>1, <2>2, <2>3 DEF Progress, Planning
  <1>9. Results'
    <2>1. \A y \in Spans : outcome'[y] # "none" => y \in DirtyWork'
      BY <1>1, <1>3, <1>5 DEF Results, DirtyWork, Work
    <2>2. ASSUME NEW y \in Spans, Work(y), outcome'[y] \in {"none", "Reused"}
          PROVE  target'[y] = rec.result[y]
      BY <2>2, <1>3, <1>5, <1>6 DEF Results, Recorded
    <2>3. ASSUME NEW y \in Spans, outcome'[y] = "Reused",
                 NEW z \in Triggers(rec, dirty, y)
          PROVE  Work(z) /\ outcome'[z] # "none" /\ target'[z] = rec.result[z]
      <3>1. z \in Spans
        BY DEF Triggers, TypeOK
      <3>2. CASE y # x
        <4>1. Work(z) /\ outcome[z] # "none" /\ Recorded(z)
          BY <2>3, <3>2, <1>5 DEF Results
        <4>2. z # x
          BY <4>1, <1>3
        <4> QED
          BY <3>1, <4>1, <4>2, <1>5 DEF Recorded
      <3>3. CASE y = x
        <4>1. /\ Work(z)
              /\ \/ outcome[z] = "Reused"
                 \/ outcome[z] \in {"Executed", "Satisfied"} /\ target[z] = rec.result[z]
          BY <2>3, <3>3, <1>6 DEF UpstreamUnchanged
        <4>2. z # x
          BY <4>1, <1>3
        <4>3. Recorded(z)
          BY <3>1, <4>1 DEF Results, Recorded
        <4> QED
          BY <3>1, <4>1, <4>2, <4>3, <1>5 DEF Recorded
      <3> QED
        BY <3>2, <3>3
    <2> QED
      BY <2>1, <2>2, <2>3, <1>1 DEF Results, Work, Recorded
  <1>10. BlocksPropagate'
    <2> SUFFICES ASSUME NEW y \in Spans, outcome'[y] \in {"Executed", "Reused"},
                        NEW z \in Inputs(y), z < y
                 PROVE  outcome'[z] # "Blocked"
      BY <1>1 DEF BlocksPropagate, Settled, Inputs, Work
    <2>1. z \in Spans /\ z # y
      BY InputsReach, RecordingAssumption DEF Spans
    <2>2. CASE y = x
      <3>1. outcome[z] # "Blocked"
        BY <2>2, <1>6 DEF WaitsForBlocked, Inputs
      <3> QED
        BY <2>1, <2>2, <3>1, <1>5
    <2>3. CASE y # x
      <3>1. outcome[y] \in {"Executed", "Reused"}
        BY <2>3, <1>5
      <3>2. y \in DirtyWork \ todo
        BY <3>1 DEF Results, Progress
      <3>3. y < x
        BY <3>2 DEF Progress, First
      <3>4. z # x
        BY <3>3, <2>1, RecordingAssumption DEF Spans
      <3> QED
        BY <3>1, <3>4, <2>1, <1>5 DEF BlocksPropagate, Settled
    <2> QED
      BY <2>2, <2>3
  <1> QED
    BY <1>1, <1>2, <1>7, <1>8, <1>9, <1>10

\* Every step of the replay loop settles the first span that is left.
LEMMA ReplayInv ==
    ASSUME Inv, NEW x \in Spans,
           Satisfy(x) \/ SkipBlocked(x) \/ Reuse(x) \/ Refuse(x) \/ Execute(x)
    PROVE  Inv'
  <1>1. CASE Satisfy(x)
    <2>1. PICK o \in Outputs \ {"none"} :
             Settle(x, "Satisfied", [status |-> "Completed", output |-> o])
      BY <1>1 DEF Satisfy
    <2>2. [status |-> "Completed", output |-> o] \in Result
      BY DEF Result, SpanStatus
    <2> QED
      BY <1>1, <2>1, <2>2, SettleInv DEF Satisfy, Outcomes
  <1>2. CASE SkipBlocked(x) \/ Refuse(x)
    <2>1. BlockedResult \in Result
      BY DEF BlockedResult, Result, SpanStatus, Outputs
    <2> QED
      BY <1>2, <2>1, SettleInv DEF SkipBlocked, Refuse, Runs, Outcomes
  <1>3. CASE Reuse(x)
    <2>1. target[x] \in Result
      BY DEF Inv, TypeOK
    <2> QED
      BY <1>3, <2>1, SettleInv DEF Reuse, MayReuse, Outcomes
  <1>4. CASE Execute(x)
    <2>1. PICK s \in {"Completed", "Failed"}, o \in Outputs \ {"none"} :
             Settle(x, "Executed", [status |-> s, output |-> o])
      BY <1>4 DEF Execute
    <2>2. [status |-> s, output |-> o] \in Result
      BY DEF Result, SpanStatus
    <2> QED
      BY <1>4, <2>1, <2>2, SettleInv DEF Execute, Runs, Outcomes
  <1> QED
    BY <1>1, <1>2, <1>3, <1>4

LEMMA ReplayEndInv == Inv /\ ReplayEnd => Inv'
  <1> SUFFICES ASSUME Inv, ReplayEnd PROVE Inv'
    OBVIOUS
  <1>1. /\ UNCHANGED <<rec, fork, patch, dirty, rollup, blocked, target, outcome, status>>
        /\ phase = "replay" /\ phase' = "rollup" /\ todo = {} /\ todo' = Derivable
    BY DEF ReplayEnd, Leave, request
  <1>2. TypeOK'
    BY <1>1 DEF Inv, TypeOK, Phases, Derivable
  <1>3. Progress'
    BY <1>1 DEF Inv, Progress, Planning, Derivable, DirtyWork, Work
  <1>4. (DirtyClosed /\ Results /\ BlocksPropagate)'
    BY <1>1 DEF Inv, DirtyClosed, Results, BlocksPropagate, Recorded, Settled, DirtyWork,
       Work, Inputs
  <1> QED
    BY <1>1, <1>2, <1>3, <1>4 DEF Inv

\* Rolling a container up changes no work span.
LEMMA RollUpInv == ASSUME Inv, NEW x \in Spans, RollUp(x) PROVE Inv'
  <1>1. /\ UNCHANGED <<rec, fork, patch, dirty, rollup, blocked, phase, outcome, status>>
        /\ phase = "rollup" /\ todo' = todo \ {x} /\ ~Work(x)
        /\ target' = [target EXCEPT ![x].status = DerivedStatus(x)]
    BY DEF RollUp, Last, request, Inv, Progress
  <1>2. DerivedStatus(x) \in SpanStatus
    <2>1. rec.result[x].status \in SpanStatus
      BY RecordingsTyped DEF Inv, RecordingType, Result
    <2> QED
      BY <2>1 DEF DerivedStatus, SpanStatus
  <1>3. TypeOK'
    <2>1. target' \in [Spans -> Result]
      BY <1>1, <1>2 DEF Inv, TypeOK, Result
    <2> QED
      BY <1>1, <2>1 DEF Inv, TypeOK
  <1>4. \A y \in Spans : Work(y) => target'[y] = target[y]
    BY <1>1 DEF Inv, TypeOK
  <1>5. Progress'
    BY <1>1 DEF Inv, Progress, Planning, DirtyWork, Work
  <1>6. Results'
    <2>1. \A y \in Spans : Triggers(rec, dirty, y) \subseteq Spans
      BY DEF Triggers, Inv, TypeOK
    <2> QED
      BY <1>1, <1>4, <2>1 DEF Inv, Results, Recorded, DirtyWork, Work
  <1>7. (DirtyClosed /\ BlocksPropagate)'
    BY <1>1 DEF Inv, DirtyClosed, BlocksPropagate, Settled, Work, Inputs
  <1> QED
    BY <1>1, <1>3, <1>5, <1>6, <1>7 DEF Inv

LEMMA EndInv == Inv /\ (Finish \/ Abort \/ UNCHANGED vars) => Inv'
  <1> SUFFICES ASSUME Inv, Finish \/ Abort \/ UNCHANGED vars PROVE Inv'
    OBVIOUS
  <1>1. UNCHANGED <<rec, fork, patch, dirty, rollup, blocked, target, outcome>>
    BY DEF Finish, Abort, vars, request
  <1>2. (DirtyClosed /\ Results /\ BlocksPropagate)'
    BY <1>1 DEF Inv, DirtyClosed, Results, BlocksPropagate, Recorded, Settled, DirtyWork,
       Work, Inputs
  <1>3. CASE Finish
    <2>1. DeriveRunStatus(rec, target) \in SpanStatus
      BY DEF DeriveRunStatus, SpanStatus
    <2>2. TypeOK'
      BY <1>1, <1>3, <2>1 DEF Inv, TypeOK, Finish, Leave, Phases
    <2>3. Progress'
      BY <1>1, <1>3 DEF Inv, Progress, Finish, Leave, Planning, DirtyWork, Work
    <2> QED
      BY <1>1, <1>2, <2>2, <2>3 DEF Inv
  <1>4. CASE Abort
    <2>1. TypeOK' /\ Progress'
      BY <1>1, <1>4 DEF Inv, TypeOK, Abort, Phases, Progress, Planning
    <2> QED
      BY <1>1, <1>2, <2>1 DEF Inv
  <1>5. CASE UNCHANGED vars
    <2>1. TypeOK' /\ Progress'
      BY <1>5 DEF vars, Inv, TypeOK, Progress, Planning, Recorded, DirtyWork, Work
    <2> QED
      BY <1>1, <1>2, <2>1 DEF Inv
  <1> QED
    BY <1>3, <1>4, <1>5

\* The invariant of the replay loop.
THEOREM InvHolds == Spec => []Inv
  <1>1. Inv /\ [Next]_vars => Inv'
    BY PlanInv, CopyInv, ReplayInv, ReplayEndInv, RollUpInv, EndInv
       DEF Next, Proceed, Visit, Returned
  <1> QED
    BY InitInv, <1>1, PTL DEF Spec

-----------------------------------------------------------------------------
\* Every variable keeps its type.
THEOREM TypeCorrect == Spec => []TypeOK
  BY InvHolds, PTL DEF Inv

\* What a branch reuses rests on recorded results only.
THEOREM ReuseSound == Spec => []ReuseIsSound
  <1>1. Inv => ReuseIsSound
    <2> SUFFICES ASSUME Inv, phase \in {"rollup", "done"}, NEW x \in Spans,
                        Work(x), x \notin dirty \/ outcome[x] = "Reused",
                        NEW y \in Inputs(x)
                 PROVE  target[y] = rec.result[y]
      BY DEF ReuseIsSound
    <2>1. y \in Spans /\ Work(y) /\ x \in Reached(rec, y)
      BY InputsReach
    <2>2. CASE y \in dirty
      <3>1. x \in dirty /\ y \in Triggers(rec, dirty, x)
        BY <2>1, <2>2 DEF Inv, DirtyClosed, Triggers
      <3> QED
        BY <3>1 DEF Inv, Results, Recorded
    <2>3. CASE y \notin dirty
      BY <2>1, <2>3 DEF Inv, Results, Recorded, DirtyWork, TypeOK
    <2> QED
      BY <2>2, <2>3
  <1> QED
    BY <1>1, InvHolds, PTL

\* What runs or is reused waits for no blocked span before it.
THEOREM BlocksReach == Spec => []BlocksPropagate
  BY InvHolds, PTL DEF Inv

\* What a span has read from the spans before it does not change again.
THEOREM InputsFinalWhenRead == Spec => InputsSettled
  <1> DEFINE Step == \A x \in Spans : Settled(x) =>
                        \A y \in Inputs(x) : y < x => target'[y] = target[y]
  <1>1. Inv /\ [Next]_vars => Step
    <2> SUFFICES ASSUME Inv, [Next]_vars, NEW x \in Spans, Settled(x),
                        NEW y \in Inputs(x), y < x
                 PROVE  target'[y] = target[y]
      OBVIOUS
    <2>1. y \in Spans /\ Work(y)
      BY InputsReach
    <2>2. phase \notin Planning
      BY DEF Inv, Progress, Settled, Planning
    <2>3. ASSUME NEW z \in Spans, NEW how, NEW result,
                 phase = "replay", First(z), Settle(z, how, result)
          PROVE  target'[y] = target[y]
      <3>1. x \in DirtyWork \ todo
        BY <2>3 DEF Inv, Progress, Results, Settled
      <3>2. x < z
        BY <2>3, <3>1 DEF Inv, Progress, First
      <3>3. y # z
        BY <2>1, <3>2, RecordingAssumption DEF Spans
      <3> QED
        BY <2>1, <2>3, <3>3 DEF Settle, Inv, TypeOK
    <2>4. ASSUME NEW z \in Spans, RollUp(z)
          PROVE  target'[y] = target[y]
      <3>1. y # z
        BY <2>1, <2>4 DEF RollUp, Last, Inv, Progress
      <3> QED
        BY <2>1, <2>4, <3>1 DEF RollUp, Inv, TypeOK
    <2>5. ASSUME NEW z \in Spans,
                 Satisfy(z) \/ SkipBlocked(z) \/ Reuse(z) \/ Refuse(z) \/ Execute(z)
          PROVE  target'[y] = target[y]
      BY <2>3, <2>5 DEF Satisfy, SkipBlocked, Reuse, Refuse, Execute, Runs
    <2>6. ASSUME ReplayEnd \/ Finish \/ Abort \/ UNCHANGED vars
          PROVE  target'[y] = target[y]
      BY <2>6 DEF ReplayEnd, Finish, Abort, vars
    <2>7. ASSUME NEW z \in Spans, Predict(z) \/ Foresee(z)
          PROVE  FALSE
      BY <2>2, <2>7 DEF Predict, Foresee, Planning
    <2>8. ASSUME PredictEnd \/ ForeseeEnd \/ Copy
          PROVE  FALSE
      BY <2>2, <2>8 DEF PredictEnd, ForeseeEnd, Copy, Planning
    <2> QED
      BY <2>4, <2>5, <2>6, <2>7, <2>8 DEF Next, Proceed, Visit, Returned
  <1>2. Inv /\ [Next]_vars => [Step]_vars
    BY <1>1
  <1> QED
    BY <1>2, InvHolds, PTL DEF Spec, InputsSettled

-----------------------------------------------------------------------------
(* What the plan foretells, and where a failure ends: the containers are     *)
(* rolled up from the last to the first, each after all its children.        *)

\* A container is in the plan's list for a child that is in it too.
Foretold ==
    /\ \A x \in blocked : Work(x) => x \in DirtyWork /\ ~SatisfiedByPatch(x)
    /\ \A x \in blocked : ~Work(x) =>
          x \in Derivable /\ Children(rec, x) \cap blocked # {}
    /\ phase = "predict" => todo \subseteq DirtyWork
    /\ phase = "foresee" => todo \subseteq Derivable

\* A span of the list that has had its turn is blocked.
Kept ==
    /\ \A x \in blocked :
          Work(x) /\ outcome[x] # "none" => target[x].status = "Blocked"
    /\ phase = "rollup" =>
          \A x \in blocked \ todo : ~Work(x) => target[x].status = "Blocked"
    /\ phase = "done" => \A x \in blocked : target[x].status = "Blocked"

\* A container that has had its turn agrees with its children.
Derived ==
    /\ phase = "rollup" =>
          /\ todo \subseteq Derivable
          /\ \A x \in Derivable \ todo :
                /\ target[x].status = DerivedStatus(x)
                /\ \A y \in todo : y < x
    /\ phase = "done" =>
          /\ \A x \in Derivable : target[x].status = DerivedStatus(x)
          /\ status = DeriveRunStatus(rec, target)

Rollup == rollup = Ancestors(rec, dirty)

EndInvariant == Foretold /\ Kept /\ Derived /\ Rollup

LEMMA ChildrenLater ==
    ASSUME Inv, NEW x \in Spans, NEW y \in Children(rec, x)
    PROVE  y \in Spans /\ x < y
  BY RecordingAssumption DEF Children, Inv

LEMMA EndInit == Init => EndInvariant
  BY DEF Init, EndInvariant, Foretold, Kept, Derived, Rollup, DirtyWork, Work, IsContainer

LEMMA EndPlan ==
    ASSUME Inv, EndInvariant,
           \/ \E x \in Spans : Predict(x) \/ Foresee(x)
           \/ PredictEnd \/ ForeseeEnd \/ Copy
    PROVE  EndInvariant'
  <1>1. /\ UNCHANGED <<rec, fork, patch, dirty, rollup, outcome>>
        /\ phase \in Planning /\ phase' \in Planning \cup {"replay"}
    BY DEF Predict, Foresee, PredictEnd, ForeseeEnd, Copy, Leave, Planning, request
  <1>2. \A x \in Spans : outcome[x] = "none"
    BY <1>1 DEF Inv, Progress
  <1>3. (Kept /\ Derived /\ Rollup)'
    <2>1. blocked' \subseteq Spans
      BY DEF Predict, Foresee, PredictEnd, ForeseeEnd, Copy, Inv, TypeOK
    <2> QED
      BY <1>1, <1>2, <2>1 DEF Kept, Derived, Rollup, EndInvariant, Planning
  <1>4. Foretold'
    <2> USE DEF EndInvariant
    <2>1. CASE \E x \in Spans : Predict(x)
      BY <1>1, <2>1 DEF Predict, First, Foretold, DirtyWork, Derivable, Work,
         SatisfiedByPatch, Children
    <2>2. CASE \E x \in Spans : Foresee(x)
      BY <1>1, <2>2 DEF Foresee, Last, Foretold, DirtyWork, Derivable, Work,
         SatisfiedByPatch, Children
    <2>3. CASE PredictEnd \/ ForeseeEnd \/ Copy
      BY <1>1, <2>3 DEF PredictEnd, ForeseeEnd, Copy, Leave, Foretold, DirtyWork,
         Derivable, Work, SatisfiedByPatch, Children
    <2> QED
      BY <2>1, <2>2, <2>3
  <1> QED
    BY <1>3, <1>4 DEF EndInvariant

LEMMA EndReplay ==
    ASSUME Inv, EndInvariant,
           NEW x \in Spans,
           Satisfy(x) \/ SkipBlocked(x) \/ Reuse(x) \/ Refuse(x) \/ Execute(x)
    PROVE  EndInvariant'
  <1>0. x \in blocked /\ Work(x) => ~SatisfiedByPatch(x)
    BY DEF EndInvariant, Foretold
  <1>1. PICK how, result :
           /\ phase = "replay"
           /\ Settle(x, how, result)
           /\ x \in blocked /\ Work(x) => result.status = "Blocked"
    <2>1. CASE Satisfy(x)
      BY <1>0, <2>1 DEF Satisfy
    <2>2. CASE SkipBlocked(x) \/ Refuse(x)
      BY <2>2 DEF SkipBlocked, Refuse, Runs, BlockedResult
    <2>3. CASE Reuse(x)
      BY <2>3 DEF Reuse, WaitsForBlocked
    <2>4. CASE Execute(x)
      BY <2>4 DEF Execute, Runs, WaitsForBlocked
    <2> QED
      BY <2>1, <2>2, <2>3, <2>4
  <1>2. /\ UNCHANGED <<rec, fork, patch, dirty, rollup, blocked, phase>>
        /\ outcome' = [outcome EXCEPT ![x] = how]
        /\ target' = [target EXCEPT ![x] = result]
    BY <1>1 DEF Settle, request
  <1>3. Foretold'
    BY <1>1, <1>2 DEF EndInvariant, Foretold, DirtyWork, Derivable, Work,
       SatisfiedByPatch, Children
  <1>4. Kept'
    <2>1. \A y \in Spans \ {x} : outcome'[y] = outcome[y] /\ target'[y] = target[y]
      BY <1>2 DEF Inv, TypeOK
    <2>2. target'[x] = result /\ blocked \subseteq Spans
      BY <1>2 DEF Inv, TypeOK
    <2> QED
      BY <1>1, <1>2, <2>1, <2>2 DEF EndInvariant, Kept, Work
  <1> QED
    BY <1>1, <1>2, <1>3, <1>4 DEF EndInvariant, Derived, Rollup

\* The last span that is left: its children are done, and nobody's child is left.
LEMMA EndRollUp ==
    ASSUME Inv, EndInvariant, NEW x \in Spans, RollUp(x)
    PROVE  EndInvariant'
  <1>1. /\ UNCHANGED <<rec, fork, patch, dirty, rollup, blocked, phase, outcome, status>>
        /\ phase = "rollup" /\ todo' = todo \ {x} /\ ~Work(x)
        /\ target' = [target EXCEPT ![x].status = DerivedStatus(x)]
        /\ x \in todo /\ todo \subseteq Spans /\ \A y \in todo : y <= x
    BY DEF RollUp, Last, request, Inv, Progress, TypeOK
  <1>2. \A y \in Spans \ {x} : target'[y] = target[y]
    BY <1>1 DEF Inv, TypeOK
  <1>3. target'[x].status = DerivedStatus(x)
    BY <1>1 DEF Inv, TypeOK, Result
  <1>4. Foretold'
    BY <1>1 DEF EndInvariant, Foretold, DirtyWork, Derivable, Work, SatisfiedByPatch,
       Children
  <1>5. Kept'
    <2>1. ASSUME x \in blocked PROVE DerivedStatus(x) = "Blocked"
      <3>1. PICK y \in Children(rec, x) : y \in blocked
        BY <1>1, <2>1 DEF EndInvariant, Foretold
      <3>2. y \in Spans /\ y \notin todo
        BY <1>1, <3>1, ChildrenLater DEF Spans
      <3>3. target[y].status = "Blocked"
        BY <1>1, <3>1, <3>2 DEF EndInvariant, Kept, Foretold, Inv, Progress
      <3> QED
        BY <3>1, <3>3 DEF DerivedStatus
    <2>2. blocked \subseteq Spans
      BY DEF Inv, TypeOK
    <2> QED
      BY <1>1, <1>2, <1>3, <2>1, <2>2 DEF EndInvariant, Kept, Work
  <1>6. Derived'
    <2>1. Derivable' = Derivable /\ Derivable \subseteq Spans
      BY <1>1 DEF Derivable, Work, Inv, TypeOK
    <2>2. ASSUME NEW y \in Spans, y = x \/ x < y PROVE DerivedStatus(y)' = DerivedStatus(y)
      <3>1. \A z \in Children(rec, y) : z \in Spans /\ z # x
        BY <2>2, ChildrenLater DEF Spans
      <3>2. \A z \in Children(rec, y) : target'[z] = target[z]
        BY <3>1, <1>2
      <3>3. rec' = rec /\ Children(rec, y)' = Children(rec, y)
        BY <1>1 DEF Children
      <3>4. \A z \in Children(rec, y) : target'[z].status = target[z].status
        BY <3>2
      <3> HIDE DEF Children
      <3> QED
        BY <3>3, <3>4, ZenonT(30) DEF DerivedStatus
    <2>3. ASSUME NEW y \in Derivable \ todo'
          PROVE  target'[y].status = DerivedStatus(y)' /\ \A z \in todo' : z < y
      <3>1. CASE y = x
        BY <3>1, <1>1, <1>3, <2>2 DEF Spans
      <3>2. CASE y # x
        BY <3>2, <1>1, <1>2, <2>1, <2>2, <2>3 DEF EndInvariant, Derived
      <3> QED
        BY <3>1, <3>2
    <2> QED
      BY <1>1, <2>1, <2>3 DEF EndInvariant, Derived
  <1> QED
    BY <1>1, <1>4, <1>5, <1>6 DEF EndInvariant, Rollup

LEMMA EndRest ==
    ASSUME Inv, EndInvariant, ReplayEnd \/ Finish \/ Abort \/ UNCHANGED vars
    PROVE  EndInvariant'
  <1>1. UNCHANGED <<rec, fork, patch, dirty, rollup, blocked, target, outcome>>
    BY DEF ReplayEnd, Finish, Abort, vars, request
  <1>2. Derivable' = Derivable /\ \A x : DerivedStatus(x)' = DerivedStatus(x)
    BY <1>1 DEF Derivable, Work, DerivedStatus
  <1>3. Foretold'
    <2>1. phase' \in {"predict", "foresee"} => UNCHANGED <<phase, todo>>
      BY DEF ReplayEnd, Finish, Abort, Leave, vars
    <2> QED
      BY <1>1, <2>1 DEF EndInvariant, Foretold, DirtyWork, Derivable, Work,
         SatisfiedByPatch, Children
  <1>4. Rollup'
    BY <1>1 DEF EndInvariant, Rollup
  <1>5. CASE ReplayEnd
    <2>1. phase' = "rollup" /\ todo' = Derivable
      BY <1>5 DEF ReplayEnd, Leave
    <2> QED
      BY <1>1, <1>2, <1>3, <1>4, <2>1 DEF EndInvariant, Kept, Derived, Foretold, Work
  <1>6. CASE Finish
    <2>1. /\ phase = "rollup" /\ phase' = "done" /\ todo = {}
          /\ status' = DeriveRunStatus(rec, target)
      BY <1>6 DEF Finish, Leave
    <2>2. \A x \in blocked : target[x].status = "Blocked"
      BY <2>1 DEF EndInvariant, Kept, Foretold, Inv, Progress
    <2> QED
      BY <1>1, <1>2, <1>3, <1>4, <2>1, <2>2 DEF EndInvariant, Kept, Derived
  <1>7. CASE Abort \/ UNCHANGED vars
    <2>1. phase' = "failed" \/ UNCHANGED <<phase, todo, status>>
      BY <1>7 DEF Abort, vars
    <2> QED
      BY <1>1, <1>2, <1>3, <1>4, <2>1 DEF EndInvariant, Kept, Derived, Work
  <1> QED
    BY <1>5, <1>6, <1>7

\* The invariant of the roll-up.
THEOREM EndInvHolds == Spec => []EndInvariant
  <1>1. Inv /\ EndInvariant /\ [Next]_vars => EndInvariant'
    BY EndPlan, EndReplay, EndRollUp, EndRest DEF Next, Proceed, Visit, Returned
  <1> QED
    BY EndInit, InvHolds, <1>1, PTL DEF Spec

\* What the plan says will block is blocked in the finished branch.
THEOREM PlanIsKept == Spec => []PlanForetells
  <1>1. EndInvariant => PlanForetells
    BY DEF EndInvariant, Kept, PlanForetells
  <1> QED
    BY <1>1, EndInvHolds, PTL

\* The subtree of a span: what is closed under children and contains the span
\* contains its subtree.
LEMMA SubtreeLeast ==
    ASSUME NEW r, NEW a, NEW x \in Subtree(r, a), NEW S \in SUBSET Spans,
           a \in S, \A y \in S : Children(r, y) \subseteq S
    PROVE  x \in S
  BY DEF Subtree, Closure

LEMMA SubtreeHolds ==
    ASSUME NEW r, NEW a \in Spans
    PROVE  /\ Subtree(r, a) \subseteq Spans
           /\ a \in Subtree(r, a)
           /\ \A y \in Subtree(r, a) : Children(r, y) \subseteq Subtree(r, a)
  <1> DEFINE after == [y \in Spans |-> Children(r, y)]
  <1>1. Subtree(r, a) \subseteq Spans /\ a \in Subtree(r, a)
    BY DEF Subtree, Closure
  <1>2. ASSUME NEW y \in Subtree(r, a), NEW z \in Children(r, y)
        PROVE  z \in Subtree(r, a)
    <2>1. SUFFICES ASSUME NEW S \in SUBSET Spans, a \in S,
                          \A w \in S : after[w] \subseteq S
                   PROVE  z \in S
      BY DEF Subtree, Closure, Children
    <2>2. y \in S /\ y \in Spans
      BY <2>1 DEF Subtree, Closure
    <2> QED
      BY <2>1, <2>2
  <1> QED
    BY <1>1, <1>2

LEMMA SubtreeUp ==
    ASSUME NEW r, NEW y \in Spans, NEW c \in Children(r, y), NEW x \in Subtree(r, c)
    PROVE  x \in Subtree(r, y)
  <1>1. c \in Subtree(r, y) /\ Subtree(r, y) \subseteq Spans
    BY SubtreeHolds
  <1> QED
    BY <1>1, SubtreeHolds, SubtreeLeast

\* Every span of a subtree but the first has its parent in it.
LEMMA SubtreeParent ==
    ASSUME NEW r, NEW a \in Spans, NEW z \in Subtree(r, a), z # a
    PROVE  r.parent[z] \in Subtree(r, a)
  <1> SUFFICES ASSUME r.parent[z] \notin Subtree(r, a) PROVE FALSE
    OBVIOUS
  <1> DEFINE S == Subtree(r, a) \ {z}
  <1>1. S \in SUBSET Spans /\ a \in S
    BY SubtreeHolds
  <1>2. \A y \in S : Children(r, y) \subseteq S
    BY SubtreeHolds DEF Children
  <1>3. z \in S
    <2> HIDE DEF S
    <2> QED
      BY <1>1, <1>2, SubtreeLeast
  <1> QED
    BY <1>3

\* Trees are disjoint.
LEMMA OneRoot ==
    ASSUME NEW r, NEW a \in RootRuns(r), NEW b \in RootRuns(r),
           NEW x \in Subtree(r, a), x \in Subtree(r, b)
    PROVE  a = b
  <1> SUFFICES ASSUME a # b PROVE FALSE
    OBVIOUS
  <1>1. /\ a \in Spans /\ r.parent[a] = NoParent
        /\ b \in Spans /\ r.parent[b] = NoParent
        /\ NoParent \notin Spans
    BY DEF RootRuns, NoParent, Spans
  <1> DEFINE S == Spans \ Subtree(r, b)
  <1>2. a \in S
    BY <1>1, SubtreeHolds, SubtreeParent
  <1>3. ASSUME NEW y \in S, NEW c \in Children(r, y) PROVE c \in S
    <2>1. c \in Spans /\ r.parent[c] = y /\ c # b
      BY <1>1, <1>3 DEF Children
    <2> QED
      BY <1>1, <2>1, SubtreeParent
  <1>4. x \in S
    <2> HIDE DEF S
    <2>1. S \in SUBSET Spans
      BY DEF S
    <2> QED
      BY <1>2, <1>3, <2>1, SubtreeLeast
  <1> QED
    BY <1>4

\* A failure fails the containers above it, each when it is rolled up.
LEMMA FailureRises ==
    ASSUME Inv, EndInvariant, phase = "done",
           \A y \in Spans : target[y].status # "Blocked",
           NEW x \in dirty,
           target[x].status = "Failed", rec.result[x].status # "Failed",
           \A a \in Spans \ {x} :
              x \in Subtree(rec, a) => ~Work(a) /\ rec.result[a].status # "Failed",
           NEW a \in Spans, x \in Subtree(rec, a)
    PROVE  target[a].status = "Failed"
  <1> DEFINE Rising(z) == x \in Subtree(rec, z) /\ target[z].status = "Failed"
             S == {z \in Spans : ~Rising(z)}
  <1>1. x \in Spans
    BY DEF Inv, TypeOK
  <1>2. ASSUME NEW y \in Spans, NEW c \in Children(rec, y), Rising(c) PROVE Rising(y)
    <2>1. x \in Subtree(rec, y)
      BY <1>2, SubtreeUp
    <2>2. c \in Spans /\ y < c
      BY ChildrenLater
    <2>3. y # x
      <3> DEFINE Later == {z \in Spans : c <= z}
      <3>1. Later \in SUBSET Spans /\ c \in Later
        BY <2>2 DEF Spans
      <3>2. \A z \in Later : Children(rec, z) \subseteq Later
        <4>1. ASSUME NEW z \in Later, NEW w \in Children(rec, z) PROVE w \in Later
          BY <2>2, <4>1, ChildrenLater, RecordingAssumption DEF Spans
        <4> QED
          BY <4>1
      <3>3. x \in Later
        <4> HIDE DEF Later
        <4> QED
          BY <1>2, <3>1, <3>2, SubtreeLeast
      <3> QED
        BY <2>2, <3>3, RecordingAssumption DEF Spans
    <2>4. ~Work(y) /\ y \in dirty \cup rollup
      BY <2>1, <2>3 DEF EndInvariant, Rollup, Ancestors, Work
    <2>5. target[y].status = DerivedStatus(y)
      BY <2>4 DEF EndInvariant, Derived, Derivable
    <2>6. target[c].status = "Failed" /\ rec.result[c].status # "Failed"
      BY <1>2, <2>2
    <2>7. \A z \in Children(rec, y) : target[z].status # "Blocked"
      BY DEF Children
    <2>8. DerivedStatus(y) = "Failed"
      BY <2>6, <2>7 DEF DerivedStatus
    <2> QED
      BY <2>1, <2>5, <2>8
  <1>3. \A y \in S : Children(rec, y) \subseteq S
    BY <1>2 DEF Children
  <1>4. x \notin S
    BY <1>1, SubtreeHolds
  <1>5. a \notin S
    <2>1. S \in SUBSET Spans
      OBVIOUS
    <2> HIDE DEF S
    <2> QED
      BY <1>3, <1>4, <2>1, SubtreeLeast
  <1> QED
    BY <1>5

\* A new failure under containers that had not failed fails the branch.
THEOREM FailureIsReported == Spec => []FailureReachesRun
  <1>1. ASSUME Inv, EndInvariant PROVE FailureReachesRun
    <2> SUFFICES ASSUME phase = "done", NEW x \in dirty,
                        target[x].status = "Failed", rec.result[x].status # "Failed",
                        \A a \in Spans \ {x} :
                           x \in Subtree(rec, a) =>
                              ~Work(a) /\ rec.result[a].status # "Failed",
                        \A a \in RootRuns(rec) : x \in Subtree(rec, a)
                 PROVE  status \in {"Failed", "Blocked"}
      BY DEF FailureReachesRun
    <2>1. status = DeriveRunStatus(rec, target) /\ x \in Spans
      BY <1>1 DEF EndInvariant, Derived, Inv, TypeOK
    <2>2. CASE \E y \in Spans : target[y].status = "Blocked"
      BY <2>1, <2>2 DEF DeriveRunStatus
    <2>3. CASE \A y \in Spans : target[y].status # "Blocked"
      <3>1. CASE RootRuns(rec) = {}
        BY <2>1, <2>3, <3>1 DEF DeriveRunStatus
      <3>2. CASE RootRuns(rec) # {}
        <4> DEFINE root == CHOOSE y \in RootRuns(rec) : \A z \in RootRuns(rec) : y <= z
        <4>1. PICK a \in RootRuns(rec) : TRUE
          BY <3>2
        <4>2. a \in Spans /\ a <= a
          BY RecordingAssumption DEF RootRuns, Spans
        <4>3. \A z \in RootRuns(rec) : z = a
          BY OneRoot
        <4>4. root \in RootRuns(rec)
          BY <4>1, <4>2, <4>3
        <4>5. target[a].status = "Failed"
          BY <1>1, <2>3, <4>2, FailureRises
        <4> QED
          BY <2>1, <2>3, <3>2, <4>3, <4>4, <4>5 DEF DeriveRunStatus
      <3> QED
        BY <3>1, <3>2
    <2> QED
      BY <2>2, <2>3
  <1> QED
    BY <1>1, InvHolds, EndInvHolds, PTL

-----------------------------------------------------------------------------
(* Induction on the naturals; the largest of a set of spans.               *)

Below == {p \in Nat \X Nat : p[1] < p[2]}

LEMMA LeastElement ==
    ASSUME NEW S \in SUBSET Nat, S # {}
    PROVE  \E x \in S : \A y \in S : x <= y
  <1>1. IsWellFoundedOn(Below, Nat)
    BY NatLessThanWellFounded DEF OpToRel, Below
  <1>2. PICK x \in S : \A y \in S : <<y, x>> \notin Below
    BY <1>1, WFMin
  <1>3. \A y \in S : y \in Nat /\ x \in Nat /\ ~(y < x)
    BY <1>2 DEF Below
  <1> QED
    BY <1>3

LEMMA Induction ==
    ASSUME NEW S, 0 \in S, \A n \in Nat : n \in S => n + 1 \in S
    PROVE  Nat \subseteq S
  <1> SUFFICES ASSUME Nat \ S # {} PROVE FALSE
    OBVIOUS
  <1>1. PICK m \in Nat \ S : \A y \in Nat \ S : m <= y
    BY LeastElement
  <1>2. m - 1 \in Nat /\ ~(m <= m - 1)
    BY <1>1
  <1> QED
    BY <1>1, <1>2

\* Where the greatest rank is, the last of those that have it.
LEMMA GreatestLast ==
    ASSUME NEW S \in SUBSET Spans, S # {}, NEW M \in Nat, NEW rank \in [Spans -> 0 .. M]
    PROVE  \E x \in S : \A y \in S :
              rank[y] < rank[x] \/ (rank[y] = rank[x] /\ y <= x)
  <1>1. N \in Nat /\ \A x \in S : x \in 1 .. N /\ rank[x] \in 0 .. M
    BY RecordingAssumption DEF Spans
  <1>2. PICK a \in S : \A y \in S : rank[y] <= rank[a]
    <2> DEFINE T == {M - rank[x] : x \in S}
    <2>1. T \in SUBSET Nat /\ T # {}
      BY <1>1
    <2>2. PICK t \in T : \A u \in T : t <= u
      <3> HIDE DEF T
      <3> QED
        BY <2>1, LeastElement
    <2>3. PICK x \in S : t = M - rank[x]
      BY <2>2
    <2>4. \A y \in S : t <= M - rank[y]
      BY <2>2
    <2>5. \A y \in S : rank[y] <= rank[x]
      BY <1>1, <2>3, <2>4
    <2> QED
      BY <2>5
  <1>3. PICK x \in S : rank[x] = rank[a] /\ \A y \in S : rank[y] = rank[a] => y <= x
    <2> DEFINE T == {N - x : x \in {z \in S : rank[z] = rank[a]}}
    <2>1. T \in SUBSET Nat /\ T # {}
      BY <1>1
    <2>2. PICK t \in T : \A u \in T : t <= u
      <3> HIDE DEF T
      <3> QED
        BY <2>1, LeastElement
    <2>3. PICK x \in S : rank[x] = rank[a] /\ t = N - x
      BY <2>2
    <2>4. \A y \in S : rank[y] = rank[a] => t <= N - y
      BY <2>2
    <2>5. \A y \in S : rank[y] = rank[a] => y <= x
      BY <1>1, <2>3, <2>4
    <2> QED
      BY <2>3, <2>5
  <1>4. \A y \in S : rank[y] < rank[x] \/ (rank[y] = rank[x] /\ y <= x)
    BY <1>1, <1>2, <1>3
  <1> QED
    BY <1>4

LEMMA LastSpan ==
    ASSUME NEW S \in SUBSET Spans, S # {}
    PROVE  \E x \in S : \A y \in S : y <= x
  <1>1. [x \in Spans |-> 0] \in [Spans -> 0 .. 0]
    OBVIOUS
  <1>2. PICK x \in S : \A y \in S :
           \/ [z \in Spans |-> 0][y] < [z \in Spans |-> 0][x]
           \/ [z \in Spans |-> 0][y] = [z \in Spans |-> 0][x] /\ y <= x
    BY <1>1, GreatestLast
  <1> QED
    BY <1>2

-----------------------------------------------------------------------------
(* Levels of the tree, and the way up.                                     *)

LEMMA ParentBefore ==
    ASSUME NEW r \in Recordings, NEW x \in Spans
    PROVE  /\ r.parent[x] \in 0 .. x - 1
           /\ r.parent[x] # NoParent => r.parent[x] \in Spans
  <1>1. r.parent[x] \in Spans \cup {NoParent} /\ r.parent[x] < x
    BY RecordingAssumption DEF RecordingType
  <1> QED
    BY <1>1, RecordingAssumption DEF Spans, NoParent

LEMMA DepthIsDefined ==
    ASSUME NEW r \in Recordings
    PROVE  Depth(r) = [x \in Spans |->
               IF r.parent[x] = NoParent THEN 0 ELSE Depth(r)[r.parent[x]] + 1]
  <1> DEFINE body(g, x) == IF r.parent[x] = NoParent THEN 0 ELSE g[r.parent[x]] + 1
             defined(n) == \E g : g = [x \in Spans |-> IF x <= n THEN body(g, x) ELSE g[x]]
             S == {n \in Nat : defined(n)}
  <1>1. 0 \in S
    <2> DEFINE g == [x \in Spans |-> 0]
    <2>1. g = [x \in Spans |-> IF x <= 0 THEN body(g, x) ELSE g[x]]
      BY RecordingAssumption DEF Spans
    <2> QED
      BY <2>1
  <1>2. ASSUME NEW n \in Nat, n \in S PROVE n + 1 \in S
    <2>1. PICK g : g = [x \in Spans |-> IF x <= n THEN body(g, x) ELSE g[x]]
      BY <1>2
    <2> DEFINE h == [x \in Spans |-> IF x = n + 1 THEN body(g, x) ELSE g[x]]
    <2>2. ASSUME NEW x \in Spans, x <= n + 1 PROVE h[x] = body(h, x)
      <3>1. r.parent[x] # NoParent => h[r.parent[x]] = g[r.parent[x]]
        BY <2>2, ParentBefore DEF Spans
      <3>2. x # n + 1 => x <= n
        BY <2>2 DEF Spans
      <3>3. x # n + 1 => g[x] = body(g, x)
        BY <2>1, <3>2
      <3> QED
        BY <3>1, <3>3
    <2>3. h = [x \in Spans |-> IF x <= n + 1 THEN body(h, x) ELSE h[x]]
      BY <2>2
    <2>4. defined(n + 1)
      <3> HIDE DEF h
      <3> QED
        BY <2>3
    <2> QED
      BY <2>4
  <1>3. N \in S
    <2> HIDE DEF S
    <2> QED
      BY <1>1, <1>2, Induction, RecordingAssumption
  <1>4. PICK g : g = [x \in Spans |-> IF x <= N THEN body(g, x) ELSE g[x]]
    BY <1>3
  <1>5. \A x \in Spans : x <= N
    BY RecordingAssumption DEF Spans
  <1>6. g = [x \in Spans |-> body(g, x)]
    BY <1>4, <1>5
  <1> QED
    BY <1>6 DEF Depth

LEMMA DepthRanks ==
    ASSUME NEW r \in Recordings
    PROVE  /\ Depth(r) \in [Spans -> 0 .. N]
           /\ \A x \in Spans : \A y \in Children(r, x) : Depth(r)[y] = Depth(r)[x] + 1
  <1> DEFINE depth == Depth(r)
             ranked(n) == \A x \in Spans : x <= n => depth[x] \in 0 .. x - 1
             S == {n \in Nat : ranked(n)}
  <1>1. \A x \in Spans :
           depth[x] = IF r.parent[x] = NoParent THEN 0 ELSE depth[r.parent[x]] + 1
    BY DepthIsDefined
  <1> HIDE DEF depth
  <1>2. 0 \in S
    BY DEF Spans
  <1>3. ASSUME NEW n \in Nat, n \in S PROVE n + 1 \in S
    <2> SUFFICES ASSUME NEW x \in Spans, x <= n + 1 PROVE depth[x] \in 0 .. x - 1
      OBVIOUS
    <2>1. CASE r.parent[x] = NoParent
      BY <1>1, <2>1 DEF Spans
    <2>2. CASE r.parent[x] # NoParent
      <3> DEFINE p == r.parent[x]
      <3>1. p \in Spans /\ p \in Nat /\ p <= x - 1 /\ x \in Nat
        BY <2>2, ParentBefore DEF Spans
      <3>2. depth[p] \in 0 .. p - 1
        BY <1>3, <3>1
      <3>3. depth[x] = depth[p] + 1
        BY <1>1, <2>2
      <3> HIDE DEF p
      <3> QED
        BY <3>1, <3>2, <3>3
    <2> QED
      BY <2>1, <2>2
  <1>4. N \in S
    <2> HIDE DEF S
    <2> QED
      BY <1>2, <1>3, Induction, RecordingAssumption
  <1>5. \A x \in Spans : x \in 1 .. N
    BY DEF Spans
  <1>6. \A x \in Spans : depth[x] \in 0 .. N
    BY <1>4, <1>5, RecordingAssumption
  <1>7. depth = [x \in Spans |-> depth[x]]
    BY DepthIsDefined DEF depth
  <1>8. \A x \in Spans : \A y \in Children(r, x) : depth[y] = depth[x] + 1
    BY <1>1 DEF Children, Spans, NoParent
  <1> QED
    BY <1>6, <1>7, <1>8 DEF depth

LEMMA PathIsDefined ==
    ASSUME NEW r \in Recordings
    PROVE  PathToRoot(r) = [x \in Spans |->
               IF r.parent[x] = NoParent THEN <<x>>
               ELSE Append(PathToRoot(r)[r.parent[x]], x)]
  <1> DEFINE body(g, x) == IF r.parent[x] = NoParent THEN <<x>> ELSE Append(g[r.parent[x]], x)
             defined(n) == \E g : g = [x \in Spans |-> IF x <= n THEN body(g, x) ELSE g[x]]
             S == {n \in Nat : defined(n)}
  <1>1. 0 \in S
    <2> DEFINE g == [x \in Spans |-> 0]
    <2>1. g = [x \in Spans |-> IF x <= 0 THEN body(g, x) ELSE g[x]]
      BY RecordingAssumption DEF Spans
    <2> QED
      BY <2>1
  <1>2. ASSUME NEW n \in Nat, n \in S PROVE n + 1 \in S
    <2>1. PICK g : g = [x \in Spans |-> IF x <= n THEN body(g, x) ELSE g[x]]
      BY <1>2
    <2> DEFINE h == [x \in Spans |-> IF x = n + 1 THEN body(g, x) ELSE g[x]]
    <2>2. ASSUME NEW x \in Spans, x <= n + 1 PROVE h[x] = body(h, x)
      <3>1. r.parent[x] # NoParent => h[r.parent[x]] = g[r.parent[x]]
        BY <2>2, ParentBefore DEF Spans
      <3>2. x # n + 1 => x <= n
        BY <2>2 DEF Spans
      <3>3. x # n + 1 => g[x] = body(g, x)
        BY <2>1, <3>2
      <3> QED
        BY <3>1, <3>3
    <2>3. h = [x \in Spans |-> IF x <= n + 1 THEN body(h, x) ELSE h[x]]
      BY <2>2
    <2>4. defined(n + 1)
      <3> HIDE DEF h
      <3> QED
        BY <2>3
    <2> QED
      BY <2>4
  <1>3. N \in S
    <2> HIDE DEF S
    <2> QED
      BY <1>1, <1>2, Induction, RecordingAssumption
  <1>4. PICK g : g = [x \in Spans |-> IF x <= N THEN body(g, x) ELSE g[x]]
    BY <1>3
  <1>5. \A x \in Spans : x <= N
    BY RecordingAssumption DEF Spans
  <1>6. g = [x \in Spans |-> body(g, x)]
    BY <1>4, <1>5
  <1> QED
    BY <1>6 DEF PathToRoot

\* From the top of the tree down to x, each the parent of the next.
LeadsDown(r, path, x) ==
    /\ path \in Seq(Spans) /\ path # <<>>
    /\ r.parent[path[1]] = NoParent
    /\ path[Len(path)] = x
    /\ \A i \in 2 .. Len(path) : r.parent[path[i]] = path[i - 1]

LEMMA PathLeadsDown ==
    ASSUME NEW r \in Recordings, NEW x \in Spans
    PROVE  LeadsDown(r, PathToRoot(r)[x], x)
  <1> DEFINE path == PathToRoot(r)
             right(n) == \A y \in Spans : y <= n => LeadsDown(r, path[y], y)
             S == {n \in Nat : right(n)}
  <1>1. \A y \in Spans :
           path[y] = IF r.parent[y] = NoParent THEN <<y>> ELSE Append(path[r.parent[y]], y)
    BY PathIsDefined
  <1> HIDE DEF path
  <1>2. 0 \in S
    BY DEF Spans
  <1>3. ASSUME NEW n \in Nat, n \in S PROVE n + 1 \in S
    <2> SUFFICES ASSUME NEW y \in Spans, y <= n + 1 PROVE LeadsDown(r, path[y], y)
      OBVIOUS
    <2>1. CASE r.parent[y] = NoParent
      <3>1. path[y] = <<y>>
        BY <1>1, <2>1
      <3>2. <<y>> \in Seq(Spans) /\ Len(<<y>>) = 1 /\ <<y>>[1] = y /\ <<y>> # <<>>
        OBVIOUS
      <3> QED
        BY <2>1, <3>1, <3>2 DEF LeadsDown
    <2>2. CASE r.parent[y] # NoParent
      <3> DEFINE p == r.parent[y]
                 up == path[p]
      <3>1. p \in Spans /\ p <= n
        BY <2>2, ParentBefore DEF Spans
      <3>2. LeadsDown(r, up, p)
        BY <1>3, <3>1
      <3>3. path[y] = Append(up, y)
        BY <1>1, <2>2
      <3> HIDE DEF up
      <3>4. up \in Seq(Spans) /\ Len(up) \in Nat /\ Len(up) >= 1
        BY <3>2, LenProperties, EmptySeq DEF LeadsDown
      <3>5. /\ Append(up, y) \in Seq(Spans)
            /\ Len(Append(up, y)) = Len(up) + 1
            /\ Append(up, y)[Len(up) + 1] = y
            /\ \A i \in 1 .. Len(up) : Append(up, y)[i] = up[i]
        BY <3>4, AppendProperties
      <3>6. Append(up, y) # <<>>
        BY <3>4, <3>5, EmptySeq
      <3>7. \A i \in 2 .. Len(up) + 1 : r.parent[Append(up, y)[i]] = Append(up, y)[i - 1]
        <4> SUFFICES ASSUME NEW i \in 2 .. Len(up) + 1
                     PROVE  r.parent[Append(up, y)[i]] = Append(up, y)[i - 1]
          OBVIOUS
        <4>1. i - 1 \in 1 .. Len(up)
          BY <3>4
        <4>2. CASE i = Len(up) + 1
          BY <3>2, <3>4, <3>5, <4>1, <4>2 DEF LeadsDown
        <4>3. CASE i # Len(up) + 1
          <5>1. i \in 2 .. Len(up) /\ i \in 1 .. Len(up)
            BY <3>4, <4>3
          <5> QED
            BY <3>2, <3>5, <4>1, <5>1 DEF LeadsDown
        <4> QED
          BY <4>2, <4>3
      <3> QED
        BY <3>2, <3>3, <3>4, <3>5, <3>6, <3>7 DEF LeadsDown
    <2> QED
      BY <2>1, <2>2
  <1>4. N \in S
    <2> HIDE DEF S
    <2> QED
      BY <1>2, <1>3, Induction, RecordingAssumption
  <1> QED
    BY <1>4, RecordingAssumption DEF Spans, path

-----------------------------------------------------------------------------
(* The walk along failed dependencies.  On its way it leaves fewer and     *)
(* fewer spans that are not on its path.                                   *)

LEMMA FewerLeft ==
    ASSUME NEW path \in SUBSET Spans, NEW y \in Spans \ path
    PROVE  /\ Cardinality(Spans \ path) \in Nat
           /\ Cardinality(Spans \ (path \cup {y})) \in Nat
           /\ Cardinality(Spans \ (path \cup {y})) < Cardinality(Spans \ path)
  <1>1. IsFiniteSet(Spans)
    BY FS_Interval, RecordingAssumption DEF Spans
  <1>2. IsFiniteSet(Spans \ path)
    BY <1>1, FS_Difference
  <1>3. Cardinality(Spans \ (path \cup {y})) = Cardinality((Spans \ path) \ {y})
    <2>1. Spans \ (path \cup {y}) = (Spans \ path) \ {y}
      OBVIOUS
    <2> QED
      BY <2>1, Zenon
  <1>4. /\ IsFiniteSet((Spans \ path) \ {y})
        /\ Cardinality((Spans \ path) \ {y}) = Cardinality(Spans \ path) - 1
    BY <1>2, FS_RemoveElement
  <1>5. Cardinality(Spans \ path) \in Nat /\ Cardinality((Spans \ path) \ {y}) \in Nat
    BY <1>2, <1>4, FS_CardinalityType
  <1> QED
    BY <1>3, <1>4, <1>5

LEMMA FewLeft ==
    ASSUME NEW path \in SUBSET Spans
    PROVE  /\ Cardinality(Spans \ path) \in Nat
           /\ Cardinality(Spans \ path) < N + 1
  <1>1. IsFiniteSet(Spans) /\ Cardinality(Spans) = N
    BY FS_Interval, RecordingAssumption DEF Spans
  <1>2. /\ IsFiniteSet(Spans \ path)
        /\ Cardinality(Spans \ path) <= Cardinality(Spans)
    BY <1>1, FS_Subset
  <1>3. Cardinality(Spans \ path) \in Nat
    BY <1>2, FS_CardinalityType
  <1> QED
    BY <1>1, <1>2, <1>3, RecordingAssumption

\* What one step of the walk makes of the steps after it.
WalkFrom(r, result, walk, at) ==
    LET y    == at[1]
        path == at[2]
        next == FailedNeeds(r, result, y)
    IN  IF y \in path \/ next = {}
        THEN [far |-> 0, spans |-> {y}]
        ELSE Furthest([z \in next |-> walk[<<z, path \cup {y}>>]])

Walks == Spans \X SUBSET Spans
Left(at) == Cardinality(Spans \ at[2])

\* It looks at walks with less left only.
LEMMA WalkFromLess ==
    ASSUME NEW r, NEW result, NEW at \in Walks, NEW g, NEW h,
           \A to \in Walks : Left(to) < Left(at) => g[to] = h[to]
    PROVE  WalkFrom(r, result, g, at) = WalkFrom(r, result, h, at)
  <1> DEFINE y == at[1]
             path == at[2]
             next == FailedNeeds(r, result, y)
  <1>1. y \in Spans /\ path \in SUBSET Spans /\ next \subseteq Spans
    BY DEF Walks, FailedNeeds, Needs
  <1>2. CASE y \in path
    BY <1>2 DEF WalkFrom
  <1>3. CASE y \notin path
    <2>1. ASSUME NEW z \in next PROVE g[<<z, path \cup {y}>>] = h[<<z, path \cup {y}>>]
      <3> DEFINE to == <<z, path \cup {y}>>
      <3>1. to \in Walks
        BY <1>1 DEF Walks
      <3>2. Left(to) < Left(at)
        BY <1>1, <1>3, FewerLeft DEF Left
      <3>3. g[to] = h[to]
        <4> HIDE DEF to
        <4> QED
          BY <3>1, <3>2
      <3> QED
        BY <3>3
    <2>2. [z \in next |-> g[<<z, path \cup {y}>>]] = [z \in next |-> h[<<z, path \cup {y}>>]]
      BY <2>1
    <2> QED
      BY <2>2, Zenon DEF WalkFrom
  <1> QED
    BY <1>2, <1>3

LEMMA WalkIsDefined ==
    ASSUME NEW r, NEW result
    PROVE  FailureWalk(r, result) =
              [at \in Walks |-> WalkFrom(r, result, FailureWalk(r, result), at)]
  <1> DEFINE body(g, at) == WalkFrom(r, result, g, at)
             defined(n) == \E g : g = [at \in Walks |->
                                          IF Left(at) < n THEN body(g, at) ELSE g[at]]
             S == {n \in Nat : defined(n)}
  <1>0. \A at \in Walks : Left(at) \in Nat /\ Left(at) < N + 1
    BY FewLeft DEF Left, Walks
  <1> HIDE DEF body
  <1>1. 0 \in S
    <2> DEFINE g == [at \in Walks |-> 0]
    <2>1. g = [at \in Walks |-> IF Left(at) < 0 THEN body(g, at) ELSE g[at]]
      BY <1>0
    <2> QED
      BY <2>1
  <1>2. ASSUME NEW n \in Nat, n \in S PROVE n + 1 \in S
    <2>1. PICK g : g = [at \in Walks |-> IF Left(at) < n THEN body(g, at) ELSE g[at]]
      BY <1>2
    <2> DEFINE h == [at \in Walks |-> IF Left(at) = n THEN body(g, at) ELSE g[at]]
    <2>2. ASSUME NEW at \in Walks, Left(at) < n + 1 PROVE h[at] = body(h, at)
      <3>1. \A to \in Walks : Left(to) < Left(at) => g[to] = h[to]
        BY <1>0, <2>2
      <3>2. body(g, at) = body(h, at)
        <4> HIDE DEF h
        <4> QED
          BY <3>1, WalkFromLess DEF body
      <3>3. Left(at) = n \/ Left(at) < n
        BY <1>0, <2>2
      <3>4. h[at] = body(g, at)
        BY <2>1, <3>3
      <3> QED
        BY <3>2, <3>4
    <2>3. h = [at \in Walks |-> IF Left(at) < n + 1 THEN body(h, at) ELSE h[at]]
      BY <2>2
    <2>4. defined(n + 1)
      <3> HIDE DEF h
      <3> QED
        BY <2>3
    <2> QED
      BY <2>4
  <1>3. N + 1 \in S
    <2> HIDE DEF S
    <2> QED
      BY <1>1, <1>2, Induction, RecordingAssumption
  <1>4. PICK g : g = [at \in Walks |-> IF Left(at) < N + 1 THEN body(g, at) ELSE g[at]]
    BY <1>3
  <1>5. g = [at \in Walks |-> body(g, at)]
    BY <1>0, <1>4
  <1> QED
    BY <1>5, ZenonT(40) DEF FailureWalk, WalkFrom, Walks, body

\* The failed spans that x rests on through failed ones, and x.
Leads(r, result, x) == Closure(x, [z \in Spans |-> FailedNeeds(r, result, z)])

LEMMA LeadsHolds ==
    ASSUME NEW r, NEW result, NEW x \in Spans
    PROVE  x \in Leads(r, result, x)
  BY DEF Leads, Closure

LEMMA LeadsOn ==
    ASSUME NEW r, NEW result, NEW y \in Spans,
           NEW z \in FailedNeeds(r, result, y), NEW s \in Leads(r, result, z)
    PROVE  s \in Leads(r, result, y)
  <1> DEFINE after == [w \in Spans |-> FailedNeeds(r, result, w)]
  <1>1. s \in Spans
    BY DEF Leads, Closure
  <1>2. SUFFICES ASSUME NEW S \in SUBSET Spans, y \in S, \A w \in S : after[w] \subseteq S
                 PROVE  s \in S
    BY <1>1 DEF Leads, Closure
  <1>3. z \in S
    BY <1>2
  <1> QED
    BY <1>2, <1>3 DEF Leads, Closure

\* Where the walk ends there is nothing failed before, or it has met its path.
EndsWell(r, result, at, s) ==
    /\ s \in Leads(r, result, at[1])
    /\ \/ FailedNeeds(r, result, s) = {}
       \/ s \in at[2]
       \/ \E z \in FailedNeeds(r, result, s) : s \in Leads(r, result, z)

LEMMA WalkTurns ==
    ASSUME NEW r, NEW result, NEW at \in Walks, at[1] \notin at[2],
           NEW z \in FailedNeeds(r, result, at[1]), NEW s,
           EndsWell(r, result, <<z, at[2] \cup {at[1]}>>, s)
    PROVE  EndsWell(r, result, at, s)
  <1>1. at[1] \in Spans /\ s \in Leads(r, result, z)
    BY DEF Walks, EndsWell
  <1>2. s \in Leads(r, result, at[1])
    BY <1>1, LeadsOn
  <1> QED
    BY <1>1, <1>2 DEF EndsWell

LEMMA FurthestFound ==
    ASSUME NEW found, NEW s \in Furthest(found).spans
    PROVE  \E z \in DOMAIN found : s \in found[z].spans
  BY DEF Furthest

LEMMA WalkSteps ==
    ASSUME NEW r, NEW result, NEW at \in Walks, NEW walk, NEW s,
           s \in WalkFrom(r, result, walk, at).spans
    PROVE  \/ s = at[1] /\ (at[1] \in at[2] \/ FailedNeeds(r, result, at[1]) = {})
           \/ /\ at[1] \notin at[2]
              /\ \E z \in FailedNeeds(r, result, at[1]) :
                    s \in walk[<<z, at[2] \cup {at[1]}>>].spans
  <1> DEFINE next == FailedNeeds(r, result, at[1])
             found == [z \in next |-> walk[<<z, at[2] \cup {at[1]}>>]]
  <1>1. CASE at[1] \in at[2] \/ next = {}
    BY <1>1 DEF WalkFrom
  <1>2. CASE ~(at[1] \in at[2] \/ next = {})
    <2>1. s \in Furthest(found).spans
      BY <1>2 DEF WalkFrom
    <2>2. PICK z \in DOMAIN found : s \in found[z].spans
      <3> HIDE DEF found
      <3> QED
        BY <2>1, FurthestFound
    <2> QED
      BY <1>2, <2>2
  <1> QED
    BY <1>1, <1>2

LEMMA WalkEnds ==
    ASSUME NEW r, NEW result, NEW at \in Walks, NEW s \in FailureWalk(r, result)[at].spans
    PROVE  EndsWell(r, result, at, s)
  <1> DEFINE walk == FailureWalk(r, result)
             S == {n \in Nat : \A to \in Walks : Left(to) < n =>
                                  \A t \in walk[to].spans : EndsWell(r, result, to, t)}
  <1>0. \A to \in Walks : walk[to] = WalkFrom(r, result, walk, to)
    BY WalkIsDefined
  <1> HIDE DEF walk
  <1>1. 0 \in S
    BY FewLeft DEF Left, Walks
  <1>2. ASSUME NEW n \in Nat, n \in S PROVE n + 1 \in S
    <2> SUFFICES ASSUME NEW to \in Walks, Left(to) < n + 1, NEW t \in walk[to].spans
                 PROVE  EndsWell(r, result, to, t)
      OBVIOUS
    <2>1. t \in WalkFrom(r, result, walk, to).spans
      BY <1>0
    <2>2. CASE t = to[1] /\ (to[1] \in to[2] \/ FailedNeeds(r, result, to[1]) = {})
      BY <2>2, LeadsHolds DEF EndsWell, Walks
    <2>3. ASSUME to[1] \notin to[2],
                 NEW z \in FailedNeeds(r, result, to[1]),
                 t \in walk[<<z, to[2] \cup {to[1]}>>].spans
          PROVE  EndsWell(r, result, to, t)
      <3> DEFINE on == <<z, to[2] \cup {to[1]}>>
      <3>1. on \in Walks
        BY DEF Walks, FailedNeeds, Needs
      <3>2. Left(on) \in Nat /\ Left(to) \in Nat /\ Left(on) < Left(to)
        BY <2>3, FewerLeft DEF Left, Walks
      <3>3. EndsWell(r, result, on, t)
        <4> HIDE DEF on
        <4>1. Left(on) < n
          BY <3>2
        <4>2. t \in walk[on].spans
          BY <2>3 DEF on
        <4> QED
          BY <1>2, <3>1, <4>1, <4>2
      <3> QED
        BY <2>3, <3>3, WalkTurns
    <2> QED
      BY <2>1, <2>2, <2>3, WalkSteps
  <1>3. N + 1 \in S
    <2> HIDE DEF S
    <2> QED
      BY <1>1, <1>2, Induction, RecordingAssumption
  <1>4. Left(at) < N + 1
    BY FewLeft DEF Left, Walks
  <1> QED
    BY <1>3, <1>4 DEF walk

LEMMA CauseExplains ==
    ASSUME NEW r, NEW result, NEW x \in Spans, NEW s \in DeepestDependency(r, result, x)
    PROVE  /\ \E z \in FailedNeeds(r, result, x) : s \in Leads(r, result, z)
           /\ \/ FailedNeeds(r, result, s) = {}
              \/ \E z \in FailedNeeds(r, result, s) : s \in Leads(r, result, z)
  <1> DEFINE walk == FailureWalk(r, result)
             at == <<x, {}>>
  <1>1. at \in Walks /\ at[1] = x /\ at[2] = {}
    BY DEF Walks
  <1>2. walk[at] = WalkFrom(r, result, walk, at)
    BY <1>1, WalkIsDefined
  <1>3. walk[at].far # 0 /\ s \in walk[at].spans
    BY DEF DeepestDependency
  <1> HIDE DEF walk
  <1>4. FailedNeeds(r, result, x) # {}
    BY <1>1, <1>2, <1>3 DEF WalkFrom
  <1>5. PICK z \in FailedNeeds(r, result, x) : s \in walk[<<z, {x}>>].spans
    <2>1. s \in WalkFrom(r, result, walk, at).spans
      BY <1>2, <1>3
    <2>2. {} \cup {x} = {x}
      OBVIOUS
    <2> QED
      BY <1>1, <1>4, <2>1, <2>2, WalkSteps
  <1>6. <<z, {x}>> \in Walks
    BY DEF Walks, FailedNeeds, Needs
  <1>7. EndsWell(r, result, <<z, {x}>>, s)
    BY <1>5, <1>6, WalkEnds DEF walk
  <1>8. /\ s \in Leads(r, result, z)
        /\ \/ FailedNeeds(r, result, s) = {}
           \/ s = x
           \/ \E w \in FailedNeeds(r, result, s) : s \in Leads(r, result, w)
    BY <1>7 DEF EndsWell
  <1> QED
    BY <1>8

-----------------------------------------------------------------------------
(* What the views show of a finished branch, of recordings that have ended *)
(* and whose containers are blocked when a child is.                       *)

Whole(r, result) ==
    /\ \A x \in Spans : result[x].status \in {"Completed", "Failed", "Blocked"}
    /\ \A x \in Spans : \A y \in Children(r, x) :
          IsContainer(r, x) /\ result[y].status = "Blocked" => result[x].status = "Blocked"

RecordingsWhole == \A r \in Recordings : Whole(r, r.result)

\* A replay never leaves a span running, and changes the status of containers
\* that it derives, nothing else of them.
Shown ==
    /\ RecordingsWhole =>
          \A x \in Spans : target[x].status \in {"Completed", "Failed", "Blocked"}
    /\ \A x \in Spans : ~Work(x) =>
          /\ target[x].output = rec.result[x].output
          /\ x \notin Derivable => Recorded(x)
    /\ \A x \in Spans :
          /\ outcome[x] = "Satisfied" => target[x].status = "Completed"
          /\ outcome[x] = "Blocked" => target[x].status = "Blocked"

LEMMA ShownInit == Init => Shown
  BY DEF Init, Shown, RecordingsWhole, Whole, Recorded

LEMMA ShownSettle ==
    ASSUME Inv, Shown, phase = "replay", NEW x \in Spans, First(x),
           NEW how, NEW result \in Result, Settle(x, how, result),
           how = "Satisfied" => result.status = "Completed",
           how = "Blocked" => result.status = "Blocked",
           RecordingsWhole => result.status \in {"Completed", "Failed", "Blocked"}
    PROVE  Shown'
  <1>1. /\ Work(x)
        /\ UNCHANGED <<rec, dirty, rollup>>
        /\ outcome' = [outcome EXCEPT ![x] = how]
        /\ target' = [target EXCEPT ![x] = result]
    BY DEF Inv, Progress, First, DirtyWork, Settle, request
  <1>2. /\ target'[x] = result /\ outcome'[x] = how
        /\ \A y \in Spans \ {x} : target'[y] = target[y] /\ outcome'[y] = outcome[y]
    BY <1>1 DEF Inv, TypeOK
  <1>3. Derivable' = Derivable /\ \A y : Work(y)' = Work(y)
    BY <1>1 DEF Derivable, Work
  <1> QED
    BY <1>1, <1>2, <1>3 DEF Shown, Recorded, RecordingsWhole

LEMMA ShownRollUp ==
    ASSUME Inv, EndInvariant, Shown, NEW x \in Spans, RollUp(x)
    PROVE  Shown'
  <1>1. /\ ~Work(x) /\ x \in Derivable
        /\ UNCHANGED <<rec, dirty, rollup, outcome>>
        /\ target' = [target EXCEPT ![x].status = DerivedStatus(x)]
    BY DEF RollUp, Last, Inv, Progress, EndInvariant, Derived, request
  <1>2. /\ target'[x].status = DerivedStatus(x) /\ target'[x].output = target[x].output
        /\ \A y \in Spans \ {x} : target'[y] = target[y]
    BY <1>1 DEF Inv, TypeOK, Result
  <1>3. Derivable' = Derivable /\ \A y : Work(y)' = Work(y)
    BY <1>1 DEF Derivable, Work
  <1>4. DerivedStatus(x) \in {"Blocked", "Failed", "Completed", rec.result[x].status}
    BY Zenon DEF DerivedStatus
  <1>5. RecordingsWhole => rec.result[x].status \in {"Completed", "Failed", "Blocked"}
    BY DEF Inv, RecordingsWhole, Whole
  <1>6. outcome[x] = "none"
    BY <1>1 DEF Inv, Results, DirtyWork, TypeOK
  <1> QED
    BY <1>1, <1>2, <1>3, <1>4, <1>5, <1>6 DEF Shown, Recorded, RecordingsWhole

LEMMA ShownStep ==
    ASSUME Inv, EndInvariant, Shown, [Next]_vars
    PROVE  Shown'
  <1>1. ASSUME UNCHANGED <<rec, dirty, rollup, target, outcome>> PROVE Shown'
    BY <1>1 DEF Shown, Recorded, Derivable, Work, RecordingsWhole
  <1>2. ASSUME NEW x \in Spans, Predict(x) \/ Foresee(x) PROVE Shown'
    BY <1>1, <1>2 DEF Predict, Foresee, request
  <1>3. ASSUME PredictEnd \/ ForeseeEnd \/ ReplayEnd \/ Finish \/ Abort \/ UNCHANGED vars
        PROVE  Shown'
    BY <1>1, <1>3 DEF PredictEnd, ForeseeEnd, ReplayEnd, Finish, Abort, request, vars
  <1>4. ASSUME Copy PROVE Shown'
    <2>1. UNCHANGED <<rec, dirty, rollup, outcome>> /\ target' = rec.result
          /\ \A x \in Spans : outcome[x] = "none"
      BY <1>4 DEF Copy, Leave, request, Inv, Progress, Planning
    <2>2. RecordingsWhole => Whole(rec, rec.result)
      BY DEF Inv, RecordingsWhole
    <2> QED
      BY <2>1, <2>2 DEF Shown, Recorded, Derivable, Work, RecordingsWhole, Whole
  <1>5. ASSUME NEW x \in Spans, Satisfy(x) PROVE Shown'
    <2>1. PICK o \in Outputs \ {"none"} :
             /\ phase = "replay" /\ First(x)
             /\ Settle(x, "Satisfied", [status |-> "Completed", output |-> o])
      BY <1>5 DEF Satisfy
    <2>2. [status |-> "Completed", output |-> o] \in Result
      BY DEF Result, SpanStatus
    <2> QED
      BY <2>1, <2>2, ShownSettle
  <1>6. ASSUME NEW x \in Spans, SkipBlocked(x) \/ Refuse(x) PROVE Shown'
    <2>1. phase = "replay" /\ First(x) /\ Settle(x, "Blocked", BlockedResult)
      BY <1>6 DEF SkipBlocked, Refuse, Runs
    <2>2. BlockedResult \in Result /\ BlockedResult.status = "Blocked"
      BY DEF BlockedResult, Result, SpanStatus, Outputs
    <2> QED
      BY <2>1, <2>2, ShownSettle
  <1>7. ASSUME NEW x \in Spans, Reuse(x) PROVE Shown'
    <2>1. phase = "replay" /\ First(x) /\ Settle(x, "Reused", target[x])
      BY <1>7 DEF Reuse
    <2>2. target[x] \in Result
      BY DEF Inv, TypeOK
    <2>3. RecordingsWhole => target[x].status \in {"Completed", "Failed", "Blocked"}
      BY DEF Shown
    <2> QED
      BY <2>1, <2>2, <2>3, ShownSettle
  <1>8. ASSUME NEW x \in Spans, Execute(x) PROVE Shown'
    <2>1. PICK s \in {"Completed", "Failed"}, o \in Outputs \ {"none"} :
             /\ phase = "replay" /\ First(x)
             /\ Settle(x, "Executed", [status |-> s, output |-> o])
      BY <1>8 DEF Execute, Runs
    <2>2. [status |-> s, output |-> o] \in Result
      BY DEF Result, SpanStatus
    <2> QED
      BY <2>1, <2>2, ShownSettle
  <1> QED
    BY <1>2, <1>3, <1>4, <1>5, <1>6, <1>7, <1>8, ShownRollUp
       DEF Next, Proceed, Visit, Returned

LEMMA ShownHolds == Spec => [](Inv /\ EndInvariant /\ Shown)
  <1>1. Inv /\ EndInvariant /\ Shown /\ [Next]_vars => Shown'
    BY ShownStep
  <1> QED
    BY <1>1, ShownInit, InvHolds, EndInvHolds, PTL DEF Spec

\* A container whose result is another than recorded has a child of which that is
\* true.
LEMMA ChangedContainer ==
    ASSUME Inv, EndInvariant, Shown, RecordingsWhole, phase = "done",
           NEW x \in Spans, ~Work(x), ~Recorded(x)
    PROVE  \E y \in Children(rec, x) : ~Recorded(y)
  <1>1. x \in Derivable /\ target[x].output = rec.result[x].output
    BY DEF Shown
  <1>2. target[x] \in Result /\ rec.result[x] \in Result
    BY RecordingsTyped DEF Inv, TypeOK, RecordingType
  <1>3. target[x].status # rec.result[x].status
    BY <1>1, <1>2 DEF Recorded, Result
  <1>4. target[x].status = DerivedStatus(x)
    BY <1>1 DEF EndInvariant, Derived
  <1>5. \E y \in Children(rec, x) : target[y].status # rec.result[y].status
    <2> SUFFICES ASSUME \A y \in Children(rec, x) : target[y].status = rec.result[y].status
                 PROVE  FALSE
      OBVIOUS
    <2>1. CASE \E y \in Children(rec, x) : target[y].status = "Blocked"
      <3>1. DerivedStatus(x) = "Blocked"
        BY <2>1, Zenon DEF DerivedStatus
      <3>2. Whole(rec, rec.result) /\ IsContainer(rec, x)
        BY DEF Inv, RecordingsWhole, Work
      <3>3. rec.result[x].status = "Blocked"
        BY <2>1, <3>2 DEF Whole
      <3> QED
        BY <1>3, <1>4, <3>1, <3>3
    <2>2. CASE ~\E y \in Children(rec, x) : target[y].status = "Blocked"
      <3>1. DerivedStatus(x) = rec.result[x].status
        BY <2>2, Zenon DEF DerivedStatus
      <3> QED
        BY <1>3, <1>4, <3>1
    <2> QED
      BY <2>1, <2>2
  <1> QED
    BY <1>5 DEF Recorded

\* Spans that show a result of their own are replayed work.
LEMMA ReplayedIsWork ==
    ASSUME Inv
    PROVE  /\ \A x \in Replayed : x \in Spans /\ Work(x)
           /\ \A x \in Spans : Work(x) /\ ~Recorded(x) => x \in Replayed
  <1>1. \A x \in Replayed : x \in Spans /\ outcome[x] # "none"
    BY DEF Replayed
  <1>2. \A x \in Spans : outcome[x] \in Outcomes
    BY DEF Inv, TypeOK
  <1> QED
    BY <1>1, <1>2 DEF Inv, Results, Replayed, DirtyWork, Outcomes

\* A finished branch is as whole as the recording it was forked from: what the
\* views rely on is true of forks of forks, too (replay_spans, execute_fork).
THEOREM BranchesAreWhole ==
    ASSUME RecordingsWhole
    PROVE  Spec => [](phase = "done" => Whole(rec, target))
  <1>1. ASSUME Inv, EndInvariant, Shown, phase = "done" PROVE Whole(rec, target)
    <2>1. \A x \in Spans : target[x].status \in {"Completed", "Failed", "Blocked"}
      BY <1>1 DEF Shown
    <2>2. ASSUME NEW x \in Spans, NEW y \in Children(rec, x), IsContainer(rec, x),
                 target[y].status = "Blocked", target[x].status # "Blocked"
          PROVE  FALSE
      <3>1. y \in Spans /\ ~Work(x) /\ Whole(rec, rec.result) /\ rec \in Recordings
        BY <1>1, <2>2 DEF Children, Work, Inv, RecordingsWhole
      <3>2. x \notin Derivable
        <4>1. DerivedStatus(x) = "Blocked"
          BY <2>2, Zenon DEF DerivedStatus
        <4> QED
          BY <1>1, <2>2, <4>1 DEF EndInvariant, Derived
      <3>3. x \notin dirty /\ x \notin Ancestors(rec, dirty)
        BY <1>1, <3>1, <3>2 DEF Derivable, EndInvariant, Rollup
      <3>4. \A z \in dirty : z \notin Subtree(rec, x)
        BY <2>2, <3>3 DEF Ancestors
      <3>5. y \notin dirty
        BY <3>1, <3>4, SubtreeHolds, SubtreeUp
      <3>6. y \notin Ancestors(rec, dirty)
        BY <3>1, <3>4, SubtreeUp DEF Ancestors
      <3>7. target[y] = rec.result[y] /\ target[x] = rec.result[x]
        <4>1. y \notin Derivable
          BY <1>1, <3>5, <3>6 DEF Derivable, EndInvariant, Rollup
        <4>2. outcome[y] = "none"
          BY <1>1, <3>1, <3>5 DEF Inv, Results, DirtyWork
        <4> QED
          BY <1>1, <3>1, <3>2, <4>1, <4>2 DEF Inv, Results, Shown, Recorded
      <3> QED
        BY <2>2, <3>1, <3>7 DEF Whole
    <2> QED
      BY <2>1, <2>2 DEF Whole
  <1>2. Inv /\ EndInvariant /\ Shown => (phase = "done" => Whole(rec, target))
    BY <1>1
  <1> QED
    BY <1>2, ShownHolds, PTL

\* What diff_runs shows of a branch and its recording was done by the replay, and
\* its first divergence is a span that was replayed.
THEOREM DiffLeadsToReplay ==
    ASSUME RecordingsWhole
    PROVE  Spec => []DiffIsExplained
  <1>1. ASSUME Inv, EndInvariant, Shown PROVE DiffIsExplained
    <2> SUFFICES ASSUME phase = "done", NEW renewed \in SUBSET Replayed
                 PROVE  LET diff    == Diff(rec, rec.result, target, NewInputs, renewed)
                            changed == DOMAIN diff.spans
                        IN  /\ \A x \in changed :
                                  x \in Replayed \/ Children(rec, x) \cap changed # {}
                            /\ diff.first \subseteq Replayed
                            /\ status # DeriveRunStatus(rec, rec.result) => diff.first # {}
      BY DEF DiffIsExplained
    <2> DEFINE changed == Changed(rec.result, target, NewInputs \cup renewed)
               first == FirstDivergent(rec, changed)
    <2>1. LET diff == Diff(rec, rec.result, target, NewInputs, renewed)
          IN  DOMAIN diff.spans = changed /\ diff.first = first
      BY DEF Diff
    <2>2. changed \subseteq Spans /\ \A x \in Spans : ~Recorded(x) => x \in changed
      <3>1. NewInputs \subseteq Spans /\ renewed \subseteq Spans
        BY DEF NewInputs, Replayed
      <3> QED
        BY <3>1 DEF Changed, Recorded
    <2>3. \A x \in changed : x \in Replayed \/ ~Recorded(x)
      BY DEF Changed, Recorded, NewInputs, Replayed
    <2>4. \A x \in changed : x \in Replayed \/ \E y \in Children(rec, x) : y \in changed
      <3> SUFFICES ASSUME NEW x \in changed, x \notin Replayed
                   PROVE  \E y \in Children(rec, x) : y \in changed
        OBVIOUS
      <3>1. x \in Spans /\ ~Recorded(x) /\ ~Work(x)
        BY <1>1, <2>2, <2>3, ReplayedIsWork
      <3>2. PICK y \in Children(rec, x) : ~Recorded(y)
        BY <1>1, <3>1, ChangedContainer
      <3> QED
        BY <2>2, <3>2 DEF Children
    <2> HIDE DEF changed
    <2>5. ASSUME changed # {} PROVE \E x \in changed : x \in Replayed
      <3>1. PICK x \in changed : \A y \in changed : y <= x
        BY <2>2, <2>5, LastSpan
      <3>2. \A y \in Children(rec, x) : ~(y <= x)
        BY <1>1, <2>2, <3>1, ChildrenLater, RecordingAssumption DEF Spans
      <3> QED
        BY <2>4, <3>1, <3>2
    <2>6. first \subseteq Replayed
      <3> SUFFICES ASSUME NEW x \in first PROVE x \in Replayed
        OBVIOUS
      <3>1. x \in changed
        BY DEF FirstDivergent
      <3>2. PICK y \in changed : y \in Replayed
        BY <2>5, <3>1
      <3>3. ~IsContainer(rec, y)
        BY <1>1, <3>2, ReplayedIsWork DEF Work
      <3>4. ~IsContainer(rec, x)
        BY <3>2, <3>3 DEF FirstDivergent
      <3> QED
        BY <1>1, <2>2, <2>3, <3>1, <3>4, ReplayedIsWork DEF Work
    <2>7. ASSUME status # DeriveRunStatus(rec, rec.result) PROVE first # {}
      <3>1. status = DeriveRunStatus(rec, target)
        BY <1>1 DEF EndInvariant, Derived
      <3>2. target # rec.result
        BY <2>7, <3>1
      <3>3. target \in [Spans -> Result] /\ rec.result \in [Spans -> Result]
        BY <1>1, RecordingsTyped DEF Inv, TypeOK, RecordingType
      <3>4. \E x \in Spans : ~Recorded(x)
        BY <3>2, <3>3 DEF Recorded
      <3>5. changed # {}
        BY <2>2, <3>4
      <3> DEFINE work == {x \in changed : ~IsContainer(rec, x)}
                 divergent == IF work # {} THEN work ELSE changed
      <3>6. divergent \in SUBSET Nat /\ divergent # {}
        <4>1. \A x \in Spans : x \in Nat
          BY RecordingAssumption DEF Spans
        <4>2. divergent \subseteq changed /\ divergent # {}
          BY <3>5
        <4> HIDE DEF divergent
        <4> QED
          BY <2>2, <4>1, <4>2
      <3>7. PICK x \in divergent : \A y \in divergent : x <= y
        <4> HIDE DEF divergent
        <4> QED
          BY <3>6, LeastElement
      <3>8. x \in first
        BY <3>7 DEF FirstDivergent
      <3> QED
        BY <3>8
    <2>8. \A x \in changed : x \in Replayed \/ Children(rec, x) \cap changed # {}
      BY <2>4
    <2> HIDE DEF first
    <2> QED
      BY <2>1, <2>6, <2>7, <2>8
  <1>2. Inv /\ EndInvariant /\ Shown => DiffIsExplained
    BY <1>1
  <1> QED
    BY <1>2, ShownHolds, PTL

-----------------------------------------------------------------------------
(* Forensics                                                               *)

LEMMA DeepestIs ==
    ASSUME NEW r \in Recordings, NEW result
    PROVE  /\ DeepestFailure(r, result) \subseteq Failed(result)
           /\ \A x, y \in DeepestFailure(r, result) : x = y
           /\ Failed(result) # {} => DeepestFailure(r, result) # {}
           /\ \A x \in DeepestFailure(r, result) :
                 \A y \in Children(r, x) : y \notin Failed(result)
  <1> DEFINE depth == Depth(r)
  <1>1. /\ depth \in [Spans -> 0 .. N]
        /\ \A x \in Spans : \A y \in Children(r, x) : depth[y] = depth[x] + 1
    BY DepthRanks
  <1>2. Failed(result) \in SUBSET Spans /\ Spans \subseteq Int /\ N \in Nat
    BY RecordingAssumption DEF Failed, Spans
  <1>3. \A x \in DeepestFailure(r, result) : x \in Failed(result) /\
           \A y \in Failed(result) : depth[y] < depth[x] \/ (depth[y] = depth[x] /\ y <= x)
    BY DEF DeepestFailure
  <1>4. \A x \in Failed(result) :
           (\A y \in Failed(result) : depth[y] < depth[x] \/ (depth[y] = depth[x] /\ y <= x))
              => x \in DeepestFailure(r, result)
    BY DEF DeepestFailure
  <1> HIDE DEF depth
  <1>5. \A x \in Spans : depth[x] \in Int
    BY <1>1
  <1>6. \A x, y \in DeepestFailure(r, result) : x = y
    <2> SUFFICES ASSUME NEW x \in DeepestFailure(r, result),
                        NEW y \in DeepestFailure(r, result)
                 PROVE  x = y
      OBVIOUS
    <2>1. x \in Int /\ y \in Int /\ depth[x] \in Int /\ depth[y] \in Int
      BY <1>2, <1>3, <1>5
    <2> QED
      BY <1>3, <2>1
  <1>7. Failed(result) # {} => DeepestFailure(r, result) # {}
    BY <1>1, <1>2, <1>4, GreatestLast
  <1>8. ASSUME NEW x \in DeepestFailure(r, result), NEW y \in Children(r, x),
               y \in Failed(result)
        PROVE  FALSE
    <2>1. x \in Spans /\ y \in Spans /\ depth[y] = depth[x] + 1
      BY <1>1, <1>2, <1>3, <1>8
    <2>2. depth[y] < depth[x] \/ depth[y] = depth[x]
      BY <1>3, <1>8
    <2> QED
      BY <1>5, <2>1, <2>2
  <1> QED
    BY <1>3, <1>6, <1>7, <1>8

\* Without failures in the recording, a container fails for a child only.
LEMMA DeepestIsExecuted ==
    ASSUME Inv, EndInvariant, Shown, phase = "done", Failed(rec.result) = {},
           NEW x \in DeepestFailure(rec, target)
    PROVE  Work(x) /\ outcome[x] = "Executed"
  <1>1. x \in Spans /\ target[x].status = "Failed" /\ rec.result[x].status # "Failed"
    BY DeepestIs DEF Inv, Failed
  <1>2. \A y \in Children(rec, x) : target[y].status # "Failed"
    BY DeepestIs DEF Inv, Failed, Children
  <1>3. Work(x)
    <2> SUFFICES ASSUME ~Work(x) PROVE FALSE
      OBVIOUS
    <2>1. x \in Derivable
      BY <1>1 DEF Shown, Recorded
    <2>2. target[x].status = DerivedStatus(x)
      BY <2>1 DEF EndInvariant, Derived
    <2>3. DerivedStatus(x) # "Failed"
      BY <1>1, <1>2 DEF DerivedStatus
    <2> QED
      BY <1>1, <2>2, <2>3
  <1>4. outcome[x] \in Outcomes
    BY <1>1 DEF Inv, TypeOK
  <1> QED
    BY <1>1, <1>3, <1>4 DEF Inv, Results, Shown, Recorded, Outcomes

\* The class is that of a blocked span as soon as one is blocked.
LEMMA ClassOfBlocked ==
    ASSUME NEW r, NEW result, NEW s
    PROVE  FailureClass(r, result, s) = "ReplayUnsupported" <=>
              \E x \in Spans : result[x].status = "Blocked"
  <1> DEFINE errors == ContributesError(result)
             weight == [x \in Spans |-> Specificity(Class(r, result, x))]
             ranks(x) == \A y \in errors : \/ Specificity(Class(r, result, y)) <
                                                Specificity(Class(r, result, x))
                                           \/ /\ Specificity(Class(r, result, y)) =
                                                   Specificity(Class(r, result, x))
                                              /\ y <= x
             decisive == CHOOSE x \in errors : ranks(x)
  <1>1. \A x \in Spans :
           /\ Specificity(Class(r, result, x)) \in 0 .. 2
           /\ Specificity(Class(r, result, x)) = 2 <=> result[x].status = "Blocked"
           /\ Class(r, result, x) = "ReplayUnsupported" <=> result[x].status = "Blocked"
    BY DEF Specificity, Class
  <1>2. CASE errors = {}
    <2>1. \A x \in Spans : result[x].status # "Blocked"
      BY <1>2 DEF ContributesError
    <2>2. FailureClass(r, result, s) \in {"Unknown", "none"}
      BY <1>2 DEF FailureClass
    <2> QED
      BY <2>1, <2>2
  <1>3. CASE errors # {}
    <2>1. \E x \in errors : ranks(x)
      <3>1. weight \in [Spans -> 0 .. 2] /\ errors \in SUBSET Spans
        BY <1>1 DEF ContributesError
      <3>2. \E x \in errors : \A y \in errors :
               weight[y] < weight[x] \/ (weight[y] = weight[x] /\ y <= x)
        <4> HIDE DEF weight, errors
        <4> QED
          BY <1>3, <3>1, GreatestLast
      <3> QED
        BY <3>1, <3>2
    <2>2. decisive \in errors /\ ranks(decisive)
      BY <2>1
    <2>3. FailureClass(r, result, s) = Class(r, result, decisive)
      BY <1>3, Zenon DEF FailureClass
    <2>4. \A x \in Spans : result[x].status = "Blocked" => x \in errors
      BY DEF ContributesError
    <2>5. errors \subseteq Spans
      BY DEF ContributesError
    <2> HIDE DEF decisive, errors
    <2> QED
      BY <1>1, <2>2, <2>3, <2>4, <2>5
  <1> QED
    BY <1>2, <1>3

\* failure_forensics and the summary lead to what went wrong in a branch: a
\* failure the replay executed, the way down to it, a cause that rests on nothing
\* failed but itself, and the class of a blocked branch.
THEOREM ForensicsLeadToCause ==
    ASSUME RecordingsWhole
    PROVE  Spec => []BranchIsExplained
  <1>1. ASSUME Inv, EndInvariant, Shown PROVE BranchIsExplained
    <2> DEFINE deepest == DeepestFailure(rec, target)
               shown == Forensics(rec, target)
               path == shown.path
    <2> SUFFICES ASSUME phase = "done"
                 PROVE  /\ status # "Completed" => shown.deepest \cup shown.blocked # {}
                        /\ Failed(rec.result) = {} =>
                              \A x \in shown.deepest : Work(x) /\ outcome[x] = "Executed"
                        /\ path # <<>> =>
                              /\ rec.parent[path[1]] = NoParent
                              /\ {path[Len(path)]} = shown.deepest
                              /\ \A i \in 2 .. Len(path) : rec.parent[path[i]] = path[i - 1]
                        /\ \A x \in shown.deepest, y \in shown.cause :
                              /\ y \in FailedReach(x)
                              /\ FailedNeeds(rec, target, y) = {} \/ y \in FailedReach(y)
                        /\ RunSummary(rec, target, status).class = "ReplayUnsupported"
                              <=> status = "Blocked"
      BY DEF BranchIsExplained
    <2>1. /\ rec \in Recordings /\ status = DeriveRunStatus(rec, target)
          /\ deepest \subseteq Spans /\ \A x, y \in deepest : x = y
          /\ Failed(target) # {} => deepest # {}
      BY <1>1, DeepestIs DEF Inv, EndInvariant, Derived, Failed
    <2>2. /\ shown.deepest = deepest /\ shown.blocked = Blocked(target)
          /\ shown.cause = UNION {DeepestDependency(rec, target, x) : x \in deepest}
          /\ path = IF deepest = {} THEN <<>>
                    ELSE PathToRoot(rec)[CHOOSE x \in deepest : TRUE]
      BY DEF Forensics
    <2> HIDE DEF deepest, shown
    <2>3. ASSUME status # "Completed", Blocked(target) = {} PROVE deepest # {}
      <3>1. \A x \in Spans : target[x].status \in {"Completed", "Failed"}
        BY <1>1, <2>3 DEF Shown, Blocked
      <3>2. \E x \in Spans : target[x].status = "Failed"
        <4>1. CASE RootRuns(rec) = {}
          BY <2>1, <2>3, <3>1, <4>1 DEF DeriveRunStatus
        <4>2. CASE RootRuns(rec) # {}
          <5> DEFINE root == CHOOSE x \in RootRuns(rec) : \A y \in RootRuns(rec) : x <= y
          <5>1. RootRuns(rec) \in SUBSET Nat /\ RootRuns(rec) \subseteq Spans
            BY RecordingAssumption DEF RootRuns, Spans
          <5>2. root \in RootRuns(rec)
            BY <4>2, <5>1, LeastElement
          <5>3. status = IF target[root].status \in {"Completed", "Canceled"}
                         THEN target[root].status ELSE "Failed"
            BY <2>1, <3>1, <4>2 DEF DeriveRunStatus
          <5> HIDE DEF root
          <5> QED
            BY <2>3, <3>1, <5>1, <5>2, <5>3
        <4> QED
          BY <4>1, <4>2
      <3> QED
        BY <2>1, <3>2 DEF Failed
    <2>4. Failed(rec.result) = {} => \A x \in deepest : Work(x) /\ outcome[x] = "Executed"
      BY <1>1, DeepestIsExecuted DEF deepest
    <2>5. ASSUME path # <<>>
          PROVE  /\ rec.parent[path[1]] = NoParent
                 /\ {path[Len(path)]} = deepest
                 /\ \A i \in 2 .. Len(path) : rec.parent[path[i]] = path[i - 1]
      <3>1. PICK x \in deepest : path = PathToRoot(rec)[x]
        BY <2>2, <2>5
      <3>2. LeadsDown(rec, path, x)
        BY <2>1, <3>1, PathLeadsDown
      <3>3. deepest = {x}
        BY <2>1, <3>1
      <3> QED
        BY <3>2, <3>3 DEF LeadsDown
    <2>6. ASSUME NEW x \in deepest, NEW y \in shown.cause
          PROVE  /\ y \in FailedReach(x)
                 /\ FailedNeeds(rec, target, y) = {} \/ y \in FailedReach(y)
      <3>1. y \in DeepestDependency(rec, target, x) /\ x \in Spans
        BY <2>1, <2>2, <2>6
      <3>2. /\ \E z \in FailedNeeds(rec, target, x) : y \in Leads(rec, target, z)
            /\ \/ FailedNeeds(rec, target, y) = {}
               \/ \E z \in FailedNeeds(rec, target, y) : y \in Leads(rec, target, z)
        BY <3>1, CauseExplains
      <3> QED
        BY <3>2 DEF FailedReach, Leads
    <2>7. RunSummary(rec, target, status).class = "ReplayUnsupported" <=> status = "Blocked"
      <3>1. RunSummary(rec, target, status).class = FailureClass(rec, target, status)
        BY DEF RunSummary
      <3>2. status = "Blocked" <=> \E x \in Spans : target[x].status = "Blocked"
        BY <2>1 DEF DeriveRunStatus
      <3> QED
        BY <3>1, <3>2, ClassOfBlocked
    <2> HIDE DEF path
    <2> QED
      BY <2>2, <2>3, <2>4, <2>5, <2>6, <2>7
  <1>2. Inv /\ EndInvariant /\ Shown => BranchIsExplained
    BY <1>1
  <1> QED
    BY <1>2, ShownHolds, PTL
=============================================================================
