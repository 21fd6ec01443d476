-------------------------- MODULE WorkspaceTimeline --------------------------
(***************************************************************************)
(* The workspace of a recorded run and of its fork.                        *)
(*                                                                         *)
(* Recording: the collector captures the workspace before and after every  *)
(* span and at the end of the run, while the spans write files.  A capture *)
(* may fail.                                                               *)
(*                                                                         *)
(* Replay: a sandbox is restored from the point before the first dirty     *)
(* span and walked along the recorded points.  What happened between two   *)
(* points belongs to one span, their owner, and is re-applied unless the   *)
(* owner has been re-executed or is blocked; re-executed spans change the  *)
(* sandbox themselves.                                                     *)
(*                                                                         *)
(* A span writes at most once, and at most one write is made outside all   *)
(* spans.  A capture is one step, so that ordinals are positions; module   *)
(* Collector has the captures that overlap.  The points that the replay    *)
(* records in its turn are copies of the sandbox and are left out.         *)
(***************************************************************************)
EXTENDS Integers, Sequences, FiniteSets

CONSTANTS
    N,          \* spans 1 .. N, by sequence number
    Files,
    MaxWrites,  \* bound on the changes recorded
    MaxFailures \* bound on the captures that fail

ASSUME TimelineAssumption == N \in Nat \ {0} /\ {MaxWrites, MaxFailures} \subseteq Nat

Spans   == 1 .. N
Nobody  == 0        \* in place of a span
NoPoint == 0

\* What a file holds at first, after a span was recorded, after a span was
\* re-executed, or after a change from outside.  To be absent is one more content.
Initial     == 0
Recorded(x) == x
Replayed(x) == -x
Foreign     == N + 1
Contents    == -N .. N + 1

Workspaces == [Files -> Contents]

VARIABLES
    phase,
    files,      \* the live workspace
    by,         \* who wrote each file last
    stage,      \* of each span
    parent,
    wrote,      \* spans that have written, and Nobody
    points,     \* the recorded workspace points
    fork, patch,
    todo,       \* dirty spans, other than containers, still to be visited
    base,       \* the point the sandbox starts from, or NoPoint
    origin,     \* what it is restored to
    cursor,     \* the point it has reached
    sandbox,
    skip,       \* spans whose recorded changes are not re-applied
    live        \* files that re-executed spans have written

recorder == <<files, by, stage, parent, wrote, points>>
request  == <<fork, patch, base, origin>>
vars     == <<phase, files, by, stage, parent, wrote, points, fork, patch,
              todo, base, origin, cursor, sandbox, skip, live>>

\* What the patch replaces: inputs of the fork span (or of its subtree), its
\* output, or the workspace the sandbox starts from.
Patches == {"input", "output", "snapshot"}

Stages == {"new", "opening", "open", "ended"}
Phases == {"record", "recorded", "replay", "done"}

Point == [phase : {"before", "after", "end"},
          span  : Spans \cup {Nobody},
          files : Workspaces,
          by    : [Files -> Spans \cup {Nobody}]]

TypeOK ==
    /\ phase \in Phases
    /\ files \in Workspaces
    /\ by \in [Files -> Spans \cup {Nobody}]
    /\ stage \in [Spans -> Stages]
    /\ parent \in [Spans -> Spans \cup {Nobody}]
    /\ wrote \subseteq Spans \cup {Nobody}
    /\ points \in Seq(Point)
    /\ todo \subseteq Spans
    /\ fork \in Spans \cup {Nobody}
    /\ patch \in Patches
    /\ base \in 0 .. Len(points)
    /\ cursor \in base .. Len(points)
    /\ origin \in Workspaces
    /\ sandbox \in Workspaces
    /\ skip \subseteq Spans
    /\ live \subseteq Files

Empty == [f \in Files |-> Initial]

Init ==
    /\ phase = "record"
    /\ files = Empty
    /\ by = [f \in Files |-> Nobody]
    /\ stage = [x \in Spans |-> "new"]
    /\ parent = [x \in Spans |-> Nobody]
    /\ wrote = {}
    /\ points = <<>>
    /\ todo = {} /\ fork = Nobody /\ patch = "input"
    /\ base = NoPoint /\ origin = Empty
    /\ cursor = NoPoint /\ sandbox = Empty
    /\ skip = {} /\ live = {}

----------------------------------------------------------------------------
(* Recording                                                               *)

Started == {x \in Spans : stage[x] # "new"}
Open    == {x \in Spans : stage[x] = "open"}

\* start_span numbers the spans in the order it is called.  A parent is a span
\* whose start has returned.
StartSpan(x, p) ==
    /\ phase = "record"
    /\ Started = 1 .. x - 1
    /\ p = Nobody \/ p \in Open
    /\ stage' = [stage EXCEPT ![x] = "opening"]
    /\ parent' = [parent EXCEPT ![x] = p]
    /\ UNCHANGED <<phase, files, by, wrote, points, request, todo, cursor,
                   sandbox, skip, live>>

\* Captures of spans that have failed.
Captured(kind, x) == \E i \in DOMAIN points : points[i].phase = kind /\ points[i].span = x

Missing ==
    {x \in Spans : stage[x] \in {"open", "ended"} /\ ~Captured("before", x)}
      \cup {-x : x \in {y \in Spans : stage[y] = "ended" /\ ~Captured("after", y)}}

\* The next workspace point; a capture that fails is only logged.
Capture(kind, x, ok) ==
    /\ ok \/ Cardinality(Missing) < MaxFailures
    /\ points' = IF ok
                 THEN Append(points, [phase |-> kind, span |-> x, files |-> files, by |-> by])
                 ELSE points

\* start_span captures before it returns.
SpanStarted(x, ok) ==
    /\ phase = "record"
    /\ stage[x] = "opening"
    /\ Capture("before", x, ok)
    /\ stage' = [stage EXCEPT ![x] = "open"]
    /\ UNCHANGED <<phase, files, by, parent, wrote, request, todo, cursor,
                   sandbox, skip, live>>

\* The program changes a file, in a span or outside.
Write(x, f) ==
    /\ phase = "record"
    /\ x \in Open \cup {Nobody} /\ x \notin wrote
    /\ Cardinality(wrote) < MaxWrites
    /\ files' = [files EXCEPT ![f] = IF x = Nobody THEN Foreign ELSE Recorded(x)]
    /\ by' = [by EXCEPT ![f] = x]
    /\ wrote' = wrote \cup {x}
    /\ UNCHANGED <<phase, stage, parent, points, request, todo, cursor,
                   sandbox, skip, live>>

EndSpan(x, ok) ==
    /\ phase = "record"
    /\ x \in Open
    /\ Capture("after", x, ok)
    /\ stage' = [stage EXCEPT ![x] = "ended"]
    /\ UNCHANGED <<phase, files, by, parent, wrote, request, todo, cursor,
                   sandbox, skip, live>>

FinishRun(ok) ==
    /\ phase = "record"
    /\ \A x \in Started : stage[x] = "ended"
    /\ Capture("end", Nobody, ok)
    /\ phase' = "recorded"
    /\ UNCHANGED <<files, by, stage, parent, wrote, request, todo, cursor,
                   sandbox, skip, live>>

\* The run is aborted, or its program dies: no end point.
AbortRun ==
    /\ phase = "record"
    /\ phase' = "recorded"
    /\ UNCHANGED <<recorder, request, todo, cursor, sandbox, skip, live>>

----------------------------------------------------------------------------
(* Whose change it is                                                      *)

\* A point opens its span; an "after" closes its span and whatever was opened later.
After(stack, p) ==
    CASE p.phase = "before" -> Append(stack, p.span)
      [] p.phase = "end"    -> <<>>
      [] OTHER ->
           IF \E k \in DOMAIN stack : stack[k] = p.span
           THEN SubSeq(stack, 1,
                  (CHOOSE k \in DOMAIN stack :
                     /\ stack[k] = p.span
                     /\ \A j \in DOMAIN stack : stack[j] = p.span => j <= k) - 1)
           ELSE stack

\* The spans open after each point, outermost first.
OpenAfter[i \in 0 .. Len(points)] ==
    IF i = 0 THEN <<>> ELSE After(OpenAfter[i - 1], points[i])

\* owners[i]: the innermost span open between points i and i + 1.
Owner(i) ==
    LET stack == OpenAfter[i] IN IF stack = <<>> THEN Nobody ELSE stack[Len(stack)]

----------------------------------------------------------------------------
(* The fork                                                                *)

Children(x) == {y \in Spans : parent[y] = x}

Befores(x) == {i \in DOMAIN points : points[i].phase = "before" /\ points[i].span = x}

\* index_of(Before, x)
IsIndexOf(i, x) == i \in Befores(x) /\ \A j \in Befores(x) : i <= j

\* Faulty variant: the number of the span is not looked at.
IsBasePointLast(i, first) ==
    LET befores == UNION {Befores(x) : x \in Spans}
    IN  \/ IsIndexOf(i, first)
        \/ Befores(first) = {} /\ i \in befores /\ \A j \in befores : j <= i
        \/ befores = {} /\ i = NoPoint

\* The point before the first dirty span, or the last point that is before a
\* span with no higher number.
IsBasePoint(i, first) ==
    LET earlier == UNION {Befores(x) : x \in 1 .. first}
    IN  \/ IsIndexOf(i, first)
        \/ Befores(first) = {} /\ i \in earlier /\ \A j \in earlier : j <= i
        \/ earlier = {} /\ i = NoPoint

Restore(b) == sandbox' = origin' /\ cursor' = b

\* What a snapshot override may name: a point of the source run, or a directory.
OverrideArchives ==
    {points[i].files : i \in DOMAIN points} \cup {[f \in Files |-> Foreign]}

\* A fork of x that makes the spans D dirty, of which W are no containers.  Edges
\* make any span dirty, and children of a dirty span always are.
Fork(x, D, W) ==
    /\ phase = "recorded"
    /\ x \in D /\ D \subseteq Started
    /\ \A y \in D : Children(y) \subseteq D
    /\ W \subseteq D
    /\ fork' = x /\ todo' = W
    /\ patch' \in Patches
    /\ patch' = "output" => x \in W
    /\ base' \in 0 .. Len(points)
    /\ \E first \in D : (\A y \in D : first <= y) /\ IsBasePoint(base', first)
    /\ origin' \in IF patch' = "snapshot" THEN OverrideArchives
                  ELSE {IF base' = NoPoint THEN Empty ELSE points[base'].files}
    /\ Restore(base')
    /\ phase' = "replay"
    /\ UNCHANGED <<recorder, skip, live>>

----------------------------------------------------------------------------
(* The replay                                                              *)

\* Faulty variant: the workspace of the later point is restored as a whole.
TransitionWhole(ws, i) == [f \in Files |-> points[i + 1].files[f]]

\* apply_transition: paths the transition did not touch are left alone.
Transition(ws, i) ==
    [f \in Files |-> IF points[i].files[f] # points[i + 1].files[f]
                     THEN points[i + 1].files[f] ELSE ws[f]]

\* Faulty variant: changes that belong to no span are left out.
AppliesOwned(i) == Owner(i) \in Spans \ skip

Applies(i) == Owner(i) \notin skip

\* One round of advance_to.
Step ==
    /\ sandbox' = IF Applies(cursor) THEN Transition(sandbox, cursor) ELSE sandbox
    /\ cursor' = cursor + 1
    /\ UNCHANGED <<phase, recorder, request, todo, skip, live>>

\* Spans are visited in the order of their numbers.
IsNext(x) == x \in todo /\ \A y \in todo : x <= y

\* The walk has reached the point before x, or passed it, or there is none.
Reached(x) ==
    base = NoPoint \/ \A i \in Befores(x) : IsIndexOf(i, x) => i <= cursor

AdvanceTo(x) ==
    /\ phase = "replay"
    /\ IsNext(x)
    /\ ~Reached(x)
    /\ Step

\* Faulty variant: the span is run before the walk has come to it.
ReadyAnywhere(x) == phase = "replay" /\ IsNext(x)

Ready(x) == phase = "replay" /\ IsNext(x) /\ Reached(x)

Satisfied(x) == x = fork /\ patch = "output"

\* The patch is the span's output, or the inputs of the span have not changed:
\* what it did to the workspace when it was recorded stands.
Stand(x) ==
    /\ Ready(x)
    /\ Satisfied(x) \/ (x # fork /\ patch # "snapshot")
    /\ todo' = todo \ {x}
    /\ UNCHANGED <<phase, recorder, request, cursor, sandbox, skip, live>>

\* The span is blocked, or is executed and writes nothing.
Block(x) ==
    /\ Ready(x)
    /\ ~Satisfied(x)
    /\ todo' = todo \ {x}
    /\ skip' = skip \cup {x}
    /\ UNCHANGED <<phase, recorder, request, cursor, sandbox, live>>

\* The executor may change any file, whatever was recorded.
Execute(x, f) ==
    /\ Ready(x)
    /\ ~Satisfied(x)
    /\ todo' = todo \ {x}
    /\ skip' = skip \cup {x}
    /\ sandbox' = [sandbox EXCEPT ![f] = Replayed(x)]
    /\ live' = live \cup {f}
    /\ UNCHANGED <<phase, recorder, request, cursor>>

\* After the last span the walk goes on to the last point ...
AdvanceToEnd ==
    /\ phase = "replay"
    /\ todo = {}
    /\ base # NoPoint /\ cursor < Len(points)
    /\ Step

\* ... and ends there.
Finish ==
    /\ phase = "replay"
    /\ todo = {}
    /\ base = NoPoint \/ cursor = Len(points)
    /\ phase' = "done"
    /\ UNCHANGED <<recorder, request, todo, cursor, sandbox, skip, live>>

----------------------------------------------------------------------------
\* Threads of the program may do anything that is not theirs to order.
Record ==
    \/ \E x \in Spans, p \in Spans \cup {Nobody} : StartSpan(x, p)
    \/ \E x \in Spans, ok \in BOOLEAN : SpanStarted(x, ok) \/ EndSpan(x, ok)
    \/ \E x \in Spans \cup {Nobody}, f \in Files : Write(x, f)
    \/ \E ok \in BOOLEAN : FinishRun(ok)
    \/ AbortRun

Replay ==
    \/ \E x \in Spans, D, W \in SUBSET Spans : Fork(x, D, W)
    \/ \E x \in Spans : \/ AdvanceTo(x) \/ Stand(x) \/ Block(x)
                        \/ \E f \in Files : Execute(x, f)
    \/ AdvanceToEnd \/ Finish

Next == Record \/ Replay

Spec == Init /\ [][Next]_vars

Opening == {x \in Spans : stage[x] = "opening"}

Innermost(x) ==
    /\ Opening = {}
    /\ \/ x = Nobody /\ Open = {}
       \/ x \in Open /\ \A y \in Open : y <= x

\* A program with one thread starts, ends and writes in its innermost open span.
\* The captures that fail are those before a span or at the end of the run.
RecordInOneThread ==
    \/ \E x \in Spans, p \in Spans \cup {Nobody} : Innermost(p) /\ StartSpan(x, p)
    \/ \E x \in Spans, ok \in BOOLEAN : SpanStarted(x, ok)
    \/ \E x \in Spans : Innermost(x) /\ EndSpan(x, TRUE)
    \/ \E x \in Spans \cup {Nobody}, f \in Files : Innermost(x) /\ Write(x, f)
    \/ \E ok \in BOOLEAN : FinishRun(ok)
    \/ Opening = {} /\ AbortRun

OneThreadSpec == Init /\ [][RecordInOneThread \/ Replay]_vars

\* Bound for TLC: the replay of a recording with a capture missing is not followed
\* beyond its start.
FollowedIfComplete == Missing = {} \/ phase # "replay"

----------------------------------------------------------------------------
(* Properties                                                              *)

\* No capture has failed.
Complete == Missing = {}

\* Recorded changes of file f between the base point and the cursor.
Changes(f) ==
    {i \in base .. cursor - 1 : i # NoPoint /\ points[i].files[f] # points[i + 1].files[f]}

Writer(i, f) == points[i + 1].by[f]

\* "The recorded workspace changes of every span it does not re-execute are
\* re-applied": a file that only such spans changed (or nobody), and that no
\* re-executed span has written, is as it was recorded, wherever the replay is.
KeptChanges ==
    Complete => \A f \in Files \ live :
        (\A i \in Changes(f) : Writer(i, f) \notin skip) =>
            sandbox[f] = IF Changes(f) = {} THEN origin[f] ELSE points[cursor].files[f]

\* "Re-executed spans produce their own changes live": what a re-executed or
\* blocked span did to a file when it was recorded is never re-applied, and such a
\* span finds the walk at the point recorded right before it.
OnlyKeptChanges ==
    [][Complete =>
          /\ cursor' # cursor /\ phase' = phase =>
                \A f \in Files : sandbox'[f] # sandbox[f] => Writer(cursor, f) \notin skip
          /\ \A x \in skip' \ skip : IsIndexOf(cursor, x)]_vars

\* The sandbox starts from a workspace that none of the spans to be replayed
\* has touched, whichever of the captures before spans failed: only these are looked
\* at, so that the one after a span never fails here makes no difference.
StartsClean ==
    [][phase' = "replay" /\ phase # phase' =>
          \A f \in Files : base' # NoPoint => points[base'].by[f] \notin todo']_vars

\* The same of the spans of a program with several threads.  The code does not
\* ensure it: a change belongs to the innermost span open, whose ever it is.
SpanChangesKept ==
    Complete => \A f \in Files \ live :
        (\A i \in Changes(f) : Writer(i, f) \notin skip \cup {Nobody}) =>
            sandbox[f] = IF Changes(f) = {} THEN origin[f] ELSE points[cursor].files[f]
==============================================================================
