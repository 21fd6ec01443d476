----------------------- MODULE WorkspaceTimelineProofs -----------------------
(***************************************************************************)
(* For any number of spans and files, programs with one thread, and any    *)
(* replay of what they recorded: the sandbox starts from a workspace that  *)
(* no span to be replayed has touched (ForkStartsClean); and, if every     *)
(* capture has succeeded, the walk re-applies what spans that are not      *)
(* re-executed have recorded (ChangesAreKept), and nothing else            *)
(* (OnlyTheirsAreKept).                                                    *)
(*                                                                         *)
(* The key is that the owner of a transition, computed from the points     *)
(* alone, is the one who wrote what changed (OwnersWrite): as long as the  *)
(* run is recorded, the stack computed so far holds exactly the open       *)
(* spans, innermost last (StackIsOpen).                                    *)
(***************************************************************************)
EXTENDS WorkspaceTimeline, SequenceTheorems, WellFoundedInduction, TLAPS

\* Spans start in the order of their numbers, and one is being started at a time.
SpansInOrder ==
    /\ \A x \in Started, y \in Spans : y < x => y \in Started
    /\ \A x \in Opening, y \in Started : y <= x
    /\ phase # "record" => Opening = {}

HasBegun(x) == x \in Spans /\ stage[x] \in {"open", "ended"}

\* Writers have begun; what is before a span was written by earlier ones.
PointsInOrder ==
    /\ \A f \in Files : by[f] # Nobody => HasBegun(by[f])
    /\ \A i \in DOMAIN points : points[i].phase = "before" =>
          /\ HasBegun(points[i].span)
          /\ \A f \in Files : points[i].by[f] < points[i].span
    /\ \A i, j \in DOMAIN points :
          /\ points[i].phase = "before" /\ points[j].phase = "before"
          /\ i < j
          => points[i].span < points[j].span
    /\ \A i \in DOMAIN points : points[i].phase = "after" =>
          points[i].span \in Spans /\ stage[points[i].span] = "ended"

Stack == OpenAfter[Len(points)]

\* The spans open after the last point are those open now, innermost last.
StackIsOpen ==
    /\ Stack \in Seq(Spans)
    /\ \A j, k \in DOMAIN Stack : j < k => Stack[j] < Stack[k]
    /\ Open = {Stack[k] : k \in DOMAIN Stack}

\* What has changed since the last point was written by its owner.
LiveChanges ==
    points # <<>> =>
        \A f \in Files : files[f] # points[Len(points)].files[f] =>
            by[f] = Owner(Len(points))

OwnersWrite ==
    \A i \in 1 .. Len(points) - 1, f \in Files :
        points[i].files[f] # points[i + 1].files[f] => Writer(i, f) = Owner(i)

Timeline ==
    /\ phase = "record" => StackIsOpen /\ LiveChanges
    /\ OwnersWrite

\* Nothing of the replay is there before the fork; without a point no walk.
BeforeFork ==
    /\ phase \in {"record", "recorded"} =>
          base = NoPoint /\ sandbox = origin
    /\ base = NoPoint => cursor = NoPoint

\* The walk has not passed the point before a span that is still to be visited.
Walk ==
    phase = "replay" =>
        /\ base # NoPoint
        /\ todo \subseteq Started
        /\ \A x \in todo : \A i \in Befores(x) : IsIndexOf(i, x) => cursor <= i

Inv ==
    /\ TypeOK
    /\ SpansInOrder
    /\ PointsInOrder
    /\ BeforeFork
    /\ Complete => Timeline /\ Walk
    /\ KeptChanges


-----------------------------------------------------------------------------
(* Induction on the naturals, and what a recursive function computes.      *)

Below == {p \in Nat \X Nat : p[1] < p[2]}

LEMMA BelowWellFounded == IsWellFoundedOn(Below, Nat)
  BY NatLessThanWellFounded DEF OpToRel, Below

LEMMA LeastElement ==
    ASSUME NEW S \in SUBSET Nat, S # {}
    PROVE  \E x \in S : \A y \in S : x <= y
  <1>1. PICK x \in S : \A y \in S : <<y, x>> \notin Below
    BY BelowWellFounded, WFMin
  <1>2. \A y \in S : y \in Nat /\ x \in Nat /\ ~(y < x)
    BY <1>1 DEF Below
  <1> QED
    BY <1>2

LEMMA Induction ==
    ASSUME NEW S, 0 \in S, \A n \in Nat : n \in S => n + 1 \in S
    PROVE  Nat \subseteq S
  <1> SUFFICES ASSUME Nat \ S # {} PROVE FALSE
    OBVIOUS
  <1>1. PICK m \in Nat \ S : \A y \in Nat \ S : m <= y
    BY LeastElement
  <1>2. m - 1 \in Nat /\ ~(m <= m - 1)
    BY <1>1
  <1> QED
    BY <1>1, <1>2

\* OpenAfter is what its definition says, on all positions.
LEMMA OpenAfterIsDefined ==
    ASSUME points \in Seq(Point)
    PROVE  OpenAfter = [i \in 0 .. Len(points) |->
               IF i = 0 THEN <<>> ELSE After(OpenAfter[i - 1], points[i])]
  <1> DEFINE body(g, i) == IF i = 0 THEN <<>> ELSE After(g[i - 1], points[i])
             defined(n) == \E g : g = [i \in 0 .. n |-> body(g, i)]
             S == {n \in Nat : defined(n)}
  <1>1. 0 \in S
    <2>1. [i \in 0 .. 0 |-> <<>>] = [i \in 0 .. 0 |-> body([j \in 0 .. 0 |-> <<>>], i)]
      OBVIOUS
    <2> QED
      BY <2>1
  <1>2. ASSUME NEW n \in Nat, n \in S PROVE n + 1 \in S
    <2>1. PICK g : g = [i \in 0 .. n |-> body(g, i)]
      BY <1>2
    <2> DEFINE h == [i \in 0 .. n + 1 |->
                        IF i = n + 1 THEN body(g, n + 1) ELSE g[i]]
    <2>2. \A i \in 0 .. n + 1 : h[i] = body(h, i)
      <3> SUFFICES ASSUME NEW i \in 0 .. n + 1 PROVE h[i] = body(h, i)
        OBVIOUS
      <3>1. i # 0 => i - 1 \in 0 .. n /\ h[i - 1] = g[i - 1]
        OBVIOUS
      <3>2. i # n + 1 => g[i] = body(g, i)
        BY <2>1
      <3> QED
        BY <3>1, <3>2
    <2>3. h = [i \in 0 .. n + 1 |-> body(h, i)]
      BY <2>2
    <2>4. defined(n + 1)
      <3> HIDE DEF h
      <3> QED
        BY <2>3
    <2> QED
      BY <2>4
  <1>3. Nat \subseteq S
    <2> HIDE DEF S
    <2> QED
      BY <1>1, <1>2, Induction
  <1>4. \E g : g = [i \in 0 .. Len(points) |-> body(g, i)]
    BY <1>3, LenProperties
  <1> QED
    BY <1>4 DEF OpenAfter

-----------------------------------------------------------------------------
(* Points that are added leave what was derived from the others.           *)

LEMMA OpenAfterAt ==
    ASSUME points \in Seq(Point)
    PROVE  /\ OpenAfter[0] = <<>>
           /\ \A i \in 1 .. Len(points) : OpenAfter[i] = After(OpenAfter[i - 1], points[i])
  <1>1. Len(points) \in Nat
    BY LenProperties
  <1> QED
    BY <1>1, OpenAfterIsDefined

LEMMA OpenAfterSame ==
    points' = points => OpenAfter' = OpenAfter /\ \A i : Owner(i)' = Owner(i)
  BY DEF OpenAfter, Owner

\* The equation of OpenAfter once a point has been added.
LEMMA OpenAfterIsDefinedNext ==
    ASSUME points \in Seq(Point), NEW p \in Point, points' = Append(points, p)
    PROVE  /\ OpenAfter'[0] = <<>>
           /\ \A i \in 1 .. Len(points) + 1 :
                 OpenAfter'[i] = After(OpenAfter'[i - 1], points'[i])
  <1>1. points' \in Seq(Point)
    BY AppendProperties
  <1>2. Len(points') = Len(points) + 1 /\ Len(points') \in Nat
    BY AppendProperties, LenProperties
  <1>3. (points \in Seq(Point) =>
           /\ OpenAfter[0] = <<>>
           /\ \A i \in 1 .. Len(points) : OpenAfter[i] = After(OpenAfter[i - 1], points[i]))'
    BY OpenAfterAt, PTL
  <1> QED
    BY <1>1, <1>2, <1>3 DEF After

LEMMA OpenAfterGrows ==
    ASSUME points \in Seq(Point), NEW p \in Point, points' = Append(points, p)
    PROVE  /\ \A i \in 0 .. Len(points) :
                 OpenAfter'[i] = OpenAfter[i] /\ Owner(i)' = Owner(i)
           /\ OpenAfter'[Len(points) + 1] = After(OpenAfter[Len(points)], p)
  <1> DEFINE S == {i \in Nat : i <= Len(points) => OpenAfter'[i] = OpenAfter[i]}
  <1>1. 0 \in S
    BY OpenAfterAt, OpenAfterIsDefinedNext
  <1>2. ASSUME NEW i \in Nat, i \in S PROVE i + 1 \in S
    <2> SUFFICES ASSUME i + 1 <= Len(points)
                 PROVE  OpenAfter'[i + 1] = OpenAfter[i + 1]
      OBVIOUS
    <2>1. Len(points) \in Nat /\ i + 1 \in 1 .. Len(points)
      BY LenProperties
    <2>2. points'[i + 1] = points[i + 1]
      BY <2>1, AppendProperties
    <2>3. OpenAfter[i + 1] = After(OpenAfter[i], points[i + 1])
      BY <2>1, OpenAfterAt
    <2>4. OpenAfter'[i + 1] = After(OpenAfter'[i], points'[i + 1])
      BY <2>1, OpenAfterIsDefinedNext
    <2>5. OpenAfter'[i] = OpenAfter[i]
      BY <2>1, <1>2
    <2> QED
      BY <2>2, <2>3, <2>4, <2>5
  <1>3. \A i \in Nat : i \in S
    <2> HIDE DEF S
    <2> QED
      BY <1>1, <1>2, Induction
  <1>4. \A i \in 0 .. Len(points) : OpenAfter'[i] = OpenAfter[i]
    BY <1>3, LenProperties
  <1>5. \A i \in 0 .. Len(points) : Owner(i)' = Owner(i)
    BY <1>4 DEF Owner
  <1>6. Len(points) \in Nat /\ points'[Len(points) + 1] = p
    BY LenProperties, AppendProperties
  <1>7. OpenAfter'[Len(points) + 1] = After(OpenAfter'[Len(points)], p)
    BY <1>6, OpenAfterIsDefinedNext, SMTT(30)
  <1> QED
    BY <1>4, <1>5, <1>6, <1>7

-----------------------------------------------------------------------------
(* The stack of a program with one thread.                                 *)

Increasing(stack) ==
    \A j, k \in DOMAIN stack : j < k => stack[j] < stack[k]

Elements(stack) == {stack[k] : k \in DOMAIN stack}

LEMMA AfterBefore ==
    ASSUME NEW stack \in Seq(Spans), Increasing(stack),
           NEW p \in Point, p.phase = "before", p.span \in Spans,
           \A y \in Elements(stack) : y < p.span
    PROVE  /\ After(stack, p) \in Seq(Spans)
           /\ Increasing(After(stack, p))
           /\ Elements(After(stack, p)) = Elements(stack) \cup {p.span}
  <1> DEFINE next == Append(stack, p.span)
  <1>1. After(stack, p) = next
    BY DEF After
  <1>2. /\ next \in Seq(Spans) /\ Len(next) = Len(stack) + 1
        /\ next[Len(stack) + 1] = p.span
        /\ \A k \in 1 .. Len(stack) : next[k] = stack[k]
    BY AppendProperties
  <1>3. /\ Len(stack) \in Nat /\ DOMAIN stack = 1 .. Len(stack)
        /\ DOMAIN next = 1 .. Len(stack) + 1
    BY <1>2, LenProperties
  <1> HIDE DEF next
  <1>4. Increasing(next)
    BY <1>2, <1>3 DEF Increasing, Elements
  <1>5. Elements(next) = Elements(stack) \cup {p.span}
    BY <1>2, <1>3 DEF Elements
  <1> QED
    BY <1>1, <1>2, <1>4, <1>5

LEMMA AfterAfter ==
    ASSUME NEW stack \in Seq(Spans), Increasing(stack),
           NEW p \in Point, p.phase = "after",
           p.span \in Elements(stack), \A y \in Elements(stack) : y <= p.span
    PROVE  /\ After(stack, p) \in Seq(Spans)
           /\ Increasing(After(stack, p))
           /\ Elements(After(stack, p)) = Elements(stack) \ {p.span}
  <1> DEFINE n == Len(stack)
             top(k) == stack[k] = p.span /\ \A j \in DOMAIN stack : stack[j] = p.span => j <= k
             next == SubSeq(stack, 1, n - 1)
  <1>1. n \in Nat /\ DOMAIN stack = 1 .. n /\ \A k \in 1 .. n : stack[k] \in Int
    BY LenProperties, ElementOfSeq, TimelineAssumption DEF Spans
  <1>2. PICK k \in DOMAIN stack : stack[k] = p.span
    BY DEF Elements
  <1>3. k = n
    <2>1. n \in DOMAIN stack /\ stack[n] \in Elements(stack)
      BY <1>1, <1>2 DEF Elements
    <2>2. stack[n] <= stack[k]
      BY <1>2, <2>1
    <2>3. k < n => stack[k] < stack[n]
      BY <1>2, <2>1 DEF Increasing
    <2> QED
      BY <1>1, <1>2, <2>1, <2>2, <2>3
  <1>4. top(n) /\ \A j \in DOMAIN stack : top(j) => j = n
    BY <1>1, <1>2, <1>3
  <1>5. n = CHOOSE j \in DOMAIN stack : top(j)
    BY <1>1, <1>2, <1>3, <1>4
  <1>6. After(stack, p) = next
    BY <1>1, <1>2, <1>5 DEF After
  <1>7. /\ next \in Seq(Spans) /\ Len(next) = n - 1
        /\ \A j \in 1 .. n - 1 : next[j] = stack[j]
    BY <1>1, <1>2, SubSeqProperties
  <1>8. DOMAIN next = 1 .. n - 1
    BY <1>7, LenProperties
  <1> HIDE DEF next, n
  <1>9. Increasing(next)
    <2> SUFFICES ASSUME NEW i \in 1 .. n - 1, NEW j \in 1 .. n - 1, i < j
                 PROVE  next[i] < next[j]
      BY <1>8 DEF Increasing
    <2>1. i \in DOMAIN stack /\ j \in DOMAIN stack
      BY <1>1
    <2> QED
      BY <1>7, <2>1 DEF Increasing
  <1>10. Elements(next) = Elements(stack) \ {p.span}
    BY <1>1, <1>2, <1>3, <1>7, <1>8 DEF Increasing, Elements
  <1> QED
    BY <1>6, <1>7, <1>9, <1>10

\* The top of the stack is the innermost open span.
LEMMA OwnerIsInnermost ==
    ASSUME StackIsOpen, NEW x \in Spans \cup {Nobody}, Innermost(x)
    PROVE  Owner(Len(points)) = x
  <1> DEFINE n == Len(Stack)
  <1>1. n \in Nat /\ DOMAIN Stack = 1 .. n /\ \A k \in 1 .. n : Stack[k] \in Spans
    BY LenProperties DEF StackIsOpen
  <1>2. Owner(Len(points)) = IF Stack = <<>> THEN Nobody ELSE Stack[n]
    BY DEF Owner, Stack
  <1>3. CASE Open = {}
    <2>1. n = 0
      <3>1. 1 \notin DOMAIN Stack
        BY <1>3 DEF StackIsOpen
      <3> QED
        BY <1>1, <3>1
    <2>2. Stack = <<>>
      BY <2>1, EmptySeq DEF StackIsOpen
    <2>3. x = Nobody
      BY <1>3 DEF Innermost
    <2> QED
      BY <1>2, <2>2, <2>3
  <1>4. CASE Open # {}
    <2>1. x \in Open /\ \A y \in Open : y <= x
      BY <1>4 DEF Innermost
    <2>2. PICK k \in 1 .. n : Stack[k] = x
      BY <1>1, <2>1 DEF StackIsOpen
    <2>3. Stack[n] \in Open /\ Stack # <<>>
      BY <1>1, <2>2 DEF StackIsOpen
    <2>4. k = n
      <3>1. Stack[n] <= Stack[k]
        BY <2>1, <2>2, <2>3
      <3>2. Stack[n] \in Int /\ Stack[k] \in Int /\ n \in DOMAIN Stack /\ k \in DOMAIN Stack
        BY <1>1, <2>2, TimelineAssumption DEF Spans
      <3>3. k < n => Stack[k] < Stack[n]
        BY <3>2 DEF StackIsOpen
      <3> QED
        BY <1>1, <3>1, <3>2, <3>3
    <2> QED
      BY <1>2, <2>2, <2>3, <2>4
  <1> QED
    BY <1>3, <1>4

-----------------------------------------------------------------------------
(* Types                                                                   *)

LEMMA TypeInit == Init => TypeOK
  <1> SUFFICES ASSUME Init PROVE TypeOK
    OBVIOUS
  <1>1. Empty \in Workspaces
    BY TimelineAssumption DEF Empty, Workspaces, Contents, Initial
  <1>2. points \in Seq(Point) /\ Len(points) = 0
    BY EmptySeq DEF Init
  <1> QED
    BY <1>1, <1>2 DEF Init, TypeOK, Phases, Stages, Patches, NoPoint

LEMMA PointTypes ==
    ASSUME TypeOK
    PROVE  /\ Len(points) \in Nat /\ DOMAIN points = 1 .. Len(points)
           /\ \A i \in DOMAIN points :
                 /\ points[i] \in Point
                 /\ points[i].phase \in {"before", "after", "end"}
                 /\ points[i].span \in Spans \cup {Nobody}
                 /\ points[i].files \in Workspaces
                 /\ points[i].by \in [Files -> Spans \cup {Nobody}]
  <1>1. Len(points) \in Nat /\ DOMAIN points = 1 .. Len(points)
    BY LenProperties DEF TypeOK
  <1>2. \A i \in DOMAIN points : points[i] \in Point
    BY <1>1, ElementOfSeq DEF TypeOK
  <1> QED
    BY <1>1, <1>2 DEF Point

LEMMA CapturePoint ==
    ASSUME TypeOK, NEW kind \in {"before", "after", "end"},
           NEW x \in Spans \cup {Nobody}, NEW ok \in BOOLEAN, Capture(kind, x, ok)
    PROVE  LET p == [phase |-> kind, span |-> x, files |-> files, by |-> by]
           IN  /\ p \in Point
               /\ points' = IF ok THEN Append(points, p) ELSE points
               /\ points' \in Seq(Point)
               /\ Len(points) \in Nat /\ Len(points') >= Len(points)
  <1> DEFINE p == [phase |-> kind, span |-> x, files |-> files, by |-> by]
  <1>1. p \in Point
    BY DEF TypeOK, Point
  <1>2. points' = IF ok THEN Append(points, p) ELSE points
    BY DEF Capture
  <1>3. /\ Append(points, p) \in Seq(Point)
        /\ Len(Append(points, p)) = Len(points) + 1
        /\ Len(points) \in Nat
    BY <1>1, AppendProperties, LenProperties DEF TypeOK
  <1> QED
    BY <1>1, <1>2, <1>3 DEF TypeOK

LEMMA StepPoint ==
    ASSUME TypeOK, NEW c \in Nat, c = cursor, cursor < Len(points),
           base # NoPoint, Step
    PROVE  TypeOK'
  <1>1. base \in Nat /\ c >= 1 /\ Len(points) \in Nat
    BY LenProperties DEF TypeOK, NoPoint
  <1>2. points[c] \in Point /\ points[c + 1] \in Point
    BY <1>1, ElementOfSeq DEF TypeOK
  <1>3. Transition(sandbox, c) \in Workspaces
    BY <1>2 DEF Transition, Point, Workspaces, TypeOK
  <1> QED
    BY <1>1, <1>3 DEF Step, TypeOK, recorder, request

LEMMA RecordTypes ==
    ASSUME TypeOK, Record
    PROVE  TypeOK'
  <1>1. ASSUME NEW x \in Spans, NEW p \in Spans \cup {Nobody}, StartSpan(x, p)
        PROVE  TypeOK'
    BY <1>1 DEF StartSpan, TypeOK, Stages, request
  <1>2. ASSUME NEW x \in Spans, NEW ok \in BOOLEAN, SpanStarted(x, ok) \/ EndSpan(x, ok)
        PROVE  TypeOK'
    <2>1. /\ points' \in Seq(Point)
          /\ Len(points) \in Nat /\ Len(points') >= Len(points) /\ Len(points') \in Nat
      BY <1>2, CapturePoint, LenProperties DEF SpanStarted, EndSpan
    <2> QED
      BY <1>2, <2>1 DEF SpanStarted, EndSpan, TypeOK, Stages, request
  <1>3. ASSUME NEW x \in Spans \cup {Nobody}, NEW f \in Files, Write(x, f)
        PROVE  TypeOK'
    <2>1. (IF x = Nobody THEN Foreign ELSE Recorded(x)) \in Contents
      BY TimelineAssumption DEF Foreign, Recorded, Contents, Spans, Nobody
    <2> QED
      BY <1>3, <2>1 DEF Write, TypeOK, Workspaces, request
  <1>4. ASSUME NEW ok \in BOOLEAN, FinishRun(ok)
        PROVE  TypeOK'
    <2>1. /\ points' \in Seq(Point)
          /\ Len(points) \in Nat /\ Len(points') >= Len(points) /\ Len(points') \in Nat
      BY <1>4, CapturePoint, LenProperties DEF FinishRun
    <2> QED
      BY <1>4, <2>1 DEF FinishRun, TypeOK, Phases, request
  <1>5. CASE AbortRun
    BY <1>5 DEF AbortRun, TypeOK, Phases, recorder, request
  <1> QED
    BY <1>1, <1>2, <1>3, <1>4, <1>5 DEF Record

LEMMA NextBefore ==
    ASSUME TypeOK, NEW x \in Spans, ~Reached(x)
    PROVE  /\ base # NoPoint
           /\ cursor \in Nat /\ cursor < Len(points)
           /\ \E i \in Befores(x) : IsIndexOf(i, x) /\ cursor < i
  <1>1. PICK i \in Befores(x) : IsIndexOf(i, x) /\ ~(i <= cursor)
    BY DEF Reached
  <1>2. Len(points) \in Nat /\ i \in 1 .. Len(points)
    BY LenProperties DEF Befores, TypeOK
  <1>3. base \in Nat /\ cursor \in Nat
    BY <1>2 DEF TypeOK
  <1> QED
    BY <1>1, <1>2, <1>3 DEF Reached

LEMMA ReplayTypes ==
    ASSUME TypeOK, Replay
    PROVE  TypeOK'
  <1>1. ASSUME NEW x \in Spans, NEW D \in SUBSET Spans, NEW W \in SUBSET Spans, Fork(x, D, W)
        PROVE  TypeOK'
    <2>1. Len(points) \in Nat /\ points' = points /\ base' \in 0 .. Len(points)
      BY <1>1, LenProperties DEF Fork, TypeOK, recorder
    <2>2. OverrideArchives \subseteq Workspaces
      <3>1. [f \in Files |-> Foreign] \in Workspaces
        BY TimelineAssumption DEF Workspaces, Contents, Foreign
      <3> QED
        BY <3>1, PointTypes DEF OverrideArchives
    <2>3. Empty \in Workspaces
      BY TimelineAssumption DEF Empty, Workspaces, Contents, Initial
    <2>4. base' # NoPoint => points[base'].files \in Workspaces
      BY <2>1, PointTypes DEF NoPoint
    <2>5. origin' \in Workspaces
      BY <1>1, <2>2, <2>3, <2>4 DEF Fork
    <2>6. sandbox' \in Workspaces /\ cursor' \in base' .. Len(points')
      BY <1>1, <2>1, <2>5 DEF Fork, Restore
    <2> QED
      BY <1>1, <2>1, <2>5, <2>6 DEF Fork, TypeOK, recorder, Phases
  <1>2. ASSUME NEW x \in Spans, AdvanceTo(x)
        PROVE  TypeOK'
    BY <1>2, NextBefore, StepPoint DEF AdvanceTo
  <1>3. ASSUME NEW x \in Spans, Stand(x) \/ Block(x)
        PROVE  TypeOK'
    BY <1>3 DEF Stand, Block, TypeOK, recorder, request
  <1>4. ASSUME NEW x \in Spans, NEW f \in Files, Execute(x, f)
        PROVE  TypeOK'
    <2>1. Replayed(x) \in Contents
      BY TimelineAssumption DEF Replayed, Contents, Spans
    <2> QED
      BY <1>4, <2>1 DEF Execute, TypeOK, Workspaces, recorder, request
  <1>5. CASE AdvanceToEnd
    <2>1. cursor \in Nat
      BY LenProperties DEF TypeOK
    <2> QED
      BY <1>5, <2>1, StepPoint DEF AdvanceToEnd
  <1>6. CASE Finish
    BY <1>6 DEF Finish, TypeOK, Phases, recorder, request
  <1> QED
    BY <1>1, <1>2, <1>3, <1>4, <1>5, <1>6 DEF Replay

LEMMA TypeStep == TypeOK /\ [Next]_vars => TypeOK'
  <1>1. TypeOK /\ UNCHANGED vars => TypeOK'
    BY DEF TypeOK, vars
  <1> QED
    BY <1>1, RecordTypes, ReplayTypes DEF Next

-----------------------------------------------------------------------------
(* The order of spans and points                                           *)

InOrder == SpansInOrder /\ PointsInOrder

\* A span that has begun stays so, and one that has ended has ended.
Onward ==
    \A x \in Spans : /\ HasBegun(x) => HasBegun(x)'
                     /\ stage[x] = "ended" => stage'[x] = "ended"

\* What a capture adds leaves the points in order.
LEMMA CaptureInOrder ==
    ASSUME TypeOK, InOrder, Onward,
           NEW kind \in {"before", "after", "end"},
           NEW x \in Spans \cup {Nobody}, NEW ok \in BOOLEAN, Capture(kind, x, ok),
           by' = by,
           kind = "before" => x \in Opening /\ stage'[x] = "open",
           kind = "after" => x \in Spans /\ stage'[x] = "ended"
    PROVE  PointsInOrder'
  <1> DEFINE p == [phase |-> kind, span |-> x, files |-> files, by |-> by]
             n == Len(points)
  <1>1. /\ n \in Nat /\ DOMAIN points = 1 .. n
        /\ \A i \in 1 .. n : points[i] \in Point /\ points[i].by \in [Files -> Spans \cup {Nobody}]
    BY PointTypes
  <1>2. \A f \in Files : by[f] # Nobody => HasBegun(by[f])'
    BY DEF InOrder, PointsInOrder, Onward, HasBegun
  <1>3. CASE ~ok
    <2>1. points' = points
      BY <1>3 DEF Capture
    <2> QED
      BY <1>2, <2>1 DEF InOrder, PointsInOrder, Onward, HasBegun
  <1>4. CASE ok
    <2>1. p \in Point /\ points' = Append(points, p)
      BY <1>4, CapturePoint
    <2>2. /\ Len(points') = n + 1 /\ DOMAIN points' = 1 .. n + 1
          /\ points'[n + 1] = p /\ \A i \in 1 .. n : points'[i] = points[i]
      BY <1>1, <2>1, AppendProperties, LenProperties DEF TypeOK
    <2>3. p.phase = kind /\ p.span = x /\ p.by = by
      OBVIOUS
    <2> HIDE DEF p, n
    <2>4. kind = "before" =>
              /\ HasBegun(x)' /\ x \in Spans
              /\ \A f \in Files : by[f] < x
              /\ \A i \in 1 .. n : points[i].phase = "before" => points[i].span < x
      <3> SUFFICES ASSUME kind = "before"
                   PROVE  /\ HasBegun(x)' /\ x \in Spans
                          /\ \A f \in Files : by[f] < x
                          /\ \A i \in 1 .. n : points[i].phase = "before" => points[i].span < x
        OBVIOUS
      <3>1. x \in Opening /\ x \in Spans /\ HasBegun(x)'
        BY DEF Opening, HasBegun
      <3>2. \A y : HasBegun(y) => y < x
        BY <3>1, TimelineAssumption
           DEF InOrder, SpansInOrder, HasBegun, Started, Opening, Spans
      <3>3. \A f \in Files : by[f] = Nobody \/ HasBegun(by[f])
        BY DEF InOrder, PointsInOrder
      <3>4. Nobody < x
        BY <3>1, TimelineAssumption DEF Spans, Nobody
      <3>5. \A i \in 1 .. n : points[i].phase = "before" => HasBegun(points[i].span)
        BY <1>1 DEF InOrder, PointsInOrder
      <3> QED
        BY <3>1, <3>2, <3>3, <3>4, <3>5
    <2>5. \A i \in 1 .. n + 1 : points'[i].phase = "before" =>
              /\ HasBegun(points[i].span)'
              /\ \A f \in Files : points'[i].by[f] < points'[i].span
      <3> SUFFICES ASSUME NEW i \in 1 .. n + 1, points'[i].phase = "before"
                   PROVE  /\ HasBegun(points[i].span)'
                          /\ \A f \in Files : points'[i].by[f] < points'[i].span
        OBVIOUS
      <3>1. CASE i = n + 1
        BY <3>1, <2>2, <2>3, <2>4 DEF HasBegun
      <3>2. CASE i \in 1 .. n
        BY <3>2, <1>1, <2>2 DEF InOrder, PointsInOrder, Onward, HasBegun
      <3> QED
        BY <1>1, <3>1, <3>2
    <2>6. \A i, j \in 1 .. n + 1 :
              /\ points'[i].phase = "before" /\ points'[j].phase = "before"
              /\ i < j
              => points'[i].span < points'[j].span
      <3> SUFFICES ASSUME NEW i \in 1 .. n + 1, NEW j \in 1 .. n + 1, i < j,
                          points'[i].phase = "before", points'[j].phase = "before"
                   PROVE  points'[i].span < points'[j].span
        OBVIOUS
      <3>1. i \in 1 .. n
        BY <1>1
      <3>2. CASE j = n + 1
        BY <3>1, <3>2, <2>2, <2>3, <2>4
      <3>3. CASE j \in 1 .. n
        BY <3>1, <3>3, <1>1, <2>2 DEF InOrder, PointsInOrder
      <3> QED
        BY <1>1, <3>2, <3>3
    <2>7. \A i \in 1 .. n + 1 : points'[i].phase = "after" =>
              points'[i].span \in Spans /\ stage'[points'[i].span] = "ended"
      BY <1>1, <2>2, <2>3 DEF InOrder, PointsInOrder, Onward
    <2> QED
      BY <1>2, <2>2, <2>5, <2>6, <2>7 DEF PointsInOrder
  <1> QED
    BY <1>3, <1>4

LEMMA RecordInOrder ==
    ASSUME TypeOK, InOrder, RecordInOneThread
    PROVE  InOrder'
  <1>1. ASSUME NEW x \in Spans, NEW p \in Spans \cup {Nobody}, Innermost(p), StartSpan(x, p)
        PROVE  InOrder'
    <2>1. Started = 1 .. x - 1 /\ Opening = {} /\ stage[x] = "new"
      <3>1. Started = 1 .. x - 1 /\ Opening = {}
        BY <1>1 DEF StartSpan, Innermost
      <3>2. x \notin Started
        BY <3>1, TimelineAssumption DEF Spans
      <3> QED
        BY <3>1, <3>2 DEF Started
    <2>2. \A y \in Spans : y # x => stage'[y] = stage[y]
      BY <1>1 DEF StartSpan, TypeOK
    <2>3. stage'[x] = "opening"
      BY <1>1 DEF StartSpan, TypeOK
    <2>4. Started' = 1 .. x /\ Opening' = {x}
      <3>1. Started' = Started \cup {x}
        BY <2>2, <2>3 DEF Started
      <3>2. Opening' = {x}
        BY <2>1, <2>2, <2>3 DEF Opening
      <3> QED
        BY <2>1, <3>1, <3>2, TimelineAssumption DEF Spans
    <2>5. SpansInOrder'
      BY <1>1, <2>4, TimelineAssumption DEF SpansInOrder, StartSpan, Spans
    <2>6. \A y : HasBegun(y) => HasBegun(y)'
      BY <2>1, <2>2 DEF HasBegun
    <2>7. points' = points /\ by' = by
      BY <1>1 DEF StartSpan
    <2>8. \A y \in Spans : stage[y] = "ended" => stage'[y] = "ended"
      BY <2>1, <2>2
    <2> QED
      BY <2>5, <2>6, <2>7, <2>8 DEF InOrder, PointsInOrder
  <1>2. ASSUME NEW x \in Spans, NEW ok \in BOOLEAN, SpanStarted(x, ok)
        PROVE  InOrder'
    <2>1. /\ stage[x] = "opening" /\ stage' = [stage EXCEPT ![x] = "open"]
          /\ phase = "record" /\ phase' = phase /\ by' = by
          /\ Capture("before", x, ok)
      BY <1>2 DEF SpanStarted
    <2>2. Started' = Started /\ Opening' = Opening \ {x}
      BY <2>1 DEF Started, Opening, TypeOK
    <2>3. SpansInOrder'
      BY <2>1, <2>2 DEF InOrder, SpansInOrder
    <2>4. Onward /\ x \in Opening /\ stage'[x] = "open"
      BY <2>1 DEF Onward, HasBegun, Opening, TypeOK
    <2>5. PointsInOrder'
      BY <2>1, <2>4, CaptureInOrder
    <2> QED
      BY <2>3, <2>5 DEF InOrder
  <1>3. ASSUME NEW x \in Spans, Innermost(x), EndSpan(x, TRUE)
        PROVE  InOrder'
    <2>1. /\ stage[x] = "open" /\ stage' = [stage EXCEPT ![x] = "ended"]
          /\ phase = "record" /\ phase' = phase /\ by' = by
          /\ Capture("after", x, TRUE)
      BY <1>3 DEF EndSpan, Open
    <2>2. Started' = Started /\ Opening' = Opening
      BY <2>1 DEF Started, Opening, TypeOK
    <2>3. SpansInOrder'
      BY <2>1, <2>2 DEF InOrder, SpansInOrder
    <2>4. Onward /\ stage'[x] = "ended"
      BY <2>1 DEF Onward, HasBegun, TypeOK
    <2>5. PointsInOrder'
      BY <2>1, <2>4, CaptureInOrder
    <2> QED
      BY <2>3, <2>5 DEF InOrder
  <1>4. ASSUME NEW x \in Spans \cup {Nobody}, NEW f \in Files, Innermost(x), Write(x, f)
        PROVE  InOrder'
    <2>1. /\ by' = [by EXCEPT ![f] = x]
          /\ x = Nobody \/ HasBegun(x)
          /\ UNCHANGED <<phase, stage, points>>
      BY <1>4 DEF Write, HasBegun, Open
    <2>2. SpansInOrder'
      BY <2>1 DEF InOrder, SpansInOrder, Started, Opening
    <2>3. \A y : HasBegun(y)' <=> HasBegun(y)
      BY <2>1 DEF HasBegun
    <2>4. \A g \in Files : by'[g] # Nobody => HasBegun(by[g])'
      BY <2>1, <2>3 DEF InOrder, PointsInOrder, TypeOK, HasBegun
    <2> QED
      BY <2>1, <2>2, <2>3, <2>4 DEF InOrder, PointsInOrder
  <1>5. ASSUME NEW ok \in BOOLEAN, FinishRun(ok)
        PROVE  InOrder'
    <2>1. /\ \A x \in Started : stage[x] = "ended"
          /\ by' = by /\ stage' = stage
          /\ Capture("end", Nobody, ok)
      BY <1>5 DEF FinishRun
    <2>2. Opening = {}
      BY <2>1 DEF Opening, Started
    <2>3. SpansInOrder'
      BY <2>1, <2>2 DEF InOrder, SpansInOrder, Started, Opening
    <2>4. Onward
      BY <2>1 DEF Onward, HasBegun
    <2>5. PointsInOrder'
      BY <2>1, <2>4, CaptureInOrder
    <2> QED
      BY <2>3, <2>5 DEF InOrder
  <1>6. ASSUME Opening = {}, AbortRun
        PROVE  InOrder'
    BY <1>6 DEF AbortRun, recorder, InOrder, SpansInOrder, PointsInOrder, HasBegun,
                Started, Opening
  <1> QED
    BY <1>1, <1>2, <1>3, <1>4, <1>5, <1>6 DEF RecordInOneThread

\* Once the run is recorded nothing of it changes.
LEMMA ReplayKeepsRecorder ==
    ASSUME Replay
    PROVE  UNCHANGED recorder /\ phase # "record" /\ phase' # "record"
  <1>1. ASSUME NEW x \in Spans, NEW D, NEW W, Fork(x, D, W)
        PROVE  UNCHANGED recorder /\ phase = "recorded" /\ phase' = "replay"
    BY <1>1 DEF Fork
  <1>2. ASSUME NEW x \in Spans,
               \/ AdvanceTo(x) \/ Stand(x) \/ Block(x)
               \/ \E f \in Files : Execute(x, f)
        PROVE  UNCHANGED recorder /\ phase = "replay" /\ phase' = "replay"
    BY <1>2 DEF AdvanceTo, Step, Stand, Block, Execute, Ready
  <1>3. ASSUME AdvanceToEnd \/ Finish
        PROVE  UNCHANGED recorder /\ phase = "replay" /\ phase' # "record"
    BY <1>3 DEF AdvanceToEnd, Step, Finish
  <1> QED
    BY <1>1, <1>2, <1>3 DEF Replay

LEMMA InOrderSame ==
    ASSUME InOrder, UNCHANGED recorder, phase # "record" \/ phase' = phase
    PROVE  InOrder'
  BY DEF recorder, InOrder, SpansInOrder, PointsInOrder, HasBegun, Started, Opening

-----------------------------------------------------------------------------
(* Owners and writers                                                      *)

LEMMA CompleteIs ==
    Complete <=> \A x \in Spans : /\ HasBegun(x) => Captured("before", x)
                                  /\ stage[x] = "ended" => Captured("after", x)
  BY DEF Complete, Missing, HasBegun

LEMMA CapturedNext ==
    ASSUME TypeOK, NEW kind \in {"before", "after", "end"},
           NEW x \in Spans \cup {Nobody}, NEW ok \in BOOLEAN, Capture(kind, x, ok),
           NEW k, NEW y, k # kind \/ y # x \/ ~ok
    PROVE  Captured(k, y)' => Captured(k, y)
  <1> DEFINE p == [phase |-> kind, span |-> x, files |-> files, by |-> by]
  <1>1. CASE ~ok
    BY <1>1 DEF Capture, Captured
  <1>2. CASE ok
    <2>1. p \in Point /\ points' = Append(points, p)
      BY <1>2, CapturePoint
    <2>2. /\ DOMAIN points = 1 .. Len(points) /\ Len(points) \in Nat
          /\ DOMAIN points' = 1 .. Len(points) + 1
          /\ points'[Len(points) + 1] = p
          /\ \A i \in 1 .. Len(points) : points'[i] = points[i]
      BY <2>1, AppendProperties, LenProperties DEF TypeOK
    <2>3. p.phase = kind /\ p.span = x
      OBVIOUS
    <2> HIDE DEF p
    <2> SUFFICES ASSUME NEW i \in DOMAIN points', points'[i].phase = k, points'[i].span = y
                 PROVE  \E j \in DOMAIN points : points[j].phase = k /\ points[j].span = y
      BY DEF Captured
    <2> QED
      BY <1>2, <2>2, <2>3
  <1> QED
    BY <1>1, <1>2

\* A capture that failed stays missing.
LEMMA CompleteBefore ==
    ASSUME TypeOK, InOrder, RecordInOneThread, Complete'
    PROVE  /\ Complete
           /\ \A x \in Spans, ok \in BOOLEAN : SpanStarted(x, ok) => ok
  <1>1. (Complete <=> \A x \in Spans : /\ HasBegun(x) => Captured("before", x)
                                       /\ stage[x] = "ended" => Captured("after", x))'
    BY CompleteIs, PTL
  <1>2. ASSUME NEW x \in Spans, NEW ok \in BOOLEAN, SpanStarted(x, ok)
        PROVE  Complete /\ ok
    <2>1. /\ Capture("before", x, ok)
          /\ stage[x] = "opening" /\ stage' = [stage EXCEPT ![x] = "open"]
      BY <1>2 DEF SpanStarted
    <2>2. \A y \in Spans \ {x} : stage'[y] = stage[y]
      BY <2>1 DEF TypeOK
    <2>3. \A y \in Spans \ {x} : Captured("before", y)' => Captured("before", y)
      BY <2>1, CapturedNext
    <2>4. \A y \in Spans : Captured("after", y)' => Captured("after", y)
      BY <2>1, CapturedNext
    <2>5. Complete
      BY <1>1, <2>1, <2>2, <2>3, <2>4, CompleteIs DEF HasBegun
    <2>6. ~Captured("before", x)
      BY <2>1, PointTypes DEF Captured, InOrder, PointsInOrder, HasBegun
    <2>7. HasBegun(x)'
      BY <2>1 DEF HasBegun, TypeOK
    <2>8. ~ok => ~Captured("before", x)'
      BY <2>1, <2>6, CapturedNext
    <2> QED
      BY <1>1, <2>5, <2>7, <2>8
  <1>3. ASSUME NEW x \in Spans, EndSpan(x, TRUE)
        PROVE  Complete
    <2>1. /\ Capture("after", x, TRUE)
          /\ stage[x] = "open" /\ stage' = [stage EXCEPT ![x] = "ended"]
      BY <1>3 DEF EndSpan, Open
    <2>2. \A y \in Spans \ {x} : stage'[y] = stage[y]
      BY <2>1 DEF TypeOK
    <2>3. \A y \in Spans : Captured("before", y)' => Captured("before", y)
      BY <2>1, CapturedNext
    <2>4. \A y \in Spans \ {x} : Captured("after", y)' => Captured("after", y)
      BY <2>1, CapturedNext
    <2>5. HasBegun(x)'
      BY <2>1 DEF HasBegun, TypeOK
    <2> QED
      BY <1>1, <2>1, <2>2, <2>3, <2>4, <2>5, CompleteIs DEF HasBegun
  <1>4. ASSUME NEW ok \in BOOLEAN, FinishRun(ok)
        PROVE  Complete
    <2>1. Capture("end", Nobody, ok) /\ stage' = stage
      BY <1>4 DEF FinishRun
    <2>2. \A y \in Spans : /\ Captured("before", y)' => Captured("before", y)
                           /\ Captured("after", y)' => Captured("after", y)
      BY <2>1, CapturedNext
    <2> QED
      BY <1>1, <2>1, <2>2, CompleteIs DEF HasBegun
  <1>5. ASSUME NEW x \in Spans, NEW p \in Spans \cup {Nobody}, Innermost(p), StartSpan(x, p)
        PROVE  Complete
    <2>1. points' = points
      BY <1>5 DEF StartSpan
    <2>2. stage' = [stage EXCEPT ![x] = "opening"] /\ stage[x] = "new"
      <3>1. x \notin Started
        BY <1>5, TimelineAssumption DEF StartSpan, Spans
      <3> QED
        BY <1>5, <3>1 DEF StartSpan, Started
    <2>3. \A y \in Spans : /\ HasBegun(y) => HasBegun(y)'
                           /\ stage[y] = "ended" => stage'[y] = "ended"
      BY <2>2 DEF HasBegun, TypeOK
    <2>4. \A k, y : Captured(k, y)' <=> Captured(k, y)
      BY <2>1 DEF Captured
    <2> QED
      BY <1>1, <2>3, <2>4, CompleteIs
  <1>6. ASSUME UNCHANGED <<points, stage>>
        PROVE  Complete
    BY <1>6 DEF Complete, Missing, Captured
  <1> QED
    BY <1>2, <1>3, <1>4, <1>5, <1>6 DEF RecordInOneThread, Write, AbortRun, recorder,
       StartSpan, SpanStarted, EndSpan, FinishRun

\* A capture closes a transition; its owner wrote what has changed.
LEMMA CaptureOwners ==
    ASSUME TypeOK, OwnersWrite, LiveChanges, files' = files,
           NEW kind \in {"before", "after", "end"},
           NEW x \in Spans \cup {Nobody}, Capture(kind, x, TRUE)
    PROVE  OwnersWrite' /\ LiveChanges'
  <1> DEFINE p == [phase |-> kind, span |-> x, files |-> files, by |-> by]
             n == Len(points)
  <1>1. p \in Point /\ points' = Append(points, p) /\ p.files = files /\ p.by = by
    BY CapturePoint
  <1>2. /\ n \in Nat /\ Len(points') = n + 1 /\ points'[n + 1] = p
        /\ \A i \in 1 .. n : points'[i] = points[i]
    BY <1>1, AppendProperties, LenProperties DEF TypeOK
  <1>3. \A i \in 0 .. n : Owner(i)' = Owner(i)
    BY <1>1, OpenAfterGrows DEF TypeOK
  <1> HIDE DEF p, n
  <1>4. LiveChanges'
    BY <1>1, <1>2 DEF LiveChanges
  <1>5. ASSUME NEW i \in 1 .. n, NEW f \in Files,
               points'[i].files[f] # points'[i + 1].files[f]
        PROVE  points'[i + 1].by[f] = Owner(i)'
    <2>1. CASE i = n
      <3>1. points # <<>>
        BY <1>2, <2>1 DEF n
      <3>2. files[f] # points[n].files[f]
        BY <1>1, <1>2, <1>5, <2>1
      <3>3. by[f] = Owner(n)
        BY <3>1, <3>2 DEF LiveChanges, n
      <3> QED
        BY <1>1, <1>2, <1>3, <2>1, <3>3
    <2>2. CASE i \in 1 .. n - 1
      <3>1. points'[i] = points[i] /\ points'[i + 1] = points[i + 1] /\ Owner(i)' = Owner(i)
        BY <1>2, <1>3, <2>2
      <3> QED
        BY <1>5, <2>2, <3>1 DEF OwnersWrite, Writer, n
    <2> QED
      BY <1>2, <2>1, <2>2
  <1>6. OwnersWrite'
    BY <1>2, <1>5 DEF OwnersWrite, Writer
  <1> QED
    BY <1>4, <1>6

LEMMA StackNext ==
    ASSUME TypeOK, NEW kind \in {"before", "after", "end"},
           NEW x \in Spans \cup {Nobody}, Capture(kind, x, TRUE)
    PROVE  \E p \in Point : p.phase = kind /\ p.span = x /\ Stack' = After(Stack, p)
  <1> DEFINE p == [phase |-> kind, span |-> x, files |-> files, by |-> by]
  <1>1. p \in Point /\ points' = Append(points, p) /\ p.phase = kind /\ p.span = x
    BY CapturePoint
  <1>2. Len(points') = Len(points) + 1
    BY <1>1, AppendProperties DEF TypeOK
  <1> HIDE DEF p
  <1>3. Stack' = After(Stack, p)
    BY <1>1, <1>2, OpenAfterGrows DEF Stack, TypeOK
  <1> QED
    BY <1>1, <1>3

LEMMA RecordTimeline ==
    ASSUME TypeOK, InOrder, Complete => Timeline, RecordInOneThread, Complete'
    PROVE  Timeline'
  <1>1. Timeline
    BY CompleteBefore
  <1>2. ASSUME NEW x \in Spans, NEW p \in Spans \cup {Nobody}, Innermost(p), StartSpan(x, p)
        PROVE  Timeline'
    <2>1. UNCHANGED <<phase, points, files, by>>
      BY <1>2 DEF StartSpan
    <2>2. stage' = [stage EXCEPT ![x] = "opening"] /\ stage[x] = "new"
      <3>1. x \notin Started
        BY <1>2, TimelineAssumption DEF StartSpan, Spans
      <3> QED
        BY <1>2, <3>1 DEF StartSpan, Started
    <2>3. Open' = Open
      BY <2>2 DEF Open, TypeOK
    <2> QED
      BY <1>1, <2>1, <2>3, OpenAfterSame
         DEF Timeline, StackIsOpen, LiveChanges, OwnersWrite, Writer, Stack
  <1>3. ASSUME NEW x \in Spans, NEW ok \in BOOLEAN, SpanStarted(x, ok)
        PROVE  Timeline'
    <2>1. /\ Capture("before", x, TRUE) /\ phase = "record" /\ files' = files
          /\ stage[x] = "opening" /\ stage' = [stage EXCEPT ![x] = "open"]
      BY <1>3, CompleteBefore DEF SpanStarted
    <2>2. OwnersWrite' /\ LiveChanges'
      BY <1>1, <2>1, CaptureOwners DEF Timeline
    <2>3. /\ Stack \in Seq(Spans) /\ Increasing(Stack) /\ Elements(Stack) = Open
      BY <1>1, <2>1 DEF Timeline, StackIsOpen, Increasing, Elements
    <2>4. \A y \in Open : y < x
      BY <2>1, TimelineAssumption
         DEF InOrder, SpansInOrder, Opening, Started, Open, Spans
    <2>5. PICK p \in Point : p.phase = "before" /\ p.span = x /\ Stack' = After(Stack, p)
      <3>1. "before" \in {"before", "after", "end"} /\ x \in Spans \cup {Nobody}
        OBVIOUS
      <3>2. Capture("before", x, TRUE)
        BY <2>1
      <3> QED
        BY <3>1, <3>2, StackNext
    <2>6. /\ Stack' \in Seq(Spans) /\ Increasing(Stack')
          /\ Elements(Stack') = Open \cup {x}
      BY <2>3, <2>4, <2>5, AfterBefore
    <2>7. Open' = Open \cup {x}
      BY <2>1 DEF Open, TypeOK
    <2>8. StackIsOpen'
      BY <2>6, <2>7 DEF StackIsOpen, Increasing, Elements
    <2> QED
      BY <2>2, <2>8 DEF Timeline
  <1>4. ASSUME NEW x \in Spans, Innermost(x), EndSpan(x, TRUE)
        PROVE  Timeline'
    <2>1. /\ Capture("after", x, TRUE) /\ phase = "record" /\ files' = files
          /\ x \in Open /\ stage' = [stage EXCEPT ![x] = "ended"]
      BY <1>4 DEF EndSpan
    <2>2. OwnersWrite' /\ LiveChanges'
      BY <1>1, <2>1, CaptureOwners DEF Timeline
    <2>3. /\ Stack \in Seq(Spans) /\ Increasing(Stack) /\ Elements(Stack) = Open
      BY <1>1, <2>1 DEF Timeline, StackIsOpen, Increasing, Elements
    <2>4. \A y \in Open : y <= x
      BY <1>4, <2>1, TimelineAssumption DEF Innermost, Spans, Nobody
    <2>5. PICK p \in Point : p.phase = "after" /\ p.span = x /\ Stack' = After(Stack, p)
      BY <2>1, StackNext, ZenonT(40)
    <2>6. /\ Stack' \in Seq(Spans) /\ Increasing(Stack')
          /\ Elements(Stack') = Open \ {x}
      BY <2>1, <2>3, <2>4, <2>5, AfterAfter
    <2>7. Open' = Open \ {x}
      BY <2>1 DEF Open, TypeOK
    <2>8. StackIsOpen'
      BY <2>6, <2>7 DEF StackIsOpen, Increasing, Elements
    <2> QED
      BY <2>2, <2>8 DEF Timeline
  <1>5. ASSUME NEW x \in Spans \cup {Nobody}, NEW f \in Files, Innermost(x), Write(x, f)
        PROVE  Timeline'
    <2>1. /\ UNCHANGED <<phase, points, stage>> /\ phase = "record"
          /\ by' = [by EXCEPT ![f] = x]
          /\ \A g \in Files \ {f} : files'[g] = files[g]
      BY <1>5 DEF Write, TypeOK, Workspaces
    <2>2. StackIsOpen /\ LiveChanges /\ OwnersWrite
      BY <1>1, <2>1 DEF Timeline
    <2>3. Owner(Len(points)) = x
      BY <1>5, <2>2, OwnerIsInnermost
    <2>4. OpenAfter' = OpenAfter /\ \A i : Owner(i)' = Owner(i)
      BY <2>1, OpenAfterSame
    <2>5. StackIsOpen' /\ OwnersWrite'
      BY <2>1, <2>2, <2>4 DEF StackIsOpen, OwnersWrite, Writer, Stack, Open
    <2>6. LiveChanges'
      <3> SUFFICES ASSUME points # <<>>, NEW g \in Files,
                          files'[g] # points[Len(points)].files[g]
                   PROVE  by'[g] = Owner(Len(points))
        BY <2>1, <2>4 DEF LiveChanges
      <3>1. CASE g = f
        BY <2>1, <2>3, <3>1 DEF TypeOK
      <3>2. CASE g # f
        BY <2>1, <2>2, <3>2 DEF TypeOK, LiveChanges
      <3> QED
        BY <3>1, <3>2
    <2> QED
      BY <2>5, <2>6 DEF Timeline
  <1>6. ASSUME NEW ok \in BOOLEAN, FinishRun(ok)
        PROVE  Timeline'
    <2>1. /\ Capture("end", Nobody, ok) /\ phase = "record" /\ phase' = "recorded"
          /\ files' = files
      BY <1>6 DEF FinishRun
    <2>2. CASE ok
      <3>1. Capture("end", Nobody, TRUE) /\ Nobody \in Spans \cup {Nobody}
        BY <2>1, <2>2
      <3> QED
        BY <1>1, <2>1, <3>1, CaptureOwners DEF Timeline
    <2>3. CASE ~ok
      <3>1. points' = points
        BY <2>1, <2>3 DEF Capture
      <3> QED
        BY <1>1, <2>1, <3>1, OpenAfterSame DEF Timeline, OwnersWrite, Writer
    <2> QED
      BY <2>2, <2>3
  <1>7. ASSUME AbortRun
        PROVE  Timeline'
    BY <1>1, <1>7, OpenAfterSame DEF AbortRun, recorder, Timeline, OwnersWrite, Writer
  <1> QED
    BY <1>2, <1>3, <1>4, <1>5, <1>6, <1>7 DEF RecordInOneThread

LEMMA TimelineSame ==
    ASSUME Timeline, UNCHANGED recorder, phase # "record" \/ phase' = phase,
           phase' = "record" => phase = "record"
    PROVE  Timeline'
  BY OpenAfterSame
     DEF recorder, Timeline, StackIsOpen, LiveChanges, OwnersWrite, Writer, Stack, Open

LEMMA CompleteSame == UNCHANGED recorder => (Complete' <=> Complete)
  BY DEF recorder, Complete, Missing, Captured

-----------------------------------------------------------------------------
(* The walk                                                                *)

LEMMA RecordBeforeFork ==
    ASSUME RecordInOneThread
    PROVE  /\ phase = "record" /\ phase' \in {"record", "recorded"}
           /\ UNCHANGED <<request, todo, cursor, sandbox, skip, live>>
  BY DEF RecordInOneThread, StartSpan, SpanStarted, EndSpan, Write, FinishRun, AbortRun

\* Before the walk has begun there is nothing to keep.
LEMMA NothingChanged ==
    ASSUME base = cursor, base \in Nat, sandbox = origin
    PROVE  KeptChanges
  <1>1. \A f \in Files : Changes(f) = {}
    BY DEF Changes
  <1> QED
    BY <1>1 DEF KeptChanges

\* A step of the walk leaves every file as recorded at the next point, unless
\* a re-executed span has changed it: then it leaves the file alone.
LEMMA StepFiles ==
    ASSUME TypeOK, OwnersWrite, base # NoPoint, cursor \in Nat, cursor < Len(points), Step,
           NEW f \in Files
    PROVE  /\ points[cursor].files[f] = points[cursor + 1].files[f] => sandbox'[f] = sandbox[f]
           /\ points[cursor].files[f] # points[cursor + 1].files[f] =>
                 sandbox'[f] = IF Writer(cursor, f) \in skip
                               THEN sandbox[f] ELSE points[cursor + 1].files[f]
  <1>1. Len(points) \in Nat /\ base \in Nat /\ cursor \in 1 .. Len(points) - 1
    BY LenProperties DEF TypeOK, NoPoint
  <1>2. sandbox' = IF Owner(cursor) \notin skip THEN Transition(sandbox, cursor) ELSE sandbox
    BY DEF Step, Applies
  <1>3. Transition(sandbox, cursor)[f] =
           IF points[cursor].files[f] # points[cursor + 1].files[f]
           THEN points[cursor + 1].files[f] ELSE sandbox[f]
    BY DEF Transition
  <1>4. points[cursor].files[f] # points[cursor + 1].files[f] =>
           Writer(cursor, f) = Owner(cursor)
    BY <1>1 DEF OwnersWrite
  <1> QED
    BY <1>2, <1>3, <1>4

LEMMA StepKeeps ==
    ASSUME TypeOK, OwnersWrite, base # NoPoint, cursor \in Nat, cursor < Len(points), Step,
           KeptChanges, Complete
    PROVE  KeptChanges'
  <1>1. /\ Len(points) \in Nat /\ base \in Nat /\ base <= cursor
        /\ cursor \in 1 .. Len(points) - 1
    BY LenProperties DEF TypeOK, NoPoint
  <1>2. /\ cursor' = cursor + 1
        /\ UNCHANGED <<points, base, origin, skip, live>>
    BY DEF Step, recorder, request
  <1> SUFFICES ASSUME NEW f \in Files \ live,
                      \A i \in Changes(f)' : Writer(i, f) \notin skip
               PROVE  sandbox'[f] = IF Changes(f)' = {} THEN origin[f]
                                    ELSE points[cursor + 1].files[f]
    BY <1>2 DEF KeptChanges, Writer
  <1>3. Changes(f)' = IF points[cursor].files[f] # points[cursor + 1].files[f]
                      THEN Changes(f) \cup {cursor} ELSE Changes(f)
    BY <1>1, <1>2 DEF Changes, NoPoint
  <1>4. sandbox[f] = IF Changes(f) = {} THEN origin[f] ELSE points[cursor].files[f]
    <2>1. Changes(f) \subseteq Changes(f)'
      BY <1>3
    <2> QED
      BY <2>1 DEF KeptChanges
  <1>5. CASE points[cursor].files[f] = points[cursor + 1].files[f]
    BY <1>3, <1>4, <1>5, StepFiles
  <1>6. CASE points[cursor].files[f] # points[cursor + 1].files[f]
    <2>1. Writer(cursor, f) \notin skip /\ Changes(f)' # {}
      BY <1>3, <1>6
    <2> QED
      BY <1>6, <2>1, StepFiles
  <1> QED
    BY <1>5, <1>6

\* A change of the sandbox that is nobody's recorded change.
LEMMA OthersKeep ==
    ASSUME KeptChanges,
           UNCHANGED <<recorder, base, origin, cursor>>,
           skip \subseteq skip', live \subseteq live',
           \A f \in Files \ live' : sandbox'[f] = sandbox[f]
    PROVE  KeptChanges'
  BY CompleteSame DEF recorder, KeptChanges, Changes, Writer

\* The points before two spans are in the order of the spans.
LEMMA IndexInOrder ==
    ASSUME TypeOK, InOrder, NEW x \in Spans, NEW y \in Spans, x <= y,
           NEW i, IsIndexOf(i, x), NEW j, IsIndexOf(j, y)
    PROVE  i <= j
  <1>1. /\ i \in DOMAIN points /\ points[i].phase = "before" /\ points[i].span = x
        /\ j \in DOMAIN points /\ points[j].phase = "before" /\ points[j].span = y
        /\ i \in Int /\ j \in Int
    BY PointTypes DEF IsIndexOf, Befores
  <1>2. j < i => y < x
    BY <1>1 DEF InOrder, PointsInOrder
  <1> QED
    BY <1>1, <1>2, TimelineAssumption DEF Spans

\* With every capture there is a point before each span that has begun.
LEMMA IndexExists ==
    ASSUME TypeOK, Complete, NEW x \in Spans, HasBegun(x)
    PROVE  \E i \in Befores(x) : IsIndexOf(i, x)
  <1>1. Befores(x) # {}
    BY CompleteIs DEF Captured, Befores
  <1>2. Befores(x) \in SUBSET Nat
    BY PointTypes DEF Befores
  <1> QED
    BY <1>1, <1>2, LeastElement DEF IsIndexOf

LEMMA ForkInv ==
    ASSUME Inv, NEW x \in Spans, NEW D \in SUBSET Spans, NEW W \in SUBSET Spans, Fork(x, D, W)
    PROVE  BeforeFork' /\ KeptChanges' /\ (Complete => Walk')
  <1>1. /\ phase = "recorded" /\ phase' = "replay" /\ D \subseteq Started
        /\ W \subseteq D /\ todo' = W
        /\ sandbox' = origin' /\ cursor' = base' /\ UNCHANGED recorder
    BY DEF Fork, Restore
  <1>2. base' \in Nat
    BY PointTypes DEF Inv, Fork
  <1>3. KeptChanges'
    <2>1. (base = cursor /\ base \in Nat /\ sandbox = origin => KeptChanges)'
      BY NothingChanged, PTL
    <2> QED
      BY <1>1, <1>2, <2>1
  <1>4. ASSUME Complete PROVE Walk'
    <2>1. PICK first \in D : (\A y \in D : first <= y) /\ IsBasePoint(base', first)
      BY DEF Fork
    <2>2. \A y \in D : y \in Spans /\ HasBegun(y)
      BY <1>1 DEF Inv, SpansInOrder, Started, Opening, HasBegun, TypeOK, Stages
    <2>3. PICK i \in Befores(first) : IsIndexOf(i, first)
      BY <1>4, <2>2, IndexExists DEF Inv
    <2>4. IsIndexOf(base', first)
      <3>1. first \in 1 .. first
        BY <2>2, TimelineAssumption DEF Spans
      <3>2. Befores(first) # {} /\ Befores(first) \subseteq UNION {Befores(y) : y \in 1 .. first}
        BY <2>3, <3>1
      <3> QED
        BY <2>1, <3>2 DEF IsBasePoint
    <2>5. base' # NoPoint
      BY <2>4, PointTypes DEF IsIndexOf, Befores, NoPoint, Inv
    <2>6. \A y : \A j : IsIndexOf(j, y)' <=> IsIndexOf(j, y)
      BY <1>1 DEF IsIndexOf, Befores, recorder
    <2>7. \A y \in W : \A j : IsIndexOf(j, y) => base' <= j
      BY <1>1, <2>1, <2>2, <2>4, IndexInOrder DEF Inv, InOrder
    <2>8. Started' = Started
      BY <1>1 DEF recorder, Started
    <2> QED
      BY <1>1, <2>5, <2>6, <2>7, <2>8 DEF Walk
  <1>5. BeforeFork'
    BY <1>1 DEF BeforeFork
  <1> QED
    BY <1>3, <1>4, <1>5

\* Where a span is visited the walk is at the point right before it.
LEMMA ReadyAtIndex ==
    ASSUME Inv, Complete, NEW x \in Spans, Ready(x)
    PROVE  IsIndexOf(cursor, x)
  <1>1. phase = "replay" /\ x \in todo /\ Reached(x) /\ Walk
    BY DEF Ready, IsNext, Inv
  <1>2. HasBegun(x)
    BY <1>1 DEF Walk, Inv, SpansInOrder, Started, Opening, HasBegun, TypeOK, Stages
  <1>3. PICK i \in Befores(x) : IsIndexOf(i, x)
    BY <1>2, IndexExists DEF Inv
  <1>4. cursor <= i /\ i <= cursor
    BY <1>1, <1>3 DEF Walk, Reached
  <1>5. i \in Nat /\ cursor \in Nat
    BY PointTypes DEF Befores, Inv, TypeOK
  <1> QED
    BY <1>3, <1>4, <1>5

LEMMA AdvanceInv ==
    ASSUME Inv, phase = "replay", base # NoPoint, cursor \in Nat, cursor < Len(points), Step,
           \A y \in todo : \A i \in Befores(y) : IsIndexOf(i, y) => cursor + 1 <= i
    PROVE  BeforeFork' /\ KeptChanges' /\ (Complete => Walk')
  <1>1. /\ cursor' = cursor + 1
        /\ UNCHANGED <<phase, recorder, base, origin, skip, live, todo>>
    BY DEF Step, request
  <1>2. Complete => KeptChanges'
    BY StepKeeps DEF Inv, Timeline
  <1>3. ~Complete => KeptChanges'
    BY <1>1, CompleteSame DEF KeptChanges
  <1>4. Complete => Walk'
    BY <1>1 DEF Inv, Walk, recorder, Started, IsIndexOf, Befores
  <1> QED
    BY <1>1, <1>2, <1>3, <1>4 DEF Inv, BeforeFork

\* A visit, or the end: the walk stands still and fewer spans are to do.
LEMMA VisitInv ==
    ASSUME Inv, phase = "replay", UNCHANGED <<recorder, base, origin, cursor>>,
           todo' \subseteq todo, phase' \in {"replay", "done"},
           skip \subseteq skip', live \subseteq live',
           \A f \in Files \ live' : sandbox'[f] = sandbox[f]
    PROVE  BeforeFork' /\ KeptChanges' /\ (Complete => Walk')
  <1>1. KeptChanges'
    BY OthersKeep DEF Inv
  <1>2. Complete => Walk'
    BY DEF Inv, Walk, recorder, Started, IsIndexOf, Befores
  <1> QED
    BY <1>1, <1>2 DEF Inv, BeforeFork

LEMMA ReplayInv ==
    ASSUME Inv, Replay
    PROVE  Inv'
  <1>1. UNCHANGED recorder /\ phase # "record" /\ phase' # "record"
    BY ReplayKeepsRecorder
  <1>2. TypeOK' /\ InOrder' /\ (Complete' <=> Complete)
    BY <1>1, ReplayTypes, InOrderSame, CompleteSame DEF Inv, InOrder
  <1>3. Complete => Timeline'
    BY <1>1, TimelineSame DEF Inv
  <1>4. BeforeFork' /\ KeptChanges' /\ (Complete => Walk')
    <2>1. ASSUME NEW x \in Spans, NEW D \in SUBSET Spans, NEW W \in SUBSET Spans, Fork(x, D, W)
          PROVE  BeforeFork' /\ KeptChanges' /\ (Complete => Walk')
      BY <2>1, ForkInv
    <2>2. ASSUME NEW x \in Spans, AdvanceTo(x)
          PROVE  BeforeFork' /\ KeptChanges' /\ (Complete => Walk')
      <3>1. /\ phase = "replay" /\ IsNext(x) /\ ~Reached(x) /\ Step /\ TypeOK /\ InOrder
        BY <2>2 DEF AdvanceTo, Inv, InOrder
      <3>2. /\ base # NoPoint /\ cursor \in Nat /\ cursor < Len(points)
            /\ \E i \in Befores(x) : IsIndexOf(i, x) /\ cursor < i
        BY <3>1, NextBefore
      <3>3. \A y \in todo : \A i \in Befores(y) : IsIndexOf(i, y) => cursor + 1 <= i
        <4> SUFFICES ASSUME NEW y \in todo, NEW i \in Befores(y), IsIndexOf(i, y)
                     PROVE  cursor + 1 <= i
          OBVIOUS
        <4>1. PICK j \in Befores(x) : IsIndexOf(j, x) /\ cursor < j
          BY <3>2
        <4>2. x <= y /\ y \in Spans
          BY <3>1 DEF IsNext, TypeOK
        <4>3. j <= i
          BY <3>1, <4>1, <4>2, IndexInOrder
        <4>4. i \in Nat /\ j \in Nat
          BY <3>1, PointTypes DEF Befores
        <4> QED
          BY <3>2, <4>1, <4>3, <4>4
      <3> QED
        BY <3>1, <3>2, <3>3, AdvanceInv
    <2>3. ASSUME NEW x \in Spans, Stand(x)
          PROVE  BeforeFork' /\ KeptChanges' /\ (Complete => Walk')
      BY <2>3, VisitInv DEF Stand, Ready, request
    <2>4. ASSUME NEW x \in Spans, Block(x)
          PROVE  BeforeFork' /\ KeptChanges' /\ (Complete => Walk')
      BY <2>4, VisitInv DEF Block, Ready, request
    <2>5. ASSUME NEW x \in Spans, NEW f \in Files, Execute(x, f)
          PROVE  BeforeFork' /\ KeptChanges' /\ (Complete => Walk')
      <3>1. \A g \in Files \ live' : sandbox'[g] = sandbox[g]
        BY <2>5 DEF Execute, Inv, TypeOK, Workspaces
      <3> QED
        BY <2>5, <3>1, VisitInv DEF Execute, Ready, request
    <2>6. ASSUME AdvanceToEnd
          PROVE  BeforeFork' /\ KeptChanges' /\ (Complete => Walk')
      <3>1. cursor \in Nat
        BY PointTypes DEF Inv, TypeOK
      <3> QED
        BY <2>6, <3>1, AdvanceInv DEF AdvanceToEnd
    <2>7. ASSUME Finish
          PROVE  BeforeFork' /\ KeptChanges' /\ (Complete => Walk')
      BY <2>7, VisitInv DEF Finish, request
    <2> QED
      BY <2>1, <2>2, <2>3, <2>4, <2>5, <2>6, <2>7 DEF Replay
  <1> QED
    BY <1>2, <1>3, <1>4 DEF Inv, InOrder

LEMMA RecordInv ==
    ASSUME Inv, RecordInOneThread
    PROVE  Inv'
  <1>1. /\ phase = "record" /\ phase' \in {"record", "recorded"}
        /\ UNCHANGED <<request, todo, cursor, sandbox, skip, live>>
    BY RecordBeforeFork
  <1>2. Record
    BY DEF RecordInOneThread, Record
  <1>3. TypeOK' /\ InOrder'
    BY <1>2, RecordTypes, RecordInOrder DEF Inv, InOrder
  <1>4. Complete' => Timeline'
    BY RecordTimeline DEF Inv, InOrder
  <1>5. BeforeFork'
    BY <1>1 DEF Inv, BeforeFork, request
  <1>6. KeptChanges'
    <2>1. base' = cursor' /\ base' \in Nat /\ sandbox' = origin'
      BY <1>1 DEF Inv, BeforeFork, request, NoPoint
    <2>2. (base = cursor /\ base \in Nat /\ sandbox = origin => KeptChanges)'
      BY NothingChanged, PTL
    <2> QED
      BY <2>1, <2>2
  <1>7. Walk'
    BY <1>1 DEF Walk
  <1> QED
    BY <1>3, <1>4, <1>5, <1>6, <1>7 DEF Inv, InOrder

LEMMA InitInv == Init => Inv
  <1> SUFFICES ASSUME Init PROVE Inv
    OBVIOUS
  <1>1. TypeOK
    BY TypeInit
  <1>2. points = <<>> /\ Len(points) = 0 /\ DOMAIN points = {}
    BY EmptySeq DEF Init
  <1>3. SpansInOrder /\ PointsInOrder
    BY <1>2 DEF Init, SpansInOrder, PointsInOrder, Started, Opening
  <1>4. Stack = <<>>
    BY <1>1, <1>2, OpenAfterAt DEF Stack, TypeOK
  <1>5. StackIsOpen
    <2>1. Stack \in Seq(Spans) /\ DOMAIN Stack = {}
      BY <1>4, EmptySeq
    <2>2. Open = {}
      BY DEF Init, Open
    <2> QED
      BY <2>1, <2>2 DEF StackIsOpen
  <1>6. Timeline /\ Walk /\ BeforeFork
    BY <1>2, <1>5 DEF Init, Timeline, LiveChanges, OwnersWrite, Walk, BeforeFork
  <1>7. KeptChanges
    BY NothingChanged DEF Init, NoPoint
  <1> QED
    BY <1>1, <1>3, <1>6, <1>7 DEF Inv

-----------------------------------------------------------------------------
(* What the replay does to the files of others                             *)

LEMMA OneThreadInv == OneThreadSpec => []Inv
  <1>1. ASSUME Inv, UNCHANGED vars PROVE Inv'
    <2>1. /\ UNCHANGED recorder /\ phase' = phase
          /\ UNCHANGED <<todo, base, origin, cursor, sandbox, skip, live>>
      BY <1>1 DEF vars, recorder
    <2>2. TypeOK'
      BY <1>1, TypeStep DEF Inv
    <2>3. InOrder'
      BY <1>1, <2>1, InOrderSame DEF Inv, InOrder
    <2>4. (Complete' <=> Complete) /\ (Complete => Timeline')
      BY <1>1, <2>1, CompleteSame, TimelineSame DEF Inv
    <2>5. KeptChanges'
      BY <1>1, <2>1, OthersKeep DEF Inv
    <2>6. BeforeFork' /\ (Complete => Walk')
      BY <1>1, <2>1 DEF Inv, BeforeFork, Walk, recorder, Started, IsIndexOf, Befores
    <2> QED
      BY <2>2, <2>3, <2>4, <2>5, <2>6 DEF Inv, InOrder
  <1>2. Inv /\ [RecordInOneThread \/ Replay]_vars => Inv'
    BY <1>1, RecordInv, ReplayInv
  <1> QED
    BY InitInv, <1>2, PTL DEF OneThreadSpec

LEMMA OnlyKeptStep ==
    ASSUME Inv, Replay, Complete
    PROVE  /\ cursor' # cursor /\ phase' = phase =>
                \A f \in Files : sandbox'[f] # sandbox[f] => Writer(cursor, f) \notin skip
           /\ \A x \in skip' \ skip : IsIndexOf(cursor, x)
  <1> DEFINE Goal ==
        /\ cursor' # cursor /\ phase' = phase =>
                \A f \in Files : sandbox'[f] # sandbox[f] => Writer(cursor, f) \notin skip
        /\ \A x \in skip' \ skip : IsIndexOf(cursor, x)
  <1>1. ASSUME base # NoPoint, cursor \in Nat, cursor < Len(points), Step
        PROVE  Goal
    <2>1. skip' = skip
      BY <1>1 DEF Step
    <2>2. \A f \in Files : sandbox'[f] # sandbox[f] => Writer(cursor, f) \notin skip
      BY <1>1, StepFiles DEF Inv, Timeline
    <2> QED
      BY <2>1, <2>2
  <1>2. ASSUME NEW x \in Spans, NEW D, NEW W, Fork(x, D, W) PROVE Goal
    BY <1>2 DEF Fork
  <1>3. ASSUME NEW x \in Spans, AdvanceTo(x) PROVE Goal
    <2>1. base # NoPoint /\ cursor \in Nat /\ cursor < Len(points)
      BY <1>3, NextBefore DEF AdvanceTo, Inv
    <2> QED
      BY <1>1, <1>3, <2>1 DEF AdvanceTo
  <1>4. ASSUME NEW x \in Spans, Stand(x) PROVE Goal
    BY <1>4 DEF Stand
  <1>5. ASSUME NEW x \in Spans, Ready(x), cursor' = cursor, skip' = skip \cup {x}
        PROVE  Goal
    BY <1>5, ReadyAtIndex
  <1>6. ASSUME AdvanceToEnd PROVE Goal
    <2>1. cursor \in Nat
      BY PointTypes DEF Inv, TypeOK
    <2> QED
      BY <1>1, <1>6, <2>1 DEF AdvanceToEnd
  <1>7. ASSUME Finish PROVE Goal
    BY <1>7 DEF Finish
  <1> QED
    BY <1>2, <1>3, <1>4, <1>5, <1>6, <1>7 DEF Replay, Block, Execute

\* A point before a span was captured before any later span could write.
LEMMA StartsCleanStep ==
    ASSUME Inv, Replay, phase' = "replay", phase # phase',
           NEW f \in Files, base' # NoPoint
    PROVE  points[base'].by[f] \notin todo'
  <1>1. phase = "recorded"
    <2>1. ASSUME NEW x \in Spans, AdvanceTo(x) \/ Stand(x) \/ Block(x)
                                   \/ \E g \in Files : Execute(x, g)
          PROVE  phase' = phase
      BY <2>1 DEF AdvanceTo, Step, Stand, Block, Execute
    <2>2. ASSUME AdvanceToEnd \/ Finish PROVE phase' = phase \/ phase' = "done"
      BY <2>2 DEF AdvanceToEnd, Step, Finish
    <2>3. \E x \in Spans, D, W \in SUBSET Spans : Fork(x, D, W)
      BY <2>1, <2>2 DEF Replay
    <2> QED
      BY <2>3 DEF Fork
  <1>2. PICK x \in Spans, D \in SUBSET Spans, W \in SUBSET Spans : Fork(x, D, W)
    BY <1>1 DEF Replay, AdvanceTo, Ready, Stand, Block, Execute, AdvanceToEnd, Finish
  <1>3. PICK first \in D : (\A y \in D : first <= y) /\ IsBasePoint(base', first)
    BY <1>2 DEF Fork
  <1>4. todo' \subseteq D
    BY <1>2 DEF Fork
  <1>5. PICK y \in 1 .. first : base' \in Befores(y)
    <2>1. first \in 1 .. first
      BY TimelineAssumption DEF Spans
    <2> QED
      BY <1>3, <2>1 DEF IsBasePoint, IsIndexOf
  <1>6. /\ base' \in DOMAIN points /\ points[base'].phase = "before"
        /\ points[base'].span = y
    BY <1>5 DEF Befores
  <1>7. points[base'].by[f] < y /\ points[base'].by[f] \in Spans \cup {Nobody}
    BY <1>6, PointTypes DEF Inv, PointsInOrder
  <1>8. \A z \in todo' : y <= z /\ z \in Int
    BY <1>3, <1>4, <1>5, TimelineAssumption DEF Spans
  <1> QED
    BY <1>5, <1>7, <1>8, TimelineAssumption DEF Spans, Nobody

-----------------------------------------------------------------------------
(* The theorems                                                            *)

\* Whatever the threads of the recorded program and the replay do, every
\* variable keeps its type: among others the walk stays inside the recorded
\* points, behind the point it started from.
THEOREM TypeCorrect == Spec => []TypeOK
  BY TypeInit, TypeStep, PTL DEF Spec

\* Of a program with one thread and with every capture, a file that no span
\* re-executed or blocked has changed, neither in the recording nor in the
\* replay, is always as it was recorded where the walk is (advance_to,
\* apply_transition).
THEOREM ChangesAreKept == OneThreadSpec => []KeptChanges
  BY OneThreadInv, PTL DEF Inv

\* Of such a program, advance_to never re-applies what a re-executed or blocked
\* span wrote, and such a span finds the walk at the point right before it.
THEOREM OnlyTheirsAreKept == OneThreadSpec => OnlyKeptChanges
  <1>1. ASSUME Inv, [RecordInOneThread \/ Replay]_vars, Complete
        PROVE  /\ cursor' # cursor /\ phase' = phase =>
                    \A f \in Files : sandbox'[f] # sandbox[f] =>
                                        Writer(cursor, f) \notin skip
               /\ \A x \in skip' \ skip : IsIndexOf(cursor, x)
    <2>1. CASE Replay
      BY <1>1, <2>1, OnlyKeptStep
    <2>2. CASE RecordInOneThread
      BY <2>2, RecordBeforeFork
    <2>3. CASE UNCHANGED vars
      BY <2>3 DEF vars
    <2> QED
      BY <1>1, <2>1, <2>2, <2>3
  <1> QED
    BY <1>1, OneThreadInv, PTL DEF OneThreadSpec, OnlyKeptChanges

\* Of a program with one thread, whichever captures before spans failed: base_snapshot picks
\* a point whose files none of the spans to be replayed has written.
THEOREM ForkStartsClean == OneThreadSpec => StartsClean
  <1>1. ASSUME Inv, [RecordInOneThread \/ Replay]_vars,
               phase' = "replay", phase # phase', NEW f \in Files, base' # NoPoint
        PROVE  points[base'].by[f] \notin todo'
    <2>1. Replay
      BY <1>1, RecordBeforeFork DEF vars
    <2> QED
      BY <1>1, <2>1, StartsCleanStep
  <1>2. Inv /\ [RecordInOneThread \/ Replay]_vars
           => [phase' = "replay" /\ phase # phase' =>
                 \A f \in Files : base' # NoPoint => points[base'].by[f] \notin todo']_vars
    BY <1>1
  <1> QED
    BY <1>2, OneThreadInv, PTL DEF OneThreadSpec, StartsClean
=============================================================================
