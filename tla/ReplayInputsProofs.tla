------------------------- MODULE ReplayInputsProofs -------------------------
(***************************************************************************)
(* For recordings of any size, any chain of forks and any patches: spans   *)
(* run with current inputs or keep a result whose inputs still stand, an   *)
(* override reaches all of its scope, planner and executors agree, and no  *)
(* prompt gets another prompt's response.  For any number of processes, pipes*)
(* of any size and any limit: run_shell, which executes the commands, returns*)
(* all of the output, and a timeout leaves nothing of the group.           *)
(***************************************************************************)
EXTENDS ReplayInputs, CommandExecution, WellFoundedInduction, TLAPS

(***************************************************************************)
(* What a span's inputs are made from, once it is known: the templates of  *)
(* its attributes.                                                         *)
(***************************************************************************)

PatchFor(req, x) == IF x = req.fork THEN req.patch ELSE NoPatch

From(sh, x, patch) ==
    [attr \in (DOMAIN sh.bindings[x] \cup DOMAIN patch.attrs) |->
        IF attr \in DOMAIN patch.attrs THEN patch.attrs[attr] ELSE sh.bindings[x][attr]]

Refs(from) == UNION {References(from[attr]) : attr \in DOMAIN from}
Given(from, rows) == \A attr \in DOMAIN from : Renders(from[attr], rows)
Filled(from, own, rows) == Over([attr \in DOMAIN from |-> Render(from[attr], rows)], own)

LEMMA SpanFields ==
    ASSUME NEW rows, NEW x
    PROVE  /\ Span(rows, x).kind = shape.does[x]
           /\ Span(rows, x).attrs = rows[x].attrs
  BY DEF Span

LEMMA EffectiveFields ==
    ASSUME NEW x, NEW rows, NEW seen, NEW patch
    PROVE  /\ Effective(x, Span(rows, x), seen, patch).kind = shape.does[x]
           /\ Effective(x, Span(rows, x), seen, patch).name = shape.name[x]
           /\ Effective(x, Span(rows, x), seen, patch).attrs =
                 Filled(From(shape, x, patch), rows[x].attrs, seen)
           /\ Effective(x, Span(rows, x), seen, patch) =
                 [kind |-> shape.does[x], name |-> shape.name[x],
                  attrs |-> Filled(From(shape, x, patch), rows[x].attrs, seen)]
  BY DEF Effective, Span, Filled, From, Sources, Bound

LEMMA InputsGiven ==
    ASSUME NEW x
    PROVE  /\ PatchOf(x) = PatchFor(request, x)
           /\ InputReferences(x) = Refs(From(shape, x, PatchFor(request, x)))
           /\ \A rows, patch : HasInputs(x, rows, patch) <=> Given(From(shape, x, patch), rows)
  BY DEF PatchOf, PatchFor, InputReferences, Refs, From, Sources, Bound, HasInputs, Given

-----------------------------------------------------------------------------
(* A text depends on the outputs that it refers to, and of those on the    *)
(* first only.                                                             *)

SameText(a, b) == (a.outputs = <<>> <=> b.outputs = <<>>) /\ a.outputs[1] = b.outputs[1]

LEMMA SameRender ==
    ASSUME NEW t, NEW a, NEW b, \A y \in References(t) : SameText(a[y], b[y])
    PROVE  Render(t, a) = Render(t, b) /\ (Renders(t, a) <=> Renders(t, b))
  <1>1. \A i \in DOMAIN t : t[i][1] = "span" => t[i][2] \in References(t)
    BY DEF References
  <1>2. \A i \in DOMAIN t :
           (IF t[i][1] = "span" THEN a[t[i][2]].outputs[1] ELSE <<t[i][2]>>)
             = (IF t[i][1] = "span" THEN b[t[i][2]].outputs[1] ELSE <<t[i][2]>>)
    BY <1>1 DEF SameText
  <1>3. [i \in DOMAIN t |-> IF t[i][1] = "span" THEN a[t[i][2]].outputs[1] ELSE <<t[i][2]>>]
          = [i \in DOMAIN t |->
                IF t[i][1] = "span" THEN b[t[i][2]].outputs[1] ELSE <<t[i][2]>>]
    BY <1>2
  <1>4. Render(t, a) = Render(t, b)
    BY <1>3 DEF Render
  <1> QED
    BY <1>4 DEF Renders, SameText

LEMMA SameInputs ==
    ASSUME NEW from, NEW own, NEW a, NEW b, \A y \in Refs(from) : SameText(a[y], b[y])
    PROVE  Filled(from, own, a) = Filled(from, own, b) /\ (Given(from, a) <=> Given(from, b))
  <1>1. ASSUME NEW attr \in DOMAIN from
        PROVE  /\ Render(from[attr], a) = Render(from[attr], b)
               /\ Renders(from[attr], a) <=> Renders(from[attr], b)
    BY SameRender DEF Refs
  <1>2. [attr \in DOMAIN from |-> Render(from[attr], a)]
          = [attr \in DOMAIN from |-> Render(from[attr], b)]
    BY <1>1
  <1> QED
    BY <1>1, <1>2 DEF Filled, Given

-----------------------------------------------------------------------------
(* The rows                                                                *)

RunsTyped ==
    /\ Len(run) \in Nat \ {0}
    /\ run = [k \in 1 .. Len(run) |-> run[k]]
    /\ \A k \in 1 .. Len(run) :
          /\ run[k] = [x \in Spans |-> run[k][x]]
          /\ \A x \in Spans : IsRow(run[k][x])

LEMMA LengthOf ==
    ASSUME NEW n \in Nat, NEW f, f = [k \in 1 .. n |-> f[k]]
    PROVE  Len(f) = n
  OBVIOUS

\* A fork starts with a copy of the rows.
LEMMA CopyOfRun ==
    ASSUME RunsTyped, run' = Append(run, run[Target])
    PROVE  /\ RunsTyped'
           /\ Target' = Target + 1
           /\ run'[Target + 1] = run[Target]
           /\ \A k \in 1 .. Target : run'[k] = run[k]
  <1> DEFINE S == {run[k] : k \in 1 .. Len(run)}
             copy == Append(run, run[Target])
  <1>1. run \in Seq(S) /\ run[Target] \in S
    <2>1. Len(run) \in Nat /\ Target \in 1 .. Len(run)
      BY DEF RunsTyped, Target
    <2>2. run[Target] \in S
      BY <2>1
    <2>3. \A k \in 1 .. Len(run) : run[k] \in S
      OBVIOUS
    <2> HIDE DEF S
    <2>4. run \in [1 .. Len(run) -> S]
      BY <2>3 DEF RunsTyped
    <2>5. run \in Seq(S)
      BY <2>1, <2>4
    <2> QED
      BY <2>2, <2>5
  <1> HIDE DEF S
  <1>2. /\ Len(copy) = Target + 1
        /\ copy[Target + 1] = run[Target]
        /\ \A k \in 1 .. Target : copy[k] = run[k]
        /\ copy \in Seq(S)
    BY <1>1 DEF Target
  <1>3. copy = [k \in 1 .. Len(copy) |-> copy[k]]
    BY <1>2
  <1>4. /\ Len(run') = Target + 1
        /\ run' = [k \in 1 .. Len(run') |-> run'[k]]
        /\ run'[Target + 1] = run[Target]
        /\ \A k \in 1 .. Target : run'[k] = run[k]
    BY <1>2, <1>3
  <1>5. Target \in Nat \ {0}
    BY DEF RunsTyped, Target
  <1>6. \A k \in 1 .. Target + 1 :
           /\ run'[k] = [x \in Spans |-> run'[k][x]]
           /\ \A x \in Spans : IsRow(run'[k][x])
    <2> SUFFICES ASSUME NEW k \in 1 .. Target + 1
                 PROVE  \E j \in 1 .. Target : run'[k] = run[j]
      BY DEF RunsTyped, Target
    <2> QED
      BY <1>4, <1>5
  <1>7. RunsTyped'
    BY <1>4, <1>5, <1>6 DEF RunsTyped
  <1> QED
    BY <1>4, <1>7 DEF Target

\* A span's row is replaced in the branch, nowhere else.
LEMMA RowReplaced ==
    ASSUME RunsTyped, NEW x \in Spans, NEW row, IsRow(row),
           run' = [run EXCEPT ![Target][x] = row]
    PROVE  /\ RunsTyped'
           /\ Target' = Target
           /\ run'[Target] = [run[Target] EXCEPT ![x] = row]
           /\ \A k \in 1 .. Target : k # Target => run'[k] = run[k]
  <1>1. Target \in 1 .. Len(run) /\ Len(run) \in Nat
    BY DEF RunsTyped, Target
  <1>2. /\ run' = [k \in 1 .. Len(run) |-> run'[k]]
        /\ run'[Target] = [run[Target] EXCEPT ![x] = row]
        /\ \A k \in 1 .. Len(run) : k # Target => run'[k] = run[k]
    BY <1>1 DEF RunsTyped
  <1>3. Len(run') = Len(run)
    BY <1>1, <1>2, LengthOf
  <1>4. ASSUME NEW k \in 1 .. Len(run)
        PROVE  /\ run'[k] = [y \in Spans |-> run'[k][y]]
               /\ \A y \in Spans : IsRow(run'[k][y])
    <2>1. CASE k = Target
      <3>1. run[Target] = [y \in Spans |-> run[Target][y]]
        BY <1>1 DEF RunsTyped
      <3>2. run'[Target] = [y \in Spans |-> IF y = x THEN row ELSE run[Target][y]]
        BY <1>2, <3>1
      <3>3. \A y \in Spans : IsRow(run[Target][y])
        BY <1>1 DEF RunsTyped
      <3> QED
        BY <2>1, <3>2, <3>3
    <2>2. CASE k # Target
      BY <1>2, <2>2 DEF RunsTyped
    <2> QED
      BY <2>1, <2>2
  <1>5. RunsTyped'
    BY <1>1, <1>2, <1>3, <1>4 DEF RunsTyped
  <1> QED
    BY <1>2, <1>3, <1>5 DEF Target

-----------------------------------------------------------------------------
(* Patches and what they make dirty                                        *)

\* No patch replaces an output and the environment, and none the output of a
\* model call, a shell command or a write.
LEMMA PatchesApart ==
    ASSUME NEW kind, NEW patch \in Patches(kind)
    PROVE  /\ patch.env # <<>> => patch.output = {}
           /\ kind \in {"llm", "shell", "write"} => patch.output = {}
  <1> DEFINE plain(p) == p.output = {}
             edit(attr) == {Edit(attr, t, <<>>) : t \in Templates}
             outputs == {[NoPatch EXCEPT !.output = {t}] : t \in Answers}
             envs == {[NoPatch EXCEPT !.env = e] : e \in Environments}
             both == {Edit("cwd", t, e) : t \in Templates, e \in Environments}
             snapshot == [NoPatch EXCEPT !.snapshot = TRUE]
  <1>1. \A p \in envs \cup both \cup {snapshot} : plain(p)
    <2>1. \A p \in envs : plain(p)
      BY DEF NoPatch
    <2>2. \A p \in both : plain(p)
      BY DEF Edit
    <2>3. plain(snapshot)
      BY DEF NoPatch
    <2> HIDE DEF plain, envs, both, snapshot
    <2> QED
      BY <2>1, <2>2, <2>3
  <1>2. \A attr : \A p \in edit(attr) : plain(p)
    BY DEF Edit
  <1>3. \A p \in outputs : p.env = <<>>
    BY DEF NoPatch
  <1>4. CASE kind \in {"llm", "shell", "write"}
    <2>1. /\ kind = "llm" =>
                 patch \in {snapshot} \cup envs \cup edit("prompt") \cup edit("model")
          /\ kind = "shell" => patch \in {snapshot} \cup envs \cup edit("command") \cup both
          /\ kind = "write" => patch \in {snapshot} \cup envs \cup edit("content")
      BY DEF Patches
    <2> HIDE DEF plain, edit, envs, both, snapshot
    <2>2. plain(patch)
      BY <1>1, <1>2, <1>4, <2>1
    <2> QED
      BY <2>2 DEF plain
  <1>5. CASE kind \in {"tool", "read", "retrieval"}
    BY <1>1, <1>2, <1>3, <1>5 DEF Patches
  <1>6. CASE kind \notin {"llm", "shell", "write", "tool", "read", "retrieval"}
    BY <1>1, <1>6 DEF Patches
  <1> QED
    BY <1>4, <1>5, <1>6

LEMMA DirtyIsClosed ==
    ASSUME NEW f \in Spans, NEW dirty, dirty = Graph!DirtyFrom(shape, f)
    PROVE  /\ dirty \subseteq Spans
           /\ f \in dirty
           /\ \A y \in dirty : Graph!Reached(shape, y) \subseteq dirty
           /\ Graph!Subtree(shape, f) \subseteq dirty
  <1> DEFINE after == [y \in Spans |-> Graph!Reached(shape, y)]
             below == [y \in Spans |-> Graph!Children(shape, y)]
  <1>1. \A y : Graph!Reached(shape, y) \subseteq Spans
    BY DEF Graph!Reached, Graph!Dependents, Graph!Children, Spans
  <1>2. dirty = {z \in Spans : \A S \in SUBSET Spans :
                    f \in S /\ (\A y \in S : after[y] \subseteq S) => z \in S}
    BY DEF Graph!DirtyFrom, Graph!Closure, Spans
  <1>3. Graph!Subtree(shape, f) =
           {z \in Spans : \A S \in SUBSET Spans :
               f \in S /\ (\A y \in S : below[y] \subseteq S) => z \in S}
    BY DEF Graph!Subtree, Graph!Closure, Spans
  <1>4. dirty \subseteq Spans /\ f \in dirty
    BY <1>2
  <1>5. ASSUME NEW y \in dirty PROVE Graph!Reached(shape, y) \subseteq dirty
    <2> SUFFICES ASSUME NEW z \in Graph!Reached(shape, y), NEW S \in SUBSET Spans,
                        f \in S, \A w \in S : after[w] \subseteq S
                 PROVE  z \in S
      BY <1>1, <1>2
    <2>1. y \in S
      BY <1>2
    <2>2. after[y] = Graph!Reached(shape, y)
      BY <2>1
    <2> QED
      BY <2>1, <2>2
  <1>6. Graph!Subtree(shape, f) \subseteq dirty
    <2>1. \A y \in dirty : below[y] \subseteq dirty
      BY <1>4, <1>5 DEF Graph!Reached
    <2> QED
      BY <1>3, <1>4, <2>1
  <1> QED
    BY <1>4, <1>5, <1>6

-----------------------------------------------------------------------------
(* The plan                                                                *)

Below == {p \in Nat \X Nat : p[1] < p[2]}

LEMMA LeastElement ==
    ASSUME NEW S \in SUBSET Nat, S # {}
    PROVE  \E x \in S : \A y \in S : x <= y
  <1>1. IsWellFoundedOn(Below, Nat)
    BY NatLessThanWellFounded DEF OpToRel, Below
  <1>2. PICK x \in S : \A y \in S : <<y, x>> \notin Below
    BY <1>1, WFMin
  <1>3. \A y \in S : y \in Nat /\ x \in Nat /\ ~(y < x)
    BY <1>2 DEF Below
  <1> QED
    BY <1>3

LEMMA Induction ==
    ASSUME NEW S, 0 \in S, \A n \in Nat : n \in S => n + 1 \in S
    PROVE  Nat \subseteq S
  <1> SUFFICES ASSUME Nat \ S # {} PROVE FALSE
    OBVIOUS
  <1>1. PICK m \in Nat \ S : \A y \in Nat \ S : m <= y
    BY LeastElement
  <1>2. m - 1 \in Nat /\ ~(m <= m - 1)
    BY <1>1
  <1> QED
    BY <1>1, <1>2

\* A dirty span that the plan does not block is not refused by its executor.
LEMMA PlanAsksExecutors ==
    ASSUME NEW x \in Spans, x \in Dirty, ~IsContainer(x), ~Satisfies(x), x \notin Blocked
    PROVE  ~Refused(x)
  <1> DEFINE body(g, y) ==
                 /\ y \in Dirty
                 /\ ~IsContainer(y)
                 /\ ~Satisfies(y)
                 /\ \/ \E z \in Upstream(y) : z < y /\ g[z]
                    \/ Refused(y)
             defined(n) == \E g : g = [y \in Spans |-> IF y <= n THEN body(g, y) ELSE g[y]]
             S == {n \in Nat : defined(n)}
  <1>0. /\ \A y \in Spans : y \in Nat /\ 1 <= y /\ y <= N
        /\ N \in Nat
        /\ \A y : Upstream(y) \subseteq Spans
    BY InputsAssumption DEF Spans, Graph!Spans, Upstream, Graph!Upstream, Graph!Needs
  <1>1. 0 \in S
    <2> DEFINE g == [y \in Spans |-> FALSE]
    <2>1. g = [y \in Spans |-> IF y <= 0 THEN body(g, y) ELSE g[y]]
      BY <1>0
    <2> QED
      BY <2>1
  <1>2. ASSUME NEW n \in Nat, n \in S PROVE n + 1 \in S
    <2>1. PICK g : g = [y \in Spans |-> IF y <= n THEN body(g, y) ELSE g[y]]
      BY <1>2
    <2> DEFINE h == [y \in Spans |-> IF y = n + 1 THEN body(g, y) ELSE g[y]]
    <2>2. ASSUME NEW y \in Spans, y <= n + 1 PROVE h[y] = body(h, y)
      <3>1. \A z \in Upstream(y) : z < y => h[z] = g[z]
        <4>1. \A z \in Upstream(y) : z \in Spans /\ (z < y => z # n + 1)
          BY <1>0, <2>2
        <4> QED
          BY <4>1
      <3>2. body(h, y) = body(g, y)
        BY <3>1
      <3>3. y # n + 1 => y <= n
        BY <1>0, <2>2
      <3>4. y # n + 1 => g[y] = body(g, y)
        BY <2>1, <3>3
      <3> QED
        BY <3>2, <3>4
    <2>3. h = [y \in Spans |-> IF y <= n + 1 THEN body(h, y) ELSE h[y]]
      BY <2>2
    <2>4. defined(n + 1)
      <3> HIDE DEF h
      <3> QED
        BY <2>3
    <2> HIDE DEF defined
    <2> QED
      BY <2>4
  <1>3. N \in S
    <2> HIDE DEF S
    <2> QED
      BY <1>0, <1>1, <1>2, Induction
  <1>4. PICK g : g = [y \in Spans |-> IF y <= N THEN body(g, y) ELSE g[y]]
    BY <1>3
  <1>5. g = [y \in Spans |-> body(g, y)]
    BY <1>0, <1>4
  <1>6. \E b : b = [y \in Spans |-> body(b, y)]
    BY <1>5
  <1> DEFINE blocked == CHOOSE b : b = [y \in Spans |-> body(b, y)]
  <1>7. blocked = [y \in Spans |-> body(blocked, y)]
    BY <1>6
  <1>8. Blocked = {y \in Spans : blocked[y]}
    BY DEF Blocked
  <1> HIDE DEF blocked
  <1>9. blocked[x] = body(blocked, x)
    BY <1>7
  <1> QED
    BY <1>8, <1>9

-----------------------------------------------------------------------------
(* The invariant: what is behind the replay is final, and was done right.  *)

Ask(x) == From(shape, x, PatchFor(request, x))

OutcomeNames == {"none", "satisfied", "blocked", "reused", "executed"}

ToDo(x) == x \in Dirty /\ ~IsContainer(x)

TypeInv ==
    /\ RunsTyped
    /\ at \in 0 .. N + 1
    /\ request.fork \in Spans
    /\ outcome \in [Spans -> OutcomeNames]
    /\ ranWith = [x \in Spans |-> ranWith[x]]
    /\ at > 0 =>
          /\ Target > 1
          /\ request.patch \in Patches(shape.does[request.fork])
          /\ Dirty = Graph!DirtyFrom(shape, request.fork)
          /\ \A x \in Spans : ToDo(x) /\ ~Satisfies(x) /\ x \notin planned => ~Refused(x)

ReuseStands(x) ==
    /\ ~InEnvScope(x)
    /\ x # request.fork
    /\ \A y \in Graph!Triggers(shape, Dirty, x) : y < at /\ ~IsContainer(y) /\ Unchanged(y)

RanRight(x) ==
    /\ Refs(Ask(x)) \subseteq Spans
    /\ ranWith[x].env = SpanEnv(x, run[Source])
    /\ InOrder(x) =>
          /\ Given(Ask(x), run[Target])
          /\ ranWith[x].attrs = Filled(Ask(x), run[Source][x].attrs, run[Target])

BlockExplained(x) ==
    \/ \E y \in Upstream(x) : outcome[y] = "blocked"
    \/ /\ Refs(Ask(x)) \subseteq Spans
       /\ \E y \in Refs(Ask(x)) : y < x /\ run[Target][y].outputs # run[Source][y].outputs
       /\ InOrder(x) =>
             \/ ~Given(Ask(x), run[Target])
             \/ Filled(Ask(x), run[Source][x].attrs, run[Target])
                  # Filled(Ask(x), run[Source][x].attrs, run[Source])

Good(x) ==
    /\ outcome[x] # "none" <=> x < at /\ ToDo(x)
    /\ outcome[x] \in {"none", "reused"} => run[Target][x] = run[Source][x]
    /\ outcome[x] = "satisfied" => Satisfies(x)
    /\ outcome[x] = "reused" => ReuseStands(x)
    /\ outcome[x] = "executed" => RanRight(x)
    /\ outcome[x] = "blocked" /\ x \notin planned => BlockExplained(x)

Inv == TypeInv /\ (at > 0 => \A x \in Spans : Good(x))

LEMMA SpansAreNumbers ==
    N \in Nat /\ \A x \in Spans : x \in Nat /\ 1 <= x /\ x <= N
  BY InputsAssumption DEF Spans, Graph!Spans

LEMMA InitInv == Init => Inv
  <1> SUFFICES ASSUME Init PROVE Inv
    OBVIOUS
  <1>1. PICK r \in Recordings : shape = r.shape /\ run = <<r.rows>>
    BY DEF Init
  <1>2. RunsTyped
    BY <1>1, InputsAssumption DEF RunsTyped
  <1>3. 1 \in Spans
    BY InputsAssumption DEF Spans, Graph!Spans
  <1>4. at = 0 /\ request.fork = 1
    BY DEF Init
  <1>5. outcome \in [Spans -> OutcomeNames] /\ ranWith = [x \in Spans |-> ranWith[x]]
    BY DEF Init, OutcomeNames
  <1> QED
    BY <1>2, <1>3, <1>4, <1>5, SpansAreNumbers DEF Inv, TypeInv

-----------------------------------------------------------------------------
(* A step of the loop                                                      *)

\* What becomes of one span changes nothing of the others.
LEMMA Settled ==
    ASSUME TypeInv, at > 0, NEW x \in Spans, at = x, NEW what \in OutcomeNames, NEW row,
           IsRow(row), Become(x, what, row)
    PROVE  /\ RunsTyped'
           /\ UNCHANGED <<mode, shape, request, planned>>
           /\ Target' = Target /\ Source' = Source
           /\ run'[Source] = run[Source]
           /\ run'[Target] = [run[Target] EXCEPT ![x] = row]
           /\ run'[Target][x] = row
           /\ \A y \in Spans : y # x => run'[Target][y] = run[Target][y]
           /\ \A k \in 1 .. Target : k # Target => run'[k] = run[k]
           /\ at' = x + 1 /\ at' \in 0 .. N + 1
           /\ outcome' = [outcome EXCEPT ![x] = what]
           /\ outcome' \in [Spans -> OutcomeNames]
  <1>1. /\ UNCHANGED <<mode, shape, request, planned>>
        /\ outcome' = [outcome EXCEPT ![x] = what]
        /\ run' = [run EXCEPT ![Target][x] = row]
        /\ at' = at + 1
    BY DEF Become
  <1>2. /\ RunsTyped'
        /\ Target' = Target
        /\ run'[Target] = [run[Target] EXCEPT ![x] = row]
        /\ \A k \in 1 .. Target : k # Target => run'[k] = run[k]
    BY <1>1, RowReplaced DEF TypeInv
  <1>3. Target \in Nat /\ Target > 1 /\ Source = Target - 1 /\ Source' = Target' - 1
    BY DEF TypeInv, RunsTyped, Target, Source
  <1>4. Source' = Source /\ run'[Source] = run[Source]
    BY <1>2, <1>3
  <1>5. run[Target] = [y \in Spans |-> run[Target][y]]
    BY <1>3 DEF TypeInv, RunsTyped, Target
  <1>6. at' = x + 1 /\ at' \in 0 .. N + 1
    BY <1>1, SpansAreNumbers
  <1>7. outcome' \in [Spans -> OutcomeNames]
    BY <1>1 DEF TypeInv
  <1> QED
    BY <1>1, <1>2, <1>4, <1>5, <1>6, <1>7

\* What the fork and the source run determine stays.
LEMMA Determined ==
    ASSUME UNCHANGED <<mode, shape, request>>, run'[Source'] = run[Source], NEW x
    PROVE  /\ ToDo(x)' <=> ToDo(x)
           /\ PatchOf(x)' = PatchOf(x)
           /\ Satisfies(x)' <=> Satisfies(x)
           /\ InEnvScope(x)' <=> InEnvScope(x)
           /\ Ask(x)' = Ask(x)
           /\ InOrder(x)' <=> InOrder(x)
           /\ Upstream(x)' = Upstream(x)
           /\ SpanEnv(x, run[Source])' = SpanEnv(x, run[Source])
           /\ Refused(x)' <=> Refused(x)
  <1>1. ToDo(x)' <=> ToDo(x)
    BY DEF ToDo, Dirty, IsContainer
  <1>2. PatchOf(x)' = PatchOf(x)
    BY DEF PatchOf
  <1>3. (Satisfies(x)' <=> Satisfies(x)) /\ (InEnvScope(x)' <=> InEnvScope(x))
    BY DEF Satisfies, PatchOf, InEnvScope
  <1>4. Ask(x)' = Ask(x)
    BY DEF Ask
  <1>5. InOrder(x)' <=> InOrder(x)
    BY DEF InOrder, InputReferences, Sources, Bound, PatchOf
  <1>6. Upstream(x)' = Upstream(x)
    BY DEF Upstream
  <1>7. SpanEnv(x, run[Source])' = SpanEnv(x, run[Source])
    BY DEF SpanEnv, InEnvScope
  <1>8. Refused(x)' <=> Refused(x)
    BY DEF Refused, HasInputs, Effective, Sources, Bound, PatchOf, Span, RecordedSpan
  <1> QED
    BY <1>1, <1>2, <1>3, <1>4, <1>5, <1>6, <1>7, <1>8

\* A span that was settled before stays right.
LEMMA OthersGood ==
    ASSUME TypeInv, at > 0, NEW x \in Spans, at = x, NEW what \in OutcomeNames, NEW row,
           IsRow(row), Become(x, what, row), outcome[x] = "none",
           NEW y \in Spans, y # x, Good(y), ranWith'[y] = ranWith[y]
    PROVE  Good(y)'
  <1>1. /\ UNCHANGED <<mode, shape, request, planned>>
        /\ Source' = Source /\ Target' = Target
        /\ run'[Source] = run[Source]
        /\ at' = x + 1
        /\ outcome' = [outcome EXCEPT ![x] = what]
        /\ \A z \in Spans : z # x => run'[Target][z] = run[Target][z]
    BY Settled
  <1>2. outcome'[y] = outcome[y]
    BY <1>1 DEF TypeInv
  <1>3. run'[Source'] = run[Source]
    BY <1>1
  <1>4. y < at' <=> y < at
    BY <1>1, SpansAreNumbers
  <1>5. /\ outcome[y] # "none" => y < x
        /\ \A z \in Spans : z < y /\ y < x => z # x
    BY SpansAreNumbers DEF Good
  <1>6. (outcome[y] # "none" <=> y < at /\ ToDo(y))'
    BY <1>1, <1>2, <1>3, <1>4, Determined DEF Good
  <1>7. (outcome[y] \in {"none", "reused"} => run[Target][y] = run[Source][y])'
    BY <1>1, <1>2 DEF Good
  <1>8. (outcome[y] = "satisfied" => Satisfies(y))'
    BY <1>1, <1>2, <1>3, Determined DEF Good
  <1>9. (outcome[y] = "reused" => ReuseStands(y))'
    <2> SUFFICES ASSUME outcome[y] = "reused" PROVE ReuseStands(y)'
      BY <1>2
    <2>1. ReuseStands(y)
      BY DEF Good
    <2>2. ~InEnvScope(y)' /\ y # request'.fork
      BY <1>1, <1>3, <2>1, Determined DEF ReuseStands
    <2>3. Graph!Triggers(shape', Dirty', y) = Graph!Triggers(shape, Dirty, y)
      BY <1>1 DEF Dirty
    <2>4. ASSUME NEW z \in Graph!Triggers(shape, Dirty, y)
          PROVE  z < at' /\ ~IsContainer(z)' /\ Unchanged(z)'
      <3>1. z < at /\ ~IsContainer(z) /\ Unchanged(z)
        BY <2>1 DEF ReuseStands
      <3>2. z \in Spans
        BY DirtyIsClosed DEF TypeInv, Graph!Triggers
      <3>3. z # x /\ z < at'
        BY <1>1, <3>1, <3>2, SpansAreNumbers
      <3>4. outcome'[z] = outcome[z] /\ run'[Target'][z] = run[Target][z]
        BY <1>1, <3>2, <3>3 DEF TypeInv
      <3> QED
        BY <1>1, <1>3, <3>1, <3>3, <3>4 DEF IsContainer, Unchanged
    <2> QED
      BY <2>2, <2>3, <2>4 DEF ReuseStands
  <1>10. ASSUME y < x, InOrder(y), Refs(Ask(y)) \subseteq Spans
         PROVE  \A own : /\ Filled(Ask(y), own, run'[Target]) = Filled(Ask(y), own, run[Target])
                         /\ Given(Ask(y), run'[Target]) <=> Given(Ask(y), run[Target])
    <2>1. \A z \in Refs(Ask(y)) : z < y
      BY <1>10, InputsGiven DEF InOrder, Ask
    <2>2. \A z \in Refs(Ask(y)) : run'[Target][z] = run[Target][z]
      BY <1>1, <1>5, <1>10, <2>1
    <2>3. \A z \in Refs(Ask(y)) : SameText(run'[Target][z], run[Target][z])
      BY <2>2 DEF SameText
    <2> QED
      BY <2>3, SameInputs
  <1>11. (outcome[y] = "executed" => RanRight(y))'
    <2> SUFFICES ASSUME outcome[y] = "executed" PROVE RanRight(y)'
      BY <1>2
    <2>1. RanRight(y) /\ y < x
      BY <1>5 DEF Good
    <2>2. Ask(y)' = Ask(y) /\ (InOrder(y)' <=> InOrder(y))
          /\ SpanEnv(y, run[Source])' = SpanEnv(y, run[Source])
      BY <1>1, <1>3, Determined
    <2> QED
      BY <1>1, <1>10, <2>1, <2>2 DEF RanRight
  <1>12. (outcome[y] = "blocked" /\ y \notin planned => BlockExplained(y))'
    <2> SUFFICES ASSUME outcome[y] = "blocked", y \notin planned PROVE BlockExplained(y)'
      BY <1>1, <1>2
    <2>1. BlockExplained(y) /\ y < x
      BY <1>5 DEF Good
    <2>2. Ask(y)' = Ask(y) /\ (InOrder(y)' <=> InOrder(y)) /\ Upstream(y)' = Upstream(y)
      BY <1>1, <1>3, Determined
    <2>3. CASE \E z \in Upstream(y) : outcome[z] = "blocked"
      <3>1. PICK z \in Upstream(y) : outcome[z] = "blocked"
        BY <2>3
      <3>2. outcome'[z] = "blocked"
        <4>1. z \in Spans
          BY DEF Upstream, Graph!Upstream, Graph!Needs, Spans
        <4> QED
          BY <1>1, <3>1, <4>1 DEF TypeInv
      <3> QED
        BY <2>2, <3>1, <3>2 DEF BlockExplained
    <2>4. CASE ~\E z \in Upstream(y) : outcome[z] = "blocked"
      <3>1. Refs(Ask(y)) \subseteq Spans
        BY <2>1, <2>4 DEF BlockExplained
      <3>2. \A z \in Refs(Ask(y)) : z < y => run'[Target'][z] = run[Target][z]
        BY <1>1, <1>5, <2>1, <3>1
      <3> QED
        BY <1>1, <1>10, <2>1, <2>2, <2>4, <3>1, <3>2 DEF BlockExplained
    <2> QED
      BY <2>3, <2>4
  <1> QED
    BY <1>6, <1>7, <1>8, <1>9, <1>11, <1>12 DEF Good

LEMMA SettledInv ==
    ASSUME Inv, NEW x \in Spans, Visits(x), NEW what \in OutcomeNames, NEW row,
           IsRow(row), Become(x, what, row),
           ranWith' = [y \in Spans |-> ranWith'[y]],
           \A y \in Spans : y # x => ranWith'[y] = ranWith[y],
           Good(x)'
    PROVE  Inv'
  <1>1. at = x /\ at > 0 /\ TypeInv /\ \A y \in Spans : Good(y)
    BY SpansAreNumbers DEF Inv, Visits
  <1>2. outcome[x] = "none"
    BY <1>1, SpansAreNumbers DEF Good
  <1>3. \A y \in Spans : Good(y)'
    BY <1>1, <1>2, OthersGood
  <1>4. /\ RunsTyped'
        /\ UNCHANGED <<mode, shape, request, planned>>
        /\ Target' = Target
        /\ run'[Source'] = run[Source]
        /\ at' \in 0 .. N + 1
        /\ outcome' \in [Spans -> OutcomeNames]
    BY <1>1, Settled
  <1>5. (\A y \in Spans : ToDo(y) /\ ~Satisfies(y) /\ y \notin planned => ~Refused(y))'
    <2> SUFFICES ASSUME NEW y \in Spans
                 PROVE  (ToDo(y) /\ ~Satisfies(y) /\ y \notin planned => ~Refused(y))'
      OBVIOUS
    <2> QED
      BY <1>1, <1>4, Determined DEF TypeInv
  <1>6. TypeInv'
    BY <1>1, <1>4, <1>5 DEF TypeInv, Dirty
  <1> QED
    BY <1>3, <1>6 DEF Inv

LEMMA FieldsReplaced ==
    ASSUME NEW row, IsRow(row), NEW v
    PROVE  /\ IsRow([row EXCEPT !.attrs = v]) /\ IsRow([row EXCEPT !.env = v])
           /\ IsRow([row EXCEPT !.status = v]) /\ IsRow([row EXCEPT !.outputs = v])
           /\ IsRow([row EXCEPT !.fp = v]) /\ IsRow([row EXCEPT !.infp = v])
  BY DEF IsRow

LEMMA RowsStayRows ==
    ASSUME Inv, at > 0, NEW x \in Spans
    PROVE  /\ IsRow(run[Target][x])
           /\ \A text : IsRow([run[Target][x] EXCEPT !.status = "Completed",
                                  !.outputs = <<text>>, !.fp = TextPrint(text)])
           /\ IsRow(BlockedRow(run[Target][x]))
           /\ IsRow(PreparedRow(x))
           /\ IsRow(BlockedRow(PreparedRow(x)))
           /\ \A result : IsRow(Persisted(result, PreparedRow(x)))
  <1>1. IsRow(run[Target][x])
    BY DEF Inv, TypeInv, RunsTyped, Target
  <1>2. ASSUME NEW row, IsRow(row)
        PROVE  /\ IsRow(BlockedRow(row))
               /\ \A result : IsRow(Persisted(result, row))
               /\ \A a, e, i : IsRow([row EXCEPT !.attrs = a, !.env = e, !.infp = i])
               /\ \A text : IsRow([row EXCEPT !.status = "Completed",
                                  !.outputs = <<text>>, !.fp = TextPrint(text)])
    <2>1. \A t, u, v : IsRow([row EXCEPT !.status = t, !.outputs = u, !.fp = v])
      <3> SUFFICES ASSUME NEW t, NEW u, NEW v
                   PROVE  IsRow([row EXCEPT !.status = t, !.outputs = u, !.fp = v])
        OBVIOUS
      <3>1. [row EXCEPT !.status = t, !.outputs = u, !.fp = v]
              = [[[row EXCEPT !.status = t] EXCEPT !.outputs = u] EXCEPT !.fp = v]
        OBVIOUS
      <3> QED
        BY <1>2, <3>1, FieldsReplaced
    <2>2. \A a, e, i : IsRow([row EXCEPT !.attrs = a, !.env = e, !.infp = i])
      <3> SUFFICES ASSUME NEW a, NEW e, NEW i
                   PROVE  IsRow([row EXCEPT !.attrs = a, !.env = e, !.infp = i])
        OBVIOUS
      <3>1. [row EXCEPT !.attrs = a, !.env = e, !.infp = i]
              = [[[row EXCEPT !.attrs = a] EXCEPT !.env = e] EXCEPT !.infp = i]
        OBVIOUS
      <3> QED
        BY <1>2, <3>1, FieldsReplaced
    <2> QED
      BY <2>1, <2>2 DEF BlockedRow, Persisted
  <1>3. IsRow(PreparedRow(x))
    BY <1>1, <1>2 DEF PreparedRow
  <1> QED
    BY <1>1, <1>2, <1>3

LEMMA SatisfyInv ==
    ASSUME Inv, NEW x \in Spans, Satisfy(x)
    PROVE  Inv'
  <1>1. at = x /\ at > 0 /\ ToDo(x) /\ Satisfies(x)
    BY SpansAreNumbers DEF Satisfy, Visits, ToDo
  <1>2. PICK text \in PatchOf(x).output :
            Become(x, "satisfied", [run[Target][x] EXCEPT !.status = "Completed",
                                        !.outputs = <<text>>, !.fp = TextPrint(text)])
    BY DEF Satisfy
  <1> DEFINE row == [run[Target][x] EXCEPT !.status = "Completed",
                                        !.outputs = <<text>>, !.fp = TextPrint(text)]
  <1>3. IsRow(row)
    BY <1>1, RowsStayRows
  <1> HIDE DEF row
  <1>4. Become(x, "satisfied", row) /\ "satisfied" \in OutcomeNames
    BY <1>2 DEF row, OutcomeNames
  <1>5. /\ UNCHANGED <<mode, shape, request>> /\ run'[Source'] = run[Source]
        /\ at' = x + 1 /\ outcome' = [outcome EXCEPT ![x] = "satisfied"]
    BY <1>1, <1>3, <1>4, Settled DEF Inv
  <1>7. outcome'[x] = "satisfied"
    BY <1>5 DEF Inv, TypeInv
  <1>6. Good(x)'
    BY <1>1, <1>5, <1>7, Determined, SpansAreNumbers DEF Good
  <1> QED
    BY <1>1, <1>3, <1>4, <1>6, SettledInv DEF Satisfy, Inv, TypeInv

LEMMA BlockInv ==
    ASSUME Inv, NEW x \in Spans, Block(x)
    PROVE  Inv'
  <1>0. at = x /\ at > 0 /\ ToDo(x) /\ Good(x)
    BY SpansAreNumbers DEF Block, Visits, ToDo, Inv
  <1>1. /\ at = x /\ at > 0 /\ ToDo(x) /\ Good(x)
        /\ Become(x, "blocked", BlockedRow(run[Target][x]))
        /\ IsRow(BlockedRow(run[Target][x]))
        /\ "blocked" \in OutcomeNames
    BY <1>0, RowsStayRows DEF Block, OutcomeNames
  <1>2. /\ UNCHANGED <<mode, shape, request, planned>> /\ run'[Source'] = run[Source]
        /\ at' = x + 1 /\ outcome' = [outcome EXCEPT ![x] = "blocked"]
    BY <1>1, Settled DEF Inv
  <1>3. outcome[x] = "none" /\ outcome'[x] = "blocked"
    BY <1>1, <1>2, SpansAreNumbers DEF Good, Inv, TypeInv
  <1>4. x \notin planned => BlockExplained(x)'
    <2> SUFFICES ASSUME x \notin planned PROVE BlockExplained(x)'
      OBVIOUS
    <2>1. PICK y \in Upstream(x) : outcome[y] = "blocked"
      BY DEF Block, IsBlocked
    <2>2. outcome'[y] = "blocked"
      <3>1. y \in Spans
        BY DEF Upstream, Graph!Upstream, Graph!Needs, Spans
      <3> QED
        BY <1>2, <2>1, <3>1 DEF Inv, TypeInv
    <2> QED
      BY <1>2, <2>1, <2>2, Determined DEF BlockExplained
  <1>5. Good(x)'
    BY <1>1, <1>2, <1>3, <1>4, Determined, SpansAreNumbers DEF Good
  <1> QED
    BY <1>1, <1>5, SettledInv DEF Block, Inv, TypeInv

LEMMA ReuseInv ==
    ASSUME Inv, NEW x \in Spans, Reuse(x)
    PROVE  Inv'
  <1>0. PICK row : row = run[Target][x]
    OBVIOUS
  <1>1. at = x /\ at > 0 /\ ToDo(x) /\ Good(x) /\ Reusable(x)
    BY SpansAreNumbers DEF Reuse, Goes, Visits, ToDo, Inv
  <1>2. Become(x, "reused", row) /\ IsRow(row) /\ "reused" \in OutcomeNames
    BY <1>0, <1>1, RowsStayRows DEF Reuse, OutcomeNames
  <1>3. /\ UNCHANGED <<mode, shape, request, planned>>
        /\ Source' = Source /\ Target' = Target
        /\ run'[Source] = run[Source]
        /\ \A y \in Spans : y # x => run'[Target][y] = run[Target][y]
        /\ at' = x + 1 /\ outcome' = [outcome EXCEPT ![x] = "reused"]
    BY <1>1, <1>2, Settled DEF Inv
  <1>8. run'[Target][x] = row
    <2>1. run'[Target] = [run[Target] EXCEPT ![x] = row]
      BY <1>1, <1>2, Settled DEF Inv
    <2>2. run[Target] = [y \in Spans |-> run[Target][y]]
      BY <1>1 DEF Inv, TypeInv, RunsTyped, Target
    <2> QED
      BY <2>1, <2>2
  <1>4. outcome[x] = "none" /\ outcome'[x] = "reused" /\ row = run[Source][x]
    BY <1>0, <1>1, <1>3, SpansAreNumbers DEF Good, Inv, TypeInv
  <1>5. run'[Source'] = run[Source]
    BY <1>3
  <1>6. ReuseStands(x)'
    <2>1. ~InEnvScope(x)' /\ x # request'.fork
      BY <1>1, <1>3, <1>5, Determined DEF Reusable, UpstreamUnchanged
    <2>2. Graph!Triggers(shape', Dirty', x) = Graph!Triggers(shape, Dirty, x)
      BY <1>3 DEF Dirty
    <2>3. ASSUME NEW y \in Graph!Triggers(shape, Dirty, x)
          PROVE  y < at' /\ ~IsContainer(y)' /\ Unchanged(y)'
      <3>1. ~IsContainer(y) /\ Unchanged(y)
        BY <1>1 DEF Reusable, UpstreamUnchanged
      <3>2. y \in Spans
        BY <1>1, DirtyIsClosed DEF Inv, TypeInv, Graph!Triggers
      <3>3. outcome[y] # "none"
        BY <3>1 DEF Unchanged
      <3>4. y < x
        BY <1>1, <3>2, <3>3 DEF Inv, Good
      <3>5. y # x /\ y < at'
        BY <1>3, <3>2, <3>4, SpansAreNumbers
      <3>6. outcome'[y] = outcome[y] /\ run'[Target'][y] = run[Target][y]
        BY <1>3, <3>2, <3>5 DEF Inv, TypeInv
      <3> QED
        BY <1>3, <1>5, <3>1, <3>5, <3>6 DEF IsContainer, Unchanged
    <2> QED
      BY <2>1, <2>2, <2>3 DEF ReuseStands
  <1>7. Good(x)'
    BY <1>1, <1>3, <1>4, <1>5, <1>6, <1>8, Determined, SpansAreNumbers DEF Good
  <1> QED
    BY <1>1, <1>2, <1>7, SettledInv DEF Reuse, Goes, Inv, TypeInv

\* What the plan did not block has inputs in the source run, and those that
\* differ in the branch do so because of spans before it.
LEMMA InputsDiffer ==
    ASSUME Inv, NEW x \in Spans, Goes(x), x \notin planned
    PROVE  /\ Given(Ask(x), run[Source])
           /\ Refs(Ask(x)) \subseteq Spans
           /\ \/ ~Given(Ask(x), run[Target])
              \/ Filled(Ask(x), run[Source][x].attrs, run[Target])
                   # Filled(Ask(x), run[Source][x].attrs, run[Source])
              => \E y \in Refs(Ask(x)) :
                    y < x /\ run[Target][y].outputs # run[Source][y].outputs
  <1>1. at = x /\ at > 0 /\ ToDo(x) /\ ~Satisfies(x)
    BY SpansAreNumbers DEF Goes, Visits, ToDo
  <1>2. ~Refused(x)
    BY <1>1 DEF Inv, TypeInv
  <1>3. Given(Ask(x), run[Source])
    BY <1>2, InputsGiven DEF Refused, Ask
  <1>4. Refs(Ask(x)) \subseteq Spans
    BY <1>3 DEF Given, Renders, Refs
  <1>5. ASSUME \A y \in Refs(Ask(x)) :
                  y < x => run[Target][y].outputs = run[Source][y].outputs
        PROVE  \A own : /\ Filled(Ask(x), own, run[Target]) = Filled(Ask(x), own, run[Source])
                        /\ Given(Ask(x), run[Target]) <=> Given(Ask(x), run[Source])
    <2>1. ASSUME NEW y \in Refs(Ask(x)) PROVE SameText(run[Target][y], run[Source][y])
      <3>1. CASE y < x
        BY <1>5, <3>1 DEF SameText
      <3>2. CASE ~(y < x)
        BY <1>1, <1>4, <3>2 DEF SameText, Inv, Good
      <3> QED
        BY <3>1, <3>2
    <2> QED
      BY <2>1, SameInputs
  <1> QED
    BY <1>3, <1>4, <1>5

\* Such a span is blocked for a reason.
LEMMA BlockedLateInv ==
    ASSUME Inv, NEW x \in Spans, Goes(x), NEW row, IsRow(row), Become(x, "blocked", row),
           UNCHANGED ranWith,
           x \notin planned =>
               \/ ~Given(Ask(x), run[Target])
               \/ Filled(Ask(x), run[Source][x].attrs, run[Target])
                    # Filled(Ask(x), run[Source][x].attrs, run[Source])
    PROVE  Inv'
  <1>1. at = x /\ at > 0 /\ ToDo(x) /\ Good(x) /\ "blocked" \in OutcomeNames
    BY SpansAreNumbers DEF Goes, Visits, ToDo, Inv, OutcomeNames
  <1>2. /\ UNCHANGED <<mode, shape, request, planned>>
        /\ Source' = Source /\ Target' = Target
        /\ run'[Source] = run[Source]
        /\ \A y \in Spans : y # x => run'[Target][y] = run[Target][y]
        /\ at' = x + 1 /\ outcome' = [outcome EXCEPT ![x] = "blocked"]
    BY <1>1, Settled DEF Inv
  <1>3. outcome'[x] = "blocked" /\ run'[Source'] = run[Source]
    BY <1>2 DEF Inv, TypeInv
  <1>4. x \notin planned => BlockExplained(x)'
    <2> SUFFICES ASSUME x \notin planned PROVE BlockExplained(x)'
      OBVIOUS
    <2>1. /\ Refs(Ask(x)) \subseteq Spans
          /\ \E y \in Refs(Ask(x)) : y < x /\ run[Target][y].outputs # run[Source][y].outputs
      BY InputsDiffer
    <2>2. Ask(x)' = Ask(x) /\ (InOrder(x)' <=> InOrder(x))
      BY <1>2, <1>3, Determined
    <2>3. \A y \in Refs(Ask(x)) : y < x => run'[Target][y] = run[Target][y]
      BY <1>2, <2>1, SpansAreNumbers
    <2>4. ASSUME InOrder(x)
          PROVE  \A own : /\ Filled(Ask(x), own, run'[Target]) = Filled(Ask(x), own, run[Target])
                          /\ Given(Ask(x), run'[Target]) <=> Given(Ask(x), run[Target])
      <3>1. \A y \in Refs(Ask(x)) : y < x
        BY <2>4, InputsGiven DEF InOrder, Ask
      <3>2. \A y \in Refs(Ask(x)) : SameText(run'[Target][y], run[Target][y])
        BY <2>3, <3>1 DEF SameText
      <3> QED
        BY <3>2, SameInputs
    <2> QED
      BY <1>2, <2>1, <2>2, <2>3, <2>4 DEF BlockExplained
  <1>5. Good(x)'
    BY <1>1, <1>2, <1>3, <1>4, Determined, SpansAreNumbers DEF Good
  <1> QED
    BY <1>1, <1>5, SettledInv DEF Goes, Inv, TypeInv

LEMMA LackInputsInv ==
    ASSUME Inv, NEW x \in Spans, LackInputs(x)
    PROVE  Inv'
  <1>1. Goes(x) /\ Become(x, "blocked", BlockedRow(run[Target][x])) /\ UNCHANGED ranWith
    BY DEF LackInputs
  <1>2. IsRow(BlockedRow(run[Target][x]))
    <2>1. at > 0
      BY <1>1, SpansAreNumbers DEF Goes, Visits
    <2> QED
      BY <2>1, RowsStayRows
  <1>3. ~Given(Ask(x), run[Target])
    BY InputsGiven DEF LackInputs, Lookup, Ask
  <1> QED
    BY <1>1, <1>2, <1>3, BlockedLateInv

LEMMA NowFields ==
    ASSUME NEW x
    PROVE  /\ EffectiveNow(x).attrs = Filled(Ask(x), run[Source][x].attrs, run[Target])
           /\ EffectiveNow(x) = [kind |-> shape.does[x], name |-> shape.name[x],
                                 attrs |-> EffectiveNow(x).attrs]
  BY EffectiveFields, InputsGiven DEF EffectiveNow, Lookup, Ask

LEMMA RefuseInv ==
    ASSUME Inv, NEW x \in Spans, Refuse(x)
    PROVE  Inv'
  <1>1. /\ Goes(x) /\ Become(x, "blocked", BlockedRow(PreparedRow(x))) /\ UNCHANGED ranWith
        /\ x \notin shape.badEnv
        /\ ~Check(mode, EffectiveNow(x), RecordedSpan(x))
    BY DEF Refuse, Runs
  <1>2. at = x /\ at > 0 /\ ToDo(x) /\ ~Satisfies(x)
    BY <1>1, SpansAreNumbers DEF Goes, Visits, ToDo
  <1>3. IsRow(BlockedRow(PreparedRow(x)))
    BY <1>2, RowsStayRows
  <1>4. ASSUME x \notin planned
        PROVE  Filled(Ask(x), run[Source][x].attrs, run[Target])
                 # Filled(Ask(x), run[Source][x].attrs, run[Source])
    <2>1. ~Refused(x)
      BY <1>2, <1>4 DEF Inv, TypeInv
    <2> DEFINE planned_ == Effective(x, Span(run[Source], x), run[Source], PatchOf(x))
    <2>2. Check(mode, planned_, RecordedSpan(x))
      BY <2>1 DEF Refused
    <2>3. planned_ = [kind |-> shape.does[x], name |-> shape.name[x],
                      attrs |-> Filled(Ask(x), run[Source][x].attrs, run[Source])]
      BY EffectiveFields, InputsGiven DEF Ask
    <2> HIDE DEF planned_
    <2> QED
      BY <1>1, <2>2, <2>3, NowFields
  <1> QED
    BY <1>1, <1>3, <1>4, BlockedLateInv

LEMMA ExecuteInv ==
    ASSUME Inv, NEW x \in Spans, Execute(x)
    PROVE  Inv'
  <1>1. /\ Goes(x)
        /\ HasInputs(x, run[Target], PatchOf(x))
        /\ ranWith' = [ranWith EXCEPT ![x] = [attrs |-> EffectiveNow(x).attrs,
                                              env |-> SpanEnv(x, run[Source])]]
    BY DEF Execute, Runs, Lookup
  <1>2. PICK result \in Results(mode, EffectiveNow(x), RecordedSpan(x)) :
            Become(x, "executed", Persisted(result, PreparedRow(x)))
    BY DEF Execute
  <1> DEFINE row == Persisted(result, PreparedRow(x))
  <1>3. at = x /\ at > 0 /\ ToDo(x) /\ "executed" \in OutcomeNames
    BY <1>1, SpansAreNumbers DEF Goes, Visits, ToDo, OutcomeNames
  <1>4. IsRow(row) /\ Become(x, "executed", row)
    BY <1>2, <1>3, RowsStayRows
  <1> HIDE DEF row
  <1>5. /\ UNCHANGED <<mode, shape, request, planned>>
        /\ Source' = Source /\ Target' = Target
        /\ run'[Source] = run[Source]
        /\ \A y \in Spans : y # x => run'[Target][y] = run[Target][y]
        /\ at' = x + 1 /\ outcome' = [outcome EXCEPT ![x] = "executed"]
    BY <1>3, <1>4, Settled DEF Inv
  <1>6. outcome'[x] = "executed" /\ run'[Source'] = run[Source]
    BY <1>5 DEF Inv, TypeInv
  <1>7. /\ ranWith' = [y \in Spans |-> ranWith'[y]]
        /\ \A y \in Spans : y # x => ranWith'[y] = ranWith[y]
        /\ ranWith'[x] = [attrs |-> EffectiveNow(x).attrs, env |-> SpanEnv(x, run[Source])]
    BY <1>1 DEF Inv, TypeInv
  <1>8. RanRight(x)'
    <2>1. Given(Ask(x), run[Target])
      BY <1>1, InputsGiven DEF Ask
    <2>2. Refs(Ask(x)) \subseteq Spans
      BY <2>1 DEF Given, Renders, Refs
    <2>3. /\ Ask(x)' = Ask(x) /\ (InOrder(x)' <=> InOrder(x))
          /\ SpanEnv(x, run[Source])' = SpanEnv(x, run[Source])
      BY <1>5, <1>6, Determined
    <2>4. ASSUME InOrder(x)
          PROVE  /\ Given(Ask(x), run'[Target])
                 /\ Filled(Ask(x), run[Source][x].attrs, run'[Target])
                      = Filled(Ask(x), run[Source][x].attrs, run[Target])
      <3>1. \A y \in Refs(Ask(x)) : y < x
        BY <2>4, InputsGiven DEF InOrder, Ask
      <3>2. \A y \in Refs(Ask(x)) : SameText(run'[Target][y], run[Target][y])
        BY <1>5, <2>2, <3>1, SpansAreNumbers DEF SameText
      <3> QED
        BY <2>1, <3>2, SameInputs
    <2>5. /\ ranWith'[x].attrs = Filled(Ask(x), run[Source][x].attrs, run[Target])
          /\ ranWith'[x].env = SpanEnv(x, run[Source])
      BY <1>7, NowFields
    <2> QED
      BY <1>5, <2>2, <2>3, <2>4, <2>5 DEF RanRight
  <1>9. Good(x)'
    BY <1>3, <1>5, <1>6, <1>8, Determined, SpansAreNumbers DEF Good
  <1> QED
    <2>1. Visits(x)
      BY <1>1 DEF Goes
    <2> QED
      BY <1>3, <1>4, <1>7, <1>9, <2>1, SettledInv

LEMMA PassInv ==
    ASSUME Inv, Pass
    PROVE  Inv'
  <1>1. /\ at \in Spans /\ ~Visits(at) /\ at' = at + 1
        /\ UNCHANGED <<mode, shape, run, request, planned, outcome, ranWith>>
    BY DEF Pass
  <1>2. at > 0 /\ at' > 0 /\ at' \in 0 .. N + 1 /\ TypeInv /\ \A y \in Spans : Good(y)
    BY <1>1, SpansAreNumbers DEF Inv
  <1>3. UNCHANGED <<Target, Source>> /\ run'[Source'] = run[Source]
    BY <1>1 DEF Target, Source
  <1>4. ~ToDo(at)
    BY <1>1 DEF Visits, ToDo
  <1>5. ASSUME NEW y \in Spans PROVE Good(y)'
    <2>1. y < at' /\ ToDo(y) <=> y < at /\ ToDo(y)
      BY <1>1, <1>4, SpansAreNumbers
    <2>2. /\ ToDo(y)' <=> ToDo(y)
          /\ Satisfies(y)' <=> Satisfies(y)
          /\ InEnvScope(y)' <=> InEnvScope(y)
          /\ Ask(y)' = Ask(y)
          /\ InOrder(y)' <=> InOrder(y)
          /\ Upstream(y)' = Upstream(y)
          /\ SpanEnv(y, run[Source])' = SpanEnv(y, run[Source])
      BY <1>1, <1>3, Determined
    <2>3. outcome[y] = "reused" /\ ReuseStands(y) => ReuseStands(y)'
      <3> SUFFICES ASSUME ReuseStands(y) PROVE ReuseStands(y)'
        OBVIOUS
      <3>1. Graph!Triggers(shape', Dirty', y) = Graph!Triggers(shape, Dirty, y)
        BY <1>1 DEF Dirty
      <3>2. ASSUME NEW z \in Graph!Triggers(shape, Dirty, y)
            PROVE  z < at' /\ ~IsContainer(z)' /\ Unchanged(z)'
        <4>1. z \in Spans
          BY <1>2, DirtyIsClosed DEF TypeInv, Graph!Triggers
        <4>2. z < at /\ ~IsContainer(z) /\ Unchanged(z)
          BY DEF ReuseStands
        <4>3. z < at'
          BY <1>1, <4>1, <4>2, SpansAreNumbers
        <4> QED
          BY <1>1, <1>3, <4>2, <4>3 DEF IsContainer, Unchanged
      <3> QED
        BY <1>1, <2>2, <3>1, <3>2 DEF ReuseStands
    <2>4. RanRight(y) => RanRight(y)'
      BY <1>1, <1>3, <2>2 DEF RanRight
    <2>5. BlockExplained(y) => BlockExplained(y)'
      BY <1>1, <1>3, <2>2 DEF BlockExplained
    <2> QED
      BY <1>1, <1>2, <1>3, <2>1, <2>2, <2>3, <2>4, <2>5 DEF Good
  <1>6. (\A y \in Spans : ToDo(y) /\ ~Satisfies(y) /\ y \notin planned => ~Refused(y))'
    <2> SUFFICES ASSUME NEW y \in Spans
                 PROVE  (ToDo(y) /\ ~Satisfies(y) /\ y \notin planned => ~Refused(y))'
      OBVIOUS
    <2> QED
      BY <1>1, <1>2, <1>3, Determined DEF TypeInv
  <1>7. RunsTyped'
    BY <1>1, <1>2 DEF TypeInv, RunsTyped
  <1>8. TypeInv'
    BY <1>1, <1>2, <1>3, <1>6, <1>7 DEF TypeInv, Dirty
  <1> QED
    BY <1>5, <1>8 DEF Inv

AllAsked == \A x \in Spans : ToDo(x) /\ ~Satisfies(x) /\ x \notin Blocked => ~Refused(x)

LEMMA NoneRefused == AllAsked
  BY PlanAsksExecutors DEF AllAsked, ToDo

LEMMA ForkInv ==
    ASSUME Inv, NEW x \in Spans, NEW patch \in Patches(shape.does[x]), Fork(x, patch)
    PROVE  Inv'
  <1>1. /\ UNCHANGED <<mode, shape>>
        /\ request' = [fork |-> x, patch |-> patch, dirty |-> Graph!DirtyFrom(shape, x)]
        /\ run' = Append(run, run[Target])
        /\ planned' = Blocked'
        /\ at' = 1
        /\ outcome' = [y \in Spans |-> "none"]
        /\ ranWith' = [y \in Spans |-> <<>>]
    BY DEF Fork
  <1>2. /\ RunsTyped'
        /\ Target' = Target + 1
        /\ run'[Target + 1] = run[Target]
        /\ \A k \in 1 .. Target : run'[k] = run[k]
    BY <1>1, CopyOfRun DEF Inv, TypeInv
  <1>3. Target \in Nat /\ Target >= 1
    BY DEF Inv, TypeInv, RunsTyped, Target
  <1>4. Source' = Target /\ Target' > 1 /\ run'[Target'] = run'[Source']
    BY <1>2, <1>3 DEF Source
  <1>5. (\A y \in Spans : ToDo(y) /\ ~Satisfies(y) /\ y \notin planned => ~Refused(y))'
    <2>1. AllAsked'
      BY NoneRefused, PTL
    <2> QED
      BY <1>1, <2>1 DEF AllAsked
  <1>6. TypeInv'
    <2>1. request'.fork = x /\ request'.patch = patch
          /\ Dirty' = Graph!DirtyFrom(shape', request'.fork)
      BY <1>1 DEF Dirty
    <2>2. at' \in 0 .. N + 1
      BY <1>1, SpansAreNumbers
    <2>3. outcome' \in [Spans -> OutcomeNames] /\ ranWith' = [y \in Spans |-> ranWith'[y]]
      BY <1>1 DEF OutcomeNames
    <2>4. request'.patch \in Patches(shape'.does[request'.fork])
      BY <1>1, <2>1
    <2> QED
      BY <1>2, <1>4, <1>5, <2>1, <2>2, <2>3, <2>4 DEF TypeInv
  <1>7. ASSUME NEW y \in Spans PROVE Good(y)'
    <2>1. outcome'[y] = "none" /\ ~(y < at')
      BY <1>1, SpansAreNumbers
    <2> QED
      BY <1>4, <2>1 DEF Good
  <1> QED
    BY <1>6, <1>7 DEF Inv

LEMMA StepInv == Inv /\ [Next]_vars => Inv'
  <1> SUFFICES ASSUME Inv, [Next]_vars PROVE Inv'
    OBVIOUS
  <1>1. CASE \E x \in Spans : \E patch \in Patches(shape.does[x]) : Fork(x, patch)
    BY <1>1, ForkInv
  <1>2. CASE Pass
    BY <1>2, PassInv
  <1>3. CASE \E x \in Spans : Satisfy(x) \/ Block(x) \/ Reuse(x)
    BY <1>3, SatisfyInv, BlockInv, ReuseInv
  <1>4. CASE \E x \in Spans : LackInputs(x) \/ Refuse(x) \/ Execute(x)
    BY <1>4, LackInputsInv, RefuseInv, ExecuteInv
  <1>5. CASE UNCHANGED vars
    <2>1. UNCHANGED <<mode, shape, run, request, planned, at, outcome, ranWith>>
      BY <1>5 DEF vars
    <2>2. UNCHANGED <<Target, Source, Dirty>> /\ run'[Source'] = run[Source] /\ RunsTyped'
      BY <2>1 DEF Target, Source, Dirty, Inv, TypeInv, RunsTyped
    <2>3. ASSUME NEW y
          PROVE  /\ ToDo(y)' <=> ToDo(y)
                 /\ Satisfies(y)' <=> Satisfies(y)
                 /\ InEnvScope(y)' <=> InEnvScope(y)
                 /\ Ask(y)' = Ask(y)
                 /\ InOrder(y)' <=> InOrder(y)
                 /\ Upstream(y)' = Upstream(y)
                 /\ SpanEnv(y, run[Source])' = SpanEnv(y, run[Source])
                 /\ Refused(y)' <=> Refused(y)
                 /\ Unchanged(y)' <=> Unchanged(y)
                 /\ IsContainer(y)' <=> IsContainer(y)
      BY <2>1, <2>2, Determined DEF Unchanged, IsContainer
    <2>4. TypeInv'
      BY <2>1, <2>2, <2>3 DEF Inv, TypeInv
    <2>5. ASSUME NEW y \in Spans, Good(y) PROVE Good(y)'
      <3>1. ReuseStands(y) => ReuseStands(y)'
        BY <2>1, <2>2, <2>3 DEF ReuseStands
      <3>2. RanRight(y) => RanRight(y)'
        BY <2>1, <2>2, <2>3 DEF RanRight
      <3>3. BlockExplained(y) => BlockExplained(y)'
        BY <2>1, <2>2, <2>3 DEF BlockExplained
      <3> QED
        BY <2>1, <2>2, <2>3, <2>5, <3>1, <3>2, <3>3 DEF Good
    <2> QED
      BY <2>1, <2>4, <2>5 DEF Inv
  <1> QED
    BY <1>1, <1>2, <1>3, <1>4, <1>5 DEF Next

LEMMA Invariance == Spec => []Inv
  BY InitInv, StepInv, PTL DEF Spec

-----------------------------------------------------------------------------
(* The theorems                                                            *)

\* An executed span ran with what the finished branch would render for it
\* (effective_span), patch included, unless it refers to later spans.
THEOREM InputsAreCurrent == Spec => []InputsCurrent
  <1>1. ASSUME Inv, Done, NEW x \in Spans, outcome[x] = "executed", InOrder(x)
        PROVE  LET patch == PatchOf(x)
               IN  /\ HasInputs(x, run[Target], patch)
                   /\ ranWith[x].attrs =
                         Effective(x, Span(run[Source], x), run[Target], patch).attrs
                   /\ \A attr \in DOMAIN patch.attrs :
                         ranWith[x].attrs[attr] = Render(patch.attrs[attr], run[Target])
    <2>1. Good(x)
      BY <1>1, SpansAreNumbers DEF Inv, Done
    <2>2. /\ HasInputs(x, run[Target], PatchOf(x))
          /\ ranWith[x].attrs = Filled(Ask(x), run[Source][x].attrs, run[Target])
      BY <1>1, <2>1, InputsGiven DEF Good, RanRight, Ask
    <2>3. Effective(x, Span(run[Source], x), run[Target], PatchOf(x)).attrs
            = Filled(Ask(x), run[Source][x].attrs, run[Target])
      BY EffectiveFields, InputsGiven DEF Ask
    <2>4. ASSUME NEW attr \in DOMAIN PatchOf(x).attrs
          PROVE  Filled(Ask(x), run[Source][x].attrs, run[Target])[attr]
                   = Render(PatchOf(x).attrs[attr], run[Target])
      BY <2>4, InputsGiven, SMTT(30) DEF Filled, Over, Ask, From
    <2> QED
      BY <2>2, <2>3, <2>4
  <1>2. Inv => InputsCurrent
    BY <1>1 DEF InputsCurrent
  <1> QED
    BY <1>2, Invariance, PTL

\* An environment override reaches every span below the fork span (span_env):
\* each of them runs with it or is blocked.
THEOREM OverridesReachAll == Spec => []OverrideReachesAll
  <1>1. ASSUME Inv, Done, NEW x \in Spans, InEnvScope(x), ~IsContainer(x)
        PROVE  /\ outcome[x] \in {"executed", "blocked"}
               /\ outcome[x] = "executed" =>
                     \A key \in DOMAIN request.patch.env :
                        ranWith[x].env[key] = request.patch.env[key]
    <2>1. Good(x) /\ TypeInv /\ at > 0 /\ x < at
      BY <1>1, SpansAreNumbers DEF Inv, Done
    <2>2. ToDo(x)
      BY <1>1, <2>1, DirtyIsClosed DEF TypeInv, InEnvScope, ToDo
    <2>3. ~Satisfies(x)
      <3>1. request.patch.output = {}
        BY <1>1, <2>1, PatchesApart DEF TypeInv, InEnvScope
      <3> QED
        BY <3>1 DEF Satisfies, PatchOf, NoPatch
    <2>4. outcome[x] \in {"executed", "blocked"}
      BY <1>1, <2>1, <2>2, <2>3 DEF TypeInv, OutcomeNames, Good, ReuseStands
    <2>5. ASSUME outcome[x] = "executed", NEW key \in DOMAIN request.patch.env
          PROVE  ranWith[x].env[key] = request.patch.env[key]
      BY <1>1, <2>1, <2>5 DEF Good, RanRight, SpanEnv, Over
    <2> QED
      BY <2>4, <2>5
  <1>2. Inv => OverrideReachesAll
    BY <1>1 DEF OverrideReachesAll
  <1> QED
    BY <1>2, Invariance, PTL

\* Planner and executors agree: what is blocked and was not planned to be has an
\* upstream span that is, or other inputs than the planner saw.
THEOREM PlanAnswered == Spec => []PlannedAnswers
  <1>1. ASSUME Inv, Done, NEW x \in Spans, outcome[x] = "blocked", x \notin planned
        PROVE  LET seen(rows) == Effective(x, Span(run[Source], x), rows, PatchOf(x)).attrs
               IN  \/ \E y \in Upstream(x) : outcome[y] = "blocked"
                   \/ /\ \E y \in InputReferences(x) :
                            y < x /\ run[Target][y].outputs # run[Source][y].outputs
                      /\ InOrder(x) => \/ ~HasInputs(x, run[Target], PatchOf(x))
                                       \/ seen(run[Target]) # seen(run[Source])
    <2>1. BlockExplained(x)
      BY <1>1, SpansAreNumbers DEF Inv, Done, Good
    <2>2. \A rows : Effective(x, Span(run[Source], x), rows, PatchOf(x)).attrs
                      = Filled(Ask(x), run[Source][x].attrs, rows)
      BY EffectiveFields, InputsGiven DEF Ask
    <2>3. /\ InputReferences(x) = Refs(Ask(x))
          /\ HasInputs(x, run[Target], PatchOf(x)) <=> Given(Ask(x), run[Target])
      BY InputsGiven DEF Ask
    <2> QED
      BY <2>1, <2>2, <2>3 DEF BlockExplained
  <1>2. Inv => PlannedAnswers
    BY <1>1 DEF PlannedAnswers
  <1> QED
    BY <1>2, Invariance, PTL

-----------------------------------------------------------------------------
(* What every row of every fork keeps: a model's response fits its prompt, *)
(* and a fingerprint tells the output it is the fingerprint of.            *)

RowStands(md, sh, x, row, own) ==
    /\ md = "recorded" /\ sh.does[x] = "llm" /\ row.outputs # <<>> => Answered(row, own)
    /\ RecordingsTell => PrintTells(sh, x, row)

HasPrint(kind, row) == kind # "write" => IsExecutorPrint(kind, row.status, row.fp)

RowsStand ==
    /\ mode \in Modes
    /\ at > 0 => \A x \in Spans :
          outcome[x] \in {"executed", "satisfied"} => HasPrint(shape.does[x], run[Target][x])
    /\ \A k \in 1 .. Target : \A x \in Spans : RowStands(mode, shape, x, run[k][x], run[1][x])

LEMMA FixtureServes ==
    ASSUME NEW span, Fixture(span) # 0
    PROVE  /\ Fixture(span) \in DOMAIN Fixtures
           /\ Fixtures[Fixture(span)].prompt = PromptOf(span)
           /\ Fixtures[Fixture(span)].model \in {AnyModel, ModelOf(span)}
  <1> DEFINE I == {i \in 1 .. Len(Fixtures) :
                      /\ Has(span, "prompt") /\ Fixtures[i].prompt = PromptOf(span)
                      /\ Fixtures[i].model \in {AnyModel, ModelOf(span)}}
  <1>1. Fixture(span) = IF I # {} THEN Min(I) ELSE 0
    BY DEF Fixture, SelectInSeq
  <1>2. DOMAIN Fixtures = 1 .. Len(Fixtures)
    BY InputsAssumption
  <1>3. I \in SUBSET Nat /\ I # {}
    BY <1>1
  <1>4. \E i \in I : \A j \in I : i <= j
    <2> HIDE DEF I
    <2> QED
      BY <1>3, LeastElement
  <1>5. Min(I) \in I
    <2> HIDE DEF I
    <2> QED
      BY <1>4 DEF Min
  <1> QED
    BY <1>1, <1>2, <1>3, <1>5

\* Two rows with one print have the same text, unless they failed and one has none.
LEMMA SameTextOfPrint ==
    ASSUME NEW sh, NEW x, sh.kind[x] = "work", sh.does[x] # "write", NEW a, NEW b,
           PrintTells(sh, x, a), PrintTells(sh, x, b), a.status = b.status, a.fp = b.fp,
           a.fp # None, IsExecutorPrint(sh.does[x], a.status, a.fp),
           a.status = "Failed" => a.outputs # <<>> /\ b.outputs # <<>>
    PROVE  SameText(a, b)
  <1> DEFINE told == Told(sh.does[x], a.status, a.fp)
  <1>1. Primary(a.outputs) \in told /\ Primary(b.outputs) \in told
    BY DEF PrintTells
  <1>2. ASSUME NEW s \in told, NEW t \in told, s # t
        PROVE  /\ a.status = "Failed"
               /\ {s, t} = {<<>>, <<a.fp[2]>>}
    BY <1>2 DEF Told
  <1>3. Primary(a.outputs) = Primary(b.outputs)
    <2> SUFFICES ASSUME Primary(a.outputs) # Primary(b.outputs) PROVE FALSE
      OBVIOUS
    <2>1. a.outputs = <<>> \/ b.outputs = <<>>
      <3>1. <<>> \in {Primary(a.outputs), Primary(b.outputs)}
        <4> HIDE DEF told
        <4> QED BY <1>1, <1>2
      <3>2. \A outputs : outputs # <<>> => Primary(outputs) # <<>>
        BY DEF Primary
      <3> QED BY <3>1, <3>2
    <2>2. a.status = "Failed"
      <3> HIDE DEF told
      <3> QED BY <1>1, <1>2
    <2> QED BY <2>1, <2>2
  <1>4. \A s, t : Primary(s) = Primary(t) =>
           (s = <<>> <=> t = <<>>) /\ (s # <<>> => s[1] = t[1])
    <2>1. \A v, w : <<v>> # <<>> /\ (<<v>> = <<w>> => v = w)
      OBVIOUS
    <2> TAKE s, t
    <2>2. Primary(s) = (IF s = <<>> THEN <<>> ELSE <<s[1]>>)
      BY DEF Primary
    <2>3. Primary(t) = (IF t = <<>> THEN <<>> ELSE <<t[1]>>)
      BY DEF Primary
    <2> QED
      BY <2>1, <2>2, <2>3
  <1>5. (a.outputs = <<>> <=> b.outputs = <<>>) /\ a.outputs[1] = b.outputs[1]
    BY <1>3, <1>4
  <1> QED
    BY <1>5 DEF SameText

\* What an executor answers has the fingerprint of its first output.
LEMMA ResultsTell ==
    ASSUME NEW m \in Modes, NEW span, NEW recorded, Check(m, span, recorded),
           span.kind \in WorkKinds \ {"write"}, NEW result \in Results(m, span, recorded)
    PROVE  /\ Primary(result.outputs) \in Told(span.kind, result.status, result.fp)
           /\ IsExecutorPrint(span.kind, result.status, result.fp)
  <1> DEFINE tells(r) == /\ Primary(r.outputs) \in Told(span.kind, r.status, r.fp)
                         /\ IsExecutorPrint(span.kind, r.status, r.fp)
  <1>1. ASSUME span.kind # "shell"
        PROVE  /\ \A text : tells(ReadResult(text)) /\ tells(ModelResponse(text))
               /\ \A error : tells(FailedResult(error))
               /\ \A out \in ProcessOutputs : tells(ToolResult(out))
    <2>1. \A text : tells(ReadResult(text)) /\ tells(ModelResponse(text))
      BY <1>1 DEF ReadResult, ModelResponse, Result, TextPrint, Told, Primary,
                  IsExecutorPrint
    <2>2. \A error : tells(FailedResult(error))
      BY <1>1 DEF FailedResult, Result, TextPrint, Told, Primary, IsExecutorPrint
    <2>3. ASSUME NEW out \in ProcessOutputs PROVE tells(ToolResult(out))
      <3>2. /\ ToolResult(out).outputs # <<>>
            /\ ToolResult(out).outputs[1] = out.stdout
        <4> DEFINE T == {out.stdout, out.stderr}
        <4>1. Stream(out.stderr) \in Seq(T) /\ <<out.stdout>> \in Seq(T)
          <5>1. <<>> \in Seq(T) /\ <<out.stdout>> \in Seq(T) /\ <<out.stderr>> \in Seq(T)
            OBVIOUS
          <5> QED
            BY <5>1 DEF Stream
        <4>2. /\ <<out.stdout>> \o Stream(out.stderr) # <<>>
              /\ (<<out.stdout>> \o Stream(out.stderr))[1] = out.stdout
          BY <4>1
        <4> QED
          BY <4>2 DEF ToolResult, Result
      <3>3. /\ ToolResult(out).fp = TextPrint(out.stdout)
            /\ ToolResult(out).status = IF out.code = "0" THEN "Completed" ELSE "Failed"
        BY DEF ToolResult, Result
      <3>4. <<out.stdout>> \in Told(span.kind, ToolResult(out).status, ToolResult(out).fp)
        BY <1>1, <3>3 DEF Told, TextPrint
      <3>5. IsExecutorPrint(span.kind, ToolResult(out).status, ToolResult(out).fp)
        BY <1>1, <3>3 DEF IsExecutorPrint, TextPrint
      <3> QED
        BY <3>2, <3>4, <3>5 DEF Primary
    <2> QED
      BY <2>1, <2>2, <2>3
  <1>2. ASSUME span.kind = "shell"
        PROVE  /\ \A error : tells(FailedResult(error))
               /\ \A out \in ProcessOutputs : tells(ShellResult(out))
    <2>1. \A error : tells(FailedResult(error))
      BY <1>2 DEF FailedResult, Result, TextPrint, Told, Primary, IsExecutorPrint
    <2>2. ASSUME NEW out \in ProcessOutputs PROVE tells(ShellResult(out))
      <3> DEFINE streams == Stream(out.stdout) \o Stream(out.stderr)
      <3>1. /\ ShellResult(out).fp = <<"shell", out.code, out.stdout, out.stderr>>
            /\ ShellResult(out).outputs =
                  IF streams = <<>> THEN <<<<"exit_code", out.code>>>> ELSE streams
            /\ ShellResult(out).status \in {"Completed", "Failed"}
        BY DEF ShellResult, Result
      <3>2. Told("shell", ShellResult(out).status, ShellResult(out).fp)
              = {Primary(ShellResult(out).outputs)}
        BY <3>1 DEF Told
      <3>3. IsExecutorPrint("shell", ShellResult(out).status, ShellResult(out).fp)
        BY <3>1 DEF IsExecutorPrint
      <3> QED
        BY <1>2, <3>2, <3>3
    <2> QED
      BY <2>1, <2>2
  <1> HIDE DEF tells
  <1>3. span.kind \in {"shell", "tool", "read", "llm"}
    BY DEF Check, Supported, WorkKinds
  <1>4. tells(result)
    <2>1. CASE span.kind = "shell"
      <3>1. result \in {ShellResult(out) : out \in ProcessOutputs} \cup {FailedResult(<<"start">>)}
        BY <2>1 DEF Results
      <3> QED
        BY <1>2, <2>1, <3>1
    <2>2. CASE span.kind = "tool"
      <3>1. result \in {ToolResult(out) : out \in ProcessOutputs} \cup {FailedResult(<<"start">>)}
        BY <2>2 DEF Results
      <3> QED
        BY <1>1, <2>2, <3>1
    <2>3. CASE span.kind = "read"
      <3>1. result \in {ReadResult(content) : content \in Answers} \cup {FailedResult(<<"read">>)}
        BY <2>3 DEF Results
      <3> QED
        BY <1>1, <2>3, <3>1
    <2>4. CASE span.kind = "llm"
      <3>1. m \in {"fake", "recorded", "command"}
        <4>1. m # "blocked"
          BY <2>4 DEF Check, ModelServes
        <4> QED
          BY <4>1, InputsAssumption DEF ModelModes
      <3>2. \A out \in ProcessOutputs : tells(CommandModelResult(out))
        BY <1>1, <2>4 DEF CommandModelResult
      <3>3. tells(RecordedResult(span, recorded)) /\ tells(FakeResult)
        BY <1>1, <2>4 DEF RecordedResult, FakeResult
      <3>4. result \in {RecordedResult(span, recorded), FakeResult, FailedResult(<<"start">>)}
                          \cup {CommandModelResult(out) : out \in ProcessOutputs}
        BY <2>4, <3>1 DEF Results
      <3> QED
        BY <1>1, <2>4, <3>2, <3>3, <3>4
    <2> QED
      BY <1>3, <2>1, <2>2, <2>3, <2>4
  <1> QED
    BY <1>4 DEF tells

LEMMA RowsStandAtFirst == Init => RowsStand
  <1> SUFFICES ASSUME Init PROVE RowsStand
    OBVIOUS
  <1>1. PICK r \in Recordings : shape = r.shape /\ run = <<r.rows>>
    BY DEF Init
  <1>2. Target = 1 /\ run[1] = r.rows /\ mode \in Modes /\ ~(at > 0)
    BY <1>1 DEF Target, Init
  <1>3. ASSUME NEW x \in Spans PROVE RowStands(mode, shape, x, run[1][x], run[1][x])
    <2>1. RecordingsTell => PrintTells(shape, x, run[1][x])
      BY <1>1, <1>2 DEF RecordingsTell
    <2>2. run[1][x].outputs # <<>> => Answered(run[1][x], run[1][x])
      BY DEF Answered
    <2> QED
      BY <2>1, <2>2 DEF RowStands
  <1> QED
    BY <1>2, <1>3 DEF RowsStand

\* A settled span leaves the other rows, and those of the runs before, alone.
LEMMA RowsStandSettled ==
    ASSUME Inv, RowsStand, NEW x \in Spans, Visits(x), NEW what \in OutcomeNames, NEW row,
           IsRow(row), Become(x, what, row), RowStands(mode, shape, x, row, run[1][x]),
           what \in {"executed", "satisfied"} => HasPrint(shape.does[x], row)
    PROVE  RowsStand'
  <1>1. at = x /\ at > 0 /\ TypeInv /\ Target \in Nat /\ Target > 1
    BY SpansAreNumbers DEF Inv, Visits, TypeInv, RunsTyped, Target
  <1>2. /\ UNCHANGED <<mode, shape>>
        /\ Target' = Target
        /\ run'[Target][x] = row
        /\ \A y \in Spans : y # x => run'[Target][y] = run[Target][y]
        /\ \A k \in 1 .. Target : k # Target => run'[k] = run[k]
        /\ outcome' = [outcome EXCEPT ![x] = what]
    <2>1. /\ Target' = Target
          /\ outcome' = [outcome EXCEPT ![x] = what]
          /\ UNCHANGED <<mode, shape, request, planned>>
      BY <1>1, Settled
    <2>2. run'[Target][x] = row /\ \A y \in Spans : y # x => run'[Target][y] = run[Target][y]
      <3>1. run'[Target] = [run[Target] EXCEPT ![x] = row]
        BY <1>1, Settled
      <3>2. run[Target] = [y \in Spans |-> run[Target][y]]
        BY <1>1 DEF TypeInv, RunsTyped, Target
      <3> QED
        BY <3>1, <3>2
    <2>3. \A k \in 1 .. Target : k # Target => run'[k] = run[k]
      BY <1>1, Settled
    <2> QED
      BY <2>1, <2>2, <2>3
  <1>3. run'[1] = run[1]
    BY <1>1, <1>2
  <1>5. ASSUME NEW y \in Spans, outcome'[y] \in {"executed", "satisfied"}
        PROVE  HasPrint(shape.does[y], run'[Target][y])
    <2>1. outcome'[y] = IF y = x THEN what ELSE outcome[y]
      BY <1>1, <1>2 DEF TypeInv
    <2> QED
      BY <1>1, <1>2, <1>5, <2>1 DEF RowsStand
  <1>4. ASSUME NEW k \in 1 .. Target, NEW y \in Spans
        PROVE  RowStands(mode, shape, y, run'[k][y], run[1][y])
    <2>1. CASE k = Target /\ y = x
      BY <1>2, <2>1
    <2>2. CASE k # Target \/ y # x
      <3>1. run'[k][y] = run[k][y]
        BY <1>2, <2>2
      <3> QED
        BY <3>1 DEF RowsStand
    <2> QED
      BY <2>1, <2>2
  <1> QED
    BY <1>2, <1>3, <1>4, <1>5 DEF RowsStand

LEMMA RowsStandForked ==
    ASSUME Inv, RowsStand, NEW x \in Spans, NEW patch, Fork(x, patch)
    PROVE  RowsStand'
  <1>1. /\ UNCHANGED <<mode, shape>> /\ run' = Append(run, run[Target])
        /\ \A y \in Spans : outcome'[y] = "none"
    BY DEF Fork
  <1>2. /\ Target' = Target + 1
        /\ run'[Target + 1] = run[Target]
        /\ \A k \in 1 .. Target : run'[k] = run[k]
    BY <1>1, CopyOfRun DEF Inv, TypeInv
  <1>3. Target \in Nat /\ Target >= 1
    BY DEF Inv, TypeInv, RunsTyped, Target
  <1>4. run'[1] = run[1]
    BY <1>2, <1>3
  <1>5. ASSUME NEW k \in 1 .. Target + 1 PROVE \E j \in 1 .. Target : run'[k] = run[j]
    BY <1>2, <1>3
  <1> QED
    BY <1>1, <1>2, <1>4, <1>5 DEF RowsStand

\* A replaced output is the text that its fingerprint stands for, and never that
\* of a model call.
LEMMA RowsStandSatisfied ==
    ASSUME Inv, RowsStand, NEW x \in Spans, Satisfy(x)
    PROVE  RowsStand'
  <1>1. at > 0 /\ Visits(x) /\ Satisfies(x) /\ "satisfied" \in OutcomeNames
    BY SpansAreNumbers DEF Satisfy, Visits, OutcomeNames
  <1>2. PICK text \in PatchOf(x).output :
            Become(x, "satisfied", [run[Target][x] EXCEPT !.status = "Completed",
                                        !.outputs = <<text>>, !.fp = TextPrint(text)])
    BY DEF Satisfy
  <1> DEFINE row == [run[Target][x] EXCEPT !.status = "Completed",
                                        !.outputs = <<text>>, !.fp = TextPrint(text)]
  <1>3. IsRow(row)
    BY <1>1, RowsStayRows
  <1>4. row.status = "Completed" /\ row.outputs = <<text>> /\ row.fp = TextPrint(text)
    <2>1. IsRow(run[Target][x])
      BY <1>1, RowsStayRows
    <2> QED
      BY <2>1 DEF IsRow
  <1>5. shape.does[x] \notin {"llm", "shell", "write"}
    <2>1. x = request.fork
      BY <1>1 DEF Satisfies, PatchOf, NoPatch
    <2>2. request.patch \in Patches(shape.does[x]) /\ request.patch.output # {}
      BY <1>1, <2>1 DEF Satisfies, PatchOf, Inv, TypeInv
    <2> QED
      BY <2>2, PatchesApart
  <1>6. Become(x, "satisfied", row)
    BY <1>2
  <1> HIDE DEF row
  <1>7. Primary(row.outputs) \in Told(shape.does[x], row.status, row.fp)
    BY <1>4, <1>5 DEF Told, TextPrint, Primary
  <1>8. RowStands(mode, shape, x, row, run[1][x])
    BY <1>4, <1>5, <1>7 DEF RowStands, PrintTells
  <1>9. HasPrint(shape.does[x], row)
    BY <1>4, <1>5 DEF HasPrint, IsExecutorPrint, TextPrint
  <1> QED
    BY <1>1, <1>3, <1>6, <1>8, <1>9, RowsStandSettled

LEMMA BlockedStands ==
    ASSUME NEW row, IsRow(row), NEW x
    PROVE  RowStands(mode, shape, x, BlockedRow(row), run[1][x])
  <1>1. BlockedRow(row).outputs = <<>> /\ BlockedRow(row).fp = None
    BY DEF BlockedRow, IsRow
  <1> QED
    BY <1>1 DEF RowStands, PrintTells

LEMMA RowsStandBlocked ==
    ASSUME Inv, RowsStand, NEW x \in Spans, Block(x) \/ LackInputs(x) \/ Refuse(x)
    PROVE  RowsStand'
  <1>1. at > 0 /\ Visits(x) /\ "blocked" \in OutcomeNames
    BY SpansAreNumbers DEF Block, LackInputs, Refuse, Runs, Goes, Visits, OutcomeNames
  <1>2. PICK row : /\ row \in {run[Target][x], PreparedRow(x)}
                   /\ Become(x, "blocked", BlockedRow(row))
    BY DEF Block, LackInputs, Refuse
  <1>3. IsRow(row) /\ IsRow(BlockedRow(row))
    BY <1>1, <1>2, RowsStayRows
  <1> QED
    BY <1>1, <1>2, <1>3, BlockedStands, RowsStandSettled

LEMMA RowsStandReused ==
    ASSUME Inv, RowsStand, NEW x \in Spans, Reuse(x)
    PROVE  RowsStand'
  <1>1. /\ at > 0 /\ Visits(x) /\ "reused" \in OutcomeNames
        /\ Become(x, "reused", run[Target][x])
    BY SpansAreNumbers DEF Reuse, Goes, Visits, OutcomeNames
  <1>2. IsRow(run[Target][x])
    BY <1>1, RowsStayRows
  <1>3. RowStands(mode, shape, x, run[Target][x], run[1][x])
    BY DEF RowsStand, Inv, TypeInv, RunsTyped, Target
  <1> QED
    BY <1>1, <1>2, <1>3, RowsStandSettled

\* What Answered asks of a row: its prompt, its model and its first output.
LEMMA AnsweredAs ==
    ASSUME NEW a, NEW b, NEW own, Answered(a, own), PromptOf(a) = PromptOf(b),
           ModelOf(a) = ModelOf(b), a.outputs[1] = b.outputs[1]
    PROVE  Answered(b, own)
  BY DEF Answered

LEMMA RowsStandExecuted ==
    ASSUME Inv, RowsStand, NEW x \in Spans, Execute(x)
    PROVE  RowsStand'
  <1>1. /\ at > 0 /\ Visits(x) /\ "executed" \in OutcomeNames
        /\ Check(mode, EffectiveNow(x), run[Source][x])
    BY SpansAreNumbers DEF Execute, Runs, Goes, Visits, OutcomeNames, RecordedSpan
  <1>2. PICK result \in Results(mode, EffectiveNow(x), run[Source][x]) :
            Become(x, "executed", Persisted(result, PreparedRow(x)))
    BY DEF Execute, RecordedSpan
  <1>3. PICK span : span = EffectiveNow(x)
    OBVIOUS
  <1>4. span.kind = shape.does[x]
    BY <1>3, NowFields
  <1>5. PICK row : row = Persisted(result, PreparedRow(x))
    OBVIOUS
  <1>6. IsRow(row) /\ IsRow(PreparedRow(x)) /\ IsRow(run[Target][x])
    BY <1>1, <1>5, RowsStayRows
  <1>7. PreparedRow(x).attrs = span.attrs
    BY <1>3, <1>6 DEF PreparedRow, IsRow
  <1>8. /\ row.status = result.status /\ row.outputs = result.outputs /\ row.fp = result.fp
        /\ row.attrs = span.attrs
    BY <1>5, <1>6, <1>7 DEF Persisted, IsRow
  <1>9. mode \in Modes /\ Source \in 1 .. Target
    BY <1>1 DEF RowsStand, Inv, TypeInv, RunsTyped, Target, Source
  <1>10. PrintTells(shape, x, row) /\ HasPrint(shape.does[x], row)
    <2>1. shape.does[x] \in WorkKinds
      BY <1>1, <1>3, <1>4 DEF Check, Supported
    <2>2. ASSUME shape.does[x] # "write"
          PROVE  /\ Primary(result.outputs) \in Told(shape.does[x], result.status, result.fp)
                 /\ IsExecutorPrint(shape.does[x], result.status, result.fp)
      BY <1>1, <1>2, <1>3, <1>4, <1>9, <2>1, <2>2, ResultsTell
    <2> QED
      BY <1>8, <2>2 DEF PrintTells, HasPrint
  <1>11. ASSUME mode = "recorded", shape.does[x] = "llm" PROVE Answered(row, run[1][x])
    <2>1. result = RecordedResult(span, run[Source][x])
      BY <1>2, <1>3, <1>4, <1>11 DEF Results
    <2>2. row.outputs = << IF Fixture(span) # 0 THEN Fixtures[Fixture(span)].response
                           ELSE run[Source][x].outputs[1] >>
      BY <1>8, <2>1 DEF RecordedResult, ModelResponse, Result
    <2>3. PromptOf(row) = PromptOf(span) /\ ModelOf(row) = ModelOf(span)
      BY <1>8 DEF PromptOf, ModelOf, Has
    <2>4. CASE Fixture(span) # 0
      BY <2>2, <2>3, <2>4, FixtureServes DEF Answered
    <2>5. CASE Fixture(span) = 0
      <3>1. HasRecording(span, run[Source][x])
        BY <1>1, <1>3, <1>4, <1>11, <2>5 DEF Check, ModelServes
      <3>2. Answered(run[Source][x], run[1][x])
        BY <1>9, <1>11, <3>1 DEF RowsStand, RowStands, HasRecording
      <3>3. row.outputs[1] = run[Source][x].outputs[1]
        BY <2>2, <2>5
      <3>4. /\ PromptOf(run[Source][x]) = PromptOf(row)
            /\ ModelOf(run[Source][x]) = ModelOf(row)
        BY <2>3, <3>1 DEF HasRecording
      <3> QED
        BY <3>2, <3>3, <3>4, AnsweredAs
    <2> QED
      BY <2>4, <2>5
  <1>12. RowStands(mode, shape, x, row, run[1][x])
    BY <1>10, <1>11 DEF RowStands
  <1> QED
    BY <1>1, <1>2, <1>5, <1>6, <1>10, <1>12, RowsStandSettled

LEMMA RowsKeepStanding ==
    ASSUME Inv, RowsStand, [Next]_vars
    PROVE  RowsStand'
  <1>1. CASE \E x \in Spans : \E patch \in Patches(shape.does[x]) : Fork(x, patch)
    BY <1>1, RowsStandForked
  <1>2. CASE Pass \/ UNCHANGED vars
    <2>1. UNCHANGED <<mode, shape, run, outcome>> /\ (at' > 0 => at > 0)
      BY <1>2, SpansAreNumbers DEF Pass, vars
    <2> QED
      BY <2>1 DEF RowsStand, Target
  <1>3. CASE \E x \in Spans : Satisfy(x) \/ Block(x) \/ Reuse(x)
    BY <1>3, RowsStandSatisfied, RowsStandBlocked, RowsStandReused
  <1>4. CASE \E x \in Spans : LackInputs(x) \/ Refuse(x) \/ Execute(x)
    BY <1>4, RowsStandBlocked, RowsStandExecuted
  <1> QED
    BY <1>1, <1>2, <1>3, <1>4 DEF Next

LEMMA RowsInvariance == Spec => [](Inv /\ RowsStand)
  <1>1. Inv /\ RowsStand /\ [Next]_vars => RowsStand'
    BY RowsKeepStanding
  <1> QED
    BY <1>1, RowsStandAtFirst, InitInv, StepInv, PTL DEF Spec

\* With recorded responses no model span of any fork shows a response to another
\* prompt or model than the one it was recorded for (RecordedModelExecutor).
THEOREM ResponsesFit == Spec => []ResponsesMatchPrompts
  <1>1. ASSUME Inv, RowsStand, mode = "recorded", NEW k \in DOMAIN run, NEW x \in Spans,
               shape.does[x] = "llm", run[k][x].outputs # <<>>
        PROVE  Answered(run[k][x], run[1][x])
    <2>1. k \in 1 .. Target
      BY DEF Inv, TypeInv, RunsTyped, Target
    <2> QED
      BY <1>1, <2>1 DEF RowsStand, RowStands
  <1>2. Inv /\ RowsStand => ResponsesMatchPrompts
    BY <1>1 DEF ResponsesMatchPrompts
  <1> QED
    BY <1>2, RowsInvariance, PTL

\* What a span that kept its result refers to, has kept its text.
LEMMA ReferencesKept ==
    ASSUME RecordingsTell, Inv, RowsStand, Done, NEW x \in Spans,
           outcome[x] \in {"none", "reused"}, ~IsContainer(x)
    PROVE  /\ x # request.fork
           /\ \A y \in Graph!Needs(shape, x) :
                 shape.does[y] # "write" /\ ~AmbiguousFailure(y)
                     /\ run[Source][y].outputs # <<>> =>
                 SameText(run[Source][y], run[Target][y])
  <1>1. at > 0 /\ TypeInv /\ Target \in Nat /\ Source \in 1 .. Target
    BY SpansAreNumbers DEF Inv, Done, TypeInv, RunsTyped, Target, Source
  <1>2. Good(x) /\ x < at
    BY <1>1, SpansAreNumbers DEF Inv, Done
  <1>3. x \in Dirty => outcome[x] = "reused" /\ ReuseStands(x)
    BY <1>2 DEF Good, ToDo
  <1>4. x # request.fork
    BY <1>1, <1>3, DirtyIsClosed DEF TypeInv, ReuseStands
  <1>5. ASSUME NEW y \in Graph!Needs(shape, x), shape.does[y] # "write",
               ~AmbiguousFailure(y), run[Source][y].outputs # <<>>
        PROVE  SameText(run[Source][y], run[Target][y])
    <2>1. y \in Spans /\ x \in Graph!Reached(shape, y)
      BY DEF Graph!Needs, Graph!Reached, Graph!Dependents, Spans
    <2>2. Good(y) /\ y < at
      BY <1>1, <2>1, SpansAreNumbers DEF Inv, Done
    <2>3. CASE outcome[y] \in {"none", "reused"}
      BY <2>2, <2>3 DEF Good, SameText
    <2>4. CASE outcome[y] \notin {"none", "reused"}
      <3>1. y \in Dirty /\ ~IsContainer(y)
        BY <2>2, <2>4 DEF Good, ToDo
      <3>2. x \in Dirty
        BY <1>1, <2>1, <3>1, DirtyIsClosed DEF TypeInv
      <3>3. Unchanged(y)
        BY <1>3, <2>1, <3>1, <3>2 DEF ReuseStands, Graph!Triggers
      <3>4. /\ outcome[y] \in {"executed", "satisfied"}
            /\ run[Target][y].status = run[Source][y].status
            /\ run[Target][y].fp # None
            /\ run[Target][y].fp = run[Source][y].fp
        BY <2>4, <3>3 DEF Unchanged
      <3>5. /\ PrintTells(shape, y, run[Source][y]) /\ PrintTells(shape, y, run[Target][y])
            /\ HasPrint(shape.does[y], run[Target][y])
        BY <1>1, <2>1, <3>4 DEF RowsStand, RowStands
      <3>6. shape.kind[y] = "work"
        BY <3>1 DEF IsContainer, Graph!IsContainer
      <3>7. run[Target][y].status = "Failed" => run[Target][y].outputs # <<>>
        BY <1>5, <3>4 DEF AmbiguousFailure
      <3>8. SameText(run[Target][y], run[Source][y])
        BY <1>5, <3>4, <3>5, <3>6, <3>7, SameTextOfPrint DEF HasPrint
      <3> QED
        BY <3>8 DEF SameText
    <2> QED
      BY <2>3, <2>4
  <1> QED
    BY <1>4, <1>5

\* A span that kept its recorded result (clean, or upstream_unchanged) keeps inputs
\* that its bindings still render to, whatever the commands print on either stream
\* and however they exit; but for a failed tool that had printed its new error.
THEOREM ReusedStand ==
    ASSUME RecordingsTell
    PROVE  Spec => []ReusedInputsStand
  <1>1. ASSUME Inv, RowsStand, Done, NEW x \in Spans, outcome[x] \in {"none", "reused"},
               ~IsContainer(x),
               \A y \in InputReferences(x) :
                  /\ y \in Graph!Needs(shape, x)
                  /\ shape.does[y] # "write" /\ ~AmbiguousFailure(y),
               Consistent(x, run[Source])
        PROVE  Consistent(x, run[Target])
    <2> DEFINE from == From(shape, x, NoPatch)
    <2>1. Good(x)
      BY <1>1, SpansAreNumbers DEF Inv, Done
    <2>2. run[Target][x] = run[Source][x]
      BY <1>1, <2>1 DEF Good
    <2>3. ASSUME NEW rows
          PROVE  Consistent(x, rows) <=> /\ Given(from, rows)
                                         /\ Filled(from, rows[x].attrs, rows) = rows[x].attrs
      <3>1. HasInputs(x, rows, NoPatch) <=> Given(from, rows)
        BY InputsGiven
      <3>2. Effective(x, Span(rows, x), rows, NoPatch).attrs
              = Filled(from, rows[x].attrs, rows)
        BY EffectiveFields
      <3> HIDE DEF from
      <3> QED
        BY <3>1, <3>2 DEF Consistent
    <2>4. /\ x # request.fork
          /\ \A y \in Graph!Needs(shape, x) :
                shape.does[y] # "write" /\ ~AmbiguousFailure(y)
                    /\ run[Source][y].outputs # <<>> =>
                SameText(run[Source][y], run[Target][y])
      BY <1>1, ReferencesKept
    <2>5. InputReferences(x) = Refs(from)
      BY <2>4, InputsGiven DEF PatchFor
    <2>6. \A y \in Refs(from) : run[Source][y].outputs # <<>>
      <3>1. Given(from, run[Source])
        <4> HIDE DEF from
        <4> QED BY <1>1, <2>3
      <3> HIDE DEF from
      <3> QED BY <3>1 DEF Given, Refs, Renders
    <2>7. \A y \in Refs(from) : SameText(run[Source][y], run[Target][y])
      BY <1>1, <2>4, <2>5, <2>6
    <2> HIDE DEF from
    <2> QED
      BY <1>1, <2>2, <2>3, <2>7, SameInputs
  <1>2. Inv /\ RowsStand => ReusedInputsStand
    BY <1>1 DEF ReusedInputsStand
  <1> QED
    BY <1>2, RowsInvariance, PTL

-----------------------------------------------------------------------------
(* run_shell.  What a pipe has taken is in it or has been read; and once a *)
(* reader has found its pipe empty and without a writer there is never a   *)
(* writer again, because a process gets a stream only from one that has it.*)
(* The same holds of the group once it has been killed.                    *)

Counts == [Streams -> Nat]

CommandTypeInv ==
    /\ state \in [Processes -> {"absent", "running", "exited", "failed", "killed"}]
    /\ group \subseteq {p \in Processes : state[p] = "running"}
    /\ holds \in [Processes -> SUBSET Streams]
    /\ pipe \in Counts
    /\ written \in Counts
    /\ buf \in Counts
    /\ reader \in [Streams -> {"none", "reading", "done"}]

\* Nothing is lost between a process and what is returned.
Conserved == \A s \in Streams : written[s] = pipe[s] + buf[s]

\* Before the shell is spawned nothing runs and nothing is read.
NotSpawned ==
    pc = "spawn" =>
        /\ \A p \in Processes : state[p] # "running"
        /\ \A s \in Streams : reader[s] = "none"
        /\ ~timedOut

\* A reader is done when there is nothing left to read, for good.
DoneForGood ==
    \A s \in Streams : reader[s] = "done" =>
        /\ pipe[s] = 0
        /\ \A p \in Processes : state[p] = "running" => s \notin holds[p]

Joined == pc = "returned" => \A s \in Streams : reader[s] = "done"

KilledForGood ==
    timedOut => \A p \in Processes : state[p] = "running" => p \notin group

CommandInv == CommandTypeInv /\ Conserved /\ NotSpawned /\ DoneForGood /\ Joined /\ KilledForGood

LEMMA CommandInitInv == CommandInit => CommandInv
  BY DEF CommandInit, CommandInv, CommandTypeInv, Counts, Conserved, NotSpawned, DoneForGood, Joined,
         KilledForGood, Nothing, Streams



LEMMA WriteInv ==
    ASSUME CommandInv, NEW p \in Processes, NEW s \in Streams, Write(p, s)
    PROVE  CommandInv'
  <1>1. CommandTypeInv'
    BY DEF CommandInv, CommandTypeInv, Counts, Write, feeding, caller
  <1>2. Conserved'
    BY DEF CommandInv, CommandTypeInv, Counts, Conserved, Write
  <1>3. DoneForGood'
    BY DEF CommandInv, CommandTypeInv, Counts, DoneForGood, Write, Writers, Running
  <1>4. NotSpawned' /\ Joined' /\ KilledForGood'
    BY DEF CommandInv, NotSpawned, Joined, KilledForGood, Write, caller
  <1> QED
    BY <1>1, <1>2, <1>3, <1>4 DEF CommandInv

LEMMA ForkProcessInv ==
    ASSUME CommandInv, NEW p \in Processes, NEW q \in Processes, ForkProcess(p, q)
    PROVE  CommandInv'
  <1>1. CommandTypeInv'
    BY DEF CommandInv, CommandTypeInv, ForkProcess, Starts, Running, output
  <1>2. Conserved' /\ Joined'
    BY DEF CommandInv, Conserved, Joined, ForkProcess, output, caller
  <1>3. DoneForGood'
    BY DEF CommandInv, CommandTypeInv, DoneForGood, ForkProcess, Starts, Running, output
  <1>4. NotSpawned'
    BY DEF CommandInv, NotSpawned, ForkProcess, Running, caller
  <1>5. KilledForGood'
    BY DEF CommandInv, CommandTypeInv, KilledForGood, ForkProcess, Starts, Running, caller
  <1> QED
    BY <1>1, <1>2, <1>3, <1>4, <1>5 DEF CommandInv

\* Processes that end, change their streams or leave the group take from what
\* there is.
LEMMA FewerInv ==
    ASSUME CommandInv, CommandTypeInv', UNCHANGED <<output, pc, timedOut>>,
           \A p \in Processes : state'[p] = "running" =>
               /\ state[p] = "running"
               /\ holds'[p] \subseteq holds[p]
               /\ p \in group' => p \in group
    PROVE  CommandInv'
  <1>1. Conserved' /\ Joined' /\ NotSpawned'
    BY DEF CommandInv, Conserved, Joined, NotSpawned, output
  <1>2. DoneForGood' /\ KilledForGood'
    BY DEF CommandInv, CommandTypeInv, DoneForGood, KilledForGood, output
  <1> QED
    BY <1>1, <1>2 DEF CommandInv

LEMMA EndKeeps ==
    ASSUME CommandTypeInv, NEW S \in SUBSET Processes, NEW how \in {"exited", "failed", "killed"},
           End(S, how), UNCHANGED output
    PROVE  /\ CommandTypeInv'
           /\ \A p \in Processes : state'[p] = "running" =>
                  state[p] = "running" /\ holds'[p] = holds[p]
           /\ group' \subseteq group
           /\ \A p \in S : state'[p] # "running"
  BY DEF CommandTypeInv, End, output

LEMMA ExitInv ==
    ASSUME CommandInv, (\E p \in Processes : Exit(p)) \/ Abandon
    PROVE  CommandInv'
  <1>1. PICK S \in SUBSET Processes, how \in {"exited", "failed", "killed"} :
            End(S, how) /\ UNCHANGED <<output, caller>>
    BY ShellAssumption DEF Exit, Abandon
  <1>2. /\ CommandTypeInv'
        /\ \A p \in Processes : state'[p] = "running" =>
               state[p] = "running" /\ holds'[p] = holds[p]
        /\ group' \subseteq group
    BY <1>1, EndKeeps DEF CommandInv
  <1> QED
    BY <1>1, <1>2, FewerInv DEF caller

LEMMA LeaveInv ==
    ASSUME CommandInv, NEW p \in Processes, Detach(p) \/ Redirect(p)
    PROVE  CommandInv'
  <1>1. CommandTypeInv'
    BY DEF CommandInv, CommandTypeInv, Detach, Redirect, output
  <1>2. \A q \in Processes : state'[q] = "running" =>
            state[q] = "running" /\ holds'[q] \subseteq holds[q] /\ (q \in group' => q \in group)
    BY DEF CommandInv, CommandTypeInv, Detach, Redirect
  <1> QED
    BY <1>1, <1>2, FewerInv DEF Detach, Redirect, caller


LEMMA SpawnInv ==
    ASSUME CommandInv, Spawn
    PROVE  CommandInv'
  <1>1. CommandTypeInv'
    BY ShellAssumption DEF CommandInv, CommandTypeInv, Spawn, Starts
  <1>2. Conserved' /\ NotSpawned' /\ Joined'
    BY DEF CommandInv, Conserved, NotSpawned, Joined, Spawn
  <1>3. DoneForGood'
    BY DEF CommandInv, DoneForGood, Spawn
  <1>4. KilledForGood'
    BY DEF CommandInv, NotSpawned, KilledForGood, Spawn
  <1> QED
    BY <1>1, <1>2, <1>3, <1>4 DEF CommandInv

LEMMA ReadInv ==
    ASSUME CommandInv, NEW s \in Streams, ReadToEnd(s)
    PROVE  CommandInv'
  <1>1. NotSpawned' /\ Joined' /\ KilledForGood'
    BY DEF CommandInv, CommandTypeInv, NotSpawned, Joined, KilledForGood, ReadToEnd, process, caller
  <1>2. CASE pipe[s] > 0 /\ UNCHANGED reader
    <2>1. /\ pipe' = [pipe EXCEPT ![s] = pipe[s] - 1]
          /\ buf' = [buf EXCEPT ![s] = buf[s] + 1]
          /\ UNCHANGED <<process, written, reader>>
      BY <1>2 DEF ReadToEnd
    <2>2. pipe[s] - 1 \in Nat /\ buf[s] + 1 \in Nat
      BY <1>2 DEF CommandInv, CommandTypeInv, Counts
    <2>3. CommandTypeInv'
      BY <2>1, <2>2 DEF CommandInv, CommandTypeInv, Counts, process
    <2>4. Conserved'
      BY <2>1 DEF CommandInv, CommandTypeInv, Counts, Conserved
    <2>5. DoneForGood'
      BY <1>2, <2>1 DEF CommandInv, CommandTypeInv, Counts, DoneForGood, process, ReadToEnd
    <2> QED
      BY <1>1, <2>3, <2>4, <2>5 DEF CommandInv
  <1>3. CASE pipe[s] = 0
    <2>1. CommandTypeInv' /\ Conserved'
      BY <1>3 DEF CommandInv, CommandTypeInv, Conserved, ReadToEnd, process
    <2>2. DoneForGood'
      BY <1>3 DEF CommandInv, CommandTypeInv, DoneForGood, ReadToEnd, Writers, Running, process
    <2> QED
      BY <1>1, <2>1, <2>2 DEF CommandInv
  <1> QED
    BY <1>2, <1>3 DEF ReadToEnd

LEMMA KillInv ==
    ASSUME CommandInv, KillGroup
    PROVE  CommandInv'
  <1> DEFINE killed == Running \cap group
  <1>1. End(killed, "killed") /\ UNCHANGED output
    BY DEF KillGroup
  <1>2. killed \subseteq Processes
    BY DEF Running
  <1>3. /\ CommandTypeInv'
        /\ \A p \in Processes : state'[p] = "running" =>
               state[p] = "running" /\ holds'[p] = holds[p]
        /\ group' \subseteq group
        /\ \A p \in killed : state'[p] # "running"
    BY <1>1, <1>2, EndKeeps DEF CommandInv
  <1>4. Conserved' /\ NotSpawned' /\ Joined'
    BY <1>1 DEF CommandInv, Conserved, NotSpawned, Joined, KillGroup, output
  <1>5. DoneForGood'
    BY <1>1, <1>3 DEF CommandInv, DoneForGood, output
  <1>6. KilledForGood'
    BY <1>3 DEF KilledForGood, Running
  <1> QED
    BY <1>3, <1>4, <1>5, <1>6 DEF CommandInv

\* Steps that touch neither the processes nor the pipes.
LEMMA OtherInv ==
    ASSUME CommandInv,
           ReadInput \/ SpawnFails \/ Feed \/ PollEnded \/ PollRunning \/ Sleep \/ Return
    PROVE  CommandInv'
  <1>1. UNCHANGED <<process, output, timedOut>>
    BY DEF ReadInput, SpawnFails, Feed, PollEnded, PollRunning, Sleep, Return, caller
  <1>2. CommandTypeInv' /\ Conserved' /\ DoneForGood' /\ KilledForGood'
    BY <1>1 DEF CommandInv, CommandTypeInv, Conserved, DoneForGood, KilledForGood, process, output
  <1>3. NotSpawned'
    BY <1>1 DEF CommandInv, NotSpawned, process, output, ReadInput, SpawnFails, Feed, PollEnded,
                PollRunning, Sleep, Return, caller
  <1>4. Joined'
    BY <1>1 DEF CommandInv, Joined, output, ReadInput, SpawnFails, Feed, PollEnded, PollRunning,
                Sleep, Return, caller
  <1> QED
    BY <1>2, <1>3, <1>4 DEF CommandInv

LEMMA CommandStepInv == CommandInv /\ [CommandNext]_commandVars => CommandInv'
  <1> SUFFICES ASSUME CommandInv, [CommandNext]_commandVars PROVE CommandInv'
    OBVIOUS
  <1>1. CASE \E p \in Processes : ProcessNext(p)
    BY <1>1, WriteInv, OtherInv, ExitInv DEF ProcessNext
  <1>2. CASE ProcessChoices
    BY <1>2, ForkProcessInv, LeaveInv, ExitInv DEF ProcessChoices
  <1>3. CASE Spawn \/ SpawnFails \/ Feed \/ Return
    BY <1>3, SpawnInv, OtherInv
  <1>4. CASE \E s \in Streams : ReadToEnd(s)
    BY <1>4, ReadInv
  <1>5. CASE Poll
    BY <1>5, OtherInv, KillInv DEF Poll
  <1>6. CASE UNCHANGED commandVars
    BY <1>6 DEF CommandInv, CommandTypeInv, Conserved, NotSpawned, DoneForGood, Joined, KilledForGood,
                commandVars, process, output, caller
  <1> QED
    BY <1>1, <1>2, <1>3, <1>4, <1>5, <1>6 DEF CommandNext

LEMMA CommandInvariance == CommandSpec => []CommandInv
  BY CommandInitInv, CommandStepInv, PTL DEF CommandSpec

\* What run_shell returns is everything the command has written and ever will.
THEOREM OutputIsWhole == CommandSpec => []OutputWhole
  <1>1. CommandInv => OutputWhole
    BY DEF CommandInv, CommandTypeInv, Counts, Conserved, DoneForGood, Joined, OutputWhole, Returned,
           Writers, Running
  <1> QED
    BY <1>1, CommandInvariance, PTL

\* After a timeout nothing of the group runs on in the sandbox.
THEOREM GroupIsStopped == CommandSpec => []LimitStopsGroup
  <1>1. CommandInv => LimitStopsGroup
    BY DEF CommandInv, KilledForGood, LimitStopsGroup, Returned, Running
  <1> QED
    BY <1>1, CommandInvariance, PTL
=============================================================================
