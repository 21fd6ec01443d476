--------------------------- MODULE MCReplayInputs ---------------------------
(* ReplayInputs for TLC: a planner step with a span that fetches something, *)
(* a model call on its output and a span that uses the answer.              *)
EXTENDS ReplayInputs

A == <<"a">>
B == <<"start">>   \* a text that is also what a command says that fails to start

\* Texts of up to four lines, with hunks that touch and hunks that do not, and
\* tables that are too large.
Small == INSTANCE UnifiedDiff WITH Context <- 1, MaxCells <- 12

ASSUME DiffsOfSmallTexts ==
    \A a, b \in BoundedSeq({"a", "b"}, 4) : Small!DiffIsRight(a, b)

MCOutside == {B}
MCAnswers == {A, B}
MCComplaints == {A}
MCFixtures == <<[model |-> AnyModel, prompt |-> B, response |-> A]>>

Said(p) == <<"piece", p>>
From(x) == <<"span", x>>

MCTemplates == {<<Said("start"), From(2)>>}
MCEnvironments == {"KEY" :> "patched"}

Attributes(kind) ==
    CASE kind \in {"shell", "tool"} -> [command |-> A]
      [] kind = "read"  -> [path |-> A]
      [] kind = "write" -> [path |-> A, content |-> A]
      [] kind = "llm"   -> [prompt |-> A, model |-> <<"m">>]
      [] OTHER          -> <<>>

MainAttr(kind) ==
    CASE kind \in {"shell", "tool"} -> "command"
      [] kind = "read"  -> "path"
      [] kind = "write" -> "content"
      [] OTHER          -> "prompt"

\* Every span has produced the text A.
Row(kind, x) ==
    [attrs   |-> Attributes(kind),
     env     |-> "KEY" :> "recorded",
     status  |-> "Completed",
     outputs |-> IF kind = "step" THEN <<>> ELSE <<A>>,
     fp      |-> CASE kind = "step"  -> None
                   [] kind = "shell" -> <<"shell", "0", A, None>>
                   [] OTHER          -> TextPrint(A),
     infp    |-> <<"recorded", x>>]

Recorded(does, parent, needs, bindings, badEnv) ==
    [shape |-> [kind |-> [x \in 1 .. 4 |-> IF x = 1 THEN "step" ELSE "work"],
                does |-> does, name |-> [x \in 1 .. 4 |-> <<>>], parent |-> parent,
                needs |-> needs, badEnv |-> badEnv,
                bindings |-> [x \in 1 .. 4 |->
                    IF bindings[x] = <<>> THEN <<>> ELSE MainAttr(does[x]) :> bindings[x]]],
     rows  |-> [x \in 1 .. 4 |-> Row(does[x], x)]]

Case(fetch, use, parent, needs, prompt, input, bad) ==
    Recorded(<<"step", fetch, "llm", use>>, <<0, 1, parent, 1>>, needs,
             <<<<>>, <<>>, prompt, input>>, bad)

\* The recording of a span that failed with the same output.
Failing(x, recording) == [recording EXCEPT !.rows[x].status = "Failed"]

\* Bound along the edges, with a work span as parent, to a later span and without
\* an edge, by a malformed template, and with an environment that does not parse.
MCRecordings ==
    LET chain == {<<3, 2>>, <<4, 3>>}
    IN  {Case("read", "write", 1, chain, <<From(2)>>, <<From(3)>>, {}),
         Case("shell", "retrieval", 2, chain, <<From(2)>>, <<From(3)>>, {}),
         Case("read", "read", 1, {<<3, 2>>}, <<From(4)>>, <<From(2)>>, {}),
         Case("retrieval", "shell", 1, chain, <<From(2)>>, <<<<"bad">>>>, {}),
         Failing(2, Case("tool", "shell", 2, chain, <<Said("a")>>, <<From(3)>>, {4}))}

ASSUME MCRecordingsTell == RecordingsTell
=============================================================================
