------------------------- MODULE MCCollectorSession -------------------------
(* CollectorSession for TLC: interchangeable requests, and programs with a *)
(* span below one that is not recorded, a span recorded whole within       *)
(* another, and two threads: a span recorded whole next to one that the    *)
(* layer records, or next to another that is recorded whole.               *)
EXTENDS CollectorSession, TLC

CONSTANT n1

Outer == "outer"
Inner == "inner"
Leaf  == "leaf"

MCAppSpans == {Outer, Inner, Leaf}

Program(around, outer, inner, leaf, chosen) ==
    [within |-> Outer :> None @@ Inner :> Outer @@ Leaf :> around,
     how    |-> Outer :> outer @@ Inner :> inner @@ Leaf :> leaf,
     chosen |-> chosen @@ [a \in MCAppSpans |-> NoSpan]]

Gap      == Program(Inner, "layer", "plain", "layer", Outer :> n1)
Nested   == Program(Inner, "plain", "layer", "whole", Leaf :> n1)
Threads  == Program(Outer, "layer", "whole", "layer", Inner :> n1)
TwoWhole == Program(Outer, "plain", "whole", "whole", Inner :> n1)

MCPrograms == {Gap, Nested, Threads, TwoWhole}

Symmetry == Permutations(Tasks) \cup Permutations(Allocated)

\* Bound: how many captures of a program succeed.
Captures ==
    Len(points) <= CASE program = TwoWhole -> 0 [] program = Threads -> 2 [] OTHER -> MaxPoints
=============================================================================
