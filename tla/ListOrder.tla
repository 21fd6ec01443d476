----------------------------- MODULE ListOrder -----------------------------
(***************************************************************************)
(* The order of lists: by a key and, among equals, by the id.  A query     *)
(* says so (ORDER BY key, id); the in-memory store sorts values that come  *)
(* out of a map in the order of their ids by a sort that is stable.        *)
(*                                                                         *)
(* The library's SetToSortSeq picks one of all permutations; here a member *)
(* has the position that the members before it leave it, which can also be *)
(* reasoned about.                                                         *)
(***************************************************************************)
EXTENDS Naturals, FiniteSets

\* The members of S that come before a, by the functions key and id on S.
Before(S, key, id, a) ==
    {b \in S : key[b] < key[a] \/ (key[b] = key[a] /\ id[b] < id[a])}

\* The ids of S in order.
InOrder(S, key, id) ==
    [i \in 1..Cardinality(S) |->
        id[CHOOSE a \in S : Cardinality(Before(S, key, id, a)) = i - 1]]
============================================================================
