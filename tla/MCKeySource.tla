----------------------------- MODULE MCKeySource -----------------------------
(***************************************************************************)
(* Instances of RsaCypher and KeySource small enough for TLC: aggregates   *)
(* of two types, two sources, and a pair for every call to generate.       *)
(***************************************************************************)
EXTENDS RsaCypher, TLC

CONSTANTS c1, c2, c3, c4, s1, s2, k1, k2, k3, k4

TwoTypes == [a \in Aggregates |-> IF a = "order" THEN "Orders" ELSE "Users"]
Symmetry == 
  Permutations(Calls) \cup Permutations(Sources) \cup Permutations(Pairs)
=============================================================================
