--------------------------- MODULE MCDirectedGraph ---------------------------
(* Instances of DirectedGraph for TLC. *)
EXTENDS DirectedGraph, TLC

CONSTANTS a, b, c

NodeSymmetry == Permutations({a, b, c})
==============================================================================
