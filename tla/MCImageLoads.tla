---------------------------- MODULE MCImageLoads ----------------------------
(* An image and a diff to it, and two clients. *)
EXTENDS ImageLoads, TLC

CONSTANTS d1, d2

MCBaseOf == (d1 :> Nil) @@ (d2 :> d1)
Symmetric == Permutations(Clients) \cup Permutations(Tickets)
==============================================================================
