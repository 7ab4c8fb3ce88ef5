---------------------------- MODULE MCUpdateServer ----------------------------
(* Two versions of an image: a dimg of the first and the delta to the second. *)
EXTENDS UpdateServer, TLC

CONSTANTS base, a, b, da, dab

MCIdOf == [d \in Digests |-> ((da :> a) @@ (dab :> b))[d]]
MCParentOf == [d \in Digests |-> ((da :> base) @@ (dab :> a))[d]]
==============================================================================
