---------------------------- MODULE MCDiffedFile ----------------------------
(* Two new files, one that changed, one that did not, and one that was empty; a *)
(* tree has any of them. *)
EXTENDS Di3fsNode, TLC

CONSTANTS f1, f2, f3, f4, f5

MCSizeOf == (f1 :> 2) @@ (f2 :> 1) @@ (f3 :> 1) @@ (f4 :> 2) @@ (f5 :> 2)
MCPlaceInNew == (f1 :> 2) @@ (f2 :> 1) @@ (f3 :> 3) @@ (f4 :> 5) @@ (f5 :> 4)
==============================================================================
