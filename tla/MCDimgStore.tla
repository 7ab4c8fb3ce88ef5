----------------------------- MODULE MCDimgStore -----------------------------
(* Two images, each with a dimg of its own, and a delta between them. *)
EXTENDS DimgStore, TLC

CONSTANTS base, a, b, da, dab, db

MCIdOf == (da :> a) @@ (dab :> b) @@ (db :> b)
MCParentOf == (da :> base) @@ (dab :> a) @@ (db :> base)
==============================================================================
