------------------------------ MODULE Di3fsNode ------------------------------
(***************************************************************************)
(* A file of a diff that is opened and read in the mount (Di3fsNode in      *)
(* pkg/di3fs/di3fs.go), after the diff or the pack that made it, whatever   *)
(* that logged.  Nodes share nothing, so there is one.  Its lock is held    *)
(* for a whole Open.  Open returns no handle, so go-fuse has nothing to     *)
(* call Release of, and openCount never falls.                              *)
(***************************************************************************)
EXTENDS DiffPipeline

VARIABLES
  node,      \* the file of the node, or Nil before it is opened; openCount > 0
  patched,   \* what patchedFile has: a file's contents, "part" of them, or Nil
  stumbled,  \* history: an Open of it has failed
  seen       \* what the last Read gave: contents, "part", "EIO", or Nil before it

di3fs == <<node, patched, stumbled, seen>>
vars == <<pipeline, di3fs>>

Init == /\ InitPipeline
        /\ node = Nil /\ patched = Nil /\ stumbled = FALSE /\ seen = Nil

Garbage == [file |-> Nil, kind |-> "new"]
Piece(f) == IF place[f] \in 1..Len(body) THEN body[place[f]] ELSE Garbage

\* What a node makes of its entry and the dimgs, with readBaseFiles for what is the
\* same or a delta.  Data of another file decompresses as well; a delta of another
\* gives anything or an error.
Contents(f) ==
  IF kind[f] = "same" THEN IF f \in Same THEN f ELSE Nil
  ELSE IF Piece(f).kind # kind[f] THEN Nil
  ELSE IF kind[f] = "new" \/ Piece(f).file = f THEN Piece(f).file
  ELSE Nil

\* Mutant: the digest is not verified.
OpenBuildsAnything(f) ==
  /\ returned /\ node = Nil
  /\ node' = f
  /\ patched' = Contents(f)
  /\ UNCHANGED <<pipeline, stumbled, seen>>

\* The first Open makes a temporary file of the contents, which must have the digest.
OpenBuilds(f) ==
  /\ returned /\ node = Nil
  /\ Contents(f) = f
  /\ node' = f
  /\ patched' = f
  /\ UNCHANGED <<pipeline, stumbled, seen>>

\* No contents, another digest, no temporary file, or one that is not written to its
\* end.  It counts as an Open, so that the next one succeeds and builds nothing.
OpenFails(f) ==
  /\ returned /\ node = Nil
  /\ node' = f
  /\ stumbled' = TRUE
  /\ \/ UNCHANGED patched
     \/ Contents(f) = f /\ patched' = "part"
  /\ UNCHANGED <<pipeline, seen>>

Read ==
  /\ node # Nil
  /\ seen' = IF patched = Nil THEN "EIO" ELSE patched
  /\ UNCHANGED <<pipeline, node, patched, stumbled>>

Next == \/ Pipe /\ UNCHANGED di3fs
        \/ \E f \in tree : OpenBuilds(f) \/ OpenFails(f)
        \/ Read

\* Goroutines that can go on do; a walk that waits for room does not fail instead.
Spec == /\ Init /\ [][Next]_vars
        /\ WF_vars(Walk /\ UNCHANGED di3fs) /\ WF_vars(Order /\ UNCHANGED di3fs)
        /\ \A w \in Workers : WF_vars(Work(w) /\ UNCHANGED di3fs)
        /\ WF_vars(CloseWriteTasks /\ UNCHANGED di3fs) /\ WF_vars(WriterStep /\ UNCHANGED di3fs)
        /\ WF_vars(Return /\ UNCHANGED di3fs)
------------------------------------------------------------------------------
TypeOK ==
  /\ PipelineTypeOK
  /\ node \in tree \cup {Nil}
  /\ patched \in Files \cup {Nil, "part"} /\ stumbled \in BOOLEAN
  /\ seen \in Files \cup {Nil, "part", "EIO"}

\* A diff or a pack that nothing failed in shows every file, whatever order its
\* pieces were made and written in: each entry's Type and Offset are those of its
\* own piece.
CleanIsWhole ==
  returned /\ ~failed => \A f \in tree : Contents(f) = f

\* What a failure left behind (diff.go:335, pack.go:92: the call returned nil) never
\* shows: a read gives the file, unless an Open of it has reported an error
\* (di3fs.go:189, 203: the later ones do not).
ReadsAreTrue == stumbled \/ seen \in {Nil, node}
==============================================================================
