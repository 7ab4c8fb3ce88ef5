----------------------------- MODULE Snapshotter -----------------------------
(***************************************************************************)
(* The snapshotter daemon, cmd/snapshotter: requests of several clients     *)
(* over containerd's metadata store, one directory for each snapshot, and   *)
(* a di3fs mount on those that show an image.  The store has one write      *)
(* transaction at a time; a read transaction sees what is committed, so a   *)
(* read is one step.  What a request does in the file system is seen by     *)
(* the others at once, its rows only when it commits; and directories are   *)
(* removed after the transaction that gave them up.                         *)
(***************************************************************************)
EXTENDS Integers, FiniteSets

CONSTANTS
  Clients,   \* who sends requests, one at a time each
  Tickets,   \* the random keys of snapshots in the making, and of containers
  Dimgs,     \* image ids, which are also the names of their snapshots
  BaseOf,    \* BaseOf[d]: the image that the dimg of d is a diff to, or Nil
  MaxId,     \* bound: the metadata store's ids
  Nil

Ids == 1..MaxId
Keys == Tickets \cup Dimgs
Snapshot == [id : Ids, kind : {"active", "view", "committed"},
             parent : Keys \cup {Nil}, ref : Dimgs \cup {Nil}]

ASSUME SnapshotterAssumption ==
  /\ MaxId \in Nat
  /\ Nil \notin Clients \cup Keys \cup Ids /\ Nil \notin Snapshot
  /\ Clients \cap Ids = {}
  /\ BaseOf \in [Dimgs -> Dimgs \cup {Nil}]

VARIABLES
  meta,      \* the committed rows: meta[k] is a snapshot or Nil
  seq,       \* the last id that was committed
  writer,    \* who holds the write transaction, or Nil
  dirs,      \* the directories below snapshots/: ids, and "new-" ones, named by their maker
  mounts,    \* mounts[i]: the image that di3fs shows on i/fs, or Nil
  store,     \* the images whose dimgs are in the DimgStore
  daemon,    \* "up", or how far its next start is
  call,      \* call[c]: the request of c, and how far it is
  spoiled,   \* history: ids given back after a directory may have had their name
  leaked     \* history: a write transaction was left open

snapshotter == <<meta, seq, writer, dirs, mounts, store, daemon, call, spoiled, leaked>>

Live == {k \in Keys : meta[k] # Nil}
IdsInUse == {meta[k].id : k \in Live}

\* other: the parent of what is prepared, the name under which it is committed.
Call(op, key, other, ref) ==
  [op |-> op, key |-> key, other |-> other, ref |-> ref, at |-> "begin",
   id |-> Nil, doomed |-> {}, ok |-> FALSE]
Done(ok) == [Call("none", Nil, Nil, Nil) EXCEPT !.at = "done", !.ok = ok]

InitSnapshotter ==
  /\ meta = [k \in Keys |-> Nil] /\ seq = 0 /\ writer = Nil
  /\ dirs = {} /\ mounts = [i \in Ids |-> Nil] /\ store = {}
  /\ daemon = "up" /\ call = [c \in Clients |-> Done(TRUE)]
  /\ spoiled = {} /\ leaked = FALSE

\* A request that finds nobody listening fails at once.
Send(c, q) ==
  call' = [call EXCEPT ![c] = IF daemon = "up" THEN q ELSE Done(FALSE)]

At(c, op, at) == call[c].op \in op /\ call[c].at = at
Go(c, at) == call' = [call EXCEPT ![c].at = at]
Reply(c, ok) == call' = [call EXCEPT ![c] = Done(ok)]

\* The request goes on to remove the directories ds, and answers ok after that.
Sweep(c, ds, ok) ==
  call' = [call EXCEPT ![c] = IF ds = {} THEN Done(ok)
                              ELSE [Call("sweep", Nil, Nil, Nil) EXCEPT !.doomed = ds, !.ok = ok]]

Creating == {"prepare", "view"}
Writing == Creating \cup {"commit", "remove", "update", "cleanup"}
------------------------------------------------------------------------------
\* TransactionContext(ctx, true) waits for the transaction before it.  A create
\* then makes its temporary directory.
Begin(c) ==
  /\ At(c, Writing, "begin")
  /\ writer = Nil
  /\ writer' = c
  /\ Go(c, "inside")
  /\ dirs' = IF call[c].op \in Creating THEN dirs \cup {c} ELSE dirs
  /\ UNCHANGED <<meta, seq, mounts, store, daemon, spoiled, leaked>>

\* What storage.CreateSnapshot accepts, and os.Stat of the parent's directory.
Creatable(q) ==
  /\ seq < MaxId
  /\ meta[q.key] = Nil
  /\ q.other # Nil => /\ meta[q.other] # Nil
                      /\ meta[q.other].kind = "committed"
                      /\ meta[q.other].id \in dirs

\* createSnapshot, before and at the rename.  The deferred functions roll back
\* before they remove the directories.
CreateRow(c) ==
  /\ At(c, Creating, "inside")
  /\ Creatable(call[c])
  /\ seq + 1 \notin dirs
  /\ dirs' = (dirs \ {c}) \cup {seq + 1}
  /\ call' = [call EXCEPT ![c].at = "committing", ![c].id = seq + 1]
  /\ UNCHANGED <<meta, seq, writer, mounts, store, daemon, spoiled, leaked>>

\* Mutant: the transaction is left to the error, and the error does not end it.
CreateFailsInside(c) ==
  /\ At(c, Creating, "inside")
  /\ Sweep(c, {c}, FALSE)
  /\ UNCHANGED <<meta, seq, writer, dirs, mounts, store, daemon, spoiled, leaked>>

\* Any of its steps may fail for a reason of its own, the rename included.
CreateFails(c) ==
  /\ At(c, Creating, "inside")
  /\ writer' = Nil
  /\ \/ Sweep(c, {c}, FALSE) /\ UNCHANGED spoiled
     \/ /\ Creatable(call[c])
        /\ Sweep(c, {c, seq + 1}, FALSE)
        /\ spoiled' = spoiled \cup {seq + 1}
  /\ UNCHANGED <<meta, seq, dirs, mounts, store, daemon, leaked>>

\* mounts checks the layers below, if there are any.
Mounts(c) == IF call[c].other # Nil THEN Go(c, "checking") ELSE Reply(c, TRUE)

CreateCommits(c) ==
  /\ At(c, Creating, "committing")
  /\ LET q == call[c] IN
     /\ meta' = [meta EXCEPT ![q.key] =
                   [id |-> q.id, kind |-> IF q.op = "view" THEN "view" ELSE "active",
                    parent |-> q.other, ref |-> q.ref]]
     /\ seq' = q.id
     /\ IF q.ref # Nil THEN Go(c, "mounting") ELSE Mounts(c)
  /\ writer' = Nil
  /\ UNCHANGED <<dirs, mounts, store, daemon, spoiled, leaked>>

CreateCommitFails(c) ==
  /\ At(c, Creating, "committing")
  /\ writer' = Nil
  /\ Sweep(c, {call[c].id}, FALSE)
  /\ spoiled' = spoiled \cup {call[c].id}
  /\ UNCHANGED <<meta, seq, dirs, mounts, store, daemon, leaked>>
------------------------------------------------------------------------------
\* What the dimg of d needs below it: GetDimgPathsWithDimgId follows the bases.
Stack(d) ==
  LET Down[n \in 0..Cardinality(Dimgs)] ==
        IF n = 0 THEN {d} ELSE Down[n - 1] \cup ({BaseOf[e] : e \in Down[n - 1]} \ {Nil})
  IN Down[Cardinality(Dimgs)]

\* Mutant: the dimgs below are not asked for.
MountBeginsAnyway(c) ==
  /\ At(c, {"prepare"}, "mounting")
  /\ call[c].key \in Live
  /\ store' = store \cup {call[c].ref}
  /\ call' = [call EXCEPT ![c].at = "starting", ![c].id = meta[call[c].key].id]
  /\ UNCHANGED <<meta, seq, writer, dirs, mounts, daemon, spoiled, leaked>>

\* prepareRemoteSnapshot looks the key up, and Di3FSManager.Mount adds the dimg
\* and looks for its stack.
MountBegins(c) ==
  /\ At(c, {"prepare"}, "mounting")
  /\ LET q == call[c] IN
     \/ /\ q.key \in Live
        /\ store' = store \cup {q.ref}
        /\ IF Stack(q.ref) \subseteq store'
           THEN call' = [call EXCEPT ![c].at = "starting", ![c].id = meta[q.key].id]
           ELSE Reply(c, FALSE)
     \/ Reply(c, FALSE) /\ UNCHANGED store
  /\ UNCHANGED <<meta, seq, writer, dirs, mounts, daemon, spoiled, leaked>>

\* di3fs.Do in its goroutine: it mounts; or it returns because plugins cannot be
\* loaded, and nobody sends on mountDone.
MountDone(c) ==
  /\ At(c, {"prepare"}, "starting")
  /\ LET i == call[c].id IN
     \/ i \in dirs /\ mounts' = [mounts EXCEPT ![i] = call[c].ref] /\ Mounts(c)
     \/ Go(c, "hung") /\ UNCHANGED mounts
  /\ UNCHANGED <<meta, seq, writer, dirs, store, daemon, spoiled, leaked>>

\* checkAvailability: the parents are all there.
Available(key) ==
  LET Up[n \in 0..Cardinality(Keys)] ==
        IF n = 0 THEN key
        ELSE IF Up[n - 1] \in Live THEN meta[Up[n - 1]].parent ELSE Up[n - 1]
  IN Up[Cardinality(Keys)] = Nil

Check(c) ==
  /\ At(c, Creating, "checking")
  /\ Reply(c, Available(call[c].other))
  /\ UNCHANGED <<meta, seq, writer, dirs, mounts, store, daemon, spoiled, leaked>>
------------------------------------------------------------------------------
\* commit, and storage.CommitActive.
CommitRow(c) ==
  /\ At(c, {"commit"}, "inside")
  /\ LET q == call[c] IN
     /\ q.key \in Live /\ meta[q.key].kind = "active"
     /\ q.other \notin Live
     /\ meta[q.key].id \in dirs
  /\ Go(c, "committing")
  /\ UNCHANGED <<meta, seq, writer, dirs, mounts, store, daemon, spoiled, leaked>>

CommitRefused(c) ==
  /\ At(c, {"commit"}, "inside")
  /\ LET q == call[c] IN
     q.key \in Live => /\ meta[q.key].id \in dirs
                       /\ q.other \in Live \/ meta[q.key].kind # "active"
  /\ writer' = Nil
  /\ Reply(c, FALSE)
  /\ UNCHANGED <<meta, seq, dirs, mounts, store, daemon, spoiled, leaked>>

\* The error of fs.DiskUsage is an err of its own: nothing is rolled back.
UsageFails(c) ==
  /\ At(c, {"commit"}, "inside")
  /\ call[c].key \in Live
  /\ leaked' = TRUE
  /\ Reply(c, FALSE)
  /\ UNCHANGED <<meta, seq, writer, dirs, mounts, store, daemon, spoiled>>

CommitCommits(c) ==
  /\ At(c, {"commit"}, "committing")
  /\ LET q == call[c] IN
     meta' = [meta EXCEPT ![q.other] = [meta[q.key] EXCEPT !.kind = "committed"],
                          ![q.key] = Nil]
  /\ writer' = Nil
  /\ Reply(c, TRUE)
  /\ UNCHANGED <<seq, dirs, mounts, store, daemon, spoiled, leaked>>
------------------------------------------------------------------------------
HasChild(k) == \E j \in Live : meta[j].parent = k

\* getCleanupDirectories lists what no row names; in Remove the row is gone already.
RemoveRow(c) ==
  /\ At(c, {"remove"}, "inside")
  /\ LET k == call[c].key IN
     /\ k \in Live /\ ~HasChild(k)
     /\ call' = [call EXCEPT ![c].at = "committing",
                             ![c].doomed = dirs \ {meta[j].id : j \in Live \ {k}}]
  /\ UNCHANGED <<meta, seq, writer, dirs, mounts, store, daemon, spoiled, leaked>>

RemoveRefused(c) ==
  /\ At(c, {"remove"}, "inside")
  /\ writer' = Nil
  /\ Reply(c, FALSE)
  /\ UNCHANGED <<meta, seq, dirs, mounts, store, daemon, spoiled, leaked>>

RemoveCommits(c) ==
  /\ At(c, {"remove"}, "committing")
  /\ meta' = [meta EXCEPT ![call[c].key] = Nil]
  /\ writer' = Nil
  /\ Sweep(c, call[c].doomed, TRUE)
  /\ UNCHANGED <<seq, dirs, mounts, store, daemon, spoiled, leaked>>

\* A commit that fails has rolled back.
CommitFails(c) ==
  /\ At(c, {"commit", "remove"}, "committing")
  /\ writer' = Nil
  /\ Reply(c, FALSE)
  /\ UNCHANGED <<meta, seq, dirs, mounts, store, daemon, spoiled, leaked>>

\* Update: when storage.UpdateInfo fails, what Rollback answers is the answer.
UpdateRow(c) ==
  /\ At(c, {"update"}, "inside")
  /\ writer' = Nil
  /\ \E ok \in BOOLEAN : Reply(c, ok)
  /\ UNCHANGED <<meta, seq, dirs, mounts, store, daemon, spoiled, leaked>>

\* Mutant: a read transaction, beside the one that writes.
CleanUpBeside(c) ==
  /\ At(c, {"cleanup"}, "begin")
  /\ Sweep(c, dirs \ IdsInUse, TRUE)
  /\ UNCHANGED <<meta, seq, writer, dirs, mounts, store, daemon, spoiled, leaked>>

CleanUp(c) ==
  /\ At(c, {"cleanup"}, "inside")
  /\ writer' = Nil
  /\ Sweep(c, dirs \ IdsInUse, TRUE)
  /\ UNCHANGED <<meta, seq, dirs, mounts, store, daemon, spoiled, leaked>>

\* cleanupSnapshotDirectory: fusermount3 fails where nothing is mounted, or where a
\* file is open; RemoveAll comes next in any case, and cannot remove a mount.
SweepUnmount(c, i) ==
  /\ At(c, {"sweep"}, "begin")
  /\ i \in call[c].doomed
  /\ call' = [call EXCEPT ![c].at = "deleting", ![c].id = i]
  /\ \/ mounts' = [mounts EXCEPT ![i] = Nil]
     \/ mounts[i] # Nil /\ UNCHANGED mounts
  /\ UNCHANGED <<meta, seq, writer, dirs, store, daemon, spoiled, leaked>>

SweepDelete(c) ==
  /\ At(c, {"sweep"}, "deleting")
  /\ LET i == call[c].id IN
     /\ dirs' = IF mounts[i] # Nil THEN dirs ELSE dirs \ {i}
     /\ Sweep(c, call[c].doomed \ {i}, call[c].ok)
  /\ UNCHANGED <<meta, seq, writer, mounts, store, daemon, spoiled, leaked>>

\* Nothing is ever mounted in a temporary directory.
SweepNew(c, maker) ==
  /\ At(c, {"sweep"}, "begin")
  /\ maker \in call[c].doomed
  /\ dirs' = dirs \ {maker}
  /\ Sweep(c, call[c].doomed \ {maker}, call[c].ok)
  /\ UNCHANGED <<meta, seq, writer, mounts, store, daemon, spoiled, leaked>>
------------------------------------------------------------------------------
\* The process ends: a mount that fails is fatal, as is a map written twice at
\* once, or it is told to.  Its requests fail.  Nobody looks at what it leaves
\* before main has unmounted every di3fs and removed the root directory, the
\* metadata and the dimgs with it, so the end and that are one step.
Restart ==
  /\ daemon = "up"
  /\ daemon' = "cleared"
  /\ call' = [c \in Clients |-> IF call[c].at = "done" THEN call[c] ELSE Done(FALSE)]
  /\ meta' = [k \in Keys |-> Nil] /\ seq' = 0 /\ writer' = Nil
  /\ dirs' = {} /\ mounts' = [i \in Ids |-> Nil] /\ store' = {}
  /\ spoiled' = {} /\ leaked' = FALSE

Serve ==
  /\ daemon = "emptied"
  /\ daemon' = "up"
  /\ UNCHANGED <<meta, seq, writer, dirs, mounts, store, call, spoiled, leaked>>

Create(c) == CreateRow(c) \/ CreateFails(c) \/ CreateCommits(c) \/ CreateCommitFails(c)
Mount(c) == MountBegins(c) \/ MountDone(c) \/ Check(c)
Commit(c) == CommitRow(c) \/ CommitRefused(c) \/ UsageFails(c) \/ CommitCommits(c)
Remove(c) == RemoveRow(c) \/ RemoveRefused(c) \/ RemoveCommits(c)
SweepStep(c) == \/ SweepDelete(c)
                \/ \E i \in Ids : SweepUnmount(c, i)
                \/ \E maker \in Clients : SweepNew(c, maker)

Handle(c) == \/ Create(c) \/ Mount(c) \/ Commit(c) \/ Remove(c)
             \/ CommitFails(c) \/ UpdateRow(c) \/ CleanUp(c) \/ SweepStep(c)
==============================================================================
