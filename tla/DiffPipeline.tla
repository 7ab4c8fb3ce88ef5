---------------------------- MODULE DiffPipeline ----------------------------
(***************************************************************************)
(* generateDiffMultithread (pkg/image/diff.go) and packDirImplMultithread   *)
(* (pkg/image/pack.go): a goroutine walks the new tree, ThreadNum others    *)
(* make the data of a file each, one writes the body.  When files are       *)
(* ordered by size the walk fills an array, and one more goroutine sends    *)
(* from it.  Failures are logged and nothing else: whoever fails stops, and *)
(* the call returns nil.  There is no context to cancel.                    *)
(***************************************************************************)
EXTENDS Integers, Sequences, FiniteSets

CONSTANTS
  Workers,    \* the goroutines that diff or compress
  Capacity,   \* of both channels: 10 in a diff, 1000 in a pack
  Files,      \* files with a body that the new tree may have
  Old,        \* those of them that the old tree has, too
  Same,       \* those with the same contents there
  Copied,     \* those that are copied all the same: the old file is empty
  SizeOf,     \* the sizes that the queue is sorted by
  PlaceInNew, \* where the data of a file is in the new image's own dimg
  Nil

ASSUME PipelineAssumption ==
  /\ Workers # {} /\ IsFiniteSet(Workers) /\ IsFiniteSet(Files)
  /\ Capacity \in Nat \ {0}
  /\ Old \subseteq Files /\ Same \subseteq Old /\ Copied \subseteq Old \ Same
  /\ SizeOf \in [Files -> Nat] /\ PlaceInNew \in [Files -> Nat]
  /\ Nil \notin Files /\ "idle" \notin Files /\ "ended" \notin Files

VARIABLES
  mode,      \* "none" and "size-ordered" are schedules of a diff; or "pack"
  tree,      \* the files of the new tree
  walked,    \* those the walk has come past
  walking,   \* the walk goes on
  queue,     \* taskArray
  tasks,     \* diffTasks or compressTasks
  closed,    \* that channel is
  worker,    \* worker[w]: "idle", the file whose data it sends, or "ended"
  writes,    \* writeTasks
  sealed,    \* that channel is closed
  writer,    \* "on", or how it went: "ended", "stopped"
  body,      \* what was written, a piece for each file; lengths are left out
  kind,      \* kind[f]: the type of f's entry, "new", "same" or "diff"
  place,     \* place[f]: the Offset of f's entry, as a place in a body
  failed,    \* history: something was logged
  returned   \* the call has

pipeline == <<mode, tree, walked, walking, queue, tasks, closed, worker, writes, sealed, writer,
              body, kind, place, failed, returned>>

\* A pack makes new entries; a diff works on those of the new image.
InitPipeline ==
  /\ mode \in {"none", "size-ordered", "pack"} /\ tree \in SUBSET Files
  /\ walked = {} /\ walking = TRUE /\ queue = {}
  /\ tasks = <<>> /\ closed = FALSE
  /\ worker = [w \in Workers |-> "idle"]
  /\ writes = <<>> /\ sealed = FALSE
  /\ writer = "on" /\ body = <<>>
  /\ kind = [f \in Files |-> "new"]
  /\ place = [f \in Files |-> IF mode = "pack" THEN 0 ELSE PlaceInNew[f]]
  /\ failed = FALSE /\ returned = FALSE

Theirs == <<worker, writes, sealed, writer, body, kind, place>>
------------------------------------------------------------------------------
(* The walk, and the goroutine that sends from the array *)

Ordered == mode = "size-ordered"

Enqueue(f) ==
  /\ walking /\ f \in tree \ walked
  /\ walked' = walked \cup {f}
  /\ IF Ordered THEN queue' = queue \cup {f} /\ UNCHANGED tasks
     ELSE Len(tasks) < Capacity /\ tasks' = Append(tasks, f) /\ UNCHANGED queue
  /\ UNCHANGED <<mode, tree, walking, closed, Theirs, failed, returned>>

\* Mutant: a failed entry ends the walk, and only a walk to the end closes.
WalkFailsOpen ==
  /\ walking /\ walked # tree
  /\ walking' = FALSE
  /\ failed' = TRUE
  /\ UNCHANGED <<mode, tree, walked, queue, tasks, closed, Theirs, returned>>

\* diffTaskQueue.Close
WalkEnds ==
  /\ walking /\ walked = tree
  /\ walking' = FALSE
  /\ closed' = ~Ordered
  /\ UNCHANGED <<mode, tree, walked, queue, tasks, Theirs, failed, returned>>

\* The next entry cannot be read, or is not one of an image.
WalkFails ==
  /\ walking /\ walked # tree
  /\ walking' = FALSE
  /\ closed' = ~Ordered
  /\ failed' = TRUE
  /\ UNCHANGED <<mode, tree, walked, queue, tasks, Theirs, returned>>

\* Files to be diffed go first, and larger ones before smaller ones.
Before(f, g) ==
  IF (f \in Old) # (g \in Old) THEN f \in Old ELSE SizeOf[f] > SizeOf[g]

Dispatch(f) ==
  /\ Ordered /\ ~walking
  /\ f \in queue /\ \A g \in queue : ~Before(g, f)
  /\ Len(tasks) < Capacity
  /\ tasks' = Append(tasks, f) /\ queue' = queue \ {f}
  /\ UNCHANGED <<mode, tree, walked, walking, closed, Theirs, failed, returned>>

DispatchEnds ==
  /\ Ordered /\ ~walking /\ ~closed
  /\ queue = {}
  /\ closed' = TRUE
  /\ UNCHANGED <<mode, tree, walked, walking, queue, tasks, Theirs, failed, returned>>
------------------------------------------------------------------------------
(* The goroutines that diff or compress *)

Producers == <<mode, tree, walked, walking, queue, closed, returned>>

OldEntry(f) == mode # "pack" /\ f \in Old
DataKind(f) == IF OldEntry(f) /\ f \notin Copied THEN "diff" ELSE "new"

\* Mutant: a file that is the same is sent on.
TakeAll(w) ==
  /\ worker[w] = "idle" /\ tasks # <<>>
  /\ tasks' = Tail(tasks)
  /\ LET f == Head(tasks) IN
     /\ kind' = [kind EXCEPT ![f] = IF OldEntry(f) /\ f \in Same THEN "same" ELSE DataKind(f)]
     /\ worker' = [worker EXCEPT ![w] = f]
  /\ UNCHANGED <<Producers, writes, sealed, writer, body, place, failed>>

\* What is made of a file is its worker's own until it is sent on.
Take(w) ==
  /\ worker[w] = "idle" /\ tasks # <<>>
  /\ tasks' = Tail(tasks)
  /\ LET f == Head(tasks) IN
     IF OldEntry(f) /\ f \in Same
     THEN kind' = [kind EXCEPT ![f] = "same"] /\ UNCHANGED worker
     ELSE kind' = [kind EXCEPT ![f] = DataKind(f)] /\ worker' = [worker EXCEPT ![w] = f]
  /\ UNCHANGED <<Producers, writes, sealed, writer, body, place, failed>>

\* The entry stays as it was.
TakeFails(w) ==
  /\ worker[w] = "idle" /\ tasks # <<>>
  /\ tasks' = Tail(tasks)
  /\ worker' = [worker EXCEPT ![w] = "ended"]
  /\ failed' = TRUE
  /\ UNCHANGED <<Producers, writes, sealed, writer, body, kind, place>>

Leave(w) ==
  /\ worker[w] = "idle" /\ tasks = <<>> /\ closed
  /\ worker' = [worker EXCEPT ![w] = "ended"]
  /\ UNCHANGED <<Producers, tasks, writes, sealed, writer, body, kind, place, failed>>

Send(w) ==
  /\ worker[w] \in Files
  /\ Len(writes) < Capacity
  /\ writes' = Append(writes, worker[w])
  /\ worker' = [worker EXCEPT ![w] = "idle"]
  /\ UNCHANGED <<Producers, tasks, sealed, writer, body, kind, place, failed>>

\* Outside of the wait group that the caller waits for.
CloseWriteTasks ==
  /\ ~sealed /\ \A w \in Workers : worker[w] = "ended"
  /\ sealed' = TRUE
  /\ UNCHANGED <<Producers, tasks, worker, writes, writer, body, kind, place, failed>>
------------------------------------------------------------------------------
(* The writer, and the caller *)

\* Mutant: the Offset is taken when the data is written.
WriteThenPlace ==
  /\ writer = "on" /\ writes # <<>>
  /\ LET f == Head(writes) IN
     /\ body' = Append(body, [file |-> f, kind |-> kind[f]])
     /\ place' = [place EXCEPT ![f] = Len(body') + 1]
  /\ writes' = Tail(writes)
  /\ UNCHANGED <<Producers, tasks, worker, sealed, writer, kind, failed>>

Write ==
  /\ writer = "on" /\ writes # <<>>
  /\ LET f == Head(writes) IN
     /\ place' = [place EXCEPT ![f] = Len(body) + 1]
     /\ body' = Append(body, [file |-> f, kind |-> kind[f]])
  /\ writes' = Tail(writes)
  /\ UNCHANGED <<Producers, tasks, worker, sealed, writer, kind, failed>>

\* The entry has its Offset, and the data is there in part or not at all.
WriteFails ==
  /\ writer = "on" /\ writes # <<>>
  /\ place' = [place EXCEPT ![Head(writes)] = Len(body) + 1]
  /\ writes' = Tail(writes)
  /\ writer' = "stopped"
  /\ failed' = TRUE
  /\ UNCHANGED <<Producers, tasks, worker, sealed, body, kind>>

WriterEnds ==
  /\ writer = "on" /\ writes = <<>> /\ sealed
  /\ writer' = "ended"
  /\ UNCHANGED <<Producers, tasks, worker, writes, sealed, body, kind, place, failed>>

\* wg.Wait(); the directories' types follow from those of the files.
Return ==
  /\ ~returned
  /\ ~walking /\ queue = {} /\ closed
  /\ writer # "on" /\ \A w \in Workers : worker[w] = "ended"
  /\ returned' = TRUE
  /\ UNCHANGED <<mode, tree, walked, walking, queue, tasks, closed, Theirs, failed>>

Walk == WalkEnds \/ \E f \in Files : Enqueue(f)
Order == DispatchEnds \/ \E f \in Files : Dispatch(f)
Work(w) == Take(w) \/ TakeFails(w) \/ Leave(w) \/ Send(w)
WriterStep == Write \/ WriteFails \/ WriterEnds

Pipe == \/ Walk \/ WalkFails \/ Order \/ CloseWriteTasks \/ WriterStep \/ Return
        \/ \E w \in Workers : Work(w)
------------------------------------------------------------------------------
PipelineTypeOK ==
  /\ mode \in {"none", "size-ordered", "pack"}
  /\ walked \subseteq tree /\ tree \subseteq Files /\ queue \subseteq walked
  /\ tasks \in Seq(Files) /\ Len(tasks) <= Capacity
  /\ writes \in Seq(Files) /\ Len(writes) <= Capacity
  /\ worker \in [Workers -> Files \cup {"idle", "ended"}]
  /\ writer \in {"on", "ended", "stopped"}
  /\ body \in Seq([file : Files, kind : {"new", "diff"}])
  /\ kind \in [Files -> {"new", "same", "diff"}] /\ place \in [Files -> Nat]
  /\ {walking, closed, sealed, failed, returned} \subseteq BOOLEAN

\* The call returns: when nothing fails, always; and when something does, if there
\* are no more files than a channel holds and one (diff.go:285, 335, pack.go:92).
\* A larger tree may leave goroutines that wait for room in a channel.
CallReturns ==
  <>(returned \/ (failed /\ Cardinality(tree) > Capacity + 1))
==============================================================================
