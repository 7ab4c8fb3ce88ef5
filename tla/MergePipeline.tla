---------------------------- MODULE MergePipeline ----------------------------
(***************************************************************************)
(* mergeDiffDimgMultihread (pkg/image/merge.go): one goroutine walks the    *)
(* two trees and sends a task per file to mergeTasks, ThreadNum goroutines  *)
(* merge and send on to writeTasks, one goroutine writes the merged body,   *)
(* one closes writeTasks, and the caller waits for them all.  The first to  *)
(* fail sets gErr and cancels a context that the others select on; a send   *)
(* does not select.  What a task computes is in DimgTree.                   *)
(***************************************************************************)
EXTENDS Integers, Sequences, FiniteSets

CONSTANTS
  Workers,    \* the merge goroutines, ThreadNum of them
  Capacity,   \* of both channels, 1000 in the code
  MaxTasks    \* a bound on the files of an image that have a body

ASSUME PipelineAssumption ==
  /\ Workers # {} /\ IsFiniteSet(Workers)
  /\ Capacity \in Nat \ {0} /\ MaxTasks \in Nat

VARIABLES
  tasks,       \* how many files there are to merge
  enqueuer,    \* the walk: "sending", "closing" or "done"
  sent,        \* how many tasks it has sent
  mergeTasks,  \* the channel: the tasks in it
  closed,      \* mergeTasks is closed
  worker,      \* worker[w]: what it does, and the task it has
  writeTasks,  \* the channel: the tasks in it
  sealed,      \* writeTasks is closed
  writer,      \* "selecting" or "done"
  canceled,    \* the context is
  gErr,        \* an error was assigned to it
  mergeOut,    \* the tasks whose data was written, in order
  offset,      \* offset[t]: the Offset of task t's entry in the merged body
  caller       \* "waiting", or what it returned: "ok" or "error"

vars == <<tasks, enqueuer, sent, mergeTasks, closed, worker, writeTasks, sealed, writer,
          canceled, gErr, mergeOut, offset, caller>>

Idle == [at |-> "selecting", task |-> 0]
Over == [at |-> "done", task |-> 0]
Merging(t) == [at |-> "merging", task |-> t]
Sending(t) == [at |-> "sending", task |-> t]

Init ==
  /\ tasks \in 0..MaxTasks
  /\ enqueuer = "sending" /\ sent = 0
  /\ mergeTasks = <<>> /\ closed = FALSE
  /\ worker = [w \in Workers |-> Idle]
  /\ writeTasks = <<>> /\ sealed = FALSE
  /\ writer = "selecting"
  /\ canceled = FALSE /\ gErr = FALSE
  /\ mergeOut = <<>> /\ offset = <<>>
  /\ caller = "waiting"
------------------------------------------------------------------------------
(* The walk *)

\* Mutant: tasks are numbered from zero.
EnqueueFromZero ==
  /\ enqueuer = "sending" /\ sent < tasks
  /\ Len(mergeTasks) < Capacity
  /\ sent' = sent + 1
  /\ mergeTasks' = Append(mergeTasks, sent)
  /\ UNCHANGED <<tasks, enqueuer, closed, worker, writeTasks, sealed, writer, canceled, gErr,
                 mergeOut, offset, caller>>

Enqueue ==
  /\ enqueuer = "sending" /\ sent < tasks
  /\ Len(mergeTasks) < Capacity
  /\ sent' = sent + 1
  /\ mergeTasks' = Append(mergeTasks, sent + 1)
  /\ UNCHANGED <<tasks, enqueuer, closed, worker, writeTasks, sealed, writer, canceled, gErr,
                 mergeOut, offset, caller>>

EnqueueEnds ==
  /\ enqueuer = "sending" /\ sent = tasks
  /\ enqueuer' = "closing"
  /\ UNCHANGED <<tasks, sent, mergeTasks, closed, worker, writeTasks, sealed, writer, canceled,
                 gErr, mergeOut, offset, caller>>

\* Mutant: the context is canceled and no error is left.
EnqueueFailsQuietly ==
  /\ enqueuer = "sending" /\ sent < tasks
  /\ enqueuer' = "closing"
  /\ canceled' = TRUE
  /\ UNCHANGED <<tasks, sent, mergeTasks, closed, worker, writeTasks, sealed, writer, gErr,
                 mergeOut, offset, caller>>

\* The trees do not match at the next file.
EnqueueFails ==
  /\ enqueuer = "sending" /\ sent < tasks
  /\ enqueuer' = "closing"
  /\ gErr' = TRUE /\ canceled' = TRUE
  /\ UNCHANGED <<tasks, sent, mergeTasks, closed, worker, writeTasks, sealed, writer, mergeOut,
                 offset, caller>>

\* Mutant: the channel stays open.
ForgetMergeTasks ==
  /\ enqueuer = "closing"
  /\ enqueuer' = "done"
  /\ UNCHANGED <<tasks, sent, mergeTasks, closed, worker, writeTasks, sealed, writer, canceled,
                 gErr, mergeOut, offset, caller>>

CloseMergeTasks ==
  /\ enqueuer = "closing"
  /\ enqueuer' = "done"
  /\ closed' = TRUE
  /\ UNCHANGED <<tasks, sent, mergeTasks, worker, writeTasks, sealed, writer, canceled, gErr,
                 mergeOut, offset, caller>>
------------------------------------------------------------------------------
(* A merge goroutine; where both cases of its select are ready, either is taken. *)

Cancel(w) ==
  /\ worker[w].at = "selecting"
  /\ canceled
  /\ worker' = [worker EXCEPT ![w] = Over]
  /\ UNCHANGED <<tasks, enqueuer, sent, mergeTasks, closed, writeTasks, sealed, writer, canceled,
                 gErr, mergeOut, offset, caller>>

Receive(w) ==
  /\ worker[w].at = "selecting"
  /\ mergeTasks # <<>>
  /\ worker' = [worker EXCEPT ![w] = Merging(Head(mergeTasks))]
  /\ mergeTasks' = Tail(mergeTasks)
  /\ UNCHANGED <<tasks, enqueuer, sent, closed, writeTasks, sealed, writer, canceled, gErr,
                 mergeOut, offset, caller>>

NoMore(w) ==
  /\ worker[w].at = "selecting"
  /\ mergeTasks = <<>> /\ closed
  /\ worker' = [worker EXCEPT ![w] = Over]
  /\ UNCHANGED <<tasks, enqueuer, sent, mergeTasks, closed, writeTasks, sealed, writer, canceled,
                 gErr, mergeOut, offset, caller>>

MergeOne(w) ==
  /\ worker[w].at = "merging"
  /\ worker' = [worker EXCEPT ![w] = Sending(worker[w].task)]
  /\ UNCHANGED <<tasks, enqueuer, sent, mergeTasks, closed, writeTasks, sealed, writer, canceled,
                 gErr, mergeOut, offset, caller>>

\* Mutants: the goroutine ends and says nothing, as those of diff.go and pack.go
\* do; it ends and the wait groups never hear of it.
MergeFailsQuietly(w) ==
  /\ worker[w].at = "merging"
  /\ worker' = [worker EXCEPT ![w] = Over]
  /\ UNCHANGED <<tasks, enqueuer, sent, mergeTasks, closed, writeTasks, sealed, writer, canceled,
                 gErr, mergeOut, offset, caller>>

MergeFailsForgotten(w) ==
  /\ worker[w].at = "merging"
  /\ worker' = [worker EXCEPT ![w].at = "gone"]
  /\ gErr' = TRUE /\ canceled' = TRUE
  /\ UNCHANGED <<tasks, enqueuer, sent, mergeTasks, closed, writeTasks, sealed, writer, mergeOut,
                 offset, caller>>

MergeFails(w) ==
  /\ worker[w].at = "merging"
  /\ worker' = [worker EXCEPT ![w] = Over]
  /\ gErr' = TRUE /\ canceled' = TRUE
  /\ UNCHANGED <<tasks, enqueuer, sent, mergeTasks, closed, writeTasks, sealed, writer, mergeOut,
                 offset, caller>>

Send(w) ==
  /\ worker[w].at = "sending"
  /\ Len(writeTasks) < Capacity
  /\ writeTasks' = Append(writeTasks, worker[w].task)
  /\ worker' = [worker EXCEPT ![w] = Idle]
  /\ UNCHANGED <<tasks, enqueuer, sent, mergeTasks, closed, sealed, writer, canceled, gErr,
                 mergeOut, offset, caller>>

\* Mutant: one of the goroutines is waited for.
AWorkerDone == \E w \in Workers : worker[w].at = "done"

WorkersDone == \A w \in Workers : worker[w].at = "done"

CloseWriteTasks ==
  /\ ~sealed
  /\ WorkersDone
  /\ sealed' = TRUE
  /\ UNCHANGED <<tasks, enqueuer, sent, mergeTasks, closed, worker, writeTasks, writer, canceled,
                 gErr, mergeOut, offset, caller>>
------------------------------------------------------------------------------
(* The write goroutine and the caller *)

WriterCancel ==
  /\ writer = "selecting"
  /\ canceled
  /\ writer' = "done"
  /\ UNCHANGED <<tasks, enqueuer, sent, mergeTasks, closed, worker, writeTasks, sealed, canceled,
                 gErr, mergeOut, offset, caller>>

\* A bytes.Buffer takes any write.  Positions are counted in tasks.
Write ==
  /\ writer = "selecting"
  /\ writeTasks # <<>>
  /\ offset' = [t \in DOMAIN offset \cup {Head(writeTasks)} |->
                  IF t = Head(writeTasks) THEN Len(mergeOut) ELSE offset[t]]
  /\ mergeOut' = Append(mergeOut, Head(writeTasks))
  /\ writeTasks' = Tail(writeTasks)
  /\ UNCHANGED <<tasks, enqueuer, sent, mergeTasks, closed, worker, sealed, writer, canceled, gErr,
                 caller>>

WriterEnds ==
  /\ writer = "selecting"
  /\ writeTasks = <<>> /\ sealed
  /\ writer' = "done"
  /\ UNCHANGED <<tasks, enqueuer, sent, mergeTasks, closed, worker, writeTasks, sealed, canceled,
                 gErr, mergeOut, offset, caller>>

Return ==
  /\ caller = "waiting"
  /\ enqueuer = "done" /\ writer = "done" /\ WorkersDone
  /\ caller' = IF gErr THEN "error" ELSE "ok"
  /\ UNCHANGED <<tasks, enqueuer, sent, mergeTasks, closed, worker, writeTasks, sealed, writer,
                 canceled, gErr, mergeOut, offset>>
------------------------------------------------------------------------------
Walk == Enqueue \/ EnqueueEnds \/ EnqueueFails \/ CloseMergeTasks
Work(w) == Cancel(w) \/ Receive(w) \/ NoMore(w) \/ MergeOne(w) \/ MergeFails(w) \/ Send(w)
WriterStep == WriterCancel \/ Write \/ WriterEnds

Next == Walk \/ (\E w \in Workers : Work(w)) \/ CloseWriteTasks \/ WriterStep \/ Return

\* The runtime schedules every goroutine that can go on.
Spec == /\ Init /\ [][Next]_vars
        /\ WF_vars(Walk) /\ \A w \in Workers : WF_vars(Work(w))
        /\ WF_vars(CloseWriteTasks) /\ WF_vars(WriterStep) /\ WF_vars(Return)
------------------------------------------------------------------------------
Task == 1..MaxTasks

TypeOK ==
  /\ tasks \in 0..MaxTasks /\ sent \in 0..tasks
  /\ enqueuer \in {"sending", "closing", "done"}
  /\ mergeTasks \in Seq(Task) /\ Len(mergeTasks) <= Capacity
  /\ writeTasks \in Seq(Task) /\ Len(writeTasks) <= Capacity
  /\ mergeOut \in Seq(Task) /\ DOMAIN offset \subseteq Task /\ offset \in [DOMAIN offset -> Nat]
  /\ worker \in [Workers -> {Idle, Over} \cup [at : {"merging", "sending"}, task : Task]]
  /\ writer \in {"selecting", "done"} /\ caller \in {"waiting", "ok", "error"}
  /\ closed \in BOOLEAN /\ sealed \in BOOLEAN /\ canceled \in BOOLEAN /\ gErr \in BOOLEAN

\* A merge that returns no error has written every file, once, and its entry's
\* Offset is where its data is.
NothingIsLost ==
  caller = "ok" =>
    /\ \A t \in 1..tasks : t \in DOMAIN offset /\ offset[t] + 1 \in DOMAIN mergeOut
    /\ \A t \in 1..tasks : mergeOut[offset[t] + 1] = t
    /\ \A i \in DOMAIN mergeOut : mergeOut[i] \in 1..tasks /\ offset[mergeOut[i]] = i - 1

\* A send on a closed channel panics.
NoSendOnClosed ==
  /\ sealed => \A w \in Workers : worker[w].at # "sending"
  /\ closed => enqueuer = "done"

\* What has failed is reported.
FailureIsReported == [][caller = "waiting" /\ caller' = "ok" => ~canceled]_vars

\* The call comes back if nothing fails.
CleanRunReturns == <>(caller # "waiting" \/ canceled)

\* Whatever fails, the call comes back as long as the image has at most one file
\* more than a channel holds.  With more, a send that nobody receives any more
\* blocks its goroutine, and the caller, for good.
SmallImageReturns == tasks <= Capacity + 1 ~> caller # "waiting"
==============================================================================
