------------------------- MODULE MergePipelineProofs -------------------------
(***************************************************************************)
(* Proofs about MergePipeline, for any number of goroutines, files and      *)
(* places in the channels.                                                  *)
(***************************************************************************)
EXTENDS MergePipeline, SequenceTheorems, TLAPS

\* Where the tasks are that the walk has sent: the channel holds the newest, in
\* order; a taken task is with one goroutine, in writeTasks, or written.
Taken == 1..(sent - Len(mergeTasks))
Holds(w, t) == worker[w].at \in {"merging", "sending"} /\ worker[w].task = t

Queued ==
  /\ Len(mergeTasks) <= sent
  /\ \A i \in 1..Len(mergeTasks) : mergeTasks[i] = sent - Len(mergeTasks) + i

InPlace ==
  /\ \A w \in Workers, t \in Task : Holds(w, t) => t \in Taken
  /\ \A i \in 1..Len(writeTasks) : writeTasks[i] \in Taken
  /\ \A i \in 1..Len(mergeOut) : mergeOut[i] \in Taken

Apart ==
  /\ \A w, v \in Workers, t \in Task : Holds(w, t) /\ Holds(v, t) => w = v
  /\ \A i, j \in 1..Len(writeTasks) : writeTasks[i] = writeTasks[j] => i = j
  /\ \A i \in 1..Len(writeTasks), w \in Workers : ~Holds(w, writeTasks[i])
  /\ \A i \in 1..Len(mergeOut), w \in Workers : ~Holds(w, mergeOut[i])
  /\ \A i \in 1..Len(mergeOut), j \in 1..Len(writeTasks) : mergeOut[i] # writeTasks[j]

Placed ==
  /\ \A i \in 1..Len(mergeOut) : mergeOut[i] \in DOMAIN offset /\ offset[mergeOut[i]] = i - 1
  /\ \A t \in DOMAIN offset : /\ offset[t] + 1 \in 1..Len(mergeOut)
                              /\ mergeOut[offset[t] + 1] = t

\* Only a failure loses a task.
Complete ==
  ~canceled => \A t \in Taken : \/ \E w \in Workers : Holds(w, t)
                                \/ \E i \in 1..Len(writeTasks) : writeTasks[i] = t
                                \/ t \in DOMAIN offset

Control ==
  /\ gErr = canceled
  /\ closed <=> enqueuer = "done"
  /\ enqueuer # "sending" /\ ~canceled => sent = tasks
  /\ sealed => WorkersDone
  /\ writer = "done" /\ ~canceled => sealed /\ writeTasks = <<>>
  /\ \A w \in Workers : worker[w].at = "done" /\ ~canceled => closed /\ mergeTasks = <<>>
  /\ caller # "waiting" => enqueuer = "done" /\ writer = "done" /\ WorkersDone
  /\ caller = "ok" => ~canceled

\* A step that leaves every task where it is.
TasksStay ==
  /\ UNCHANGED <<sent, mergeTasks, writeTasks, mergeOut, offset>>
  /\ canceled => canceled'
  /\ \A w \in Workers : \A t : Holds(w, t)' <=> Holds(w, t)

IInv == TypeOK /\ Control /\ Queued /\ InPlace /\ Apart /\ Placed /\ Complete
------------------------------------------------------------------------------
(* Facts about channels *)

\* A receive takes the first element and moves the others up.
LEMMA Received ==
  ASSUME NEW S, NEW s \in Seq(S), s # <<>>
  PROVE  /\ Head(s) = s[1] /\ Head(s) \in S
         /\ Len(s) \in Nat /\ Len(s) >= 1
         /\ Tail(s) \in Seq(S) /\ Len(Tail(s)) = Len(s) - 1
         /\ \A i \in 1..Len(Tail(s)) : Tail(s)[i] = s[i + 1]
  OBVIOUS

\* A send appends.
LEMMA Sent ==
  ASSUME NEW S, NEW s \in Seq(S), NEW x \in S
  PROVE  /\ Append(s, x) \in Seq(S)
         /\ Len(s) \in Nat /\ Len(Append(s, x)) = Len(s) + 1
         /\ Append(s, x)[Len(s) + 1] = x
         /\ \A i \in 1..Len(s) : Append(s, x)[i] = s[i]
  OBVIOUS
------------------------------------------------------------------------------
\* Such a step keeps what the invariant says of the tasks.
LEMMA UndisturbedTasks ==
  Queued /\ InPlace /\ Apart /\ Placed /\ Complete /\ TasksStay
    => Queued' /\ InPlace' /\ Apart' /\ Placed' /\ Complete'
<1> SUFFICES ASSUME Queued, InPlace, Apart, Placed, Complete, TasksStay
             PROVE  Queued' /\ InPlace' /\ Apart' /\ Placed' /\ Complete'
  OBVIOUS
<1>1. Taken' = Taken
  BY DEF TasksStay, Taken
<1>2. Queued' /\ Placed'
  BY DEF TasksStay, Queued, Placed
<1>3. InPlace'
  BY <1>1 DEF TasksStay, InPlace
<1>4. Apart'
  <2> DEFINE Has(w, t) == worker'[w].at \in {"merging", "sending"} /\ worker'[w].task = t
  <2>1. \A w \in Workers : \A t : Has(w, t) <=> Holds(w, t)
    BY DEF TasksStay, Holds
  <2>2. UNCHANGED <<writeTasks, mergeOut>>
    BY DEF TasksStay
  <2> HIDE DEF Has
  <2>3. /\ \A w, v \in Workers, t \in Task : Has(w, t) /\ Has(v, t) => w = v
        /\ \A i \in 1..Len(writeTasks), w \in Workers : ~Has(w, writeTasks[i])
        /\ \A i \in 1..Len(mergeOut), w \in Workers : ~Has(w, mergeOut[i])
    BY ONLY <2>1, Apart DEF Apart
  <2> QED
    BY ONLY <2>2, <2>3, Apart DEF Apart, Holds, Has, Task
<1>5. Complete'
  BY <1>1 DEF TasksStay, Complete
<1> QED
  BY <1>2, <1>3, <1>4, <1>5

\* The invariant holds, and goes on holding.
THEOREM Invariance == Spec => []IInv
<1>1. Init => IInv
  <2> SUFFICES ASSUME Init PROVE IInv
    OBVIOUS
  <2> USE PipelineAssumption DEF Init, Task, Idle, Over
  <2>1. TypeOK
    <3>1. DOMAIN offset \subseteq Task /\ offset \in [DOMAIN offset -> Nat]
      OBVIOUS
    <3>2. worker \in [Workers -> {Idle, Over} \cup [at : {"merging", "sending"}, task : Task]]
      OBVIOUS
    <3>3. /\ mergeTasks \in Seq(Task) /\ writeTasks \in Seq(Task) /\ mergeOut \in Seq(Task)
          /\ Len(mergeTasks) = 0 /\ Len(writeTasks) = 0
      OBVIOUS
    <3>4. tasks \in 0..MaxTasks /\ sent \in 0..tasks
      OBVIOUS
    <3>5. Len(mergeTasks) <= Capacity /\ Len(writeTasks) <= Capacity
      BY <3>3
    <3>6. /\ enqueuer \in {"sending", "closing", "done"}
          /\ writer \in {"selecting", "done"} /\ caller \in {"waiting", "ok", "error"}
          /\ closed \in BOOLEAN /\ sealed \in BOOLEAN /\ canceled \in BOOLEAN /\ gErr \in BOOLEAN
      OBVIOUS
    <3> QED
      BY ONLY <3>1, <3>2, <3>3, <3>4, <3>5, <3>6 DEF TypeOK, Task
  <2>2. Control
    BY DEF Control, WorkersDone
  <2>3. Queued /\ InPlace /\ Apart /\ Placed /\ Complete
    BY DEF Queued, InPlace, Apart, Placed, Complete, Taken, Holds
  <2> QED
    BY <2>1, <2>2, <2>3 DEF IInv
<1>2. IInv /\ [Next]_vars => IInv'
  <2> SUFFICES ASSUME IInv, [Next]_vars PROVE IInv'
    OBVIOUS
  <2> USE PipelineAssumption DEF IInv
  <2>1. CASE Enqueue
    <3> USE <2>1 DEF Enqueue, Task, Idle, Over
    <3>1. TypeOK'
      BY DEF TypeOK
    <3>2. Control'
      BY DEF TypeOK, Control, WorkersDone
    <3>3. Queued'
      BY DEF TypeOK, Queued
    <3>4. Len(mergeTasks') = Len(mergeTasks) + 1 /\ Taken' = Taken
      BY DEF TypeOK, Taken
    <3>5. \A v, t : Holds(v, t)' = Holds(v, t)
      BY DEF Holds
    <3>6. InPlace'
      BY <3>4, <3>5 DEF InPlace
    <3>7. Apart' /\ Placed'
      BY <3>5 DEF Apart, Placed
    <3>8. Complete'
      BY <3>4, <3>5 DEF Complete
    <3> QED
      BY <3>1, <3>2, <3>3, <3>6, <3>7, <3>8
  <2>2. CASE EnqueueEnds
    <3> USE <2>2 DEF EnqueueEnds, Task, Idle, Over, Merging, Sending
    <3>1. TypeOK'
      BY DEF TypeOK
    <3>2. Control'
      BY DEF TypeOK, Control, WorkersDone
    <3>3. TasksStay
      BY DEF TasksStay, Holds, TypeOK
    <3> QED
      BY <3>1, <3>2, <3>3, UndisturbedTasks
  <2>3. CASE EnqueueFails
    <3> USE <2>3 DEF EnqueueFails, Task, Idle, Over, Merging, Sending
    <3>1. TypeOK'
      BY DEF TypeOK
    <3>2. Control'
      BY DEF TypeOK, Control, WorkersDone
    <3>3. TasksStay
      BY DEF TasksStay, Holds, TypeOK
    <3> QED
      BY <3>1, <3>2, <3>3, UndisturbedTasks
  <2>4. CASE CloseMergeTasks
    <3> USE <2>4 DEF CloseMergeTasks, Task, Idle, Over, Merging, Sending
    <3>1. TypeOK'
      BY DEF TypeOK
    <3>2. Control'
      BY DEF TypeOK, Control, WorkersDone
    <3>3. TasksStay
      BY DEF TasksStay, Holds, TypeOK
    <3> QED
      BY <3>1, <3>2, <3>3, UndisturbedTasks
  <2>5. ASSUME NEW w \in Workers, Cancel(w) PROVE IInv'
    <3> USE <2>5 DEF Cancel, Task, Idle, Over, Merging, Sending
    <3>1. TypeOK'
      BY DEF TypeOK
    <3>2. Control'
      BY DEF TypeOK, Control, WorkersDone
    <3>3. TasksStay
      BY DEF TasksStay, Holds, TypeOK
    <3> QED
      BY <3>1, <3>2, <3>3, UndisturbedTasks
  <2>6. ASSUME NEW w \in Workers, Receive(w) PROVE IInv'
    <3> DEFINE t == Head(mergeTasks)
    <3> USE <2>6 DEF Receive, Task, Idle, Over, Merging
    <3>1. /\ t = mergeTasks[1] /\ t \in Task
          /\ Len(mergeTasks) \in Nat /\ Len(mergeTasks) >= 1
          /\ mergeTasks' \in Seq(Task) /\ Len(mergeTasks') = Len(mergeTasks) - 1
          /\ \A i \in 1..Len(mergeTasks') : mergeTasks'[i] = mergeTasks[i + 1]
      BY Received DEF TypeOK
    <3>2. worker' = [worker EXCEPT ![w] = [at |-> "merging", task |-> t]]
      OBVIOUS
    <3> HIDE DEF t
    <3>3. TypeOK'
      BY <3>1, <3>2 DEF TypeOK
    <3>4. Control'
      BY <3>1, <3>2 DEF TypeOK, Control, WorkersDone
    <3>5. Queued'
      <4>1. sent \in Nat /\ sent' = sent
        BY DEF TypeOK
      <4> QED
        BY ONLY <3>1, <4>1, Queued DEF Queued
    <3>6. t = sent - Len(mergeTasks) + 1 /\ t \notin Taken /\ Taken' = Taken \cup {t}
      <4>1. sent \in Nat /\ sent' = sent
        BY DEF TypeOK
      <4> QED
        BY ONLY <3>1, <4>1, Queued DEF Queued, Taken
    <3>7. \A v \in Workers, u \in Task : Holds(v, u)' <=> Holds(v, u) \/ (v = w /\ u = t)
      BY <3>1, <3>2 DEF TypeOK, Holds
    <3>8. InPlace'
      BY <3>6, <3>7 DEF InPlace
    <3>9. Apart'
      <4>1. writeTasks \in Seq(Task) /\ mergeOut \in Seq(Task)
        BY DEF TypeOK
      <4>2. /\ \A i \in 1..Len(writeTasks) : writeTasks[i] \in Task
            /\ \A i \in 1..Len(mergeOut) : mergeOut[i] \in Task
        BY ONLY <4>1, ElementOfSeq
      <4>4. /\ \A i \in 1..Len(writeTasks) : writeTasks[i] # t
            /\ \A i \in 1..Len(mergeOut) : mergeOut[i] # t
        BY ONLY <3>6, InPlace DEF InPlace
      <4>3. \A v \in Workers : ~Holds(v, t)
        BY <3>1, <3>6 DEF InPlace
      <4> QED
        BY <3>7, <4>2, <4>3, <4>4 DEF Apart
    <3>10. Placed'
      BY DEF Placed
    <3>11. Complete'
      <4>1. \A u \in Taken : u \in Task
        BY DEF Taken, TypeOK, Queued
      <4>2. canceled' = canceled /\ writeTasks' = writeTasks /\ offset' = offset
        OBVIOUS
      <4> QED
        BY ONLY <3>1, <3>6, <3>7, <4>1, <4>2, Complete, <2>6 DEF Complete
    <3> QED
      BY <3>3, <3>4, <3>5, <3>8, <3>9, <3>10, <3>11
  <2>7. ASSUME NEW w \in Workers, NoMore(w) PROVE IInv'
    <3> USE <2>7 DEF NoMore, Task, Idle, Over, Merging, Sending
    <3>1. TypeOK'
      BY DEF TypeOK
    <3>2. Control'
      BY DEF TypeOK, Control, WorkersDone
    <3>3. TasksStay
      BY DEF TasksStay, Holds, TypeOK
    <3> QED
      BY <3>1, <3>2, <3>3, UndisturbedTasks
  <2>8. ASSUME NEW w \in Workers, MergeOne(w) PROVE IInv'
    <3> USE <2>8 DEF MergeOne, Task, Idle, Over, Merging, Sending
    <3>1. TypeOK'
      <4>3. worker[w] \in {Idle, Over} \cup [at : {"merging", "sending"}, task : Task]
        BY DEF TypeOK
      <4>1. worker[w].task \in Task
        BY <4>3
      <4>2. worker' \in [Workers -> {Idle, Over} \cup [at : {"merging", "sending"}, task : Task]]
        BY <4>1 DEF TypeOK
      <4> QED
        BY <4>2 DEF TypeOK
    <3>2. Control'
      BY DEF TypeOK, Control, WorkersDone
    <3>3. TasksStay
      BY DEF TasksStay, Holds, TypeOK
    <3> QED
      BY <3>1, <3>2, <3>3, UndisturbedTasks
  <2>9. ASSUME NEW w \in Workers, MergeFails(w) PROVE IInv'
    <3> USE <2>9 DEF MergeFails, Task, Idle, Over, Merging, Sending
    <3>1. TypeOK'
      BY DEF TypeOK
    <3>2. Control'
      BY DEF TypeOK, Control, WorkersDone
    <3>3. Queued'
      BY DEF TypeOK, Queued
    <3>4. InPlace'
      BY DEF TypeOK, Queued, InPlace, Taken, Holds
    <3>5. Apart'
      BY DEF TypeOK, Queued, InPlace, Apart, Taken, Holds
    <3>6. Placed'
      BY DEF TypeOK, Queued, InPlace, Apart, Placed, Taken, Holds
    <3>7. Complete'
      BY DEF TypeOK, Control, Queued, InPlace, Placed, Complete, Taken, Holds
    <3> QED
      BY <3>1, <3>2, <3>3, <3>4, <3>5, <3>6, <3>7
  <2>10. ASSUME NEW w \in Workers, Send(w) PROVE IInv'
    <3> DEFINE t == worker[w].task
    <3> USE <2>10 DEF Send, Task, Idle, Over
    <3>1. t \in Task /\ Holds(w, t)
      <4>1. worker[w] \in {Idle, Over} \cup [at : {"merging", "sending"}, task : Task]
        BY DEF TypeOK
      <4> QED
        BY <4>1 DEF Holds
    <3>2. /\ writeTasks' \in Seq(Task)
          /\ Len(writeTasks) \in Nat /\ Len(writeTasks') = Len(writeTasks) + 1
          /\ writeTasks'[Len(writeTasks) + 1] = t
          /\ \A i \in 1..Len(writeTasks) : writeTasks'[i] = writeTasks[i]
      BY <3>1, Sent DEF TypeOK
    <3>3. worker' = [worker EXCEPT ![w] = Idle]
      OBVIOUS
    <3>4. \A v \in Workers, u \in Task : Holds(v, u)' <=> Holds(v, u) /\ v # w
      BY <3>3 DEF TypeOK, Holds
    <3>5. Taken' = Taken
      BY DEF Taken
    <3> HIDE DEF t
    <3>6. TypeOK'
      BY <3>2, <3>3 DEF TypeOK
    <3>7. Control'
      BY <3>2, <3>3 DEF TypeOK, Control, WorkersDone
    <3>8. Queued'
      BY DEF Queued
    <3>9. InPlace'
      BY <3>1, <3>2, <3>4, <3>5 DEF InPlace
    <3>10. Apart'
      <4>1. /\ \A i \in 1..Len(writeTasks) : writeTasks[i] \in Task
            /\ \A i \in 1..Len(mergeOut) : mergeOut[i] \in Task
        BY ElementOfSeq DEF TypeOK
      <4>3. /\ \A i \in 1..Len(writeTasks) : writeTasks[i] # t
            /\ \A i \in 1..Len(mergeOut) : mergeOut[i] # t
        BY ONLY <3>1, Apart, <2>10 DEF Apart, Holds
      <4>4. mergeOut' = mergeOut
        OBVIOUS
      <4>2. \A v \in Workers : Holds(v, t) => v = w
        BY <3>1 DEF Apart
      <4> DEFINE Has(v, u) == worker'[v].at \in {"merging", "sending"} /\ worker'[v].task = u
      <4>10. \A v \in Workers, u \in Task : Has(v, u) <=> Holds(v, u) /\ v # w
        BY <3>4 DEF Holds
      <4> HIDE DEF Has
      <4>5. \A v, u \in Workers, x \in Task : Has(v, x) /\ Has(u, x) => v = u
        BY ONLY <4>10, Apart DEF Apart
      <4>6. \A i, j \in 1..Len(writeTasks') : writeTasks'[i] = writeTasks'[j] => i = j
        BY ONLY <3>2, <4>3, Apart DEF Apart
      <4>7. \A i \in 1..Len(writeTasks'), v \in Workers : ~Has(v, writeTasks'[i])
        <5> SUFFICES ASSUME NEW i \in 1..Len(writeTasks'), NEW v \in Workers
                     PROVE  ~Has(v, writeTasks'[i])
          OBVIOUS
        <5>1. CASE i = Len(writeTasks) + 1
          BY ONLY <3>1, <3>2, <4>10, <4>2, <5>1, v \in Workers
        <5>2. CASE i \in 1..Len(writeTasks)
          BY ONLY <3>2, <4>10, <4>1, <5>2, v \in Workers, Apart DEF Apart
        <5> QED
          BY <3>2, <5>1, <5>2
      <4>8. \A i \in 1..Len(mergeOut'), v \in Workers : ~Has(v, mergeOut'[i])
        BY ONLY <4>10, <4>1, <4>4, Apart DEF Apart
      <4>9. \A i \in 1..Len(mergeOut'), j \in 1..Len(writeTasks') : mergeOut'[i] # writeTasks'[j]
        BY ONLY <3>2, <4>3, <4>4, Apart DEF Apart
      <4> QED
        BY ONLY <4>5, <4>6, <4>7, <4>8, <4>9 DEF Apart, Holds, Has, Task
    <3>11. Placed'
      BY DEF Placed
    <3>12. Complete'
      <4> SUFFICES ASSUME ~canceled, NEW u \in Taken
                   PROVE  \/ \E v \in Workers : Holds(v, u)'
                          \/ \E i \in 1..Len(writeTasks') : writeTasks'[i] = u
                          \/ u \in DOMAIN offset
        BY <3>5 DEF Complete
      <4>1. u \in Task
        BY DEF Taken, TypeOK
      <4>2. CASE u = t
        BY <3>2, <4>2
      <4>3. CASE u # t
        <5>1. \A v \in Workers : Holds(v, u) => v # w
          BY <3>1, <4>3 DEF Holds
        <5> QED
          BY <3>2, <3>4, <4>1, <5>1 DEF Complete
      <4> QED
        BY <4>2, <4>3
    <3> QED
      BY <3>6, <3>7, <3>8, <3>9, <3>10, <3>11, <3>12
  <2>11. CASE CloseWriteTasks
    <3> USE <2>11 DEF CloseWriteTasks, Task, Idle, Over, Merging, Sending
    <3>1. TypeOK'
      BY DEF TypeOK
    <3>2. Control'
      BY DEF TypeOK, Control, WorkersDone
    <3>3. TasksStay
      BY DEF TasksStay, Holds, TypeOK
    <3> QED
      BY <3>1, <3>2, <3>3, UndisturbedTasks
  <2>12. CASE WriterCancel
    <3> USE <2>12 DEF WriterCancel, Task, Idle, Over, Merging, Sending
    <3>1. TypeOK'
      BY DEF TypeOK
    <3>2. Control'
      BY DEF TypeOK, Control, WorkersDone
    <3>3. TasksStay
      BY DEF TasksStay, Holds, TypeOK
    <3> QED
      BY <3>1, <3>2, <3>3, UndisturbedTasks
  <2>13. CASE Write
    <3> DEFINE t == Head(writeTasks)
    <3> USE <2>13 DEF Write, Task
    <3>1. /\ t = writeTasks[1] /\ t \in Task
          /\ Len(writeTasks) \in Nat /\ Len(writeTasks) >= 1
          /\ writeTasks' \in Seq(Task) /\ Len(writeTasks') = Len(writeTasks) - 1
          /\ \A i \in 1..Len(writeTasks') : writeTasks'[i] = writeTasks[i + 1]
      BY Received DEF TypeOK
    <3>2. /\ mergeOut' \in Seq(Task)
          /\ Len(mergeOut) \in Nat /\ Len(mergeOut') = Len(mergeOut) + 1
          /\ mergeOut'[Len(mergeOut) + 1] = t
          /\ \A i \in 1..Len(mergeOut) : mergeOut'[i] = mergeOut[i]
      BY <3>1, Sent DEF TypeOK
    <3>3. /\ DOMAIN offset' = DOMAIN offset \cup {t}
          /\ offset'[t] = Len(mergeOut)
          /\ \A u \in DOMAIN offset : u # t => offset'[u] = offset[u]
      OBVIOUS
    <3>4. offset' \in [DOMAIN offset' -> Nat]
      BY <3>2 DEF TypeOK
    <3> HIDE DEF t
    <3>5. /\ \A i \in 1..Len(mergeOut) : mergeOut[i] # t
          /\ t \notin DOMAIN offset
      BY ONLY <3>1, <3>2, Apart, Placed DEF Apart, Placed
    <3>6. Taken' = Taken /\ \A v, u : Holds(v, u)' = Holds(v, u)
      BY DEF Taken, Holds
    <3>7. TypeOK'
      BY <3>1, <3>2, <3>3, <3>4 DEF TypeOK
    <3>8. Control'
      BY <3>1 DEF TypeOK, Control, WorkersDone
    <3>9. Queued'
      BY DEF Queued
    <3>10. InPlace'
      BY <3>1, <3>2, <3>6 DEF InPlace
    <3>11. Apart'
      <4>1. worker' = worker
        OBVIOUS
      <4>2. /\ \A u, v \in Workers, x \in Task : Holds(u, x) /\ Holds(v, x) => u = v
            /\ \A v \in Workers : ~Holds(v, t)
        BY <3>1 DEF Apart
      <4>3. \A i, j \in 1..Len(writeTasks') : writeTasks'[i] = writeTasks'[j] => i = j
        BY ONLY <3>1, Apart DEF Apart
      <4>4. \A i \in 1..Len(writeTasks'), v \in Workers : ~Holds(v, writeTasks'[i])
        BY ONLY <3>1, Apart DEF Apart
      <4>5. \A i \in 1..Len(mergeOut'), v \in Workers : ~Holds(v, mergeOut'[i])
        BY ONLY <3>2, <4>2, Apart DEF Apart
      <4>6. \A i \in 1..Len(mergeOut'), j \in 1..Len(writeTasks') : mergeOut'[i] # writeTasks'[j]
        <5> SUFFICES ASSUME NEW i \in 1..Len(mergeOut'), NEW j \in 1..Len(writeTasks')
                     PROVE  mergeOut'[i] # writeTasks'[j]
          OBVIOUS
        <5>1. /\ writeTasks'[j] = writeTasks[j + 1] /\ 1 \in 1..Len(writeTasks)
              /\ j + 1 \in 1..Len(writeTasks) /\ j + 1 # 1
          BY <3>1
        <5>2. CASE i = Len(mergeOut) + 1
          BY ONLY <3>1, <3>2, <5>1, <5>2, Apart DEF Apart
        <5>3. CASE i \in 1..Len(mergeOut)
          BY ONLY <3>2, <5>1, <5>3, Apart DEF Apart
        <5> QED
          BY <3>2, <5>2, <5>3
      <4> QED
        BY ONLY <4>1, <4>2, <4>3, <4>4, <4>5, <4>6 DEF Apart, Holds, Task
    <3>12. Placed'
      <4>1. ASSUME NEW i \in 1..Len(mergeOut')
            PROVE  mergeOut'[i] \in DOMAIN offset' /\ offset'[mergeOut'[i]] = i - 1
        <5>1. CASE i = Len(mergeOut) + 1
          BY ONLY <3>2, <3>3, <5>1
        <5>2. CASE i \in 1..Len(mergeOut)
          BY ONLY <3>2, <3>3, <3>5, <5>2, Placed DEF Placed
        <5> QED
          BY <3>2, <5>1, <5>2
      <4>2. ASSUME NEW u \in DOMAIN offset'
            PROVE  offset'[u] + 1 \in 1..Len(mergeOut') /\ mergeOut'[offset'[u] + 1] = u
        <5>1. CASE u = t
          BY ONLY <3>2, <3>3, <5>1
        <5>2. CASE u \in DOMAIN offset /\ u # t
          BY ONLY <3>2, <3>3, <5>2, Placed DEF Placed
        <5> QED
          BY <3>3, <5>1, <5>2
      <4> QED
        BY ONLY <4>1, <4>2 DEF Placed
    <3>13. Complete'
      <4> SUFFICES ASSUME ~canceled, NEW u \in Taken, u # t,
                          \A v \in Workers : ~Holds(v, u), u \notin DOMAIN offset
                   PROVE  \E i \in 1..Len(writeTasks') : writeTasks'[i] = u
        BY <3>3, <3>6 DEF Complete
      <4>1. PICK i \in 1..Len(writeTasks) : writeTasks[i] = u
        BY DEF Complete
      <4>2. i # 1 /\ i - 1 \in 1..Len(writeTasks') /\ writeTasks'[i - 1] = u
        BY <3>1, <4>1
      <4> QED
        BY <4>2
    <3> QED
      BY <3>7, <3>8, <3>9, <3>10, <3>11, <3>12, <3>13
  <2>14. CASE WriterEnds
    <3> USE <2>14 DEF WriterEnds, Task, Idle, Over, Merging, Sending
    <3>1. TypeOK'
      BY DEF TypeOK
    <3>2. Control'
      BY DEF TypeOK, Control, WorkersDone
    <3>3. TasksStay
      BY DEF TasksStay, Holds, TypeOK
    <3> QED
      BY <3>1, <3>2, <3>3, UndisturbedTasks
  <2>15. CASE Return
    <3> USE <2>15 DEF Return, Task, Idle, Over, Merging, Sending
    <3>1. TypeOK'
      BY DEF TypeOK
    <3>2. Control'
      BY DEF TypeOK, Control, WorkersDone
    <3>3. TasksStay
      BY DEF TasksStay, Holds, TypeOK
    <3> QED
      BY <3>1, <3>2, <3>3, UndisturbedTasks
  <2>16. CASE UNCHANGED vars
    <3> USE <2>16 DEF vars, Task, Idle, Over, Merging, Sending
    <3>1. TypeOK'
      BY DEF TypeOK
    <3>2. Control'
      BY DEF TypeOK, Control, WorkersDone
    <3>3. TasksStay
      BY DEF TasksStay, Holds, TypeOK
    <3> QED
      BY <3>1, <3>2, <3>3, UndisturbedTasks
  <2> QED
    BY <2>1, <2>2, <2>3, <2>4, <2>5, <2>6, <2>7, <2>8, <2>9, <2>10, <2>11, <2>12, <2>13, <2>14, <2>15, <2>16 DEF Next, Walk, Work, WriterStep
<1> QED
  BY <1>1, <1>2, PTL DEF Spec

------------------------------------------------------------------------------
\* The types.
THEOREM TypeCorrect == Spec => []TypeOK
<1>1. IInv => TypeOK
  BY DEF IInv
<1> QED
  BY <1>1, Invariance, PTL

\* A merge that returned without an error has written every file of the image to
\* the body, once and where its entry says.
THEOREM NothingLost == Spec => []NothingIsLost
<1>1. IInv => NothingIsLost
  <2> SUFFICES ASSUME IInv, caller = "ok" PROVE NothingIsLost
    BY DEF NothingIsLost
  <2> USE DEF IInv
  <2>1. /\ ~canceled /\ sent = tasks /\ tasks \in Nat /\ writeTasks = <<>>
        /\ \A w \in Workers : worker[w].at = "done"
    BY DEF Control, WorkersDone, TypeOK
  <2>2. mergeTasks = <<>>
    <3>1. PICK w \in Workers : TRUE
      BY PipelineAssumption
    <3> QED
      BY <2>1, <3>1 DEF Control
  <2>3. Taken = 1..tasks
    BY <2>1, <2>2 DEF Taken
  <2>4. \A t \in 1..tasks : t \in DOMAIN offset
    BY <2>1, <2>3 DEF Complete, Holds
  <2>5. DOMAIN mergeOut = 1..Len(mergeOut)
    BY DEF TypeOK
  <2> QED
    BY <2>3, <2>4, <2>5 DEF NothingIsLost, InPlace, Placed
<1> QED
  BY <1>1, Invariance, PTL

\* No goroutine ever sends on a closed channel.
THEOREM NeverSendsOnClosed == Spec => []NoSendOnClosed
<1>1. IInv => NoSendOnClosed
  BY DEF IInv, Control, WorkersDone, NoSendOnClosed
<1> QED
  BY <1>1, Invariance, PTL

\* A merge in which something failed never returns success.
THEOREM FailuresReported == Spec => FailureIsReported
<1>1. IInv /\ [Next]_vars => [caller = "waiting" /\ caller' = "ok" => ~canceled]_vars
  <2> SUFFICES ASSUME IInv, Next, caller = "waiting", caller' = "ok" PROVE ~canceled
    BY DEF vars
  <2>1. CASE Return
    BY <2>1 DEF Return, IInv, Control
  <2>2. CASE Walk
    BY <2>2 DEF Walk, Enqueue, EnqueueEnds, EnqueueFails, CloseMergeTasks
  <2>3. CASE \E w \in Workers : Work(w)
    BY <2>3 DEF Work, Cancel, Receive, NoMore, MergeOne, MergeFails, Send
  <2>4. CASE CloseWriteTasks
    BY <2>4 DEF CloseWriteTasks
  <2>5. CASE WriterStep
    BY <2>5 DEF WriterStep, WriterCancel, Write, WriterEnds
  <2> QED
    BY <2>1, <2>2, <2>3, <2>4, <2>5 DEF Next
<1> QED
  BY <1>1, Invariance, PTL DEF Spec, FailureIsReported
==============================================================================
