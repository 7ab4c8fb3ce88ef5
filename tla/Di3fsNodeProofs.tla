--------------------------- MODULE Di3fsNodeProofs ---------------------------
(***************************************************************************)
(* Proofs about Di3fsNode, and DiffPipeline below it, for any number of     *)
(* goroutines and files, any places in the channels, and both schedules.    *)
(***************************************************************************)
EXTENDS Di3fsNode, SequenceTheorems, TLAPS

Queues(s, f) == \E i \in 1..Len(s) : s[i] = f
Kept(f) == OldEntry(f) /\ f \in Same

\* The entry of f leads to f, by being the same or by its own piece.
Shown(f) ==
  \/ kind[f] = "same" /\ f \in Same
  \/ /\ kind[f] # "same"
     /\ place[f] \in 1..Len(body)
     /\ body[place[f]] = [file |-> f, kind |-> kind[f]]

\* Nothing is sent for a file that is the same.
Kinds ==
  /\ \A f \in Files : kind[f] = "same" => Kept(f)
  /\ \A w \in Workers : worker[w] \in Files => ~Kept(worker[w])
  /\ \A f \in Files : Queues(writes, f) => ~Kept(f)

\* Only a failure loses a file.
Complete ==
  ~failed =>
    \A f \in walked : \/ f \in queue \/ Queues(tasks, f) \/ Queues(writes, f)
                      \/ \E w \in Workers : worker[w] = f
                      \/ Shown(f)

Control ==
  /\ ~failed /\ ~walking => walked = tree
  /\ ~Ordered => queue = {}
  /\ closed => ~walking /\ queue = {}
  /\ \A w \in Workers : worker[w] = "ended" /\ ~failed => closed /\ tasks = <<>>
  /\ sealed => \A w \in Workers : worker[w] = "ended"
  /\ writer # "on" /\ ~failed => sealed /\ writes = <<>>
  /\ returned => closed /\ writer # "on" /\ \A w \in Workers : worker[w] = "ended"

\* What is built is the file that was opened.
Built ==
  /\ node = Nil => seen = Nil
  /\ stumbled \/ node = Nil \/ patched = node
  /\ ReadsAreTrue

IInv == TypeOK /\ Kinds /\ Complete /\ Control /\ Built
------------------------------------------------------------------------------
(* Facts about channels *)

\* A receive takes the first element and leaves the others.
LEMMA Received ==
  ASSUME NEW S, NEW s \in Seq(S), s # <<>>
  PROVE  /\ Head(s) \in S /\ Queues(s, Head(s))
         /\ Tail(s) \in Seq(S)
         /\ Len(s) \in Nat /\ Len(Tail(s)) \in Nat /\ Len(Tail(s)) <= Len(s)
         /\ \A x : Queues(s, x) <=> x = Head(s) \/ Queues(Tail(s), x)
<1>1. /\ Head(s) = s[1] /\ Head(s) \in S /\ Len(s) \in Nat /\ Len(s) >= 1
      /\ Tail(s) \in Seq(S) /\ Len(Tail(s)) = Len(s) - 1
      /\ \A i \in 1..Len(Tail(s)) : Tail(s)[i] = s[i + 1]
  OBVIOUS
<1>2. ASSUME NEW x, Queues(s, x) PROVE x = Head(s) \/ Queues(Tail(s), x)
  <2>1. PICK i \in 1..Len(s) : s[i] = x
    BY <1>2 DEF Queues
  <2>2. CASE i = 1
    BY <1>1, <2>1, <2>2
  <2>3. CASE i # 1
    <3>1. i - 1 \in 1..Len(Tail(s)) /\ Tail(s)[i - 1] = x
      BY <1>1, <2>1, <2>3
    <3> QED
      BY <3>1 DEF Queues
  <2> QED
    BY <2>2, <2>3
<1>3. Queues(s, Head(s))
  BY <1>1 DEF Queues
<1>4. ASSUME NEW x, Queues(Tail(s), x) PROVE Queues(s, x)
  <2>1. PICK i \in 1..Len(Tail(s)) : Tail(s)[i] = x
    BY <1>4 DEF Queues
  <2>2. i + 1 \in 1..Len(s) /\ s[i + 1] = x
    BY <1>1, <2>1
  <2> QED
    BY <2>2 DEF Queues
<1> QED
  BY <1>1, <1>2, <1>3, <1>4

\* A send appends.
LEMMA Sent ==
  ASSUME NEW S, NEW s \in Seq(S), NEW x \in S
  PROVE  /\ Append(s, x) \in Seq(S)
         /\ Len(s) \in Nat /\ Len(Append(s, x)) = Len(s) + 1
         /\ Append(s, x)[Len(s) + 1] = x
         /\ \A i \in 1..Len(s) : Append(s, x)[i] = s[i]
         /\ \A y : Queues(Append(s, x), y) <=> y = x \/ Queues(s, y)
<1>1. /\ Append(s, x) \in Seq(S)
      /\ Len(s) \in Nat /\ Len(Append(s, x)) = Len(s) + 1
      /\ Append(s, x)[Len(s) + 1] = x
      /\ \A i \in 1..Len(s) : Append(s, x)[i] = s[i]
  OBVIOUS
<1> DEFINE t == Append(s, x)
<1>2. /\ Len(s) \in Nat /\ Len(t) = Len(s) + 1 /\ t[Len(s) + 1] = x
      /\ \A i \in 1..Len(s) : t[i] = s[i]
  BY <1>1
<1> HIDE DEF t
<1>3. \A y : Queues(t, y) <=> y = x \/ Queues(s, y)
  BY <1>2 DEF Queues
<1> QED
  BY <1>1, <1>3 DEF t

\* An empty channel holds nothing.
LEMMA NothingQueued == \A x : ~Queues(<<>>, x)
  BY DEF Queues
------------------------------------------------------------------------------
\* A step that leaves their data alone, loses no file and sends none.
FilesStay ==
  /\ UNCHANGED <<mode, writes, body, kind, place>>
  /\ failed => failed'
  /\ \A f \in walked' : \/ f \in queue' \/ Queues(tasks', f)
                        \/ f \in walked /\ f \notin queue /\ ~Queues(tasks, f)
  /\ \A w \in Workers : \/ worker'[w] = worker[w]
                        \/ worker[w] = "idle" /\ worker'[w] = "ended"

\* What the invariant says of the files stays true in such a step.
LEMMA Undisturbed ==
  TypeOK /\ Kinds /\ Complete /\ FilesStay => Kinds' /\ Complete'
<1> SUFFICES ASSUME TypeOK, Kinds, Complete, FilesStay PROVE Kinds' /\ Complete'
  OBVIOUS
<1> USE DEF FilesStay
<1>1. \A f : Shown(f)' <=> Shown(f)
  BY DEF Shown
<1>2. \A f : Kept(f)' <=> Kept(f)
  BY DEF Kept, OldEntry
<1>3. \A f : Queues(writes, f)' <=> Queues(writes, f)
  BY DEF Queues
<1>4. \A w \in Workers : (worker'[w] \in Files => worker'[w] = worker[w])
  BY PipelineAssumption
<1>5. Kinds'
  BY <1>2, <1>3, <1>4 DEF Kinds
<1>6. Complete'
  <2>1. ASSUME ~failed, NEW f \in walked
        PROVE  \/ f \in queue \/ Queues(tasks, f) \/ Queues(writes, f)'
               \/ \E w \in Workers : worker'[w] = f
               \/ Shown(f)'
    <3>1. f \in Files
      BY DEF TypeOK, PipelineTypeOK
    <3>2. \A w \in Workers : worker[w] = f => worker'[w] = f
      BY <3>1, PipelineAssumption
    <3> QED
      BY <1>1, <1>3, <2>1, <3>2 DEF Complete
  <2> QED
    BY <2>1 DEF Complete
<1> QED
  BY <1>5, <1>6

\* A step of the pipeline keeps the invariant.
LEMMA PipeStep ==
  ASSUME IInv, Pipe, UNCHANGED di3fs
  PROVE  IInv'
<1> USE PipelineAssumption DEF IInv, Theirs, Producers
<1>0. Built' /\ (node \in tree \cup {Nil})'
  <2>1. tree' = tree
    BY DEF Pipe, Walk, WalkEnds, Enqueue, WalkFails, Order, DispatchEnds, Dispatch,
           CloseWriteTasks, WriterStep, Write, WriteFails, WriterEnds, Return,
           Work, Take, TakeFails, Leave, Send
  <2> QED
    BY <2>1 DEF TypeOK, Built, ReadsAreTrue, di3fs
<1>1. ASSUME NEW f \in Files, Enqueue(f) PROVE IInv'
  <2> USE <1>1 DEF Enqueue
  <2>1. /\ tasks' \in Seq(Files) /\ Len(tasks') <= Capacity
        /\ \A g : Queues(tasks, g) => Queues(tasks', g)
        /\ ~Ordered => Queues(tasks', f)
    <3>1. tasks \in Seq(Files) /\ Len(tasks) <= Capacity
      BY DEF TypeOK, PipelineTypeOK
    <3>2. CASE Ordered
      BY <3>1, <3>2
    <3>3. CASE ~Ordered
      <4>1. Len(tasks) < Capacity /\ tasks' = Append(tasks, f)
        BY <3>3
      <4> QED
        BY ONLY <3>1, <3>3, <4>1, Sent, PipelineAssumption
    <3> QED
      BY <3>2, <3>3
  <2>2. TypeOK'
    BY <1>0, <2>1 DEF TypeOK, PipelineTypeOK, di3fs
  <2>3. FilesStay
    BY <2>1 DEF FilesStay
  <2>4. Control'
    BY DEF Control, Ordered
  <2> QED
    BY <1>0, <2>2, <2>3, <2>4, Undisturbed
<1>2. CASE WalkEnds
  <2> USE <1>2 DEF WalkEnds
  <2>1. TypeOK'
    BY <1>0 DEF TypeOK, PipelineTypeOK, di3fs
  <2>2. FilesStay
    BY DEF FilesStay
  <2>3. Control'
    BY DEF Control, Ordered
  <2> QED
    BY <1>0, <2>1, <2>2, <2>3, Undisturbed
<1>3. CASE WalkFails
  <2> USE <1>3 DEF WalkFails
  <2>1. TypeOK'
    BY <1>0 DEF TypeOK, PipelineTypeOK, di3fs
  <2>2. FilesStay
    BY DEF FilesStay
  <2>3. Control'
    BY DEF Control, Ordered
  <2> QED
    BY <1>0, <2>1, <2>2, <2>3, Undisturbed
<1>4. ASSUME NEW f \in Files, Dispatch(f) PROVE IInv'
  <2> USE <1>4 DEF Dispatch
  <2>1. tasks \in Seq(Files) /\ Len(tasks) < Capacity /\ tasks' = Append(tasks, f)
    BY DEF TypeOK, PipelineTypeOK
  <2>2. /\ tasks' \in Seq(Files) /\ Len(tasks') <= Capacity
        /\ \A g : Queues(tasks', g) <=> g = f \/ Queues(tasks, g)
    BY ONLY <2>1, Sent, PipelineAssumption
  <2>3. TypeOK'
    BY <1>0, <2>2 DEF TypeOK, PipelineTypeOK, di3fs
  <2>4. FilesStay
    BY <2>2 DEF FilesStay
  <2>5. Control'
    BY DEF Control, Ordered
  <2> QED
    BY <1>0, <2>3, <2>4, <2>5, Undisturbed
<1>5. CASE DispatchEnds
  <2> USE <1>5 DEF DispatchEnds
  <2>1. TypeOK'
    BY <1>0 DEF TypeOK, PipelineTypeOK, di3fs
  <2>2. FilesStay
    BY DEF FilesStay
  <2>3. Control'
    BY DEF Control, Ordered
  <2> QED
    BY <1>0, <2>1, <2>2, <2>3, Undisturbed
<1>6. ASSUME NEW w \in Workers, Take(w) PROVE IInv'
  <2> DEFINE f == Head(tasks)
  <2> USE <1>6 DEF Take
  <2>1. tasks \in Seq(Files) /\ tasks # <<>> /\ tasks' = Tail(tasks) /\ Len(tasks) <= Capacity
    BY DEF TypeOK, PipelineTypeOK
  <2>2. /\ f \in Files
        /\ tasks' \in Seq(Files) /\ Len(tasks') <= Capacity
        /\ \A g : Queues(tasks, g) <=> g = f \/ Queues(tasks', g)
    BY ONLY <2>1, Received, PipelineAssumption
  <2>3. IF Kept(f) THEN kind' = [kind EXCEPT ![f] = "same"] /\ worker' = worker
        ELSE kind' = [kind EXCEPT ![f] = DataKind(f)] /\ worker' = [worker EXCEPT ![w] = f]
    BY DEF Kept
  <2>4. worker[w] = "idle"
    OBVIOUS
  <2>5. UNCHANGED <<mode, tree, walked, walking, queue, closed, returned,
                    writes, sealed, writer, body, place, failed>>
    OBVIOUS
  <2> HIDE <1>6 DEF f, Take
  <2>6. DataKind(f) \in {"new", "diff"}
    BY DEF DataKind
  <2>7. TypeOK'
    <3>1. kind' \in [Files -> {"new", "same", "diff"}]
      BY <2>3, <2>6 DEF TypeOK, PipelineTypeOK
    <3>2. worker' \in [Workers -> Files \cup {"idle", "ended"}]
      <4>1. worker \in [Workers -> Files \cup {"idle", "ended"}] /\ f \in Files
        BY <2>2 DEF TypeOK, PipelineTypeOK
      <4> QED
        BY ONLY <2>3, <4>1
    <3> QED
      BY <1>0, <2>2, <2>5, <3>1, <3>2 DEF TypeOK, PipelineTypeOK, di3fs
  <2>8. \A g : (Kept(g)' <=> Kept(g)) /\ (Queues(writes, g)' <=> Queues(writes, g))
    BY <2>5 DEF Kept, OldEntry, Queues
  <2>9. Kinds'
    BY <2>2, <2>3, <2>6, <2>8 DEF Kinds, TypeOK, PipelineTypeOK
  <2>10. Complete'
    <3>1. ASSUME ~failed, NEW g \in walked
          PROVE  \/ g \in queue \/ Queues(tasks', g) \/ Queues(writes, g)'
                 \/ \E v \in Workers : worker'[v] = g
                 \/ Shown(g)'
      <4>1. g \in Files
        BY DEF TypeOK, PipelineTypeOK
      <4>2. CASE g = f
        BY <2>2, <2>3, <4>2 DEF Shown, Kept, TypeOK, PipelineTypeOK
      <4>3. CASE g # f
        <5>1. Shown(g)' <=> Shown(g)
          BY <2>3, <2>5, <4>3 DEF Shown, TypeOK, PipelineTypeOK
        <5>2. \A v \in Workers : worker[v] = g => worker'[v] = g
          BY <2>3, <2>4, <4>1 DEF TypeOK, PipelineTypeOK
        <5> QED
          BY <2>2, <2>8, <3>1, <4>3, <5>1, <5>2 DEF Complete
      <4> QED
        BY <4>2, <4>3
    <3>2. \A g : Queues(tasks, g)' <=> Queues(tasks', g)
      BY DEF Queues
    <3> QED
      BY <2>5, <3>1, <3>2 DEF Complete
  <2>11. Control'
    BY <2>1, <2>2, <2>3, <2>4, <2>5 DEF Control, Ordered, TypeOK, PipelineTypeOK
  <2> QED
    BY <1>0, <2>7, <2>9, <2>10, <2>11
<1>7. ASSUME NEW w \in Workers, TakeFails(w) PROVE IInv'
  <2> USE <1>7 DEF TakeFails
  <2>1. tasks \in Seq(Files) /\ tasks # <<>> /\ tasks' = Tail(tasks) /\ Len(tasks) <= Capacity
    BY DEF TypeOK, PipelineTypeOK
  <2>2. tasks' \in Seq(Files) /\ Len(tasks') <= Capacity
    BY ONLY <2>1, Received, PipelineAssumption
  <2>3. TypeOK'
    BY <1>0, <2>2 DEF TypeOK, PipelineTypeOK, di3fs
  <2>4. Kinds'
    <3>1. \A g : (Kept(g)' <=> Kept(g)) /\ (Queues(writes, g)' <=> Queues(writes, g))
      BY DEF Kept, OldEntry, Queues
    <3> QED
      BY <3>1 DEF Kinds, TypeOK, PipelineTypeOK
  <2>5. Complete' /\ Control'
    BY DEF Complete, Control, Ordered, TypeOK, PipelineTypeOK
  <2> QED
    BY <1>0, <2>3, <2>4, <2>5
<1>8. ASSUME NEW w \in Workers, Leave(w) PROVE IInv'
  <2> USE <1>8 DEF Leave
  <2>1. TypeOK'
    BY <1>0 DEF TypeOK, PipelineTypeOK, di3fs
  <2>2. FilesStay
    BY DEF FilesStay, TypeOK, PipelineTypeOK
  <2>3. Control'
    BY DEF Control, Ordered, TypeOK, PipelineTypeOK
  <2> QED
    BY <1>0, <2>1, <2>2, <2>3, Undisturbed
<1>9. ASSUME NEW w \in Workers, Send(w) PROVE IInv'
  <2> DEFINE f == worker[w]
  <2> USE <1>9 DEF Send
  <2>1. /\ f \in Files /\ writes \in Seq(Files) /\ Len(writes) < Capacity
        /\ writes' = Append(writes, f) /\ worker' = [worker EXCEPT ![w] = "idle"]
    BY DEF TypeOK, PipelineTypeOK
  <2>2. UNCHANGED <<mode, tree, walked, walking, queue, closed, returned, tasks,
                    sealed, writer, body, kind, place, failed>>
    OBVIOUS
  <2>3. ~Kept(f)
    BY <2>1 DEF Kinds
  <2>4. f # "ended"
    BY <2>1
  <2> HIDE <1>9 DEF f, Send
  <2>5. /\ writes' \in Seq(Files) /\ Len(writes') <= Capacity
        /\ \A g : Queues(writes', g) <=> g = f \/ Queues(writes, g)
    BY ONLY <2>1, Sent, PipelineAssumption
  <2>6. TypeOK'
    BY <1>0, <2>1, <2>2, <2>5 DEF TypeOK, PipelineTypeOK, di3fs
  <2>7. /\ \A g : (Kept(g)' <=> Kept(g)) /\ (Shown(g)' <=> Shown(g))
        /\ \A g : (Queues(writes, g)' <=> Queues(writes', g))
        /\ \A g : (Queues(tasks, g)' <=> Queues(tasks, g))
    BY <2>2 DEF Kept, OldEntry, Queues, Shown
  <2>8. Kinds'
    BY <2>1, <2>2, <2>3, <2>5, <2>7 DEF Kinds, TypeOK, PipelineTypeOK
  <2>9. \A v \in Workers : \A g : worker[v] = g => g = f \/ worker'[v] = g
    BY <2>1 DEF f, TypeOK, PipelineTypeOK
  <2>10. Complete'
    BY <2>2, <2>5, <2>7, <2>9 DEF Complete
  <2>11. Control'
    BY <2>1, <2>2, <2>4 DEF f, Control, Ordered, TypeOK, PipelineTypeOK
  <2> QED
    BY <1>0, <2>6, <2>8, <2>10, <2>11
<1>10. CASE CloseWriteTasks
  <2> USE <1>10 DEF CloseWriteTasks
  <2>1. TypeOK'
    BY <1>0 DEF TypeOK, PipelineTypeOK, di3fs
  <2>2. FilesStay
    BY DEF FilesStay
  <2>3. Control'
    BY DEF Control, Ordered
  <2> QED
    BY <1>0, <2>1, <2>2, <2>3, Undisturbed
<1>11. CASE Write
  <2> USE <1>11 DEF Write
  <2>1. writes \in Seq(Files) /\ writes # <<>> /\ writes' = Tail(writes) /\ Len(writes) <= Capacity
    BY DEF TypeOK, PipelineTypeOK
  <2>2. PICK f \in Files :
        /\ f = Head(writes) /\ Queues(writes, f)
        /\ writes' \in Seq(Files) /\ Len(writes') <= Capacity
        /\ \A g : Queues(writes, g) <=> g = f \/ Queues(writes', g)
    BY ONLY <2>1, Received, PipelineAssumption
  <2>3. UNCHANGED <<mode, tree, walked, walking, queue, closed, returned, tasks, worker,
                    sealed, writer, kind, failed>>
    OBVIOUS
  <2>4. /\ body' = Append(body, [file |-> f, kind |-> kind[f]])
        /\ place' = [place EXCEPT ![f] = Len(body) + 1]
        /\ writer = "on"
    BY <2>2
  <2> HIDE <1>11 DEF Write
  <2>5. kind[f] \in {"new", "diff"}
    BY <2>2 DEF Kinds, TypeOK, PipelineTypeOK
  <2>6. /\ body' \in Seq([file : Files, kind : {"new", "diff"}])
        /\ Len(body) \in Nat /\ Len(body') = Len(body) + 1
        /\ body'[Len(body) + 1] = [file |-> f, kind |-> kind[f]]
        /\ \A i \in 1..Len(body) : body'[i] = body[i]
    <3>1. body \in Seq([file : Files, kind : {"new", "diff"}])
      BY DEF TypeOK, PipelineTypeOK
    <3>2. [file |-> f, kind |-> kind[f]] \in [file : Files, kind : {"new", "diff"}]
      BY <2>2, <2>5
    <3> QED
      BY ONLY <2>4, <3>1, <3>2, Sent
  <2>7. TypeOK'
    <3>1. place' \in [Files -> Nat]
      BY <2>4, <2>6 DEF TypeOK, PipelineTypeOK
    <3> QED
      BY <1>0, <2>2, <2>3, <2>6, <3>1 DEF TypeOK, PipelineTypeOK, di3fs
  <2>8. /\ \A g : Kept(g)' <=> Kept(g)
        /\ \A g : (Queues(writes, g)' <=> Queues(writes', g))
        /\ \A g : (Queues(tasks, g)' <=> Queues(tasks, g))
    BY <2>3 DEF Kept, OldEntry, Queues
  <2>9. Kinds'
    BY <2>2, <2>3, <2>8 DEF Kinds
  <2>10. Shown(f)'
    <3>1. place'[f] = Len(body) + 1
      BY <2>2, <2>4 DEF TypeOK, PipelineTypeOK
    <3> QED
      BY <2>3, <2>5, <2>6, <3>1 DEF Shown
  <2>11. ASSUME NEW g \in Files, g # f, Shown(g) PROVE Shown(g)'
    <3>1. place'[g] = place[g]
      BY <2>4, <2>11 DEF TypeOK, PipelineTypeOK
    <3> QED
      BY <2>3, <2>6, <2>11, <3>1 DEF Shown
  <2>12. \A g \in walked : g \in Files
    BY DEF TypeOK, PipelineTypeOK
  <2>13. Complete'
    <3>1. ASSUME ~failed, NEW g \in walked
          PROVE  \/ g \in queue \/ Queues(tasks, g) \/ Queues(writes', g)
                 \/ \E v \in Workers : worker[v] = g
                 \/ Shown(g)'
      <4>1. CASE g = f
        BY <2>10, <4>1
      <4>2. CASE g # f
        BY <2>2, <2>11, <2>12, <3>1, <4>2 DEF Complete
      <4> QED
        BY <4>1, <4>2
    <3> QED
      BY <2>3, <2>8, <3>1 DEF Complete
  <2>14. Control'
    BY <2>3, <2>4 DEF Control, Ordered
  <2> QED
    BY <1>0, <2>7, <2>9, <2>13, <2>14
<1>12. CASE WriteFails
  <2> USE <1>12 DEF WriteFails
  <2>1. writes \in Seq(Files) /\ writes # <<>> /\ writes' = Tail(writes) /\ Len(writes) <= Capacity
    BY DEF TypeOK, PipelineTypeOK
  <2>2. /\ writes' \in Seq(Files) /\ Len(writes') <= Capacity
        /\ \A g : Queues(writes, g) <=> g = Head(writes) \/ Queues(writes', g)
    BY ONLY <2>1, Received, PipelineAssumption
  <2>3. place' \in [Files -> Nat]
    BY DEF TypeOK, PipelineTypeOK
  <2>4. TypeOK'
    BY <1>0, <2>2, <2>3 DEF TypeOK, PipelineTypeOK, di3fs
  <2>5. \A g : (Kept(g)' <=> Kept(g)) /\ (Queues(writes, g)' <=> Queues(writes', g))
    BY DEF Kept, OldEntry, Queues
  <2>6. Kinds'
    BY <2>2, <2>5 DEF Kinds
  <2>7. Complete' /\ Control'
    BY DEF Complete, Control, Ordered
  <2> QED
    BY <1>0, <2>4, <2>6, <2>7
<1>13. CASE WriterEnds
  <2> USE <1>13 DEF WriterEnds
  <2>1. TypeOK'
    BY <1>0 DEF TypeOK, PipelineTypeOK, di3fs
  <2>2. FilesStay
    BY DEF FilesStay
  <2>3. Control'
    BY DEF Control, Ordered
  <2> QED
    BY <1>0, <2>1, <2>2, <2>3, Undisturbed
<1>14. CASE Return
  <2> USE <1>14 DEF Return
  <2>1. TypeOK'
    BY <1>0 DEF TypeOK, PipelineTypeOK, di3fs
  <2>2. FilesStay
    BY DEF FilesStay
  <2>3. Control'
    BY DEF Control, Ordered
  <2> QED
    BY <1>0, <2>1, <2>2, <2>3, Undisturbed
<1> QED
  BY <1>1, <1>2, <1>3, <1>4, <1>5, <1>6, <1>7, <1>8, <1>9, <1>10, <1>11, <1>12, <1>13, <1>14
     DEF Pipe, Walk, Order, Work, WriterStep
------------------------------------------------------------------------------
\* The invariant holds, and goes on holding.
THEOREM Invariance == Spec => []IInv
<1>1. Init => IInv
  <2> SUFFICES ASSUME Init PROVE IInv
    OBVIOUS
  <2> USE PipelineAssumption DEF Init, InitPipeline
  <2>1. TypeOK
    <3>1. /\ tasks \in Seq(Files) /\ Len(tasks) <= Capacity
          /\ writes \in Seq(Files) /\ Len(writes) <= Capacity
          /\ body \in Seq([file : Files, kind : {"new", "diff"}])
      OBVIOUS
    <3>2. place \in [Files -> Nat]
      OBVIOUS
    <3> QED
      BY <3>1, <3>2 DEF TypeOK, PipelineTypeOK
  <2>2. Kinds /\ Complete /\ Control /\ Built
    BY DEF Kinds, Complete, Control, Ordered, Built, Queues, ReadsAreTrue
  <2> QED
    BY <2>1, <2>2 DEF IInv
<1>2. IInv /\ [Next]_vars => IInv'
  <2> SUFFICES ASSUME IInv, [Next]_vars PROVE IInv'
    OBVIOUS
  <2>1. CASE Pipe /\ UNCHANGED di3fs
    BY <2>1, PipeStep
  <2>2. ASSUME UNCHANGED pipeline PROVE (PipelineTypeOK /\ Kinds /\ Complete /\ Control)'
    BY <2>2 DEF IInv, TypeOK, PipelineTypeOK, Kinds, Complete, Control, Ordered, pipeline, Queues, Shown,
                Kept, OldEntry
  <2>3. ASSUME NEW f \in tree, OpenBuilds(f) PROVE IInv'
    BY <2>2, <2>3, PipelineAssumption
    DEF OpenBuilds, IInv, TypeOK, PipelineTypeOK, Built, ReadsAreTrue, pipeline
  <2>4. ASSUME NEW f \in tree, OpenFails(f) PROVE IInv'
    BY <2>2, <2>4, PipelineAssumption
    DEF OpenFails, IInv, TypeOK, PipelineTypeOK, Built, ReadsAreTrue, pipeline
  <2>5. CASE Read
    BY <2>2, <2>5, PipelineAssumption
    DEF Read, IInv, TypeOK, Built, ReadsAreTrue, pipeline
  <2>6. CASE UNCHANGED vars
    BY <2>2, <2>6 DEF vars, di3fs, pipeline, IInv, TypeOK, Built, ReadsAreTrue
  <2> QED
    BY <2>1, <2>3, <2>4, <2>5, <2>6 DEF Next
<1> QED
  BY <1>1, <1>2, PTL DEF Spec

\* The pipeline and the node keep their types.
THEOREM TypeCorrect == Spec => []TypeOK
<1>1. IInv => TypeOK
  BY DEF IInv
<1> QED
  BY Invariance, <1>1, PTL

\* A diff or a pack that nothing failed in shows every file (the pipelines of diff.go
\* and pack.go), however its goroutines interleave.
THEOREM CleanWhole == Spec => []CleanIsWhole
<1>1. ASSUME IInv, returned, ~failed, NEW f \in tree PROVE Contents(f) = f
  <2>1. /\ \A w \in Workers : worker[w] = "ended"
        /\ walked = tree /\ queue = {} /\ tasks = <<>> /\ writes = <<>>
    BY <1>1, PipelineAssumption DEF IInv, Control
  <2>2. f \in Files /\ \A w \in Workers : worker[w] # f
    BY <1>1, <2>1, PipelineAssumption DEF IInv, TypeOK, PipelineTypeOK
  <2>3. ~Queues(tasks, f) /\ ~Queues(writes, f)
    BY <2>1, NothingQueued
  <2>4. Shown(f)
    BY <1>1, <2>1, <2>2, <2>3 DEF IInv, Complete
  <2> QED
    BY <2>4 DEF Shown, Contents, Piece
<1>2. IInv => CleanIsWhole
  BY <1>1 DEF CleanIsWhole
<1> QED
  BY Invariance, <1>2, PTL

\* Reads give the file unless an Open of it has failed (di3fs.go:189, 203), whatever
\* the diff has logged.
THEOREM ReadsTrue == Spec => []ReadsAreTrue
<1>1. IInv => ReadsAreTrue
  BY DEF IInv, Built
<1> QED
  BY Invariance, <1>1, PTL
==============================================================================
