--------------------------- MODULE ImageLoadsProofs ---------------------------
(***************************************************************************)
(* Proofs about ImageLoads, and Snapshotter below it, for any number of     *)
(* clients, keys, images and ids.                                           *)
(***************************************************************************)
EXTENDS ImageLoads, TLAPS

SnapshotterTypeOK ==
  /\ meta \in [Keys -> Snapshot \cup {Nil}] /\ seq \in 0..MaxId
  /\ writer \in Clients \cup {Nil} /\ dirs \subseteq Ids \cup Clients
  /\ mounts \in [Ids -> Dimgs \cup {Nil}] /\ store \subseteq Dimgs
  /\ daemon \in {"up", "cleared", "emptied"} /\ call \in [Clients -> Calls]
  /\ spoiled \subseteq Ids /\ leaked \in BOOLEAN

LoadTypeOK ==
  /\ images \in [Images -> Dimgs \cup {Nil}] /\ broken \subseteq Images
  /\ load \in [Clients -> [image : Images \cup {Nil}, dimg : Dimgs \cup {Nil},
                           ticket : Tickets \cup {Nil},
                           step : {"none", "remove", "prepare", "commit"}]]

InTransaction(c) == call[c].at \in {"inside", "committing"}

\* A directory that a sweep may remove, now and later: its id was given back, or it
\* is an old one that no row names.
Harmless(i) == i \in spoiled \/ (i <= seq /\ \A k \in Live : meta[k].id # i)

\* What a request has found out inside its transaction is still so when it commits.
Foreseen(c) ==
  LET q == call[c] IN
  q.at = "committing" =>
    /\ q.op \in Creating => /\ q.id = seq + 1 /\ q.id \in Ids /\ q.id \in dirs \cup spoiled
                            /\ q.key \notin Live
                            /\ q.other # Nil => /\ q.other \in Live
                                                /\ meta[q.other].kind = "committed"
    /\ q.op = "commit" => q.key \in Live /\ meta[q.key].kind = "active" /\ q.other \notin Live
    /\ q.op = "remove" => /\ q.key \in Live /\ ~HasChild(q.key)
                          /\ \A k \in Live \ {q.key} : meta[k].id \notin q.doomed
                          /\ \A i \in q.doomed \cap Ids : i <= seq \/ i \in spoiled

\* What a request will remove, and where it mounts.
Pending(c) ==
  LET q == call[c] IN
  /\ q.at = "done" => q.op = "none"
  /\ q.op = "sweep" => \A i \in q.doomed \cap Ids : Harmless(i)
  /\ q.at \in {"mounting", "starting"} => q.ref \in Dimgs
  /\ q.at = "starting" => q.id \in Ids
  /\ q.at = "deleting" => q.id \in q.doomed \cap Ids

Requests == \A c \in Clients : /\ InTransaction(c) => writer = c
                               /\ Foreseen(c) /\ Pending(c)

\* Ids grow: a directory that no commit stands for belongs to who is about to commit.
Dirs == \A i \in dirs \cap Ids :
          \/ i <= seq \/ i \in spoiled
          \/ \E c \in Clients : call[c].at = "committing" /\ call[c].op \in Creating /\ call[c].id = i

IdsAreOld == \A k \in Live : meta[k].id <= seq

Rows == LayersAreThere /\ IdsAreOld

SnapshotterInv == SnapshotterTypeOK /\ Requests /\ Dirs /\ Rows /\ TransactionsEnd

\* A load that runs is of an image.
Loading == \A c \in Clients : load[c].step # "none" => load[c].image \in Images

IInv == SnapshotterInv /\ LoadTypeOK /\ Loading
------------------------------------------------------------------------------
\* Requests as they are sent and answered.
LEMMA CallTyped ==
  /\ \A op \in Writing \cup {"sweep", "none"}, key, other \in Keys \cup {Nil}, ref \in Dimgs \cup {Nil} :
       Call(op, key, other, ref) \in Calls
  /\ \A ok \in BOOLEAN : /\ Done(ok) \in Calls /\ Done(ok).at = "done" /\ Done(ok).op = "none"
                         /\ Done(ok).ref = Nil /\ Done(ok).ok = ok
  BY DEF Call, Done, Calls

\* A request that is answered, or goes on to remove directories.
LEMMA SweepCall ==
  ASSUME call \in [Clients -> Calls], NEW c \in Clients, NEW ds \in SUBSET (Ids \cup Clients),
         NEW ok \in BOOLEAN, Sweep(c, ds, ok)
  PROVE  /\ call' \in [Clients -> Calls]
         /\ \A d \in Clients \ {c} : call'[d] = call[d]
         /\ \/ call'[c].op = "none" /\ call'[c].at = "done"
            \/ call'[c].op = "sweep" /\ call'[c].at = "begin" /\ call'[c].doomed = ds
         /\ call'[c].ref = Nil /\ call'[c].ok = ok
<1>1. Call("sweep", Nil, Nil, Nil) \in Calls
  BY CallTyped
<1>2. [Call("sweep", Nil, Nil, Nil) EXCEPT !.doomed = ds, !.ok = ok] \in Calls
  BY <1>1 DEF Calls
<1>3. /\ Done(ok) \in Calls /\ Done(ok).at = "done" /\ Done(ok).op = "none"
      /\ Done(ok).ref = Nil /\ Done(ok).ok = ok
  BY CallTyped
<1> DEFINE r == IF ds = {} THEN Done(ok)
                ELSE [Call("sweep", Nil, Nil, Nil) EXCEPT !.doomed = ds, !.ok = ok]
<1>4. call' = [call EXCEPT ![c] = r]
  BY DEF Sweep
<1>5. /\ r \in Calls /\ r.ref = Nil /\ r.ok = ok
      /\ \/ r.op = "none" /\ r.at = "done"
         \/ r.op = "sweep" /\ r.at = "begin" /\ r.doomed = ds
  <2>1. CASE ds = {}
    BY <1>3, <2>1
  <2>2. CASE ds # {}
    BY <1>2, <2>2 DEF Call
  <2> QED
    BY <2>1, <2>2
<1> HIDE DEF r
<1> QED
  BY <1>4, <1>5

\* A request that goes on, and is otherwise the same.
LEMMA GoCall ==
  ASSUME call \in [Clients -> Calls], NEW c \in Clients,
         NEW at \in {"inside", "committing", "mounting", "checking", "hung"}, Go(c, at)
  PROVE  /\ call' \in [Clients -> Calls]
         /\ \A d \in Clients \ {c} : call'[d] = call[d]
         /\ call'[c] = [call[c] EXCEPT !.at = at]
<1>1. call[c] \in Calls
  OBVIOUS
<1>2. [call[c] EXCEPT !.at = at] \in Calls
  BY <1>1 DEF Calls
<1>3. call' = [call EXCEPT ![c] = [call[c] EXCEPT !.at = at]]
  BY DEF Go
<1> QED
  BY <1>2, <1>3

\* A request that is answered.
LEMMA ReplyCall ==
  ASSUME call \in [Clients -> Calls], NEW c \in Clients, NEW ok \in BOOLEAN, Reply(c, ok)
  PROVE  /\ call' \in [Clients -> Calls]
         /\ \A d \in Clients \ {c} : call'[d] = call[d]
         /\ call'[c].op = "none" /\ call'[c].at = "done"
         /\ call'[c].ref = Nil /\ call'[c].ok = ok
<1>1. /\ Done(ok) \in Calls /\ Done(ok).at = "done" /\ Done(ok).op = "none"
      /\ Done(ok).ref = Nil /\ Done(ok).ok = ok
  BY CallTyped
<1>2. call' = [call EXCEPT ![c] = Done(ok)]
  BY DEF Reply
<1> QED
  BY <1>1, <1>2

\* The step after a snapshot's mount.
LEMMA MountsCall ==
  ASSUME call \in [Clients -> Calls], NEW c \in Clients, Mounts(c)
  PROVE  /\ call' \in [Clients -> Calls]
         /\ \A d \in Clients \ {c} : call'[d] = call[d]
         /\ \/ call'[c].op = "none" /\ call'[c].at = "done"
            \/ call'[c] = [call[c] EXCEPT !.at = "checking"]
<1>1. CASE call[c].other # Nil
  BY <1>1, GoCall DEF Mounts
<1>2. CASE call[c].other = Nil
  BY <1>2, ReplyCall DEF Mounts
<1> QED
  BY <1>1, <1>2
------------------------------------------------------------------------------
(* Steps by where they stand to the write transaction *)

\* Outside of it a step may remove directories that are harmless.
LEMMA OutsideStep ==
  ASSUME SnapshotterTypeOK, Requests, Dirs, Rows, TransactionsEnd, NEW c \in Clients,
         UNCHANGED <<meta, seq, writer, spoiled, leaked>>,
         \A d \in Clients \ {c} : call'[d] = call[d],
         ~InTransaction(c), ~InTransaction(c)', Pending(c)',
         dirs' \subseteq dirs, \A i \in (dirs \ dirs') \cap Ids : Harmless(i)
  PROVE  Requests' /\ Dirs' /\ Rows' /\ TransactionsEnd'
<1>1. \A i : Harmless(i)' <=> Harmless(i)
  BY DEF Harmless, Live
<1>2. seq \in Nat /\ Live' = Live /\ \A k : HasChild(k)' <=> HasChild(k)
  BY SnapshotterAssumption DEF SnapshotterTypeOK, Live, HasChild
<1>3. ASSUME NEW d \in Clients \ {c}
      PROVE  (InTransaction(d)' => writer' = d) /\ Foreseen(d)' /\ Pending(d)'
  <2>1. call'[d] = call[d]
    BY <1>3
  <2>2. InTransaction(d)' => writer' = d
    BY <2>1, <1>3 DEF Requests, InTransaction
  <2>3. Pending(d)'
    <3>1. Pending(d)
      BY <1>3 DEF Requests
    <3> QED
      BY <2>1, <1>1, <3>1 DEF Pending
  <2>4. Foreseen(d)'
    <3>1. Foreseen(d)
      BY <1>3 DEF Requests
    <3>2. ASSUME call[d].at = "committing", call[d].op \in Creating
          PROVE  call[d].id \in dirs' \cup spoiled
      <4>1. call[d].id = seq + 1 /\ call[d].id \in Ids /\ call[d].id \in dirs \cup spoiled
        BY <3>1, <3>2 DEF Foreseen
      <4>2. ~(seq + 1 <= seq)
        BY <1>2
      <4> QED
        BY <4>1, <4>2 DEF Harmless
    <3> QED
      BY <1>2, <2>1, <3>1, <3>2 DEF Foreseen
  <2> QED
    BY <2>2, <2>3, <2>4
<1>4. Foreseen(c)'
  BY DEF Foreseen, InTransaction
<1>5. Requests'
  BY <1>3, <1>4 DEF Requests
<1>6. Dirs'
  <2>1. ASSUME NEW d \in Clients, call[d].at = "committing" PROVE call'[d] = call[d]
    BY <2>1 DEF InTransaction
  <2> QED
    BY <2>1 DEF Dirs
<1>7. Rows'
  <2>1. ASSUME NEW k \in Live PROVE meta[k].id \in dirs' \cup spoiled
    <3>1. meta[k] \in Snapshot
      BY <2>1, SnapshotterAssumption DEF SnapshotterTypeOK, Live
    <3>2. meta[k].id \in Ids /\ meta[k].id \in dirs \cup spoiled
      BY <2>1, <3>1 DEF Rows, LayersAreThere, Snapshot
    <3> QED
      BY <2>1, <3>2 DEF Harmless
  <2> QED
    BY <1>2, <2>1 DEF Rows, LayersAreThere, IdsAreOld
<1>8. TransactionsEnd'
  BY DEF TransactionsEnd, InTransaction, SnapshotterTypeOK
<1> QED
  BY <1>5, <1>6, <1>7, <1>8

\* While one request is inside, the others have nothing to foresee.
LEMMA OtherRequests ==
  ASSUME Requests, NEW c \in Clients, writer = c,
         \A d \in Clients \ {c} : call'[d] = call[d],
         \A i \in Ids : Harmless(i) => Harmless(i)'
  PROVE  \A d \in Clients \ {c} : ~InTransaction(d)' /\ Foreseen(d)' /\ Pending(d)'
<1> SUFFICES ASSUME NEW d \in Clients \ {c}
             PROVE  ~InTransaction(d)' /\ Foreseen(d)' /\ Pending(d)'
  OBVIOUS
<1>1. call'[d] = call[d] /\ ~InTransaction(d)
  BY DEF Requests
<1>2. Pending(d)
  BY DEF Requests
<1> QED
  BY <1>1, <1>2 DEF InTransaction, Foreseen, Pending

\* A transaction that ends, or is left open, with the rows as they were.
LEMMA RowsStay ==
  ASSUME SnapshotterTypeOK, Requests, Dirs, Rows, NEW c \in Clients, InTransaction(c),
         UNCHANGED <<meta, seq, dirs>>, spoiled \subseteq spoiled',
         writer' = Nil \/ leaked',
         \A d \in Clients \ {c} : call'[d] = call[d],
         ~InTransaction(c)', Pending(c)',
         call[c].at = "committing" /\ call[c].op \in Creating => call[c].id \in spoiled'
  PROVE  Requests' /\ Dirs' /\ Rows' /\ TransactionsEnd'
<1>1. writer = c
  BY DEF Requests
<1>2. \A i \in Ids : Harmless(i) => Harmless(i)'
  BY DEF Harmless, Live
<1>3. \A d \in Clients \ {c} : ~InTransaction(d)' /\ Foreseen(d)' /\ Pending(d)'
  BY <1>1, <1>2, OtherRequests
<1>4. Requests'
  BY <1>3 DEF Requests, Foreseen, InTransaction
<1>5. Dirs'
  <2>1. ASSUME NEW d \in Clients, call[d].at = "committing" PROVE d = c
    BY <1>1, <2>1 DEF Requests, InTransaction
  <2> QED
    BY <2>1 DEF Dirs
<1>6. Rows'
  BY DEF Rows, LayersAreThere, IdsAreOld, Live
<1>7. TransactionsEnd'
  BY DEF TransactionsEnd
<1> QED
  BY <1>4, <1>5, <1>6, <1>7
------------------------------------------------------------------------------
(* The actions inside of a transaction *)

\* The write transaction goes to one request, when it is free.
LEMMA BeginStep ==
  ASSUME SnapshotterInv, NEW c \in Clients, Begin(c)
  PROVE  SnapshotterInv'
<1> USE DEF SnapshotterInv, Begin, At
<1>1. call \in [Clients -> Calls] /\ Go(c, "inside")
  BY DEF SnapshotterTypeOK
<1>2. /\ call' \in [Clients -> Calls]
      /\ \A d \in Clients \ {c} : call'[d] = call[d]
      /\ call'[c] = [call[c] EXCEPT !.at = "inside"]
  BY ONLY <1>1, GoCall
<1>3. call'[c].at = "inside" /\ call'[c].op = call[c].op /\ call[c].op \in Writing
  BY <1>1, <1>2 DEF Calls
<1>4. SnapshotterTypeOK'
  BY <1>2 DEF SnapshotterTypeOK
<1>5. \A i \in Ids : Harmless(i) => Harmless(i)'
  BY DEF Harmless, Live
<1>6. \A d \in Clients \ {c} : ~InTransaction(d)' /\ Foreseen(d)' /\ Pending(d)'
  <2> TAKE d \in Clients \ {c}
  <2>1. call'[d] = call[d] /\ ~InTransaction(d) /\ Pending(d)
    BY <1>2, SnapshotterAssumption DEF Requests
  <2> QED
    BY <1>5, <2>1 DEF InTransaction, Foreseen, Pending
<1>7. Foreseen(c)' /\ Pending(c)'
  BY <1>3 DEF Foreseen, Pending, Writing, Creating
<1>8. Requests'
  BY <1>6, <1>7 DEF Requests
<1>9. Dirs'
  <2>1. dirs' \cap Ids \subseteq dirs \cap Ids
    BY SnapshotterAssumption
  <2>2. \A d \in Clients : call[d].at = "committing" => call'[d] = call[d]
    BY <1>2
  <2> QED
    BY <2>1, <2>2 DEF Dirs
<1>10. Rows'
  <2>1. dirs \subseteq dirs'
    OBVIOUS
  <2> QED
    BY <2>1 DEF Rows, LayersAreThere, IdsAreOld, Live
<1>11. TransactionsEnd'
  BY <1>3 DEF TransactionsEnd
<1> QED
  BY <1>4, <1>8, <1>9, <1>10, <1>11

\* createSnapshot renames to the next id, which is of nobody yet.
LEMMA CreateRowStep ==
  ASSUME SnapshotterInv, NEW c \in Clients, CreateRow(c)
  PROVE  SnapshotterInv'
<1> USE DEF SnapshotterInv, CreateRow, At
<1>1. writer = c /\ seq \in Nat /\ seq + 1 \in Ids /\ MaxId \in Nat
  BY SnapshotterAssumption DEF SnapshotterTypeOK, Requests, InTransaction, Creatable, Ids
<1>2. /\ call' \in [Clients -> Calls]
      /\ \A d \in Clients \ {c} : call'[d] = call[d]
      /\ call'[c] = [call[c] EXCEPT !.at = "committing", !.id = seq + 1]
  <2>1. call[c] \in Calls
    BY DEF SnapshotterTypeOK
  <2>2. [call[c] EXCEPT !.at = "committing", !.id = seq + 1] \in Calls
    BY <1>1, <2>1 DEF Calls
  <2>3. call' = [call EXCEPT ![c] = [call[c] EXCEPT !.at = "committing", !.id = seq + 1]]
    OBVIOUS
  <2> QED
    BY <2>2, <2>3 DEF SnapshotterTypeOK
<1>3. /\ call'[c].at = "committing" /\ call'[c].id = seq + 1 /\ call'[c].op = call[c].op
      /\ call'[c].key = call[c].key /\ call'[c].other = call[c].other
      /\ call[c].other \in Keys \cup {Nil} /\ call[c].key \in Keys \cup {Nil}
  <2>1. call[c] \in Calls
    BY DEF SnapshotterTypeOK
  <2> QED
    BY ONLY <1>2, <2>1 DEF Calls
<1>4. SnapshotterTypeOK'
  BY <1>1, <1>2 DEF SnapshotterTypeOK
<1>5. \A i \in Ids : Harmless(i) => Harmless(i)'
  BY DEF Harmless, Live
<1>6. \A d \in Clients \ {c} : ~InTransaction(d)' /\ Foreseen(d)' /\ Pending(d)'
  BY <1>1, <1>2, <1>5, OtherRequests
<1>7. Foreseen(c)' /\ Pending(c)'
  <2>1. call[c].op \in Creating /\ Creatable(call[c])
    OBVIOUS
  <2>2. /\ call[c].key \notin Live
        /\ call[c].other # Nil => call[c].other \in Live /\ meta[call[c].other].kind = "committed"
    BY <1>3, <2>1 DEF Creatable, Live
  <2>3. Live' = Live /\ seq + 1 \in dirs'
    BY DEF Live
  <2> QED
    BY <1>1, <1>3, <2>1, <2>2, <2>3 DEF Foreseen, Pending, Creating
<1>8. Requests'
  BY <1>1, <1>6, <1>7 DEF Requests
<1>9. Dirs'
  <2>1. ASSUME NEW i \in dirs' \cap Ids, i # seq + 1 PROVE i <= seq \/ i \in spoiled
    <3>1. i \in dirs \cap Ids
      BY <2>1
    <3>2. \A d \in Clients : call[d].at # "committing"
      BY <1>1 DEF Requests, InTransaction
    <3> QED
      BY <3>1, <3>2 DEF Dirs
  <2>2. call'[c].op \in Creating
    BY <1>3
  <2> QED
    BY <1>3, <2>1, <2>2 DEF Dirs
<1>10. Rows'
  <2>1. \A k \in Live : meta[k].id \in Ids
    BY SnapshotterAssumption DEF SnapshotterTypeOK, Live, Snapshot
  <2>2. dirs \cap Ids \subseteq dirs'
    BY SnapshotterAssumption
  <2>3. \A k \in Live : meta[k].id \in dirs' \cup spoiled
    BY <2>1, <2>2 DEF Rows, LayersAreThere
  <2> QED
    BY <2>3 DEF Rows, LayersAreThere, IdsAreOld, Live
<1>11. TransactionsEnd'
  BY <1>1, <1>3 DEF TransactionsEnd
<1> QED
  BY <1>4, <1>8, <1>9, <1>10, <1>11

\* The id that was foreseen becomes the last one, and its row has its directory.
LEMMA CreateCommitsStep ==
  ASSUME SnapshotterInv, NEW c \in Clients, CreateCommits(c)
  PROVE  SnapshotterInv'
<1> USE DEF SnapshotterInv
<1> DEFINE q == call[c]
           row == [id |-> q.id, kind |-> IF q.op = "view" THEN "view" ELSE "active",
                   parent |-> q.other, ref |-> q.ref]
<1>1. q \in Calls /\ seq \in Nat /\ writer = c
  BY SnapshotterAssumption DEF SnapshotterTypeOK, Requests, InTransaction, CreateCommits, At
<1>2. /\ q.id = seq + 1 /\ q.id \in Ids /\ q.id \in dirs \cup spoiled /\ q.key \notin Live
      /\ q.other # Nil => q.other \in Live /\ meta[q.other].kind = "committed"
  BY DEF Requests, Foreseen, CreateCommits, At
<1>3. /\ meta' = [meta EXCEPT ![q.key] = row] /\ seq' = seq + 1 /\ writer' = Nil
      /\ UNCHANGED <<dirs, mounts, store, daemon, spoiled, leaked>>
  BY <1>2 DEF CreateCommits
<1>4. q.at = "committing" /\ q.op \in Creating
  BY DEF CreateCommits, At
<1>5. /\ call' \in [Clients -> Calls]
      /\ \A d \in Clients \ {c} : call'[d] = call[d]
      /\ \/ call'[c].op = "none" /\ call'[c].at = "done"
         \/ /\ call'[c].op = q.op /\ call'[c].ref = q.ref
            /\ call'[c].at = "checking" \/ (q.ref # Nil /\ call'[c].at = "mounting")
  <2>1. call \in [Clients -> Calls]
    BY DEF SnapshotterTypeOK
  <2>2. CASE q.ref # Nil
    <3>1. Go(c, "mounting")
      BY <2>2 DEF CreateCommits
    <3>2. /\ call' \in [Clients -> Calls]
          /\ \A d \in Clients \ {c} : call'[d] = call[d]
          /\ call'[c] = [q EXCEPT !.at = "mounting"]
      BY ONLY <2>1, <3>1, GoCall
    <3> QED
      BY <1>1, <2>2, <3>2 DEF Calls
  <2>3. CASE q.ref = Nil
    <3>1. Mounts(c)
      BY <2>3 DEF CreateCommits
    <3>2. /\ call' \in [Clients -> Calls]
          /\ \A d \in Clients \ {c} : call'[d] = call[d]
          /\ \/ call'[c].op = "none" /\ call'[c].at = "done"
             \/ call'[c] = [q EXCEPT !.at = "checking"]
      BY ONLY <2>1, <3>1, MountsCall
    <3> QED
      BY <1>1, <3>2 DEF Calls
  <2> QED
    BY <2>2, <2>3
<1>6. row \in Snapshot /\ row # Nil
  <2>1. row \in Snapshot
    BY <1>1, <1>2 DEF Calls, Snapshot
  <2> QED
    BY <2>1, SnapshotterAssumption
<1> HIDE DEF q, row
<1>7. SnapshotterTypeOK'
  <2>1. seq + 1 \in 0..MaxId
    BY <1>1, <1>2, SnapshotterAssumption DEF Ids
  <2>2. meta' \in [Keys -> Snapshot \cup {Nil}]
    BY <1>3, <1>6 DEF SnapshotterTypeOK
  <2> QED
    BY <1>3, <1>5, <2>1, <2>2 DEF SnapshotterTypeOK
<1>8. /\ \A k \in Keys : meta'[k] = IF k = q.key THEN row ELSE meta[k]
      /\ Live' = Live \cup ({q.key} \cap Keys)
  <2>1. \A k \in Keys : meta'[k] = IF k = q.key THEN row ELSE meta[k]
    BY <1>3 DEF SnapshotterTypeOK
  <2> QED
    BY <1>6, <2>1 DEF Live
<1>9. row.id = seq + 1 /\ row.parent = q.other /\ row.kind \in {"active", "view"}
  BY <1>2 DEF row
<1>10. \A i \in Ids : Harmless(i) => Harmless(i)'
  <2> SUFFICES ASSUME NEW i \in Ids, i <= seq, \A k \in Live : meta[k].id # i
               PROVE  i <= seq' /\ \A k \in Live' : meta'[k].id # i
    BY <1>3 DEF Harmless
  <2>1. i \in Int
    BY SnapshotterAssumption DEF Ids
  <2>2. i <= seq + 1 /\ i # seq + 1
    BY <1>1, <2>1
  <2>3. \A k \in Live' : meta'[k].id # i
    BY <1>8, <1>9, <2>2 DEF Live
  <2> QED
    BY <1>3, <2>2, <2>3
<1>11. \A d \in Clients \ {c} : ~InTransaction(d)' /\ Foreseen(d)' /\ Pending(d)'
  BY <1>1, <1>5, <1>10, OtherRequests
<1>12. ~InTransaction(c)' /\ Foreseen(c)' /\ Pending(c)'
  BY <1>1, <1>4, <1>5 DEF InTransaction, Foreseen, Pending, Creating, Calls
<1>13. Requests'
  BY <1>11, <1>12 DEF Requests
<1>14. Dirs'
  <2>1. ASSUME NEW i \in dirs \cap Ids PROVE i <= seq + 1 \/ i \in spoiled
    <3>1. i <= seq \/ i \in spoiled \/ i = seq + 1
      <4>1. \A d \in Clients : call[d].at = "committing" => d = c
        BY <1>1 DEF Requests, InTransaction
      <4> QED
        BY <1>2, <4>1 DEF Dirs, q
    <3> QED
      BY <1>1, <3>1, SnapshotterAssumption DEF Ids
  <2> QED
    BY <1>3, <2>1 DEF Dirs
<1>15. Rows'
  <2>1. ASSUME NEW k \in Live'
        PROVE  /\ meta'[k].id \in dirs \cup spoiled /\ meta'[k].id <= seq + 1
               /\ meta'[k].parent # Nil => /\ meta'[k].parent \in Live'
                                          /\ meta'[meta'[k].parent].kind = "committed"
    <3>1. CASE k = q.key
      BY <1>1, <1>2, <1>8, <1>9, <2>1, <3>1 DEF Live
    <3>2. CASE k # q.key
      <4>1. k \in Live /\ meta'[k] = meta[k] /\ meta[k] \in Snapshot
        BY <1>8, <2>1, <3>2 DEF Live, SnapshotterTypeOK
      <4>2. meta[k].id <= seq + 1
        BY <1>1, <4>1, SnapshotterAssumption DEF Rows, IdsAreOld, Snapshot, Ids
      <4> QED
        BY <1>2, <1>8, <4>1, <4>2 DEF Rows, LayersAreThere, Live
    <3> QED
      BY <3>1, <3>2
  <2> QED
    BY <1>3, <2>1 DEF Rows, LayersAreThere, IdsAreOld
<1>16. TransactionsEnd'
  BY <1>3 DEF TransactionsEnd
<1> QED
  BY <1>7, <1>13, <1>14, <1>15, <1>16

\* commit checks what its transaction will change.
LEMMA CommitRowStep ==
  ASSUME SnapshotterInv, NEW c \in Clients, CommitRow(c)
  PROVE  SnapshotterInv'
<1> USE DEF SnapshotterInv, CommitRow, At
<1>1. writer = c
  BY DEF Requests, InTransaction
<1>2. call \in [Clients -> Calls] /\ Go(c, "committing")
  BY DEF SnapshotterTypeOK
<1>3. /\ call' \in [Clients -> Calls]
      /\ \A d \in Clients \ {c} : call'[d] = call[d]
      /\ call'[c] = [call[c] EXCEPT !.at = "committing"]
  BY ONLY <1>2, GoCall
<1>4. /\ call'[c].at = "committing" /\ call'[c].op = "commit"
      /\ call'[c].key = call[c].key /\ call'[c].other = call[c].other
  BY <1>2, <1>3 DEF Calls
<1>5. SnapshotterTypeOK'
  BY <1>3 DEF SnapshotterTypeOK
<1>6. \A d \in Clients \ {c} : ~InTransaction(d)' /\ Foreseen(d)' /\ Pending(d)'
  BY <1>1, <1>3, OtherRequests DEF Harmless, Live
<1>7. Foreseen(c)' /\ Pending(c)'
  BY <1>4 DEF Foreseen, Pending, Creating, Live
<1>8. Requests'
  BY <1>1, <1>6, <1>7 DEF Requests
<1>9. Dirs'
  <2>1. \A d \in Clients : call[d].at = "committing" => call'[d] = call[d]
    BY <1>3
  <2> QED
    BY <2>1 DEF Dirs
<1>10. Rows' /\ TransactionsEnd'
  BY <1>1, <1>4 DEF Rows, LayersAreThere, IdsAreOld, Live, TransactionsEnd
<1> QED
  BY <1>5, <1>8, <1>9, <1>10

\* A snapshot that is committed keeps its id, so its directory too.
LEMMA CommitCommitsStep ==
  ASSUME SnapshotterInv, NEW c \in Clients, CommitCommits(c)
  PROVE  SnapshotterInv'
<1> USE DEF SnapshotterInv
<1> DEFINE q == call[c]
           row == [meta[q.key] EXCEPT !.kind = "committed"]
<1>1. writer = c /\ q \in Calls /\ q.at = "committing" /\ q.op = "commit"
  BY DEF Requests, InTransaction, CommitCommits, At, SnapshotterTypeOK
<1>2. q.key \in Live /\ meta[q.key].kind = "active" /\ q.other \notin Live
  BY <1>1 DEF Requests, Foreseen
<1>3. /\ meta' = [meta EXCEPT ![q.other] = row, ![q.key] = Nil]
      /\ writer' = Nil /\ Reply(c, TRUE)
      /\ UNCHANGED <<seq, dirs, mounts, store, daemon, spoiled, leaked>>
  BY DEF CommitCommits
<1>4. /\ call' \in [Clients -> Calls]
      /\ \A d \in Clients \ {c} : call'[d] = call[d]
      /\ call'[c].op = "none" /\ call'[c].at = "done"
  BY ONLY <1>3, SnapshotterInv, ReplyCall DEF SnapshotterTypeOK
<1>5. meta[q.key] \in Snapshot /\ q.key \in Keys /\ q.other # q.key
  BY <1>2 DEF SnapshotterTypeOK, Live
<1>6. /\ row \in Snapshot /\ row # Nil /\ row.id = meta[q.key].id /\ row.kind = "committed"
      /\ row.parent = meta[q.key].parent
  <2>1. row \in Snapshot /\ row.id = meta[q.key].id /\ row.kind = "committed"
        /\ row.parent = meta[q.key].parent
    BY <1>5 DEF Snapshot
  <2> QED
    BY <2>1, SnapshotterAssumption
<1> HIDE DEF q, row
<1>7. SnapshotterTypeOK'
  <2>1. meta' \in [Keys -> Snapshot \cup {Nil}]
    BY <1>3, <1>6 DEF SnapshotterTypeOK
  <2> QED
    BY <1>3, <1>4, <2>1 DEF SnapshotterTypeOK
<1>8. \A k \in Keys : meta'[k] = IF k = q.key THEN Nil ELSE IF k = q.other THEN row ELSE meta[k]
  BY <1>3, <1>5 DEF SnapshotterTypeOK
<1>9. Live' = (Live \ {q.key}) \cup ({q.other} \cap Keys)
  BY <1>5, <1>6, <1>8 DEF Live
<1>10. \A k \in Live' : \E j \in Live : meta'[k].id = meta[j].id /\ meta'[k].parent = meta[j].parent
  BY <1>2, <1>6, <1>8, <1>9 DEF Live
<1>11. \A i \in Ids : Harmless(i) => Harmless(i)'
  BY <1>3, <1>10 DEF Harmless
<1>12. \A d \in Clients \ {c} : ~InTransaction(d)' /\ Foreseen(d)' /\ Pending(d)'
  BY <1>1, <1>4, <1>11, OtherRequests
<1>13. Requests'
  BY <1>4, <1>12 DEF Requests, InTransaction, Foreseen, Pending
<1>14. Dirs'
  <2>1. \A d \in Clients : call[d].at = "committing" => d = c
    BY <1>1 DEF Requests, InTransaction
  <2>2. \A i \in dirs \cap Ids : i <= seq \/ i \in spoiled
    BY <1>1, <2>1 DEF Dirs, q, Creating
  <2> QED
    BY <1>3, <2>2 DEF Dirs
<1>15. Rows'
  <2>1. \A j \in Live : meta[j].parent # Nil =>
          meta[j].parent \in Live' /\ meta'[meta[j].parent].kind = "committed"
    BY <1>2, <1>6, <1>8, <1>9 DEF Rows, LayersAreThere, Live
  <2> QED
    BY <1>3, <1>10, <2>1 DEF Rows, LayersAreThere, IdsAreOld
<1>16. TransactionsEnd'
  BY <1>3 DEF TransactionsEnd
<1> QED
  BY <1>7, <1>13, <1>14, <1>15, <1>16

\* Remove lists directories that no row will name.
LEMMA RemoveRowStep ==
  ASSUME SnapshotterInv, NEW c \in Clients, RemoveRow(c)
  PROVE  SnapshotterInv'
<1> USE DEF SnapshotterInv, RemoveRow, At
<1> DEFINE doomed == dirs \ {meta[j].id : j \in Live \ {call[c].key}}
<1>1. writer = c /\ call[c] \in Calls
  BY DEF Requests, InTransaction, SnapshotterTypeOK
<1>2. /\ call' \in [Clients -> Calls]
      /\ \A d \in Clients \ {c} : call'[d] = call[d]
      /\ call'[c].at = "committing" /\ call'[c].op = "remove"
      /\ call'[c].key = call[c].key /\ call'[c].doomed = doomed
  <2>1. doomed \subseteq Ids \cup Clients
    BY DEF SnapshotterTypeOK
  <2>2. call' = [call EXCEPT ![c] = [call[c] EXCEPT !.at = "committing", !.doomed = doomed]]
    OBVIOUS
  <2>3. call[c].op = "remove"
    OBVIOUS
  <2> HIDE DEF doomed
  <2>4. [call[c] EXCEPT !.at = "committing", !.doomed = doomed] \in Calls
    BY <1>1, <2>1 DEF Calls
  <2>5. call'[c] = [call[c] EXCEPT !.at = "committing", !.doomed = doomed]
    BY <2>2 DEF SnapshotterTypeOK
  <2> QED
    <3>1. call \in [Clients -> Calls]
      BY DEF SnapshotterTypeOK
    <3> QED
      BY ONLY <1>1, <2>2, <2>3, <2>4, <2>5, <3>1 DEF Calls
<1>3. SnapshotterTypeOK'
  BY <1>2 DEF SnapshotterTypeOK
<1>4. \A d \in Clients \ {c} : ~InTransaction(d)' /\ Foreseen(d)' /\ Pending(d)'
  BY <1>1, <1>2, OtherRequests DEF Harmless, Live
<1>5. \A i \in dirs \cap Ids : i <= seq \/ i \in spoiled
  <2>1. \A d \in Clients : call[d].at # "committing"
    BY <1>1 DEF Requests, InTransaction
  <2> QED
    BY <2>1 DEF Dirs
<1>6. Foreseen(c)' /\ Pending(c)'
  <2>1. call[c].key \in Live /\ ~HasChild(call[c].key)
    OBVIOUS
  <2>2. Live' = Live /\ \A k : HasChild(k)' <=> HasChild(k)
    BY DEF Live, HasChild
  <2>3. (call[c].key \in Live /\ ~HasChild(call[c].key))'
    BY <1>2, <2>1, <2>2
  <2>4. \A k \in Live \ {call[c].key} : meta[k].id \notin doomed
    OBVIOUS
  <2>5. \A i \in doomed \cap Ids : i <= seq \/ i \in spoiled
    BY <1>5
  <2> QED
    BY <1>2, <2>2, <2>3, <2>4, <2>5 DEF Foreseen, Pending, Creating
<1>7. Requests'
  BY <1>1, <1>4, <1>6 DEF Requests
<1>8. Dirs'
  BY <1>5 DEF Dirs
<1>9. Rows' /\ TransactionsEnd'
  BY <1>1, <1>2 DEF Rows, LayersAreThere, IdsAreOld, Live, TransactionsEnd
<1> QED
  BY <1>3, <1>7, <1>8, <1>9

\* A row that no other one has as its parent goes, and only then its directory.
LEMMA RemoveCommitsStep ==
  ASSUME SnapshotterInv, NEW c \in Clients, RemoveCommits(c)
  PROVE  SnapshotterInv'
<1> USE DEF SnapshotterInv
<1> DEFINE q == call[c]
<1>1. writer = c /\ q \in Calls /\ q.at = "committing" /\ q.op = "remove"
  BY DEF Requests, InTransaction, RemoveCommits, At, SnapshotterTypeOK
<1>2. /\ q.key \in Live /\ ~HasChild(q.key)
      /\ \A k \in Live \ {q.key} : meta[k].id \notin q.doomed
      /\ \A i \in q.doomed \cap Ids : i <= seq \/ i \in spoiled
  BY <1>1 DEF Requests, Foreseen
<1>3. /\ meta' = [meta EXCEPT ![q.key] = Nil]
      /\ writer' = Nil /\ Sweep(c, q.doomed, TRUE)
      /\ UNCHANGED <<seq, dirs, mounts, store, daemon, spoiled, leaked>>
  BY DEF RemoveCommits
<1>4. /\ call' \in [Clients -> Calls]
      /\ \A d \in Clients \ {c} : call'[d] = call[d]
      /\ \/ call'[c].op = "none" /\ call'[c].at = "done"
         \/ call'[c].op = "sweep" /\ call'[c].at = "begin" /\ call'[c].doomed = q.doomed
  <2>1. call \in [Clients -> Calls] /\ q.doomed \in SUBSET (Ids \cup Clients)
    BY <1>1 DEF SnapshotterTypeOK, Calls
  <2> QED
    BY ONLY <1>3, <2>1, SweepCall
<1> HIDE DEF q
<1>5. SnapshotterTypeOK'
  BY <1>3, <1>4 DEF SnapshotterTypeOK
<1>6. /\ Live' = Live \ {q.key}
      /\ \A k \in Live' : meta'[k] = meta[k]
  BY <1>3 DEF SnapshotterTypeOK, Live
<1>7. \A i \in Ids : Harmless(i) => Harmless(i)'
  BY <1>3, <1>6 DEF Harmless
<1>8. \A d \in Clients \ {c} : ~InTransaction(d)' /\ Foreseen(d)' /\ Pending(d)'
  BY <1>1, <1>4, <1>7, OtherRequests
<1>9. \A i \in q.doomed \cap Ids : Harmless(i)'
  BY <1>2, <1>3, <1>6 DEF Harmless
<1>10. Requests'
  BY <1>4, <1>8, <1>9 DEF Requests, InTransaction, Foreseen, Pending
<1>11. Dirs'
  <2>1. \A d \in Clients : call[d].at = "committing" => d = c
    BY <1>1 DEF Requests, InTransaction
  <2>2. \A i \in dirs \cap Ids : i <= seq \/ i \in spoiled
    BY <1>1, <2>1 DEF Dirs, q, Creating
  <2> QED
    BY <1>3, <2>2 DEF Dirs
<1>12. Rows'
  BY <1>2, <1>3, <1>6 DEF Rows, LayersAreThere, IdsAreOld, HasChild
<1>13. TransactionsEnd'
  BY <1>3 DEF TransactionsEnd
<1> QED
  BY <1>5, <1>10, <1>11, <1>12, <1>13
\* The ways in which a transaction ends without a change of the rows.
Abort(c) ==
  \/ CreateFails(c) \/ CreateCommitFails(c) \/ CommitRefused(c) \/ UsageFails(c)
  \/ RemoveRefused(c) \/ CommitFails(c) \/ UpdateRow(c) \/ CleanUp(c)

\* The other ends of a transaction leave the rows as they are.
LEMMA AbortStep ==
  ASSUME SnapshotterInv, NEW c \in Clients, Abort(c)
  PROVE  SnapshotterInv'
<1> USE DEF SnapshotterInv
<1>1. /\ call \in [Clients -> Calls] /\ InTransaction(c)
      /\ dirs \subseteq Ids \cup Clients /\ spoiled \subseteq Ids /\ seq \in Nat
  <2>1. InTransaction(c)
    <3>1. CASE CreateFails(c) \/ CreateCommitFails(c)
      BY <3>1 DEF CreateFails, CreateCommitFails, At, InTransaction
    <3>2. CASE CommitRefused(c) \/ UsageFails(c) \/ RemoveRefused(c)
      BY <3>2 DEF CommitRefused, UsageFails, RemoveRefused, At, InTransaction
    <3>3. CASE CommitFails(c) \/ UpdateRow(c) \/ CleanUp(c)
      BY <3>3 DEF CommitFails, UpdateRow, CleanUp, At, InTransaction
    <3> QED
      BY <3>1, <3>2, <3>3 DEF Abort
  <2> QED
    BY <2>1, SnapshotterAssumption DEF SnapshotterTypeOK
<1>2. /\ UNCHANGED <<meta, seq, dirs, mounts, store, daemon>>
      /\ spoiled' \subseteq Ids /\ leaked' \in BOOLEAN /\ writer' \in Clients \cup {Nil}
      /\ spoiled \subseteq spoiled'
      /\ writer' = Nil \/ leaked'
      /\ call' \in [Clients -> Calls]
      /\ \A d \in Clients \ {c} : call'[d] = call[d]
      /\ \/ call'[c].op = "none" /\ call'[c].at = "done"
         \/ /\ call'[c].op = "sweep" /\ call'[c].at = "begin"
            /\ \A i \in call'[c].doomed \cap Ids : Harmless(i)'
      /\ call[c].at = "committing" /\ call[c].op \in Creating => call[c].id \in spoiled'
  <2> DEFINE Goal == /\ UNCHANGED <<meta, seq, dirs, mounts, store, daemon>>
                     /\ spoiled' \subseteq Ids /\ leaked' \in BOOLEAN /\ writer' \in Clients \cup {Nil}
                     /\ spoiled \subseteq spoiled'
                     /\ writer' = Nil \/ leaked'
                     /\ call' \in [Clients -> Calls]
                     /\ \A d \in Clients \ {c} : call'[d] = call[d]
                     /\ \/ call'[c].op = "none" /\ call'[c].at = "done"
                        \/ /\ call'[c].op = "sweep" /\ call'[c].at = "begin"
                           /\ \A i \in call'[c].doomed \cap Ids : Harmless(i)'
                     /\ call[c].at = "committing" /\ call[c].op \in Creating => call[c].id \in spoiled'
  <2>1. CASE CreateFails(c)
    <3>1. PICK ds \in SUBSET (Ids \cup Clients) :
            /\ Sweep(c, ds, FALSE) /\ ds \cap Ids \subseteq spoiled'
            /\ spoiled' \subseteq Ids /\ spoiled \subseteq spoiled'
      <4>1. CASE Sweep(c, {c}, FALSE) /\ UNCHANGED spoiled
        <5>1. {c} \cap Ids = {}
          BY SnapshotterAssumption
        <5> QED
          BY <1>1, <4>1, <5>1
      <4>2. CASE /\ Creatable(call[c]) /\ Sweep(c, {c, seq + 1}, FALSE)
                 /\ spoiled' = spoiled \cup {seq + 1}
        <5>1. seq + 1 \in Ids /\ {c, seq + 1} \cap Ids \subseteq spoiled'
          BY <1>1, <4>2, SnapshotterAssumption DEF Creatable, Ids
        <5> QED
          BY <1>1, <4>2, <5>1
      <4> QED
        BY <2>1, <4>1, <4>2 DEF CreateFails
    <3>2. /\ call' \in [Clients -> Calls]
          /\ \A d \in Clients \ {c} : call'[d] = call[d]
          /\ \/ call'[c].op = "none" /\ call'[c].at = "done"
             \/ call'[c].op = "sweep" /\ call'[c].at = "begin" /\ call'[c].doomed = ds
      BY ONLY <1>1, <3>1, SweepCall
    <3>3. \A i \in ds \cap Ids : Harmless(i)'
      BY <3>1 DEF Harmless
    <3>4. /\ UNCHANGED <<meta, seq, dirs, mounts, store, daemon, leaked>> /\ writer' = Nil
          /\ call[c].at = "inside"
      BY <2>1 DEF CreateFails, At
    <3> QED
      BY <3>1, <3>2, <3>3, <3>4 DEF SnapshotterTypeOK
  <2>2. CASE CreateCommitFails(c)
    <3>1. /\ call[c].id \in Ids /\ Sweep(c, {call[c].id}, FALSE)
          /\ spoiled' = spoiled \cup {call[c].id}
          /\ UNCHANGED <<meta, seq, dirs, mounts, store, daemon, leaked>> /\ writer' = Nil
      BY <2>2 DEF CreateCommitFails, At, Requests, Foreseen
    <3>2. /\ call' \in [Clients -> Calls]
          /\ \A d \in Clients \ {c} : call'[d] = call[d]
          /\ \/ call'[c].op = "none" /\ call'[c].at = "done"
             \/ call'[c].op = "sweep" /\ call'[c].at = "begin" /\ call'[c].doomed = {call[c].id}
      <4>1. {call[c].id} \in SUBSET (Ids \cup Clients)
        BY <3>1
      <4> QED
        BY ONLY <1>1, <3>1, <4>1, SweepCall
    <3>3. \A i \in {call[c].id} : Harmless(i)'
      BY <3>1 DEF Harmless
    <3> QED
      BY <1>1, <3>1, <3>2, <3>3 DEF SnapshotterTypeOK
  <2>3. CASE CleanUp(c)
    <3>1. /\ Sweep(c, dirs \ IdsInUse, TRUE)
          /\ UNCHANGED <<meta, seq, dirs, mounts, store, daemon, spoiled, leaked>>
          /\ writer' = Nil /\ call[c].at = "inside"
      BY <2>3 DEF CleanUp, At
    <3>2. /\ call' \in [Clients -> Calls]
          /\ \A d \in Clients \ {c} : call'[d] = call[d]
          /\ \/ call'[c].op = "none" /\ call'[c].at = "done"
             \/ call'[c].op = "sweep" /\ call'[c].at = "begin" /\ call'[c].doomed = dirs \ IdsInUse
      <4>1. dirs \ IdsInUse \in SUBSET (Ids \cup Clients)
        BY <1>1
      <4> QED
        BY ONLY <1>1, <3>1, <4>1, SweepCall
    <3>3. \A i \in (dirs \ IdsInUse) \cap Ids : Harmless(i)'
      <4>1. \A d \in Clients : call[d].at # "committing"
        BY <1>1, <3>1 DEF Requests, InTransaction
      <4>2. \A i \in dirs \cap Ids : i <= seq \/ i \in spoiled
        BY <4>1 DEF Dirs
      <4>3. \A i \in dirs \ IdsInUse : \A k \in Live : meta[k].id # i
        BY DEF IdsInUse
      <4> QED
        BY <3>1, <4>2, <4>3 DEF Harmless, Live
    <3> QED
      BY <1>1, <3>1, <3>2, <3>3 DEF SnapshotterTypeOK
  <2>4. ASSUME NEW ok \in BOOLEAN, Reply(c, ok), UNCHANGED <<meta, seq, dirs, mounts, store, daemon, spoiled>>,
               \/ writer' = Nil /\ leaked' = leaked
               \/ writer' = writer /\ leaked' = TRUE,
               call[c].op \notin Creating
        PROVE  Goal
    <3>1. /\ call' \in [Clients -> Calls]
          /\ \A d \in Clients \ {c} : call'[d] = call[d]
          /\ call'[c].op = "none" /\ call'[c].at = "done"
      BY ONLY <1>1, <2>4, ReplyCall
    <3> QED
      BY <1>1, <2>4, <3>1 DEF SnapshotterTypeOK
  <2> HIDE DEF Goal
  <2>5. Goal
    BY <2>1, <2>2, <2>3, <2>4
    DEF Abort, CommitRefused, UsageFails, RemoveRefused, CommitFails, UpdateRow, At, Creating, Goal
  <2> QED
    BY <2>5 DEF Goal
<1>3. ~InTransaction(c)' /\ Pending(c)'
  BY <1>2 DEF InTransaction, Pending
<1>4. Requests' /\ Dirs' /\ Rows' /\ TransactionsEnd'
  BY <1>1, <1>2, <1>3, RowsStay
<1>5. SnapshotterTypeOK'
  BY <1>2 DEF SnapshotterTypeOK
<1> QED
  BY <1>4, <1>5
------------------------------------------------------------------------------
(* The actions outside of a transaction *)

\* di3fs mounts beside the transaction, and on directories that are there.
LEMMA MountStep ==
  ASSUME SnapshotterInv, NEW c \in Clients, Mount(c)
  PROVE  SnapshotterInv'
<1> USE DEF SnapshotterInv
<1> DEFINE Outside == /\ ~InTransaction(c) /\ ~InTransaction(c)' /\ Pending(c)'
                      /\ UNCHANGED <<meta, seq, writer, dirs, daemon, spoiled, leaked>>
                      /\ \A d \in Clients \ {c} : call'[d] = call[d]
                      /\ call' \in [Clients -> Calls]
                      /\ mounts' \in [Ids -> Dimgs \cup {Nil}] /\ store' \subseteq Dimgs
<1>1. call \in [Clients -> Calls] /\ call[c] \in Calls /\ Pending(c)
  BY DEF SnapshotterTypeOK, Requests
<1>2. ASSUME MountBegins(c) PROVE Outside
  <2>1. /\ call[c].at = "mounting" /\ call[c].op = "prepare" /\ call[c].ref \in Dimgs
        /\ UNCHANGED <<meta, seq, writer, dirs, mounts, daemon, spoiled, leaked>>
        /\ store' \subseteq Dimgs
    BY <1>1, <1>2 DEF MountBegins, At, Pending, SnapshotterTypeOK
  <2>2. CASE Reply(c, FALSE)
    <3>1. /\ call' \in [Clients -> Calls]
          /\ \A d \in Clients \ {c} : call'[d] = call[d]
          /\ call'[c].op = "none" /\ call'[c].at = "done"
      BY ONLY <1>1, <2>2, ReplyCall
    <3> QED
      BY <2>1, <3>1 DEF SnapshotterTypeOK, InTransaction, Pending
  <2>3. CASE /\ call[c].key \in Live
             /\ call' = [call EXCEPT ![c].at = "starting", ![c].id = meta[call[c].key].id]
    <3>1. meta[call[c].key].id \in Ids
      BY <2>3 DEF SnapshotterTypeOK, Live, Snapshot
    <3>2. call' = [call EXCEPT ![c] = [call[c] EXCEPT !.at = "starting", !.id = meta[call[c].key].id]]
      BY <2>3
    <3>3. [call[c] EXCEPT !.at = "starting", !.id = meta[call[c].key].id] \in Calls
      BY <1>1, <3>1 DEF Calls
    <3>4. /\ call' \in [Clients -> Calls]
          /\ \A d \in Clients \ {c} : call'[d] = call[d]
          /\ call'[c] = [call[c] EXCEPT !.at = "starting", !.id = meta[call[c].key].id]
      BY ONLY <1>1, <3>2, <3>3
    <3>5. /\ call'[c].at = "starting" /\ call'[c].id \in Ids
          /\ call'[c].op = "prepare" /\ call'[c].ref \in Dimgs
      BY ONLY <1>1, <2>1, <3>1, <3>4 DEF Calls
    <3> QED
      BY <2>1, <3>4, <3>5 DEF SnapshotterTypeOK, InTransaction, Pending
  <2> QED
    BY <1>2, <2>2, <2>3 DEF MountBegins
<1>3. ASSUME MountDone(c) PROVE Outside
  <2>1. /\ call[c].at = "starting" /\ call[c].op = "prepare"
        /\ call[c].ref \in Dimgs /\ call[c].id \in Ids
        /\ UNCHANGED <<meta, seq, writer, dirs, store, daemon, spoiled, leaked>>
        /\ mounts' \in [Ids -> Dimgs \cup {Nil}]
    BY <1>1, <1>3 DEF MountDone, At, Pending, SnapshotterTypeOK
  <2>2. CASE Mounts(c)
    <3>1. /\ call' \in [Clients -> Calls]
          /\ \A d \in Clients \ {c} : call'[d] = call[d]
          /\ \/ call'[c].op = "none" /\ call'[c].at = "done"
             \/ call'[c] = [call[c] EXCEPT !.at = "checking"]
      BY ONLY <1>1, <2>2, MountsCall
    <3>2. \/ call'[c].op = "none" /\ call'[c].at = "done"
          \/ call'[c].op = "prepare" /\ call'[c].at = "checking"
      BY ONLY <1>1, <2>1, <3>1 DEF Calls
    <3> QED
      BY <2>1, <3>1, <3>2 DEF SnapshotterTypeOK, InTransaction, Pending
  <2>3. CASE Go(c, "hung")
    <3>1. /\ call' \in [Clients -> Calls]
          /\ \A d \in Clients \ {c} : call'[d] = call[d]
          /\ call'[c] = [call[c] EXCEPT !.at = "hung"]
      BY ONLY <1>1, <2>3, GoCall
    <3>2. call'[c].op = "prepare" /\ call'[c].at = "hung"
      BY ONLY <1>1, <2>1, <3>1 DEF Calls
    <3> QED
      BY <2>1, <3>1, <3>2 DEF SnapshotterTypeOK, InTransaction, Pending
  <2> QED
    BY <1>3, <2>2, <2>3 DEF MountDone
<1>4. ASSUME Check(c) PROVE Outside
  <2>1. Available(call[c].other) \in BOOLEAN
    BY DEF Available
  <2>2. /\ call' \in [Clients -> Calls]
        /\ \A d \in Clients \ {c} : call'[d] = call[d]
        /\ call'[c].op = "none" /\ call'[c].at = "done"
    BY <1>1, <1>4, <2>1, ReplyCall DEF Check
  <2> QED
    BY <1>4, <2>2 DEF Check, At, SnapshotterTypeOK, InTransaction, Pending
<1>5. Outside
  BY <1>2, <1>3, <1>4 DEF Mount
<1>6. Requests' /\ Dirs' /\ Rows' /\ TransactionsEnd'
  BY <1>5, OutsideStep
<1>7. SnapshotterTypeOK'
  BY <1>5 DEF SnapshotterTypeOK
<1> QED
  BY <1>6, <1>7

\* Directories are removed beside the transactions, and none of them is one of a row.
LEMMA SweepKeeps ==
  ASSUME SnapshotterInv, NEW c \in Clients, SweepStep(c)
  PROVE  SnapshotterInv'
<1> USE DEF SnapshotterInv
<1>1. /\ call \in [Clients -> Calls] /\ call[c] \in Calls
      /\ call[c].doomed \subseteq Ids \cup Clients /\ call[c].ok \in BOOLEAN
  BY DEF SnapshotterTypeOK, Calls
<1>2. call[c].op = "sweep" /\ ~InTransaction(c) /\ \A i \in call[c].doomed \cap Ids : Harmless(i)
  BY DEF SweepStep, SweepDelete, SweepUnmount, SweepNew, At, InTransaction, Requests, Pending
<1>3. UNCHANGED <<meta, seq, writer, store, daemon, spoiled, leaked>>
  BY DEF SweepStep, SweepDelete, SweepUnmount, SweepNew
<1>4. \A i : Harmless(i)' <=> Harmless(i)
  BY <1>3 DEF Harmless, Live
<1> DEFINE Outside == /\ ~InTransaction(c)' /\ Pending(c)'
                      /\ \A d \in Clients \ {c} : call'[d] = call[d]
                      /\ call' \in [Clients -> Calls]
                      /\ mounts' \in [Ids -> Dimgs \cup {Nil}]
                      /\ dirs' \subseteq dirs /\ \A i \in (dirs \ dirs') \cap Ids : Harmless(i)
<1>5. ASSUME NEW ds \in SUBSET call[c].doomed, Sweep(c, ds, call[c].ok)
      PROVE  /\ ~InTransaction(c)' /\ Pending(c)'
             /\ \A d \in Clients \ {c} : call'[d] = call[d]
             /\ call' \in [Clients -> Calls]
  <2>1. ds \in SUBSET (Ids \cup Clients)
    BY <1>1
  <2>2. /\ call' \in [Clients -> Calls]
        /\ \A d \in Clients \ {c} : call'[d] = call[d]
        /\ \/ call'[c].op = "none" /\ call'[c].at = "done"
           \/ call'[c].op = "sweep" /\ call'[c].at = "begin" /\ call'[c].doomed = ds
    BY ONLY <1>1, <1>5, <2>1, SweepCall
  <2> QED
    BY <1>2, <1>4, <2>2 DEF InTransaction, Pending
<1>6. ASSUME SweepDelete(c) PROVE Outside
  <2>1. call[c].id \in call[c].doomed \cap Ids
    BY <1>6 DEF SweepDelete, At, Requests, Pending
  <2>2. Sweep(c, call[c].doomed \ {call[c].id}, call[c].ok)
    BY <1>6 DEF SweepDelete
  <2>3. dirs' \subseteq dirs /\ dirs \ dirs' \subseteq {call[c].id} /\ UNCHANGED mounts
    BY <1>6 DEF SweepDelete
  <2>4. /\ ~InTransaction(c)' /\ Pending(c)'
        /\ \A d \in Clients \ {c} : call'[d] = call[d]
        /\ call' \in [Clients -> Calls]
    BY <1>5, <2>2
  <2> QED
    BY <1>2, <2>1, <2>3, <2>4 DEF SnapshotterTypeOK
<1>7. ASSUME NEW i \in Ids, SweepUnmount(c, i) PROVE Outside
  <2>1. /\ i \in call[c].doomed /\ UNCHANGED dirs
        /\ mounts' \in [Ids -> Dimgs \cup {Nil}]
        /\ call' = [call EXCEPT ![c] = [call[c] EXCEPT !.at = "deleting", !.id = i]]
    BY <1>7 DEF SweepUnmount, SnapshotterTypeOK
  <2>2. [call[c] EXCEPT !.at = "deleting", !.id = i] \in Calls
    BY <1>1 DEF Calls
  <2>3. /\ call' \in [Clients -> Calls]
        /\ \A d \in Clients \ {c} : call'[d] = call[d]
        /\ call'[c] = [call[c] EXCEPT !.at = "deleting", !.id = i]
    BY ONLY <1>1, <2>1, <2>2
  <2>4. /\ call'[c].op = "sweep" /\ call'[c].at = "deleting" /\ call'[c].id = i
        /\ call'[c].doomed = call[c].doomed
    BY ONLY <1>1, <1>2, <2>3 DEF Calls
  <2> QED
    BY <1>2, <1>4, <2>1, <2>3, <2>4 DEF InTransaction, Pending
<1>8. ASSUME NEW maker \in Clients, SweepNew(c, maker) PROVE Outside
  <2>1. Sweep(c, call[c].doomed \ {maker}, call[c].ok) /\ dirs' = dirs \ {maker} /\ UNCHANGED mounts
    BY <1>8 DEF SweepNew
  <2>2. /\ ~InTransaction(c)' /\ Pending(c)'
        /\ \A d \in Clients \ {c} : call'[d] = call[d]
        /\ call' \in [Clients -> Calls]
    BY <1>5, <2>1
  <2>3. (dirs \ dirs') \cap Ids = {}
    BY <2>1, SnapshotterAssumption
  <2> QED
    BY <2>1, <2>2, <2>3 DEF SnapshotterTypeOK
<1>9. Outside
  BY <1>6, <1>7, <1>8 DEF SweepStep
<1>10. Requests' /\ Dirs' /\ Rows' /\ TransactionsEnd'
  BY <1>2, <1>3, <1>9, OutsideStep
<1>11. SnapshotterTypeOK'
  BY <1>3, <1>9 DEF SnapshotterTypeOK
<1> QED
  BY <1>10, <1>11

\* A client that has its answer sends the next request.
LEMMA SendStep ==
  ASSUME SnapshotterInv, NEW c \in Clients, call[c].at = "done",
         NEW op \in Writing, NEW key \in Keys \cup {Nil}, NEW other \in Keys \cup {Nil},
         NEW ref \in Dimgs \cup {Nil}, Send(c, Call(op, key, other, ref)), Rest
  PROVE  SnapshotterInv'
<1> USE DEF SnapshotterInv
<1>1. /\ Call(op, key, other, ref) \in Calls /\ Done(FALSE) \in Calls
      /\ Done(FALSE).at = "done" /\ Done(FALSE).op = "none"
  BY CallTyped
<1>2. Call(op, key, other, ref).at = "begin" /\ Call(op, key, other, ref).op = op /\ op # "sweep"
  BY DEF Call, Writing, Creating
<1> DEFINE r == IF daemon = "up" THEN Call(op, key, other, ref) ELSE Done(FALSE)
<1>3. /\ r \in Calls /\ r.at \in {"begin", "done"} /\ r.op # "sweep"
      /\ r.at = "done" => r.op = "none"
  BY <1>1, <1>2
<1>4. call' = [call EXCEPT ![c] = r]
  BY DEF Send
<1> HIDE DEF r
<1>5. /\ call' \in [Clients -> Calls]
      /\ \A d \in Clients \ {c} : call'[d] = call[d]
      /\ call'[c] = r
  BY <1>3, <1>4 DEF SnapshotterTypeOK
<1>6. ~InTransaction(c) /\ ~InTransaction(c)' /\ Pending(c)'
  BY <1>3, <1>5 DEF InTransaction, Pending
<1>7. UNCHANGED <<meta, seq, writer, dirs, mounts, store, daemon, spoiled, leaked>>
  BY DEF Rest
<1>8. Requests' /\ Dirs' /\ Rows' /\ TransactionsEnd'
  BY <1>5, <1>6, <1>7, OutsideStep
<1>9. SnapshotterTypeOK'
  BY <1>5, <1>7 DEF SnapshotterTypeOK
<1> QED
  BY <1>8, <1>9

\* main unmounts and removes everything.
LEMMA RestartStep ==
  ASSUME SnapshotterInv, Restart
  PROVE  SnapshotterInv'
<1> USE DEF SnapshotterInv
<1>1. Done(FALSE) \in Calls /\ Done(FALSE).at = "done" /\ Done(FALSE).op = "none"
  BY CallTyped
<1>2. /\ call' \in [Clients -> Calls]
      /\ \A c \in Clients : \/ call'[c] = call[c] /\ call[c].at = "done"
                            \/ call'[c] = Done(FALSE)
  BY <1>1 DEF Restart, SnapshotterTypeOK
<1>3. /\ meta' = [k \in Keys |-> Nil] /\ seq' = 0 /\ writer' = Nil /\ dirs' = {}
      /\ mounts' = [i \in Ids |-> Nil] /\ store' = {} /\ daemon' = "cleared"
      /\ spoiled' = {} /\ leaked' = FALSE
  BY DEF Restart
<1>4. SnapshotterTypeOK'
  <2>1. 0 \in 0..MaxId
    BY SnapshotterAssumption
  <2> QED
    BY <1>2, <1>3, <2>1 DEF SnapshotterTypeOK
<1>5. Live' = {}
  BY <1>3 DEF Live
<1>6. Requests'
  <2> SUFFICES ASSUME NEW c \in Clients
               PROVE  (InTransaction(c)' => writer' = c) /\ Foreseen(c)' /\ Pending(c)'
    BY DEF Requests
  <2>1. Pending(c)
    BY DEF Requests
  <2>2. call'[c].at = "done" /\ call'[c].op = "none"
    BY <1>1, <1>2, <2>1 DEF Pending
  <2> QED
    BY <2>2 DEF InTransaction, Foreseen, Pending
<1>7. Dirs' /\ Rows' /\ TransactionsEnd'
  BY <1>3, <1>5 DEF Dirs, Rows, LayersAreThere, IdsAreOld, TransactionsEnd
<1> QED
  BY <1>4, <1>6, <1>7

\* The daemon's next start, which changes nothing else.
LEMMA StartStep ==
  ASSUME SnapshotterInv, daemon' \in {"up", "cleared", "emptied"},
         UNCHANGED <<meta, seq, writer, dirs, mounts, store, call, spoiled, leaked>>
  PROVE  SnapshotterInv'
<1> USE DEF SnapshotterInv
<1>1. /\ Live' = Live /\ \A k : HasChild(k)' <=> HasChild(k)
      /\ \A i : Harmless(i)' <=> Harmless(i)
  BY DEF Live, HasChild, Harmless
<1>2. \A c \in Clients : Foreseen(c)' /\ Pending(c)'
  BY <1>1 DEF Requests, Foreseen, Pending
<1>3. Requests'
  BY <1>2 DEF Requests, InTransaction
<1>4. Dirs' /\ Rows' /\ TransactionsEnd'
  BY <1>1 DEF Dirs, Rows, LayersAreThere, IdsAreOld, TransactionsEnd
<1>5. SnapshotterTypeOK'
  BY DEF SnapshotterTypeOK
<1> QED
  BY <1>3, <1>4, <1>5

\* Everything the daemon does for a client's request keeps the invariant.
LEMMA DaemonStep ==
  ASSUME SnapshotterInv, NEW c \in Clients, Begin(c) \/ Handle(c)
  PROVE  SnapshotterInv'
<1>1. CASE Begin(c)
  BY <1>1, BeginStep
<1>2. CASE Create(c)
  BY <1>2, CreateRowStep, CreateCommitsStep, AbortStep DEF Create, Abort
<1>3. CASE Mount(c)
  BY <1>3, MountStep
<1>4. CASE Commit(c)
  BY <1>4, CommitRowStep, CommitCommitsStep, AbortStep DEF Commit, Abort
<1>5. CASE Remove(c)
  BY <1>5, RemoveRowStep, RemoveCommitsStep, AbortStep DEF Remove, Abort
<1>6. CASE CommitFails(c) \/ UpdateRow(c) \/ CleanUp(c)
  BY <1>6, AbortStep DEF Abort
<1>7. CASE SweepStep(c)
  BY <1>7, SweepKeeps
<1> QED
  BY <1>1, <1>2, <1>3, <1>4, <1>5, <1>6, <1>7 DEF Handle
------------------------------------------------------------------------------
(* The loads, and the invariant *)

Loads == [image : Images \cup {Nil}, dimg : Dimgs \cup {Nil}, ticket : Tickets \cup {Nil},
          step : {"none", "remove", "prepare", "commit"}]

\* What the loads keep of themselves: one of a client changes, and no image is
\* registered or reported but by its name.
LEMMA LoadRecord ==
  ASSUME LoadTypeOK, Loading, NEW c \in Clients, NEW l \in Loads,
         load' = [load EXCEPT ![c] = l], l.step # "none" => l.image \in Images,
         images' \in [Images -> Dimgs \cup {Nil}], broken' \subseteq Images
  PROVE  LoadTypeOK' /\ Loading'
<1>1. /\ load' \in [Clients -> Loads] /\ load'[c] = l
      /\ \A d \in Clients \ {c} : load'[d] = load[d]
  BY DEF LoadTypeOK, Loads
<1>2. Loading'
  BY <1>1 DEF Loading
<1>3. LoadTypeOK'
  BY <1>1 DEF LoadTypeOK, Loads
<1> QED
  BY <1>2, <1>3

\* A load goes on to its next request, or ends.
LEMMA LoadStepKeeps ==
  ASSUME IInv, NEW c \in Clients, LoadStep(c)
  PROVE  IInv'
<1>1. /\ load[c] \in Loads /\ load \in [Clients -> Loads]
      /\ load[c].dimg \in Dimgs \cup {Nil} /\ load[c].dimg \in Keys \cup {Nil}
      /\ load[c].ticket \in Keys \cup {Nil}
      /\ images \in [Images -> Dimgs \cup {Nil}] /\ broken \subseteq Images
      /\ SnapshotterInv /\ LoadTypeOK /\ Loading
      /\ load[c].step # "none" => load[c].image \in Images
      /\ Nil \in Keys \cup {Nil} /\ Nil \in Dimgs \cup {Nil}
      /\ "prepare" \in Writing /\ "commit" \in Writing
  <2>1. load[c] \in Loads /\ load \in [Clients -> Loads]
    BY DEF IInv, LoadTypeOK, Loads
  <2> QED
    BY <2>1 DEF IInv, LoadTypeOK, Loading, Loads, Keys, Writing, Creating
<1>2. CASE LoadPrepares(c)
  <2>1. SnapshotterInv'
    BY <1>1, <1>2, SendStep DEF LoadPrepares
  <2>2. [load[c] EXCEPT !.step = "prepare"] \in Loads
    BY <1>1 DEF Loads
  <2>3. [load[c] EXCEPT !.step = "prepare"].image \in Images
    BY <1>1, <1>2 DEF LoadPrepares, Loads
  <2>4. /\ load' = [load EXCEPT ![c] = [load[c] EXCEPT !.step = "prepare"]]
        /\ UNCHANGED <<images, broken>>
    BY <1>2 DEF LoadPrepares
  <2>5. LoadTypeOK' /\ Loading'
    BY ONLY <1>1, <2>2, <2>3, <2>4, LoadRecord
  <2> QED
    BY <2>1, <2>5 DEF IInv
<1>3. CASE LoadCommits(c)
  <2>1. SnapshotterInv'
    BY <1>1, <1>3, SendStep DEF LoadCommits
  <2>2. [load[c] EXCEPT !.step = "commit"] \in Loads
    BY <1>1 DEF Loads
  <2>3. [load[c] EXCEPT !.step = "commit"].image \in Images
    BY <1>1, <1>3 DEF LoadCommits, Loads
  <2>4. /\ load' = [load EXCEPT ![c] = [load[c] EXCEPT !.step = "commit"]]
        /\ UNCHANGED <<images, broken>>
    BY <1>3 DEF LoadCommits
  <2>5. LoadTypeOK' /\ Loading'
    BY ONLY <1>1, <2>2, <2>3, <2>4, LoadRecord
  <2> QED
    BY <2>1, <2>5 DEF IInv
<1>4. CASE LoadEnds(c)
  <2>1. UNCHANGED <<meta, seq, writer, dirs, mounts, store, daemon, call, spoiled, leaked>>
    BY <1>4 DEF LoadEnds, Rest
  <2>2. SnapshotterInv'
    <3>1. daemon' \in {"up", "cleared", "emptied"}
      BY <1>1, <2>1 DEF SnapshotterInv, SnapshotterTypeOK
    <3> QED
      BY ONLY <1>1, <2>1, <3>1, StartStep
  <2>3. NoLoad \in Loads /\ NoLoad.step = "none"
    BY DEF NoLoad, Loads
  <2>4. load' = [load EXCEPT ![c] = NoLoad] /\ UNCHANGED images /\ broken' \subseteq Images
    BY <1>1, <1>4 DEF LoadEnds
  <2>5. LoadTypeOK' /\ Loading'
    BY ONLY <1>1, <2>3, <2>4, LoadRecord
  <2> QED
    BY <2>2, <2>5 DEF IInv
<1> QED
  BY <1>2, <1>3, <1>4 DEF LoadStep

\* A load begins: its image is registered at once.
LEMMA LoadImageKeeps ==
  ASSUME IInv, NEW c \in Clients, NEW i \in Images, NEW d \in Dimgs, NEW t \in Tickets,
         LoadImage(c, i, d, t)
  PROVE  IInv'
<1>1. /\ images \in [Images -> Dimgs \cup {Nil}] /\ broken \subseteq Images
      /\ SnapshotterInv /\ LoadTypeOK /\ Loading
      /\ d \in Keys \cup {Nil} /\ Nil \in Keys \cup {Nil} /\ Nil \in Dimgs \cup {Nil}
      /\ "remove" \in Writing
  BY DEF IInv, LoadTypeOK, Keys, Writing
<1>2. SnapshotterInv'
  <2>1. call[c].at = "done" /\ Send(c, Call("remove", d, Nil, Nil)) /\ Rest
    BY DEF LoadImage, Free
  <2> QED
    BY ONLY <1>1, <2>1, SendStep
<1>3. [image |-> i, dimg |-> d, ticket |-> t, step |-> "remove"] \in Loads
  BY DEF Loads
<1>4. /\ load' = [load EXCEPT ![c] = [image |-> i, dimg |-> d, ticket |-> t, step |-> "remove"]]
      /\ images' \in [Images -> Dimgs \cup {Nil}] /\ broken' \subseteq Images
  BY <1>1 DEF LoadImage
<1>5. LoadTypeOK' /\ Loading'
  BY ONLY <1>1, <1>3, <1>4, LoadRecord
<1> QED
  BY <1>2, <1>5 DEF IInv

\* containerd's own requests are about keys of the store, or fresh ones.
LEMMA AskStep ==
  ASSUME IInv, NEW c \in Clients, Ask(c)
  PROVE  IInv'
<1>1. /\ SnapshotterInv /\ LoadTypeOK /\ Loading
      /\ Nil \in Keys \cup {Nil} /\ Nil \in Dimgs \cup {Nil}
      /\ call[c].at = "done" /\ Rest /\ UNCHANGED <<images, load, broken>>
  BY DEF IInv, Ask, Free
<1>2. PICK op \in Writing, key \in Keys \cup {Nil}, other \in Keys \cup {Nil} :
        Send(c, Call(op, key, other, Nil))
  BY <1>1 DEF Ask, Live, Keys, Writing, Creating
<1>3. SnapshotterInv'
  BY ONLY <1>1, <1>2, SendStep
<1>4. LoadTypeOK' /\ Loading'
  BY <1>1 DEF LoadTypeOK, Loading
<1> QED
  BY <1>3, <1>4 DEF IInv

\* The invariant holds at first, when the daemon serves and nothing is there.
LEMMA InitInv == Init => IInv
<1> SUFFICES ASSUME Init PROVE IInv
  OBVIOUS
<1>1. Live = {} /\ writer = Nil /\ dirs = {}
  BY DEF Init, InitSnapshotter, Live
<1>2. Done(TRUE) \in Calls /\ Done(TRUE).at = "done" /\ Done(TRUE).op = "none"
  BY CallTyped
<1>3. SnapshotterTypeOK
  <2>1. 0 \in 0..MaxId
    BY SnapshotterAssumption
  <2> QED
    BY <1>2, <2>1 DEF Init, InitSnapshotter, SnapshotterTypeOK
<1>4. Requests
  <2>1. \A c \in Clients : call[c].at = "done" /\ call[c].op = "none"
    BY <1>2 DEF Init, InitSnapshotter
  <2> QED
    BY <2>1 DEF Requests, InTransaction, Foreseen, Pending
<1>5. Dirs /\ Rows /\ TransactionsEnd
  BY <1>1 DEF Dirs, Rows, LayersAreThere, IdsAreOld, TransactionsEnd
<1>6. NoLoad \in Loads /\ NoLoad.step = "none"
  BY DEF NoLoad, Loads
<1>7. LoadTypeOK /\ Loading
  BY <1>6 DEF Init, LoadTypeOK, Loading, Loads
<1> QED
  BY <1>3, <1>4, <1>5, <1>7 DEF IInv, SnapshotterInv

\* Every step keeps the invariant: what a request did, a load, a removal of an
\* image, and the daemon's end and start.
LEMMA NextInv == IInv /\ [Next]_vars => IInv'
<1> SUFFICES ASSUME IInv, [Next]_vars PROVE IInv'
  OBVIOUS
<1>1. SnapshotterInv /\ LoadTypeOK /\ Loading /\ daemon \in {"up", "cleared", "emptied"}
  BY DEF IInv, SnapshotterInv, SnapshotterTypeOK
<1>2. UNCHANGED <<images, load, broken>> => LoadTypeOK' /\ Loading'
  BY <1>1 DEF LoadTypeOK, Loading
<1>3. ASSUME NEW c \in Clients, Daemon(c) PROVE IInv'
  BY <1>1, <1>2, <1>3, DaemonStep DEF Daemon, IInv
<1>4. ASSUME NEW i \in Images, DeleteImage(i) PROVE IInv'
  <2>1. SnapshotterInv'
    <3>1. UNCHANGED <<meta, seq, writer, dirs, mounts, store, daemon, call, spoiled, leaked>>
      BY <1>4 DEF DeleteImage, snapshotter
    <3> QED
      BY ONLY <1>1, <3>1, StartStep
  <2>2. LoadTypeOK' /\ Loading'
    BY <1>1, <1>4 DEF DeleteImage, LoadTypeOK, Loading
  <2> QED
    BY <2>1, <2>2 DEF IInv
<1>5. CASE RemoveImages
  <2>1. SnapshotterInv'
    <3>1. /\ daemon' = "emptied"
          /\ UNCHANGED <<meta, seq, writer, dirs, mounts, store, call, spoiled, leaked>>
      BY <1>5 DEF RemoveImages
    <3> QED
      BY ONLY <1>1, <3>1, StartStep
  <2>2. UNCHANGED load /\ images' \in [Images -> Dimgs \cup {Nil}] /\ broken' \subseteq Images
    BY <1>1, <1>5 DEF RemoveImages, LoadTypeOK
  <2>3. LoadTypeOK' /\ Loading'
    BY <1>1, <2>2 DEF LoadTypeOK, Loading
  <2> QED
    BY <2>1, <2>3 DEF IInv
<1>6. CASE (Restart \/ Serve) /\ UNCHANGED <<images, load, broken>>
  <2>1. CASE Restart
    BY <1>1, <1>2, <1>6, <2>1, RestartStep DEF IInv
  <2>2. CASE Serve
    <3>1. /\ daemon' = "up"
          /\ UNCHANGED <<meta, seq, writer, dirs, mounts, store, call, spoiled, leaked>>
      BY <2>2 DEF Serve
    <3>2. SnapshotterInv'
      BY ONLY <1>1, <3>1, StartStep
    <3> QED
      BY <1>2, <1>6, <3>2 DEF IInv
  <2> QED
    BY <1>6, <2>1, <2>2
<1>7. CASE UNCHANGED vars
  <2>1. /\ UNCHANGED <<meta, seq, writer, dirs, mounts, store, daemon, call, spoiled, leaked>>
        /\ UNCHANGED <<images, load, broken>>
    BY <1>7 DEF vars, snapshotter
  <2>2. SnapshotterInv'
    BY ONLY <1>1, <2>1, StartStep
  <2> QED
    BY <1>2, <2>1, <2>2 DEF IInv
<1> QED
  BY <1>3, <1>4, <1>5, <1>6, <1>7, LoadStepKeeps, LoadImageKeeps, AskStep DEF Next
------------------------------------------------------------------------------
\* The inductive invariant: one request at a time is inside of the write transaction
\* (containerd's MetaStore), ids only grow until the daemon ends, and a directory that
\* is to be removed is of no snapshot.
THEOREM Invariance == Spec => []IInv
  BY InitInv, NextInv, PTL DEF Spec

\* The state of cmd/snapshotter, and of the loads beside it, has its types.
THEOREM TypeCorrect == Spec => []TypeOK
<1>1. IInv => TypeOK
  BY DEF IInv, SnapshotterInv, SnapshotterTypeOK, LoadTypeOK, TypeOK
<1> QED
  BY <1>1, Invariance, PTL

\* No sweep, of a Remove or of a Cleanup (snapshot.go:426, 549), takes the directory
\* of a snapshot that the store lists, and no snapshot loses its parent, however the
\* requests interleave; only an id that was given back is open to it.
THEOREM LayersStay == Spec => []LayersAreThere
<1>1. IInv => LayersAreThere
  BY DEF IInv, SnapshotterInv, Rows
<1> QED
  BY <1>1, Invariance, PTL

\* A request that has its answer is not inside of the write transaction, whatever
\* failed on its way, but for the one whose disk usage could not be taken
\* (snapshot.go:376).
THEOREM TransactionsAlwaysEnd == Spec => []TransactionsEnd
<1>1. IInv => TransactionsEnd
  BY DEF IInv, SnapshotterInv
<1> QED
  BY <1>1, Invariance, PTL
------------------------------------------------------------------------------
(* Images that are loaded: the invariant *)

\* A request is a load's when its client loads, and it has the load's names.
CallOfLoad(c) ==
  LET q == call[c]
      l == load[c]
  IN
  /\ l.step # "none" => l.ticket \in Tickets /\ l.dimg \in Dimgs
  /\ q.op \in Creating => q.key \in Tickets
  /\ q.op = "commit" => l.step = "commit" /\ q.key = l.ticket /\ q.other = l.dimg
  /\ q.ref # Nil => /\ l.step = "prepare" /\ q.op = "prepare" /\ q.at # "done"
                    /\ q.key = l.ticket /\ q.ref = l.dimg /\ q.other = Nil
  /\ q.at = "checking" => q.other # Nil
  /\ l.step = "remove" => q.op \notin Creating
  /\ l.step = "prepare" => q.ref # Nil \/ q.at = "done" \/ (q.op = "sweep" /\ ~q.ok)
  /\ l.step = "commit" => q.op = "commit" \/ q.at = "done"

\* A load whose snapshot has been prepared, and is not committed unless it is over.
Prepared(c) ==
  \/ load[c].step = "prepare" /\ call[c].at = "done" /\ call[c].ok
  \/ load[c].step = "commit"

\* Row k is of a snapshot that shows the image d, unless its id was given back.
Shows(k, d) == meta[k].ref = d /\ (meta[k].id \notin spoiled => mounts[meta[k].id] = d)

\* What a load has made of its ticket is there, unless somebody removed it.
Made(c) ==
  LET q == call[c]
      l == load[c]
  IN l.step # "none" =>
       /\ q.at = "starting" => Stack(l.dimg) \subseteq store
       /\ l.ticket \in Live =>
            /\ meta[l.ticket].ref = l.dimg /\ meta[l.ticket].kind = "active"
            /\ q.at = "starting" => q.id = meta[l.ticket].id
            /\ Prepared(c) => Shows(l.ticket, l.dimg) /\ Stack(l.dimg) \subseteq store

\* A mount that starts is for one snapshot, if it is still there.
OneTarget(c) ==
  LET q == call[c] IN
  q.at = "starting" => q.id <= seq /\ \A k \in Live : meta[k].id = q.id => k = q.key

\* Nobody makes a snapshot under the ticket of another's load.
TicketsApart ==
  \A c, e \in Clients :
    c # e /\ load[c].step # "none" =>
      /\ load[e].step # "none" => load[e].ticket # load[c].ticket
      /\ call[e].op \in Creating => call[e].key # load[c].ticket

IdsDistinct == \A j, k \in Live : meta[j].id = meta[k].id => j = k

CommittedShow == \A d \in Dimgs \cap Live : meta[d].kind = "committed" /\ Shows(d, d)

\* An image that is listed is local, or a load has still to answer for it.
Accounted(i) ==
  images[i] # Nil /\ i \notin broken =>
    \/ Stack(images[i]) \subseteq store
    \/ \E c \in Clients : /\ load[c].image = i /\ load[c].dimg = images[i]
                          /\ load[c].step # "none"
                          /\ ~(load[c].step = "commit" /\ call[c].at = "done" /\ call[c].ok)

LoadsInv ==
  /\ \A c \in Clients : CallOfLoad(c) /\ Made(c) /\ OneTarget(c)
  /\ TicketsApart /\ IdsDistinct /\ CommittedShow
  /\ daemon # "cleared" => \A i \in Images : Accounted(i)
------------------------------------------------------------------------------
(* Images that are loaded: what a step leaves alone *)

\* The row of a key is as it was, or gone, and its mount too.
Stays(k) ==
  k \in Live' => /\ k \in Live /\ meta'[k] = meta[k]
                 /\ meta[k].id \in spoiled' \/ mounts'[meta[k].id] = mounts[meta[k].id]

\* What a row shows it still shows.
LEMMA StaysShown ==
  ASSUME spoiled \subseteq spoiled', NEW k, k \in Live', Stays(k), NEW d, Shows(k, d)
  PROVE  Shows(k, d)'
  BY DEF Stays, Shows

\* A client that does nothing, and whose ticket stays, keeps what it has made.
LEMMA MadeStays ==
  ASSUME NEW e \in Clients, Made(e), call'[e] = call[e], load'[e] = load[e],
         store \subseteq store', spoiled \subseteq spoiled',
         load[e].step # "none" => Stays(load[e].ticket)
  PROVE  Made(e)'
<1>1. Prepared(e)' <=> Prepared(e)
  BY DEF Prepared
<1> SUFFICES ASSUME load[e].step # "none"
             PROVE  Made(e)'
  BY DEF Made
<1> DEFINE t == load[e].ticket
           d == load[e].dimg
<1>2. call'[e].at = "starting" => Stack(d) \subseteq store'
  BY DEF Made
<1>3. ASSUME t \in Live'
      PROVE  /\ meta'[t].ref = d /\ meta'[t].kind = "active"
             /\ call'[e].at = "starting" => call'[e].id = meta'[t].id
             /\ Prepared(e) => Shows(t, d)' /\ Stack(d) \subseteq store'
  <2>1. /\ t \in Live /\ meta'[t] = meta[t]
        /\ meta[t].ref = d /\ meta[t].kind = "active"
        /\ call[e].at = "starting" => call[e].id = meta[t].id
        /\ Prepared(e) => Shows(t, d) /\ Stack(d) \subseteq store
    BY <1>3 DEF Stays, Made
  <2>2. Shows(t, d) => Shows(t, d)'
    BY <1>3, StaysShown
  <2> QED
    BY <2>1, <2>2
<1> QED
  BY <1>1, <1>2, <1>3 DEF Made

\* What is committed is still shown.
LEMMA CommittedStay ==
  ASSUME CommittedShow, spoiled \subseteq spoiled', \A d \in Dimgs : Stays(d)
  PROVE  CommittedShow'
<1> SUFFICES ASSUME NEW d \in Dimgs, d \in Live'
             PROVE  meta'[d].kind = "committed" /\ Shows(d, d)'
  BY DEF CommittedShow
<1>1. d \in Live /\ meta'[d] = meta[d] /\ meta[d].kind = "committed" /\ Shows(d, d)
  BY DEF Stays, CommittedShow
<1> QED
  BY <1>1, StaysShown

\* An image stays accounted for unless a load of its ends, or answers too soon.
LEMMA AccountedStays ==
  ASSUME NEW i, Accounted(i), images'[i] = images[i], i \in broken => i \in broken',
         store \subseteq store',
         \A e \in Clients : load[e].step # "none" =>
           /\ load'[e].image = load[e].image /\ load'[e].dimg = load[e].dimg
           /\ load'[e].step # "none"
           /\ \/ ~(load'[e].step = "commit" /\ call'[e].at = "done" /\ call'[e].ok)
              \/ load[e].step = "commit" /\ call[e].at = "done" /\ call[e].ok
              \/ Stack(load[e].dimg) \subseteq store'
  PROVE  Accounted(i)'
<1> SUFFICES ASSUME images[i] # Nil, i \notin broken
             PROVE  Accounted(i)'
  BY DEF Accounted
<1>1. CASE Stack(images[i]) \subseteq store
  BY <1>1 DEF Accounted
<1>2. CASE \E c \in Clients : /\ load[c].image = i /\ load[c].dimg = images[i]
                              /\ load[c].step # "none"
                              /\ ~(load[c].step = "commit" /\ call[c].at = "done" /\ call[c].ok)
  <2>1. PICK c \in Clients : /\ load[c].image = i /\ load[c].dimg = images[i]
                             /\ load[c].step # "none"
                             /\ ~(load[c].step = "commit" /\ call[c].at = "done" /\ call[c].ok)
    BY <1>2
  <2> QED
    BY <2>1 DEF Accounted
<1> QED
  BY <1>1, <1>2 DEF Accounted

\* A request that goes on, and neither starts a mount nor is answered.
Onward(c) ==
  /\ call[c].at # "done" /\ call'[c].at \notin {"done", "starting"}
  /\ call'[c].op = call[c].op /\ call'[c].key = call[c].key /\ call'[c].other = call[c].other
  /\ call'[c].ref = call[c].ref /\ call'[c].ok = call[c].ok
  /\ call'[c].at = "checking" => call[c].other # Nil

\* A request that is answered, or will be when it has removed directories; the snapshot
\* of a load is neither made nor committed by that.
Answered(c) ==
  /\ \/ call'[c].op = "none" /\ call'[c].at = "done"
     \/ call'[c].op = "sweep" /\ call'[c].at = "begin"
  /\ call'[c].ref = Nil
  /\ load[c].step \in {"prepare", "commit"} => ~call'[c].ok
  /\ load[c].step = "commit" => call'[c].at = "done"

\* A request that goes on, or is answered, is still the one its load waits for, and makes
\* or commits nothing for it.
LEMMA CallFollows ==
  ASSUME NEW c \in Clients, CallOfLoad(c), load'[c] = load[c], Onward(c) \/ Answered(c)
  PROVE  /\ CallOfLoad(c)'
         /\ Prepared(c)' => Prepared(c)
         /\ call'[c].at # "starting"
         /\ call'[c].op \in Creating => call[c].op \in Creating /\ call'[c].key = call[c].key
         /\ call'[c].at = "done" /\ call'[c].ok => load[c].step # "commit"
<1>1. CASE Onward(c)
  BY <1>1 DEF CallOfLoad, Onward, Prepared
<1>2. CASE Answered(c)
  BY <1>2 DEF CallOfLoad, Answered, Prepared, Creating
<1> QED
  BY <1>1, <1>2

\* Requests of containerd's and the answers of loads: nothing but the rows goes away.
LEMMA RequestKeeps ==
  ASSUME LoadsInv, NEW c \in Clients, UNCHANGED <<load, images, broken, daemon>>,
         \A d \in Clients \ {c} : call'[d] = call[d], Onward(c) \/ Answered(c),
         seq' = seq, store \subseteq store', spoiled \subseteq spoiled', \A k \in Keys : Stays(k)
  PROVE  LoadsInv'
<1>1. /\ CallOfLoad(c)'
      /\ Prepared(c)' => Prepared(c)
      /\ call'[c].at # "starting"
      /\ call'[c].op \in Creating => call[c].op \in Creating /\ call'[c].key = call[c].key
      /\ call'[c].at = "done" /\ call'[c].ok => load[c].step # "commit"
  BY CallFollows DEF LoadsInv
<1>2. Live' \subseteq Live /\ \A k \in Live' : meta'[k] = meta[k]
  BY DEF Stays, Live
<1>3. \A e \in Clients : load[e].step # "none" => load[e].ticket \in Keys
  BY DEF LoadsInv, CallOfLoad, Keys
<1>4. ASSUME NEW e \in Clients \ {c} PROVE CallOfLoad(e)' /\ Made(e)' /\ OneTarget(e)'
  <2>1. call'[e] = call[e] /\ load'[e] = load[e] /\ CallOfLoad(e) /\ Made(e) /\ OneTarget(e)
    BY DEF LoadsInv
  <2>2. CallOfLoad(e)'
    BY <2>1 DEF CallOfLoad
  <2>3. Made(e)'
    BY <1>3, <2>1, MadeStays
  <2>4. OneTarget(e)'
    BY <1>2, <2>1 DEF OneTarget
  <2> QED
    BY <2>2, <2>3, <2>4
<1>5. Made(c)'
  <2> SUFFICES ASSUME load[c].step # "none" PROVE Made(c)'
    BY DEF Made
  <2> DEFINE t == load[c].ticket
             d == load[c].dimg
  <2>1. ASSUME t \in Live'
        PROVE  /\ meta'[t].ref = d /\ meta'[t].kind = "active"
               /\ Prepared(c)' => /\ Shows(t, d)'
                                  /\ Stack(d) \subseteq store'
    <3>1. Stays(t)
      BY <1>3
    <3>2. /\ t \in Live /\ meta'[t] = meta[t]
          /\ meta[t].ref = d /\ meta[t].kind = "active"
          /\ Prepared(c) => Shows(t, d) /\ Stack(d) \subseteq store
      BY <2>1, <3>1 DEF Stays, LoadsInv, Made
    <3>3. Shows(t, d) => Shows(t, d)'
      BY <2>1, <3>1, StaysShown
    <3> QED
      BY <1>1, <3>2, <3>3
  <2> QED
    BY <1>1, <2>1 DEF Made
<1>6. OneTarget(c)'
  BY <1>1 DEF OneTarget
<1>7. TicketsApart'
  <2>1. \A e \in Clients : call'[e].op \in Creating =>
          call[e].op \in Creating /\ call'[e].key = call[e].key
    BY <1>1
  <2> QED
    BY <2>1 DEF LoadsInv, TicketsApart
<1>8. IdsDistinct'
  BY <1>2 DEF LoadsInv, IdsDistinct
<1>9. CommittedShow'
  BY CommittedStay DEF LoadsInv, Keys
<1>10. ASSUME NEW i \in Images, Accounted(i) PROVE Accounted(i)'
  BY <1>1, <1>10, AccountedStays
<1> QED
  BY <1>1, <1>4, <1>5, <1>6, <1>7, <1>8, <1>9, <1>10 DEF LoadsInv
------------------------------------------------------------------------------
(* Images that are loaded: what the daemon does *)

\* The request that a load waits for.
LEMMA LoadWaits ==
  ASSUME NEW c \in Clients, CallOfLoad(c), call[c].at # "done"
  PROVE  /\ load[c].step = "prepare" => \/ call[c].op = "prepare" /\ call[c].ref # Nil
                                        \/ call[c].op = "sweep" /\ ~call[c].ok
         /\ load[c].step = "commit" => call[c].op = "commit"
  BY DEF CallOfLoad

\* Rows and mounts that are as they were.
LEMMA AllStay ==
  ASSUME UNCHANGED <<meta, mounts>>
  PROVE  \A k : Stays(k)
  BY DEF Stays, Live

Quiet == UNCHANGED <<load, images, broken>>

\* Steps inside of a transaction that has found nothing wrong.
LEMMA GoingOnKeeps ==
  ASSUME IInv, LoadsInv, NEW c \in Clients, Quiet,
         Begin(c) \/ CreateRow(c) \/ CommitRow(c) \/ RemoveRow(c)
  PROVE  LoadsInv'
<1>1. call \in [Clients -> Calls] /\ call[c] \in Calls
  BY DEF IInv, SnapshotterInv, SnapshotterTypeOK
<1>2. UNCHANGED <<load, images, broken, daemon, meta, mounts, seq, store, spoiled>>
  BY DEF Quiet, Begin, CreateRow, CommitRow, RemoveRow
<1>3. PICK q : /\ call' = [call EXCEPT ![c] = q]
               /\ q.at \in {"inside", "committing"} /\ q.op = call[c].op /\ q.key = call[c].key
               /\ q.other = call[c].other /\ q.ref = call[c].ref /\ q.ok = call[c].ok
               /\ call[c].at # "done"
  <2>1. ASSUME Begin(c) \/ CommitRow(c),
               NEW at \in {"inside", "committing"}, Go(c, at)
        PROVE  /\ call' = [call EXCEPT ![c] = [call[c] EXCEPT !.at = at]]
               /\ call[c].at # "done"
    BY <2>1 DEF Go, Begin, CommitRow, At
  <2>2. CASE Begin(c)
    <3> DEFINE q == [call[c] EXCEPT !.at = "inside"]
    <3>1. call' = [call EXCEPT ![c] = q] /\ call[c].at # "done"
      BY <2>1, <2>2 DEF Begin
    <3>2. /\ q.at = "inside" /\ q.op = call[c].op /\ q.key = call[c].key
          /\ q.other = call[c].other /\ q.ref = call[c].ref /\ q.ok = call[c].ok
      BY <1>1 DEF Calls
    <3> HIDE DEF q
    <3> QED
      BY <3>1, <3>2
  <2>3. CASE CommitRow(c)
    <3> DEFINE q == [call[c] EXCEPT !.at = "committing"]
    <3>1. call' = [call EXCEPT ![c] = q] /\ call[c].at # "done"
      BY <2>1, <2>3 DEF CommitRow
    <3>2. /\ q.at = "committing" /\ q.op = call[c].op /\ q.key = call[c].key
          /\ q.other = call[c].other /\ q.ref = call[c].ref /\ q.ok = call[c].ok
      BY <1>1 DEF Calls
    <3> HIDE DEF q
    <3> QED
      BY <3>1, <3>2
  <2>4. CASE CreateRow(c)
    <3> DEFINE q == [call[c] EXCEPT !.at = "committing", !.id = seq + 1]
    <3>1. call' = [call EXCEPT ![c] = q] /\ call[c].at # "done"
      BY <2>4 DEF CreateRow, At
    <3>2. /\ q.at = "committing" /\ q.op = call[c].op /\ q.key = call[c].key
          /\ q.other = call[c].other /\ q.ref = call[c].ref /\ q.ok = call[c].ok
      BY <1>1 DEF Calls
    <3> HIDE DEF q
    <3> QED
      BY <3>1, <3>2
  <2>5. CASE RemoveRow(c)
    <3> DEFINE ds == dirs \ {meta[j].id : j \in Live \ {call[c].key}}
               q == [call[c] EXCEPT !.at = "committing", !.doomed = ds]
    <3> HIDE DEF ds
    <3>1. call' = [call EXCEPT ![c] = q] /\ call[c].at # "done"
      BY <2>5 DEF RemoveRow, At, ds
    <3>2. /\ q.at = "committing" /\ q.op = call[c].op /\ q.key = call[c].key
          /\ q.other = call[c].other /\ q.ref = call[c].ref /\ q.ok = call[c].ok
      BY <1>1 DEF Calls
    <3> HIDE DEF q
    <3> QED
      BY <3>1, <3>2
  <2> QED
    BY <2>2, <2>3, <2>4, <2>5
<1>4. call'[c] = q /\ \A d \in Clients \ {c} : call'[d] = call[d]
  BY <1>1, <1>3
<1>5. Onward(c)
  BY <1>3, <1>4 DEF Onward
<1> QED
  BY <1>2, <1>4, <1>5, AllStay, RequestKeeps

\* A request that is answered, or sweeps: what the two are for a load.
LEMMA AnswerIs ==
  ASSUME IInv, LoadsInv, NEW c \in Clients, NEW ok \in BOOLEAN,
         Reply(c, ok) \/ \E ds \in SUBSET (Ids \cup Clients) : Sweep(c, ds, ok),
         call[c].at # "done",
         ok => call[c].op \notin {"commit", "sweep"} /\ call[c].ref = Nil,
         Reply(c, ok) \/ call[c].op # "commit"
  PROVE  Answered(c) /\ \A d \in Clients \ {c} : call'[d] = call[d]
<1>1. call \in [Clients -> Calls] /\ CallOfLoad(c)
  BY DEF IInv, SnapshotterInv, SnapshotterTypeOK, LoadsInv
<1>2. ok => load[c].step \notin {"prepare", "commit"}
  BY <1>1, LoadWaits
<1>3. CASE Reply(c, ok)
  <2>1. /\ call'[c].op = "none" /\ call'[c].at = "done" /\ call'[c].ref = Nil /\ call'[c].ok = ok
        /\ \A d \in Clients \ {c} : call'[d] = call[d]
    BY <1>1, <1>3, ReplyCall
  <2> QED
    BY <1>2, <2>1 DEF Answered
<1>4. CASE call[c].op # "commit" /\ \E ds \in SUBSET (Ids \cup Clients) : Sweep(c, ds, ok)
  <2>1. PICK ds \in SUBSET (Ids \cup Clients) : Sweep(c, ds, ok)
    BY <1>4
  <2>0. /\ call' \in [Clients -> Calls]
        /\ \A d \in Clients \ {c} : call'[d] = call[d]
        /\ \/ call'[c].op = "none" /\ call'[c].at = "done"
           \/ call'[c].op = "sweep" /\ call'[c].at = "begin" /\ call'[c].doomed = ds
        /\ call'[c].ref = Nil /\ call'[c].ok = ok
    BY ONLY <1>1, <2>1, SweepCall, ok \in BOOLEAN
  <2>2. /\ \/ call'[c].op = "none" /\ call'[c].at = "done"
           \/ call'[c].op = "sweep" /\ call'[c].at = "begin"
        /\ call'[c].ref = Nil /\ call'[c].ok = ok
        /\ \A d \in Clients \ {c} : call'[d] = call[d]
    BY <2>0
  <2>3. load[c].step # "commit"
    BY <1>1, <1>4, LoadWaits
  <2> QED
    BY <1>2, <2>2, <2>3 DEF Answered
<1> QED
  BY <1>3, <1>4

\* A request without a dimg: of a load that prepares, all that has none is over.
LEMMA NoDimg ==
  ASSUME LoadsInv, NEW c \in Clients, call[c].op # "prepare"
  PROVE  call[c].ref = Nil
  BY DEF LoadsInv, CallOfLoad

\* The ways in which a transaction ends without a change of the rows.
LEMMA AbortKeeps ==
  ASSUME IInv, LoadsInv, NEW c \in Clients, Quiet, Abort(c)
  PROVE  LoadsInv'
<1>1. UNCHANGED <<load, images, broken, daemon, meta, mounts, seq, store>> /\ spoiled \subseteq spoiled'
  BY DEF Quiet, Abort, CreateFails, CreateCommitFails, CommitRefused, UsageFails, RemoveRefused,
         CommitFails, UpdateRow, CleanUp
<1>2. /\ dirs \subseteq Ids \cup Clients /\ seq \in Nat /\ MaxId \in Nat /\ call[c] \in Calls
      /\ Foreseen(c)
  BY SnapshotterAssumption DEF IInv, SnapshotterInv, SnapshotterTypeOK, Requests
<1>3. Answered(c) /\ \A d \in Clients \ {c} : call'[d] = call[d]
  <2>1. CASE CreateFails(c)
    <3>1. /\ call[c].op \in {"prepare", "view"} /\ call[c].at = "inside"
          /\ \/ Sweep(c, {c}, FALSE)
             \/ Creatable(call[c]) /\ Sweep(c, {c, seq + 1}, FALSE)
      BY <2>1 DEF CreateFails, At, Creating
    <3>2. Creatable(call[c]) => seq + 1 \in Ids
      BY <1>2 DEF Creatable, Ids
    <3>3. {c} \in SUBSET (Ids \cup Clients)
      OBVIOUS
    <3>4. seq + 1 \in Ids => {c, seq + 1} \in SUBSET (Ids \cup Clients)
      OBVIOUS
    <3>5. \E ds \in SUBSET (Ids \cup Clients) : Sweep(c, ds, FALSE)
      BY <3>1, <3>2, <3>3, <3>4
    <3> QED
      BY <3>1, <3>5, AnswerIs
  <2>2. CASE CreateCommitFails(c)
    <3>1. /\ call[c].op \in {"prepare", "view"} /\ call[c].at = "committing"
          /\ Sweep(c, {call[c].id}, FALSE) /\ call[c].id \in Ids
      BY <1>2, <2>2 DEF CreateCommitFails, At, Creating, Foreseen
    <3>2. {call[c].id} \in SUBSET (Ids \cup Clients)
      BY <3>1
    <3> QED
      BY <3>1, <3>2, AnswerIs
  <2>3. CASE CommitRefused(c) \/ UsageFails(c) \/ RemoveRefused(c) \/ CommitFails(c)
    <3>1. call[c].at # "done" /\ Reply(c, FALSE)
      BY <2>3 DEF CommitRefused, UsageFails, RemoveRefused, CommitFails, At
    <3> QED
      BY <3>1, AnswerIs
  <2>4. CASE UpdateRow(c)
    <3>1. call[c].op = "update" /\ call[c].at # "done" /\ \E ok \in BOOLEAN : Reply(c, ok)
      BY <2>4 DEF UpdateRow, At
    <3> QED
      BY <3>1, AnswerIs, NoDimg
  <2>5. CASE CleanUp(c)
    <3>1. call[c].op = "cleanup" /\ call[c].at # "done" /\ Sweep(c, dirs \ IdsInUse, TRUE)
      BY <2>5 DEF CleanUp, At
    <3>2. dirs \ IdsInUse \in SUBSET (Ids \cup Clients)
      BY <1>2
    <3> QED
      BY <3>1, <3>2, AnswerIs, NoDimg
  <2> QED
    BY <2>1, <2>2, <2>3, <2>4, <2>5 DEF Abort
<1> QED
  BY <1>1, <1>3, AllStay, RequestKeeps

\* A container's snapshot has no mount of its own; its layers are looked up.
LEMMA CheckKeeps ==
  ASSUME IInv, LoadsInv, NEW c \in Clients, Quiet, Check(c)
  PROVE  LoadsInv'
<1>1. UNCHANGED <<load, images, broken, daemon, meta, mounts, seq, store, spoiled>>
  BY DEF Quiet, Check
<1>2. Available(call[c].other) \in BOOLEAN
  BY DEF Available
<1>3. /\ call[c].op \in {"prepare", "view"} /\ call[c].at = "checking" /\ call[c].ref = Nil
      /\ Reply(c, Available(call[c].other))
  BY DEF Check, At, Creating, LoadsInv, CallOfLoad
<1>4. Answered(c) /\ \A d \in Clients \ {c} : call'[d] = call[d]
  BY <1>2, <1>3, AnswerIs
<1> QED
  BY <1>1, <1>4, AllStay, RequestKeeps

\* A row goes; it is not one of a load that waits for this request.
LEMMA RemoveCommitsKeeps ==
  ASSUME IInv, LoadsInv, NEW c \in Clients, Quiet, RemoveCommits(c)
  PROVE  LoadsInv'
<1>1. UNCHANGED <<load, images, broken, daemon, mounts, seq, store, spoiled>>
  BY DEF Quiet, RemoveCommits
<1>2. /\ call[c].op = "remove" /\ call[c].at # "done" /\ Sweep(c, call[c].doomed, TRUE)
      /\ meta' = [meta EXCEPT ![call[c].key] = Nil]
  BY DEF RemoveCommits, At
<1>3. call[c].doomed \in SUBSET (Ids \cup Clients) /\ DOMAIN meta = Keys
  BY DEF IInv, SnapshotterInv, SnapshotterTypeOK, Calls
<1>4. Answered(c) /\ \A d \in Clients \ {c} : call'[d] = call[d]
  BY <1>2, <1>3, AnswerIs, NoDimg
<1>5. \A k \in Keys : Stays(k)
  BY <1>1, <1>2, <1>3 DEF Stays, Live
<1> QED
  BY <1>1, <1>4, <1>5, RequestKeeps

\* A sweep unmounts nothing that a row has.
LEMMA SweepStepKeeps ==
  ASSUME IInv, LoadsInv, NEW c \in Clients, Quiet, SweepStep(c)
  PROVE  LoadsInv'
<1>1. UNCHANGED <<load, images, broken, daemon, meta, seq, store, spoiled>>
  BY DEF Quiet, SweepStep, SweepDelete, SweepUnmount, SweepNew
<1>2. /\ call[c] \in Calls /\ call[c].doomed \subseteq Ids \cup Clients /\ call[c].ok \in BOOLEAN
      /\ call \in [Clients -> Calls] /\ mounts \in [Ids -> Dimgs \cup {Nil}]
  BY DEF IInv, SnapshotterInv, SnapshotterTypeOK, Calls
<1>3. call[c].op = "sweep" /\ call[c].at # "done" /\ CallOfLoad(c)
  BY DEF SweepStep, SweepDelete, SweepUnmount, SweepNew, At, LoadsInv
<1>4. ASSUME NEW ds \in SUBSET (Ids \cup Clients), Sweep(c, ds, call[c].ok)
      PROVE  Answered(c) /\ \A d \in Clients \ {c} : call'[d] = call[d]
  <2>1. /\ \/ call'[c].op = "none" /\ call'[c].at = "done"
           \/ call'[c].op = "sweep" /\ call'[c].at = "begin"
        /\ call'[c].ref = Nil /\ call'[c].ok = call[c].ok
        /\ \A d \in Clients \ {c} : call'[d] = call[d]
    BY <1>2, <1>4, SweepCall
  <2> QED
    BY <1>3, <2>1, LoadWaits DEF Answered
<1>5. CASE SweepDelete(c)
  <2>1. UNCHANGED mounts /\ Sweep(c, call[c].doomed \ {call[c].id}, call[c].ok)
    BY <1>5 DEF SweepDelete
  <2>2. call[c].doomed \ {call[c].id} \in SUBSET (Ids \cup Clients)
    BY <1>2
  <2>3. Answered(c) /\ \A d \in Clients \ {c} : call'[d] = call[d]
    BY <1>4, <2>1, <2>2
  <2> QED
    BY <1>1, <2>1, <2>3, AllStay, RequestKeeps
<1>6. ASSUME NEW maker \in Clients, SweepNew(c, maker) PROVE LoadsInv'
  <2>1. UNCHANGED mounts /\ Sweep(c, call[c].doomed \ {maker}, call[c].ok)
    BY <1>6 DEF SweepNew
  <2>2. call[c].doomed \ {maker} \in SUBSET (Ids \cup Clients)
    BY <1>2
  <2>3. Answered(c) /\ \A d \in Clients \ {c} : call'[d] = call[d]
    BY <1>4, <2>1, <2>2
  <2> QED
    BY <1>1, <2>1, <2>3, AllStay, RequestKeeps
<1>7. ASSUME NEW i \in Ids, SweepUnmount(c, i) PROVE LoadsInv'
  <2> DEFINE q == [call[c] EXCEPT !.at = "deleting", !.id = i]
  <2>1. /\ i \in call[c].doomed /\ call' = [call EXCEPT ![c] = q]
        /\ mounts' = [mounts EXCEPT ![i] = Nil] \/ UNCHANGED mounts
    BY <1>7 DEF SweepUnmount
  <2>2. /\ q.at = "deleting" /\ q.op = call[c].op /\ q.key = call[c].key
        /\ q.other = call[c].other /\ q.ref = call[c].ref /\ q.ok = call[c].ok
    BY <1>2 DEF Calls
  <2> HIDE DEF q
  <2>3. Onward(c) /\ \A d \in Clients \ {c} : call'[d] = call[d]
    BY <1>2, <1>3, <2>1, <2>2 DEF Onward
  <2>4. Harmless(i)
    BY <1>3, <2>1 DEF IInv, SnapshotterInv, Requests, Pending
  <2>5. ASSUME NEW k \in Keys PROVE Stays(k)
    <3>1. ASSUME k \in Live PROVE meta[k].id \in Ids
      BY <3>1 DEF IInv, SnapshotterInv, SnapshotterTypeOK, Live, Snapshot
    <3>2. ASSUME k \in Live PROVE meta[k].id \in spoiled \/ mounts'[meta[k].id] = mounts[meta[k].id]
      BY <1>2, <2>1, <2>4, <3>1, <3>2 DEF Harmless
    <3> QED
      BY <1>1, <3>2 DEF Stays, Live
  <2> QED
    BY <1>1, <2>3, <2>5, RequestKeeps
<1> QED
  BY <1>5, <1>6, <1>7 DEF SweepStep

\* The clients that do nothing keep their calls and what they have made.
LEMMA OthersKeep ==
  ASSUME LoadsInv, NEW c \in Clients, store \subseteq store', spoiled \subseteq spoiled',
         \A e \in Clients \ {c} : call'[e] = call[e] /\ load'[e] = load[e],
         \A e \in Clients \ {c} : load[e].step # "none" => Stays(load[e].ticket)
  PROVE  \A e \in Clients \ {c} : CallOfLoad(e)' /\ Made(e)'
<1> SUFFICES ASSUME NEW e \in Clients \ {c} PROVE CallOfLoad(e)' /\ Made(e)'
  OBVIOUS
<1>1. call'[e] = call[e] /\ load'[e] = load[e] /\ CallOfLoad(e) /\ Made(e)
  BY DEF LoadsInv
<1>2. CallOfLoad(e)'
  BY <1>1 DEF CallOfLoad
<1>3. Made(e)'
  BY <1>1, MadeStays
<1> QED
  BY <1>2, <1>3

\* A new row has a new id, and a ticket for its key that no other load has.
LEMMA CreateCommitsKeeps ==
  ASSUME IInv, LoadsInv, NEW c \in Clients, Quiet, CreateCommits(c)
  PROVE  LoadsInv'
<1> DEFINE q == call[c]
           row == [id |-> q.id, kind |-> IF q.op = "view" THEN "view" ELSE "active",
                   parent |-> q.other, ref |-> q.ref]
<1>1. /\ call \in [Clients -> Calls] /\ q \in Calls /\ seq \in Nat /\ CallOfLoad(c)
      /\ meta \in [Keys -> Snapshot \cup {Nil}]
  BY SnapshotterAssumption DEF IInv, SnapshotterInv, SnapshotterTypeOK, LoadsInv
<1>2. q.at = "committing" /\ q.op \in {"prepare", "view"} /\ q.op \in Creating
  BY DEF CreateCommits, At, Creating
<1>3. q.id = seq + 1 /\ q.id \in Ids /\ q.key \notin Live
  BY <1>2 DEF IInv, SnapshotterInv, Requests, Foreseen
<1>4. q.key \in Tickets /\ q.key \in Keys
  BY <1>1, <1>2 DEF CallOfLoad, Keys
<1>5. /\ meta' = [meta EXCEPT ![q.key] = row] /\ seq' = seq + 1
      /\ UNCHANGED <<load, images, broken, mounts, store, daemon, spoiled>>
  BY <1>3 DEF CreateCommits, Quiet
<1>6. row \in Snapshot /\ row # Nil
  <2>1. row \in Snapshot
    BY <1>1, <1>2, <1>3 DEF Calls, Snapshot
  <2> QED
    BY <2>1, SnapshotterAssumption
<1>7. row.id = seq + 1 /\ row.ref = q.ref /\ (q.op = "prepare" => row.kind = "active")
  BY <1>3
<1>8. Onward(c) \/ Answered(c)
  <2>1. CASE q.ref # Nil
    <3>1. Go(c, "mounting")
      BY <2>1 DEF CreateCommits
    <3>2. call'[c] = [q EXCEPT !.at = "mounting"]
      BY ONLY <1>1, <3>1, GoCall
    <3> QED
      BY <1>1, <1>2, <3>2 DEF Onward, Calls
  <2>2. CASE q.ref = Nil /\ q.other # Nil
    <3>1. Go(c, "checking")
      BY <2>2 DEF CreateCommits, Mounts
    <3>2. call'[c] = [q EXCEPT !.at = "checking"]
      BY ONLY <1>1, <3>1, GoCall
    <3> QED
      BY <1>1, <1>2, <2>2, <3>2 DEF Onward, Calls
  <2>3. CASE q.ref = Nil /\ q.other = Nil
    <3>1. Reply(c, TRUE)
      BY <2>3 DEF CreateCommits, Mounts
    <3>2. TRUE \in BOOLEAN /\ call[c].at # "done" /\ call[c].op \notin {"commit", "sweep"}
      BY <1>2
    <3> QED
      BY <2>3, <3>1, <3>2, AnswerIs
  <2> QED
    BY <2>1, <2>2, <2>3
<1>9. \A d \in Clients \ {c} : call'[d] = call[d]
  <2>1. CASE q.ref # Nil
    <3>1. Go(c, "mounting")
      BY <2>1 DEF CreateCommits
    <3> QED
      BY ONLY <1>1, <3>1, GoCall
  <2>2. CASE q.ref = Nil
    <3>1. Mounts(c)
      BY <2>2 DEF CreateCommits
    <3> QED
      BY ONLY <1>1, <3>1, MountsCall
  <2> QED
    BY <2>1, <2>2
<1>10. /\ CallOfLoad(c)'
       /\ Prepared(c)' => Prepared(c)
       /\ call'[c].at # "starting"
       /\ call'[c].op \in Creating => call[c].op \in Creating /\ call'[c].key = call[c].key
       /\ call'[c].at = "done" /\ call'[c].ok => load[c].step # "commit"
  BY <1>1, <1>5, <1>8, CallFollows
<1> HIDE DEF q, row
<1>11. /\ \A k \in Keys : meta'[k] = IF k = q.key THEN row ELSE meta[k]
       /\ Live' = Live \cup {q.key}
  <2>1. \A k \in Keys : meta'[k] = IF k = q.key THEN row ELSE meta[k]
    BY <1>1, <1>5
  <2> QED
    BY <1>4, <1>6, <2>1 DEF Live
<1>12. \A k \in Keys \ {q.key} : Stays(k)
  BY <1>5, <1>11 DEF Stays, Live
<1>13. \A e \in Clients \ {c} : load[e].step # "none" =>
         load[e].ticket \in Keys /\ load[e].ticket # q.key
  BY <1>2 DEF LoadsInv, CallOfLoad, TicketsApart, Keys, q
<1>14. \A e \in Clients \ {c} : CallOfLoad(e)' /\ Made(e)'
  BY <1>5, <1>9, <1>12, <1>13, OthersKeep
<1>15. Made(c)'
  <2> SUFFICES ASSUME load[c].step # "none" PROVE Made(c)'
    BY <1>5 DEF Made
  <2>1. /\ load[c].step = "prepare" /\ q.op = "prepare" /\ q.key = load[c].ticket
        /\ q.ref = load[c].dimg
    BY <1>1, <1>2 DEF CallOfLoad, q, Calls, LoadsInv, Creating, IInv, LoadTypeOK
  <2>2. ~Prepared(c)'
    BY <1>2, <1>10, <2>1 DEF Prepared, q
  <2>3. meta'[load[c].ticket].ref = load[c].dimg /\ meta'[load[c].ticket].kind = "active"
    BY <1>4, <1>7, <1>11, <2>1
  <2> QED
    BY <1>5, <1>10, <2>2, <2>3 DEF Made
<1>16. \A k \in Live : k \in Keys /\ k # q.key /\ meta'[k] = meta[k] /\ meta[k].id \in Int /\ meta[k].id <= seq
  BY <1>1, <1>3, <1>11, SnapshotterAssumption
     DEF Live, Snapshot, Ids, IInv, SnapshotterInv, Rows, IdsAreOld, q
<1>17. \A e \in Clients : OneTarget(e)'
  <2> SUFFICES ASSUME NEW e \in Clients \ {c}, call[e].at = "starting"
               PROVE  /\ call[e].id <= seq + 1
                      /\ \A k \in Live' : meta'[k].id = call[e].id => k = call[e].key
    BY <1>5, <1>9, <1>10 DEF OneTarget
  <2>1. /\ call[e].id <= seq /\ \A k \in Live : meta[k].id = call[e].id => k = call[e].key
        /\ call[e].id \in Ids
    BY DEF LoadsInv, OneTarget, IInv, SnapshotterInv, Requests, Pending
  <2>2. call[e].id # seq + 1 /\ call[e].id <= seq + 1
    BY <1>1, <2>1, SnapshotterAssumption DEF Ids
  <2> QED
    BY <1>4, <1>7, <1>11, <1>16, <2>1, <2>2
<1>18. TicketsApart'
  <2>1. \A e \in Clients : call'[e].op \in Creating =>
          call[e].op \in Creating /\ call'[e].key = call[e].key
    BY <1>9, <1>10
  <2> QED
    BY <1>5, <2>1 DEF LoadsInv, TicketsApart
<1>19. IdsDistinct'
  <2>1. \A k \in Live : meta[k].id # seq + 1
    BY <1>1, <1>16
  <2> QED
    BY <1>4, <1>7, <1>11, <1>16, <2>1 DEF LoadsInv, IdsDistinct
<1>20. CommittedShow'
  <2>1. \A d \in Dimgs : Stays(d)
    BY <1>4, <1>12, ImageLoadsAssumption DEF Keys
  <2> QED
    BY <1>5, <2>1, CommittedStay DEF LoadsInv
<1>21. ASSUME NEW i \in Images, Accounted(i) PROVE Accounted(i)'
  BY <1>5, <1>9, <1>10, <1>21, AccountedStays
<1> QED
  BY <1>5, <1>10, <1>14, <1>15, <1>17, <1>18, <1>19, <1>20, <1>21 DEF LoadsInv

\* A mount begins when all of the image's dimgs are there.
LEMMA MountBeginsKeeps ==
  ASSUME IInv, LoadsInv, NEW c \in Clients, Quiet, MountBegins(c)
  PROVE  LoadsInv'
<1> DEFINE q == call[c]
           r == [q EXCEPT !.at = "starting", !.id = meta[q.key].id]
<1>1. /\ call \in [Clients -> Calls] /\ q \in Calls /\ CallOfLoad(c) /\ Made(c)
      /\ q.at = "mounting" /\ q.op = "prepare" /\ q.ref \in Dimgs /\ q.ref # Nil
  <2>1. q.at = "mounting" /\ q.op = "prepare" /\ Pending(c)
    BY DEF MountBegins, At, IInv, SnapshotterInv, Requests
  <2>2. q.ref \in Dimgs
    BY <2>1 DEF Pending
  <2> QED
    BY <2>1, <2>2, SnapshotterAssumption DEF IInv, SnapshotterInv, SnapshotterTypeOK, LoadsInv, Keys
<1>2. /\ UNCHANGED <<load, images, broken, meta, seq, mounts, daemon, spoiled>> /\ store \subseteq store'
  BY DEF MountBegins, Quiet
<1>3. CASE Reply(c, FALSE)
  <2>1. FALSE \in BOOLEAN /\ call[c].at # "done"
    BY <1>1
  <2>2. Answered(c) /\ \A d \in Clients \ {c} : call'[d] = call[d]
    BY <1>3, <2>1, AnswerIs
  <2> QED
    BY <1>2, <2>2, AllStay, RequestKeeps
<1>4. CASE q.key \in Live /\ Stack(q.ref) \subseteq store' /\ call' = [call EXCEPT ![c] = r]
  <2>1. /\ r.at = "starting" /\ r.id = meta[q.key].id /\ r.op = q.op /\ r.key = q.key
        /\ r.other = q.other /\ r.ref = q.ref /\ r.ok = q.ok
    BY <1>1 DEF Calls
  <2> HIDE DEF r
  <2>2. call'[c] = r /\ \A d \in Clients \ {c} : call'[d] = call[d]
    BY <1>1, <1>4
  <2>3. load[c].step = "prepare" /\ q.key = load[c].ticket /\ q.ref = load[c].dimg
    BY <1>1 DEF CallOfLoad
  <2>4. \A k : Stays(k)
    BY <1>2, AllStay
  <2>5. \A e \in Clients \ {c} : CallOfLoad(e)' /\ Made(e)'
    BY <1>2, <2>2, <2>4, OthersKeep
  <2>6. CallOfLoad(c)'
    BY <1>1, <1>2, <2>1, <2>2 DEF CallOfLoad
  <2>7. Live' = Live
    BY <1>2 DEF Live
  <2>8. Made(c)'
    BY <1>1, <1>2, <1>4, <2>1, <2>2, <2>3, <2>7 DEF Made, Prepared
  <2>9. \A e \in Clients : OneTarget(e)'
    <3>1. ASSUME NEW e \in Clients \ {c} PROVE OneTarget(e)'
      BY <1>2, <2>2, <2>7 DEF LoadsInv, OneTarget
    <3>2. OneTarget(c)'
      BY <1>2, <1>4, <2>1, <2>2, <2>7
         DEF OneTarget, LoadsInv, IdsDistinct, IInv, SnapshotterInv, Rows, IdsAreOld
    <3> QED
      BY <3>1, <3>2
  <2>10. TicketsApart'
    <3>1. \A e \in Clients : call'[e].op = call[e].op /\ call'[e].key = call[e].key
      BY <2>1, <2>2
    <3> QED
      BY <1>2, <3>1 DEF LoadsInv, TicketsApart
  <2>11. IdsDistinct'
    BY <1>2, <2>7 DEF LoadsInv, IdsDistinct
  <2>12. CommittedShow'
    BY <1>2, <2>4, CommittedStay DEF LoadsInv
  <2>13. ASSUME NEW i \in Images, Accounted(i) PROVE Accounted(i)'
    BY <1>2, <2>1, <2>2, <2>3, <2>13, AccountedStays
  <2> QED
    BY <1>2, <2>5, <2>6, <2>8, <2>9, <2>10, <2>11, <2>12, <2>13 DEF LoadsInv
<1> QED
  BY <1>3, <1>4 DEF MountBegins

\* A mount that is done is the ticket's, and of all the image's dimgs.
LEMMA MountDoneKeeps ==
  ASSUME IInv, LoadsInv, NEW c \in Clients, Quiet, MountDone(c)
  PROVE  LoadsInv'
<1> DEFINE q == call[c]
           t == load[c].ticket
           d == load[c].dimg
<1>1. /\ call \in [Clients -> Calls] /\ q \in Calls /\ CallOfLoad(c) /\ Made(c) /\ OneTarget(c)
      /\ q.at = "starting" /\ q.op = "prepare" /\ q.ref \in Dimgs /\ q.ref # Nil /\ q.id \in Ids
      /\ mounts \in [Ids -> Dimgs \cup {Nil}]
  <2>1. q.at = "starting" /\ q.op = "prepare" /\ Pending(c)
    BY DEF MountDone, At, IInv, SnapshotterInv, Requests
  <2>2. q.ref \in Dimgs /\ q.id \in Ids
    BY <2>1 DEF Pending
  <2> QED
    BY <2>1, <2>2, SnapshotterAssumption DEF IInv, SnapshotterInv, SnapshotterTypeOK, LoadsInv, Keys
<1>2. /\ load[c].step = "prepare" /\ q.key = t /\ q.ref = d /\ q.other = Nil /\ t \in Tickets
      /\ d \in Dimgs
  BY <1>1 DEF CallOfLoad
<1>3. UNCHANGED <<load, images, broken, meta, seq, store, daemon, spoiled>> /\ Live' = Live
  BY DEF MountDone, Quiet, Live
<1>4. CASE Go(c, "hung") /\ UNCHANGED mounts
  <2>1. /\ call'[c] = [q EXCEPT !.at = "hung"] /\ \A e \in Clients \ {c} : call'[e] = call[e]
    BY ONLY <1>1, <1>4, GoCall
  <2>2. Onward(c)
    BY <1>1, <2>1 DEF Onward, Calls
  <2> QED
    BY <1>3, <1>4, <2>1, <2>2, AllStay, RequestKeeps
<1>5. CASE mounts' = [mounts EXCEPT ![q.id] = q.ref] /\ Mounts(c)
  <2>1. Reply(c, TRUE)
    BY <1>2, <1>5 DEF Mounts
  <2>2. /\ call'[c].op = "none" /\ call'[c].at = "done" /\ call'[c].ref = Nil /\ call'[c].ok
        /\ \A e \in Clients \ {c} : call'[e] = call[e]
    <3>1. TRUE \in BOOLEAN
      OBVIOUS
    <3> QED
      BY ONLY <1>1, <2>1, <3>1, ReplyCall
  <2>3. \A i \in Ids \ {q.id} : mounts'[i] = mounts[i]
    BY <1>1, <1>5
  <2>4. mounts'[q.id] = d
    BY <1>1, <1>2, <1>5
  <2>5. \A k \in Live : k = t \/ meta[k].id # q.id
    BY <1>1, <1>2 DEF OneTarget
  <2>6. \A k \in Live : meta[k].id \in Ids
    BY SnapshotterAssumption DEF IInv, SnapshotterInv, SnapshotterTypeOK, Live, Snapshot
  <2> HIDE DEF q, t, d
  <2>7. \A k \in Keys \ {t} : Stays(k)
    BY <1>3, <2>3, <2>5, <2>6 DEF Stays
  <2>8. \A e \in Clients \ {c} : load[e].step # "none" => load[e].ticket \in Keys \ {t}
    BY <1>2 DEF LoadsInv, TicketsApart, CallOfLoad, Keys, t
  <2>9. \A e \in Clients \ {c} : CallOfLoad(e)' /\ Made(e)'
    BY <1>3, <2>2, <2>7, <2>8, OthersKeep
  <2>10. CallOfLoad(c)'
    BY <1>2, <1>3, <2>2 DEF CallOfLoad, Creating, t, d
  <2>11. Made(c)'
    <3>1. ASSUME t \in Live
          PROVE  /\ meta[t].ref = d /\ meta[t].kind = "active"
                 /\ q.id = meta[t].id /\ Stack(d) \subseteq store
      BY <1>1, <1>2, <3>1 DEF Made, q, t, d
    <3>2. t \in Live => Shows(t, d)'
      BY <1>3, <2>4, <3>1 DEF Shows, t, d
    <3> QED
      BY <1>3, <2>2, <3>1, <3>2 DEF Made, t, d
  <2>12. \A e \in Clients : OneTarget(e)'
    BY <1>3, <2>2 DEF OneTarget, LoadsInv
  <2>13. TicketsApart'
    <3>1. \A e \in Clients : call'[e].op \in Creating =>
            call[e].op \in Creating /\ call'[e].key = call[e].key
      BY <2>2 DEF Creating
    <3> QED
      BY <1>3, <3>1 DEF LoadsInv, TicketsApart
  <2>14. IdsDistinct'
    BY <1>3 DEF LoadsInv, IdsDistinct
  <2>15. CommittedShow'
    <3>1. \A e \in Dimgs : Stays(e)
      BY <1>2, <2>7, ImageLoadsAssumption DEF Keys
    <3> QED
      BY <1>3, <3>1, CommittedStay DEF LoadsInv
  <2>16. ASSUME NEW i \in Images, Accounted(i) PROVE Accounted(i)'
    BY <1>2, <1>3, <2>2, <2>16, AccountedStays
  <2> QED
    BY <1>3, <2>9, <2>10, <2>11, <2>12, <2>13, <2>14, <2>15, <2>16 DEF LoadsInv
<1> QED
  BY <1>4, <1>5 DEF MountDone

\* What a load commits has been mounted, and nobody mounts there again.
LEMMA CommitCommitsKeeps ==
  ASSUME IInv, LoadsInv, NEW c \in Clients, Quiet, CommitCommits(c)
  PROVE  LoadsInv'
<1> DEFINE q == call[c]
           t == load[c].ticket
           d == load[c].dimg
           row == [meta[t] EXCEPT !.kind = "committed"]
<1>1. /\ call \in [Clients -> Calls] /\ CallOfLoad(c) /\ Made(c)
      /\ q.at = "committing" /\ q.op = "commit" /\ meta \in [Keys -> Snapshot \cup {Nil}]
  BY DEF CommitCommits, At, IInv, SnapshotterInv, SnapshotterTypeOK, LoadsInv
<1>2. /\ load[c].step = "commit" /\ q.key = t /\ q.other = d /\ t \in Tickets /\ d \in Dimgs
  BY <1>1 DEF CallOfLoad
<1>3. t \in Live /\ d \notin Live /\ t # d
  BY <1>1, <1>2 DEF IInv, SnapshotterInv, Requests, Foreseen
<1>4. /\ meta' = [meta EXCEPT ![d] = row, ![t] = Nil] /\ Reply(c, TRUE)
      /\ UNCHANGED <<load, images, broken, seq, mounts, store, daemon, spoiled>>
  BY <1>2 DEF CommitCommits, Quiet
<1>5. /\ call'[c].op = "none" /\ call'[c].at = "done" /\ call'[c].ref = Nil /\ call'[c].ok
      /\ \A e \in Clients \ {c} : call'[e] = call[e]
  <2>1. TRUE \in BOOLEAN
    OBVIOUS
  <2> QED
    BY ONLY <1>1, <1>4, <2>1, ReplyCall
<1>6. Shows(t, d) /\ meta[t].ref = d /\ Stack(d) \subseteq store
  BY <1>2, <1>3 , <1>1 DEF Made, Prepared
<1>7. /\ row \in Snapshot /\ row # Nil /\ row.id = meta[t].id /\ row.kind = "committed"
      /\ row.ref = d
  <2>1. meta[t] \in Snapshot
    BY <1>1, <1>3 DEF Live
  <2>2. /\ row \in Snapshot /\ row.id = meta[t].id /\ row.kind = "committed"
        /\ row.ref = meta[t].ref
    BY <2>1 DEF Snapshot
  <2> QED
    BY <1>6, <2>2, SnapshotterAssumption
<1> HIDE DEF q, t, d, row
<1>8. t \in Keys /\ d \in Keys
  BY <1>2 DEF Keys
<1>9. /\ \A k \in Keys : meta'[k] = IF k = t THEN Nil ELSE IF k = d THEN row ELSE meta[k]
      /\ Live' = (Live \ {t}) \cup {d}
  <2>1. \A k \in Keys : meta'[k] = IF k = t THEN Nil ELSE IF k = d THEN row ELSE meta[k]
    BY <1>1, <1>3, <1>4
  <2> QED
    BY <1>3, <1>7, <1>8, <2>1 DEF Live
<1>10. \A k \in Keys \ {d} : Stays(k)
  BY <1>4, <1>9 DEF Stays, Live
<1>11. \A e \in Clients \ {c} : load[e].step # "none" => load[e].ticket \in Keys \ {d}
  BY <1>2, ImageLoadsAssumption DEF LoadsInv, CallOfLoad, Keys
<1>12. \A e \in Clients \ {c} : CallOfLoad(e)' /\ Made(e)'
  BY <1>4, <1>5, <1>10, <1>11, OthersKeep
<1>13. CallOfLoad(c)'
  BY <1>2, <1>4, <1>5 DEF CallOfLoad, Creating, t, d
<1>14. Made(c)'
  BY <1>3, <1>4, <1>5, <1>9 DEF Made, t
<1>15. \A e \in Clients : OneTarget(e)'
  <2> SUFFICES ASSUME NEW e \in Clients \ {c}, call[e].at = "starting"
               PROVE  /\ call[e].id <= seq
                      /\ \A k \in Live' : meta'[k].id = call[e].id => k = call[e].key
    <3>1. seq' = seq
      BY <1>4
    <3> QED
      BY <1>5, <3>1 DEF OneTarget
  <2>1. /\ call[e].id <= seq /\ \A k \in Live : meta[k].id = call[e].id => k = call[e].key
        /\ call[e].ref \in Dimgs /\ CallOfLoad(e)
    BY DEF LoadsInv, OneTarget, IInv, SnapshotterInv, Requests, Pending
  <2>2. call[e].ref # Nil
    BY <2>1, SnapshotterAssumption DEF Keys
  <2>3. call[e].op \in Creating
    BY <2>1, <2>2 DEF CallOfLoad, Creating
  <2>4. call[e].key # t
    BY <1>2, <2>3 DEF LoadsInv, TicketsApart, t
  <2>5. row.id # call[e].id
    BY <1>3, <1>7, <2>1, <2>4
  <2>6. ASSUME NEW k \in Live', meta'[k].id = call[e].id PROVE k \in Live /\ meta'[k] = meta[k]
    BY <1>3, <1>8, <1>9, <2>5, <2>6 DEF Live
  <2> QED
    BY <2>1, <2>6
<1>16. TicketsApart'
  <2>1. \A e \in Clients : call'[e].op \in Creating =>
          call[e].op \in Creating /\ call'[e].key = call[e].key
    BY <1>5 DEF Creating
  <2> QED
    BY <1>4, <2>1 DEF LoadsInv, TicketsApart
<1>17. IdsDistinct'
  <2>1. \A k \in Live' : IF k = d THEN meta'[k].id = meta[t].id
                                  ELSE k \in Live \ {t} /\ meta'[k].id = meta[k].id
    BY <1>3, <1>7, <1>8, <1>9 DEF Live
  <2> QED
    BY <1>3, <2>1 DEF LoadsInv, IdsDistinct
<1>18. CommittedShow'
  <2> SUFFICES ASSUME NEW e \in Dimgs, e \in Live'
               PROVE  meta'[e].kind = "committed" /\ Shows(e, e)'
    BY DEF CommittedShow
  <2>1. CASE e = d
    <3>1. meta'[d] = row
      BY <1>3, <1>8, <1>9
    <3>2. meta[t].id \notin spoiled' => mounts'[meta[t].id] = d
      BY <1>4, <1>6 DEF Shows
    <3> QED
      BY <1>7, <2>1, <3>1, <3>2 DEF Shows
  <2>2. CASE e # d
    <3>1. Stays(e)
      BY <1>10, <2>2 DEF Keys
    <3>2. e \in Live /\ meta'[e] = meta[e] /\ meta[e].kind = "committed" /\ Shows(e, e)
      BY <3>1 DEF Stays, LoadsInv, CommittedShow
    <3> QED
      BY <1>4, <3>1, <3>2, StaysShown
  <2> QED
    BY <2>1, <2>2
<1>19. ASSUME NEW i \in Images, Accounted(i) PROVE Accounted(i)'
  <2>1. \A e \in Clients :
          \/ ~(load'[e].step = "commit" /\ call'[e].at = "done" /\ call'[e].ok)
          \/ load[e].step = "commit" /\ call[e].at = "done" /\ call[e].ok
          \/ Stack(load[e].dimg) \subseteq store'
    BY <1>4, <1>5, <1>6 DEF d
  <2> QED
    BY <1>4, <1>19, <2>1, AccountedStays
<1> QED
  BY <1>4, <1>12, <1>13, <1>14, <1>15, <1>16, <1>17, <1>18, <1>19 DEF LoadsInv

\* Everything the daemon does for a client's request keeps what the loads rely on.
LEMMA DaemonKeeps ==
  ASSUME IInv, LoadsInv, NEW c \in Clients, Daemon(c)
  PROVE  LoadsInv'
<1>1. Quiet
  BY DEF Daemon, Quiet
<1>2. CASE Begin(c)
  BY <1>1, <1>2, GoingOnKeeps
<1>3. CASE Create(c)
  BY <1>1, <1>3, GoingOnKeeps, CreateCommitsKeeps, AbortKeeps DEF Create, Abort
<1>4. CASE Mount(c)
  BY <1>1, <1>4, MountBeginsKeeps, MountDoneKeeps, CheckKeeps DEF Mount
<1>5. CASE Commit(c)
  BY <1>1, <1>5, GoingOnKeeps, CommitCommitsKeeps, AbortKeeps DEF Commit, Abort
<1>6. CASE Remove(c)
  BY <1>1, <1>6, GoingOnKeeps, RemoveCommitsKeeps, AbortKeeps DEF Remove, Abort
<1>7. CASE CommitFails(c) \/ UpdateRow(c) \/ CleanUp(c)
  BY <1>1, <1>7, AbortKeeps DEF Abort
<1>8. CASE SweepStep(c)
  BY <1>1, <1>8, SweepStepKeeps
<1> QED
  BY <1>2, <1>3, <1>4, <1>5, <1>6, <1>7, <1>8 DEF Daemon, Handle
------------------------------------------------------------------------------
(* Images that are loaded: what the clients do *)

\* A request is on its way, or has failed because nobody listens.
LEMMA Sent ==
  ASSUME call \in [Clients -> Calls], NEW c \in Clients, NEW op, NEW key, NEW other, NEW ref,
         Send(c, Call(op, key, other, ref))
  PROVE  /\ \A e \in Clients \ {c} : call'[e] = call[e]
         /\ ~call'[c].ok
         /\ \/ /\ call'[c].at = "begin" /\ call'[c].op = op /\ call'[c].key = key
               /\ call'[c].other = other /\ call'[c].ref = ref
            \/ call'[c].at = "done" /\ call'[c].op = "none" /\ call'[c].ref = Nil
<1> DEFINE q == Call(op, key, other, ref)
<1>1. /\ q.at = "begin" /\ q.op = op /\ q.key = key /\ q.other = other /\ q.ref = ref /\ ~q.ok
  BY DEF Call
<1>2. /\ Done(FALSE).at = "done" /\ Done(FALSE).op = "none" /\ Done(FALSE).ref = Nil
      /\ ~Done(FALSE).ok
  BY CallTyped
<1>3. call' = [call EXCEPT ![c] = IF daemon = "up" THEN q ELSE Done(FALSE)]
  BY DEF Send
<1> HIDE DEF q
<1> QED
  BY <1>1, <1>2, <1>3

\* A step of one client that leaves the snapshotter's state alone.
LEMMA ClientKeeps ==
  ASSUME LoadsInv, NEW c \in Clients, UNCHANGED <<meta, seq, mounts, store, spoiled>>,
         \A e \in Clients \ {c} : call'[e] = call[e] /\ load'[e] = load[e],
         CallOfLoad(c)', Made(c)', call'[c].at # "starting", TicketsApart',
         daemon' # "cleared" => \A i \in Images : Accounted(i)'
  PROVE  LoadsInv'
<1>1. Live' = Live /\ \A k : Stays(k)
  BY AllStay DEF Live
<1>2. \A e \in Clients \ {c} : CallOfLoad(e)' /\ Made(e)'
  BY <1>1, OthersKeep
<1>3. \A e \in Clients : OneTarget(e)'
  BY <1>1 DEF LoadsInv, OneTarget
<1>4. IdsDistinct'
  BY <1>1 DEF LoadsInv, IdsDistinct
<1>5. CommittedShow'
  BY <1>1, CommittedStay DEF LoadsInv
<1> QED
  BY <1>2, <1>3, <1>4, <1>5 DEF LoadsInv

\* What a client that is free, or waits for nothing, has in hand.
LEMMA Waiting ==
  ASSUME IInv, LoadsInv, NEW c \in Clients, call[c].at = "done"
  PROVE  /\ call \in [Clients -> Calls] /\ load \in [Clients -> Loads] /\ load[c] \in Loads
         /\ images \in [Images -> Dimgs \cup {Nil}]
         /\ call[c].op = "none" /\ call[c].ref = Nil /\ CallOfLoad(c) /\ Made(c)
<1>1. call[c].op = "none"
  BY DEF IInv, SnapshotterInv, Requests, Pending
<1>2. call[c].ref = Nil /\ CallOfLoad(c) /\ Made(c)
  BY DEF LoadsInv, CallOfLoad
<1>3. load \in [Clients -> Loads]
  BY DEF IInv, LoadTypeOK, Loads
<1> QED
  BY <1>1, <1>2, <1>3 DEF IInv, SnapshotterInv, SnapshotterTypeOK, LoadTypeOK

\* A load begins with a ticket that nobody has; its image waits for it.
LEMMA LoadImageRelies ==
  ASSUME IInv, LoadsInv, NEW c \in Clients, NEW i \in Images, NEW d \in Dimgs, NEW t \in Tickets,
         LoadImage(c, i, d, t)
  PROVE  LoadsInv'
<1> DEFINE l == [image |-> i, dimg |-> d, ticket |-> t, step |-> "remove"]
<1>1. /\ call[c].at = "done" /\ load[c].step = "none" /\ Send(c, Call("remove", d, Nil, Nil))
      /\ UNCHANGED <<meta, seq, mounts, store, daemon, spoiled, broken>>
      /\ load' = [load EXCEPT ![c] = l] /\ images' = [images EXCEPT ![i] = d]
  BY DEF LoadImage, Free, Rest
<1>2. /\ t \notin Live
      /\ \A e \in Clients : call[e].key # t /\ load[e].ticket # t
  BY DEF LoadImage, Fresh
<1>3. call \in [Clients -> Calls] /\ load \in [Clients -> Loads] /\ images \in [Images -> Dimgs \cup {Nil}]
  BY <1>1, Waiting
<1>4. /\ \A e \in Clients \ {c} : call'[e] = call[e]
      /\ ~call'[c].ok
      /\ \/ /\ call'[c].at = "begin" /\ call'[c].op = "remove" /\ call'[c].key = d
            /\ call'[c].other = Nil /\ call'[c].ref = Nil
         \/ call'[c].at = "done" /\ call'[c].op = "none" /\ call'[c].ref = Nil
  BY ONLY <1>1, <1>3, Sent
<1>5. l.image = i /\ l.dimg = d /\ l.ticket = t /\ l.step = "remove"
  OBVIOUS
<1> HIDE DEF l
<1>6. load'[c] = l /\ \A e \in Clients \ {c} : load'[e] = load[e]
  BY <1>1, <1>3
<1>7. CallOfLoad(c)'
  BY <1>4, <1>5, <1>6 DEF CallOfLoad, Creating
<1>8. t \notin Live'
  BY <1>1, <1>2 DEF Live
<1>9. Made(c)' /\ call'[c].at # "starting"
  BY <1>4, <1>5, <1>6, <1>8 DEF Made
<1>10. TicketsApart'
  BY <1>1, <1>2, <1>4, <1>5, <1>6 DEF LoadsInv, TicketsApart, Creating
<1>11. ASSUME NEW j \in Images, Accounted(j) PROVE Accounted(j)'
  <2>1. CASE j = i
    <3>1. images'[j] = d
      BY <1>1, <1>3, <2>1
    <3> QED
      BY <1>5, <1>6, <2>1, <3>1 DEF Accounted
  <2>2. CASE j # i
    <3>1. images'[j] = images[j] /\ broken' = broken /\ store' = store
      BY <1>1, <1>3, <2>2
    <3>2. \A e \in Clients : load[e].step # "none" => load'[e] = load[e] /\ call'[e] = call[e]
      BY <1>1, <1>4, <1>6
    <3> QED
      BY <1>11, <3>1, <3>2, AccountedStays
  <2> QED
    BY <2>1, <2>2
<1>12. daemon' # "cleared" => \A j \in Images : Accounted(j)'
  BY <1>1, <1>11 DEF LoadsInv
<1> QED
  BY <1>1, <1>4, <1>6, <1>7, <1>9, <1>10, <1>12, ClientKeeps

\* A load goes on to its next request.
LEMMA LoadGoesOn ==
  ASSUME IInv, LoadsInv, NEW c \in Clients, LoadPrepares(c) \/ LoadCommits(c)
  PROVE  LoadsInv'
<1>1. call[c].at = "done" /\ load[c].step \in {"remove", "prepare"}
  BY DEF LoadPrepares, LoadCommits
<1>2. /\ call \in [Clients -> Calls] /\ load \in [Clients -> Loads] /\ load[c] \in Loads
      /\ CallOfLoad(c) /\ Made(c)
  BY <1>1, Waiting
<1>3. load[c].ticket \in Tickets /\ load[c].dimg \in Dimgs
  BY <1>1, <1>2 DEF CallOfLoad
<1>4. UNCHANGED <<meta, seq, mounts, store, daemon, spoiled, images, broken>> /\ Live' = Live
  BY DEF LoadPrepares, LoadCommits, Rest, Live
<1>5. PICK l : /\ load' = [load EXCEPT ![c] = l]
               /\ l.image = load[c].image /\ l.dimg = load[c].dimg /\ l.ticket = load[c].ticket
               /\ \/ LoadPrepares(c) /\ l.step = "prepare"
                  \/ LoadCommits(c) /\ l.step = "commit"
  <2>1. CASE LoadPrepares(c)
    <3> DEFINE l == [load[c] EXCEPT !.step = "prepare"]
    <3>1. load' = [load EXCEPT ![c] = l]
      BY <2>1 DEF LoadPrepares
    <3>2. /\ l.image = load[c].image /\ l.dimg = load[c].dimg /\ l.ticket = load[c].ticket
          /\ l.step = "prepare"
      BY <1>2 DEF Loads
    <3> HIDE DEF l
    <3> QED
      BY <2>1, <3>1, <3>2
  <2>2. CASE LoadCommits(c)
    <3> DEFINE l == [load[c] EXCEPT !.step = "commit"]
    <3>1. load' = [load EXCEPT ![c] = l]
      BY <2>2 DEF LoadCommits
    <3>2. /\ l.image = load[c].image /\ l.dimg = load[c].dimg /\ l.ticket = load[c].ticket
          /\ l.step = "commit"
      BY <1>2 DEF Loads
    <3> HIDE DEF l
    <3> QED
      BY <2>2, <3>1, <3>2
  <2> QED
    BY <2>1, <2>2
<1>6. load'[c] = l /\ \A e \in Clients \ {c} : load'[e] = load[e]
  BY <1>2, <1>5
<1>7. /\ \A e \in Clients \ {c} : call'[e] = call[e]
      /\ ~call'[c].ok /\ call'[c].at \in {"begin", "done"}
      /\ \/ call'[c].at = "done" /\ call'[c].op = "none" /\ call'[c].ref = Nil
         \/ /\ call'[c].at = "begin" /\ call'[c].key = l.ticket
            /\ \/ /\ call'[c].op = "prepare" /\ call'[c].other = Nil
                  /\ call'[c].ref = l.dimg /\ l.step = "prepare"
               \/ /\ call'[c].op = "commit" /\ call'[c].other = l.dimg
                  /\ call'[c].ref = Nil /\ l.step = "commit"
  <2>1. CASE l.step = "prepare"
    <3>1. Send(c, Call("prepare", load[c].ticket, Nil, load[c].dimg))
      BY <1>5, <2>1 DEF LoadPrepares
    <3>2. /\ \A e \in Clients \ {c} : call'[e] = call[e]
          /\ ~call'[c].ok
          /\ \/ /\ call'[c].at = "begin" /\ call'[c].op = "prepare" /\ call'[c].key = load[c].ticket
                /\ call'[c].other = Nil /\ call'[c].ref = load[c].dimg
             \/ call'[c].at = "done" /\ call'[c].op = "none" /\ call'[c].ref = Nil
      BY ONLY <1>2, <3>1, Sent
    <3> QED
      BY <1>5, <2>1, <3>2
  <2>2. CASE l.step = "commit"
    <3>1. Send(c, Call("commit", load[c].ticket, load[c].dimg, Nil))
      BY <1>5, <2>2 DEF LoadCommits
    <3>2. /\ \A e \in Clients \ {c} : call'[e] = call[e]
          /\ ~call'[c].ok
          /\ \/ /\ call'[c].at = "begin" /\ call'[c].op = "commit" /\ call'[c].key = load[c].ticket
                /\ call'[c].other = load[c].dimg /\ call'[c].ref = Nil
             \/ call'[c].at = "done" /\ call'[c].op = "none" /\ call'[c].ref = Nil
      BY ONLY <1>2, <3>1, Sent
    <3> QED
      BY <1>5, <2>2, <3>2
  <2> QED
    BY <1>5, <2>1, <2>2
<1>8. l.dimg # Nil /\ l.dimg \in Dimgs /\ l.ticket \in Tickets /\ l.step \in {"prepare", "commit"}
  BY <1>3, <1>5, SnapshotterAssumption DEF Keys
<1>9. CallOfLoad(c)'
  BY <1>6, <1>7, <1>8 DEF CallOfLoad, Creating
<1>10. Prepared(c)' => Prepared(c)
  BY <1>5, <1>6, <1>7 DEF Prepared, LoadCommits
<1>11. Made(c)'
  <2>1. l.ticket \in Live => /\ meta[l.ticket].ref = l.dimg /\ meta[l.ticket].kind = "active"
                             /\ Prepared(c) => /\ Shows(l.ticket, l.dimg)
                                               /\ Stack(l.dimg) \subseteq store
    BY <1>1, <1>2, <1>5 DEF Made
  <2>2. Shows(l.ticket, l.dimg) => /\ meta'[l.ticket].ref = l.dimg
                                   /\ meta'[l.ticket].id \notin spoiled'
                                        => mounts'[meta'[l.ticket].id] = l.dimg
    BY <1>4 DEF Shows
  <2> QED
    BY <1>4, <1>6, <1>7, <1>10, <2>1, <2>2 DEF Made, Shows
<1>12. TicketsApart'
  <2>1. \A e \in Clients : load'[e].step # "none" <=> load[e].step # "none"
    BY <1>1, <1>6, <1>8
  <2>2. \A e \in Clients : load'[e].ticket = load[e].ticket
    BY <1>5, <1>6
  <2>3. \A e \in Clients : call'[e].op \in Creating =>
          \/ call[e].op \in Creating /\ call'[e].key = call[e].key
          \/ load[e].step # "none" /\ call'[e].key = load[e].ticket
    BY <1>1, <1>5, <1>7 DEF Creating
  <2> QED
    BY <2>1, <2>2, <2>3 DEF LoadsInv, TicketsApart
<1>13. ASSUME NEW i \in Images, Accounted(i) PROVE Accounted(i)'
  <2>1. \A e \in Clients : load[e].step # "none" =>
          /\ load'[e].image = load[e].image /\ load'[e].dimg = load[e].dimg
          /\ load'[e].step # "none"
    BY <1>5, <1>6, <1>8
  <2>2. \A e \in Clients :
          \/ ~(load'[e].step = "commit" /\ call'[e].at = "done" /\ call'[e].ok)
          \/ load[e].step = "commit" /\ call[e].at = "done" /\ call[e].ok
    BY <1>6, <1>7
  <2> QED
    BY <1>4, <1>13, <2>1, <2>2, AccountedStays
<1>14. daemon' # "cleared" => \A i \in Images : Accounted(i)'
  BY <1>4, <1>13 DEF LoadsInv
<1> QED
  BY <1>4, <1>6, <1>7, <1>9, <1>11, <1>12, <1>14, ClientKeeps

\* A load that ends has its image's dimgs in the store, or reports an error.
LEMMA LoadEndsRelies ==
  ASSUME IInv, LoadsInv, NEW c \in Clients, LoadEnds(c)
  PROVE  LoadsInv'
<1>1. /\ call[c].at = "done"
      /\ \/ load[c].step = "commit"
         \/ load[c].step = "prepare" /\ ~call[c].ok
      /\ load' = [load EXCEPT ![c] = NoLoad]
      /\ broken' = IF call[c].ok THEN broken ELSE broken \cup {load[c].image}
      /\ UNCHANGED <<meta, seq, mounts, store, daemon, spoiled, images, call>>
  BY DEF LoadEnds, Rest
<1>2. /\ load \in [Clients -> Loads] /\ call[c].op = "none" /\ call[c].ref = Nil
  BY <1>1, Waiting
<1>3. NoLoad.step = "none"
  BY DEF NoLoad
<1>4. load'[c] = NoLoad /\ \A e \in Clients \ {c} : load'[e] = load[e]
  BY <1>1, <1>2
<1>5. CallOfLoad(c)' /\ Made(c)' /\ call'[c].at # "starting"
  BY <1>1, <1>2, <1>3, <1>4 DEF CallOfLoad, Made, Creating
<1>6. TicketsApart'
  BY <1>1, <1>2, <1>3, <1>4 DEF LoadsInv, TicketsApart, Creating
<1>7. ASSUME NEW i \in Images, Accounted(i) PROVE Accounted(i)'
  <2> SUFFICES ASSUME images[i] # Nil, i \notin broken'
               PROVE  Accounted(i)'
    BY <1>1 DEF Accounted
  <2>1. i \notin broken /\ (call[c].ok \/ load[c].image # i)
    BY <1>1
  <2>2. CASE Stack(images[i]) \subseteq store
    BY <1>1, <2>2 DEF Accounted
  <2>3. CASE \E e \in Clients : /\ load[e].image = i /\ load[e].dimg = images[i]
                                /\ load[e].step # "none"
                                /\ ~(load[e].step = "commit" /\ call[e].at = "done" /\ call[e].ok)
    <3>1. PICK e \in Clients : /\ load[e].image = i /\ load[e].dimg = images[i]
                               /\ load[e].step # "none"
                               /\ ~(load[e].step = "commit" /\ call[e].at = "done" /\ call[e].ok)
      BY <2>3
    <3>2. e # c
      BY <1>1, <2>1, <3>1
    <3> QED
      BY <1>1, <1>4, <3>1, <3>2 DEF Accounted
  <2> QED
    BY <1>7, <2>1, <2>2, <2>3 DEF Accounted
<1>8. daemon' # "cleared" => \A i \in Images : Accounted(i)'
  BY <1>1, <1>7 DEF LoadsInv
<1> QED
  BY <1>1, <1>4, <1>5, <1>6, <1>8, ClientKeeps

\* containerd's own requests have keys that no load has.
LEMMA AskRelies ==
  ASSUME IInv, LoadsInv, NEW c \in Clients, Ask(c)
  PROVE  LoadsInv'
<1>1. /\ call[c].at = "done" /\ load[c].step = "none"
      /\ UNCHANGED <<meta, seq, mounts, store, daemon, spoiled, images, load, broken>>
  BY DEF Ask, Free, Rest
<1>2. call \in [Clients -> Calls] /\ CallOfLoad(c)
  BY <1>1, Waiting
<1>3. PICK op, key, other :
        /\ Send(c, Call(op, key, other, Nil)) /\ op # "commit"
        /\ op \in Creating => /\ key \in Tickets
                              /\ \A e \in Clients : load[e].ticket # key
  BY DEF Ask, Fresh, Creating
<1>4. /\ \A e \in Clients \ {c} : call'[e] = call[e]
      /\ ~call'[c].ok
      /\ \/ /\ call'[c].at = "begin" /\ call'[c].op = op /\ call'[c].key = key
            /\ call'[c].other = other /\ call'[c].ref = Nil
         \/ call'[c].at = "done" /\ call'[c].op = "none" /\ call'[c].ref = Nil
  BY ONLY <1>2, <1>3, Sent
<1>5. CallOfLoad(c)' /\ Made(c)' /\ call'[c].at # "starting"
  BY <1>1, <1>3, <1>4 DEF CallOfLoad, Made, Creating
<1>6. TicketsApart'
  BY <1>1, <1>3, <1>4 DEF LoadsInv, TicketsApart, Creating
<1>7. ASSUME NEW i \in Images, Accounted(i) PROVE Accounted(i)'
  <2>1. \A e \in Clients : load[e].step # "none" => load'[e] = load[e] /\ call'[e] = call[e]
    BY <1>1, <1>4
  <2> QED
    BY <1>1, <1>7, <2>1, AccountedStays
<1>8. daemon' # "cleared" => \A i \in Images : Accounted(i)'
  BY <1>1, <1>7 DEF LoadsInv
<1> QED
  BY <1>1, <1>4, <1>5, <1>6, <1>8, ClientKeeps
------------------------------------------------------------------------------
(* Images that are loaded: the steps of everyone, and the theorems *)

\* A step that changes neither the rows, the mounts, the calls nor the loads.
LEMMA NobodyMoves ==
  ASSUME LoadsInv, UNCHANGED <<meta, seq, mounts, store, spoiled, call, load>>,
         daemon' # "cleared" => \A i \in Images : Accounted(i)'
  PROVE  LoadsInv'
<1>1. Live' = Live /\ \A k, d : Shows(k, d)' <=> Shows(k, d)
  BY DEF Live, Shows
<1>2. ASSUME NEW c \in Clients PROVE CallOfLoad(c)' /\ Made(c)' /\ OneTarget(c)'
  <2>1. CallOfLoad(c) /\ Made(c) /\ OneTarget(c)
    BY DEF LoadsInv
  <2>2. CallOfLoad(c)' /\ OneTarget(c)'
    BY <1>1, <2>1 DEF CallOfLoad, OneTarget
  <2>3. load[c].step # "none" => Stays(load[c].ticket)
    BY AllStay
  <2>4. Made(c)'
    BY <2>1, <2>3, MadeStays
  <2> QED
    BY <2>2, <2>4
<1>3. TicketsApart' /\ IdsDistinct'
  BY <1>1 DEF LoadsInv, TicketsApart, IdsDistinct
<1>4. CommittedShow'
  BY AllStay, CommittedStay DEF LoadsInv
<1> QED
  BY <1>2, <1>3, <1>4 DEF LoadsInv

\* A restart ends every request, and nothing is left that a load could have made.
LEMMA RestartRelies ==
  ASSUME IInv, LoadsInv, Restart, UNCHANGED <<images, load, broken>>
  PROVE  LoadsInv'
<1>1. \A c \in Clients : \/ call'[c] = call[c] /\ call[c].at = "done"
                         \/ call'[c] = Done(FALSE)
  BY DEF Restart
<1>2. /\ Done(FALSE).at = "done" /\ Done(FALSE).op = "none" /\ Done(FALSE).ref = Nil
      /\ ~Done(FALSE).ok
  BY CallTyped
<1>3. Live' = {} /\ daemon' = "cleared"
  BY DEF Restart, Live
<1>4. ASSUME NEW c \in Clients
      PROVE  /\ call'[c].op = "none" /\ call'[c].at = "done" /\ call'[c].ref = Nil
             /\ CallOfLoad(c)' /\ Made(c)' /\ OneTarget(c)'
  <2>1. CallOfLoad(c)
    BY DEF LoadsInv
  <2>2. call'[c].op = "none" /\ call'[c].at = "done" /\ call'[c].ref = Nil
    <3>1. call[c].at = "done" => call[c].op = "none" /\ call[c].ref = Nil
      BY Waiting
    <3> QED
      BY <1>1, <1>2, <3>1
  <2>3. CallOfLoad(c)'
    BY <2>1, <2>2 DEF CallOfLoad, Creating
  <2>4. Made(c)' /\ OneTarget(c)'
    BY <1>3, <2>2 DEF Made, OneTarget
  <2> QED
    BY <2>2, <2>3, <2>4
<1>5. TicketsApart'
  BY <1>4 DEF LoadsInv, TicketsApart, Creating
<1> QED
  BY <1>3, <1>4, <1>5 DEF LoadsInv, IdsDistinct, CommittedShow

\* At first there are no images, no loads and no rows.
LEMMA FreshLoads == Init => LoadsInv
<1> SUFFICES ASSUME Init PROVE LoadsInv
  OBVIOUS
<1>1. Live = {} /\ \A i \in Images : images[i] = Nil
  BY DEF Init, InitSnapshotter, Live
<1>2. TRUE \in BOOLEAN /\ NoLoad.step = "none"
  BY DEF NoLoad
<1>3. \A c \in Clients : /\ call[c].op = "none" /\ call[c].at = "done" /\ call[c].ref = Nil
                         /\ load[c].step = "none"
  BY <1>2, CallTyped DEF Init, InitSnapshotter
<1>4. \A c \in Clients : CallOfLoad(c) /\ Made(c) /\ OneTarget(c)
  BY <1>3 DEF CallOfLoad, Made, OneTarget, Creating
<1> QED
  BY <1>1, <1>3, <1>4 DEF LoadsInv, TicketsApart, IdsDistinct, CommittedShow, Accounted

\* Every step keeps what the loads rely on.
LEMMA NextRelies == IInv /\ LoadsInv /\ [Next]_vars => LoadsInv'
<1> SUFFICES ASSUME IInv, LoadsInv, [Next]_vars PROVE LoadsInv'
  OBVIOUS
<1>1. ASSUME NEW i \in Images, DeleteImage(i) PROVE LoadsInv'
  <2>1. /\ UNCHANGED <<meta, seq, mounts, store, spoiled, call, load, daemon>>
        /\ images' = [images EXCEPT ![i] = Nil] /\ broken' = broken \ {i}
        /\ DOMAIN images = Images
    BY <1>1 DEF DeleteImage, snapshotter, IInv, LoadTypeOK
  <2>2. ASSUME NEW j \in Images, Accounted(j) PROVE Accounted(j)'
    <3>1. CASE j = i
      BY <2>1, <3>1 DEF Accounted
    <3>2. CASE j # i
      <4>1. images'[j] = images[j] /\ (j \in broken => j \in broken')
        BY <2>1, <3>2
      <4> QED
        BY <2>1, <2>2, <4>1, AccountedStays
    <3> QED
      BY <3>1, <3>2
  <2>3. daemon' # "cleared" => \A j \in Images : Accounted(j)'
    BY <2>1, <2>2 DEF LoadsInv
  <2> QED
    BY <2>1, <2>3, NobodyMoves
<1>2. CASE RemoveImages
  <2>1. /\ UNCHANGED <<meta, seq, mounts, store, spoiled, call, load>>
        /\ \A i \in Images : images'[i] = Nil \/ i \in broken'
    BY <1>2 DEF RemoveImages
  <2>2. \A i \in Images : Accounted(i)'
    BY <2>1 DEF Accounted
  <2> QED
    BY <2>1, <2>2, NobodyMoves
<1>3. CASE Serve /\ UNCHANGED <<images, load, broken>>
  <2>1. /\ UNCHANGED <<meta, seq, mounts, store, spoiled, call, load, images, broken>>
        /\ daemon # "cleared"
    BY <1>3 DEF Serve
  <2>2. \A i \in Images : Accounted(i)'
    BY <2>1 DEF LoadsInv, Accounted
  <2> QED
    BY <2>1, <2>2, NobodyMoves
<1>4. CASE UNCHANGED vars
  <2>1. UNCHANGED <<meta, seq, mounts, store, spoiled, call, load, images, broken, daemon>>
    BY <1>4 DEF vars, snapshotter
  <2>2. daemon' # "cleared" => \A i \in Images : Accounted(i)'
    BY <2>1 DEF LoadsInv, Accounted
  <2> QED
    BY <2>1, <2>2, NobodyMoves
<1>5. ASSUME NEW c \in Clients, LoadStep(c) PROVE LoadsInv'
  BY <1>5, LoadGoesOn, LoadEndsRelies DEF LoadStep
<1> QED
  BY <1>1, <1>2, <1>3, <1>4, <1>5, DaemonKeeps, RestartRelies, LoadImageRelies, AskRelies DEF Next

\* The inductive invariant of the loads: a request with an image is of the load that
\* waits for it, nobody else makes a snapshot under its ticket, and a mount that has
\* been answered is the ticket's (CreateSnapshot of pkg/snapshotter/consts.go, against
\* Prepare and Commit of cmd/snapshotter).
THEOREM LoadsInvariance == Spec => [](IInv /\ LoadsInv)
  BY InitInv, NextInv, FreshLoads, NextRelies, PTL DEF Spec

\* An image's committed snapshot has the image's mount, and only that, while the daemon
\* is up (prepareRemoteSnapshot and commit of snapshot.go, fs.go's Mount).
THEOREM CommittedAreMounted == Spec => []CommittedIsMounted
<1>1. IInv /\ LoadsInv => CommittedIsMounted
  BY DEF LoadsInv, CommittedShow, Shows, CommittedIsMounted
<1> QED
  BY <1>1, LoadsInvariance, PTL

\* The dimgs of an image that containerd lists are in the store, unless its load failed
\* or still runs (LoadImage of ctr-cli/load/load.go, which registers it first).
THEOREM ListedAreLocal == Spec => []ListedIsLocal
<1>1. ASSUME IInv, LoadsInv PROVE ListedIsLocal
  <2> SUFFICES ASSUME daemon # "cleared", NEW i \in Images, images[i] # Nil, i \notin broken,
                      \A c \in Clients : load[c].image # i
               PROVE  Stack(images[i]) \subseteq store
    BY DEF ListedIsLocal
  <2>1. Accounted(i)
    BY <1>1 DEF LoadsInv
  <2> QED
    BY <2>1 DEF Accounted
<1> QED
  BY <1>1, LoadsInvariance, PTL
==============================================================================
