------------------------------ MODULE ImageLoads ------------------------------
(***************************************************************************)
(* ctr-cli's load and pull (LoadImage, CreateSnapshot) against the          *)
(* snapshotter.  A load registers its image with containerd first, then     *)
(* removes the snapshot that may have its name, prepares one under a random *)
(* key, and commits it under the name.  Beside the loads there are          *)
(* containers on top of images, removals, cleanups and restarts.            *)
(***************************************************************************)
EXTENDS Snapshotter

CONSTANTS
  Images,   \* image names, name:version
  Asked     \* bound: the requests that containerd sends, beside the loads

\* A random key is not a digest, which is what an image id is.
ASSUME ImageLoadsAssumption ==
  /\ Asked \subseteq Creating \cup {"remove", "update", "cleanup"}
  /\ Tickets \cap Dimgs = {}

VARIABLES
  images,   \* containerd's di3fs images: images[i] is an image id, or Nil
  load,     \* load[c]: what c is loading
  broken    \* history: images whose load, or whose deletion, has reported an error

vars == <<snapshotter, images, load, broken>>

NoLoad == [image |-> Nil, dimg |-> Nil, ticket |-> Nil, step |-> "none"]

Init == /\ InitSnapshotter
        /\ images = [i \in Images |-> Nil]
        /\ load = [c \in Clients |-> NoLoad]
        /\ broken = {}

\* A random key: nobody has it, and nobody is about to.
Fresh(t) ==
  /\ t \in Tickets \ Live
  /\ \A c \in Clients : t \notin {call[c].key, call[c].other, load[c].ticket}

Rest == UNCHANGED <<meta, seq, writer, dirs, mounts, store, daemon, spoiled, leaked>>
Free(c) == load[c].step = "none" /\ call[c].at = "done"
------------------------------------------------------------------------------
\* Mutant: the image is registered under the random key.
LoadImageByKey(c, i, d, t) ==
  /\ Free(c)
  /\ images[i] = Nil
  /\ Fresh(t)
  /\ images' = [images EXCEPT ![i] = t]
  /\ load' = [load EXCEPT ![c] = [image |-> i, dimg |-> d, ticket |-> t, step |-> "remove"]]
  /\ Send(c, Call("remove", d, Nil, Nil))
  /\ Rest /\ UNCHANGED broken

\* The image is created before its snapshot is there; it must be new.
LoadImage(c, i, d, t) ==
  /\ Free(c)
  /\ images[i] = Nil
  /\ Fresh(t)
  /\ images' = [images EXCEPT ![i] = d]
  /\ load' = [load EXCEPT ![c] = [image |-> i, dimg |-> d, ticket |-> t, step |-> "remove"]]
  /\ Send(c, Call("remove", d, Nil, Nil))
  /\ Rest /\ UNCHANGED broken

\* CreateSnapshot ignores what Remove answers.
LoadPrepares(c) ==
  /\ load[c].step = "remove" /\ call[c].at = "done"
  /\ load' = [load EXCEPT ![c].step = "prepare"]
  /\ Send(c, Call("prepare", load[c].ticket, Nil, load[c].dimg))
  /\ Rest /\ UNCHANGED <<images, broken>>

\* Mutant: what Prepare answers is ignored too.
LoadCommitsAnyway(c) ==
  /\ load[c].step = "prepare" /\ call[c].at = "done"
  /\ load' = [load EXCEPT ![c].step = "commit"]
  /\ Send(c, Call("commit", load[c].ticket, load[c].dimg, Nil))
  /\ Rest /\ UNCHANGED <<images, broken>>

LoadCommits(c) ==
  /\ load[c].step = "prepare" /\ call[c].at = "done" /\ call[c].ok
  /\ load' = [load EXCEPT ![c].step = "commit"]
  /\ Send(c, Call("commit", load[c].ticket, load[c].dimg, Nil))
  /\ Rest /\ UNCHANGED <<images, broken>>

\* The image stays registered when the snapshot could not be made.
LoadEnds(c) ==
  /\ call[c].at = "done"
  /\ \/ load[c].step = "commit"
     \/ load[c].step = "prepare" /\ ~call[c].ok
  /\ load' = [load EXCEPT ![c] = NoLoad]
  /\ broken' = IF call[c].ok THEN broken ELSE broken \cup {load[c].image}
  /\ Rest /\ UNCHANGED <<call, images>>
------------------------------------------------------------------------------
\* containerd's own requests.
Ask(c) ==
  /\ Free(c)
  /\ \/ \E op \in Asked \cap Creating, t \in Tickets, d \in Dimgs :
          Fresh(t) /\ Send(c, Call(op, t, d, Nil))
     \/ \E k \in Live : "remove" \in Asked /\ Send(c, Call("remove", k, Nil, Nil))
     \/ \E op \in Asked \cap {"update", "cleanup"} : Send(c, Call(op, Nil, Nil, Nil))
  /\ Rest /\ UNCHANGED <<images, load, broken>>

DeleteImage(i) ==
  /\ images[i] # Nil
  /\ images' = [images EXCEPT ![i] = Nil]
  /\ broken' = broken \ {i}
  /\ UNCHANGED <<snapshotter, load>>

\* removeImages, between the opening of the stores and the service.  It goes on when
\* containerd does not delete one.
RemoveImages ==
  /\ daemon = "cleared"
  /\ daemon' = "emptied"
  /\ \E kept \in SUBSET {i \in Images : images[i] # Nil} :
       /\ images' = [i \in Images |-> IF i \in kept THEN images[i] ELSE Nil]
       /\ broken' = kept
  /\ UNCHANGED <<meta, seq, writer, dirs, mounts, store, call, spoiled, leaked, load>>

LoadStep(c) == LoadPrepares(c) \/ LoadCommits(c) \/ LoadEnds(c)
Daemon(c) == (Begin(c) \/ Handle(c)) /\ UNCHANGED <<images, load, broken>>

Next ==
  \/ \E c \in Clients : \/ Daemon(c) \/ LoadStep(c) \/ Ask(c)
                        \/ \E i \in Images, d \in Dimgs, t \in Tickets : LoadImage(c, i, d, t)
  \/ \E i \in Images : DeleteImage(i)
  \/ (Restart \/ Serve) /\ UNCHANGED <<images, load, broken>>
  \/ RemoveImages

Spec == Init /\ [][Next]_vars

------------------------------------------------------------------------------
Calls == [op : Writing \cup {"sweep", "none"}, key : Keys \cup {Nil}, other : Keys \cup {Nil},
          ref : Dimgs \cup {Nil}, id : Ids \cup Clients \cup {Nil},
          at : {"begin", "inside", "committing", "mounting", "starting", "checking",
                "deleting", "hung", "done"},
          doomed : SUBSET (Ids \cup Clients), ok : BOOLEAN]

TypeOK ==
  /\ meta \in [Keys -> Snapshot \cup {Nil}] /\ seq \in 0..MaxId
  /\ writer \in Clients \cup {Nil} /\ dirs \subseteq Ids \cup Clients
  /\ mounts \in [Ids -> Dimgs \cup {Nil}] /\ store \subseteq Dimgs
  /\ daemon \in {"up", "cleared", "emptied"} /\ call \in [Clients -> Calls]
  /\ spoiled \subseteq Ids /\ leaked \in BOOLEAN
  /\ images \in [Images -> Dimgs \cup {Nil}] /\ broken \subseteq Images
  /\ load \in [Clients -> [image : Images \cup {Nil}, dimg : Dimgs \cup {Nil},
                           ticket : Tickets \cup {Nil},
                           step : {"none", "remove", "prepare", "commit"}]]

\* A snapshot has its directory, and its parent is there and committed, as long as
\* requests that remove directories outside of their transaction (snapshot.go:426,
\* 549) run beside others.  Only an id that was given back can lose one.
LayersAreThere ==
  \A k \in Live :
    /\ meta[k].id \in dirs \cup spoiled
    /\ meta[k].parent # Nil => /\ meta[k].parent \in Live
                               /\ meta[meta[k].parent].kind = "committed"

\* A committed image is mounted, and what is mounted is that image: no mount that
\* failed is committed, and no sweep of another request takes the mount away.
CommittedIsMounted ==
  daemon = "up" =>
    \A d \in Dimgs \cap Live :
      /\ meta[d].ref = d /\ meta[d].kind = "committed"
      /\ meta[d].id \notin spoiled => mounts[meta[d].id] = d

\* Every path through a request ends its transaction, but for the one where the
\* disk usage cannot be taken (snapshot.go:376).
TransactionsEnd ==
  writer # Nil => leaked \/ call[writer].at \in {"inside", "committing"}

\* An image that containerd lists can be built on, as pull assumes when it reports
\* it to the server (pull.go:152): its dimgs are in the store, unless its load
\* reported an error or still runs, or a restart could not delete it.
ListedIsLocal ==
  daemon # "cleared" =>
    \A i \in Images :
      images[i] # Nil /\ i \notin broken /\ (\A c \in Clients : load[c].image # i)
        => Stack(images[i]) \subseteq store
==============================================================================
