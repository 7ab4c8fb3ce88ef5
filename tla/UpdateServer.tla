----------------------------- MODULE UpdateServer -----------------------------
(***************************************************************************)
(* The update server, pkg/server/server.go: three HTTP handlers that run    *)
(* concurrently.  POST /diffData/add stores a dimg and tags its image,      *)
(* /update merges the dimgs between a tagged image and what a client has    *)
(* into one dimg, DELETE /cleanup starts over with an empty store.          *)
(* ds.lock is held by /update and /cleanup and taken by /diffData/add for   *)
(* the tag only; the store is looked up without storeLock.                  *)
(***************************************************************************)
EXTENDS DimgStore

CONSTANTS
  Tags,      \* image tags, name:version
  NoTag,     \* a request without one
  Posters,   \* the requests to /diffData/add that may run at the same time
  Big,       \* the dimgs with more files to merge than mergeTasks holds and one more
  Limit      \* how many merges of a chain may run at a time: MergeDimgConcurrentNum

\* Files beside the stored dimgs: what a post has written but not renamed yet, and
\* what merges have written, in directories of their own.
Temp(p) == <<"temp", p>>
MergedFile(d) == <<"merged", d>>

ASSUME ServerAssumption ==
  /\ NoTag \notin Tags /\ \A p \in Posters : Temp(p) \notin Digests
  /\ Big \subseteq Digests /\ Limit \in Nat \ {0}

VARIABLES
  dir,         \* imageStorePath exists
  tags,        \* imageTags: tag -> image id
  lock,        \* ds.lock: "free", or what its holder does next
  storeLock,   \* the storeLock of the current store: its holder, or Nil
  post,        \* post[p]: a request to /diffData/add
  job,         \* the request to /update that holds ds.lock, and its response
  walked,      \* history: the digests that a cleanup's Walk came across
  torn         \* history: a cleanup overlapped a post, or failed half way

server == <<dir, tags, lock, storeLock, post, job, walked, torn>>
vars == <<nodes, links, marked, answer, files, entries, server>>

NoPost == [at |-> "idle", dimg |-> Nil, tag |-> NoTag, current |-> FALSE]
NoJob == [id |-> Nil, goals |-> {}, seen |-> {}, chain |-> <<>>, got |-> <<>>, live |-> {},
          status |-> "none", reply |-> Nil]
Corrupt == <<Nil, Nil>>

InitServer ==
  /\ InitStore
  /\ dir = TRUE
  /\ tags = <<>>
  /\ lock = "free"
  /\ storeLock = Nil
  /\ post = [p \in Posters |-> NoPost]
  /\ job = NoJob
  /\ walked = {} /\ torn = FALSE
------------------------------------------------------------------------------
(* POST /diffData/add *)

\* The cdimg's dimg is written to a temporary file in the store's directory.
PostReceive(p) ==
  /\ post[p].at = "idle"
  /\ dir
  /\ \E d \in Digests, t \in Tags \cup {NoTag} :
       post' = [post EXCEPT ![p] = [at |-> "written", dimg |-> d, tag |-> t, current |-> FALSE]]
  /\ files' = files \cup {Temp(p)}
  /\ UNCHANGED <<store, answer, dir, tags, lock, storeLock, job, walked, torn>>

\* ds.dimgStore is read without ds.lock.
PostEnter(p) ==
  /\ post[p].at = "written"
  /\ post' = [post EXCEPT ![p].at = "adding", ![p].current = TRUE]
  /\ UNCHANGED <<store, files, answer, dir, tags, lock, storeLock, job, walked, torn>>

\* AddDimg takes storeLock, opens the file and renames it.
PostRename(p) ==
  /\ post[p].at = "adding"
  /\ post[p].current => storeLock = Nil
  /\ IF Temp(p) \in files
     THEN /\ files' = (files \ {Temp(p)}) \cup {post[p].dimg}
          /\ post' = [post EXCEPT ![p].at = "linking"]
          /\ storeLock' = IF post[p].current THEN p ELSE storeLock
     ELSE /\ post' = [post EXCEPT ![p] = NoPost]
          /\ UNCHANGED <<files, storeLock>>
  /\ UNCHANGED <<store, answer, dir, tags, lock, job, walked, torn>>

\* A store that a cleanup has replaced is garbage: what is added to it is lost.
PostLink(p) ==
  /\ post[p].at = "linking"
  /\ post' = [post EXCEPT ![p].at = "entering"]
  /\ IF post[p].current THEN AddLink(AddedLink(post[p].dimg)) ELSE UNCHANGED <<nodes, links>>
  /\ UNCHANGED <<marked, answer, files, entries, dir, tags, lock, storeLock, job,
                 walked, torn>>

\* A new entry object under the digest; storeLock is released.
PostEntry(p) ==
  LET d == post[p].dimg IN
  /\ post[p].at = "entering"
  /\ post' = [post EXCEPT ![p] = IF post[p].tag = NoTag THEN NoPost ELSE [@ EXCEPT !.at = "tagging"]]
  /\ IF post[p].current
     THEN /\ entries' = Put(entries, d, EntryOf(d))
          /\ job' = [job EXCEPT !.live = @ \ {d}]
          /\ storeLock' = Nil
     ELSE UNCHANGED <<entries, job, storeLock>>
  /\ UNCHANGED <<nodes, links, marked, answer, files, dir, tags, lock, walked, torn>>

\* Mutant: the image is tagged with the digest of its dimg, not with its Id.
PostTagDigest(p) ==
  /\ post[p].at = "tagging"
  /\ lock = "free"
  /\ tags' = Put(tags, post[p].tag, post[p].dimg)
  /\ post' = [post EXCEPT ![p] = NoPost]
  /\ UNCHANGED <<store, files, answer, dir, lock, storeLock, job, walked, torn>>

PostTag(p) ==
  /\ post[p].at = "tagging"
  /\ lock = "free"
  /\ tags' = Put(tags, post[p].tag, IdOf[post[p].dimg])
  /\ post' = [post EXCEPT ![p] = NoPost]
  /\ UNCHANGED <<store, files, answer, dir, lock, storeLock, job, walked, torn>>
------------------------------------------------------------------------------
(* DELETE /cleanup *)

Busy == \E p \in Posters : post[p].at # "idle"

CleanupRemove ==
  /\ lock = "free"
  /\ lock' = "making"
  /\ dir' = FALSE
  /\ files' = {}
  /\ torn' = (torn \/ Busy)
  /\ UNCHANGED <<store, answer, tags, storeLock, post, job, walked>>

\* RemoveAll may fail on the way, making the directory after it, or reading it: the
\* store and the tags then stay, without files or even without the directory.
CleanupFails ==
  /\ \/ lock = "free" /\ files' \in SUBSET files
     \/ lock \in {"making", "walking"} /\ UNCHANGED files
  /\ lock' = "free"
  /\ torn' = TRUE
  /\ UNCHANGED <<store, answer, dir, tags, storeLock, post, job, walked>>

CleanupMakeDir ==
  /\ lock = "making"
  /\ lock' = "walking"
  /\ dir' = TRUE
  /\ UNCHANGED <<store, files, answer, tags, storeLock, post, job, walked, torn>>

\* Mutant: the tags of the old store stay.
KeepTags == tags

NoTags == <<>>

\* Walk fills the new store from the directory, which then replaces the old one.
CleanupSwap ==
  LET Holds(f, d) == f = d \/ \E p \in Posters : f = Temp(p) /\ post[p].dimg = d
      found == {d \in Digests : \E f \in files : Holds(f, d)} IN
  /\ lock = "walking"
  /\ lock' = "free"
  /\ links' = {WalkedLink(d) : d \in found}
  /\ nodes' = UNION {{IdOf[d], ParentOf[d]} : d \in found}
  /\ marked' = {}
  /\ \E path \in [found -> files] :
       /\ \A d \in found : Holds(path[d], d)
       /\ entries' = [d \in found |-> EntryAt(d, path[d])]
  /\ tags' = NoTags
  /\ storeLock' = Nil
  /\ post' = [p \in Posters |-> [post[p] EXCEPT !.current = FALSE]]
  /\ walked' = found
  /\ torn' = (torn \/ Busy)
  /\ UNCHANGED <<files, answer, dir, job>>
------------------------------------------------------------------------------
(* POST /update *)

\* The tag is looked up.  An image that the graph does not know is a nil
\* dereference: net/http recovers it and the deferred unlock runs.
UpdateStart(t, locals) ==
  /\ lock = "free"
  /\ t \in DOMAIN tags
  /\ job' = [NoJob EXCEPT !.id = tags[t], !.goals = locals \cup {Base}, !.seen = links,
                          !.status = IF tags[t] \in nodes THEN "running" ELSE "panic"]
  /\ lock' = IF tags[t] \in nodes THEN "searching" ELSE "responding"
  /\ UNCHANGED <<store, files, answer, dir, tags, storeLock, post, walked, torn>>

Fail(why) == lock' = "responding" /\ job' = [job EXCEPT !.status = why]

\* The search sees the graph it started on and any of the edges added since.
UpdateSearch ==
  /\ lock = "searching"
  /\ \E extra \in SUBSET (links \ job.seen) :
       \E reply \in Replies(nodes, job.seen \cup extra, marked, job.id, job.goals) :
         LET r == Resolve(reply[1], entries)
             c == [i \in DOMAIN r.route |-> r.route[i].name] IN
         /\ marked' = reply[2]
         /\ IF r.kind # "path" THEN Fail("bad request")
            ELSE IF c = <<>> THEN Fail("internal error")
            ELSE /\ lock' = "merging"
                 /\ job' = [job EXCEPT !.chain = c, !.got = [i \in DOMAIN c |-> entries[c[i]]],
                                       !.live = {c[i] : i \in DOMAIN c}]
  /\ UNCHANGED <<nodes, links, answer, files, entries, dir, tags, storeLock, post,
                 walked, torn>>

\* What a stack of entries amounts to, top first.
Composed(es) ==
  IF \A i \in DOMAIN es : /\ es[i].body # Corrupt
                          /\ i < Len(es) => es[i].body[1] = es[i + 1].body[2]
  THEN <<es[Len(es)].body[1], es[1].body[2]>>
  ELSE Corrupt

\* Mutant: the merged header is a copy of the upper one.
MergeOfUpperHeader(es, path) ==
  [id |-> es[1].id, parent |-> es[1].parent, body |-> Composed(es), path |-> path]

\* MergeDimg: the header is the upper one's Id over the lower one's ParentId.
MergeOf(es, path) ==
  [id |-> es[1].id, parent |-> es[Len(es)].parent, body |-> Composed(es), path |-> path]

\* buildMergeDimgTask halves the stack; a task is the stretch lo..hi it covers.
Tasks(n) ==
  LET T[t \in (1..n) \X (1..n)] ==
        IF t[1] >= t[2] THEN {}
        ELSE LET mid == t[1] + (t[2] - t[1] + 1) \div 2
             IN {t} \cup T[<<t[1], mid - 1>>] \cup T[<<mid, t[2]>>]
  IN T[<<1, n>>]

\* Mutant: the entry gets the merged file and keeps its header.
PathOnly(e, m) == [m EXCEPT !.id = e.id, !.parent = e.parent]

\* What a finished task writes over the entry e of its upper dimg: all but its name.
Overwritten(e, m) == m

\* A task that is done has overwritten the entry of its topmost dimg.
AfterTasks(es, done) ==
  [d \in DOMAIN es |->
     LET mine == {s \in done : job.chain[s[1]] = d}
     IN IF mine = {} \/ d \notin job.live THEN es[d]
        ELSE LET s == CHOOSE s \in mine : \A u \in mine : u[2] <= s[2]
             IN Overwritten(es[d], MergeOf(SubSeq(job.got, s[1], s[2]), MergedFile(d)))]

\* Mutant: the directory of the merged files is removed once they are sent.
WrittenAndRemoved(done) == {}

Written(done) == {MergedFile(job.chain[s[1]]) : s \in done}

Missing == \E i \in DOMAIN job.got : job.got[i].path \notin files

\* A merge that fails need not return.  Its goroutines may wait for room in a channel
\* that nobody empties (MergePipeline), if the dimg on top has that many files, or
\* failed merges have kept every token of the chain (BisectMerge), if it is that long.
MayHang(c) ==
  \/ \E i \in 1..Len(c) - 1 : c[i] \in Big
  \/ Len(c) >= 2 ^ (Limit + 1)

UpdateMerge ==
  LET n == Len(job.chain) IN
  /\ lock = "merging"
  /\ \/ /\ ~Missing                                   \* merged to the end
        /\ lock' = "responding"
        /\ job' = [job EXCEPT !.status = "ok",
                              !.reply = IF n = 1 THEN job.got[1]
                                        ELSE MergeOf(job.got, MergedFile(job.chain[1]))]
        /\ entries' = AfterTasks(entries, Tasks(n))
        /\ files' = files \cup Written(Tasks(n))
     \/ /\ \E done \in SUBSET (Tasks(n) \ {<<1, n>>}) :  \* the directory or a task failed
             /\ done # {} => dir
             /\ entries' = AfterTasks(entries, done)
             /\ files' = files \cup Written(done)
        /\ Fail("internal error") \/ (dir /\ MayHang(job.chain) /\ Fail("hung"))
     \/ /\ dir
        /\ Missing \/ (n > 1 /\ Composed(job.got) = Corrupt)
        /\ IF n = 1 THEN Fail("internal error")       \* OpenDimgFile fails
           ELSE Fail("crash")                         \* MergeDimg panics in a goroutine
        /\ UNCHANGED <<entries, files>>
  /\ UNCHANGED <<nodes, links, marked, answer, dir, tags, storeLock, post, walked, torn>>

\* Mutant: only the answer at the end of the handler unlocks.
RespondOk ==
  /\ lock = "responding"
  /\ job.status = "ok"
  /\ lock' = "free"
  /\ job' = NoJob
  /\ UNCHANGED <<store, files, answer, dir, tags, storeLock, post, walked, torn>>

Respond ==
  /\ lock = "responding"
  /\ job.status \notin {"crash", "hung"}
  /\ lock' = "free"
  /\ job' = NoJob
  /\ UNCHANGED <<store, files, answer, dir, tags, storeLock, post, walked, torn>>

\* The process dies, of a panic outside a handler or of anything else; the next
\* one removes the directory before it listens.
Restart ==
  /\ nodes' = {} /\ links' = {} /\ marked' = {} /\ entries' = <<>> /\ files' = {}
  /\ dir' = TRUE /\ tags' = <<>> /\ lock' = "free" /\ storeLock' = Nil
  /\ post' = [p \in Posters |-> NoPost] /\ job' = NoJob
  /\ walked' = {} /\ torn' = FALSE
  /\ UNCHANGED answer
------------------------------------------------------------------------------
PostStep(p) == PostEnter(p) \/ PostRename(p) \/ PostLink(p) \/ PostEntry(p) \/ PostTag(p)
LockStep == CleanupMakeDir \/ CleanupSwap \/ UpdateSearch \/ UpdateMerge \/ Respond

NextServer ==
  \/ \E p \in Posters : PostReceive(p) \/ PostStep(p)
  \/ CleanupRemove \/ CleanupFails
  \/ \E t \in Tags, locals \in SUBSET (Names \ {Base}) : UpdateStart(t, locals)
  \/ LockStep
  \/ Restart

ServerSpec == InitServer /\ [][NextServer]_vars

\* The handlers' goroutines run on, but for one that waits for a merge that hangs; a
\* process that has crashed is another matter.
FairServer == ServerSpec /\ WF_vars(LockStep)
------------------------------------------------------------------------------
ServerTypeOK ==
  /\ nodes \subseteq Names /\ links \subseteq Link /\ marked \subseteq Names
  /\ DOMAIN entries \subseteq Digests
  /\ DOMAIN tags \subseteq Tags /\ \A t \in DOMAIN tags : tags[t] \in Names
  /\ lock \in {"free", "making", "walking", "searching", "merging", "responding"}
  /\ storeLock \in Posters \cup {Nil}
  /\ \A p \in Posters :
       post[p].at \in {"idle", "written", "adding", "linking", "entering", "tagging"}
  /\ job.status \in {"none", "running", "ok", "bad request", "internal error", "panic",
                     "crash", "hung"}
  /\ job.live \subseteq Digests

\* What is sent turns an image the client has (or nothing) into the image it
\* asked for.
Applies == /\ job.reply.id = job.id
           /\ job.reply.parent \in job.goals
           /\ job.reply.body = <<job.reply.parent, job.reply.id>>

\* "string[0] == top, string[1] == layer(parentId top.Id)" (store.go:117-118): the
\* entries that an update merges build on each other.  Not so after a first
\* update: a merge has overwritten the entry it had looked up (merge.go:551-553),
\* and the next lookup finds the merged dimg under the digest of the plain one.
MergesStacks ==
  lock = "merging" =>
    \A i \in 1..Len(job.got) - 1 : job.got[i].parent = job.got[i + 1].id

\* An update that is answered applies at the client as long as the chain's entries
\* are what AddDimg made them, none of them loaded by the Walk of a cleanup:
\* whatever is added during the search.
PlainUpdateApplies ==
  /\ job.status = "ok"
  /\ \A i \in DOMAIN job.chain : /\ job.got[i] = EntryOf(job.chain[i])
                                 /\ job.chain[i] \notin walked
  => Applies

\* A merge that went wrong is the only way for a header to differ from the content:
\* an overwritten entry still says what it is.
HeadersAreTrue ==
  \A d \in DOMAIN entries :
    entries[d].body # Corrupt => entries[d].body = <<entries[d].parent, entries[d].id>>

\* An image is tagged after its dimg was registered, so the graph knows it and
\* looking it up is no nil dereference; unless a cleanup came in between.
TagsAreKnown == ~torn => \A t \in DOMAIN tags : tags[t] \in nodes

\* Every entry that a lookup may return has its file, which MergeDimg panics
\* without; unless a cleanup came in between.
EntriesHaveFiles ==
  ~torn /\ lock \notin {"making", "walking"} =>
    \A d \in DOMAIN entries : entries[d].path \in files

\* ds.lock comes free again, whatever fails under it and also when the handler panics.
\* Two ends keep it: the process crashes, or the update waits for a failed merge that
\* hangs, which takes two dimgs or more, the upper ones big or the chain long.
LockIsReleased ==
  lock # "free" ~> \/ lock = "free"
                   \/ job.status = "crash"
                   \/ job.status = "hung" /\ MayHang(job.chain)
==============================================================================
