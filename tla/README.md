# A verification project for d4c

d4c distributes container images as deltas.  An image version is packed into a
*dimg*: a header with a tree of file entries and a body with the data of the
files.  Of a new version only the *diff* to the old one is kept, a dimg whose
files are new, the same as in the parent, or a binary delta.  A stack of dimgs
from the newest down to a parentless one is an image.  Neighbours of a stack can be
*merged* into one dimg.  An update server keeps dimgs and sends a client one merged
dimg from what it has to what it wants; the client's snapshotter mounts the stack
with FUSE (di3fs).

Modules are TLA+ modules checked with TLC and proved about with TLAPS.  Source
lines are in `PROJECT.json`, under "map", for every definition that models code.

## The system's parts

| part | state | operations | how it is used |
|---|---|---|---|
| path search, `pkg/algorithm/dijkstra.go` | nodes with cost, done, prev; named edges | `Add`, `ShortestPathWithMultipleGoals` | by the store; no lock of its own |
| image store, `pkg/image/store.go` | graph of image ids, entries by digest, files | `NewDimgStore`/`Walk`, `AddDimg` (storeLock), lookups (no lock) | by the server and the snapshotter |
| update server, `pkg/server/server.go` | current store, tags, `ds.lock`, files | three HTTP handlers | concurrent; clients are ctr-cli's push and pull |
| file entries, `pkg/image/fs.go` | a tree of entries | predicates, digests | by everything below |
| pack, diff, patch, `pkg/image/{pack,diff,patch}.go` | trees and bodies | one call each, threads inside | by ctr-cli |
| merge, `pkg/image/merge.go` | two trees, two channels, goroutines | `MergeDimg`, linear and bisecting merge of a chain | by the server and ctr-cli |
| delta merging and plugins, `pkg/bsdiffx`, `cmd/plugins` | none; loaded plugins | diff, patch, merge of patches | by diff, merge, mount |
| di3fs, `pkg/di3fs` | inodes; per file a counter and a temporary file | mount, Open, Read, Release | by the snapshotter and fuse-diff |
| snapshotter, `cmd/snapshotter` | containerd's metadata store, directories, mounts | the Snapshotter interface over gRPC | by containerd, for load and pull |
| ctr-cli, fuse-diff, oci, utils, benchmark | none | commands and helpers | by users |

What is hard in it, and what makes each part correct:

- **Path search.**  Searches leave marks in the nodes, and a search that fails leaves
  them for the next one.  An answer must be a path, a "not found" must be true, and
  the walk back must end and meet no nil.
- **Store.**  Lookups run beside additions and return pointers to live entries.  What
  a lookup returns must be a stack: each dimg's parent is the next one's image.
- **Server.**  A cleanup replaces the store under running posts; a merge overwrites
  entries; failures leave half of it behind.  What is sent must apply at the client,
  tags must name known images, entries must have their files, the lock must come free unless
  a failed merge hangs under it.
- **Diff, merge, patch, mount.**  Any history of releases and merges must still show the
  newest version, contents and metadata, whether it is mounted or patched.
- **Merge of two dimgs.**  Goroutines, two bounded channels and a context: every file
  written once and where its entry says, no failure swallowed, no send on a closed
  channel, no caller left waiting.
- **Merge of a chain.**  Goroutines that share entries and tokens: neighbours only,
  finished ones only, within the limit, and back to the caller.
- **Pack and diff of one image.**  Goroutines whose failures are logged and nothing else: a
  run that failed in nothing must show every file, and one that failed must come back and
  must not show a wrong file.
- **di3fs.**  An Open that fails counts as an Open.  What is read must be what was diffed.
- **Delta merging.**  Patching with a merged delta must give what patching twice gives,
  wherever blocks start, end and overlap.
- **Snapshotter and loads.**  Transactions that fail half way, directories removed after
  the transaction that gave them up, mounts made outside of any, restarts that forget
  everything.  A snapshot must keep its directory and its parent, a committed image its
  mount, a transaction must end, an image that is listed must be there to build on.

`PROJECT.json` lists every component with its status, and the hazards, each at its line
with the properties that cover it or the reason why none does.

## The modules

**DirectedGraph** is `dijkstra.go`.  `Add` is `Add`; a search is begun by `Search`, and each
iteration of its loop is a `SearchStep`: `NextNode` picks the cheapest open node, any of
the cheapest because a Go map is walked in any order, `Calc` relaxes its edges, and at a
goal `WalkBack` follows prev and resets the labels.  The reset is missing where the code
returns early.

**PathSearch** is what the search promises: an answer at once, a cheapest route to a goal
among the nodes that no failed search has marked, or "not found".  DirectedGraph
implements it (`AnswersAtOnce`), and DimgStore uses its `Replies` in place of the loop.

**DimgStore** adds the store: a dimg is its id, its parent and what its body turns into
what.  `AddDimg` and `Walk` add edges in the two directions of the code.

**UpdateServer** extends it with the handlers.  A post is split where another handler
may come in between (file written, store read, renamed, linked, entered, tagged); a
cleanup in three; an update holds `ds.lock` from the tag to the response, and a
search sees its graph with any of the edges added since it began.  `MergeOf` composes
headers and bodies; `AfterTasks` overwrites the entries the way the bisecting merge does,
also when it fails half way.  An update whose merge failed may hang under `ds.lock` (status "hung") where
`MayHang` says so: MergePipeline and BisectMerge show the hang and their bounds on files and on the chain are
`Big` and `Limit` here.  A cleanup may fail in each of its three steps, which leaves the old
store without files or without its directory.  `Restart` may happen at any point.  `Posters` bounds the posts that
overlap.  Two variables record history only: `walked` and `torn`.

**DimgTree** is the data: trees are functions from paths to entries, a body is what
would be read at an entry's offset, a delta turns one content into one other, and what is
read from the wrong place is `Garbage`, which then fails to verify.  `Release` packs and
diffs a new version, `MergeDimg` merges any two neighbours; `ReadFile` is the mount,
`PatchStack` is ApplyPatch along the stack.

**MergePipeline** is the goroutines of one merge of two dimgs: one action per channel
operation and per outcome of a select.  Tasks are numbers; positions in the body count tasks.

**BisectMerge** is the merge of a chain.  The caller's recursion is unfolded into the sequence of
what it does (`Program`): leaves done, halves awaited, merges launched.  An entry is
the stretch of the chain that it stands for.  The linear merge, ctr-cli's other choice, is a
program of `Join`s into the bottom entry.

**DiffPipeline** is the goroutines of a pack or a diff, which are the same but for what is
made of a file: a walk, workers, a writer, and with the schedule "size-ordered" one more
that sends from a sorted array.  There is no context here: `WalkFails`, `TakeFails` and
`WriteFails` only set `failed`, a history variable, and stop one goroutine.  A place in a body
counts pieces; an entry that no diff touches keeps the place it has in the new image's own
dimg, which is why it may point at the data of another file.

**Di3fsNode** puts a mounted file on top of what DiffPipeline left behind: `OpenBuilds` is an Open
that makes the temporary file, `OpenFails` one that does not, or not to its end, and `Read` what
a reader gets then.  Nodes share nothing, so one is enough.

**DeltaBlocks** is `bsdiffx/merge.go` on real blocks of bytes, which are sums mod 256: `Read`
and `Write` between controls and blocks, `GetBlock` the bisection, `Step` the two nested loops
of mergeBlocks with their state as a record, and all the ways out, errors, panics and loops
without end, as values of `out`.  Around them a file is diffed and neighbouring deltas merged.

**Snapshotter** is the daemon's requests.  A request is a record of what it was asked and how far
it is (`at`): before its write transaction, inside, about to commit, mounting, checking the layers
below, sweeping directories.  `meta` has the committed rows, since readers see nothing else.
What a request may find on its way is in the guards, what may fail for a reason of its own is a
disjunct or an action of its own (`CreateFails`, `CommitFails`, `UsageFails`).  A mount that hangs
is a request that stays at "hung".  `Restart` ends the process and clears what main clears;
`RemoveImages` and `Serve` are the rest of the start.

**ImageLoads** composes it with its clients: loads step by step (image created, old snapshot
removed, prepared, committed) and whatever else containerd asks (`Ask`).

Two history variables of Snapshotter mark where the code is known to go wrong, and the
properties say so.  `spoiled` has the ids that were given back, because the rename or the commit
of a create failed, after a directory may have had their name: the deferred removal runs after
the rollback, and the id may belong to a new snapshot by then.  Without this exemption TLC
finds a snapshot without its directory.  `leaked` says that a commit
could not take the disk usage and left its transaction open: no write goes on after that.

The MC modules give the constants of TLC's runs.  Operators under a comment that begins with
"Mutant" are slips that could have been made in the definition after them; each property
is violated when one of them takes its place.

## The runs

| run | what it asks | bounds |
|---|---|---|
| graph_search | every sequence of adds and searches | 3 names, 3 edges of cost 0 or 1: enough for a detour, a cycle and leftovers of two failed searches |
| update_server | posts, updates and cleanups interleaved | 2 images and the empty base, 2 dimgs, 1 tag, 1 post at a time beside an update and a cleanup; the delta is a big dimg, so the merge of the two may hang and an update of one dimg, which merges nothing, may not |
| dimg_tree | releases and merges in any order | a directory that may be a file, two files in it of three contents, two modes and a link, stacks of 3 |
| merge_pipeline | a merge with any failures | 3 goroutines, channels of 2, 5 files: full and drained channels, more and fewer files than fit |
| bisect_merge | a chain merged with any failures | 1 to 9 dimgs, 2 tokens: the shortest chain that can hang, 8, is within |
| diffed_file | a pack or a diff with any failures, then a file of it read | any of 5 files (2 new, 1 changed, 1 the same, 1 that was empty), 2 workers, channels of 2: more files than fit, and two goroutines in front of one full channel |
| delta_merge | diffs and merges of deltas in any order | 4 versions of up to 3 bytes, 4 blocks in all, of any shape and overlap |
| image_loads | loads, other requests and restarts interleaved | 2 clients, 2 random keys, an image and a diff to it, 1 name, 2 ids: one id given back and taken again |

delta_merge needs blocks more than bytes: three bytes hold a block with both kinds of data
beside another, and `MaxBlocks` counts the blocks of all diffs, so that three deltas of which one has two blocks,
or two of two, are within.  `Fresh` bytes depend on who made them and where, so that bytes that
end up in a wrong place show.  In image_loads `Asked` says what containerd sends beside loads:
a Prepare of a container differs from a View only in that it may be committed or mounted, and a
load's own Prepare is both, so Views stand for containers.  Clients and random keys are
interchangeable and the run has no liveness, which makes its symmetry sound.

Four runs show a disagreement between the code and what it says of itself; each is a
finding with the lines quoted:

- **graph_stale**: a failed search marks nodes and later searches fail although there is a path.
- **store_reopen**: a store opened on a directory with dimgs has its edges reversed.
- **update_twice**: after a first update a lookup returns dimgs that do not build on each other.
- **tree_layer**: diffs of images packed by `PackLayer` leave out what is below directories.

With the constant Mixed set to TRUE dimg_tree violates `MergesSucceed`, too: with the encoding
"mixed" deltas of different plugins meet and the merge panics, as merge.go:149 intends.

What the passing runs show beyond that is worded so that these flaws do not hide the rest:
`NotFoundIsTrue` speaks of searches on reset nodes, `PlainUpdateApplies` of chains whose
entries are as `AddDimg` made them, `TagsAreKnown` and `EntriesHaveFiles` of stores that no
cleanup has torn, dimg_tree of `PackDir` and one plugin, `ReadsAreTrue` of a file whose Open has
not failed, and the properties of image_loads of ids that were not given back.

**Bounds that are properties.**  `SmallImageReturns` and `ShortChainReturns` say when a failing
merge comes back: as long as an image has at most one file more than a channel holds, and a
chain is shorter than 2^(tokens + 1).  Both are tight: with one more TLC finds the hang.
In the code that is 1001 files and, with four tokens, 32 dimgs.  The second takes each single merge
to come back, which is the subject of the first.  In UpdateServer both are `MayHang`: /update holds
`ds.lock` while it merges, so past these bounds one failed merge may keep every later update, cleanup and tag
waiting until the process ends.  `LockIsReleased` says that nothing else does, a crash aside.  `CallReturns` says the same
of a pack or a diff, whose channels hold 1000 and 10.

**Deadlock.**  Runs with CHECK_DEADLOCK FALSE are of systems that may stop: calls that
return or hang (merge_pipeline, bisect_merge, diffed_file), dimg_tree and delta_merge, whose
histories are bounded, and image_loads, where every client may hang in a mount or wait for a
transaction that is never ended.

**Fairness.**  Weak fairness for every goroutine, in MergePipeline, BisectMerge and DiffPipeline: the Go
runtime schedules what can go on, and a select whose case is ready is taken.  In
UpdateServer for the steps under `ds.lock` only, `UpdateMerge` among them: its goroutines either come to an end or
have come to the hang, which is one of its outcomes and after which no step is left to be fair to.
That a file operation or a write of the response returns is assumed there.  None for new requests, additions or failures of the walk (a walk that
waits for room does not fail instead), and none
in the other modules, which have safety properties only; that the walk back of a search
ends is stated as an invariant, `WalkBackEnds`: it comes to each node once.

## What is proved

TLAPS checks these for every value of the constants.

**DirectedGraphProofs**, under the assumptions of DirectedGraph and PathSearch on their constants: the search keeps its
types (`TypeCorrect`), its answers are paths (`AnswersArePaths`), no nil is
dereferenced (`NoNilDereferenced`), and a "not found" on reset nodes is true
(`NotFoundTrue`).  The invariant has to say what labels mean while they are being made,
because the properties speak of the end only.  `ParentsOK`: what this search has reached, its start
aside, hangs by an edge on a node this search has settled.  `ClosedOK`: everything that a
settled node points at has been reached, and no goal is settled.  `BackOK`: the part of the
answer already walked is a path to a goal.  `RestOK`: between searches a node that carries
a cost is done (`NothingLeftHalfDone`), which is why leftovers can hide a path and not
make one up.  `WalksBackEnd` has an invariant of its own, `WalkInv`: every set of nodes of
this search that is closed under prev holds the start (`Rooted`), because a node gets its
prev from a node that hung already.  The walk comes along prev (`Trail`); if it came round, the
circle would be a closed set without the start.  No order on the nodes is needed, which edges of no cost
would not give.

`SearchesImplementPathSearch` is the refinement (`AnswersAtOnce`).  A step of the loop maps to none of PathSearch, the
last one to its answer.  `CostInv` has what that needs: nodes are settled in the order of their
costs (`OrderOK`), a settled node's edges have all been looked at (`RelaxedOK`), a node costs what its
prev costs and the edge (`SumsOK`), and the goal of a walk back is a cheapest open node (`GoalOK`).  So any
route to a goal passes an open node, which costs no less than the goal (`RoutesAreDearer`), and the walk back
makes one of PathSearch's routes, at the goal's cost (`SearchFinds`).  A search that finds nothing has settled
what `Within` collects, no more because all of it hangs on the start (`Rooted`), and no less because
no edge leaves it (`SearchFails`).  Both of PathSearch's functions stop after as many steps as there are
links, and that this is enough is counting: until `Within` is closed each step takes in a link more, and
a route that comes to no node twice has no more links than there are.

**UpdateServerProofs**, for any images, any number of dimgs, posts and tags: types (`ServerTypes`),
`TaggedImagesAreKnown`, `FilesStay`, `HeadersStayTrue`, `PlainUpdatesApply`, from `ServerInvariance`.
`PostsInPlace` says what a post has done by the place where it is, so that a tag is set on an
image that is known; `PathsStay` is EntriesHaveFiles without the files that are still to be renamed.
For `PlainUpdateApplies` an update's reply has to be followed from the search on: a reply is
a connected route (lemmas about the two recursive functions of PathSearch) of edges of dimgs
(`LinksOfDimgs`), so the chain is a stack (`ChainIsStack`), what was read from the entries is true
(`GotHeadersAreTrue`), and a stack of plain dimgs composes from the bottom's parent to the
top's id.  `JobOfLock` ties the update to the lock: no other update takes its place.

**BisectMergeProofs**, for chains of any length and any number of tokens: types (`BisectTypes`),
`MergesAreLimited`, `HalvesAreMerged`, `WholeChainIsMerged`, from `BisectInvariance`.  The proofs begin
with the program that the caller's recursion unfolds to: for every task it waits for all that is
below before it launches (`Ordered`), and tasks are disjoint or nested (`Halved`).  Entries are shared:
a task writes to the entry of its upper half.  `ResultsKept` says that a result stays in its entry
until the task above is launched, and `Told` that what a goroutine merges is still there.  That
needs `LaunchedOnce`: whoever could overwrite it is over by then.  `Looping` is the same for
the linear method.  `Holders` counts the tokens.

**MergePipelineProofs**, with any number of goroutines, any capacity, any number of files:
types (`TypeCorrect`), `NothingLost`, `NeverSendsOnClosed`, `FailuresReported`.  The invariant
(`Invariance`) places each task: the channel holds the newest ones in order (`Queued`); a
taken task is with one goroutine, in writeTasks or written (`InPlace`, `Apart`), nowhere
else unless something failed (`Complete`); an offset and the body agree (`Placed`); and
`Control` relates the ends of the goroutines to the channels.  Without `Apart` a file could be
written twice, without `Complete` a clean return could have lost one.

**Di3fsNodeProofs**, with any number of goroutines and files, any capacity, both schedules:
types (`TypeCorrect`), `CleanWhole`, `ReadsTrue`.  Here no place has to be exclusive: what is made of a
file is the same whoever makes it, and a later piece of it moves its entry along.  `Complete` says
that unless something failed each file that was walked waits somewhere or is `Shown`, that is, its
entry leads to its own piece; `Kinds` that nothing is sent for a file that is the same,
so that a piece never belongs to an entry of that type; `Control` that without a failure a
goroutine ends only when what it takes from is closed and empty.

**ImageLoadsProofs**, with any number of clients, keys, images and ids: types (`TypeCorrect`),
`LayersStay` for LayersAreThere, `TransactionsAlwaysEnd` for TransactionsEnd.  The argument
rests on three facts.  One request at a time is inside of the write transaction (`Requests`), so
what it has found there is still so when it commits (`Foreseen`).  Ids grow until the daemon ends
(`IdsAreOld`, `Dirs`): a directory that no row names is of an old id, of one that was given
back, or of the request that is about to commit.  So what a sweep has listed is `Harmless`, and
stays it, because no later row gets an old id (`Pending`).  A step outside of the transaction
disturbs nothing as long as it removes only harmless directories (`OutsideStep`); one that ends it
without a row leaves nothing to foresee (`RowsStay`).  LayersAreThere alone is not inductive: it says
nothing of the list that a sweep carries out of its transaction.

On top of it `LoadsInvariance` has the loads, for `CommittedAreMounted` and `ListedAreLocal`.  A ticket
is a load's own: nobody else prepares under it (`TicketsApart`), and what the load has made
under it is there, mounted, unless it was removed (`Made`).  A mount is made outside of the transaction,
on an id that was read before; `OneTarget` and `IdsDistinct` say that it is still the same snapshot's,
or nobody's.  So a commit gives its name to a snapshot that shows the image
(`CommittedShow`).  `Accounted` is what ListedIsLocal lacks: while an image is listed and not
local, a load is under way that will either bring it or report that it could not.

**DimgTreeProofs**, for trees of any depth and width, any contents and any history of releases and merges: types
(`TreeTypes`), `NewStaysSelfContained`, `PatchMakesImage`, `MergesAlwaysSucceed` and `MountShowsImage`, from
`TreeInvariance`.  None of the properties is inductive: they speak of the newest version and of the
stack, and a merge joins dimgs whose versions no variable remembers.  `TreeInv` says that there
are such versions (`Versions`): a stack is a history from the newest version down to no files, and each dimg
`Leads` from the version below to its own.  That is: its entries have the metadata of the
version (`Describes`); a body makes the version's content of what the version below has at
the same path, which is there and a file if it is needed (`Provides`); and a directory is
DIR_NEW exactly if nothing below it needs a base (`DirsAreTrue`).  A diff leads from the old version to the new one
(`DiffLeads`), and a merge composes: if l leads from a to b and u from b to c, their merge leads
from a to c (`MergeLeads`).  `DirsUpdated` is the recursion of updateDirFileEntry, from the leaves to the root.  The
mount needs more, because it looks for the bases of a file by position: the entries from the
newest down to the first new one are in dimgs that follow each other (`FileRuns`), so the k-th
base entry is that of the k-th base image (`FirstOfMany`).  All of it is for
DirsHaveSize, that is, for PackDir, and the last two for one plugin: the theorems state these as hypotheses, and
`tree_layer` is the counterexample without the first.

**DeltaBlocksProofs**, for files of any length, any blocks and any number of versions: types (`DeltaTypes`),
`DeltasApply` and `MergesGoThrough`, from `DeltaInvariance`.  `DeltaInv` says that every delta `Leads` from its
version of the file to the next: its blocks tile the new file (`Tiles`), each says what is there
(`IsTrue`) and adds only to bytes that the old file has (`Fits`).  From that, what is written is read back
(`RoundTrip`, through the position that the controls carry along) and the bisection of GetBlock finds the block of
any position (`GetBlockFinds`).  `MergeInv` is the invariant of the two loops of mergeBlocks: the
blocks made so far tile what has been passed, the one being made is true as far as it goes (`Made`), and the
lower blocks at hand are those of the position.  It rules out every way out but the last,
and `Bound` the loops without end: a find, a merge and a leave for each byte are the most there can be.  So a merge of
deltas that lead from a to b and from b to c leads from a to c (`MergeBlocksIs`), and since the
blocks of a file determine it (`OnlyOne`), patching with it gives what patching twice gives.  What a diff may
say is external (`Shapes`): any blocks that are true.  Only the loops are code.

The library's theorems of induction take an operator as a parameter, which the provers cannot
instantiate.  The modules that need one open with inductions of their own, in which a property is the set of
what has it, so that induction over the numbers, or over any measure, is first-order.  `Recursion`
and `Iteration` there say that functions defined by recursion exist, which TLA+ does not give for free:
without them nothing follows from the definition of `Program` or `Within`.

The assumptions on the constants are named in the modules that declare them, and TLC evaluates them.
The proofs need that there are finitely many dimgs (a server has as many as it was sent), that
the missing parent Nil is not the name of an image, that a temporary file's name is not
a digest (os.CreateTemp in the code, against sha256 in hex), and that a ticket, which is random, is not the digest
of a dimg.  DimgTree's are that there are finitely many paths, each
of which ends at the root (it is a tree on a disk), that at most one content has no bytes, and that Nil is no body.

## What is only model-checked

Liveness (`LockIsReleased`, the returns of both merges and of a diff): ENABLED and fairness
are beyond the prover.  Every other property of a passing run is stated by a theorem.

## What is not modelled

The formats of dimg and cdimg files, JSON, zstd, tar and HTTP: pure input and output.  A
malformed file is not an input here.  Undefined behaviour of Go maps that are read
and written at once (store.go, cmd/snapshotter/fs.go) is listed as a hazard; in UpdateServer
and Snapshotter `Restart` covers the process that dies of it.  Stray goroutines of a failed chain that
touch entries after the server's lock is free are in BisectMerge, not in UpdateServer.

Of the snapshotter what only reads (Stat, Usage, Walk, Mounts), what nobody calls (Close), and
options that nobody sets (asyncRemove, noRestore, allowInvalidMountsOnRestart).  The snapshotter's `AddDimg` and
lookups are one step in Snapshotter; their own steps are UpdateServer's subject.  The content
store, where a load also writes its manifest and its config.  Of di3fs attributes, directory
listings and links; Release, which go-fuse never calls, because Open returns no handle.
fuse-diff's copy of di3fs.Do.  The plugins' own code, in cgo.  The
commands of ctr-cli, the registry client, the comparison of trees for statistics, utilities and
benchmarks keep no state that a property is about.

## The plan

The plan is done: every invariant of a passing run is proved, and so is the refinement.  What would come next is
Snapshotter's own readers (Stat, Usage, Walk), and a model of the registry's side of ctr-cli's push and pull.

Compositions: UpdateServer EXTENDS DimgStore, which EXTENDS PathSearch for its searches;
DirectedGraph INSTANCEs PathSearch and shows that the real search implements it.  BisectMerge and MergePipeline are the
inside of UpdateServer's `UpdateMerge`; DimgTree is what one merge task computes, and DeltaBlocks what
it does to two deltas of a file.  Di3fsNode EXTENDS DiffPipeline and reads what it wrote; ImageLoads
EXTENDS Snapshotter and is its environment.
