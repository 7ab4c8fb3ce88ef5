------------------------------ MODULE DimgStore ------------------------------
(***************************************************************************)
(* The image store of pkg/image/store.go: a directory of dimg files, the    *)
(* graph of which image each of them makes from which, and the entries by   *)
(* digest.  A dimg file is a delta: it makes image IdOf[d] from image       *)
(* ParentOf[d], or from nothing when that is Base.  Every operation holds   *)
(* storeLock throughout, so it is one step here; UpdateServer, which looks  *)
(* up without the lock, takes AddDimg apart.                                *)
(***************************************************************************)
EXTENDS PathSearch

CONSTANTS
  Digests,    \* the dimg files, by digest; also the names of the edges
  Base,       \* the empty image id, ""
  IdOf,       \* the Id field of each dimg's header
  ParentOf    \* the ParentId field of each dimg's header

ASSUME DigestsAssumption ==
  /\ Digests \subseteq EdgeNames /\ 1 \in Costs
  /\ IsFiniteSet(Digests) /\ Nil \notin Names
  /\ Base \in Names
  /\ IdOf \in [Digests -> Names \ {Base}]
  /\ ParentOf \in [Digests -> Names]

VARIABLES
  files,     \* the files in storeDir; the dimg d is stored in file d
  entries    \* dimgDigests: digest -> DimgEntry, where there is one

store == <<nodes, links, marked, entries>>

\* A DimgEntry: the header, what the content really is (a delta from body[1] to
\* body[2]), and the path of the file.
EntryAt(d, path) == [id |-> IdOf[d], parent |-> ParentOf[d],
                     body |-> <<ParentOf[d], IdOf[d]>>, path |-> path]
EntryOf(d) == EntryAt(d, d)

\* The edge AddDimg adds leads from Id to ParentId; the one Walk adds, from
\* ParentId to Id.
AddedLink(d) == [src |-> IdOf[d], name |-> d, next |-> ParentOf[d], cost |-> 1]
WalkedLink(d) == [src |-> ParentOf[d], name |-> d, next |-> IdOf[d], cost |-> 1]

Put(f, k, v) == [x \in DOMAIN f \cup {k} |-> IF x = k THEN v ELSE f[x]]

InitStore == /\ Init
             /\ files = {}
             /\ entries = <<>>
------------------------------------------------------------------------------
\* The file is renamed into the directory and registered.
AddDimg(d) ==
  /\ answer = Nil
  /\ files' = files \cup {d}
  /\ AddLink(AddedLink(d))
  /\ entries' = Put(entries, d, EntryOf(d))
  /\ UNCHANGED <<marked, answer>>

\* The entries a route stands for, or the error that one of them is missing.
Resolve(reply, es) ==
  IF reply.kind = "path" /\ \E i \in DOMAIN reply.route : reply.route[i].name \notin DOMAIN es
  THEN [kind |-> "no entry", route |-> <<>>]
  ELSE reply

GetDimgEntriesWithDimgIds(id, goals) ==
  /\ answer = Nil
  /\ \E reply \in Replies(nodes, links, marked, id, goals) :
       answer' = Resolve(reply[1], entries) /\ marked' = reply[2]
  /\ UNCHANGED <<nodes, links, files, entries>>

GetDimgPathsWithDimgId(id) == GetDimgEntriesWithDimgIds(id, {Base})

TakeAnswer == Take /\ UNCHANGED <<files, entries>>

\* NewDimgStore on a directory that may hold files: Walk builds a new graph.
NewDimgStore ==
  /\ answer = Nil
  /\ links' = {WalkedLink(d) : d \in files}
  /\ nodes' = UNION {{IdOf[d], ParentOf[d]} : d \in files}
  /\ marked' = {}
  /\ entries' = [d \in files |-> EntryOf(d)]
  /\ UNCHANGED <<files, answer>>

NextStore ==
  \/ \E d \in Digests : AddDimg(d)
  \/ \E id \in Names \ {Base} : GetDimgPathsWithDimgId(id)
  \/ TakeAnswer
  \/ NewDimgStore

StoreSpec == InitStore /\ [][NextStore]_<<store, files, answer>>
------------------------------------------------------------------------------
\* The digests of the dimgs an answer names, top first.
Chain == [i \in DOMAIN answer.route |-> answer.route[i].name]

\* The dimgs build on each other: each one's parent is the next one's image.
BuildsOn(c) == \A i \in 1..Len(c) - 1 : ParentOf[c[i]] = IdOf[c[i + 1]]

\* "string[0] == top, string[1] == layer(parentId top.Id)" (store.go:117-118):
\* what a lookup returns is a stack of dimgs on the base.  Not so once a store
\* has been opened on a directory with files in it.
LookupIsStack ==
  answer # Nil /\ answer.kind = "path" =>
    /\ BuildsOn(Chain)
    /\ Len(Chain) > 0 => ParentOf[Chain[Len(Chain)]] = Base
==============================================================================
