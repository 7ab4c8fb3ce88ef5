------------------------------- MODULE DimgTree -------------------------------
(***************************************************************************)
(* What the dimg files of pkg/image say about a file tree: an image is      *)
(* packed (pack.go), a new version becomes a diff against the old one       *)
(* (diff.go), two neighbours of a stack are merged (merge.go), and a stack  *)
(* of dimgs is read, by the mount (pkg/di3fs) or by ApplyPatch (patch.go).  *)
(* One step is one run of such an operation; its threads, which work on one *)
(* file each, are in MergePipeline.  A content is a model value; a delta    *)
(* between two contents turns the one into the other and nothing else.      *)
(***************************************************************************)
EXTENDS Integers, Sequences, FiniteSets

CONSTANTS
  Paths,          \* the paths below the root directory
  Root,           \* the root directory
  Up,             \* Up[p] is the directory of p
  Contents,       \* what a file may contain
  Size,           \* Size[c], in bytes
  Modes,          \* file modes
  Choices,        \* Choices[p]: the nodes that a version may have at p
  DirsHaveSize,   \* a directory's Size: not 0 with PackDir, 0 with PackLayer
  Mixed,          \* DeltaEncoding is "mixed": the plugin depends on the size
  MaxLayers,      \* a bound on the stack
  Nil

Node == [kind : {"dir", "symlink"}, content : {Nil}, mode : Modes]
        \cup [kind : {"file"}, content : Contents, mode : Modes]

ASSUME TreeAssumption ==
  /\ Root \notin Paths /\ Up \in [Paths -> Paths \cup {Root}]
  /\ Nil \notin Contents /\ \A b \in Contents \cup {Nil}, c \in Contents : Nil # [from |-> b, to |-> c]
  /\ Size \in [Contents -> Nat]
  /\ \A c, d \in Contents : Size[c] = 0 /\ Size[d] = 0 => c = d
  /\ Choices \in [Paths -> SUBSET Node]
  /\ IsFiniteSet(Paths)    \* and every path ends at the root
  /\ \E depth \in [Paths -> 0..Cardinality(Paths)] :
       \A p \in Paths : Up[p] # Root => depth[Up[p]] < depth[p]
  /\ DirsHaveSize \in BOOLEAN /\ Mixed \in BOOLEAN /\ MaxLayers \in Nat

VARIABLES
  image,    \* the newest version: a node for each path that there is
  stack,    \* the dimgs that make it up, newest first: a FileEntry for each path
  failed    \* a merge reported an error or panicked

vars == <<image, stack, failed>>

\* The trees: what is not at the root is in a directory.
Images ==
  {t \in UNION {[ps -> UNION {Choices[p] : p \in ps}] : ps \in SUBSET Paths} :
     \A p \in DOMAIN t : /\ t[p] \in Choices[p]
                         /\ Up[p] # Root => Up[p] \in DOMAIN t /\ t[Up[p]].kind = "dir"}
------------------------------------------------------------------------------
(* File entries.  body is what the dimg's body holds at the entry's Offset. *)

Full(c) == [from |-> Nil, to |-> c]
Delta(b, c) == [from |-> b, to |-> c]

IsDir(e) == e.type \in {"dir", "dir_new"}
IsNew(e) == e.type \in {"file_new", "dir_new", "symlink"}
IsFile(e) == e.type \in {"file_new", "file_same", "file_diff"}
HasBody(e) == e.type \in {"file_new", "file_diff"}
IsBaseRequired(e) == e.type \in {"file_same", "file_diff"}

DigestOf(mode, c) == <<mode, c>>

AtOrAbove[p \in Paths] == {p} \cup IF Up[p] = Root THEN {} ELSE AtOrAbove[Up[p]]

\* Anything that is not the content asked for.
Garbage == "garbage"

\* A file of no bytes is read as no bytes, whatever is at its Offset.
ReadFull(e) ==
  IF e.size = 0 THEN CHOOSE c \in Contents : Size[c] = 0
  ELSE IF e.body # Nil /\ e.body.from = Nil THEN e.body.to ELSE Garbage

Patched(data, e, plugin) ==
  IF e.body # Nil /\ e.body.from = data /\ e.plugin = plugin THEN e.body.to ELSE Garbage

\* Mutant: directories stay what the packer made them.
UpdateNothing(tree) == tree

\* A directory is DIR_NEW when nothing below it needs another image.
UpdateDirs(tree) ==
  LET New[p \in Paths] == IF ~IsDir(tree[p]) THEN IsNew(tree[p])
                          ELSE \A q \in DOMAIN tree : Up[q] = p => New[q]
  IN [p \in DOMAIN tree |->
        IF ~IsDir(tree[p]) THEN tree[p]
        ELSE [tree[p] EXCEPT !.type = IF New[p] THEN "dir_new" ELSE "dir"]]
------------------------------------------------------------------------------
(* Packing and diffing *)

TypeOfKind == [dir |-> "dir_new", symlink |-> "symlink", file |-> "file_new"]

Pack(t) ==
  [p \in DOMAIN t |->
     LET n == t[p] IN
     [type |-> TypeOfKind[n.kind],
      size |-> IF n.kind = "file" THEN Size[n.content]
               ELSE IF n.kind = "dir" /\ DirsHaveSize THEN 1 ELSE 0,
      mode |-> n.mode,
      digest |-> DigestOf(n.mode, n.content),
      plugin |-> Nil,
      body |-> IF n.kind = "file" THEN Full(n.content) ELSE Nil]]

\* enqueueDiffTaskToQueue stops at an entry of no bytes.
Skipped(new, p) == \E a \in AtOrAbove[p] : new[a].size = 0

\* It goes on without the old entry where there is none or one of another type.
Fresh(old, new, p) ==
  \E a \in AtOrAbove[p] : a \notin DOMAIN old \/ old[a].type # new[a].type

PluginOf(c) == IF Mixed /\ Size[c] > 1 THEN "xdelta3" ELSE "bsdiffx"

\* Mutant: the data of a file that did not change is kept.
DiffFileKeeps(o, n, binary) ==
  IF o.body.to = n.body.to THEN [n EXCEPT !.type = "file_same"]
  ELSE IF Size[o.body.to] > 0 /\ binary
  THEN [n EXCEPT !.type = "file_diff", !.plugin = PluginOf(n.body.to),
                 !.body = Delta(o.body.to, n.body.to)]
  ELSE n

\* The task for a file with an old and a new entry.
DiffFile(o, n, binary) ==
  LET b == o.body.to
      c == n.body.to
  IN IF b = c THEN [n EXCEPT !.type = "file_same", !.body = Nil]
     ELSE IF Size[b] > 0 /\ binary
     THEN [n EXCEPT !.type = "file_diff", !.plugin = PluginOf(c), !.body = Delta(b, c)]
     ELSE n

\* generateDiffMultithread: what no task copies is not in the body of the diff.
Diff(old, new, binary) ==
  UpdateDirs([p \in DOMAIN new |->
    CASE ~IsFile(new[p]) -> new[p]
      [] IsFile(new[p]) /\ Skipped(new, p) -> [new[p] EXCEPT !.body = Nil]
      [] OTHER -> IF Fresh(old, new, p) THEN new[p] ELSE DiffFile(old[p], new[p], binary)])
------------------------------------------------------------------------------
(* Merging *)

\* enqueueMergeTaskToQueue reports an error, or dereferences the nil lower entry
\* of what is below a DIR_NEW.
Orphan(lower, upper, p) ==
  /\ ~IsNew(upper[p])
  /\ \/ \E a \in AtOrAbove[p] \ {p} : upper[a].type = "dir_new"
     \/ p \notin DOMAIN lower
     \/ upper[p].type = "dir" /\ ~IsDir(lower[p])
     \/ IsFile(upper[p]) /\ ~IsFile(lower[p])

\* Mutant: the lower entry comes with its own metadata.
CopyLowerAsIs(l, u) == l

\* The lower entry takes the place of an upper FILE_SAME, with its metadata.
CopyLower(l, u) == [l EXCEPT !.mode = u.mode, !.digest = u.digest]

\* The plugins of two deltas must match, or the merge panics.
Unmatched(l, u) ==
  l.type = "file_diff" /\ u.type = "file_diff" /\ l.plugin # u.plugin

\* Mutants: an applied delta is still called a delta; it is called a new file, but
\* the delta is written.
AppliedIsDelta(l, u) == [u EXCEPT !.body = [from |-> l.body.from, to |-> u.body.to]]
AppliedKeepsDelta(l, u) ==
  IF l.type = "file_new" THEN [u EXCEPT !.type = "file_new"]
  ELSE [u EXCEPT !.body = Delta(l.body.from, u.body.to)]

\* A task with both entries: the delta is applied, or the deltas are merged.
MergeFile(l, u) ==
  LET joins == l.body # Nil /\ u.body # Nil /\ l.body.to = u.body.from
      made == IF joins THEN u.body.to ELSE Garbage
  IN IF l.type = "file_new"
     THEN [u EXCEPT !.type = "file_new", !.body = Full(made)]
     ELSE [u EXCEPT !.body = Delta(l.body.from, made)]

MergeFails(lower, upper) ==
  \E p \in DOMAIN upper : \/ Orphan(lower, upper, p)
                          \/ IsBaseRequired(upper[p]) /\ Unmatched(lower[p], upper[p])

Merge(lower, upper) ==
  UpdateDirs([p \in DOMAIN upper |->
    IF IsBaseRequired(upper[p]) /\ HasBody(lower[p])
    THEN IF upper[p].type = "file_same" THEN CopyLower(lower[p], upper[p])
                                        ELSE MergeFile(lower[p], upper[p])
    ELSE upper[p]])
------------------------------------------------------------------------------
(* Reading: di3fs mounts the first dimg of a stack over the others. *)

\* OnAdd collects the entries of p in the base images that have one: the base
\* images they come from, first to last.
BaseMeta(dimgs, p) ==
  LET has == {i \in 2..Len(dimgs) : p \in DOMAIN dimgs[i]}
  IN [k \in 1..Cardinality(has) |-> CHOOSE i \in has : Cardinality({j \in has : j <= i}) = k]

\* The plugin of the first delta is the plugin of the node.
PluginAt(dimgs, p) ==
  LET all == <<1>> \o BaseMeta(dimgs, p)
      deltas == {k \in DOMAIN all : dimgs[all[k]][p].type = "file_diff"}
  IN IF deltas = {} THEN Nil
     ELSE dimgs[all[CHOOSE k \in deltas : \A j \in deltas : k <= j]][p].plugin

\* readBaseFiles takes the k-th entry for that of the k-th base image.  It patches the
\* first new file with the deltas above it: From[j] is j entries above.
ReadBase(dimgs, p) ==
  LET metas == BaseMeta(dimgs, p)
      Meta(k) == IF metas[k] = k + 1 THEN dimgs[k + 1][p]
                 ELSE [dimgs[metas[k]][p] EXCEPT !.body = Nil]
      new == {k \in DOMAIN metas : IsNew(Meta(k))}
      first == CHOOSE k \in new : \A j \in new : k <= j
      From[j \in 0..first - 1] ==
        IF j = 0 THEN ReadFull(Meta(first))
        ELSE IF Meta(first - j).type = "file_same" THEN From[j - 1]
        ELSE Patched(From[j - 1], Meta(first - j), PluginAt(dimgs, p))
  IN IF new = {} THEN Garbage ELSE From[first - 1]

\* openFileInImage: the content of p, or Nil if it does not verify.
ReadFile(dimgs, p) ==
  LET e == dimgs[1][p]
      data == CASE e.type = "file_new" -> ReadFull(e)
                [] e.type = "file_same" -> ReadBase(dimgs, p)
                [] e.type = "file_diff" -> Patched(ReadBase(dimgs, p), e, PluginAt(dimgs, p))
  IN IF DigestOf(e.mode, data) = e.digest THEN data ELSE Nil
------------------------------------------------------------------------------
(* Reading: ApplyPatch writes the tree of a dimg beside the tree it needs. *)

\* The file at p, made from the files of the base directory.
PatchFile(e, base, p) ==
  LET old == IF p \in DOMAIN base THEN base[p] ELSE Nil
      data == CASE e.type = "file_new" -> ReadFull(e)
                [] e.type = "file_same" -> old
                [] e.type = "file_diff" -> Patched(old, e, e.plugin)
  IN IF DigestOf(e.mode, data) = e.digest THEN data ELSE Nil

ApplyPatch(dimg, base) ==
  [p \in {q \in DOMAIN dimg : IsFile(dimg[q])} |-> PatchFile(dimg[p], base, p)]

\* A stack is patched from its last dimg to its first.
PatchStack(dimgs) ==
  LET n == Len(dimgs)
      Made[k \in 1..n] == ApplyPatch(dimgs[k], IF k = n THEN <<>> ELSE Made[k + 1])
  IN Made[1]
------------------------------------------------------------------------------
Init ==
  /\ image \in Images
  /\ stack = <<Pack(image)>>
  /\ failed = FALSE

\* A new version is packed and its diff goes on top.
Release(t, binary) ==
  /\ Len(stack) < MaxLayers
  /\ image' = t
  /\ stack' = <<Diff(Pack(image), Pack(t), binary)>> \o stack
  /\ UNCHANGED failed

\* MergeDimg on the neighbours i (upper) and i + 1 (lower).
MergeDimg(i) ==
  /\ i < Len(stack)
  /\ IF MergeFails(stack[i + 1], stack[i])
     THEN failed' = TRUE /\ UNCHANGED stack
     ELSE /\ stack' = SubSeq(stack, 1, i - 1) \o <<Merge(stack[i + 1], stack[i])>>
                      \o SubSeq(stack, i + 2, Len(stack))
          /\ UNCHANGED failed
  /\ UNCHANGED image

Next ==
  \/ \E t \in Images, binary \in BOOLEAN : Release(t, binary)
  \/ \E i \in 1..MaxLayers : MergeDimg(i)

Spec == Init /\ [][Next]_vars
------------------------------------------------------------------------------
Bodies == {Nil} \cup {Full(c) : c \in Contents} \cup {Delta(b, c) : b, c \in Contents}

TypeOK ==
  /\ image \in Images
  /\ \A i \in DOMAIN stack : \A p \in DOMAIN stack[i] :
       LET e == stack[i][p] IN
       /\ IsDir(e) \/ IsFile(e) \/ e.type = "symlink"
       /\ e.mode \in Modes /\ e.plugin \in {Nil, "bsdiffx", "xdelta3"}
       /\ e.body \in Bodies /\ (e.body # Nil => HasBody(e))
  /\ failed \in BOOLEAN

\* The mount shows the newest version: its tree, its metadata and its contents,
\* whichever dimgs of the stack have been merged.
MountIsImage ==
  /\ DOMAIN stack[1] = DOMAIN image
  /\ \A p \in DOMAIN image :
       LET e == stack[1][p]
           n == image[p]
       IN /\ e.mode = n.mode
          /\ n.kind = "dir" <=> IsDir(e)
          /\ n.kind = "symlink" <=> e.type = "symlink"
          /\ n.kind = "file" => ReadFile(stack, p) = n.content

\* Patching dimg by dimg, without a mount, makes the same contents.
PatchIsImage ==
  PatchStack(stack) = [p \in {q \in DOMAIN image : image[q].kind = "file"} |-> image[p].content]

\* Neighbours of a stack can be merged: nothing in the upper one refers to what
\* the lower one does not have.
MergesSucceed == ~failed

\* "IsNew() represents this file entry does not depend on any other images"
\* (fs.go:133): a new file's data is in the dimg's own body, and nothing below a
\* new directory needs a base.
NewIsSelfContained ==
  \A i \in DOMAIN stack : \A p \in DOMAIN stack[i] :
    LET e == stack[i][p] IN
    /\ e.type = "file_new" /\ e.size > 0 => e.body # Nil /\ e.body.from = Nil
    /\ (\E a \in AtOrAbove[p] : stack[i][a].type = "dir_new") => IsNew(e)
==============================================================================
