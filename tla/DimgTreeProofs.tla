---------------------------- MODULE DimgTreeProofs ----------------------------
(***************************************************************************)
(* Proofs about DimgTree, for trees of any depth and width, any contents    *)
(* and any history of releases and merges.                                  *)
(***************************************************************************)
EXTENDS DimgTree, TLAPS, WellFoundedInduction, FiniteSetTheorems, SequenceTheorems

------------------------------------------------------------------------------
(* Inductions *)

\* A set of natural numbers that is not empty has a least element.
LEMMA LeastNatural ==
  ASSUME NEW T, T \subseteq Nat, T # {}
  PROVE  \E m \in T : \A n \in T : m <= n
<1> DEFINE R == OpToRel(<, Nat)
<1>1. \A x, y \in T : <<y, x>> \in R <=> y < x
  BY DEF OpToRel
<1>2. \E x \in T : \A y \in T : ~ (<<y, x>> \in R)
  BY NatLessThanWellFounded, WFMin, Zenon
<1> HIDE DEF R
<1>3. \E x \in T : \A y \in T : ~(y < x)
  BY <1>1, <1>2
<1> QED
  BY ONLY <1>3, T \subseteq Nat

\* What holds of 0, and of n + 1 when it holds of n, holds of every number.
LEMMA SetInduction ==
  ASSUME NEW S, 0 \in S, \A n \in Nat : n \in S => n + 1 \in S
  PROVE  Nat \subseteq S
<1> SUFFICES ASSUME Nat \ S # {} PROVE FALSE
  OBVIOUS
<1>1. PICK m \in Nat \ S : \A n \in Nat \ S : m <= n
  BY LeastNatural
<1>2. m # 0 /\ m - 1 \in Nat /\ m - 1 \in S
  BY <1>1
<1> QED
  BY <1>1, <1>2

\* What holds of a value when it holds of all that are smaller, by some measure m,
\* holds of every value.
LEMMA MeasureInduction ==
  ASSUME NEW D, NEW m \in [D -> Nat], NEW P,
         \A x \in D : (\A y \in D : m[y] < m[x] => y \in P) => x \in P
  PROVE  D \subseteq P
<1> SUFFICES ASSUME D \ P # {} PROVE FALSE
  OBVIOUS
<1> DEFINE T == {m[x] : x \in D \ P}
<1>1. T \subseteq Nat /\ T # {}
  OBVIOUS
<1>2. PICK k \in T : \A n \in T : k <= n
  <2> HIDE DEF T
  <2> QED
    BY <1>1, LeastNatural
<1>3. PICK x \in D \ P : k = m[x]
  OBVIOUS
<1>4. ASSUME NEW y \in D, m[y] < m[x] PROVE y \in P
  <2> SUFFICES ASSUME y \notin P PROVE FALSE
    OBVIOUS
  <2>1. m[x] <= m[y]
    BY <1>2, <1>3
  <2> QED
    BY <1>4, <2>1
<1> QED
  BY <1>4

\* A function that is given by its values at smaller arguments, by some measure m.
Recurses(G, D, V, m) ==
  \A f, g \in [D -> V], x \in D :
    (\A y \in D : m[y] < m[x] => f[y] = g[y]) => G[<<f, x>>] = G[<<g, x>>]

Solves(f, D, V, G) == f \in [D -> V] /\ \A x \in D : f[x] = G[<<f, x>>]

\* There is one when the measure is bounded.
LEMMA Recursion ==
  ASSUME NEW D, NEW V, V # {}, NEW m \in [D -> Nat],
         NEW b \in Nat, \A x \in D : m[x] <= b,
         NEW G \in [[D -> V] \X D -> V], Recurses(G, D, V, m)
  PROVE  \E f : Solves(f, D, V, G)
<1> DEFINE S == {k \in Nat : \E f \in [D -> V] : \A x \in D : m[x] < k => f[x] = G[<<f, x>>]}
<1>1. 0 \in S
  <2>1. PICK v \in V : TRUE
    OBVIOUS
  <2>2. [x \in D |-> v] \in [D -> V]
    OBVIOUS
  <2>3. \A x \in D : ~(m[x] < 0)
    OBVIOUS
  <2> QED
    BY <2>2, <2>3
<1>2. ASSUME NEW k \in Nat, k \in S PROVE k + 1 \in S
  <2>1. PICK f \in [D -> V] : \A x \in D : m[x] < k => f[x] = G[<<f, x>>]
    BY <1>2
  <2> DEFINE g == [x \in D |-> G[<<f, x>>]]
  <2>2. g \in [D -> V]
    OBVIOUS
  <2>3. ASSUME NEW x \in D, m[x] < k + 1 PROVE g[x] = G[<<g, x>>]
    <3>1. ASSUME NEW y \in D, m[y] < m[x] PROVE f[y] = g[y]
      <4>1. m[y] < k
        BY <2>3, <3>1
      <4> QED
        BY <2>1, <4>1
    <3>2. G[<<f, x>>] = G[<<g, x>>]
      <4> HIDE DEF g
      <4> QED
        BY <2>2, <3>1 DEF Recurses
    <3> QED
      BY <3>2
  <2> HIDE DEF g
  <2> QED
    BY <2>2, <2>3
<1>3. b + 1 \in S
  <2> HIDE DEF S
  <2> QED
    BY <1>1, <1>2, SetInduction
<1>4. PICK f \in [D -> V] : \A x \in D : m[x] < b + 1 => f[x] = G[<<f, x>>]
  BY <1>3
<1>5. \A x \in D : m[x] < b + 1
  OBVIOUS
<1> QED
  BY <1>4, <1>5 DEF Solves
------------------------------------------------------------------------------
(* What a dimg says: d leads from the version a to the version c. *)

Types == {"dir", "dir_new", "symlink", "file_new", "file_same", "file_diff"}
Plugins == {"bsdiffx", "xdelta3"}
Entry == [type : Types, size : Nat, mode : Modes, digest : Modes \X (Contents \cup {Nil}),
          plugin : Plugins \cup {Nil}, body : Bodies]
Dimg == UNION {[S -> Entry] : S \in SUBSET Paths}

\* An entry has the metadata of a node.
Describes(e, n) ==
  /\ e.mode = n.mode /\ e.digest = DigestOf(n.mode, n.content)
  /\ n.kind = "dir" <=> IsDir(e)
  /\ n.kind = "symlink" <=> e.type = "symlink"
  /\ n.kind = "file" => e.size = Size[n.content]

\* Its body makes the node's content, of what the version a has at p where it needs it.
Provides(e, n, a, p) ==
  /\ e.type = "file_new" => e.body = Full(n.content) \/ (e.size = 0 /\ e.body = Nil)
  /\ IsBaseRequired(e) => p \in DOMAIN a /\ a[p].kind = "file"
  /\ e.type = "file_same" => a[p].content = n.content
  /\ e.type = "file_diff" => /\ e.body = Delta(a[p].content, n.content)
                             /\ Size[a[p].content] > 0 /\ e.plugin \in Plugins
                             /\ ~Mixed => e.plugin = "bsdiffx"
  /\ ~HasBody(e) => e.body = Nil

Follows(d, a, c) ==
  /\ d \in Dimg /\ DOMAIN d = DOMAIN c
  /\ \A p \in DOMAIN c : Describes(d[p], c[p]) /\ Provides(d[p], c[p], a, p)

\* No entry at or below p needs another image.
NeedsNoBase(d, p) == \A q \in DOMAIN d : p \in AtOrAbove[q] => ~IsBaseRequired(d[q])

DirsAreTrue(d) ==
  \A p \in DOMAIN d : IsDir(d[p]) => (d[p].type = "dir_new" <=> NeedsNoBase(d, p))

Leads(d, a, c) == Follows(d, a, c) /\ DirsAreTrue(d)

\* The versions that the dimgs of a stack lead to, newest first, down to no files.
Versions(vs, dimgs, newest) ==
  /\ vs \in [1..Len(dimgs) + 1 -> Images]
  /\ vs[1] = newest /\ vs[Len(dimgs) + 1] = <<>>
  /\ \A i \in 1..Len(dimgs) : Leads(dimgs[i], vs[i + 1], vs[i])

\* The inductive invariant.
TreeInv ==
  /\ stack \in Seq(Dimg) /\ stack # <<>>
  /\ failed \in BOOLEAN /\ (~Mixed => ~failed)
  /\ \E vs : Versions(vs, stack, image)
------------------------------------------------------------------------------
(* Paths *)

\* Every path has a depth, and its directory a smaller one.
LEMMA PathsEnd ==
  \E b \in Nat, depth \in [Paths -> Nat] :
    /\ \A p \in Paths : depth[p] <= b
    /\ \A p \in Paths : Up[p] # Root => Up[p] \in Paths /\ depth[Up[p]] < depth[p]
<1> DEFINE b == Cardinality(Paths)
<1>1. b \in Nat
  BY TreeAssumption, FS_CardinalityType
<1>2. PICK depth \in [Paths -> 0..b] : \A p \in Paths : Up[p] # Root => depth[Up[p]] < depth[p]
  BY TreeAssumption
<1>3. \A p \in Paths : Up[p] # Root => Up[p] \in Paths
  BY TreeAssumption
<1> HIDE DEF b
<1>4. depth \in [Paths -> Nat] /\ \A p \in Paths : depth[p] <= b
  BY <1>1, <1>2
<1> QED
  BY <1>1, <1>2, <1>3, <1>4

\* What holds of a path when it holds of its directory holds of all paths.
LEMMA FromTheRoot ==
  ASSUME NEW P, \A p \in Paths : (Up[p] # Root => Up[p] \in P) => p \in P
  PROVE  Paths \subseteq P
<1>1. PICK b \in Nat, depth \in [Paths -> Nat] :
        \A p \in Paths : Up[p] # Root => Up[p] \in Paths /\ depth[Up[p]] < depth[p]
  BY PathsEnd
<1>2. \A p \in Paths : (\A q \in Paths : depth[q] < depth[p] => q \in P) => p \in P
  BY <1>1
<1> QED
  BY <1>1, <1>2, MeasureInduction

\* What holds of a path when it holds of all that is directly below it holds of all paths.
LEMMA FromTheLeaves ==
  ASSUME NEW P, \A p \in Paths : (\A q \in Paths : Up[q] = p => q \in P) => p \in P
  PROVE  Paths \subseteq P
<1>1. PICK b \in Nat, depth \in [Paths -> Nat] :
        /\ \A p \in Paths : depth[p] <= b
        /\ \A p \in Paths : Up[p] # Root => Up[p] \in Paths /\ depth[Up[p]] < depth[p]
  BY PathsEnd
<1> DEFINE height == [p \in Paths |-> b - depth[p]]
<1>2. height \in [Paths -> Nat]
  BY <1>1
<1>3. \A p \in Paths : (\A q \in Paths : height[q] < height[p] => q \in P) => p \in P
  <2>1. \A p, q \in Paths : Up[q] = p => height[q] < height[p]
    <3> SUFFICES ASSUME NEW p \in Paths, NEW q \in Paths, Up[q] = p
                 PROVE  height[q] < height[p]
      OBVIOUS
    <3>1. depth[p] < depth[q]
      BY <1>1, TreeAssumption
    <3> QED
      BY <1>1, <3>1
  <2> HIDE DEF height
  <2> QED
    BY <2>1
<1> HIDE DEF height
<1> QED
  BY ONLY <1>2, <1>3, MeasureInduction

\* AtOrAbove is what its recursion says.
LEMMA AboveIs ==
  /\ AtOrAbove \in [Paths -> SUBSET Paths]
  /\ \A p \in Paths : AtOrAbove[p] = {p} \cup IF Up[p] = Root THEN {} ELSE AtOrAbove[Up[p]]
<1>1. PICK b \in Nat, depth \in [Paths -> Nat] :
        /\ \A p \in Paths : depth[p] <= b
        /\ \A p \in Paths : Up[p] # Root => Up[p] \in Paths /\ depth[Up[p]] < depth[p]
  BY PathsEnd
<1> DEFINE V == SUBSET Paths
           G == [w \in [Paths -> V] \X Paths |->
                   {w[2]} \cup IF Up[w[2]] = Root THEN {} ELSE w[1][Up[w[2]]]]
<1>2. G \in [[Paths -> V] \X Paths -> V]
  BY <1>1
<1>3. \A f \in [Paths -> V], p \in Paths :
        G[<<f, p>>] = {p} \cup IF Up[p] = Root THEN {} ELSE f[Up[p]]
  OBVIOUS
<1> HIDE DEF G
<1>4. Recurses(G, Paths, V, depth)
  <2> SUFFICES ASSUME NEW f \in [Paths -> V], NEW g \in [Paths -> V], NEW p \in Paths,
                      \A q \in Paths : depth[q] < depth[p] => f[q] = g[q]
               PROVE  G[<<f, p>>] = G[<<g, p>>]
    BY DEF Recurses
  <2>1. Up[p] # Root => f[Up[p]] = g[Up[p]]
    BY <1>1
  <2>2. (IF Up[p] = Root THEN {} ELSE f[Up[p]]) = IF Up[p] = Root THEN {} ELSE g[Up[p]]
    BY <2>1
  <2>3. /\ G[<<f, p>>] = {p} \cup IF Up[p] = Root THEN {} ELSE f[Up[p]]
        /\ G[<<g, p>>] = {p} \cup IF Up[p] = Root THEN {} ELSE g[Up[p]]
    BY <1>3
  <2> QED
    BY <2>2, <2>3
<1>5. V # {}
  OBVIOUS
<1> HIDE DEF V
<1>6. PICK f : Solves(f, Paths, V, G)
  BY <1>1, <1>2, <1>4, <1>5, Recursion
<1>7. f = [p \in Paths |-> {p} \cup IF Up[p] = Root THEN {} ELSE f[Up[p]]]
  <2>1. f \in [Paths -> V] /\ \A p \in Paths : f[p] = G[<<f, p>>]
    BY <1>6 DEF Solves
  <2>2. \A p \in Paths : f[p] = {p} \cup IF Up[p] = Root THEN {} ELSE f[Up[p]]
    BY <1>3, <2>1
  <2>3. f = [p \in Paths |-> f[p]]
    BY <2>1
  <2> QED
    BY <2>2, <2>3
<1>8. AtOrAbove = [p \in Paths |-> {p} \cup IF Up[p] = Root THEN {} ELSE AtOrAbove[Up[p]]]
  BY <1>7 DEF AtOrAbove
<1>9. \A p \in Paths : AtOrAbove[p] = {p} \cup IF Up[p] = Root THEN {} ELSE AtOrAbove[Up[p]]
  BY <1>8
<1> DEFINE P == {p \in Paths : AtOrAbove[p] \subseteq Paths}
<1>10. \A p \in Paths : (Up[p] # Root => Up[p] \in P) => p \in P
  BY <1>9
<1>11. Paths \subseteq P
  <2> HIDE DEF P
  <2> QED
    BY <1>10, FromTheRoot
<1> QED
  BY <1>8, <1>9, <1>11

\* A path is at itself, and what is above its directory is above it.
LEMMA AboveTheNext ==
  ASSUME NEW p \in Paths
  PROVE  /\ p \in AtOrAbove[p] /\ AtOrAbove[p] \subseteq Paths
         /\ Up[p] # Root => Up[p] \in Paths /\ AtOrAbove[p] = {p} \cup AtOrAbove[Up[p]]
         /\ Up[p] = Root => AtOrAbove[p] = {p}
BY AboveIs, TreeAssumption

\* What is above what is above a path is above it.
LEMMA AboveIsAbove ==
  ASSUME NEW p \in Paths, NEW q \in AtOrAbove[p]
  PROVE  AtOrAbove[q] \subseteq AtOrAbove[p]
<1> DEFINE P == {x \in Paths : \A y \in AtOrAbove[x] : AtOrAbove[y] \subseteq AtOrAbove[x]}
<1>1. \A x \in Paths : (Up[x] # Root => Up[x] \in P) => x \in P
  BY AboveTheNext
<1>2. Paths \subseteq P
  <2> HIDE DEF P
  <2> QED
    BY <1>1, FromTheRoot
<1> QED
  BY <1>2

\* On the way up to a directory the last path is directly below it.
LEMMA LastBelow ==
  ASSUME NEW p \in Paths, NEW q \in AtOrAbove[p], q # p
  PROVE  \E x \in AtOrAbove[p] : x \in Paths /\ Up[x] = q
<1> DEFINE P == {x \in Paths : \A y \in AtOrAbove[x] :
                   y # x => \E z \in AtOrAbove[x] : z \in Paths /\ Up[z] = y}
<1>1. ASSUME NEW x \in Paths, Up[x] # Root => Up[x] \in P PROVE x \in P
  <2> SUFFICES ASSUME NEW y \in AtOrAbove[x], y # x
               PROVE  \E z \in AtOrAbove[x] : z \in Paths /\ Up[z] = y
    OBVIOUS
  <2>1. Up[x] # Root /\ Up[x] \in P /\ y \in AtOrAbove[Up[x]]
    BY <1>1, AboveTheNext
  <2>2. CASE y = Up[x]
    BY <2>2, AboveTheNext
  <2>3. CASE y # Up[x]
    BY <2>1, <2>3, AboveTheNext
  <2> QED
    BY <2>2, <2>3
<1>2. Paths \subseteq P
  <2> HIDE DEF P
  <2> QED
    BY <1>1, FromTheRoot
<1> QED
  BY <1>2

\* The paths of a version have their directories in it.
LEMMA TreesAreWhole ==
  ASSUME NEW t \in Images
  PROVE  /\ DOMAIN t \subseteq Paths
         /\ \A p \in DOMAIN t :
              /\ t[p] \in Node /\ AtOrAbove[p] \subseteq DOMAIN t
              /\ \A a \in AtOrAbove[p] : a # p => t[a].kind = "dir"
<1>1. /\ DOMAIN t \subseteq Paths
      /\ \A p \in DOMAIN t : /\ t[p] \in Node
                             /\ Up[p] # Root => Up[p] \in DOMAIN t /\ t[Up[p]].kind = "dir"
  BY TreeAssumption DEF Images
<1> DEFINE P == {p \in Paths : p \in DOMAIN t => /\ AtOrAbove[p] \subseteq DOMAIN t
                                                 /\ \A a \in AtOrAbove[p] : a # p => t[a].kind = "dir"}
<1>2. \A p \in Paths : (Up[p] # Root => Up[p] \in P) => p \in P
  BY <1>1, AboveTheNext
<1>3. Paths \subseteq P
  <2> HIDE DEF P
  <2> QED
    BY <1>2, FromTheRoot
<1> QED
  BY <1>1, <1>3
------------------------------------------------------------------------------
(* Directories *)

\* The shape of the tree of a version: what is a directory there is one here.
Shaped(d, c) ==
  d \in Dimg /\ DOMAIN d = DOMAIN c /\ \A p \in DOMAIN c : c[p].kind = "dir" <=> IsDir(d[p])

\* What a dimg has at a path.
LEMMA DimgHas ==
  ASSUME NEW d \in Dimg
  PROVE  /\ DOMAIN d \subseteq Paths /\ d \in [DOMAIN d -> Entry]
         /\ \A p \in DOMAIN d : d[p] \in Entry
BY DEF Dimg

\* Below what is no directory there is nothing.
LEMMA NothingBelowFiles ==
  ASSUME NEW c \in Images, NEW d, Shaped(d, c), NEW p \in DOMAIN d, ~IsDir(d[p]),
         NEW q \in DOMAIN d, p \in AtOrAbove[q]
  PROVE  q = p
<1>1. q # p => c[p].kind = "dir"
  BY TreesAreWhole DEF Shaped
<1>2. c[p].kind = "dir" => IsDir(d[p])
  BY DEF Shaped
<1> QED
  BY <1>1, <1>2

\* An entry is new or needs a base, unless it is a directory.
LEMMA NewOrBased ==
  ASSUME NEW e \in Entry
  PROVE  /\ ~IsDir(e) => (IsNew(e) <=> ~IsBaseRequired(e))
         /\ IsDir(e) => ~IsBaseRequired(e)
BY DEF Entry, Types, IsDir, IsNew, IsBaseRequired

\* A directory needs no base when nothing directly below it does.
LEMMA NeedsByTheNext ==
  ASSUME NEW c \in Images, NEW d, Shaped(d, c), NEW p \in DOMAIN d, IsDir(d[p])
  PROVE  NeedsNoBase(d, p) <=> \A q \in DOMAIN d : Up[q] = p => NeedsNoBase(d, q)
<1>1. DOMAIN d = DOMAIN c /\ DOMAIN d \subseteq Paths
  BY TreesAreWhole DEF Shaped
<1>2. ASSUME NEW q \in DOMAIN d, Up[q] = p, NEW x \in DOMAIN d, q \in AtOrAbove[x]
      PROVE  p \in AtOrAbove[x]
  <2>1. p # Root
    BY <1>1, TreeAssumption
  <2>2. p \in AtOrAbove[q]
    BY <1>1, <1>2, <2>1, AboveTheNext
  <2> QED
    BY <1>1, <1>2, <2>2, AboveIsAbove
<1>3. ASSUME NEW x \in DOMAIN d, p \in AtOrAbove[x], x # p
      PROVE  \E q \in DOMAIN d : Up[q] = p /\ q \in AtOrAbove[x]
  BY <1>1, <1>3, LastBelow, TreesAreWhole
<1>4. ~IsBaseRequired(d[p])
  BY DimgHas, NewOrBased DEF Shaped
<1> QED
  BY <1>2, <1>3, <1>4 DEF NeedsNoBase

\* updateDirFileEntry makes of a directory what is below it, and leaves files alone.
LEMMA DirsUpdated ==
  ASSUME NEW c \in Images, NEW d, Shaped(d, c)
  PROVE  UpdateDirs(d) = [p \in DOMAIN d |->
           IF ~IsDir(d[p]) THEN d[p]
           ELSE [d[p] EXCEPT !.type = IF NeedsNoBase(d, p) THEN "dir_new" ELSE "dir"]]
<1> DEFINE f == [p \in Paths |-> IF ~IsDir(d[p]) THEN IsNew(d[p]) ELSE NeedsNoBase(d, p)]
           E(N) == [p \in Paths |-> IF ~IsDir(d[p]) THEN IsNew(d[p])
                                    ELSE \A q \in DOMAIN d : Up[q] = p => N[q]]
           New == CHOOSE N : N = E(N)
<1>1. DOMAIN d = DOMAIN c /\ DOMAIN d \subseteq Paths
  BY TreesAreWhole DEF Shaped
<1>2. \A q \in DOMAIN d : f[q] <=> NeedsNoBase(d, q)
  <2> SUFFICES ASSUME NEW q \in DOMAIN d PROVE f[q] <=> NeedsNoBase(d, q)
    OBVIOUS
  <2>1. CASE IsDir(d[q])
    BY <1>1, <2>1
  <2>2. CASE ~IsDir(d[q])
    <3>1. d[q] \in Entry /\ q \in AtOrAbove[q]
      BY <1>1, DimgHas, AboveTheNext DEF Shaped
    <3>2. IsNew(d[q]) <=> ~IsBaseRequired(d[q])
      BY <2>2, <3>1, NewOrBased
    <3>3. NeedsNoBase(d, q) <=> ~IsBaseRequired(d[q])
      BY <2>2, <3>1, NothingBelowFiles DEF NeedsNoBase
    <3>4. f[q] = IsNew(d[q])
      BY <1>1, <2>2
    <3> HIDE DEF f
    <3> QED
      BY <3>2, <3>3, <3>4
  <2> QED
    BY <2>1, <2>2
<1>3. ASSUME NEW p \in Paths, IsDir(d[p])
      PROVE  NeedsNoBase(d, p) = \A q \in DOMAIN d : Up[q] = p => f[q]
  <2>1. CASE p \in DOMAIN d
    <3>1. NeedsNoBase(d, p) <=> \A q \in DOMAIN d : Up[q] = p => NeedsNoBase(d, q)
      BY <1>3, <2>1, NeedsByTheNext
    <3> HIDE DEF f
    <3> QED
      BY <1>2, <3>1, Zenon DEF NeedsNoBase
  <2>2. CASE p \notin DOMAIN d
    <3>1. \A q \in DOMAIN d : p \notin AtOrAbove[q]
      BY <1>1, <2>2, TreesAreWhole
    <3>2. \A q \in DOMAIN d : Up[q] # p
      BY <1>1, <1>3, <3>1, TreeAssumption, AboveTheNext
    <3> QED
      BY <3>1, <3>2 DEF NeedsNoBase
  <2> QED
    BY <2>1, <2>2
<1>4. f = E(f)
  <2> HIDE DEF f
  <2>1. \A p \in Paths : f[p] = IF ~IsDir(d[p]) THEN IsNew(d[p]) ELSE NeedsNoBase(d, p)
    BY Zenon DEF f
  <2> QED
    BY <1>3, <2>1, Zenon DEF f
<1>5. New = E(New)
  <2> HIDE DEF f
  <2> QED
    BY <1>4
<1>6. \A p \in Paths : New[p] = f[p]
  <2> DEFINE P == {p \in Paths : New[p] = f[p]}
  <2> HIDE DEF New, f
  <2>1. ASSUME NEW p \in Paths, \A q \in Paths : Up[q] = p => q \in P
        PROVE  p \in P
    <3>1. \A q \in DOMAIN d : Up[q] = p => New[q] = f[q]
      BY <1>1, <2>1
    <3>2. New[p] = E(New)[p] /\ f[p] = E(f)[p]
      BY <1>4, <1>5
    <3>3. E(New)[p] = E(f)[p]
      BY <3>1
    <3> QED
      BY <3>2, <3>3
  <2>2. Paths \subseteq P
    <3> HIDE DEF P
    <3> QED
      BY <2>1, FromTheLeaves
  <2> QED
    BY <2>2
<1>7. UpdateDirs(d) = [p \in DOMAIN d |->
        IF ~IsDir(d[p]) THEN d[p]
        ELSE [d[p] EXCEPT !.type = IF New[p] THEN "dir_new" ELSE "dir"]]
  BY Zenon DEF UpdateDirs
<1>8. \A p \in DOMAIN d : New[p] <=> NeedsNoBase(d, p)
  <2> HIDE DEF New, f
  <2> QED
    BY <1>1, <1>2, <1>6
<1> HIDE DEF New
<1> QED
  BY <1>7, <1>8, Zenon
\* updateDirFileEntry leaves what files say alone and makes directories true.
LEMMA UpdateLeads ==
  ASSUME NEW c \in Images, NEW a, NEW d, Follows(d, a, c)
  PROVE  Leads(UpdateDirs(d), a, c)
<1> DEFINE U == UpdateDirs(d)
<1>1. Shaped(d, c)
  BY DEF Follows, Shaped, Describes
<1>2. U = [p \in DOMAIN d |->
           IF ~IsDir(d[p]) THEN d[p]
           ELSE [d[p] EXCEPT !.type = IF NeedsNoBase(d, p) THEN "dir_new" ELSE "dir"]]
  BY <1>1, DirsUpdated
<1> HIDE DEF U
<1>3. DOMAIN U = DOMAIN d /\ DOMAIN d = DOMAIN c /\ d \in Dimg
  BY <1>2 DEF Follows
<1>4. ASSUME NEW p \in DOMAIN d
      PROVE  /\ U[p] \in Entry /\ (IsBaseRequired(U[p]) <=> IsBaseRequired(d[p]))
             /\ IsDir(d[p]) <=> IsDir(U[p])
             /\ IsDir(U[p]) => (U[p].type = "dir_new" <=> NeedsNoBase(d, p))
             /\ Describes(U[p], c[p]) /\ Provides(U[p], c[p], a, p)
  <2>1. d[p] \in Entry /\ Describes(d[p], c[p]) /\ Provides(d[p], c[p], a, p)
    BY <1>3, DimgHas DEF Follows
  <2>2. CASE ~IsDir(d[p])
    BY <1>2, <2>1, <2>2
  <2>3. CASE IsDir(d[p])
    <3> DEFINE type == IF NeedsNoBase(d, p) THEN "dir_new" ELSE "dir"
    <3>1. /\ U[p] = [d[p] EXCEPT !.type = type]
          /\ type \in {"dir", "dir_new"} /\ (type = "dir_new" <=> NeedsNoBase(d, p))
      BY <1>2, <2>3
    <3> HIDE DEF type
    <3>2. /\ U[p] \in Entry /\ U[p].type = type
          /\ U[p].mode = d[p].mode /\ U[p].digest = d[p].digest /\ U[p].size = d[p].size
          /\ U[p].body = d[p].body
      BY <2>1, <3>1 DEF Entry, Types
    <3>3. d[p].body = Nil /\ IsDir(U[p]) /\ ~IsBaseRequired(U[p]) /\ ~IsBaseRequired(d[p])
      BY <2>1, <2>3, <3>1, <3>2 DEF IsDir, Provides, HasBody, IsBaseRequired
    <3>4. Describes(U[p], c[p])
      BY <2>1, <2>3, <3>1, <3>2, <3>3 DEF Describes, IsDir
    <3>5. Provides(U[p], c[p], a, p)
      BY <3>1, <3>2, <3>3 DEF Provides
    <3> QED
      BY <2>3, <3>1, <3>2, <3>3, <3>4, <3>5
  <2> QED
    BY <2>2, <2>3
<1>5. U \in Dimg
  <2>1. U \in [DOMAIN d -> Entry] /\ DOMAIN d \in SUBSET Paths
    BY <1>2, <1>3, <1>4, DimgHas
  <2> QED
    BY <2>1 DEF Dimg
<1>6. \A p \in DOMAIN U : NeedsNoBase(U, p) <=> NeedsNoBase(d, p)
  BY <1>3, <1>4 DEF NeedsNoBase
<1>7. DirsAreTrue(U)
  BY <1>3, <1>4, <1>6 DEF DirsAreTrue
<1>8. Follows(U, a, c)
  BY <1>3, <1>4, <1>5 DEF Follows
<1> QED
  BY <1>7, <1>8 DEF Leads, U
------------------------------------------------------------------------------
(* Packing and diffing *)

\* What a body may be.
LEMMA BodiesAre ==
  /\ Nil \in Bodies
  /\ \A c \in Contents : Full(c) \in Bodies /\ Full(c) # Nil
  /\ \A b \in Contents, c \in Contents : Delta(b, c) \in Bodies /\ Delta(b, c) # Nil
<1>1. \A c \in Contents : Full(c) # Nil
  BY TreeAssumption DEF Full
<1>2. \A b \in Contents, c \in Contents : Delta(b, c) # Nil
  BY TreeAssumption DEF Delta
<1>3. Bodies = {Nil} \cup {Full(c) : c \in Contents} \cup {Delta(b, c) : b, c \in Contents}
  BY DEF Bodies
<1>4. \A b \in Contents, c \in Contents : Delta(b, c) \in Bodies
  <2> SUFFICES ASSUME NEW x \in Contents, NEW y \in Contents PROVE Delta(x, y) \in Bodies
    OBVIOUS
  <2> HIDE DEF Delta
  <2> QED
    BY <1>3
<1>5. Nil \in Bodies /\ \A c \in Contents : Full(c) \in Bodies
  BY <1>3
<1> QED
  BY <1>1, <1>2, <1>4, <1>5

\* What the packer makes of a node.
LEMMA PackedIs ==
  ASSUME DirsHaveSize, NEW t \in Images, NEW p \in DOMAIN t
  PROVE  LET e == Pack(t)[p] IN
         /\ e \in Entry /\ ~IsBaseRequired(e) /\ Describes(e, t[p])
         /\ t[p].kind = "file" => /\ e.type = "file_new" /\ e.body = Full(t[p].content)
                                  /\ t[p].content \in Contents
         /\ t[p].kind = "dir" => e.type = "dir_new" /\ e.size = 1
         /\ t[p].kind # "file" => e.body = Nil
<1> DEFINE e == Pack(t)[p]
           n == t[p]
<1>1. n \in Node
  BY TreesAreWhole
<1>2. /\ e.type = TypeOfKind[n.kind]
      /\ e.size = IF n.kind = "file" THEN Size[n.content]
                  ELSE IF n.kind = "dir" /\ DirsHaveSize THEN 1 ELSE 0
      /\ e.mode = n.mode /\ e.digest = <<n.mode, n.content>> /\ e.plugin = Nil
      /\ e.body = IF n.kind = "file" THEN Full(n.content) ELSE Nil
      /\ e = [type |-> e.type, size |-> e.size, mode |-> e.mode, digest |-> e.digest,
              plugin |-> e.plugin, body |-> e.body]
  BY DEF Pack, DigestOf
<1>3. /\ n.kind \in {"file", "dir", "symlink"} /\ n.mode \in Modes
      /\ n.content \in Contents \cup {Nil} /\ (n.kind = "file" => n.content \in Contents)
  BY <1>1 DEF Node
<1> HIDE DEF e, n
<1>4. /\ n.kind = "file" => e.type = "file_new"
      /\ n.kind = "dir" => e.type = "dir_new"
      /\ n.kind = "symlink" => e.type = "symlink"
  BY <1>2 DEF TypeOfKind
<1>5. e.type \in Types /\ e.size \in Nat /\ e.mode \in Modes
      /\ e.digest \in Modes \X (Contents \cup {Nil}) /\ e.plugin = Nil /\ e.body \in Bodies
  BY <1>2, <1>3, <1>4, BodiesAre, TreeAssumption DEF Types
<1>6. e \in Entry
  BY <1>2, <1>5 DEF Entry
<1>7. Describes(e, n) /\ ~IsBaseRequired(e)
  BY <1>2, <1>3, <1>4 DEF Describes, IsDir, IsBaseRequired, DigestOf
<1> QED
  BY <1>2, <1>3, <1>4, <1>6, <1>7 DEF e, n

\* A pack leads from nothing to its image.
LEMMA PackLeads ==
  ASSUME DirsHaveSize, NEW t \in Images
  PROVE  Leads(Pack(t), <<>>, t)
<1> DEFINE d == Pack(t)
<1>1. DOMAIN d = DOMAIN t /\ d \in [DOMAIN t -> Entry] /\ DOMAIN t \in SUBSET Paths
  BY PackedIs, TreesAreWhole DEF Pack
<1>2. d \in Dimg
  BY <1>1 DEF Dimg
<1>3. \A p \in DOMAIN t : Describes(d[p], t[p]) /\ Provides(d[p], t[p], <<>>, p)
  <2> SUFFICES ASSUME NEW p \in DOMAIN t
               PROVE  Describes(d[p], t[p]) /\ Provides(d[p], t[p], <<>>, p)
    OBVIOUS
  <2>1. /\ d[p] \in Entry /\ ~IsBaseRequired(d[p]) /\ Describes(d[p], t[p])
        /\ t[p].kind = "file" => d[p].type = "file_new" /\ d[p].body = Full(t[p].content)
        /\ t[p].kind # "file" => d[p].body = Nil
    BY PackedIs
  <2>2. t[p].kind # "file" => ~HasBody(d[p])
    <3>1. t[p].kind \in {"file", "dir", "symlink"}
      BY TreesAreWhole DEF Node
    <3> QED
      BY <2>1, <3>1 DEF Describes, IsDir, HasBody
  <2> HIDE DEF d
  <2> QED
    BY <2>1, <2>2 DEF Provides, HasBody, IsBaseRequired
<1>4. DirsAreTrue(d)
  BY <1>1, PackedIs DEF DirsAreTrue, NeedsNoBase, Describes, IsDir
<1> QED
  BY <1>1, <1>2, <1>3, <1>4 DEF Leads, Follows

\* The task for a file that has an old entry.
LEMMA DiffFileProvides ==
  ASSUME NEW o \in Entry, NEW n \in Entry, NEW b \in Contents, NEW c \in Contents,
         o.body = Full(b), n.body = Full(c), n.type = "file_new", NEW binary,
         NEW x, Describes(n, x), x.content = c,
         NEW a, NEW p \in DOMAIN a, a[p].kind = "file", a[p].content = b
  PROVE  LET e == DiffFile(o, n, binary) IN
         e \in Entry /\ Describes(e, x) /\ Provides(e, x, a, p)
<1> DEFINE e == DiffFile(o, n, binary)
<1>1. o.body.to = b /\ n.body.to = c
  BY DEF Full
<1>2. PluginOf(c) \in Plugins /\ (~Mixed => PluginOf(c) = "bsdiffx")
  BY DEF PluginOf, Plugins
<1>3. CASE b = c
  <2>1. e = [n EXCEPT !.type = "file_same", !.body = Nil]
    BY <1>1, <1>3 DEF DiffFile
  <2>2. /\ e \in Entry /\ e.type = "file_same" /\ e.body = Nil
        /\ e.mode = n.mode /\ e.digest = n.digest /\ e.size = n.size
    BY <2>1, BodiesAre DEF Entry, Types
  <2> QED
    BY <1>3, <2>2 DEF Describes, Provides, IsDir, IsBaseRequired, HasBody
<1>4. CASE b # c /\ Size[b] > 0 /\ binary
  <2>1. e = [n EXCEPT !.type = "file_diff", !.plugin = PluginOf(c), !.body = Delta(b, c)]
    BY <1>1, <1>4 DEF DiffFile
  <2>2. /\ e \in Entry /\ e.type = "file_diff" /\ e.body = Delta(b, c) /\ e.plugin = PluginOf(c)
        /\ e.mode = n.mode /\ e.digest = n.digest /\ e.size = n.size
    <3> DEFINE g == PluginOf(c)
               m == Delta(b, c)
    <3>1. g \in Plugins \cup {Nil} /\ m \in Bodies
      BY <1>2, BodiesAre
    <3>2. e = [n EXCEPT !.type = "file_diff", !.plugin = g, !.body = m]
      BY <2>1
    <3> HIDE DEF g, m, e
    <3>3. /\ e \in Entry /\ e.type = "file_diff" /\ e.body = m /\ e.plugin = g
          /\ e.mode = n.mode /\ e.digest = n.digest /\ e.size = n.size
      BY <3>1, <3>2 DEF Entry, Types
    <3> QED
      BY <3>3 DEF g, m
  <2> QED
    BY <1>2, <1>4, <2>2 DEF Describes, Provides, IsDir, IsBaseRequired, HasBody
<1>5. CASE b # c /\ ~(Size[b] > 0 /\ binary)
  <2>1. e = n
    BY <1>1, <1>5 DEF DiffFile
  <2> QED
    BY <2>1 DEF Provides, IsBaseRequired, HasBody
<1> QED
  BY <1>3, <1>4, <1>5

\* A diff leads from the old version to the new one.
LEMMA DiffLeads ==
  ASSUME DirsHaveSize, NEW s \in Images, NEW t \in Images, NEW binary
  PROVE  Leads(Diff(Pack(s), Pack(t), binary), s, t)
<1> DEFINE old == Pack(s)
           new == Pack(t)
           d == [p \in DOMAIN new |->
                  CASE ~IsFile(new[p]) -> new[p]
                    [] IsFile(new[p]) /\ Skipped(new, p) -> [new[p] EXCEPT !.body = Nil]
                    [] OTHER -> IF Fresh(old, new, p) THEN new[p]
                                ELSE DiffFile(old[p], new[p], binary)]
<1>1. DOMAIN new = DOMAIN t /\ DOMAIN old = DOMAIN s
  BY DEF Pack
<1>2. Diff(old, new, binary) = UpdateDirs(d)
  BY DEF Diff
<1>3. ASSUME NEW p \in DOMAIN t
      PROVE  d[p] \in Entry /\ Describes(d[p], t[p]) /\ Provides(d[p], t[p], s, p)
  <2>1. /\ new[p] \in Entry /\ ~IsBaseRequired(new[p]) /\ Describes(new[p], t[p])
        /\ t[p].kind = "file" => /\ new[p].type = "file_new" /\ new[p].body = Full(t[p].content)
                                 /\ t[p].content \in Contents
        /\ t[p].kind # "file" => new[p].body = Nil
    BY PackedIs
  <2>2. IsFile(new[p]) <=> t[p].kind = "file"
    <3>1. t[p].kind \in {"file", "dir", "symlink"}
      BY TreesAreWhole DEF Node
    <3> QED
      BY <2>1, <3>1 DEF Describes, IsFile, IsDir
  <2> HIDE DEF new, old
  <2>3. CASE ~IsFile(new[p])
    <3>1. d[p] = new[p]
      BY <1>1, <2>3
    <3> QED
      BY <2>1, <2>2, <2>3, <3>1 DEF Provides, IsFile, IsBaseRequired, HasBody
  <2>4. CASE IsFile(new[p]) /\ Skipped(new, p)
    <3>1. d[p] = [new[p] EXCEPT !.body = Nil]
      BY <1>1, <2>4
    <3>2. /\ d[p] \in Entry /\ d[p].body = Nil /\ d[p].type = new[p].type
          /\ d[p].mode = new[p].mode /\ d[p].digest = new[p].digest /\ d[p].size = new[p].size
      BY <2>1, <3>1, BodiesAre DEF Entry
    <3>3. new[p].size = 0
      <4>1. PICK a \in AtOrAbove[p] : new[a].size = 0
        BY <2>4 DEF Skipped
      <4>2. a # p => new[a].size = 1
        BY <4>1, TreesAreWhole, PackedIs DEF new
      <4> QED
        BY <4>1, <4>2
    <3> QED
      BY <2>1, <2>2, <2>4, <3>2, <3>3 DEF Describes, Provides, IsDir, IsBaseRequired, HasBody
  <2>5. CASE IsFile(new[p]) /\ ~Skipped(new, p) /\ Fresh(old, new, p)
    <3>1. d[p] = new[p]
      BY <1>1, <2>5
    <3> QED
      BY <2>1, <2>2, <2>5, <3>1 DEF Provides, IsBaseRequired, HasBody
  <2>6. CASE IsFile(new[p]) /\ ~Skipped(new, p) /\ ~Fresh(old, new, p)
    <3>1. d[p] = DiffFile(old[p], new[p], binary)
      BY <1>1, <2>6
    <3>2. p \in DOMAIN s /\ old[p].type = "file_new"
      BY <1>1, <2>1, <2>2, <2>6, AboveTheNext, TreesAreWhole DEF Fresh
    <3>3. old[p] \in Entry /\ Describes(old[p], s[p])
          /\ (s[p].kind = "file" => old[p].body = Full(s[p].content) /\ s[p].content \in Contents)
      BY <3>2, PackedIs DEF old
    <3>4. s[p].kind = "file"
      <4>1. s[p].kind \in {"file", "dir", "symlink"}
        BY <3>2, TreesAreWhole DEF Node
      <4> QED
        BY <3>2, <3>3, <4>1 DEF Describes, IsDir
    <3> QED
      BY <2>1, <2>2, <2>6, <3>1, <3>2, <3>3, <3>4, DiffFileProvides
  <2> QED
    BY <2>3, <2>4, <2>5, <2>6
<1>4. d \in [DOMAIN t -> Entry] /\ DOMAIN t \in SUBSET Paths
  BY <1>1, <1>3, TreesAreWhole
<1> HIDE DEF d
<1>5. Follows(d, s, t)
  BY <1>3, <1>4 DEF Follows, Dimg
<1> QED
  BY <1>2, <1>5, UpdateLeads
------------------------------------------------------------------------------
(* Merging *)

\* What an upper file needs is in the lower dimg.
LEMMA LowerIsThere ==
  ASSUME NEW a, NEW b \in Images, NEW c \in Images, NEW lower, NEW upper,
         Follows(lower, a, b), Follows(upper, b, c),
         NEW p \in DOMAIN upper, IsBaseRequired(upper[p])
  PROVE  /\ p \in DOMAIN lower /\ p \in DOMAIN b /\ p \in DOMAIN c
         /\ b[p].kind = "file" /\ IsFile(lower[p])
         /\ b[p].content \in Contents /\ lower[p].size = Size[b[p].content]
         /\ c[p].kind = "file" /\ c[p].content \in Contents
         /\ lower[p] \in Entry /\ upper[p] \in Entry
         /\ Describes(lower[p], b[p]) /\ Provides(lower[p], b[p], a, p)
         /\ Describes(upper[p], c[p]) /\ Provides(upper[p], c[p], b, p)
<1>1. /\ p \in DOMAIN c /\ upper[p] \in Entry
      /\ Describes(upper[p], c[p]) /\ Provides(upper[p], c[p], b, p)
  BY DimgHas DEF Follows
<1>2. p \in DOMAIN b /\ b[p].kind = "file"
  BY <1>1 DEF Provides
<1>3. /\ p \in DOMAIN lower /\ lower[p] \in Entry
      /\ Describes(lower[p], b[p]) /\ Provides(lower[p], b[p], a, p)
  BY <1>2, DimgHas DEF Follows
<1>4. IsFile(lower[p]) /\ lower[p].size = Size[b[p].content]
  BY <1>2, <1>3 DEF Describes, IsFile, IsDir, Entry, Types
<1>5. b[p].content \in Contents
  BY <1>2, TreesAreWhole DEF Node
<1>6. c[p].kind = "file"
  <2>1. c[p].kind \in {"file", "dir", "symlink"}
    BY <1>1, TreesAreWhole DEF Node
  <2> QED
    BY <1>1, <2>1 DEF Describes, IsDir, IsBaseRequired
<1>7. c[p].content \in Contents
  BY <1>1, <1>6, TreesAreWhole DEF Node
<1> QED
  BY <1>1, <1>2, <1>3, <1>4, <1>5, <1>6, <1>7

\* A file merged with the one below it provides the new content from further below.
LEMMA FileMerged ==
  ASSUME NEW a \in Images, NEW b \in Images, NEW c \in Images, NEW lower, NEW upper,
         Follows(lower, a, b), Follows(upper, b, c),
         NEW p \in DOMAIN upper, IsBaseRequired(upper[p]), HasBody(lower[p])
  PROVE  LET e == IF upper[p].type = "file_same" THEN CopyLower(lower[p], upper[p])
                                                 ELSE MergeFile(lower[p], upper[p])
         IN e \in Entry /\ Describes(e, c[p]) /\ Provides(e, c[p], a, p)
<1> DEFINE l == lower[p]
           u == upper[p]
           m == b[p]
           n == c[p]
<1>1. /\ m.kind = "file" /\ m.content \in Contents /\ l.size = Size[m.content]
      /\ n.kind = "file" /\ n.content \in Contents /\ l \in Entry /\ u \in Entry
      /\ Describes(l, m) /\ Provides(l, m, a, p) /\ Describes(u, n) /\ Provides(u, n, b, p)
  BY LowerIsThere
<1>2. l.type \in {"file_new", "file_diff"} /\ u.type \in {"file_same", "file_diff"}
  BY DEF HasBody, IsBaseRequired
<1>3. m.content = b[p].content
  OBVIOUS
<1> HIDE DEF l, u, m, n
<1>4. CASE u.type = "file_same"
  <2> DEFINE e == CopyLower(l, u)
  <2>1. m.content = n.content
    BY <1>1, <1>3, <1>4 DEF Provides
  <2>2. /\ e \in Entry /\ e.type = l.type /\ e.body = l.body /\ e.plugin = l.plugin
        /\ e.size = l.size /\ e.mode = u.mode /\ e.digest = u.digest
    BY <1>1 DEF CopyLower, Entry
  <2> HIDE DEF e
  <2>3. Describes(e, n)
    BY <1>1, <1>2, <2>1, <2>2 DEF Describes, IsDir
  <2>4. Provides(e, n, a, p)
    BY <1>1, <1>2, <2>1, <2>2 DEF Provides, IsBaseRequired, HasBody
  <2> QED
    BY <1>4, <2>2, <2>3, <2>4 DEF e, l, u, n
<1>5. CASE u.type = "file_diff"
  <2>1. u.body = Delta(m.content, n.content) /\ Size[m.content] > 0 /\ u.plugin \in Plugins
        /\ (~Mixed => u.plugin = "bsdiffx")
    BY <1>1, <1>3, <1>5 DEF Provides
  <2>2. l.body # Nil /\ u.body # Nil /\ l.body.to = u.body.from /\ u.body.to = n.content
    <3>1. l.type = "file_new" => l.body = Full(m.content)
      BY <1>1, <2>1 DEF Provides
    <3>2. l.type = "file_diff" => /\ l.body = Delta(a[p].content, m.content)
                                  /\ p \in DOMAIN a /\ a[p].kind = "file"
      BY <1>1 DEF Provides, IsBaseRequired
    <3>3. l.body \in Bodies /\ l.body # Nil
      <4>1. l.type = "file_diff" => l.body # Nil
        <5>1. l.type = "file_diff" => a[p].content \in Contents
          BY <3>2, TreesAreWhole DEF Node
        <5> QED
          BY <1>1, <3>2, <5>1, BodiesAre
      <4> QED
        BY <1>1, <1>2, <3>1, <4>1, BodiesAre DEF Entry
    <3>4. u.body # Nil
      BY <1>1, <2>1, BodiesAre
    <3>5. l.body.to = m.content
      BY <1>2, <3>1, <3>2 DEF Full, Delta
    <3> QED
      BY <2>1, <3>3, <3>4, <3>5 DEF Delta
  <2>3. CASE l.type = "file_new"
    <3> DEFINE e == MergeFile(l, u)
               f == Full(n.content)
    <3>1. e = [u EXCEPT !.type = "file_new", !.body = f]
      BY <2>2, <2>3 DEF MergeFile
    <3>2. f \in Bodies
      BY <1>1, BodiesAre
    <3> HIDE DEF e, f
    <3>3. /\ e \in Entry /\ e.type = "file_new" /\ e.body = f
          /\ e.size = u.size /\ e.mode = u.mode /\ e.digest = u.digest
      BY <1>1, <3>1, <3>2 DEF Entry, Types
    <3>4. Describes(e, n)
      BY <1>1, <3>3 DEF Describes, IsDir
    <3>5. Provides(e, n, a, p)
      BY <3>3 DEF Provides, IsBaseRequired, HasBody, f
    <3> QED
      BY <1>5, <3>3, <3>4, <3>5 DEF e, l, u, n
  <2>4. CASE l.type = "file_diff"
    <3> DEFINE e == MergeFile(l, u)
               f == Delta(a[p].content, n.content)
    <3>1. l.body = Delta(a[p].content, m.content) /\ p \in DOMAIN a /\ a[p].kind = "file"
          /\ Size[a[p].content] > 0
      BY <1>1, <2>4 DEF Provides, IsBaseRequired
    <3>2. e = [u EXCEPT !.body = f]
      BY <2>2, <2>4, <3>1 DEF MergeFile, Delta
    <3>3. f \in Bodies
      <4>1. a[p].content \in Contents
        BY <3>1, TreesAreWhole DEF Node
      <4> QED
        BY <1>1, <4>1, BodiesAre
    <3> HIDE DEF e, f
    <3>4. /\ e \in Entry /\ e.type = "file_diff" /\ e.body = f /\ e.plugin = u.plugin
          /\ e.size = u.size /\ e.mode = u.mode /\ e.digest = u.digest
      BY <1>1, <1>5, <3>2, <3>3 DEF Entry
    <3>5. Describes(e, n)
      BY <1>1, <1>5, <3>4 DEF Describes, IsDir
    <3>6. Provides(e, n, a, p)
      BY <2>1, <3>1, <3>4 DEF Provides, IsBaseRequired, HasBody, f
    <3> QED
      BY <1>5, <3>4, <3>5, <3>6 DEF e, l, u, n
  <2> QED
    BY <1>2, <2>3, <2>4
<1> QED
  BY <1>2, <1>4, <1>5

\* A merge leads from where the lower dimg comes from to where the upper one leads.
LEMMA MergeLeads ==
  ASSUME NEW a \in Images, NEW b \in Images, NEW c \in Images, NEW lower, NEW upper,
         Leads(lower, a, b), Leads(upper, b, c)
  PROVE  Leads(Merge(lower, upper), a, c)
<1> DEFINE d == [p \in DOMAIN upper |->
                  IF IsBaseRequired(upper[p]) /\ HasBody(lower[p])
                  THEN IF upper[p].type = "file_same" THEN CopyLower(lower[p], upper[p])
                                                      ELSE MergeFile(lower[p], upper[p])
                  ELSE upper[p]]
<1>1. Merge(lower, upper) = UpdateDirs(d)
  BY DEF Merge
<1>2. Follows(lower, a, b) /\ Follows(upper, b, c) /\ DOMAIN upper = DOMAIN c
  BY DEF Leads, Follows
<1>3. ASSUME NEW p \in DOMAIN c
      PROVE  d[p] \in Entry /\ Describes(d[p], c[p]) /\ Provides(d[p], c[p], a, p)
  <2>1. CASE IsBaseRequired(upper[p]) /\ HasBody(lower[p])
    BY <1>2, <2>1, FileMerged
  <2>2. CASE ~(IsBaseRequired(upper[p]) /\ HasBody(lower[p]))
    <3>1. d[p] = upper[p]
      BY <1>2, <2>2
    <3>2. upper[p] \in Entry /\ Describes(upper[p], c[p]) /\ Provides(upper[p], c[p], b, p)
      BY <1>2, DimgHas DEF Follows
    <3>3. CASE ~IsBaseRequired(upper[p])
      BY <3>1, <3>2, <3>3 DEF Provides, IsBaseRequired
    <3>4. CASE IsBaseRequired(upper[p])
      <4>1. IsFile(lower[p]) /\ Provides(lower[p], b[p], a, p)
        BY <1>2, <3>4, LowerIsThere
      <4>2. lower[p].type = "file_same"
        BY <2>2, <3>4, <4>1 DEF IsFile, HasBody
      <4>3. p \in DOMAIN a /\ a[p].kind = "file" /\ a[p].content = b[p].content
        BY <4>1, <4>2 DEF Provides, IsBaseRequired
      <4> QED
        BY <3>1, <3>2, <4>3 DEF Provides
    <3> QED
      BY <3>3, <3>4
  <2> QED
    BY <2>1, <2>2
<1>4. d \in [DOMAIN c -> Entry] /\ DOMAIN c \in SUBSET Paths
  BY <1>2, <1>3, TreesAreWhole
<1> HIDE DEF d
<1>5. Follows(d, a, c)
  BY <1>3, <1>4 DEF Follows, Dimg
<1> QED
  BY <1>1, <1>5, UpdateLeads

\* A directory that is not new has a file below it that needs a base.
LEMMA DirHasBased ==
  ASSUME NEW b, NEW c \in Images, NEW d, Leads(d, b, c),
         NEW p \in DOMAIN d, ~IsNew(d[p]), ~IsBaseRequired(d[p])
  PROVE  IsDir(d[p]) /\ \E q \in DOMAIN d : p \in AtOrAbove[q] /\ IsBaseRequired(d[q]) /\ q # p
<1>1. d[p] \in Entry
  BY DimgHas DEF Leads, Follows
<1>2. IsDir(d[p]) /\ d[p].type # "dir_new"
  BY <1>1, NewOrBased DEF IsNew
<1> QED
  BY <1>2 DEF Leads, DirsAreTrue, NeedsNoBase

\* No entry of the upper dimg refers to what the lower one lacks: no merge of neighbours
\* reports an error, and it panics only over the plugins of two deltas.
LEMMA MergeSucceeds ==
  ASSUME NEW a, NEW b \in Images, NEW c \in Images, NEW lower, NEW upper,
         Leads(lower, a, b), Leads(upper, b, c), ~Mixed
  PROVE  ~MergeFails(lower, upper)
<1>1. Follows(lower, a, b) /\ Follows(upper, b, c) /\ DOMAIN upper = DOMAIN c /\ DOMAIN lower = DOMAIN b
      /\ DOMAIN c \subseteq Paths
  BY TreesAreWhole DEF Leads, Follows
<1>2. ASSUME NEW p \in DOMAIN upper, ~IsNew(upper[p])
      PROVE  \E q \in DOMAIN upper : p \in AtOrAbove[q] /\ IsBaseRequired(upper[q])
  BY <1>1, <1>2, DirHasBased, AboveTheNext
<1>3. ASSUME NEW p \in DOMAIN upper, Orphan(lower, upper, p) PROVE FALSE
  <2>1. PICK q \in DOMAIN upper : p \in AtOrAbove[q] /\ IsBaseRequired(upper[q])
    BY <1>2, <1>3 DEF Orphan
  <2>2. q \in DOMAIN b /\ b[q].kind = "file" /\ IsFile(lower[q])
    BY <1>1, <2>1, LowerIsThere
  <2>3. p \in DOMAIN lower /\ (p # q => b[p].kind = "dir")
    BY <1>1, <2>1, <2>2, TreesAreWhole
  <2>4. p # q => IsDir(lower[p])
    BY <1>1, <2>3 DEF Follows, Describes
  <2>5. \A x \in AtOrAbove[p] \ {p} : upper[x].type # "dir_new"
    <3> SUFFICES ASSUME NEW x \in AtOrAbove[p], upper[x].type = "dir_new" PROVE FALSE
      OBVIOUS
    <3>1. x \in AtOrAbove[q] /\ x \in DOMAIN upper
      BY <1>1, <2>1, AboveIsAbove, TreesAreWhole
    <3>2. NeedsNoBase(upper, x)
      BY <3>1 DEF Leads, DirsAreTrue, IsDir
    <3> QED
      BY <2>1, <3>1, <3>2 DEF NeedsNoBase
  <2>6. ~(upper[p].type = "dir" /\ ~IsDir(lower[p]))
    BY <2>1, <2>4 DEF IsBaseRequired
  <2>7. ~(IsFile(upper[p]) /\ ~IsFile(lower[p]))
    <3>1. IsFile(upper[p]) => IsBaseRequired(upper[p])
      BY <1>3 DEF Orphan, IsFile, IsNew, IsBaseRequired
    <3> QED
      BY <1>1, <3>1, LowerIsThere
  <2> QED
    BY <1>3, <2>3, <2>5, <2>6, <2>7 DEF Orphan
<1>4. ASSUME NEW p \in DOMAIN upper, IsBaseRequired(upper[p]), Unmatched(lower[p], upper[p])
      PROVE  FALSE
  <2>1. Provides(lower[p], b[p], a, p) /\ Provides(upper[p], c[p], b, p)
    BY <1>1, <1>4, LowerIsThere
  <2> QED
    BY <1>4, <2>1 DEF Unmatched, Provides
<1> QED
  BY <1>3, <1>4 DEF MergeFails
------------------------------------------------------------------------------
(* Histories *)

\* A tree without files is a version.
LEMMA NothingIsAnImage == <<>> \in Images
<1>1. <<>> \in [{} -> UNION {Choices[p] : p \in {}}]
  OBVIOUS
<1>2. {} \in SUBSET Paths /\ DOMAIN <<>> = {}
  OBVIOUS
<1> QED
  BY <1>1, <1>2 DEF Images

\* The first version is packed.
LEMMA InitIsATree == DirsHaveSize /\ Init => TreeInv
<1> SUFFICES ASSUME DirsHaveSize, Init PROVE TreeInv
  OBVIOUS
<1>1. image \in Images /\ stack = <<Pack(image)>> /\ failed = FALSE
  BY DEF Init
<1>2. Leads(Pack(image), <<>>, image)
  BY <1>1, PackLeads
<1>3. Pack(image) \in Dimg
  BY <1>2 DEF Leads, Follows
<1> DEFINE vs == [i \in 1..2 |-> IF i = 1 THEN image ELSE <<>>]
<1>4. vs \in [1..2 -> Images] /\ vs[1] = image /\ vs[2] = <<>>
  BY <1>1, NothingIsAnImage
<1> HIDE DEF vs
<1>5. Len(stack) = 1 /\ stack[1] = Pack(image) /\ stack \in Seq(Dimg) /\ stack # <<>>
  BY <1>1, <1>3
<1>6. Versions(vs, stack, image)
  BY <1>2, <1>4, <1>5 DEF Versions
<1> QED
  BY <1>1, <1>5, <1>6 DEF TreeInv

\* A release adds the new version on top.
LEMMA ReleaseKeeps ==
  ASSUME DirsHaveSize, TreeInv, NEW t \in Images, NEW binary, Release(t, binary)
  PROVE  TreeInv'
<1>1. /\ stack \in Seq(Dimg) /\ stack # <<>> /\ failed \in BOOLEAN /\ (~Mixed => ~failed)
      /\ \E vs : Versions(vs, stack, image)
  BY DEF TreeInv
<1>2. PICK vs : Versions(vs, stack, image)
  BY <1>1
<1> DEFINE n == Len(stack)
           d == Diff(Pack(image), Pack(t), binary)
           ws == [i \in 1..n + 2 |-> IF i = 1 THEN t ELSE vs[i - 1]]
<1>3. n \in Nat /\ vs \in [1..n + 1 -> Images] /\ vs[1] = image /\ vs[n + 1] = <<>>
  BY <1>1, <1>2 DEF Versions
<1>4. image \in Images
  BY <1>3
<1>5. Leads(d, image, t)
  BY <1>4, DiffLeads
<1>6. d \in Dimg
  BY <1>5 DEF Leads, Follows
<1>7. stack' = <<d>> \o stack /\ image' = t /\ failed' = failed
  BY DEF Release
<1> HIDE DEF d
<1>8. /\ stack' \in Seq(Dimg) /\ Len(stack') = n + 1 /\ stack'[1] = d /\ stack' # <<>>
      /\ \A i \in 2..n + 1 : stack'[i] = stack[i - 1]
  BY <1>1, <1>6, <1>7
<1>9. /\ ws \in [1..n + 2 -> Images] /\ ws[1] = t /\ ws[n + 2] = <<>>
      /\ \A i \in 2..n + 2 : ws[i] = vs[i - 1]
  BY <1>3
<1> HIDE DEF ws
<1>10. ASSUME NEW i \in 1..n + 1 PROVE Leads(stack'[i], ws[i + 1], ws[i])
  <2>1. CASE i = 1
    <3>1. ws[i + 1] = image /\ ws[i] = t /\ stack'[i] = d
      BY <1>3, <1>8, <1>9, <2>1
    <3> QED
      BY <1>5, <3>1
  <2>2. CASE i # 1
    <3>1. i - 1 \in 1..n /\ i \in 2..n + 1 /\ i + 1 \in 2..n + 2
      BY <1>3, <2>2
    <3>2. ws[i + 1] = vs[(i - 1) + 1] /\ ws[i] = vs[i - 1] /\ stack'[i] = stack[i - 1]
      BY <1>3, <1>8, <1>9, <3>1
    <3>3. Leads(stack[i - 1], vs[(i - 1) + 1], vs[i - 1])
      BY <1>2, <3>1 DEF Versions
    <3> QED
      BY <3>2, <3>3
  <2> QED
    BY <2>1, <2>2
<1>11. Versions(ws, stack', image')
  <2>1. Len(stack') + 1 = n + 2
    BY <1>3, <1>8
  <2> QED
    BY <1>7, <1>8, <1>9, <1>10, <2>1 DEF Versions
<1> QED
  BY <1>1, <1>7, <1>8, <1>11 DEF TreeInv

\* A merge leaves out the version between two dimgs.
LEMMA MergeDimgKeeps ==
  ASSUME TreeInv, NEW i \in 1..MaxLayers, MergeDimg(i)
  PROVE  TreeInv'
<1>1. /\ stack \in Seq(Dimg) /\ stack # <<>> /\ failed \in BOOLEAN /\ (~Mixed => ~failed)
      /\ \E vs : Versions(vs, stack, image)
  BY DEF TreeInv
<1>2. PICK vs : Versions(vs, stack, image)
  BY <1>1
<1> DEFINE n == Len(stack)
           u == stack[i]
           l == stack[i + 1]
           m == Merge(l, u)
           ws == [k \in 1..n |-> IF k <= i THEN vs[k] ELSE vs[k + 1]]
<1>3. n \in Nat /\ vs \in [1..n + 1 -> Images] /\ vs[1] = image /\ vs[n + 1] = <<>>
  BY <1>1, <1>2 DEF Versions
<1>4. i \in Nat /\ 1 <= i /\ i < n /\ image' = image
  BY <1>3, TreeAssumption DEF MergeDimg
<1>5. Leads(u, vs[i + 1], vs[i]) /\ Leads(l, vs[(i + 1) + 1], vs[i + 1])
  BY <1>2, <1>3, <1>4 DEF Versions
<1>6. vs[i] \in Images /\ vs[i + 1] \in Images /\ vs[i + 2] \in Images /\ (i + 1) + 1 = i + 2
  BY <1>3, <1>4
<1>7. CASE MergeFails(l, u)
  <2>1. Mixed
    BY <1>5, <1>6, <1>7, MergeSucceeds
  <2>2. stack' = stack /\ failed' = TRUE
    BY <1>7 DEF MergeDimg
  <2> QED
    BY <1>1, <1>4, <2>1, <2>2 DEF TreeInv
<1>8. CASE ~MergeFails(l, u)
  <2>1. stack' = SubSeq(stack, 1, i - 1) \o <<m>> \o SubSeq(stack, i + 2, n) /\ failed' = failed
    BY <1>8 DEF MergeDimg
  <2>2. Leads(m, vs[i + 2], vs[i])
    BY <1>5, <1>6, MergeLeads
  <2>3. m \in Dimg
    BY <2>2 DEF Leads, Follows
  <2> HIDE DEF m
  <2> DEFINE s1 == SubSeq(stack, 1, i - 1)
             s2 == SubSeq(stack, i + 2, n)
  <2>4. /\ s1 \in Seq(Dimg) /\ Len(s1) = i - 1 /\ \A k \in 1..i - 1 : s1[k] = stack[k]
        /\ s2 \in Seq(Dimg) /\ Len(s2) = n - i - 1
        /\ \A k \in 1..n - i - 1 : s2[k] = stack[i + 1 + k]
    BY <1>1, <1>3, <1>4
  <2>5. stack' = (s1 \o <<m>>) \o s2
    BY <2>1
  <2> HIDE DEF s1, s2
  <2> DEFINE s3 == s1 \o <<m>>
  <2>6. /\ s3 \in Seq(Dimg) /\ Len(s3) = i /\ s3[i] = m
        /\ \A k \in 1..i - 1 : s3[k] = stack[k]
    <3>1. s3 \in Seq(Dimg) /\ Len(s3) = (i - 1) + 1
      BY <1>4, <2>3, <2>4
    <3>2. \A k \in 1..i - 1 : s3[k] = s1[k]
      BY <1>4, <2>3, <2>4
    <3>3. s3[(i - 1) + 1] = m
      BY <1>4, <2>3, <2>4
    <3>4. (i - 1) + 1 = i
      BY <1>4
    <3> HIDE DEF s3
    <3>5. \A k \in 1..i - 1 : s3[k] = stack[k]
      BY <2>4, <3>2
    <3> QED
      BY <3>1, <3>3, <3>4, <3>5
  <2>7. stack' = s3 \o s2
    BY <2>5
  <2> HIDE DEF s3
  <2>8. /\ stack' \in Seq(Dimg) /\ Len(stack') = n - 1
        /\ \A k \in 1..i - 1 : stack'[k] = stack[k]
        /\ stack'[i] = m
        /\ \A k \in i + 1..n - 1 : stack'[k] = stack[k + 1]
    <3>1. stack' \in Seq(Dimg) /\ Len(stack') = n - 1
      <4>1. s3 \in Seq(Dimg) /\ s2 \in Seq(Dimg) /\ Len(s3) = i /\ Len(s2) = n - i - 1
        BY <2>4, <2>6
      <4>2. stack' \in Seq(Dimg) /\ Len(stack') = Len(s3) + Len(s2)
        BY <2>7, <4>1, ConcatProperties
      <4>3. i + (n - i - 1) = n - 1
        BY <1>3, <1>4
      <4> QED
        BY <4>1, <4>2, <4>3
    <3>2. \A k \in 1..i : stack'[k] = s3[k]
      BY <1>3, <1>4, <2>4, <2>6, <2>7
    <3>3. ASSUME NEW k \in i + 1..n - 1 PROVE stack'[k] = stack[k + 1]
      <4>1. stack'[k] = s2[k - i] /\ k - i \in 1..n - i - 1
        BY <1>3, <1>4, <2>4, <2>6, <2>7, <3>3
      <4>2. s2[k - i] = stack[i + 1 + (k - i)] /\ i + 1 + (k - i) = k + 1
        BY <1>4, <2>4, <4>1
      <4> QED
        BY <4>1, <4>2
    <3> QED
      BY <1>4, <2>6, <3>1, <3>2, <3>3
  <2>9. /\ ws \in [1..n -> Images] /\ ws[1] = image /\ ws[n] = <<>>
        /\ \A k \in 1..i : ws[k] = vs[k]
        /\ \A k \in i + 1..n : ws[k] = vs[k + 1]
    BY <1>3, <1>4
  <2> HIDE DEF ws
  <2>10. ASSUME NEW k \in 1..n - 1 PROVE Leads(stack'[k], ws[k + 1], ws[k])
    <3>1. CASE k < i
      <4>1. stack'[k] = stack[k] /\ ws[k + 1] = vs[k + 1] /\ ws[k] = vs[k] /\ k \in 1..n
        BY <1>3, <1>4, <2>8, <2>9, <3>1
      <4> QED
        BY <1>2, <4>1 DEF Versions
    <3>2. CASE k = i
      <4>1. stack'[k] = m /\ ws[k + 1] = vs[i + 2] /\ ws[k] = vs[i]
        BY <1>3, <1>4, <1>6, <2>8, <2>9, <3>2
      <4> QED
        BY <2>2, <4>1
    <3>3. CASE k > i
      <4>1. stack'[k] = stack[k + 1] /\ ws[k + 1] = vs[(k + 1) + 1] /\ ws[k] = vs[k + 1]
            /\ k + 1 \in 1..n
        BY <1>3, <1>4, <2>8, <2>9, <3>3
      <4>2. Leads(stack[k + 1], vs[(k + 1) + 1], vs[k + 1])
        BY <1>2, <4>1 DEF Versions
      <4> QED
        BY <4>1, <4>2
    <3> QED
      BY <1>4, <3>1, <3>2, <3>3
  <2>11. Versions(ws, stack', image')
    <3>1. Len(stack') + 1 = n
      BY <1>3, <2>8
    <3> QED
      BY <1>4, <2>8, <2>9, <2>10, <3>1 DEF Versions
  <2>12. stack' # <<>>
    BY <1>3, <1>4, <2>8
  <2> QED
    BY <1>1, <2>1, <2>8, <2>11, <2>12 DEF TreeInv
<1> QED
  BY <1>7, <1>8

\* Whatever is released and merged, in any order, a stack is a history of versions from
\* the newest one down to no files: the inductive invariant.
THEOREM TreeInvariance == DirsHaveSize => (Spec => []TreeInv)
<1> SUFFICES ASSUME DirsHaveSize PROVE Spec => []TreeInv
  OBVIOUS
<1>1. TreeInv /\ [Next]_vars => TreeInv'
  <2> SUFFICES ASSUME TreeInv, [Next]_vars PROVE TreeInv'
    OBVIOUS
  <2>1. CASE UNCHANGED vars
    BY <2>1 DEF vars, TreeInv
  <2> QED
    BY <2>1, ReleaseKeeps, MergeDimgKeeps DEF Next
<1> QED
  BY <1>1, InitIsATree, PTL DEF Spec
------------------------------------------------------------------------------
(* Types, merges, and what is new *)

\* Files of a dimg are those of its version, with contents.
LEMMA FilesAreFiles ==
  ASSUME NEW a, NEW c \in Images, NEW d, Follows(d, a, c), NEW p \in DOMAIN c
  PROVE  /\ d[p] \in Entry /\ Describes(d[p], c[p]) /\ Provides(d[p], c[p], a, p)
         /\ IsFile(d[p]) <=> c[p].kind = "file"
         /\ c[p].kind = "file" => c[p].content \in Contents
<1>1. d[p] \in Entry /\ Describes(d[p], c[p]) /\ Provides(d[p], c[p], a, p)
  BY DimgHas DEF Follows
<1>2. c[p].kind \in {"file", "dir", "symlink"} /\ (c[p].kind = "file" => c[p].content \in Contents)
  BY TreesAreWhole DEF Node
<1>3. IsFile(d[p]) <=> c[p].kind = "file"
  BY <1>1, <1>2 DEF Describes, IsFile, IsDir, Entry, Types
<1> QED
  BY <1>1, <1>2, <1>3

\* The state keeps its types: above all a body is the content of a file or a delta of two, never
\* something that was patched from the wrong bytes.
THEOREM TreeTypes == DirsHaveSize => (Spec => []TypeOK)
<1> SUFFICES ASSUME DirsHaveSize PROVE Spec => []TypeOK
  OBVIOUS
<1>1. TreeInv => TypeOK
  <2> SUFFICES ASSUME TreeInv PROVE TypeOK
    OBVIOUS
  <2>1. PICK vs : Versions(vs, stack, image)
    BY DEF TreeInv
  <2>2. stack \in Seq(Dimg) /\ failed \in BOOLEAN /\ Len(stack) \in Nat
    BY DEF TreeInv
  <2>3. image \in Images
    BY <2>1, <2>2 DEF Versions
  <2>4. ASSUME NEW i \in DOMAIN stack, NEW p \in DOMAIN stack[i]
        PROVE  LET e == stack[i][p] IN
               /\ IsDir(e) \/ IsFile(e) \/ e.type = "symlink"
               /\ e.mode \in Modes /\ e.plugin \in {Nil, "bsdiffx", "xdelta3"}
               /\ e.body \in Bodies /\ (e.body # Nil => HasBody(e))
    <3>1. i \in 1..Len(stack)
      BY <2>2
    <3>2. Follows(stack[i], vs[i + 1], vs[i])
      BY <2>1, <3>1 DEF Versions, Leads
    <3>3. stack[i][p] \in Entry /\ Provides(stack[i][p], vs[i][p], vs[i + 1], p)
      BY <3>2, DimgHas DEF Follows
    <3> QED
      BY <3>3 DEF Entry, Types, Plugins, IsDir, IsFile, Provides
  <2> QED
    BY <2>2, <2>3, <2>4 DEF TypeOK
<1> QED
  BY <1>1, TreeInvariance, PTL

\* Neighbours of a stack can always be merged, however they came about: the upper one
\* refers to nothing that the lower one lacks, as long as there is one plugin.
THEOREM MergesAlwaysSucceed == DirsHaveSize /\ ~Mixed => (Spec => []MergesSucceed)
<1> SUFFICES ASSUME DirsHaveSize, ~Mixed PROVE Spec => []MergesSucceed
  OBVIOUS
<1>1. TreeInv => MergesSucceed
  BY DEF TreeInv, MergesSucceed
<1> QED
  BY <1>1, TreeInvariance, PTL

\* What is called new needs no other image, after any diffs and merges: a new file has its
\* data in the dimg's own body, and nothing below a new directory needs a base.
THEOREM NewStaysSelfContained == DirsHaveSize => (Spec => []NewIsSelfContained)
<1> SUFFICES ASSUME DirsHaveSize PROVE Spec => []NewIsSelfContained
  OBVIOUS
<1>1. TreeInv => NewIsSelfContained
  <2> SUFFICES ASSUME TreeInv, NEW i \in DOMAIN stack, NEW p \in DOMAIN stack[i]
               PROVE  LET e == stack[i][p] IN
                      /\ e.type = "file_new" /\ e.size > 0 => e.body # Nil /\ e.body.from = Nil
                      /\ (\E a \in AtOrAbove[p] : stack[i][a].type = "dir_new") => IsNew(e)
    BY DEF NewIsSelfContained
  <2>1. PICK vs : Versions(vs, stack, image)
    BY DEF TreeInv
  <2>2. stack \in Seq(Dimg) /\ Len(stack) \in Nat /\ i \in 1..Len(stack)
    BY DEF TreeInv
  <2>3. /\ vs[i] \in Images /\ Leads(stack[i], vs[i + 1], vs[i])
        /\ Follows(stack[i], vs[i + 1], vs[i]) /\ DOMAIN stack[i] = DOMAIN vs[i]
    BY <2>1, <2>2 DEF Versions, Leads, Follows
  <2> DEFINE d == stack[i]
  <2>4. /\ d[p] \in Entry /\ Describes(d[p], vs[i][p]) /\ Provides(d[p], vs[i][p], vs[i + 1], p)
        /\ IsFile(d[p]) <=> vs[i][p].kind = "file"
        /\ vs[i][p].kind = "file" => vs[i][p].content \in Contents
    BY <2>3, FilesAreFiles
  <2>5. d[p].type = "file_new" /\ d[p].size > 0 => d[p].body # Nil /\ d[p].body.from = Nil
    <3> SUFFICES ASSUME d[p].type = "file_new", d[p].size > 0
                 PROVE  d[p].body # Nil /\ d[p].body.from = Nil
      OBVIOUS
    <3>1. d[p].body = Full(vs[i][p].content) /\ vs[i][p].content \in Contents
      BY <2>4 DEF Provides, IsFile
    <3> QED
      BY <3>1, BodiesAre DEF Full
  <2>6. ASSUME NEW a \in AtOrAbove[p], d[a].type = "dir_new" PROVE IsNew(d[p])
    <3>1. p \in Paths /\ p \in AtOrAbove[p] /\ a \in DOMAIN d
      BY <2>3, <2>6, TreesAreWhole, AboveTheNext
    <3>2. NeedsNoBase(d, a)
      BY <2>3, <2>6, <3>1 DEF Leads, DirsAreTrue, IsDir
    <3>3. ~IsBaseRequired(d[p])
      BY <2>6, <3>2 DEF NeedsNoBase
    <3>4. IsDir(d[p]) => NeedsNoBase(d, p)
      <4>1. \A q \in DOMAIN d : p \in AtOrAbove[q] => a \in AtOrAbove[q]
        BY <2>3, <2>6, TreesAreWhole, AboveIsAbove
      <4> QED
        BY <3>2, <4>1 DEF NeedsNoBase
    <3>5. IsDir(d[p]) => d[p].type = "dir_new"
      BY <2>3, <3>4 DEF Leads, DirsAreTrue
    <3> QED
      BY <2>4, <3>3, <3>5, NewOrBased DEF IsNew
  <2> QED
    BY <2>5, <2>6
<1> QED
  BY <1>1, TreeInvariance, PTL
------------------------------------------------------------------------------
(* ApplyPatch *)

\* The contents of a version's files.
Files(t) == [p \in {q \in DOMAIN t : t[q].kind = "file"} |-> t[p].content]

\* A new file is read whole from its own dimg.
LEMMA NewIsRead ==
  ASSUME NEW e \in Entry, NEW n, n.kind = "file", n.content \in Contents,
         NEW a, NEW p, Describes(e, n), Provides(e, n, a, p), e.type = "file_new"
  PROVE  ReadFull(e) = n.content
<1>1. e.size = Size[n.content] /\ (e.body = Full(n.content) \/ (e.size = 0 /\ e.body = Nil))
  BY DEF Describes, Provides
<1>2. CASE e.size = 0
  <2>1. (CHOOSE c \in Contents : Size[c] = 0) = n.content
    BY <1>1, <1>2, TreeAssumption
  <2> QED
    BY <1>2, <2>1 DEF ReadFull
<1>3. CASE e.size # 0
  <2>1. e.body = Full(n.content) /\ e.body # Nil
    BY <1>1, <1>3, BodiesAre
  <2> QED
    BY <1>3, <2>1 DEF ReadFull, Full
<1> QED
  BY <1>2, <1>3

\* A delta turns the content that the version below has into the one of its own.
LEMMA DeltaIsPatched ==
  ASSUME NEW e, NEW n, n.content \in Contents, NEW a \in Images, NEW p \in DOMAIN a,
         a[p].kind = "file", Provides(e, n, a, p), e.type = "file_diff"
  PROVE  Patched(a[p].content, e, e.plugin) = n.content
<1>1. e.body = Delta(a[p].content, n.content)
  BY DEF Provides
<1>2. a[p].content \in Contents
  BY TreesAreWhole DEF Node
<1> QED
  BY <1>1, <1>2, BodiesAre DEF Patched, Delta

\* A dimg patches the files of the version it comes from to those of its own.
LEMMA PatchMakesFiles ==
  ASSUME NEW a \in Images, NEW c \in Images, NEW d, Follows(d, a, c)
  PROVE  ApplyPatch(d, Files(a)) = Files(c)
<1>1. DOMAIN d = DOMAIN c
  BY DEF Follows
<1>2. {q \in DOMAIN d : IsFile(d[q])} = {q \in DOMAIN c : c[q].kind = "file"}
  BY <1>1, FilesAreFiles
<1>3. ASSUME NEW p \in DOMAIN c, c[p].kind = "file"
      PROVE  PatchFile(d[p], Files(a), p) = c[p].content
  <2> DEFINE e == d[p]
             old == IF p \in DOMAIN Files(a) THEN Files(a)[p] ELSE Nil
             data == CASE e.type = "file_new" -> ReadFull(e)
                       [] e.type = "file_same" -> old
                       [] e.type = "file_diff" -> Patched(old, e, e.plugin)
  <2>1. /\ e \in Entry /\ Describes(e, c[p]) /\ Provides(e, c[p], a, p)
        /\ IsFile(e) /\ c[p].content \in Contents
    BY <1>3, FilesAreFiles
  <2>2. IsBaseRequired(e) => p \in DOMAIN a /\ a[p].kind = "file" /\ old = a[p].content
    BY <2>1 DEF Provides, Files
  <2>3. PatchFile(e, Files(a), p) = IF DigestOf(e.mode, data) = e.digest THEN data ELSE Nil
    BY DEF PatchFile
  <2> HIDE DEF e, old
  <2>4. data = c[p].content
    <3>1. CASE e.type = "file_new"
      BY <1>3, <2>1, <3>1, NewIsRead
    <3>2. CASE e.type = "file_same"
      BY <2>1, <2>2, <3>2 DEF Provides, IsBaseRequired
    <3>3. CASE e.type = "file_diff"
      BY <2>1, <2>2, <3>3, DeltaIsPatched DEF IsBaseRequired
    <3> QED
      BY <2>1, <3>1, <3>2, <3>3 DEF IsFile
  <2>5. e.digest = DigestOf(e.mode, c[p].content)
    BY <2>1 DEF Describes
  <2> HIDE DEF data
  <2> QED
    BY <2>3, <2>4, <2>5 DEF e
<1> QED
  BY <1>1, <1>2, <1>3 DEF ApplyPatch, Files

\* A stack is patched to the files of its newest version.
LEMMA StackMakesFiles ==
  ASSUME NEW dimgs \in Seq(Dimg), dimgs # <<>>, NEW vs, NEW t, Versions(vs, dimgs, t)
  PROVE  PatchStack(dimgs) = Files(t)
<1> DEFINE n == Len(dimgs)
           E(M) == [k \in 1..n |-> ApplyPatch(dimgs[k], IF k = n THEN <<>> ELSE M[k + 1])]
           Made == CHOOSE M : M = E(M)
           f == [k \in 1..n |-> Files(vs[k])]
<1>1. n \in Nat /\ n >= 1 /\ vs \in [1..n + 1 -> Images] /\ vs[1] = t /\ vs[n + 1] = <<>>
  BY DEF Versions
<1>2. Files(<<>>) = <<>>
  BY DEF Files
<1>3. ASSUME NEW k \in 1..n
      PROVE  ApplyPatch(dimgs[k], Files(vs[k + 1])) = Files(vs[k])
  <2>1. vs[k] \in Images /\ vs[k + 1] \in Images /\ Follows(dimgs[k], vs[k + 1], vs[k])
    BY <1>1 DEF Versions, Leads
  <2> QED
    BY <2>1, PatchMakesFiles
<1>4. PatchStack(dimgs) = Made[1]
  BY Zenon DEF PatchStack
<1> HIDE DEF n
<1>5. ASSUME NEW k \in 1..n
      PROVE  (IF k = n THEN <<>> ELSE f[k + 1]) = Files(vs[k + 1])
  BY <1>1, <1>2
<1>6. f = E(f)
  <2>1. \A k \in 1..n : f[k] = E(f)[k]
    <3> SUFFICES ASSUME NEW k \in 1..n PROVE f[k] = E(f)[k]
      OBVIOUS
    <3>1. f[k] = Files(vs[k])
      OBVIOUS
    <3> HIDE DEF f
    <3>2. E(f)[k] = ApplyPatch(dimgs[k], Files(vs[k + 1]))
      BY <1>5
    <3> QED
      BY <1>3, <3>1, <3>2
  <2>2. f = [k \in 1..n |-> f[k]] /\ E(f) = [k \in 1..n |-> E(f)[k]]
    OBVIOUS
  <2> HIDE DEF f, E
  <2> QED
    BY <2>1, <2>2
<1>7. Made = E(Made)
  <2> HIDE DEF f
  <2> QED
    BY <1>6
<1> DEFINE T == {j \in Nat : j < n => Made[n - j] = Files(vs[n - j])}
<1> HIDE DEF Made
<1>8. 0 \in T
  <2>1. Made[n] = ApplyPatch(dimgs[n], <<>>)
    BY <1>1, <1>7
  <2> QED
    BY <1>1, <1>2, <1>3, <2>1
<1>9. ASSUME NEW j \in Nat, j \in T PROVE j + 1 \in T
  <2> SUFFICES ASSUME j + 1 < n PROVE Made[n - (j + 1)] = Files(vs[n - (j + 1)])
    OBVIOUS
  <2> DEFINE k == n - (j + 1)
  <2>1. k \in 1..n /\ k # n /\ k + 1 = n - j
    BY <1>1
  <2>2. Made[k + 1] = Files(vs[k + 1])
    BY <1>1, <1>9, <2>1
  <2> HIDE DEF k
  <2>3. Made[k] = ApplyPatch(dimgs[k], Made[k + 1])
    BY <1>7, <2>1
  <2> QED
    BY <1>3, <2>1, <2>2, <2>3 DEF k
<1>10. n - 1 \in T
  <2> HIDE DEF T
  <2> QED
    BY <1>1, <1>8, <1>9, SetInduction
<1> QED
  BY <1>1, <1>4, <1>10

\* Patching dimg by dimg makes the files of the newest version, whatever was merged.
THEOREM PatchMakesImage == DirsHaveSize => (Spec => []PatchIsImage)
<1> SUFFICES ASSUME DirsHaveSize PROVE Spec => []PatchIsImage
  OBVIOUS
<1>1. TreeInv => PatchIsImage
  <2> SUFFICES ASSUME TreeInv PROVE PatchIsImage
    OBVIOUS
  <2>1. PICK vs : Versions(vs, stack, image)
    BY DEF TreeInv
  <2>2. PatchStack(stack) = Files(image)
    BY <2>1, StackMakesFiles DEF TreeInv
  <2> QED
    BY <2>2 DEF PatchIsImage, Files
<1> QED
  BY <1>1, TreeInvariance, PTL
------------------------------------------------------------------------------
(* The mount *)

\* The entries of a file from the newest dimg down to the first that is new, at m.
RunsTo(vs, dimgs, p, m) ==
  /\ m \in 1..Len(dimgs) /\ dimgs[m][p].type = "file_new"
  /\ \A i \in 1..m : /\ p \in DOMAIN dimgs[i] /\ p \in DOMAIN vs[i] /\ vs[i][p].kind = "file"
                     /\ i < m => IsBaseRequired(dimgs[i][p])

\* The i-th dimg leads to the i-th version.
LEMMA VersionsAre ==
  ASSUME NEW dimgs \in Seq(Dimg), NEW vs, NEW t, Versions(vs, dimgs, t)
  PROVE  /\ vs[Len(dimgs) + 1] = <<>> /\ vs[1] = t
         /\ \A i \in 1..Len(dimgs) :
              /\ vs[i] \in Images /\ vs[i + 1] \in Images /\ DOMAIN dimgs[i] = DOMAIN vs[i]
              /\ Follows(dimgs[i], vs[i + 1], vs[i])
BY DEF Versions, Leads, Follows

\* Every file has such a run: the last dimg of a stack needs no other.
LEMMA FileRuns ==
  ASSUME NEW dimgs \in Seq(Dimg), dimgs # <<>>, NEW vs, NEW t, Versions(vs, dimgs, t),
         NEW p \in DOMAIN t, t[p].kind = "file"
  PROVE  \E m \in 1..Len(dimgs) : RunsTo(vs, dimgs, p, m)
<1> DEFINE n == Len(dimgs)
           Based(i) == p \in DOMAIN dimgs[i] /\ IsBaseRequired(dimgs[i][p])
           S == {i \in 1..n : ~Based(i)}
<1>1. n \in Nat /\ n >= 1 /\ n \in 1..n
  OBVIOUS
<1>2. /\ vs[n + 1] = <<>> /\ vs[1] = t
      /\ \A i \in 1..n :
           /\ vs[i] \in Images /\ DOMAIN dimgs[i] = DOMAIN vs[i]
           /\ Follows(dimgs[i], vs[i + 1], vs[i])
  BY VersionsAre
<1>3. ASSUME NEW i \in 1..n, Based(i)
      PROVE  p \in DOMAIN vs[i + 1] /\ vs[i + 1][p].kind = "file"
  <2>1. Provides(dimgs[i][p], vs[i][p], vs[i + 1], p)
    BY <1>2, <1>3, FilesAreFiles
  <2> QED
    BY <1>3, <2>1 DEF Provides
<1>4. n \in S
  BY <1>1, <1>2, <1>3
<1>5. S \subseteq Nat
  OBVIOUS
<1> HIDE DEF n
<1>6. PICK m \in S : \A i \in S : m <= i
  <2> HIDE DEF S
  <2> QED
    BY <1>4, <1>5, LeastNatural
<1>7. m \in 1..n /\ ~Based(m) /\ \A i \in 1..n : i < m => Based(i)
  BY <1>1, <1>6
<1> HIDE DEF S, Based
<1>8. ASSUME NEW i \in 1..m
      PROVE  p \in DOMAIN vs[i] /\ vs[i][p].kind = "file"
  <2>1. CASE i = 1
    BY <1>2, <2>1
  <2>2. CASE i # 1
    <3>1. i - 1 \in 1..n /\ i - 1 < m /\ (i - 1) + 1 = i
      BY <1>1, <1>7, <2>2
    <3> QED
      BY <1>3, <1>7, <3>1
  <2> QED
    BY <2>1, <2>2
<1>9. \A i \in 1..m : p \in DOMAIN dimgs[i] /\ (i < m => IsBaseRequired(dimgs[i][p]))
  BY <1>1, <1>2, <1>7, <1>8 DEF Based
<1>10. dimgs[m][p].type = "file_new"
  <2>1. m \in 1..m /\ p \in DOMAIN vs[m] /\ vs[m][p].kind = "file" /\ p \in DOMAIN dimgs[m]
    BY <1>1, <1>7, <1>8, <1>9
  <2>2. IsFile(dimgs[m][p])
    BY <1>2, <1>7, <2>1, FilesAreFiles
  <2> QED
    BY <1>7, <2>1, <2>2 DEF Based, IsFile, IsBaseRequired
<1> QED
  BY <1>7, <1>8, <1>9, <1>10 DEF RunsTo, n

\* How a file is read along its run.
LEMMA RunReads ==
  ASSUME ~Mixed, NEW dimgs \in Seq(Dimg), NEW vs, NEW t, Versions(vs, dimgs, t),
         NEW p, NEW m, RunsTo(vs, dimgs, p, m)
  PROVE  /\ ReadFull(dimgs[m][p]) = vs[m][p].content
         /\ \A i \in 1..m - 1 :
              LET e == dimgs[i][p] IN
              /\ e.type \in {"file_same", "file_diff"}
              /\ e.type = "file_same" => vs[i][p].content = vs[i + 1][p].content
              /\ e.type = "file_diff" =>
                   Patched(vs[i + 1][p].content, e, "bsdiffx") = vs[i][p].content
         /\ \A i \in 1..m : /\ dimgs[i][p].type = "file_diff" => dimgs[i][p].plugin = "bsdiffx"
                            /\ dimgs[i][p].digest = DigestOf(dimgs[i][p].mode, vs[i][p].content)
<1>1. /\ m \in 1..Len(dimgs) /\ Len(dimgs) \in Nat /\ dimgs[m][p].type = "file_new"
      /\ \A i \in 1..m : /\ p \in DOMAIN dimgs[i] /\ p \in DOMAIN vs[i] /\ vs[i][p].kind = "file"
                         /\ i < m => IsBaseRequired(dimgs[i][p])
  BY DEF RunsTo
<1>2. ASSUME NEW i \in 1..m
      PROVE  /\ vs[i] \in Images /\ vs[i + 1] \in Images
             /\ dimgs[i][p] \in Entry /\ Describes(dimgs[i][p], vs[i][p])
             /\ Provides(dimgs[i][p], vs[i][p], vs[i + 1], p) /\ vs[i][p].content \in Contents
  <2>1. i \in 1..Len(dimgs)
    BY <1>1
  <2>2. /\ vs[i] \in Images /\ vs[i + 1] \in Images /\ Follows(dimgs[i], vs[i + 1], vs[i])
    BY <2>1, VersionsAre
  <2> QED
    BY <1>1, <2>2, FilesAreFiles
<1>3. m \in 1..m
  BY <1>1
<1>4. ReadFull(dimgs[m][p]) = vs[m][p].content
  BY <1>1, <1>2, <1>3, NewIsRead
<1>5. ASSUME NEW i \in 1..m, dimgs[i][p].type = "file_diff"
      PROVE  dimgs[i][p].plugin = "bsdiffx"
  BY <1>2, <1>5 DEF Provides
<1>6. ASSUME NEW i \in 1..m - 1
      PROVE  LET e == dimgs[i][p] IN
             /\ e.type \in {"file_same", "file_diff"}
             /\ e.type = "file_same" => vs[i][p].content = vs[i + 1][p].content
             /\ e.type = "file_diff" =>
                  Patched(vs[i + 1][p].content, e, "bsdiffx") = vs[i][p].content
  <2>1. i \in 1..m /\ i < m
    BY <1>1
  <2>2. IsBaseRequired(dimgs[i][p])
    BY <1>1, <2>1
  <2>3. p \in DOMAIN vs[i + 1] /\ vs[i + 1][p].kind = "file"
    BY <1>2, <2>1, <2>2 DEF Provides
  <2>4. dimgs[i][p].type = "file_diff" =>
          Patched(vs[i + 1][p].content, dimgs[i][p], "bsdiffx") = vs[i][p].content
    BY <1>2, <1>5, <2>1, <2>3, DeltaIsPatched
  <2> QED
    BY <1>2, <2>1, <2>2, <2>4 DEF IsBaseRequired, Provides
<1>7. \A i \in 1..m : dimgs[i][p].digest = DigestOf(dimgs[i][p].mode, vs[i][p].content)
  BY <1>2 DEF Describes
<1> QED
  BY <1>4, <1>5, <1>6, <1>7

\* The k-th number of a set that begins with 2..m is k + 1.
LEMMA FirstOfMany ==
  ASSUME NEW n \in Nat, NEW m \in 1..n, NEW has \in SUBSET (2..n), 2..m \subseteq has
  PROVE  /\ Cardinality(has) \in Nat /\ Cardinality(has) >= m - 1
         /\ \A k \in 1..m - 1 : (CHOOSE i \in has : Cardinality({j \in has : j <= i}) = k) = k + 1
<1>1. IsFiniteSet(2..n) /\ IsFiniteSet(has) /\ IsFiniteSet(2..m)
  <2>1. IsFiniteSet(2..n) /\ IsFiniteSet(2..m)
    BY FS_Interval
  <2> QED
    BY <2>1, FS_Subset
<1>0. \A i \in has : i \in Nat /\ i >= 2
  OBVIOUS
<1>2. Cardinality(has) \in Nat /\ Cardinality(2..m) <= Cardinality(has)
  BY <1>1, FS_CardinalityType, FS_Subset
<1>3. \A k \in 1..m : Cardinality(2..k) = k - 1
  BY FS_Interval
<1>4. Cardinality(has) >= m - 1
  BY <1>2, <1>3
<1> DEFINE UpTo(i) == {j \in has : j <= i}
<1>5. ASSUME NEW k \in 1..m - 1 PROVE (CHOOSE i \in has : Cardinality(UpTo(i)) = k) = k + 1
  <2>1. \A i \in 2..k + 1 : i \in has /\ UpTo(i) = 2..i /\ Cardinality(UpTo(i)) = i - 1
    <3> SUFFICES ASSUME NEW i \in 2..k + 1
                 PROVE  i \in has /\ UpTo(i) = 2..i /\ Cardinality(UpTo(i)) = i - 1
      OBVIOUS
    <3>1. i \in 1..m /\ i \in 2..m
      OBVIOUS
    <3>2. UpTo(i) = 2..i
      <4>1. ASSUME NEW j \in UpTo(i) PROVE j \in 2..i
        BY <1>0
      <4>2. ASSUME NEW j \in 2..i PROVE j \in UpTo(i)
        <5>1. j \in 2..m /\ j <= i
          OBVIOUS
        <5> QED
          BY <5>1
      <4> HIDE DEF UpTo
      <4> QED
        BY <4>1, <4>2
    <3> HIDE DEF UpTo
    <3> QED
      BY <1>3, <3>1, <3>2
  <2>2. ASSUME NEW i \in has, i > k + 1 PROVE Cardinality(UpTo(i)) > k
    <3>1. UpTo(k + 1) \cup {i} \subseteq UpTo(i) /\ i \notin UpTo(k + 1)
      <4>1. k + 1 \in Nat /\ i \in Nat
        BY <1>0
      <4>2. \A j \in has : j \in Nat /\ (j <= k + 1 => j <= i)
        BY <1>0, <2>2, <4>1
      <4>3. UpTo(k + 1) \subseteq UpTo(i)
        BY <4>2
      <4>4. i \in UpTo(i)
        BY <2>2, <4>1
      <4>5. ~(i <= k + 1)
        BY <2>2, <4>1
      <4> QED
        BY <4>3, <4>4, <4>5
    <3>2. IsFiniteSet(UpTo(i)) /\ IsFiniteSet(UpTo(k + 1))
      BY <1>1, FS_Subset
    <3>3. Cardinality(UpTo(k + 1)) = k
      <4>1. k + 1 \in 2..k + 1
        OBVIOUS
      <4> HIDE DEF UpTo
      <4> QED
        BY <2>1, <4>1
    <3> HIDE DEF UpTo
    <3>4. IsFiniteSet(UpTo(k + 1) \cup {i}) /\ Cardinality(UpTo(k + 1) \cup {i}) = k + 1
      BY <3>1, <3>2, <3>3, FS_AddElement
    <3>5. Cardinality(UpTo(k + 1) \cup {i}) <= Cardinality(UpTo(i)) /\ Cardinality(UpTo(i)) \in Nat
      BY <3>1, <3>2, FS_Subset, FS_CardinalityType
    <3> QED
      BY <3>4, <3>5
  <2>3. \A i \in has : i \in Nat /\ i >= 2
    OBVIOUS
  <2> HIDE DEF UpTo
  <2>4. \A i \in has : Cardinality(UpTo(i)) = k => i = k + 1
    <3> SUFFICES ASSUME NEW i \in has, Cardinality(UpTo(i)) = k PROVE i = k + 1
      OBVIOUS
    <3>1. ~(i > k + 1)
      BY <2>2
    <3>2. i \in 2..k + 1
      BY <2>3, <3>1
    <3> QED
      BY <2>1, <3>2
  <2>5. k + 1 \in has /\ Cardinality(UpTo(k + 1)) = k
    BY <2>1
  <2> QED
    BY <2>4, <2>5
<1> QED
  BY <1>2, <1>4, <1>5

\* What readBaseFiles makes of a file whose newest entry needs a base is the content that the
\* version before had, and the node's plugin is that of any delta.
LEMMA BaseIsRead ==
  ASSUME ~Mixed, NEW dimgs \in Seq(Dimg), NEW vs, NEW t, Versions(vs, dimgs, t),
         NEW p, NEW m, RunsTo(vs, dimgs, p, m), m # 1
  PROVE  /\ ReadBase(dimgs, p) = vs[2][p].content
         /\ dimgs[1][p].type = "file_diff" => PluginAt(dimgs, p) = "bsdiffx"
<1> DEFINE n == Len(dimgs)
           has == {i \in 2..n : p \in DOMAIN dimgs[i]}
           N == Cardinality(has)
           metas == BaseMeta(dimgs, p)
           all == <<1>> \o metas
           deltas == {k \in DOMAIN all : dimgs[all[k]][p].type = "file_diff"}
           Meta(k) == IF metas[k] = k + 1 THEN dimgs[k + 1][p]
                      ELSE [dimgs[metas[k]][p] EXCEPT !.body = Nil]
           new == {k \in DOMAIN metas : IsNew(Meta(k))}
           first == CHOOSE k \in new : \A j \in new : k <= j
           plugin == PluginAt(dimgs, p)
           E(F) == [j \in 0..first - 1 |->
                     IF j = 0 THEN ReadFull(Meta(first))
                     ELSE IF Meta(first - j).type = "file_same" THEN F[j - 1]
                     ELSE Patched(F[j - 1], Meta(first - j), plugin)]
           From == CHOOSE F : F = E(F)
           f == [j \in 0..m - 2 |-> vs[m - j][p].content]
<1>1. /\ n \in Nat /\ m \in 1..n /\ m - 1 \in 1..n /\ m >= 2
      /\ \A i \in 1..m : p \in DOMAIN dimgs[i]
  BY DEF RunsTo
<1>2. 2..m \subseteq has /\ has \in SUBSET (2..n)
  BY <1>1
<1>3. metas = [k \in 1..N |-> CHOOSE i \in has : Cardinality({j \in has : j <= i}) = k]
  BY DEF BaseMeta
<1> HIDE DEF has, n
<1>4. N \in Nat /\ N >= m - 1
      /\ \A k \in 1..m - 1 : (CHOOSE i \in has : Cardinality({j \in has : j <= i}) = k) = k + 1
  BY <1>1, <1>2, FirstOfMany
<1>5. DOMAIN metas = 1..N /\ \A k \in 1..m - 1 : k \in 1..N /\ metas[k] = k + 1
  <2> HIDE DEF metas, N
  <2>1. DOMAIN metas = 1..N
    BY <1>3
  <2>2. ASSUME NEW k \in 1..m - 1 PROVE k \in 1..N /\ metas[k] = k + 1
    <3>1. k \in 1..N
      BY <1>1, <1>4
    <3>2. metas[k] = CHOOSE i \in has : Cardinality({j \in has : j <= i}) = k
      BY <1>3, <3>1
    <3> QED
      BY <1>4, <3>1, <3>2
  <2> QED
    BY <2>1, <2>2
<1>6. metas \in [1..N -> {metas[k] : k \in 1..N}]
  BY <1>3
<1> HIDE DEF metas, N
<1>7. all \in Seq({1} \cup {metas[k] : k \in 1..N}) /\ Len(all) = N + 1
      /\ \A k \in 1..m : all[k] = k
  <2> DEFINE X == {1} \cup {metas[k] : k \in 1..N}
  <2>1. metas \in Seq(X) /\ Len(metas) = N /\ <<1>> \in Seq(X)
    <3>1. metas \in [1..N -> X]
      BY <1>6
    <3> HIDE DEF X
    <3>2. metas \in Seq(X) /\ Len(metas) = N
      BY <1>4, <3>1
    <3> QED
      BY <3>2 DEF X
  <2> HIDE DEF X
  <2>2. all \in Seq(X) /\ Len(all) = N + 1 /\ all[1] = 1 /\ \A k \in 1..N : all[k + 1] = metas[k]
    BY <1>4, <2>1
  <2>3. ASSUME NEW k \in 1..m PROVE all[k] = k
    <3>1. CASE k = 1
      BY <2>2, <3>1
    <3>2. CASE k # 1
      <4>1. k - 1 \in 1..m - 1 /\ (k - 1) + 1 = k
        BY <1>1, <3>2
      <4> QED
        BY <1>5, <2>2, <4>1
    <3> QED
      BY <3>1, <3>2
  <2> HIDE DEF all
  <2>4. all \in Seq(X) /\ Len(all) = N + 1 /\ \A k \in 1..m : all[k] = k
    BY <2>2, <2>3
  <2> QED
    BY <2>4 DEF X
<1>8. /\ ReadFull(dimgs[m][p]) = vs[m][p].content
      /\ \A i \in 1..m - 1 :
           LET e == dimgs[i][p] IN
           /\ e.type \in {"file_same", "file_diff"}
           /\ e.type = "file_same" => vs[i][p].content = vs[i + 1][p].content
           /\ e.type = "file_diff" => Patched(vs[i + 1][p].content, e, "bsdiffx") = vs[i][p].content
      /\ \A i \in 1..m : dimgs[i][p].type = "file_diff" => dimgs[i][p].plugin = "bsdiffx"
  BY RunReads
<1>9. ASSUME NEW i \in 1..m, dimgs[i][p].type = "file_diff" PROVE plugin = "bsdiffx"
  <2>1. plugin = IF deltas = {} THEN Nil
                 ELSE dimgs[all[CHOOSE k \in deltas : \A j \in deltas : k <= j]][p].plugin
    BY DEF PluginAt, metas
  <2>2. DOMAIN all = 1..N + 1 /\ 1..m \subseteq 1..N + 1
    BY <1>1, <1>4, <1>7
  <2> HIDE DEF all, plugin
  <2>3. i \in deltas /\ deltas \subseteq Nat
    BY <1>4, <1>7, <1>9, <2>2
  <2> DEFINE k == CHOOSE k \in deltas : \A j \in deltas : k <= j
  <2> HIDE DEF deltas
  <2>4. k \in deltas /\ \A j \in deltas : k <= j
    BY <2>3, LeastNatural
  <2> HIDE DEF k
  <2>5. k \in 1..m /\ dimgs[k][p].type = "file_diff"
    BY <1>1, <1>7, <2>2, <2>3, <2>4 DEF deltas
  <2> QED
    BY <1>7, <1>8, <2>1, <2>3, <2>5 DEF k
<1>10. \A k \in 1..m - 1 : Meta(k) = dimgs[k + 1][p]
  BY <1>5
<1>11. new # {} /\ first = m - 1
  <2>1. m - 1 \in new
    <3>1. m - 1 \in 1..m - 1 /\ m - 1 \in DOMAIN metas /\ (m - 1) + 1 = m
      BY <1>1, <1>5
    <3>2. IsNew(dimgs[m][p])
      BY DEF RunsTo, IsNew
    <3> QED
      BY <1>10, <3>1, <3>2
  <2>2. ASSUME NEW k \in new PROVE m - 1 <= k
    <3>1. k \in Nat /\ k >= 1 /\ IsNew(Meta(k))
      BY <1>4, <1>5
    <3> SUFFICES ASSUME k < m - 1 PROVE FALSE
      BY <1>1, <3>1
    <3>2. Meta(k) = dimgs[k + 1][p] /\ k + 1 \in 1..m - 1
      BY <1>1, <1>10, <3>1
    <3> QED
      BY <1>8, <3>1, <3>2 DEF IsNew
  <2>3. new \subseteq Nat
    BY <1>4, <1>5
  <2> HIDE DEF new
  <2>4. \A k \in new : (\A j \in new : k <= j) => k = m - 1
    BY <1>1, <2>1, <2>2, <2>3
  <2> QED
    BY <2>1, <2>2, <2>4
<1>12. ReadBase(dimgs, p) = From[m - 2]
  <2>1. ReadBase(dimgs, p) = IF new = {} THEN "garbage" ELSE From[first - 1]
    BY Zenon DEF ReadBase, metas, Garbage
  <2> HIDE DEF new, From, first
  <2>2. first - 1 = m - 2
    BY <1>1, <1>11
  <2> QED
    BY <1>11, <2>1, <2>2
<1> HIDE DEF Meta, new, plugin
<1>13. ASSUME NEW F
       PROVE  E(F) = [j \in 0..m - 2 |->
                IF j = 0 THEN ReadFull(dimgs[m][p])
                ELSE IF dimgs[m - j][p].type = "file_same" THEN F[j - 1]
                ELSE Patched(F[j - 1], dimgs[m - j][p], plugin)]
  <2> HIDE DEF first
  <2>1. first - 1 = m - 2
    BY <1>1, <1>11
  <2>2. ASSUME NEW j \in 0..m - 2 PROVE Meta(first - j) = dimgs[m - j][p]
    <3>1. first - j \in 1..m - 1 /\ (first - j) + 1 = m - j
      BY <1>1, <1>11
    <3> QED
      BY <1>10, <3>1
  <2>3. Meta(first) = dimgs[m][p]
    <3>1. m - 1 \in 1..m - 1 /\ (m - 1) + 1 = m
      BY <1>1
    <3> QED
      BY <1>10, <1>11, <3>1
  <2> QED
    BY <2>1, <2>2, <2>3
<1> HIDE DEF E, first
<1>14. ASSUME NEW j \in 1..m - 2, NEW data, data = vs[m - j + 1][p].content
       PROVE  (IF dimgs[m - j][p].type = "file_same" THEN data
               ELSE Patched(data, dimgs[m - j][p], plugin)) = vs[m - j][p].content
  <2>1. m - j \in 1..m - 1 /\ m - j \in 1..m
    BY <1>1
  <2> QED
    BY <1>8, <1>9, <1>14, <2>1
<1>15. f = E(f)
  <2>1. ASSUME NEW j \in 0..m - 2
        PROVE  f[j] = IF j = 0 THEN ReadFull(dimgs[m][p])
                      ELSE IF dimgs[m - j][p].type = "file_same" THEN f[j - 1]
                      ELSE Patched(f[j - 1], dimgs[m - j][p], plugin)
    <3>1. f[j] = vs[m - j][p].content
      OBVIOUS
    <3>2. CASE j = 0
      BY <1>1, <1>8, <3>1, <3>2
    <3>3. CASE j # 0
      <4>1. j \in 1..m - 2 /\ j - 1 \in 0..m - 2 /\ m - (j - 1) = m - j + 1
        BY <1>1, <3>3
      <4>2. f[j - 1] = vs[m - j + 1][p].content
        BY <4>1
      <4> HIDE DEF f
      <4> QED
        BY <1>14, <3>1, <3>3, <4>1, <4>2
    <3> QED
      BY <3>2, <3>3
  <2>2. f = [j \in 0..m - 2 |-> f[j]]
    OBVIOUS
  <2> HIDE DEF f
  <2> QED
    BY <1>13, <2>1, <2>2
<1> HIDE DEF f
<1>16. From = E(From)
  BY <1>15
<1> HIDE DEF From
<1> DEFINE T == {j \in Nat : j <= m - 2 => From[j] = vs[m - j][p].content}
<1>17. 0 \in T
  <2>1. From[0] = ReadFull(dimgs[m][p])
    <3>1. 0 \in 0..m - 2
      BY <1>1
    <3>2. From = [j \in 0..m - 2 |->
                    IF j = 0 THEN ReadFull(dimgs[m][p])
                    ELSE IF dimgs[m - j][p].type = "file_same" THEN From[j - 1]
                    ELSE Patched(From[j - 1], dimgs[m - j][p], plugin)]
      BY <1>13, <1>16
    <3> QED
      BY <3>1, <3>2
  <2> QED
    BY <1>1, <1>8, <2>1
<1>18. ASSUME NEW j \in Nat, j \in T PROVE j + 1 \in T
  <2> SUFFICES ASSUME j + 1 <= m - 2 PROVE From[j + 1] = vs[m - (j + 1)][p].content
    OBVIOUS
  <2> DEFINE k == j + 1
  <2>1. k \in 1..m - 2 /\ k \in 0..m - 2 /\ k # 0 /\ k - 1 = j /\ m - j = m - k + 1
    BY <1>1
  <2>2. From[k - 1] = vs[m - k + 1][p].content
    BY <1>1, <1>18, <2>1
  <2> HIDE DEF k, T
  <2>3. From[k] = IF dimgs[m - k][p].type = "file_same" THEN From[k - 1]
                  ELSE Patched(From[k - 1], dimgs[m - k][p], plugin)
    BY <1>13, <1>16, <2>1
  <2>4. From[k] = vs[m - k][p].content
    BY <1>14, <2>1, <2>2, <2>3
  <2> QED
    BY <2>4 DEF k
<1>19. m - 2 \in T
  <2> HIDE DEF T
  <2> QED
    BY <1>1, <1>17, <1>18, SetInduction
<1>20. From[m - 2] = vs[2][p].content
  <2>1. m - (m - 2) = 2
    BY <1>1
  <2> QED
    BY <1>1, <1>19, <2>1
<1>21. 1 \in 1..m
  BY <1>1
<1> QED
  BY <1>9, <1>12, <1>20, <1>21 DEF plugin

\* A file is read with the content that the newest version has.
LEMMA FileIsRead ==
  ASSUME ~Mixed, NEW dimgs \in Seq(Dimg), dimgs # <<>>, NEW vs, NEW t, Versions(vs, dimgs, t),
         NEW p \in DOMAIN t, t[p].kind = "file"
  PROVE  ReadFile(dimgs, p) = t[p].content
<1> DEFINE e == dimgs[1][p]
           data == CASE e.type = "file_new" -> ReadFull(e)
                     [] e.type = "file_same" -> ReadBase(dimgs, p)
                     [] e.type = "file_diff" -> Patched(ReadBase(dimgs, p), e, PluginAt(dimgs, p))
<1>1. PICK m \in 1..Len(dimgs) : RunsTo(vs, dimgs, p, m)
  BY FileRuns
<1>2. vs[1] = t
  BY VersionsAre
<1>3. e.digest = DigestOf(e.mode, t[p].content)
  <2>1. 1 \in 1..m
    OBVIOUS
  <2> QED
    BY <1>1, <1>2, <2>1, RunReads
<1>4. CASE m = 1
  <2>1. e.type = "file_new" /\ ReadFull(e) = t[p].content
    BY <1>1, <1>2, <1>4, RunReads DEF RunsTo
  <2> QED
    BY <1>3, <2>1 DEF ReadFile
<1>5. CASE m # 1
  <2>1. 1 \in 1..m - 1
    BY <1>1, <1>5
  <2>2. /\ e.type \in {"file_same", "file_diff"}
        /\ e.type = "file_same" => vs[1][p].content = vs[2][p].content
        /\ e.type = "file_diff" => Patched(vs[2][p].content, e, "bsdiffx") = vs[1][p].content
    <3>1. vs[1 + 1] = vs[2]
      OBVIOUS
    <3> QED
      BY <1>1, <2>1, <3>1, RunReads
  <2>3. /\ ReadBase(dimgs, p) = vs[2][p].content
        /\ e.type = "file_diff" => PluginAt(dimgs, p) = "bsdiffx"
    BY <1>1, <1>5, BaseIsRead
  <2>4. data = t[p].content
    BY <1>2, <2>2, <2>3
  <2> HIDE DEF e
  <2>5. ReadFile(dimgs, p) = IF DigestOf(e.mode, data) = e.digest THEN data ELSE Nil
    BY Zenon DEF ReadFile, e
  <2> QED
    BY <1>3, <2>4, <2>5
<1> QED
  BY <1>4, <1>5

\* The mount shows the newest version, its tree, its metadata and its contents, whatever was
\* released and merged.
THEOREM MountShowsImage == DirsHaveSize /\ ~Mixed => (Spec => []MountIsImage)
<1> SUFFICES ASSUME DirsHaveSize, ~Mixed PROVE Spec => []MountIsImage
  OBVIOUS
<1>1. TreeInv => MountIsImage
  <2> SUFFICES ASSUME TreeInv PROVE MountIsImage
    OBVIOUS
  <2>1. PICK vs : Versions(vs, stack, image)
    BY DEF TreeInv
  <2>2. stack \in Seq(Dimg) /\ stack # <<>> /\ 1 \in 1..Len(stack)
    BY DEF TreeInv
  <2>3. /\ vs[1] = image /\ image \in Images /\ DOMAIN stack[1] = DOMAIN image
        /\ Follows(stack[1], vs[2], image)
    <3>1. vs[1 + 1] = vs[2]
      OBVIOUS
    <3> QED
      BY <2>1, <2>2, <3>1, VersionsAre
  <2>4. ASSUME NEW p \in DOMAIN image
        PROVE  Describes(stack[1][p], image[p])
    BY <2>3, FilesAreFiles
  <2>5. ASSUME NEW p \in DOMAIN image, image[p].kind = "file"
        PROVE  ReadFile(stack, p) = image[p].content
    BY <2>1, <2>2, <2>5, FileIsRead
  <2> QED
    BY <2>3, <2>4, <2>5 DEF MountIsImage, Describes
<1> QED
  BY <1>1, TreeInvariance, PTL
==============================================================================
