-------------------------- MODULE UpdateServerProofs --------------------------
(***************************************************************************)
(* Proofs about UpdateServer, and the stores and the searches below it, for *)
(* any images, any number of dimgs of them and any number of posts.         *)
(***************************************************************************)
EXTENDS UpdateServer, TLAPS, WellFoundedInduction, FiniteSetTheorems, SequenceTheorems

------------------------------------------------------------------------------
(* Inductions *)

\* A set of natural numbers that is not empty has a least element.
LEMMA LeastNatural ==
  ASSUME NEW T, T \subseteq Nat, T # {}
  PROVE  \E m \in T : \A n \in T : m <= n
<1> DEFINE R == OpToRel(<, Nat)
<1>1. \A x, y \in T : <<y, x>> \in R <=> y < x
  BY DEF OpToRel
<1>2. \E x \in T : \A y \in T : ~ (<<y, x>> \in R)
  BY NatLessThanWellFounded, WFMin, Zenon
<1> HIDE DEF R
<1>3. \E x \in T : \A y \in T : ~(y < x)
  BY <1>1, <1>2
<1> QED
  BY ONLY <1>3, T \subseteq Nat

\* One of a set of bounded natural numbers is the greatest.
LEMMA GreatestNatural ==
  ASSUME NEW T, T \subseteq Nat, T # {}, NEW b \in Nat, \A n \in T : n <= b
  PROVE  \E m \in T : \A n \in T : n <= m
<1> DEFINE U == {b - n : n \in T}
<1>1. U \subseteq Nat /\ U # {}
  <2>1. \A n \in T : n \in Nat /\ n <= b
    OBVIOUS
  <2>2. \A n \in T : b - n \in Nat
    BY <2>1
  <2> QED
    BY <2>2
<1>2. PICK u \in U : \A v \in U : u <= v
  <2> HIDE DEF U
  <2> QED
    BY <1>1, LeastNatural
<1>3. PICK m \in T : u = b - m
  OBVIOUS
<1>4. ASSUME NEW n \in T PROVE n <= m
  <2>1. b - m <= b - n
    BY <1>2, <1>3
  <2> QED
    BY <2>1
<1> QED
  BY <1>4

\* What holds of 0, and of n + 1 when it holds of n, holds of every number.
LEMMA SetInduction ==
  ASSUME NEW S, 0 \in S, \A n \in Nat : n \in S => n + 1 \in S
  PROVE  Nat \subseteq S
<1> SUFFICES ASSUME Nat \ S # {} PROVE FALSE
  OBVIOUS
<1>1. PICK m \in Nat \ S : \A n \in Nat \ S : m <= n
  BY LeastNatural
<1>2. m # 0 /\ m - 1 \in Nat /\ m - 1 \in S
  BY <1>1
<1> QED
  BY <1>1, <1>2

\* What holds of a value when it holds of all that are smaller, by some measure m,
\* holds of every value.
LEMMA MeasureInduction ==
  ASSUME NEW D, NEW m \in [D -> Nat], NEW P,
         \A x \in D : (\A y \in D : m[y] < m[x] => y \in P) => x \in P
  PROVE  D \subseteq P
<1> SUFFICES ASSUME D \ P # {} PROVE FALSE
  OBVIOUS
<1> DEFINE T == {m[x] : x \in D \ P}
<1>1. T \subseteq Nat /\ T # {}
  OBVIOUS
<1>2. PICK k \in T : \A n \in T : k <= n
  <2> HIDE DEF T
  <2> QED
    BY <1>1, LeastNatural
<1>3. PICK x \in D \ P : k = m[x]
  OBVIOUS
<1>4. ASSUME NEW y \in D, m[y] < m[x] PROVE y \in P
  <2> SUFFICES ASSUME y \notin P PROVE FALSE
    OBVIOUS
  <2>1. m[x] <= m[y]
    BY <1>2, <1>3
  <2> QED
    BY <1>4, <2>1
<1> QED
  BY <1>4

\* A function that is given by its values at smaller arguments, by some measure m.
Recurses(G, D, V, m) ==
  \A f, g \in [D -> V], x \in D :
    (\A y \in D : m[y] < m[x] => f[y] = g[y]) => G[<<f, x>>] = G[<<g, x>>]

Solves(f, D, V, G) == f \in [D -> V] /\ \A x \in D : f[x] = G[<<f, x>>]

\* There is one when the measure is bounded.
LEMMA Recursion ==
  ASSUME NEW D, NEW V, V # {}, NEW m \in [D -> Nat],
         NEW b \in Nat, \A x \in D : m[x] <= b,
         NEW G \in [[D -> V] \X D -> V], Recurses(G, D, V, m)
  PROVE  \E f : Solves(f, D, V, G)
<1> DEFINE S == {k \in Nat : \E f \in [D -> V] : \A x \in D : m[x] < k => f[x] = G[<<f, x>>]}
<1>1. 0 \in S
  <2>1. PICK v \in V : TRUE
    OBVIOUS
  <2>2. [x \in D |-> v] \in [D -> V]
    OBVIOUS
  <2>3. \A x \in D : ~(m[x] < 0)
    OBVIOUS
  <2> QED
    BY <2>2, <2>3
<1>2. ASSUME NEW k \in Nat, k \in S PROVE k + 1 \in S
  <2>1. PICK f \in [D -> V] : \A x \in D : m[x] < k => f[x] = G[<<f, x>>]
    BY <1>2
  <2> DEFINE g == [x \in D |-> G[<<f, x>>]]
  <2>2. g \in [D -> V]
    OBVIOUS
  <2>3. ASSUME NEW x \in D, m[x] < k + 1 PROVE g[x] = G[<<g, x>>]
    <3>1. ASSUME NEW y \in D, m[y] < m[x] PROVE f[y] = g[y]
      <4>1. m[y] < k
        BY <2>3, <3>1
      <4> QED
        BY <2>1, <4>1
    <3>2. G[<<f, x>>] = G[<<g, x>>]
      <4> HIDE DEF g
      <4> QED
        BY <2>2, <3>1 DEF Recurses
    <3> QED
      BY <3>2
  <2> HIDE DEF g
  <2> QED
    BY <2>2, <2>3
<1>3. b + 1 \in S
  <2> HIDE DEF S
  <2> QED
    BY <1>1, <1>2, SetInduction
<1>4. PICK f \in [D -> V] : \A x \in D : m[x] < b + 1 => f[x] = G[<<f, x>>]
  BY <1>3
<1>5. \A x \in D : m[x] < b + 1
  OBVIOUS
<1> QED
  BY <1>4, <1>5 DEF Solves

\* A function that is given by its first value and by a step from each value to the
\* next one.
Iterates(f, D, first, G, n) ==
  f \in [0..n -> D] /\ f[0] = first /\ \A k \in 1..n : f[k] = G[f[k - 1]]

\* There is one, in any set that the step does not leave.
LEMMA Iteration ==
  ASSUME NEW D, NEW first \in D, NEW G \in [D -> D], NEW n \in Nat
  PROVE  \E f : Iterates(f, D, first, G, n)
<1> DEFINE S == {m \in Nat : \E f : Iterates(f, D, first, G, m)}
<1>1. 0 \in S
  <2> DEFINE f == [k \in 0..0 |-> first]
  <2>1. f \in [0..0 -> D] /\ f[0] = first
    OBVIOUS
  <2>2. \A k \in 1..0 : FALSE
    OBVIOUS
  <2> HIDE DEF f
  <2> QED
    BY <2>1, <2>2 DEF Iterates
<1>2. ASSUME NEW m \in Nat, m \in S PROVE m + 1 \in S
  <2>1. PICK f : Iterates(f, D, first, G, m)
    BY <1>2
  <2>2. f \in [0..m -> D] /\ f[0] = first /\ \A k \in 1..m : f[k] = G[f[k - 1]]
    BY <2>1 DEF Iterates
  <2> DEFINE g == [k \in 0..m + 1 |-> IF k = m + 1 THEN G[f[m]] ELSE f[k]]
  <2>3. g \in [0..m + 1 -> D] /\ g[0] = first
    BY <2>2
  <2>4. ASSUME NEW k \in 1..m + 1 PROVE g[k] = G[g[k - 1]]
    BY <2>2
  <2> HIDE DEF g
  <2> QED
    BY <2>3, <2>4 DEF Iterates
<1>3. n \in S
  <2> HIDE DEF S
  <2> QED
    BY <1>1, <1>2, SetInduction
<1> QED
  BY <1>3

\* What no step leaves holds of every value.
LEMMA IterationStays ==
  ASSUME NEW W, NEW D, NEW n \in Nat, W[0] \in D,
         \A k \in 1..n : W[k - 1] \in D => W[k] \in D
  PROVE  \A k \in 0..n : W[k] \in D
<1> DEFINE T == {k \in Nat : k <= n => W[k] \in D}
<1>1. 0 \in T
  OBVIOUS
<1>2. ASSUME NEW k \in Nat, k \in T PROVE k + 1 \in T
  <2>1. CASE k + 1 <= n
    <3>1. k + 1 \in 1..n /\ (k + 1) - 1 = k /\ W[k] \in D
      BY <1>2, <2>1
    <3> QED
      BY <3>1
  <2> QED
    BY <2>1
<1>3. Nat \subseteq T
  <2> HIDE DEF T
  <2> QED
    BY <1>1, <1>2, SetInduction
<1> QED
  BY <1>3
------------------------------------------------------------------------------
(* What a search may answer *)

\* The nodes that Within collects are the start and targets of edges.
LEMMA WithinGraph ==
  ASSUME NEW ls, IsFiniteSet(ls), NEW s, NEW avoid,
         NEW S, s \in S, \A l \in ls : l.next \in S
  PROVE  Within(ls, s, avoid) \subseteq S
<1> DEFINE n == Cardinality(ls)
           D == SUBSET S
           first == {s} \ avoid
           F(v) == v \cup {l.next : l \in {m \in ls : m.src \in v /\ m.next \notin avoid}}
           G == [v \in D |-> F(v)]
           W == CHOOSE w : w = [k \in 0..n |-> IF k = 0 THEN first ELSE F(w[k - 1])]
<1>1. Within(ls, s, avoid) = W[n]
  BY DEF Within
<1>2. n \in Nat
  BY FS_CardinalityType
<1>3. first \in D /\ \A v \in D : F(v) \in D
  OBVIOUS
<1> HIDE DEF n, D, first, F, W
<1>4. G \in [D -> D] /\ \A v \in D : G[v] = F(v)
  BY <1>3
<1> HIDE DEF G
<1>5. PICK f : Iterates(f, D, first, G, n)
  BY <1>2, <1>3, <1>4, Iteration
<1>6. f \in [0..n -> D] /\ f[0] = first /\ \A k \in 1..n : f[k] = F(f[k - 1])
  <2>1. f \in [0..n -> D] /\ f[0] = first /\ \A k \in 1..n : f[k] = G[f[k - 1]]
    BY <1>5 DEF Iterates
  <2>2. \A k \in 1..n : f[k - 1] \in D
    BY <1>2, <2>1
  <2> QED
    BY <1>4, <2>1, <2>2
<1>7. f = [k \in 0..n |-> IF k = 0 THEN first ELSE F(f[k - 1])]
  BY <1>2, <1>6
<1>8. W = [k \in 0..n |-> IF k = 0 THEN first ELSE F(W[k - 1])]
  BY <1>7 DEF W
<1>9. W[0] = first /\ \A k \in 1..n : W[k] = F(W[k - 1])
  BY <1>2, <1>8
<1>10. \A k \in 0..n : W[k] \in D
  BY <1>2, <1>3, <1>9, IterationStays
<1> QED
  BY <1>1, <1>2, <1>10 DEF D

\* A sequence of edges of ls, each of which begins where the one before it ends.
Connected(r, ls, s) ==
  /\ r \in Seq(ls)
  /\ r # <<>> => r[1].src = s
  /\ \A i \in 1..Len(r) - 1 : r[i].next = r[i + 1].src

RouteEnd(r, s) == IF r = <<>> THEN s ELSE r[Len(r)].next

\* A route that is connected stays it with a link from where it ends.
LEMMA ConnectedAppend ==
  ASSUME NEW ls, NEW s, NEW r, Connected(r, ls, s), NEW l \in ls, l.src = RouteEnd(r, s)
  PROVE  Connected(Append(r, l), ls, s)
<1> DEFINE q == Append(r, l)
<1>1. /\ r \in Seq(ls) /\ Len(r) \in Nat /\ q \in Seq(ls) /\ Len(q) = Len(r) + 1
      /\ q[Len(r) + 1] = l /\ \A i \in 1..Len(r) : q[i] = r[i]
  BY DEF Connected
<1>2. q # <<>> => q[1].src = s
  <2>1. CASE r = <<>>
    BY <1>1, <2>1 DEF RouteEnd
  <2>2. CASE r # <<>>
    BY <1>1, <2>2 DEF Connected
  <2> QED
    BY <2>1, <2>2
<1>3. ASSUME NEW i \in 1..Len(q) - 1 PROVE q[i].next = q[i + 1].src
  <2>1. CASE i = Len(r)
    <3>1. r # <<>> /\ q[i] = r[i] /\ q[i + 1] = l
      BY <1>1, <2>1
    <3> QED
      BY <2>1, <3>1 DEF RouteEnd
  <2>2. CASE i # Len(r)
    <3>1. i \in 1..Len(r) - 1 /\ q[i] = r[i] /\ q[i + 1] = r[i + 1]
      BY <1>1, <2>2
    <3> QED
      BY <3>1 DEF Connected
  <2> QED
    BY <2>1, <2>2
<1> HIDE DEF q
<1> QED
  BY <1>1, <1>2, <1>3 DEF Connected, q

\* The routes a search may choose from lead along edges from s to a goal.
LEMMA RoutesAreConnected ==
  ASSUME NEW ls, IsFiniteSet(ls), NEW s, NEW gs, NEW avoid
  PROVE  \A r \in Routes(ls, s, gs, avoid) : Connected(r, ls, s) /\ RouteEnd(r, s) \in gs
<1> DEFINE n == Cardinality(ls)
           D == SUBSET {r \in Seq(ls) : Connected(r, ls, s)}
           first == {<<>>}
           Visited(r) == {s} \cup {r[i].next : i \in DOMAIN r}
           Extend(rs) == UNION {{Append(r, l) : l \in {m \in ls : /\ m.src = RouteEnd(r, s)
                                                                 /\ m.next \notin avoid \cup Visited(r)}} :
                                r \in {q \in rs : RouteEnd(q, s) \notin gs}}
           F(v) == v \cup Extend(v)
           G == [v \in D |-> F(v)]
           W == CHOOSE w : w = [k \in 0..n |-> IF k = 0 THEN first ELSE F(w[k - 1])]
<1>1. \A r \in Routes(ls, s, gs, avoid) : r \in W[n] /\ RouteEnd(r, s) \in gs
  BY DEF Routes, RouteEnd
<1>2. n \in Nat
  BY FS_CardinalityType
<1>3. first \in D /\ \A v \in D : F(v) \in D
  <2>1. Connected(<<>>, ls, s) /\ <<>> \in Seq(ls)
    BY DEF Connected
  <2>2. ASSUME NEW v \in D, NEW r \in v, NEW l \in ls, l.src = RouteEnd(r, s)
        PROVE  Append(r, l) \in {q \in Seq(ls) : Connected(q, ls, s)}
    <3>1. Connected(Append(r, l), ls, s)
      BY <2>2, ConnectedAppend
    <3> QED
      BY <3>1 DEF Connected
  <2>3. ASSUME NEW v \in D PROVE Extend(v) \subseteq {q \in Seq(ls) : Connected(q, ls, s)}
    <3>1. ASSUME NEW x \in Extend(v)
          PROVE  \E r \in v, l \in ls : l.src = RouteEnd(r, s) /\ x = Append(r, l)
      BY <3>1
    <3> HIDE DEF Extend
    <3> QED
      BY <2>2, <2>3, <3>1
  <2> HIDE DEF Extend
  <2> QED
    BY <2>1, <2>3
<1> HIDE DEF n, D, first, F, W
<1>4. G \in [D -> D] /\ \A v \in D : G[v] = F(v)
  BY <1>3
<1> HIDE DEF G
<1>5. PICK f : Iterates(f, D, first, G, n)
  BY <1>2, <1>3, <1>4, Iteration
<1>6. f \in [0..n -> D] /\ f[0] = first /\ \A k \in 1..n : f[k] = F(f[k - 1])
  <2>1. f \in [0..n -> D] /\ f[0] = first /\ \A k \in 1..n : f[k] = G[f[k - 1]]
    BY <1>5 DEF Iterates
  <2>2. \A k \in 1..n : f[k - 1] \in D
    BY <1>2, <2>1
  <2> QED
    BY <1>4, <2>1, <2>2
<1>7. f = [k \in 0..n |-> IF k = 0 THEN first ELSE F(f[k - 1])]
  BY <1>2, <1>6
<1>8. W = [k \in 0..n |-> IF k = 0 THEN first ELSE F(W[k - 1])]
  BY <1>7 DEF W
<1>9. W[0] = first /\ \A k \in 1..n : W[k] = F(W[k - 1])
  BY <1>2, <1>8
<1>10. \A k \in 0..n : W[k] \in D
  BY <1>2, <1>3, <1>9, IterationStays
<1> QED
  BY <1>1, <1>2, <1>10 DEF D

\* What a search leaves marked, and what its answer is when it is a path.
LEMMA RepliesAre ==
  ASSUME NEW ns, NEW ls, IsFiniteSet(ls), NEW s, NEW gs, NEW avoid,
         NEW S, s \in S, avoid \subseteq S, \A l \in ls : l.next \in S,
         NEW reply \in Replies(ns, ls, avoid, s, gs)
  PROVE  /\ reply[2] \subseteq S
         /\ reply[1].kind = "path" => /\ Connected(reply[1].route, ls, s)
                                      /\ RouteEnd(reply[1].route, s) \in gs
<1> DEFINE rs == Routes(ls, s, gs, avoid)
<1>1. \A r \in rs : Connected(r, ls, s) /\ RouteEnd(r, s) \in gs
  BY RoutesAreConnected
<1>2. Within(ls, s, avoid) \subseteq S
  BY WithinGraph
<1> HIDE DEF rs
<1>3. CASE reply = <<UnknownStart, avoid>>
  BY <1>3 DEF UnknownStart
<1>4. CASE reply = <<NoPath, avoid \cup Within(ls, s, avoid)>>
  BY <1>2, <1>4 DEF NoPath
<1>5. CASE \E r \in Cheapest(rs) : reply = <<Path(r), {}>>
  BY <1>1, <1>5 DEF Path, Cheapest
<1> QED
  BY <1>3, <1>4, <1>5 DEF Replies, rs
------------------------------------------------------------------------------
(* The tasks of a merge *)

\* Half of a stretch of dimgs is shorter than the stretch, and is not empty.
LEMMA HalvesAreShorter ==
  ASSUME NEW lo \in Nat, NEW hi \in Nat, lo < hi
  PROVE  LET mid == lo + (hi - lo + 1) \div 2
         IN mid \in Nat /\ lo < mid /\ mid <= hi
<1>1. (hi - lo + 1) \div 2 \in Nat /\ 0 < (hi - lo + 1) \div 2 /\ (hi - lo + 1) \div 2 <= hi - lo
  OBVIOUS
<1> QED
  BY <1>1

\* The stretches of dimgs that buildMergeDimgTask makes tasks of lie in the chain and
\* are two dimgs long at least.
LEMMA TasksAreStretches ==
  ASSUME NEW n \in Nat, n >= 1
  PROVE  \A s \in Tasks(n) : s \in (1..n) \X (1..n) /\ s[1] < s[2]
<1> DEFINE D == (1..n) \X (1..n)
           V == SUBSET {s \in D : s[1] < s[2]}
           Mid(t) == t[1] + (t[2] - t[1] + 1) \div 2
           Upper(t) == <<t[1], Mid(t) - 1>>
           Lower(t) == <<Mid(t), t[2]>>
           F(f, t) == IF t[1] >= t[2] THEN {} ELSE {t} \cup f[Upper(t)] \cup f[Lower(t)]
           m == [t \in D |-> IF t[1] < t[2] THEN t[2] - t[1] ELSE 0]
           G == [a \in [D -> V] \X D |-> F(a[1], a[2])]
           T == CHOOSE f : f = [t \in D |-> F(f, t)]
<1>1. Tasks(n) = T[<<1, n>>]
  BY DEF Tasks
<1>2. ASSUME NEW t \in D, t[1] < t[2]
      PROVE  /\ Upper(t) \in D /\ Lower(t) \in D
             /\ m[Upper(t)] < m[t] /\ m[Lower(t)] < m[t]
  <2>1. Mid(t) \in Nat /\ t[1] < Mid(t) /\ Mid(t) <= t[2]
    BY <1>2, HalvesAreShorter
  <2> HIDE DEF Mid
  <2>2. Mid(t) \in 1..n /\ Mid(t) - 1 \in 1..n
    BY <2>1
  <2>3. Upper(t) \in D /\ Lower(t) \in D
    BY <2>2
  <2> QED
    BY <1>2, <2>1, <2>3
<1>3. m \in [D -> Nat] /\ \A t \in D : m[t] <= n
  OBVIOUS
<1> HIDE DEF Mid, Upper, Lower, m
<1>4. ASSUME NEW f, NEW t \in D, \A u \in D : m[u] < m[t] => f[u] \in V
      PROVE  F(f, t) \in V
  <2>1. CASE t[1] >= t[2]
    BY <2>1
  <2>2. CASE t[1] < t[2]
    BY <1>2, <1>4, <2>2
  <2> QED
    BY <2>1, <2>2
<1>5. G \in [[D -> V] \X D -> V]
  <2>1. \A f \in [D -> V], t \in D : F(f, t) \in V
    BY <1>4
  <2> HIDE DEF D, V, F
  <2> QED
    BY <2>1
<1>6. ASSUME NEW f \in [D -> V], NEW g \in [D -> V], NEW t \in D,
             \A u \in D : m[u] < m[t] => f[u] = g[u]
      PROVE  F(f, t) = F(g, t)
  <2>1. CASE t[1] >= t[2]
    BY <2>1
  <2>2. CASE t[1] < t[2]
    BY <1>2, <1>6, <2>2
  <2> QED
    BY <2>1, <2>2
<1> HIDE DEF F, T
<1>7. \A f \in [D -> V], t \in D : G[<<f, t>>] = F(f, t)
  OBVIOUS
<1> HIDE DEF G
<1>8. PICK f \in [D -> V] : \A t \in D : f[t] = F(f, t)
  <2>1. V # {}
    OBVIOUS
  <2> HIDE DEF D, V
  <2>2. Recurses(G, D, V, m)
    BY <1>6, <1>7 DEF Recurses
  <2>3. \E f : Solves(f, D, V, G)
    BY <1>3, <1>5, <2>1, <2>2, Recursion
  <2> QED
    BY <1>7, <2>3 DEF Solves
<1>9. f = [t \in D |-> F(f, t)]
  BY <1>8
<1>10. T = [t \in D |-> F(T, t)]
  BY <1>9 DEF T
<1>11. \A t \in D : T[t] \in V
  <2> DEFINE P == {t \in D : T[t] \in V}
  <2>1. \A t \in D : (\A u \in D : m[u] < m[t] => u \in P) => t \in P
    BY <1>4, <1>10
  <2> HIDE DEF D, V, P
  <2>2. D \subseteq P
    BY <1>3, <2>1, MeasureInduction
  <2> QED
    BY <2>2 DEF P
<1>12. <<1, n>> \in D
  OBVIOUS
<1> QED
  BY <1>1, <1>11, <1>12
------------------------------------------------------------------------------
(* The inductive invariant *)

Paths == Digests \cup {Temp(p) : p \in Posters} \cup {MergedFile(d) : d \in Digests}
Body == (Names \cup {Nil}) \X (Names \cup {Nil})
Entry == [id : Names, parent : Names, body : Body, path : Paths]
Post == [at : {"idle", "written", "adding", "linking", "entering", "tagging"},
         dimg : Digests \cup {Nil}, tag : Tags \cup {NoTag}, current : BOOLEAN]
Job == [id : Names \cup {Nil}, goals : SUBSET Names, seen : SUBSET Link,
        chain : Seq(Digests), got : Seq(Entry), live : SUBSET Digests,
        status : {"none", "running", "ok", "bad request", "internal error", "panic", "crash", "hung"},
        reply : Entry \cup {Nil}]

Typed ==
  /\ nodes \subseteq Names /\ links \subseteq Link /\ marked \subseteq Names
  /\ files \subseteq Paths
  /\ DOMAIN entries \subseteq Digests /\ entries \in [DOMAIN entries -> Entry]
  /\ DOMAIN tags \subseteq Tags /\ tags \in [DOMAIN tags -> Names]
  /\ lock \in {"free", "making", "walking", "searching", "merging", "responding"}
  /\ storeLock \in Posters \cup {Nil}
  /\ post \in [Posters -> Post]
  /\ job \in Job

\* What a post has done so far is there, unless a cleanup came in between.
InPlace(p) ==
  /\ post[p].at # "idle" => post[p].dimg \in Digests
  /\ post[p].at = "tagging" => post[p].tag \in Tags
  /\ Temp(p) \in files => post[p].at \in {"written", "adding"}
  /\ ~torn => /\ post[p].at \in {"adding", "linking"} => post[p].current
              /\ post[p].at \in {"linking", "entering"} => post[p].dimg \in files
              /\ post[p].at \in {"entering", "tagging"} => IdOf[post[p].dimg] \in nodes

PostsInPlace == \A p \in Posters : InPlace(p)

\* An edge of the graph is that of a dimg, and the right way round unless a Walk
\* made it.
OfDimg(l) == /\ l.name \in Digests
             /\ \/ l = AddedLink(l.name)
                \/ l = WalkedLink(l.name) /\ l.name \in walked

LinksOfDimgs == \A l \in links \cup job.seen : OfDimg(l)

\* Whoever holds ds.lock for something else, there is no update.
JobOfLock ==
  /\ lock \in {"free", "making", "walking"} => job = NoJob
  /\ lock \in {"searching", "merging"} => job.status = "running"
  /\ lock = "searching" => job.id \in Names

\* The entries that an update has looked up say what they are.
GotHeadersAreTrue ==
  /\ Len(job.got) = Len(job.chain)
  /\ \A i \in 1..Len(job.got) :
       job.got[i].body # Corrupt => job.got[i].body = <<job.got[i].parent, job.got[i].id>>

\* They are a stack from the image that was asked for to one the client has.
ChainFits(c) ==
  /\ IdOf[c[1]] = job.id
  /\ ParentOf[c[Len(c)]] \in job.goals
  /\ BuildsOn(c)

ChainIsStack ==
  lock = "merging" =>
    /\ job.chain # <<>>
    /\ (\A i \in 1..Len(job.chain) : job.chain[i] \notin walked) => ChainFits(job.chain)

\* No entry refers to a file that is still to be renamed.
PathsStay ==
  ~torn /\ lock \notin {"making", "walking"} =>
    \A d \in DOMAIN entries : entries[d].path \in files \ {Temp(p) : p \in Posters}

ServerInv ==
  /\ Typed /\ PostsInPlace /\ LinksOfDimgs /\ JobOfLock /\ GotHeadersAreTrue
  /\ ChainIsStack /\ PathsStay /\ HeadersAreTrue /\ TagsAreKnown /\ PlainUpdateApplies
------------------------------------------------------------------------------
(* What a merge writes *)

TrueHeader(e) == e.body # Corrupt => e.body = <<e.parent, e.id>>

\* MergeDimg over entries that say what they are writes one that does, or one that
\* is of no use.
LEMMA MergeOfIsEntry ==
  ASSUME NEW es \in Seq(Entry), es # <<>>, NEW path \in Paths,
         \A i \in 1..Len(es) : TrueHeader(es[i])
  PROVE  MergeOf(es, path) \in Entry /\ TrueHeader(MergeOf(es, path))
<1> DEFINE n == Len(es)
<1>1. n \in Nat /\ 1 \in 1..n /\ n \in 1..n /\ es[1] \in Entry /\ es[n] \in Entry /\ DOMAIN es = 1..n
  OBVIOUS
<1>2. es[1].id \in Names /\ es[n].parent \in Names /\ es[n].body[1] \in Names \cup {Nil}
      /\ es[1].body[2] \in Names \cup {Nil}
  BY <1>1 DEF Entry, Body
<1>3. Composed(es) \in Body
  BY <1>2 DEF Composed, Corrupt, Body
<1>4. ASSUME Composed(es) # Corrupt
      PROVE  Composed(es) = <<es[n].parent, es[1].id>>
  <2>1. /\ \A i \in 1..n : es[i].body # Corrupt
        /\ Composed(es) = <<es[n].body[1], es[1].body[2]>>
    BY <1>1, <1>4 DEF Composed
  <2>2. es[n].body = <<es[n].parent, es[n].id>> /\ es[1].body = <<es[1].parent, es[1].id>>
    BY <1>1, <2>1 DEF TrueHeader
  <2> QED
    BY <2>1, <2>2
<1>5. MergeOf(es, path) \in Entry
  BY <1>2, <1>3 DEF MergeOf, Entry
<1>6. TrueHeader(MergeOf(es, path))
  BY <1>4 DEF MergeOf, TrueHeader
<1> QED
  BY <1>5, <1>6

\* The entries after some tasks are done: those that no task has overwritten, and
\* those that say what the merged files are.
LEMMA AfterTasksAreEntries ==
  ASSUME Typed, GotHeadersAreTrue, HeadersAreTrue, job.chain # <<>>,
         NEW done, done \subseteq Tasks(Len(job.chain))
  PROVE  LET es == AfterTasks(entries, done)
         IN /\ DOMAIN es = DOMAIN entries
            /\ es \in [DOMAIN es -> Entry]
            /\ Written(done) \subseteq {MergedFile(d) : d \in Digests}
            /\ \A d \in DOMAIN es :
                 /\ TrueHeader(es[d])
                 /\ es[d].path = entries[d].path \/ es[d].path \in Written(done)
<1> DEFINE n == Len(job.chain)
           es == AfterTasks(entries, done)
<1>1. /\ n \in Nat /\ n >= 1 /\ job.chain \in Seq(Digests) /\ job.got \in Seq(Entry)
      /\ Len(job.got) = n
  <2>1. job.chain \in Seq(Digests) /\ job.got \in Seq(Entry)
    BY DEF Typed, Job
  <2> QED
    BY <2>1 DEF GotHeadersAreTrue
<1>2. \A s \in done : s \in (1..n) \X (1..n) /\ s[1] < s[2]
  BY <1>1, TasksAreStretches
<1>3. Written(done) \subseteq {MergedFile(d) : d \in Digests}
  BY <1>1, <1>2 DEF Written
<1>4. DOMAIN es = DOMAIN entries
  BY DEF AfterTasks
<1>5. ASSUME NEW d \in DOMAIN entries
      PROVE  /\ es[d] \in Entry /\ TrueHeader(es[d])
             /\ es[d].path = entries[d].path \/ es[d].path \in Written(done)
  <2> DEFINE mine == {s \in done : job.chain[s[1]] = d}
  <2>1. CASE mine = {} \/ d \notin job.live
    <3>1. es[d] = entries[d]
      BY <2>1 DEF AfterTasks
    <3>2. entries[d] \in Entry /\ TrueHeader(entries[d])
      BY DEF Typed, HeadersAreTrue, TrueHeader
    <3> QED
      BY <3>1, <3>2
  <2>2. CASE mine # {} /\ d \in job.live
    <3> DEFINE T == {s[2] : s \in mine}
               s == CHOOSE s \in mine : \A u \in mine : u[2] <= s[2]
    <3>1. T \subseteq Nat /\ T # {} /\ \A k \in T : k <= n
      BY <1>2, <2>2
    <3>2. PICK k \in T : \A j \in T : j <= k
      <4> HIDE DEF T
      <4> QED
        BY <1>1, <3>1, GreatestNatural
    <3>3. \E r \in mine : \A u \in mine : u[2] <= r[2]
      BY <3>2
    <3>4. s \in mine
      BY <3>3
    <3>5. es[d] = MergeOf(SubSeq(job.got, s[1], s[2]), MergedFile(d))
      BY <2>2 DEF AfterTasks, Overwritten
    <3> HIDE DEF s
    <3>6. s \in done /\ job.chain[s[1]] = d /\ s \in (1..n) \X (1..n) /\ s[1] < s[2]
      BY <1>2, <3>4
    <3> DEFINE q == SubSeq(job.got, s[1], s[2])
    <3>7. q \in Seq(Entry) /\ q # <<>>
          /\ \A i \in 1..Len(q) : \E j \in 1..Len(job.got) : q[i] = job.got[j]
      <4>1. s[1] \in 1..Len(job.got) /\ s[2] \in 1..Len(job.got) /\ s[1] <= s[2]
        BY <1>1, <3>6
      <4>2. q \in Seq(Entry) /\ Len(q) = s[2] - s[1] + 1
            /\ \A i \in 1..Len(q) : q[i] = job.got[s[1] + i - 1]
        <5>1. \A i \in s[1]..s[2] : job.got[i] \in Entry
          BY <1>1, <4>1
        <5>2. /\ q \in Seq(Entry)
              /\ Len(q) = IF s[1] <= s[2] THEN s[2] - s[1] + 1 ELSE 0
              /\ \A i \in 1..s[2] - s[1] + 1 : q[i] = job.got[s[1] + i - 1]
          BY <3>6, <5>1, SubSeqProperties
        <5> HIDE DEF q
        <5> QED
          BY <4>1, <5>2
      <4>3. \A i \in 1..Len(q) : s[1] + i - 1 \in 1..Len(job.got)
        BY <4>1, <4>2
      <4>4. Len(q) > 0
        BY <4>1, <4>2
      <4> HIDE DEF q
      <4> QED
        BY <4>2, <4>3, <4>4
    <3>8. \A i \in 1..Len(q) : TrueHeader(q[i])
      BY <3>7 DEF GotHeadersAreTrue, TrueHeader
    <3>9. d \in Digests /\ MergedFile(d) \in Paths /\ MergedFile(d) \in Written(done)
      BY <3>6 DEF Typed, Paths, Written
    <3> HIDE DEF q
    <3>10. MergeOf(q, MergedFile(d)) \in Entry /\ TrueHeader(MergeOf(q, MergedFile(d)))
      BY <3>7, <3>8, <3>9, MergeOfIsEntry
    <3>11. MergeOf(q, MergedFile(d)).path = MergedFile(d)
      BY DEF MergeOf
    <3> QED
      BY <3>5, <3>9, <3>10, <3>11 DEF q
  <2> QED
    BY <2>1, <2>2
<1>6. es \in [DOMAIN es -> Entry]
  <2>1. es = [d \in DOMAIN es |-> es[d]]
    BY DEF AfterTasks
  <2> HIDE DEF es
  <2> QED
    BY <1>4, <1>5, <2>1
<1> HIDE DEF es
<1> QED
  BY <1>3, <1>4, <1>5, <1>6 DEF es
------------------------------------------------------------------------------
(* The steps of a post *)

JobInv == LinksOfDimgs /\ JobOfLock /\ GotHeadersAreTrue /\ ChainIsStack /\ PlainUpdateApplies

\* Nothing but the list of its live entries changes in an update.
LEMMA JobIsKept ==
  ASSUME Typed, JobInv, UNCHANGED <<links, walked, lock>>,
         NEW live, live \subseteq job.live, job' = [job EXCEPT !.live = live]
  PROVE  job' \in Job /\ JobInv'
<1>1. job \in Job
  BY DEF Typed
<1>2. /\ job'.id = job.id /\ job'.goals = job.goals /\ job'.seen = job.seen
      /\ job'.chain = job.chain /\ job'.got = job.got /\ job'.live = live
      /\ job'.status = job.status /\ job'.reply = job.reply
  BY <1>1 DEF Job
<1>3. job' \in Job
  BY <1>1 DEF Job
<1>4. job = NoJob => job' = NoJob
  <2>1. job = NoJob => live = job.live
    BY DEF NoJob
  <2>2. [job EXCEPT !.live = job.live] = job
    BY <1>1 DEF Job
  <2> QED
    BY <2>1, <2>2
<1>5. LinksOfDimgs'
  BY <1>2 DEF JobInv, LinksOfDimgs, OfDimg
<1>6. JobOfLock'
  BY <1>2, <1>4 DEF JobInv, JobOfLock
<1>7. GotHeadersAreTrue'
  BY <1>2 DEF JobInv, GotHeadersAreTrue
<1>8. ChainIsStack'
  BY <1>2 DEF JobInv, ChainIsStack, ChainFits
<1>9. PlainUpdateApplies'
  BY <1>2 DEF JobInv, PlainUpdateApplies, Applies
<1> QED
  BY <1>3, <1>5, <1>6, <1>7, <1>8, <1>9 DEF JobInv

\* A step that touches neither the lock nor the links leaves the update as it was.
LEMMA JobIsUntouched ==
  ASSUME Typed, JobInv, UNCHANGED <<links, walked, lock, job>>
  PROVE  job' \in Job /\ JobInv'
<1>1. job' = [job EXCEPT !.live = job.live]
  BY DEF Typed, Job
<1> QED
  BY <1>1, JobIsKept

\* The invariant, in the parts that the steps disturb together.
LEMMA InvInParts ==
  ServerInv <=> /\ Typed /\ PostsInPlace /\ JobInv
                /\ PathsStay /\ HeadersAreTrue /\ TagsAreKnown
BY DEF ServerInv, JobInv

\* The files that posts receive into have names of their own.
LEMMA TempsDiffer ==
  ASSUME NEW p \in Posters
  PROVE  /\ \A q \in Posters : Temp(q) = Temp(p) => q = p
         /\ \A d \in Digests : Temp(p) # d /\ Temp(p) # MergedFile(d)
BY ServerAssumption DEF Temp, MergedFile

\* A post writes its upload into a file that nobody else has.
LEMMA PostReceiveKeeps ==
  ASSUME ServerInv, NEW p \in Posters, PostReceive(p)
  PROVE  ServerInv'
<1>1. Typed /\ PostsInPlace /\ JobInv /\ PathsStay /\ HeadersAreTrue /\ TagsAreKnown
  BY InvInParts
<1>2. PICK d \in Digests, t \in Tags \cup {NoTag} :
        post' = [post EXCEPT ![p] = [at |-> "written", dimg |-> d, tag |-> t, current |-> FALSE]]
  BY DEF PostReceive
<1>3. /\ files' = files \cup {Temp(p)}
      /\ UNCHANGED <<nodes, links, marked, entries, tags, lock, storeLock, job, walked, torn>>
  BY DEF PostReceive, store
<1>4. job' \in Job /\ JobInv'
  BY <1>1, <1>3, JobIsUntouched
<1>5. Typed'
  <2>1. post' \in [Posters -> Post]
    BY <1>1, <1>2 DEF Typed, Post
  <2>2. files' \subseteq Paths
    BY <1>1, <1>3 DEF Typed, Paths
  <2> QED
    BY <1>1, <1>3, <1>4, <2>1, <2>2 DEF Typed
<1>6. ASSUME NEW q \in Posters PROVE InPlace(q)'
  <2>1. CASE q = p
    BY <1>1, <1>2, <1>3, <2>1 DEF InPlace, Typed
  <2>2. CASE q # p
    <3>1. post'[q] = post[q] /\ (Temp(q) \in files' => Temp(q) \in files)
      BY <1>1, <1>2, <1>3, <2>2, TempsDiffer DEF Typed
    <3> QED
      BY <1>1, <1>3, <3>1 DEF InPlace, PostsInPlace
  <2> QED
    BY <2>1, <2>2
<1>7. PathsStay'
  BY <1>1, <1>3 DEF PathsStay
<1>8. HeadersAreTrue' /\ TagsAreKnown'
  BY <1>1, <1>3 DEF HeadersAreTrue, TagsAreKnown
<1>9. PostsInPlace'
  BY <1>6 DEF PostsInPlace
<1> QED
  BY <1>4, <1>5, <1>7, <1>8, <1>9 DEF ServerInv, JobInv

\* A post picks the store it registers with, once: the one of that moment.
LEMMA PostEnterKeeps ==
  ASSUME ServerInv, NEW p \in Posters, PostEnter(p)
  PROVE  ServerInv'
<1>1. Typed /\ PostsInPlace /\ JobInv /\ PathsStay /\ HeadersAreTrue /\ TagsAreKnown
  BY InvInParts
<1>2. /\ post[p].at = "written"
      /\ post' = [post EXCEPT ![p] = [post[p] EXCEPT !.at = "adding", !.current = TRUE]]
  <2>1. post \in [Posters -> Post] /\ post[p] \in Post
    BY <1>1 DEF Typed
  <2> QED
    BY <2>1 DEF PostEnter, Post
<1>3. UNCHANGED <<nodes, links, marked, files, entries, tags, lock, storeLock, job, walked, torn>>
  BY DEF PostEnter, store
<1>4. job' \in Job /\ JobInv'
  BY <1>1, <1>3, JobIsUntouched
<1>5. post' \in [Posters -> Post] /\ post'[p].at = "adding" /\ post'[p].current
      /\ post'[p].dimg = post[p].dimg
  BY <1>1, <1>2 DEF Typed, Post
<1>6. Typed'
  BY <1>1, <1>3, <1>4, <1>5 DEF Typed
<1>7. ASSUME NEW q \in Posters PROVE InPlace(q)'
  <2>1. CASE q = p
    BY <1>1, <1>2, <1>3, <1>5, <2>1 DEF InPlace, PostsInPlace
  <2>2. CASE q # p
    <3>1. post'[q] = post[q]
      BY <1>1, <1>2, <2>2 DEF Typed
    <3> QED
      BY <1>1, <1>3, <3>1 DEF InPlace, PostsInPlace
  <2> QED
    BY <2>1, <2>2
<1>8. PathsStay' /\ HeadersAreTrue' /\ TagsAreKnown'
  BY <1>1, <1>3 DEF PathsStay, HeadersAreTrue, TagsAreKnown
<1>9. PostsInPlace'
  BY <1>7 DEF PostsInPlace
<1> QED
  BY <1>4, <1>6, <1>8, <1>9 DEF ServerInv, JobInv

\* A rename gives an upload the name of its digest.
LEMMA PostRenameKeeps ==
  ASSUME ServerInv, NEW p \in Posters, PostRename(p)
  PROVE  ServerInv'
<1>1. Typed /\ PostsInPlace /\ JobInv /\ PathsStay /\ HeadersAreTrue /\ TagsAreKnown
  BY InvInParts
<1>2. /\ post \in [Posters -> Post] /\ post[p].at = "adding" /\ post[p].dimg \in Digests
      /\ ~torn => post[p].current
  BY <1>1 DEF Typed, PostRename, PostsInPlace, InPlace
<1>3. UNCHANGED <<nodes, links, marked, entries, tags, lock, job, walked, torn>>
  BY DEF PostRename, store
<1>4. job' \in Job /\ JobInv'
  BY <1>1, <1>3, JobIsUntouched
<1>5. HeadersAreTrue' /\ TagsAreKnown'
  BY <1>1, <1>3 DEF HeadersAreTrue, TagsAreKnown
<1>6. CASE Temp(p) \in files
  <2>1. /\ files' = (files \ {Temp(p)}) \cup {post[p].dimg}
        /\ post' = [post EXCEPT ![p] = [post[p] EXCEPT !.at = "linking"]]
        /\ storeLock' \in Posters \cup {Nil}
    BY <1>1, <1>2, <1>6 DEF PostRename, Typed
  <2>2. /\ post' \in [Posters -> Post] /\ post'[p].at = "linking"
        /\ post'[p].dimg = post[p].dimg /\ post'[p].current = post[p].current
    BY <1>2, <2>1 DEF Post
  <2>3. Typed'
    <3>1. files' \subseteq Paths
      BY <1>1, <1>2, <2>1 DEF Typed, Paths
    <3> QED
      BY <1>1, <1>3, <1>4, <2>1, <2>2, <3>1 DEF Typed
  <2>4. ASSUME NEW q \in Posters PROVE InPlace(q)'
    <3>1. Temp(q) \in files' => Temp(q) \in files /\ q # p
      BY <1>2, <2>1, TempsDiffer
    <3>2. CASE q = p
      BY <1>1, <1>2, <1>3, <2>1, <2>2, <3>1, <3>2 DEF InPlace
    <3>3. CASE q # p
      <4>1. post'[q] = post[q]
        BY <1>2, <2>1, <3>3
      <4>2. post[q].dimg \in Digests /\ post[q].dimg \in files => post[q].dimg \in files'
        BY <2>1, TempsDiffer
      <4> QED
        BY <1>1, <1>3, <3>1, <4>1, <4>2 DEF InPlace, PostsInPlace
    <3> QED
      BY <3>2, <3>3
  <2>5. PathsStay'
    BY <1>1, <1>3, <2>1 DEF PathsStay
  <2>6. PostsInPlace'
    BY <2>4 DEF PostsInPlace
  <2> QED
    BY <1>4, <1>5, <2>3, <2>5, <2>6 DEF ServerInv, JobInv
<1>7. CASE Temp(p) \notin files
  <2>1. post' = [post EXCEPT ![p] = NoPost] /\ UNCHANGED <<files, storeLock>>
    BY <1>7 DEF PostRename
  <2>2. post' \in [Posters -> Post] /\ post'[p] = NoPost
    BY <1>2, <2>1 DEF Post, NoPost
  <2>3. Typed'
    BY <1>1, <1>3, <1>4, <2>1, <2>2 DEF Typed
  <2>4. ASSUME NEW q \in Posters PROVE InPlace(q)'
    <3>1. CASE q = p
      BY <1>7, <2>1, <2>2, <3>1 DEF InPlace, NoPost
    <3>2. CASE q # p
      <4>1. post'[q] = post[q]
        BY <1>2, <2>1, <3>2
      <4> QED
        BY <1>1, <1>3, <2>1, <4>1 DEF InPlace, PostsInPlace
    <3> QED
      BY <3>1, <3>2
  <2>5. PathsStay'
    BY <1>1, <1>3, <2>1 DEF PathsStay
  <2>6. PostsInPlace'
    BY <2>4 DEF PostsInPlace
  <2> QED
    BY <1>4, <1>5, <2>3, <2>5, <2>6 DEF ServerInv, JobInv
<1> QED
  BY <1>6, <1>7

\* AddDimg links the image of a dimg to its parent's.
LEMMA PostLinkKeeps ==
  ASSUME ServerInv, NEW p \in Posters, PostLink(p)
  PROVE  ServerInv'
<1>1. Typed /\ PostsInPlace /\ JobInv /\ PathsStay /\ HeadersAreTrue /\ TagsAreKnown
  BY InvInParts
<1> DEFINE d == post[p].dimg
<1>2. /\ post \in [Posters -> Post] /\ post[p].at = "linking" /\ d \in Digests
      /\ ~torn => post[p].current /\ d \in files
  BY <1>1 DEF Typed, PostLink, PostsInPlace, InPlace
<1>3. UNCHANGED <<marked, files, entries, tags, lock, storeLock, job, walked, torn>>
  BY DEF PostLink
<1>4. post' = [post EXCEPT ![p] = [post[p] EXCEPT !.at = "entering"]]
  BY <1>2 DEF PostLink, Post
<1>5. /\ post' \in [Posters -> Post] /\ post'[p].at = "entering"
      /\ post'[p].dimg = d /\ post'[p].current = post[p].current
  BY <1>2, <1>4 DEF Post
<1>6. AddedLink(d) \in Link /\ IdOf[d] \in Names /\ ParentOf[d] \in Names
  BY <1>2, DigestsAssumption DEF AddedLink, Link
<1>7. /\ nodes' \subseteq Names /\ nodes \subseteq nodes'
      /\ links' \subseteq Link /\ links' \subseteq links \cup {AddedLink(d)}
      /\ post[p].current => IdOf[d] \in nodes'
  <2>1. CASE post[p].current
    BY <1>1, <1>6, <2>1 DEF PostLink, AddLink, AddedLink, Typed
  <2>2. CASE ~post[p].current
    BY <1>1, <2>2 DEF PostLink, Typed
  <2> QED
    BY <2>1, <2>2
<1>8. Typed'
  BY <1>1, <1>3, <1>5, <1>7 DEF Typed
<1>9. ASSUME NEW q \in Posters PROVE InPlace(q)'
  <2>1. CASE q = p
    BY <1>1, <1>2, <1>3, <1>5, <1>7, <2>1 DEF InPlace, PostsInPlace
  <2>2. CASE q # p
    <3>1. post'[q] = post[q]
      BY <1>2, <1>4, <2>2
    <3> QED
      BY <1>1, <1>3, <1>7, <3>1 DEF InPlace, PostsInPlace
  <2> QED
    BY <2>1, <2>2
<1>10. LinksOfDimgs'
  <2>1. AddedLink(d).name = d
    BY DEF AddedLink
  <2> QED
    BY <1>1, <1>2, <1>3, <1>7, <2>1 DEF JobInv, LinksOfDimgs, OfDimg
<1>11. JobOfLock' /\ GotHeadersAreTrue' /\ ChainIsStack' /\ PlainUpdateApplies'
  BY <1>1, <1>3 DEF JobInv, JobOfLock, GotHeadersAreTrue, ChainIsStack, ChainFits,
                    PlainUpdateApplies, Applies
<1>12. PathsStay' /\ HeadersAreTrue'
  BY <1>1, <1>3 DEF PathsStay, HeadersAreTrue
<1>13. TagsAreKnown'
  BY <1>1, <1>3, <1>7 DEF TagsAreKnown
<1>14. PostsInPlace'
  BY <1>9 DEF PostsInPlace
<1> QED
  BY <1>8, <1>10, <1>11, <1>12, <1>13, <1>14 DEF ServerInv

\* What AddDimg enters says of the dimg what the dimg is.
LEMMA EntryOfIsEntry ==
  ASSUME NEW d \in Digests, NEW path \in Paths
  PROVE  EntryAt(d, path) \in Entry /\ TrueHeader(EntryAt(d, path))
BY DigestsAssumption DEF EntryAt, Entry, Body, TrueHeader

\* A post that has registered its dimg is over or about to tag the image.
LEMMA PostEntryKeeps ==
  ASSUME ServerInv, NEW p \in Posters, PostEntry(p)
  PROVE  ServerInv'
<1>1. Typed /\ PostsInPlace /\ JobInv /\ PathsStay /\ HeadersAreTrue /\ TagsAreKnown
  BY InvInParts
<1> DEFINE d == post[p].dimg
<1>2. /\ post \in [Posters -> Post] /\ post[p] \in Post
      /\ post[p].at = "entering" /\ d \in Digests
      /\ ~torn => d \in files /\ IdOf[d] \in nodes
  BY <1>1 DEF Typed, PostEntry, PostsInPlace, InPlace
<1>3. UNCHANGED <<nodes, links, marked, files, tags, lock, walked, torn>>
  BY DEF PostEntry
<1>4. post' = [post EXCEPT ![p] = IF post[p].tag = NoTag THEN NoPost
                                  ELSE [post[p] EXCEPT !.at = "tagging"]]
  BY <1>2 DEF PostEntry
<1>5. /\ post' \in [Posters -> Post]
      /\ \/ post'[p] = NoPost
         \/ post'[p].at = "tagging" /\ post'[p].tag \in Tags /\ post'[p].dimg = d
  <2>1. CASE post[p].tag = NoTag
    BY <1>2, <1>4, <2>1 DEF Post, NoPost
  <2>2. CASE post[p].tag # NoTag
    BY <1>2, <1>4, <2>2 DEF Post
  <2> QED
    BY <2>1, <2>2
<1>6. job' \in Job /\ JobInv'
  <2>1. CASE post[p].current
    <3>1. job' = [job EXCEPT !.live = job.live \ {d}]
      BY <1>1, <2>1 DEF PostEntry, Typed, Job
    <3> HIDE DEF d
    <3> QED
      BY <1>1, <1>3, <3>1, JobIsKept
  <2>2. CASE ~post[p].current
    BY <1>1, <1>3, <2>2, JobIsUntouched DEF PostEntry
  <2> QED
    BY <2>1, <2>2
<1>7. EntryOf(d) \in Entry /\ TrueHeader(EntryOf(d)) /\ EntryOf(d).path = d
  <2>1. d \in Paths
    BY <1>2 DEF Paths
  <2> HIDE DEF d
  <2> QED
    BY <1>2, <2>1, EntryOfIsEntry DEF EntryOf, EntryAt
<1>8. /\ storeLock' \in Posters \cup {Nil}
      /\ entries' = entries \/ entries' = Put(entries, d, EntryOf(d))
  BY <1>1 DEF PostEntry, Typed
<1>9. /\ DOMAIN entries' \subseteq Digests /\ entries' \in [DOMAIN entries' -> Entry]
      /\ \A x \in DOMAIN entries' : \/ x = d /\ entries'[x] = EntryOf(d)
                                    \/ x \in DOMAIN entries /\ entries'[x] = entries[x]
  <2>1. CASE entries' = entries
    BY <1>1, <2>1 DEF Typed
  <2>2. CASE entries' = Put(entries, d, EntryOf(d))
    <3> HIDE DEF d
    <3> QED
      BY <1>1, <1>2, <1>7, <2>2 DEF Typed, Put
  <2> QED
    BY <1>8, <2>1, <2>2
<1>10. Typed'
  BY <1>1, <1>3, <1>5, <1>6, <1>8, <1>9 DEF Typed
<1>11. ASSUME NEW q \in Posters PROVE InPlace(q)'
  <2>1. CASE q = p
    <3>1. Temp(p) \notin files
      BY <1>1, <1>2 DEF PostsInPlace, InPlace
    <3> QED
      BY <1>2, <1>3, <1>5, <2>1, <3>1 DEF InPlace, NoPost
  <2>2. CASE q # p
    <3>1. post'[q] = post[q]
      BY <1>2, <1>4, <2>2
    <3> QED
      BY <1>1, <1>3, <3>1 DEF InPlace, PostsInPlace
  <2> QED
    BY <2>1, <2>2
<1>12. PathsStay'
  BY <1>1, <1>2, <1>3, <1>7, <1>9, TempsDiffer DEF PathsStay
<1>13. HeadersAreTrue'
  BY <1>1, <1>7, <1>9 DEF HeadersAreTrue, TrueHeader
<1>14. TagsAreKnown'
  BY <1>1, <1>3 DEF TagsAreKnown
<1>15. PostsInPlace'
  BY <1>11 DEF PostsInPlace
<1> QED
  BY <1>6, <1>10, <1>12, <1>13, <1>14, <1>15 DEF ServerInv, JobInv

\* A tag names an image whose dimg the post has just entered.
LEMMA PostTagKeeps ==
  ASSUME ServerInv, NEW p \in Posters, PostTag(p)
  PROVE  ServerInv'
<1>1. Typed /\ PostsInPlace /\ JobInv /\ PathsStay /\ HeadersAreTrue /\ TagsAreKnown
  BY InvInParts
<1> DEFINE image == IdOf[post[p].dimg]
           tagged == post[p].tag
<1>2. /\ post \in [Posters -> Post] /\ post[p].at = "tagging" /\ tagged \in Tags
      /\ image \in Names
      /\ ~torn => image \in nodes
  BY <1>1, DigestsAssumption DEF Typed, PostTag, PostsInPlace, InPlace
<1>3. UNCHANGED <<nodes, links, marked, files, entries, lock, storeLock, job, walked, torn>>
  BY DEF PostTag, store
<1>4. tags' = Put(tags, tagged, image) /\ post' = [post EXCEPT ![p] = NoPost]
  BY DEF PostTag
<1>5. post' \in [Posters -> Post] /\ post'[p] = NoPost
  BY <1>2, <1>4 DEF Post, NoPost
<1>6. job' \in Job /\ JobInv'
  BY <1>1, <1>3, JobIsUntouched
<1> HIDE DEF image, tagged
<1>7. /\ DOMAIN tags' \subseteq Tags /\ tags' \in [DOMAIN tags' -> Names]
      /\ \A x \in DOMAIN tags' : \/ tags'[x] = image
                                 \/ x \in DOMAIN tags /\ tags'[x] = tags[x]
  BY <1>1, <1>2, <1>4 DEF Typed, Put
<1>8. Typed'
  BY <1>1, <1>3, <1>5, <1>6, <1>7 DEF Typed
<1>9. ASSUME NEW q \in Posters PROVE InPlace(q)'
  <2>1. CASE q = p
    <3>1. Temp(p) \notin files
      BY <1>1, <1>2 DEF PostsInPlace, InPlace
    <3> QED
      BY <1>3, <1>5, <2>1, <3>1 DEF InPlace, NoPost
  <2>2. CASE q # p
    <3>1. post'[q] = post[q]
      BY <1>2, <1>4, <2>2
    <3> QED
      BY <1>1, <1>3, <3>1 DEF InPlace, PostsInPlace
  <2> QED
    BY <2>1, <2>2
<1>10. PathsStay' /\ HeadersAreTrue'
  BY <1>1, <1>3 DEF PathsStay, HeadersAreTrue
<1>11. TagsAreKnown'
  BY <1>1, <1>2, <1>3, <1>7 DEF TagsAreKnown
<1>12. PostsInPlace'
  BY <1>9 DEF PostsInPlace
<1> QED
  BY <1>6, <1>8, <1>10, <1>11, <1>12 DEF ServerInv, JobInv
------------------------------------------------------------------------------
(* The steps of a cleanup, and a restart *)

\* When no update runs its fields are empty.
LEMMA NoJobIsJob == NoJob \in Job /\ Len(NoJob.got) = 0 /\ Len(NoJob.chain) = 0
<1>1. <<>> \in Seq(Digests) /\ <<>> \in Seq(Entry)
  OBVIOUS
<1> QED
  BY <1>1 DEF NoJob, Job

\* Without an update all that there is to say is where the edges come from.
LEMMA NoUpdateRuns ==
  ASSUME job' = NoJob, lock' \notin {"searching", "merging"}, (\A l \in links : OfDimg(l))'
  PROVE  job' \in Job /\ JobInv'
<1>1. NoJob.status = "none" /\ NoJob.seen = {}
  BY DEF NoJob
<1>2. LinksOfDimgs'
  BY <1>1 DEF LinksOfDimgs
<1>3. JobOfLock' /\ ChainIsStack'
  BY DEF JobOfLock, ChainIsStack
<1>4. GotHeadersAreTrue'
  BY NoJobIsJob DEF GotHeadersAreTrue
<1>5. PlainUpdateApplies'
  BY <1>1 DEF PlainUpdateApplies
<1> QED
  BY <1>2, <1>3, <1>4, <1>5, NoJobIsJob DEF JobInv

\* While nobody holds ds.lock, or a cleanup does.
LEMMA NoUpdateYet ==
  ASSUME ServerInv, lock \in {"free", "making", "walking"}
  PROVE  job = NoJob /\ \A l \in links : OfDimg(l)
BY DEF ServerInv, JobOfLock, LinksOfDimgs

\* A cleanup removes the files while it holds the lock.
LEMMA CleanupRemoveKeeps ==
  ASSUME ServerInv, CleanupRemove
  PROVE  ServerInv'
<1>1. Typed /\ PostsInPlace /\ HeadersAreTrue /\ TagsAreKnown
      /\ job = NoJob /\ \A l \in links : OfDimg(l)
  BY NoUpdateYet DEF ServerInv, CleanupRemove
<1>2. /\ lock' = "making" /\ files' = {} /\ torn' = (torn \/ Busy)
      /\ UNCHANGED <<nodes, links, marked, entries, tags, storeLock, post, job, walked>>
  BY DEF CleanupRemove, store
<1>3. (\A l \in links : OfDimg(l))'
  BY <1>1, <1>2 DEF OfDimg
<1>4. job' \in Job /\ JobInv'
  BY <1>1, <1>2, <1>3, NoUpdateRuns
<1>5. Typed'
  BY <1>1, <1>2, <1>4 DEF Typed
<1>6. PostsInPlace'
  BY <1>1, <1>2 DEF PostsInPlace, InPlace, Busy
<1>7. PathsStay' /\ HeadersAreTrue' /\ TagsAreKnown'
  BY <1>1, <1>2 DEF PathsStay, HeadersAreTrue, TagsAreKnown
<1> QED
  BY <1>4, <1>5, <1>6, <1>7 DEF ServerInv, JobInv

\* A cleanup that fails half way may have removed files under their entries: torn says so.
LEMMA CleanupFailsKeeps ==
  ASSUME ServerInv, CleanupFails
  PROVE  ServerInv'
<1>1. Typed /\ PostsInPlace /\ HeadersAreTrue
      /\ job = NoJob /\ \A l \in links : OfDimg(l)
  BY NoUpdateYet DEF ServerInv, CleanupFails
<1>2. /\ files' \subseteq files /\ torn' = TRUE /\ lock' = "free"
      /\ UNCHANGED <<nodes, links, marked, entries, tags, storeLock, post, job, walked>>
  BY DEF CleanupFails, store
<1>3. (\A l \in links : OfDimg(l))'
  BY <1>1, <1>2 DEF OfDimg
<1>4. job' \in Job /\ JobInv'
  BY <1>1, <1>2, <1>3, NoUpdateRuns
<1>5. Typed'
  BY <1>1, <1>2, <1>4 DEF Typed
<1>6. PostsInPlace'
  BY <1>1, <1>2 DEF PostsInPlace, InPlace
<1>7. PathsStay' /\ HeadersAreTrue' /\ TagsAreKnown'
  BY <1>1, <1>2 DEF PathsStay, HeadersAreTrue, TagsAreKnown
<1> QED
  BY <1>4, <1>5, <1>6, <1>7 DEF ServerInv, JobInv

\* The directory is made again: no entry, header or tag changes.
LEMMA CleanupMakeDirKeeps ==
  ASSUME ServerInv, CleanupMakeDir
  PROVE  ServerInv'
<1>1. Typed /\ PostsInPlace /\ HeadersAreTrue /\ TagsAreKnown
      /\ job = NoJob /\ \A l \in links : OfDimg(l)
  BY NoUpdateYet DEF ServerInv, CleanupMakeDir
<1>2. /\ lock' = "walking"
      /\ UNCHANGED <<nodes, links, marked, entries, files, tags, storeLock, post, job, walked, torn>>
  BY DEF CleanupMakeDir, store
<1>3. (\A l \in links : OfDimg(l))'
  BY <1>1, <1>2 DEF OfDimg
<1>4. job' \in Job /\ JobInv'
  BY <1>1, <1>2, <1>3, NoUpdateRuns
<1>5. Typed'
  BY <1>1, <1>2, <1>4 DEF Typed
<1>6. PostsInPlace' /\ PathsStay' /\ HeadersAreTrue' /\ TagsAreKnown'
  BY <1>1, <1>2 DEF PostsInPlace, InPlace, PathsStay, HeadersAreTrue, TagsAreKnown
<1> QED
  BY <1>4, <1>5, <1>6 DEF ServerInv, JobInv

\* The new store of a cleanup holds what Walk finds: an entry for each file, and no tag.
LEMMA CleanupSwapKeeps ==
  ASSUME ServerInv, CleanupSwap
  PROVE  ServerInv'
<1> DEFINE Holds(f, d) == f = d \/ \E p \in Posters : f = Temp(p) /\ post[p].dimg = d
           found == {d \in Digests : \E f \in files : Holds(f, d)}
<1>1. Typed /\ PostsInPlace /\ job = NoJob
  BY NoUpdateYet DEF ServerInv, CleanupSwap
<1>2. /\ lock = "walking" /\ lock' = "free"
      /\ links' = {WalkedLink(d) : d \in found}
      /\ nodes' = UNION {{IdOf[d], ParentOf[d]} : d \in found}
      /\ marked' = {} /\ tags' = <<>> /\ storeLock' = Nil /\ walked' = found
      /\ post' = [p \in Posters |-> [post[p] EXCEPT !.current = FALSE]]
      /\ torn' = (torn \/ Busy)
      /\ UNCHANGED <<files, job>>
  BY DEF CleanupSwap, NoTags
<1>3. PICK path \in [found -> files] :
        /\ \A d \in found : Holds(path[d], d)
        /\ entries' = [d \in found |-> EntryAt(d, path[d])]
  BY DEF CleanupSwap
<1>4. found \subseteq Digests
  OBVIOUS
<1> HIDE DEF found, Holds
<1>5. job' \in Job /\ JobInv'
  <2>1. \A d \in found : WalkedLink(d).name = d
    BY DEF WalkedLink
  <2>2. (\A l \in links : OfDimg(l))'
    BY <1>2, <1>4, <2>1 DEF OfDimg
  <2> QED
    BY <1>1, <1>2, <2>2, NoUpdateRuns
<1>6. \A d \in found : EntryAt(d, path[d]) \in Entry /\ TrueHeader(EntryAt(d, path[d]))
  <2>1. \A d \in found : d \in Digests /\ path[d] \in Paths
    BY <1>1, <1>4 DEF Typed
  <2> QED
    BY <2>1, EntryOfIsEntry
<1>7. DOMAIN entries' = found /\ entries' \in [DOMAIN entries' -> Entry]
  BY <1>3, <1>6
<1>8. post' \in [Posters -> Post]
  BY <1>1, <1>2 DEF Typed, Post
<1>9. nodes' \subseteq Names /\ links' \subseteq Link
  <2>1. \A d \in found : WalkedLink(d) \in Link /\ IdOf[d] \in Names /\ ParentOf[d] \in Names
    BY <1>4, DigestsAssumption DEF WalkedLink, Link
  <2> QED
    BY <1>2, <2>1
<1>10. DOMAIN tags' = {}
  BY <1>2
<1>11. tags' \in [DOMAIN tags' -> Names]
  BY <1>2
<1>12. Typed'
  BY <1>1, <1>2, <1>4, <1>5, <1>7, <1>8, <1>9, <1>10, <1>11 DEF Typed
<1>13. PostsInPlace'
  <2>1. \A p \in Posters : post'[p].at = post[p].at /\ post'[p].dimg = post[p].dimg
                           /\ post'[p].tag = post[p].tag
    BY <1>1, <1>2 DEF Typed, Post
  <2>2. ~torn' => \A p \in Posters : post'[p].at = "idle"
    BY <1>2, <2>1 DEF Busy
  <2> QED
    BY <1>1, <1>2, <2>1, <2>2 DEF PostsInPlace, InPlace
<1>14. PathsStay'
  <2> SUFFICES ASSUME ~torn', NEW d \in DOMAIN entries'
               PROVE  entries'[d].path \in files' \ {Temp(p) : p \in Posters}
    BY DEF PathsStay
  <2>1. \A p \in Posters : Temp(p) \notin files
    BY <1>1, <1>2 DEF Busy, PostsInPlace, InPlace
  <2>2. entries'[d].path = path[d] /\ path[d] \in files
    BY <1>3, <1>7 DEF EntryAt
  <2> QED
    BY <1>2, <2>1, <2>2
<1>15. HeadersAreTrue'
  BY <1>3, <1>6, <1>7 DEF HeadersAreTrue, TrueHeader
<1>16. TagsAreKnown'
  BY <1>10 DEF TagsAreKnown
<1> QED
  BY <1>5, <1>12, <1>13, <1>14, <1>15, <1>16 DEF ServerInv, JobInv

\* The first state, and the state after a restart.
FreshServer ==
  /\ nodes = {} /\ links = {} /\ marked = {} /\ entries = <<>> /\ files = {}
  /\ tags = <<>> /\ lock = "free" /\ storeLock = Nil
  /\ post = [p \in Posters |-> NoPost] /\ job = NoJob

\* A server that starts has an empty store and no requests.
LEMMA FreshServerIsSound == FreshServer => ServerInv
<1> SUFFICES ASSUME FreshServer PROVE ServerInv
  OBVIOUS
<1>1. DOMAIN entries = {} /\ DOMAIN tags = {}
  BY DEF FreshServer
<1>2. entries \in [DOMAIN entries -> Entry] /\ tags \in [DOMAIN tags -> Names]
  BY DEF FreshServer
<1>3. post \in [Posters -> Post]
  BY DEF FreshServer, Post, NoPost
<1>4. Typed
  BY <1>1, <1>2, <1>3, NoJobIsJob DEF FreshServer, Typed
<1>5. PostsInPlace
  BY DEF FreshServer, PostsInPlace, InPlace, NoPost
<1>6. NoJob.status = "none" /\ NoJob.seen = {}
  BY DEF NoJob
<1>7. LinksOfDimgs /\ JobOfLock /\ ChainIsStack /\ PlainUpdateApplies
  BY <1>6 DEF FreshServer, LinksOfDimgs, JobOfLock, ChainIsStack, PlainUpdateApplies
<1>8. GotHeadersAreTrue
  BY NoJobIsJob DEF FreshServer, GotHeadersAreTrue
<1>9. PathsStay /\ HeadersAreTrue /\ TagsAreKnown
  BY <1>1 DEF PathsStay, HeadersAreTrue, TagsAreKnown
<1> QED
  BY <1>4, <1>5, <1>7, <1>8, <1>9 DEF ServerInv

\* A restart is a fresh server.
LEMMA RestartKeeps == Restart => ServerInv'
<1>1. Restart => FreshServer'
  BY DEF Restart, FreshServer
<1> QED
  BY <1>1, FreshServerIsSound, PTL
------------------------------------------------------------------------------
(* The steps of an update *)

\* What an update does leaves the posts alone, and never takes a file away.
LEMMA PostsAreUntouched ==
  ASSUME PostsInPlace, UNCHANGED <<nodes, post, torn>>,
         NEW new, files' = files \cup new, \A p \in Posters : Temp(p) \notin new
  PROVE  PostsInPlace'
BY DEF PostsInPlace, InPlace

\* An update looks the tag up and takes the lock, or fails on an image the graph lacks.
LEMMA UpdateStartKeeps ==
  ASSUME ServerInv, NEW t \in Tags, NEW locals \in SUBSET (Names \ {Base}), UpdateStart(t, locals)
  PROVE  ServerInv'
<1>1. Typed /\ PostsInPlace /\ PathsStay /\ HeadersAreTrue /\ TagsAreKnown
      /\ job = NoJob /\ \A l \in links : OfDimg(l)
  BY NoUpdateYet DEF ServerInv, UpdateStart
<1>2. /\ lock = "free" /\ t \in DOMAIN tags
      /\ \/ lock' = "searching" /\ job'.status = "running"
         \/ lock' = "responding" /\ job'.status = "panic"
      /\ job' = [NoJob EXCEPT !.id = tags[t], !.goals = locals \cup {Base}, !.seen = links,
                              !.status = job'.status]
      /\ UNCHANGED <<nodes, links, marked, entries, files, tags, storeLock, post, walked, torn>>
  <2>1. CASE tags[t] \in nodes
    BY <2>1 DEF UpdateStart, NoJob, store
  <2>2. CASE tags[t] \notin nodes
    BY <2>2 DEF UpdateStart, NoJob, store
  <2> QED
    BY <2>1, <2>2
<1>3. /\ job'.id = tags[t] /\ job'.seen = links
      /\ job'.chain = <<>> /\ job'.got = <<>>
  BY <1>2 DEF NoJob
<1>4. tags[t] \in Names /\ locals \cup {Base} \subseteq Names /\ links \subseteq Link
  BY <1>1, <1>2, DigestsAssumption DEF Typed
<1>5. job' \in Job
  <2>1. NoJob \in Job /\ job'.status \in {"running", "panic"}
    BY <1>2, NoJobIsJob
  <2> QED
    BY <1>2, <1>4, <2>1 DEF Job
<1>6. Typed'
  BY <1>1, <1>2, <1>5 DEF Typed
<1>7. LinksOfDimgs'
  BY <1>1, <1>2, <1>3 DEF LinksOfDimgs, OfDimg
<1>8. JobOfLock'
  BY <1>2, <1>3, <1>4 DEF JobOfLock
<1>9. GotHeadersAreTrue'
  BY <1>3 DEF GotHeadersAreTrue
<1>10. ChainIsStack' /\ PlainUpdateApplies'
  BY <1>2 DEF ChainIsStack, PlainUpdateApplies
<1>11. PostsInPlace'
  BY <1>1, <1>2 DEF PostsInPlace, InPlace
<1>12. PathsStay' /\ HeadersAreTrue' /\ TagsAreKnown'
  BY <1>1, <1>2 DEF PathsStay, HeadersAreTrue, TagsAreKnown
<1> QED
  BY <1>6, <1>7, <1>8, <1>9, <1>10, <1>11, <1>12 DEF ServerInv

\* There are no more edges than two to a dimg.
LEMMA FinitelyManyLinks ==
  ASSUME NEW ls, \A l \in ls : OfDimg(l)
  PROVE  IsFiniteSet(ls)
<1> DEFINE A == {AddedLink(d) : d \in Digests}
           W == {WalkedLink(d) : d \in Digests}
<1>1. IsFiniteSet(A)
  <2> DEFINE f == [d \in Digests |-> AddedLink(d)]
  <2>1. f \in Surjection(Digests, A)
    BY DEF Surjection
  <2> HIDE DEF f, A
  <2> QED
    BY <2>1, DigestsAssumption, FS_Surjection
<1>2. IsFiniteSet(W)
  <2> DEFINE f == [d \in Digests |-> WalkedLink(d)]
  <2>1. f \in Surjection(Digests, W)
    BY DEF Surjection
  <2> HIDE DEF f, W
  <2> QED
    BY <2>1, DigestsAssumption, FS_Surjection
<1>3. ls \subseteq A \cup W
  BY DEF OfDimg
<1> HIDE DEF A, W
<1>4. IsFiniteSet(A \cup W)
  BY <1>1, <1>2, FS_Union
<1> QED
  BY <1>3, <1>4, FS_Subset

\* The dimgs of a connected route of edges that AddDimg made build on each other.
LEMMA AddedRouteFits ==
  ASSUME NEW ls, NEW r, Connected(r, ls, job.id), RouteEnd(r, job.id) \in job.goals, r # <<>>,
         \A i \in 1..Len(r) : r[i] = AddedLink(r[i].name)
  PROVE  ChainFits([i \in DOMAIN r |-> r[i].name])
<1> DEFINE c == [i \in DOMAIN r |-> r[i].name]
<1>1. r \in Seq(ls) /\ Len(r) \in Nat /\ Len(r) >= 1 /\ DOMAIN r = 1..Len(r)
  BY DEF Connected
<1>2. DOMAIN c = 1..Len(r) /\ Len(c) = Len(r) /\ \A i \in 1..Len(r) : c[i] = r[i].name
  BY <1>1
<1>3. ASSUME NEW i \in 1..Len(r)
      PROVE  r[i].src = IdOf[r[i].name] /\ r[i].next = ParentOf[r[i].name]
  <2>1. /\ AddedLink(r[i].name).src = IdOf[r[i].name]
        /\ AddedLink(r[i].name).next = ParentOf[r[i].name]
    BY DEF AddedLink
  <2> QED
    BY <2>1
<1> HIDE DEF c
<1>4. IdOf[c[1]] = job.id
  BY <1>1, <1>2, <1>3 DEF Connected
<1>5. ParentOf[c[Len(c)]] \in job.goals
  BY <1>1, <1>2, <1>3 DEF RouteEnd
<1>6. BuildsOn(c)
  <2> SUFFICES ASSUME NEW i \in 1..Len(c) - 1 PROVE ParentOf[c[i]] = IdOf[c[i + 1]]
    BY DEF BuildsOn
  <2>1. i \in 1..Len(r) /\ i + 1 \in 1..Len(r) /\ r[i].next = r[i + 1].src
    BY <1>1, <1>2 DEF Connected
  <2> QED
    BY <1>2, <1>3, <2>1
<1> QED
  BY <1>4, <1>5, <1>6 DEF ChainFits, c

\* The search of an update finds dimgs that build on each other, in the graph of any moment
\* since it began.
LEMMA UpdateSearchKeeps ==
  ASSUME ServerInv, UpdateSearch
  PROVE  ServerInv'
<1>1. Typed /\ PostsInPlace /\ LinksOfDimgs /\ JobOfLock /\ GotHeadersAreTrue
      /\ PathsStay /\ HeadersAreTrue /\ TagsAreKnown /\ job \in Job
  BY DEF ServerInv, Typed
<1>2. /\ lock = "searching" /\ job.status = "running" /\ job.id \in Names
      /\ UNCHANGED <<nodes, links, files, entries, tags, storeLock, post, walked, torn>>
  BY <1>1 DEF UpdateSearch, JobOfLock
<1>3. PICK extra \in SUBSET (links \ job.seen) :
        \E reply \in Replies(nodes, job.seen \cup extra, marked, job.id, job.goals) :
         LET r == Resolve(reply[1], entries)
             c == [i \in DOMAIN r.route |-> r.route[i].name] IN
         /\ marked' = reply[2]
         /\ IF r.kind # "path" THEN Fail("bad request")
            ELSE IF c = <<>> THEN Fail("internal error")
            ELSE /\ lock' = "merging"
                 /\ job' = [job EXCEPT !.chain = c, !.got = [i \in DOMAIN c |-> entries[c[i]]],
                                       !.live = {c[i] : i \in DOMAIN c}]
  BY DEF UpdateSearch
<1> DEFINE ls == job.seen \cup extra
<1>4. PICK reply \in Replies(nodes, ls, marked, job.id, job.goals) :
         LET r == Resolve(reply[1], entries)
             c == [i \in DOMAIN r.route |-> r.route[i].name] IN
         /\ marked' = reply[2]
         /\ IF r.kind # "path" THEN Fail("bad request")
            ELSE IF c = <<>> THEN Fail("internal error")
            ELSE /\ lock' = "merging"
                 /\ job' = [job EXCEPT !.chain = c, !.got = [i \in DOMAIN c |-> entries[c[i]]],
                                       !.live = {c[i] : i \in DOMAIN c}]
  BY <1>3
<1>5. \A l \in ls : OfDimg(l) /\ l \in Link
  BY <1>1 DEF LinksOfDimgs, Typed, Job
<1> HIDE DEF ls
<1>6. IsFiniteSet(ls)
  BY <1>5, FinitelyManyLinks
<1>7. /\ reply[2] \subseteq Names
      /\ reply[1].kind = "path" => /\ Connected(reply[1].route, ls, job.id)
                                   /\ RouteEnd(reply[1].route, job.id) \in job.goals
  <2>1. \A l \in ls : l.next \in Names
    BY <1>5 DEF Link
  <2>2. marked \subseteq Names
    BY <1>1 DEF Typed
  <2> QED
    BY <1>2, <1>6, <2>1, <2>2, RepliesAre
<1> DEFINE r == Resolve(reply[1], entries)
           c == [i \in DOMAIN r.route |-> r.route[i].name]
<1>8. r.kind = "path" =>
        /\ r = reply[1] /\ Connected(r.route, ls, job.id) /\ RouteEnd(r.route, job.id) \in job.goals
        /\ \A i \in DOMAIN r.route : r.route[i].name \in DOMAIN entries
  BY <1>7 DEF Resolve
<1>9. marked' \subseteq Names
  BY <1>4, <1>7
<1>10. ASSUME NEW why \in {"bad request", "internal error"}, Fail(why)
       PROVE  ServerInv'
  <2>1. lock' = "responding" /\ job' = [job EXCEPT !.status = why]
    BY <1>10 DEF Fail
  <2>2. job' \in Job /\ job'.seen = job.seen /\ job'.chain = job.chain /\ job'.got = job.got
        /\ job'.status # "ok"
    BY <1>1, <2>1 DEF Job
  <2>3. Typed'
    BY <1>1, <1>2, <1>9, <2>1, <2>2 DEF Typed
  <2>4. PostsInPlace'
    BY <1>1, <1>2 DEF PostsInPlace, InPlace
  <2>5. LinksOfDimgs' /\ JobOfLock' /\ GotHeadersAreTrue'
    BY <1>1, <1>2, <2>1, <2>2 DEF LinksOfDimgs, OfDimg, JobOfLock, GotHeadersAreTrue
  <2>6. ChainIsStack' /\ PlainUpdateApplies'
    BY <2>1, <2>2 DEF ChainIsStack, PlainUpdateApplies
  <2>7. PathsStay' /\ HeadersAreTrue' /\ TagsAreKnown'
    BY <1>1, <1>2, <2>1 DEF PathsStay, HeadersAreTrue, TagsAreKnown
  <2> QED
    BY <2>3, <2>4, <2>5, <2>6, <2>7 DEF ServerInv
<1>11. ASSUME r.kind = "path", c # <<>>, lock' = "merging",
              job' = [job EXCEPT !.chain = c, !.got = [i \in DOMAIN c |-> entries[c[i]]],
                                 !.live = {c[i] : i \in DOMAIN c}]
       PROVE  ServerInv'
  <2> DEFINE got == [i \in DOMAIN c |-> entries[c[i]]]
             live == {c[i] : i \in DOMAIN c}
             n == Len(r.route)
  <2>1. /\ r.route \in Seq(ls) /\ n \in Nat /\ DOMAIN r.route = 1..n
        /\ \A i \in 1..n : r.route[i].name \in DOMAIN entries /\ OfDimg(r.route[i])
    BY <1>5, <1>8, <1>11 DEF Connected
  <2>2. \A i \in 1..n : /\ r.route[i].name \in Digests /\ entries[r.route[i].name] \in Entry
                       /\ TrueHeader(entries[r.route[i].name])
    BY <1>1, <2>1 DEF Typed, HeadersAreTrue, TrueHeader
  <2> HIDE DEF r
  <2>3. /\ c \in Seq(Digests) /\ Len(c) = n /\ DOMAIN c = 1..n
        /\ \A i \in 1..n : c[i] = r.route[i].name
    BY <2>1, <2>2
  <2> HIDE DEF c, n
  <2>4. /\ got \in Seq(Entry) /\ Len(got) = n
        /\ \A i \in 1..n : TrueHeader(got[i])
    BY <2>1, <2>2, <2>3
  <2>5. live \subseteq Digests
    BY <2>2, <2>3
  <2> HIDE DEF got, live
  <2>6. job' = [job EXCEPT !.chain = c, !.got = got, !.live = live]
    BY <1>11 DEF got, live
  <2>7. /\ job' \in Job /\ job'.chain = c /\ job'.got = got /\ job'.seen = job.seen
        /\ job'.id = job.id /\ job'.goals = job.goals /\ job'.status = "running"
    BY <1>1, <1>2, <2>3, <2>4, <2>5, <2>6 DEF Job
  <2>8. Typed'
    BY <1>1, <1>2, <1>9, <1>11, <2>7 DEF Typed
  <2>9. PostsInPlace'
    BY <1>1, <1>2 DEF PostsInPlace, InPlace
  <2>10. LinksOfDimgs' /\ JobOfLock'
    BY <1>1, <1>2, <1>11, <2>7 DEF LinksOfDimgs, OfDimg, JobOfLock
  <2>11. GotHeadersAreTrue'
    BY <2>3, <2>4, <2>7 DEF GotHeadersAreTrue, TrueHeader
  <2>12. ChainIsStack'
    <3>1. ASSUME \A i \in 1..n : c[i] \notin walked PROVE ChainFits(c)
      <4>1. \A i \in 1..n : r.route[i] = AddedLink(r.route[i].name)
        BY <2>1, <2>3, <3>1 DEF OfDimg
      <4>2. r.route # <<>>
        BY <1>11, <2>1, <2>3
      <4>3. Connected(r.route, ls, job.id) /\ RouteEnd(r.route, job.id) \in job.goals
        BY <1>8, <1>11
      <4> QED
        BY <4>1, <4>2, <4>3, AddedRouteFits DEF c, n
    <3>2. job'.chain # <<>>
      BY <1>11, <2>7
    <3>3. (\A i \in 1..n : c[i] \notin walked) => ChainFits(job.chain)'
      BY <2>7, <3>1 DEF ChainFits, BuildsOn
    <3> QED
      BY <1>2, <2>3, <2>7, <3>2, <3>3 DEF ChainIsStack
  <2>13. PlainUpdateApplies'
    BY <2>7 DEF PlainUpdateApplies
  <2>14. PathsStay' /\ HeadersAreTrue' /\ TagsAreKnown'
    BY <1>1, <1>2, <1>11 DEF PathsStay, HeadersAreTrue, TagsAreKnown
  <2> QED
    BY <2>8, <2>9, <2>10, <2>11, <2>12, <2>13, <2>14 DEF ServerInv
<1>12. \/ \E why \in {"bad request", "internal error"} : Fail(why)
       \/ /\ r.kind = "path" /\ c # <<>> /\ lock' = "merging"
          /\ job' = [job EXCEPT !.chain = c, !.got = [i \in DOMAIN c |-> entries[c[i]]],
                                !.live = {c[i] : i \in DOMAIN c}]
  <2> HIDE DEF r, c
  <2>1. IF r.kind # "path" THEN Fail("bad request")
        ELSE IF c = <<>> THEN Fail("internal error")
        ELSE /\ lock' = "merging"
             /\ job' = [job EXCEPT !.chain = c, !.got = [i \in DOMAIN c |-> entries[c[i]]],
                                   !.live = {c[i] : i \in DOMAIN c}]
    BY <1>4, Zenon DEF r, c
  <2> QED
    BY <2>1
<1> QED
  BY <1>10, <1>11, <1>12

\* The entries of a chain that AddDimg made merge into a dimg that applies.
LEMMA PlainMergeApplies ==
  ASSUME job \in Job, job.chain # <<>>, Len(job.got) = Len(job.chain), ChainFits(job.chain),
         \A i \in 1..Len(job.chain) : job.got[i] = EntryOf(job.chain[i]),
         NEW path \in Paths,
         NEW reply, \/ reply = job.got[1] /\ Len(job.chain) = 1
                    \/ reply = MergeOf(job.got, path)
  PROVE  /\ reply.id = job.id
         /\ reply.parent \in job.goals
         /\ reply.body = <<reply.parent, reply.id>>
<1> DEFINE n == Len(job.chain)
           c == job.chain
           es == job.got
<1>1. n \in Nat /\ n >= 1 /\ c \in Seq(Digests) /\ es \in Seq(Entry) /\ DOMAIN es = 1..n
  <2>1. c \in Seq(Digests) /\ es \in Seq(Entry)
    BY DEF Job
  <2> QED
    BY <2>1
<1>2. ASSUME NEW i \in 1..n
      PROVE  /\ c[i] \in Digests
             /\ es[i].id = IdOf[c[i]] /\ es[i].parent = ParentOf[c[i]]
             /\ es[i].body = <<ParentOf[c[i]], IdOf[c[i]]>>
  <2>1. c[i] \in Digests /\ es[i] = EntryOf(c[i])
    BY <1>1
  <2>2. /\ EntryOf(c[i]).id = IdOf[c[i]] /\ EntryOf(c[i]).parent = ParentOf[c[i]]
        /\ EntryOf(c[i]).body = <<ParentOf[c[i]], IdOf[c[i]]>>
    BY DEF EntryOf, EntryAt
  <2> QED
    BY <2>1, <2>2
<1>3. \A i \in 1..n : es[i].body # Corrupt
  BY <1>2, DigestsAssumption DEF Corrupt
<1>4. \A i \in 1..n : i < n => es[i].body[1] = es[i + 1].body[2]
  <2> SUFFICES ASSUME NEW i \in 1..n, i < n PROVE es[i].body[1] = es[i + 1].body[2]
    OBVIOUS
  <2>1. i + 1 \in 1..n /\ ParentOf[c[i]] = IdOf[c[i + 1]]
    BY <1>1 DEF ChainFits, BuildsOn
  <2> QED
    BY <1>2, <2>1
<1>5. IdOf[c[1]] = job.id /\ ParentOf[c[n]] \in job.goals
  BY DEF ChainFits
<1>6. CASE reply = es[1] /\ n = 1
  BY <1>1, <1>2, <1>5, <1>6
<1>7. CASE reply = MergeOf(es, path)
  <2>1. Composed(es) = <<es[n].body[1], es[1].body[2]>>
    BY <1>1, <1>3, <1>4 DEF Composed
  <2>2. 1 \in 1..n /\ n \in 1..n
    BY <1>1
  <2> QED
    BY <1>2, <1>5, <1>7, <2>1, <2>2 DEF MergeOf
<1> QED
  BY <1>6, <1>7

\* A merge overwrites entries with its own results only, whose files it has written.
LEMMA UpdateMergeKeeps ==
  ASSUME ServerInv, UpdateMerge
  PROVE  ServerInv'
<1> DEFINE n == Len(job.chain)
<1>1. Typed /\ PostsInPlace /\ LinksOfDimgs /\ JobOfLock /\ GotHeadersAreTrue
      /\ PathsStay /\ HeadersAreTrue /\ TagsAreKnown /\ job \in Job
  BY DEF ServerInv, Typed
<1>2. /\ lock = "merging" /\ lock' = "responding" /\ job.chain # <<>>
      /\ UNCHANGED <<nodes, links, marked, tags, storeLock, post, walked, torn>>
  BY DEF UpdateMerge, Fail, ServerInv, ChainIsStack
<1>3. n \in Nat /\ n >= 1 /\ job.chain \in Seq(Digests) /\ job.got \in Seq(Entry) /\ Len(job.got) = n
  <2>1. job.chain \in Seq(Digests) /\ job.got \in Seq(Entry)
    BY <1>1 DEF Job
  <2> QED
    BY <1>1, <1>2, <2>1 DEF GotHeadersAreTrue
<1> DEFINE Sound ==
             /\ DOMAIN entries' \subseteq Digests /\ entries' \in [DOMAIN entries' -> Entry]
             /\ HeadersAreTrue' /\ PathsStay'
             /\ \E new \in SUBSET {MergedFile(d) : d \in Digests} : files' = files \cup new
<1>4. Sound
  <2>1. CASE UNCHANGED <<entries, files>>
    <3>1. files' = files \cup {}
      BY <2>1
    <3> QED
      BY <1>1, <1>2, <2>1, <3>1 DEF Typed, HeadersAreTrue, PathsStay
  <2>2. ASSUME NEW done \in SUBSET Tasks(n),
               entries' = AfterTasks(entries, done), files' = files \cup Written(done)
        PROVE  Sound
    <3> DEFINE es == AfterTasks(entries, done)
    <3>1. /\ DOMAIN es = DOMAIN entries
          /\ es \in [DOMAIN es -> Entry]
          /\ Written(done) \subseteq {MergedFile(d) : d \in Digests}
          /\ \A d \in DOMAIN es : /\ TrueHeader(es[d])
                                  /\ es[d].path = entries[d].path \/ es[d].path \in Written(done)
      BY <1>1, <1>2, AfterTasksAreEntries
    <3> HIDE DEF es
    <3>2. entries' = es
      BY <2>2 DEF es
    <3>3. PathsStay'
      <4>1. \A p \in Posters : Temp(p) \notin Written(done)
        BY <3>1, TempsDiffer
      <4> QED
        BY <1>1, <1>2, <2>2, <3>1, <3>2, <4>1 DEF PathsStay
    <3>4. HeadersAreTrue'
      BY <3>1, <3>2 DEF HeadersAreTrue, TrueHeader
    <3> QED
      BY <1>1, <2>2, <3>1, <3>2, <3>3, <3>4 DEF Typed
  <2>3. \/ UNCHANGED <<entries, files>>
        \/ \E done \in SUBSET Tasks(n) :
             entries' = AfterTasks(entries, done) /\ files' = files \cup Written(done)
    <3> HIDE DEF n
    <3> QED
      BY DEF UpdateMerge, n
  <2> HIDE DEF Sound
  <2> QED
    BY <2>1, <2>2, <2>3
<1>5. PICK new \in SUBSET {MergedFile(d) : d \in Digests} : files' = files \cup new
  BY <1>4
<1>6. files' \subseteq Paths
  BY <1>1, <1>5 DEF Typed, Paths
<1>7. PostsInPlace'
  <2>1. \A p \in Posters : Temp(p) \notin new
    BY TempsDiffer
  <2> QED
    BY <1>1, <1>2, <1>5, <2>1, PostsAreUntouched
<1>8. TagsAreKnown'
  BY <1>1, <1>2 DEF TagsAreKnown
<1>9. ASSUME NEW why \in {"internal error", "crash", "hung"}, job' = [job EXCEPT !.status = why]
      PROVE  job' \in Job /\ JobInv'
  <2>1. /\ job' \in Job /\ job'.seen = job.seen /\ job'.chain = job.chain /\ job'.got = job.got
        /\ job'.status # "ok"
    BY <1>1, <1>9 DEF Job
  <2>2. LinksOfDimgs' /\ JobOfLock' /\ GotHeadersAreTrue'
    BY <1>1, <1>2, <2>1 DEF LinksOfDimgs, OfDimg, JobOfLock, GotHeadersAreTrue
  <2>3. ChainIsStack' /\ PlainUpdateApplies'
    BY <1>2, <2>1 DEF ChainIsStack, PlainUpdateApplies
  <2> QED
    BY <2>1, <2>2, <2>3 DEF JobInv
<1>10. ASSUME NEW path, path = MergedFile(job.chain[1]),
              NEW reply, reply = IF n = 1 THEN job.got[1] ELSE MergeOf(job.got, path),
              job' = [job EXCEPT !.status = "ok", !.reply = reply]
       PROVE  job' \in Job /\ JobInv'
  <2>1. path \in Paths
    BY <1>3, <1>10 DEF Paths
  <2>2. reply \in Entry
    <3>1. CASE n = 1
      BY <1>3, <1>10, <3>1
    <3>2. CASE n # 1
      BY <1>1, <1>3, <1>10, <2>1, <3>2, MergeOfIsEntry DEF GotHeadersAreTrue, TrueHeader
    <3> QED
      BY <3>1, <3>2
  <2>3. /\ job' \in Job /\ job'.seen = job.seen /\ job'.chain = job.chain /\ job'.got = job.got
        /\ job'.reply = reply /\ job'.id = job.id /\ job'.goals = job.goals
    BY <1>1, <1>10, <2>2 DEF Job
  <2>4. LinksOfDimgs' /\ JobOfLock' /\ GotHeadersAreTrue' /\ ChainIsStack'
    BY <1>1, <1>2, <2>3 DEF LinksOfDimgs, OfDimg, JobOfLock, GotHeadersAreTrue, ChainIsStack
  <2>5. PlainUpdateApplies'
    <3> SUFFICES ASSUME \A i \in DOMAIN job.chain : /\ job.got[i] = EntryOf(job.chain[i])
                                                    /\ job.chain[i] \notin walked
                 PROVE  Applies'
      BY <1>2, <2>3 DEF PlainUpdateApplies, EntryOf, EntryAt
    <3>1. DOMAIN job.chain = 1..n
      BY <1>3
    <3>2. ChainFits(job.chain)
      BY <1>2, <3>1 DEF ServerInv, ChainIsStack
    <3>3. /\ reply.id = job.id
          /\ reply.parent \in job.goals
          /\ reply.body = <<reply.parent, reply.id>>
      BY <1>1, <1>2, <1>3, <1>10, <2>1, <3>1, <3>2, PlainMergeApplies
    <3> QED
      BY <2>3, <3>3 DEF Applies
  <2> QED
    BY <2>3, <2>4, <2>5 DEF JobInv
<1>11. job' \in Job /\ JobInv'
  <2>1. CASE job' = [job EXCEPT !.status = "ok",
                               !.reply = IF n = 1 THEN job.got[1]
                                         ELSE MergeOf(job.got, MergedFile(job.chain[1]))]
    BY <1>10, <2>1
  <2>2. CASE \E why \in {"internal error", "crash", "hung"} : job' = [job EXCEPT !.status = why]
    BY <1>9, <2>2
  <2> QED
    BY <2>1, <2>2 DEF UpdateMerge, Fail
<1>12. Typed'
  BY <1>1, <1>2, <1>4, <1>6, <1>11 DEF Typed
<1> QED
  BY <1>4, <1>7, <1>8, <1>11, <1>12 DEF ServerInv, JobInv

\* A response ends the update and frees the lock.
LEMMA RespondKeeps ==
  ASSUME ServerInv, Respond
  PROVE  ServerInv'
<1>1. Typed /\ PostsInPlace /\ PathsStay /\ HeadersAreTrue /\ TagsAreKnown
      /\ \A l \in links : OfDimg(l)
  BY DEF ServerInv, LinksOfDimgs
<1>2. /\ lock = "responding" /\ lock' = "free" /\ job' = NoJob
      /\ UNCHANGED <<nodes, links, marked, entries, files, tags, storeLock, post, walked, torn>>
  BY DEF Respond, store
<1>3. (\A l \in links : OfDimg(l))'
  BY <1>1, <1>2 DEF OfDimg
<1>4. job' \in Job /\ JobInv'
  BY <1>2, <1>3, NoUpdateRuns
<1>5. Typed'
  BY <1>1, <1>2, <1>4 DEF Typed
<1>6. PostsInPlace' /\ PathsStay' /\ HeadersAreTrue' /\ TagsAreKnown'
  BY <1>1, <1>2 DEF PostsInPlace, InPlace, PathsStay, HeadersAreTrue, TagsAreKnown
<1> QED
  BY <1>4, <1>5, <1>6 DEF ServerInv, JobInv
------------------------------------------------------------------------------
(* The theorems *)

\* However the three handlers interleave, fail or are cut short by a restart, the
\* invariant holds.
THEOREM ServerInvariance == ServerSpec => []ServerInv
<1>1. InitServer => ServerInv
  <2>1. InitServer => FreshServer
    BY DEF InitServer, InitStore, Init, FreshServer
  <2> QED
    BY <2>1, FreshServerIsSound
<1>2. ServerInv /\ [NextServer]_vars => ServerInv'
  <2> SUFFICES ASSUME ServerInv, [NextServer]_vars PROVE ServerInv'
    OBVIOUS
  <2>1. ASSUME NEW p \in Posters, PostReceive(p) PROVE ServerInv'
    BY <2>1, PostReceiveKeeps
  <2>2. ASSUME NEW p \in Posters, PostEnter(p) PROVE ServerInv'
    BY <2>2, PostEnterKeeps
  <2>3. ASSUME NEW p \in Posters, PostRename(p) PROVE ServerInv'
    BY <2>3, PostRenameKeeps
  <2>4. ASSUME NEW p \in Posters, PostLink(p) PROVE ServerInv'
    BY <2>4, PostLinkKeeps
  <2>5. ASSUME NEW p \in Posters, PostEntry(p) PROVE ServerInv'
    BY <2>5, PostEntryKeeps
  <2>6. ASSUME NEW p \in Posters, PostTag(p) PROVE ServerInv'
    BY <2>6, PostTagKeeps
  <2>7. CASE CleanupRemove \/ CleanupFails
    BY <2>7, CleanupRemoveKeeps, CleanupFailsKeeps
  <2>8. CASE CleanupMakeDir \/ CleanupSwap
    BY <2>8, CleanupMakeDirKeeps, CleanupSwapKeeps
  <2>9. ASSUME NEW t \in Tags, NEW locals \in SUBSET (Names \ {Base}), UpdateStart(t, locals)
        PROVE  ServerInv'
    BY <2>9, UpdateStartKeeps
  <2>10. CASE UpdateSearch \/ UpdateMerge \/ Respond
    BY <2>10, UpdateSearchKeeps, UpdateMergeKeeps, RespondKeeps
  <2>11. CASE Restart
    BY <2>11, RestartKeeps
  <2>12. CASE UNCHANGED vars
    <3>1. Typed /\ PostsInPlace /\ JobInv /\ PathsStay /\ HeadersAreTrue /\ TagsAreKnown
      BY InvInParts
    <3>2. UNCHANGED <<nodes, links, marked, entries, files, tags, lock, storeLock, post, job,
                      walked, torn>>
      BY <2>12 DEF vars, server
    <3>3. job' \in Job /\ JobInv'
      BY <3>1, <3>2, JobIsUntouched
    <3>4. Typed' /\ PostsInPlace'
      BY <3>1, <3>2 DEF Typed, PostsInPlace, InPlace
    <3>5. PathsStay' /\ HeadersAreTrue' /\ TagsAreKnown'
      BY <3>1, <3>2 DEF PathsStay, HeadersAreTrue, TagsAreKnown
    <3> QED
      BY <3>3, <3>4, <3>5 DEF ServerInv, JobInv
  <2> QED
    BY <2>1, <2>2, <2>3, <2>4, <2>5, <2>6, <2>7, <2>8, <2>9, <2>10, <2>11, <2>12
       DEF NextServer, PostStep, LockStep
<1> QED
  BY <1>1, <1>2, PTL DEF ServerSpec

\* The server's maps, locks and requests keep the types the Go code gives them.
THEOREM ServerTypes == ServerSpec => []ServerTypeOK
<1>1. Typed => ServerTypeOK
  BY DEF Typed, ServerTypeOK, Post, Job
<1> QED
  BY <1>1, ServerInvariance, PTL DEF ServerInv

\* /update never looks up an image that the graph does not know (the nil dereference
\* of dijkstra.go), whatever else is posted: the tag is set under ds.lock after the
\* dimg is registered, and only a cleanup in between undoes that.
THEOREM TaggedImagesAreKnown == ServerSpec => []TagsAreKnown
BY ServerInvariance, PTL DEF ServerInv

\* The file of each entry stays where the entry says, through every merge that
\* rewrites paths and every post that renames files, unless a cleanup overlaps a post.
THEOREM FilesStay == ServerSpec => []EntriesHaveFiles
<1>1. PathsStay => EntriesHaveFiles
  BY DEF PathsStay, EntriesHaveFiles
<1> QED
  BY <1>1, ServerInvariance, PTL DEF ServerInv

\* An entry's header says what its content is, also after merges have overwritten it.
THEOREM HeadersStayTrue == ServerSpec => []HeadersAreTrue
BY ServerInvariance, PTL DEF ServerInv

\* An update whose chain holds nothing but plain dimgs is answered with a dimg that
\* turns what the client has into what it asked for, in any graph and for any number
\* of dimgs merged, whatever posts add to the graph during the search.
THEOREM PlainUpdatesApply == ServerSpec => []PlainUpdateApplies
BY ServerInvariance, PTL DEF ServerInv
==============================================================================
