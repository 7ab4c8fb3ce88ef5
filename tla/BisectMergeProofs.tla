-------------------------- MODULE BisectMergeProofs --------------------------
(***************************************************************************)
(* Proofs about BisectMerge, for chains of any length and any number of     *)
(* places in threadLimit: its types, the limit on merges that run at once,  *)
(* and that the one dimg it returns stands for the whole chain.             *)
(***************************************************************************)
EXTENDS BisectMerge, TLAPS, WellFoundedInduction, FiniteSetTheorems

------------------------------------------------------------------------------
(* Inductions *)

\* A set of natural numbers that is not empty has a least element.
LEMMA LeastNatural ==
  ASSUME NEW T, T \subseteq Nat, T # {}
  PROVE  \E m \in T : \A n \in T : m <= n
<1> DEFINE R == OpToRel(<, Nat)
<1>1. \A x, y \in T : <<y, x>> \in R <=> y < x
  BY DEF OpToRel
<1>2. \E x \in T : \A y \in T : ~ (<<y, x>> \in R)
  BY NatLessThanWellFounded, WFMin, Zenon
<1> HIDE DEF R
<1>3. \E x \in T : \A y \in T : ~(y < x)
  BY <1>1, <1>2
<1> QED
  BY ONLY <1>3, T \subseteq Nat

\* What holds of 0, and of n + 1 when it holds of n, holds of every number.
LEMMA SetInduction ==
  ASSUME NEW S, 0 \in S, \A n \in Nat : n \in S => n + 1 \in S
  PROVE  Nat \subseteq S
<1> SUFFICES ASSUME Nat \ S # {} PROVE FALSE
  OBVIOUS
<1>1. PICK m \in Nat \ S : \A n \in Nat \ S : m <= n
  BY LeastNatural
<1>2. m # 0 /\ m - 1 \in Nat /\ m - 1 \in S
  BY <1>1
<1> QED
  BY <1>1, <1>2

\* What holds of a value when it holds of all that are smaller, by some measure m,
\* holds of every value.
LEMMA MeasureInduction ==
  ASSUME NEW D, NEW m \in [D -> Nat], NEW P,
         \A x \in D : (\A y \in D : m[y] < m[x] => y \in P) => x \in P
  PROVE  D \subseteq P
<1> SUFFICES ASSUME D \ P # {} PROVE FALSE
  OBVIOUS
<1> DEFINE T == {m[x] : x \in D \ P}
<1>1. T \subseteq Nat /\ T # {}
  OBVIOUS
<1>2. PICK k \in T : \A n \in T : k <= n
  <2> HIDE DEF T
  <2> QED
    BY <1>1, LeastNatural
<1>3. PICK x \in D \ P : k = m[x]
  OBVIOUS
<1>4. ASSUME NEW y \in D, m[y] < m[x] PROVE y \in P
  <2> SUFFICES ASSUME y \notin P PROVE FALSE
    OBVIOUS
  <2>1. m[x] <= m[y]
    BY <1>2, <1>3
  <2> QED
    BY <1>4, <2>1
<1> QED
  BY <1>4

\* A function that is given by its values at smaller arguments, by some measure m.
Recurses(G, D, V, m) ==
  \A f, g \in [D -> V], x \in D :
    (\A y \in D : m[y] < m[x] => f[y] = g[y]) => G[<<f, x>>] = G[<<g, x>>]

Solves(f, D, V, G) == f \in [D -> V] /\ \A x \in D : f[x] = G[<<f, x>>]

\* There is one when the measure is bounded.
LEMMA Recursion ==
  ASSUME NEW D, NEW V, V # {}, NEW m \in [D -> Nat],
         NEW b \in Nat, \A x \in D : m[x] <= b,
         NEW G \in [[D -> V] \X D -> V], Recurses(G, D, V, m)
  PROVE  \E f : Solves(f, D, V, G)
<1> DEFINE S == {k \in Nat : \E f \in [D -> V] : \A x \in D : m[x] < k => f[x] = G[<<f, x>>]}
<1>1. 0 \in S
  <2>1. PICK v \in V : TRUE
    OBVIOUS
  <2>2. [x \in D |-> v] \in [D -> V]
    OBVIOUS
  <2>3. \A x \in D : ~(m[x] < 0)
    OBVIOUS
  <2> QED
    BY <2>2, <2>3
<1>2. ASSUME NEW k \in Nat, k \in S PROVE k + 1 \in S
  <2>1. PICK f \in [D -> V] : \A x \in D : m[x] < k => f[x] = G[<<f, x>>]
    BY <1>2
  <2> DEFINE g == [x \in D |-> G[<<f, x>>]]
  <2>2. g \in [D -> V]
    OBVIOUS
  <2>3. ASSUME NEW x \in D, m[x] < k + 1 PROVE g[x] = G[<<g, x>>]
    <3>1. ASSUME NEW y \in D, m[y] < m[x] PROVE f[y] = g[y]
      <4>1. m[y] < k
        BY <2>3, <3>1
      <4> QED
        BY <2>1, <4>1
    <3>2. G[<<f, x>>] = G[<<g, x>>]
      <4> HIDE DEF g
      <4> QED
        BY <2>2, <3>1 DEF Recurses
    <3> QED
      BY <3>2
  <2> HIDE DEF g
  <2> QED
    BY <2>2, <2>3
<1>3. b + 1 \in S
  <2> HIDE DEF S
  <2> QED
    BY <1>1, <1>2, SetInduction
<1>4. PICK f \in [D -> V] : \A x \in D : m[x] < b + 1 => f[x] = G[<<f, x>>]
  BY <1>3
<1>5. \A x \in D : m[x] < b + 1
  OBVIOUS
<1> QED
  BY <1>4, <1>5 DEF Solves
------------------------------------------------------------------------------
(* Segments *)

Within(s, t) == t[1] <= s[1] /\ s[2] <= t[2]
Apart(s, t) == s[2] < t[1] \/ t[2] < s[1]

\* s is below t when t is halved.
Inside(s, t) == ~IsLeaf(t) /\ (Within(s, Upper(t)) \/ Within(s, Lower(t)))

Do(what, t) == [op |-> what, task |-> t]
Operation == [op : {"done", "wait", "launch"}, task : Task]
Ops(p) == {p[i] : i \in 1..Len(p)}
TasksOf(p) == {o.task : o \in Ops(p)}

\* b comes too late when it comes after a: no operation comes twice, and a task is
\* launched after the waits for all that is below it.
Late(a, b) == a = b \/ (a.op = "launch" /\ b.op = "wait" /\ Inside(b.task, a.task))
Ordered(p) == \A i, j \in 1..Len(p) : i < j => ~Late(p[i], p[j])

\* Leaves are done, the others are launched.
Fits(o) == (o.op = "done" => IsLeaf(o.task)) /\ (o.op = "launch" => ~IsLeaf(o.task))

\* What the operations of the program of t say of t, and of what is below t.
Below(t, p) ==
  /\ \A o \in Ops(p) : Fits(o) /\ Within(o.task, t) /\ (o.op = "wait" => Inside(o.task, t))
  /\ t \in TasksOf(p)

\* Tasks are disjoint or nested, and all but t are waited for.
Halved(t, p) ==
  /\ \A s \in TasksOf(p) : /\ s # t => Do("wait", s) \in Ops(p)
                           /\ ~IsLeaf(s) => {Upper(s), Lower(s)} \subseteq TasksOf(p)
  /\ \A s, u \in TasksOf(p) : s = u \/ Apart(s, u) \/ Inside(s, u) \/ Inside(u, s)

IsProgramOf(t, p) == p \in Seq(Operation) /\ Ordered(p) /\ Below(t, p) /\ Halved(t, p)
------------------------------------------------------------------------------
(* The inductive invariant *)

Top == <<1, len>>
Tree == TasksOf(Program[Top])
Over(t) == IsLeaf(t) \/ merger[t] \in {"releasing", "over"}
Ready(t) == Over(t) /\ done[t] # "error"

\* What is still to be done is in order, and of tasks of the tree.
ProgramInOrder ==
  /\ program \in Seq(Operation) /\ Ordered(program)
  /\ \A o \in Ops(program) : Fits(o) /\ o.task \in Tree

\* A task is launched once, when all below it is over.
LaunchedOnce ==
  \A t \in Task :
    merger[t] # "none" => /\ t \in Tree /\ ~IsLeaf(t) /\ Do("launch", t) \notin Ops(program)
                          /\ \A s \in Tree : Inside(s, t) => Over(s)

\* What a goroutine holds, and what it has told.
Told ==
  \A t \in Task :
    /\ merger[t] = "assigning" => file[t] = t
    /\ merger[t] \in {"creating", "merging", "assigning"} => done[t] = "none"
    /\ done[t] = "error" => merger[t] = "over"
    /\ done[t] = "ok" => Over(t)
    /\ merger[t] \in {"creating", "merging"} =>
         entry[Upper(t)[1]] = Upper(t) /\ entry[Lower(t)[1]] = Lower(t)

\* The result of a task is in its entry until the task above is launched.
Wanted(t) ==
  t = Top \/ \E s \in Task : Do("launch", s) \in Ops(program) /\ t \in {Upper(s), Lower(s)}

Kept(t) == Ready(t) => entry[t[1]] = t
ResultsKept == caller = "running" => \A t \in Task : Wanted(t) => Kept(t)

\* Nothing is waited for that is not finished then.
WaitedFor ==
  caller = "running" => \A t \in Tree : Do("wait", t) \notin Ops(program) => Ready(t)

Returned == caller = "ok" => entry[1] = Top /\ Running = {}

Bisecting == /\ ProgramInOrder /\ LaunchedOnce /\ Told
             /\ ResultsKept /\ WaitedFor /\ Returned

\* The loop of a linear merge: k dimgs are left above the merged one.
Looping ==
  LET k == Len(program) IN
  /\ merger = [t \in Task |-> "none"] /\ done = [t \in Task |-> "none"]
  /\ k < len /\ program = [i \in 1..k |-> [op |-> "join", task |-> <<k + 1 - i, len>>]]
  /\ entry[len] = <<k + 1, len>> /\ \A i \in 1..k : entry[i] = <<i, i>>
  /\ caller = "ok" => k = 0

\* Who has a token of threadLimit.
Holders == {t \in Task : merger[t] \in {"creating", "merging", "assigning", "releasing"}}

BisectInv ==
  /\ TypeOK
  /\ Cardinality(Holders) <= tokens
  /\ method = "linear" => Looping
  /\ method = "bisect" => Bisecting
------------------------------------------------------------------------------
(* The program of a task *)

\* An operation of the caller says what to do and for which task.
LEMMA OperationIs ==
  ASSUME NEW what, NEW t
  PROVE  Do(what, t).op = what /\ Do(what, t).task = t
  BY DEF Do

\* Halving ends, and the halves lie next to each other.
LEMMA HalvesOf ==
  ASSUME NEW t \in Task, ~IsLeaf(t)
  PROVE  /\ Upper(t) \in Task /\ Lower(t) \in Task
         /\ Upper(t)[1] = t[1] /\ Lower(t)[2] = t[2]
         /\ Lower(t)[1] = Upper(t)[2] + 1
         /\ Upper(t)[2] < t[2] /\ t[1] < Lower(t)[1]
<1>1. t[1] \in Nat /\ t[2] \in Nat /\ t[1] < t[2] /\ t[1] \in 1..MaxDimgs /\ t[2] \in 1..MaxDimgs
  BY BisectAssumption DEF Task, IsLeaf
<1> DEFINE h == (t[2] - t[1] + 1) \div 2
<1>2. h \in Nat /\ 1 <= h /\ h <= t[2] - t[1]
  BY <1>1
<1>3. Upper(t) = <<t[1], t[1] + h - 1>> /\ Lower(t) = <<t[1] + h, t[2]>>
  BY DEF Upper, Lower, Half
<1> HIDE DEF h
<1>4. t[1] + h - 1 \in 1..MaxDimgs /\ t[1] + h \in 1..MaxDimgs
  BY <1>1, <1>2, BisectAssumption
<1> QED
  BY <1>1, <1>2, <1>3, <1>4 DEF Task

\* What lies in a half lies in the whole, and apart from the other half.
LEMMA InsideIsWithin ==
  ASSUME NEW t \in Task, NEW s \in Task, Inside(s, t)
  PROVE  Within(s, t) /\ s # t /\ ~Inside(t, s)
<1>1. /\ ~IsLeaf(t) /\ Upper(t) \in Task /\ Lower(t) \in Task
      /\ Upper(t)[1] = t[1] /\ Lower(t)[2] = t[2] /\ Lower(t)[1] = Upper(t)[2] + 1
      /\ Upper(t)[2] < t[2] /\ t[1] < Lower(t)[1]
  BY HalvesOf DEF Inside
<1>2. \A u \in Task : u[1] \in Nat /\ u[2] \in Nat /\ u[1] <= u[2]
  BY BisectAssumption DEF Task
<1>3. Within(s, t) /\ (t[1] < s[1] \/ s[2] < t[2])
  <2>1. CASE Within(s, Upper(t))
    BY <1>1, <1>2, <2>1 DEF Within
  <2>2. CASE Within(s, Lower(t))
    BY <1>1, <1>2, <2>2 DEF Within
  <2> QED
    BY <2>1, <2>2 DEF Inside
<1>4. ASSUME Inside(t, s) PROVE Within(t, s)
  <2>1. /\ ~IsLeaf(s) /\ Upper(s) \in Task /\ Lower(s) \in Task
        /\ Upper(s)[1] = s[1] /\ Lower(s)[2] = s[2]
        /\ Upper(s)[2] < s[2] /\ s[1] < Lower(s)[1]
    BY <1>4, HalvesOf DEF Inside
  <2>2. CASE Within(t, Upper(s))
    BY <1>2, <2>1, <2>2 DEF Within
  <2>3. CASE Within(t, Lower(s))
    BY <1>2, <2>1, <2>3 DEF Within
  <2> QED
    BY <1>4, <2>2, <2>3 DEF Inside
<1> QED
  BY <1>2, <1>3, <1>4 DEF Within

\* The operations of a program are operations.
LEMMA OpsTyped ==
  ASSUME NEW S, NEW p \in Seq(S)
  PROVE  Ops(p) \subseteq S
  BY DEF Ops

\* The operations of two programs, one after the other.
LEMMA ConcatOps ==
  ASSUME NEW S, NEW p \in Seq(S), NEW q \in Seq(S)
  PROVE  p \o q \in Seq(S) /\ Ops(p \o q) = Ops(p) \cup Ops(q)
<1>1. /\ p \o q \in Seq(S) /\ Len(p) \in Nat /\ Len(q) \in Nat /\ Len(p \o q) = Len(p) + Len(q)
      /\ \A i \in 1..Len(p) : (p \o q)[i] = p[i]
      /\ \A i \in 1..Len(q) : (p \o q)[Len(p) + i] = q[i]
  OBVIOUS
<1> DEFINE r == p \o q
<1> HIDE DEF r
<1>2. Ops(r) \subseteq Ops(p) \cup Ops(q)
  <2> SUFFICES ASSUME NEW i \in 1..Len(r) PROVE r[i] \in Ops(p) \cup Ops(q)
    BY DEF Ops
  <2>1. CASE i <= Len(p)
    BY <1>1, <2>1 DEF Ops, r
  <2>2. CASE i > Len(p)
    <3>1. i - Len(p) \in 1..Len(q) /\ i = Len(p) + (i - Len(p))
      BY <1>1, <2>2 DEF r
    <3>2. r[i] = q[i - Len(p)]
      BY <1>1, <3>1 DEF r
    <3> QED
      BY <3>1, <3>2 DEF Ops
  <2> QED
    BY <1>1, <2>1, <2>2 DEF r
<1>3. Ops(p) \subseteq Ops(r)
  BY <1>1 DEF Ops, r
<1>4. Ops(q) \subseteq Ops(r)
  <2> SUFFICES ASSUME NEW i \in 1..Len(q) PROVE q[i] \in Ops(r)
    BY DEF Ops
  <2>1. Len(p) + i \in 1..Len(r) /\ r[Len(p) + i] = q[i]
    BY <1>1 DEF r
  <2> QED
    BY <2>1 DEF Ops
<1> QED
  BY <1>1, <1>2, <1>3, <1>4 DEF r

\* They are in order when each is, and nothing of the second comes too late.
LEMMA ConcatOrdered ==
  ASSUME NEW S, NEW p \in Seq(S), NEW q \in Seq(S), Ordered(p), Ordered(q),
         \A a \in Ops(p), b \in Ops(q) : ~Late(a, b)
  PROVE  Ordered(p \o q)
<1>1. /\ Len(p) \in Nat /\ Len(q) \in Nat /\ Len(p \o q) = Len(p) + Len(q)
      /\ \A i \in 1..Len(p) : (p \o q)[i] = p[i]
      /\ \A i \in 1..Len(q) : (p \o q)[Len(p) + i] = q[i]
  OBVIOUS
<1> DEFINE r == p \o q
<1> HIDE DEF r
<1>2. \A i \in 1..Len(r) : \/ i \in 1..Len(p) /\ r[i] = p[i]
                           \/ i - Len(p) \in 1..Len(q) /\ r[i] = q[i - Len(p)]
  <2> TAKE i \in 1..Len(r)
  <2>1. CASE i <= Len(p)
    BY <1>1, <2>1 DEF r
  <2>2. CASE i > Len(p)
    <3>1. i - Len(p) \in 1..Len(q) /\ i = Len(p) + (i - Len(p))
      BY <1>1, <2>2 DEF r
    <3> QED
      BY <1>1, <3>1 DEF r
  <2> QED
    BY <1>1, <2>1, <2>2 DEF r
<1> SUFFICES ASSUME NEW i \in 1..Len(r), NEW j \in 1..Len(r), i < j
             PROVE  ~Late(r[i], r[j])
  BY DEF Ordered, r
<1>3. CASE i \in 1..Len(p) /\ r[i] = p[i] /\ j \in 1..Len(p) /\ r[j] = p[j]
  BY <1>3 DEF Ordered
<1>4. CASE i \in 1..Len(p) /\ r[i] = p[i] /\ j - Len(p) \in 1..Len(q) /\ r[j] = q[j - Len(p)]
  BY <1>4 DEF Ops
<1>5. CASE i - Len(p) \in 1..Len(q) /\ r[i] = q[i - Len(p)] /\ j - Len(p) \in 1..Len(q) /\ r[j] = q[j - Len(p)]
  <2>1. i - Len(p) < j - Len(p)
    BY <1>1, <1>5
  <2> QED
    BY <1>5, <2>1 DEF Ordered
<1>6. ~(i - Len(p) \in 1..Len(q) /\ j \in 1..Len(p))
  BY <1>1
<1> QED
  BY <1>2, <1>3, <1>4, <1>5, <1>6

\* A program of one operation.
LEMMA OneOp ==
  ASSUME NEW what \in {"done", "wait", "launch"}, NEW t \in Task
  PROVE  /\ Op(what, t) \in Seq(Operation) /\ Ops(Op(what, t)) = {Do(what, t)}
         /\ Ordered(Op(what, t))
<1>1. Do(what, t) \in Operation
  BY DEF Do, Operation
<1>2. Op(what, t) = <<Do(what, t)>>
  BY DEF Op, Do
<1> DEFINE o == Do(what, t)
<1> HIDE DEF o
<1>3. <<o>> \in Seq(Operation) /\ Len(<<o>>) = 1 /\ <<o>>[1] = o
  BY <1>1 DEF o
<1>4. 1..1 = {1}
  OBVIOUS
<1>5. Ops(<<o>>) = {o}
  BY <1>3, <1>4 DEF Ops
<1>6. Ordered(<<o>>)
  BY <1>3, <1>4 DEF Ordered
<1> QED
  BY <1>2, <1>3, <1>5, <1>6 DEF o

\* What lies below one half has nothing to do with what lies below the other.
LEMMA HalvesApart ==
  ASSUME NEW t \in Task, ~IsLeaf(t), NEW s \in Task, NEW u \in Task,
         Within(s, Lower(t)), Within(u, Upper(t))
  PROVE  /\ s # u /\ Apart(s, u) /\ Apart(u, s) /\ ~Inside(s, u) /\ ~Inside(u, s)
         /\ Inside(s, t) /\ Inside(u, t)
<1>1. /\ Upper(t) \in Task /\ Lower(t) \in Task /\ Lower(t)[1] = Upper(t)[2] + 1
  BY HalvesOf
<1>2. \A v \in Task : v[1] \in Nat /\ v[2] \in Nat /\ v[1] <= v[2]
  BY BisectAssumption DEF Task
<1>3. u[2] < s[1]
  BY <1>1, <1>2 DEF Within
<1>4. ~Within(s, u) /\ ~Within(u, s)
  BY <1>2, <1>3 DEF Within
<1>5. ~Inside(s, u) /\ ~Inside(u, s)
  BY <1>4, InsideIsWithin
<1> QED
  BY <1>2, <1>3, <1>5 DEF Apart, Inside

\* What lies within a half of a task is not the task.
LEMMA WithinHalf ==
  ASSUME NEW t \in Task, ~IsLeaf(t), NEW s \in Task, NEW h \in {Upper(t), Lower(t)}, Within(s, h)
  PROVE  h \in Task /\ Inside(s, t) /\ Within(s, t) /\ s # t
<1>1. Inside(s, t) /\ h \in Task
  BY HalvesOf DEF Inside
<1> QED
  BY <1>1, InsideIsWithin

\* Nothing of a program waits for its own task, or is launched above it.
LEMMA ProgramBeforeWait ==
  ASSUME NEW h \in Task, NEW p, IsProgramOf(h, p), NEW x \in Ops(p), NEW g \in Task,
         g = h \/ \A s \in Task : Within(s, h) => ~Inside(g, s) /\ s # g
  PROVE  ~Late(x, Do("wait", g))
<1>1. x.task \in Task /\ Within(x.task, h) /\ (x.op = "wait" => Inside(x.task, h))
  <2>1. x \in Operation
    BY OpsTyped DEF IsProgramOf
  <2> QED
    BY <2>1 DEF IsProgramOf, Below, Operation
<1>2. x = Do("wait", g) => x.op = "wait" /\ x.task = g
  BY OperationIs
<1>3. CASE g = h
  <2>1. x # Do("wait", g)
    BY <1>1, <1>2, <1>3, InsideIsWithin
  <2>2. ASSUME Inside(h, x.task) PROVE FALSE
    <3>1. Within(h, x.task) /\ x.task # h
      BY <1>1, <2>2, InsideIsWithin
    <3>2. x.task = h
      BY <1>1, <3>1, BisectAssumption DEF Within, Task
    <3> QED
      BY <3>1, <3>2
  <2> QED
    BY <1>3, <2>1, <2>2, OperationIs DEF Late
<1>4. CASE \A s \in Task : Within(s, h) => ~Inside(g, s) /\ s # g
  BY <1>1, <1>2, <1>4, OperationIs DEF Late
<1> QED
  BY <1>3, <1>4

\* The programs of both halves, the waits and the launch are the program of a task.
LEMMA ProgramOfHalves ==
  ASSUME NEW t \in Task, ~IsLeaf(t), NEW a, NEW b,
         IsProgramOf(Lower(t), a), IsProgramOf(Upper(t), b)
  PROVE  IsProgramOf(t, a \o b \o Wait(t) \o Op("launch", t))
<1> DEFINE L == Lower(t)
           U == Upper(t)
           w == Wait(t)
           l == Op("launch", t)
           p == a \o b \o w \o l
           WL == Do("wait", L)
           WU == Do("wait", U)
           LT == Do("launch", t)
<1>1. L \in Task /\ U \in Task /\ Within(L, L) /\ Within(U, U)
  <2>1. L \in Task /\ U \in Task
    BY HalvesOf
  <2> QED
    BY <2>1, BisectAssumption DEF Within, Task
<1>2. /\ a \in Seq(Operation) /\ b \in Seq(Operation) /\ Ordered(a) /\ Ordered(b)
      /\ Below(L, a) /\ Below(U, b) /\ Halved(L, a) /\ Halved(U, b)
  BY DEF IsProgramOf
<1>3. /\ WL.op = "wait" /\ WL.task = L /\ WU.op = "wait" /\ WU.task = U
      /\ LT.op = "launch" /\ LT.task = t
  BY OperationIs
<1>4. L # U /\ WL # WU
  BY <1>1, <1>3, HalvesApart
<1> HIDE DEF WL, WU, LT
<1>5. w \in Seq(Operation) /\ Ops(w) = {WL, WU} /\ Ordered(w)
  <2> DEFINE x == Op("wait", L)
             y == Op("wait", U)
  <2>1. /\ x \in Seq(Operation) /\ Ops(x) = {WL} /\ Ordered(x)
        /\ y \in Seq(Operation) /\ Ops(y) = {WU} /\ Ordered(y)
    BY <1>1, OneOp DEF WL, WU
  <2>2. w = x \o y
    BY DEF Wait
  <2>3. ~Late(WL, WU)
    BY <1>3, <1>4 DEF Late
  <2> HIDE DEF x, y, w
  <2> QED
    BY <2>1, <2>2, <2>3, ConcatOps, ConcatOrdered
<1>6. l \in Seq(Operation) /\ Ops(l) = {LT} /\ Ordered(l)
  BY OneOp DEF LT
<1> HIDE DEF w, l, L, U
<1>7. ASSUME NEW x \in Ops(a)
      PROVE  x.task \in Task /\ Within(x.task, L)
  <2>1. x \in Operation
    BY <1>2, OpsTyped
  <2> QED
    BY <1>2, <2>1 DEF Below, Operation
<1>8. ASSUME NEW x \in Ops(b)
      PROVE  x.task \in Task /\ Within(x.task, U)
  <2>1. x \in Operation
    BY <1>2, OpsTyped
  <2> QED
    BY <1>2, <2>1 DEF Below, Operation
<1>9. a \o b \in Seq(Operation) /\ Ops(a \o b) = Ops(a) \cup Ops(b) /\ Ordered(a \o b)
  <2>1. ASSUME NEW x \in Ops(a), NEW y \in Ops(b) PROVE ~Late(x, y)
    BY <1>7, <1>8, HalvesApart DEF Late, L, U
  <2> QED
    BY <1>2, <2>1, ConcatOps, ConcatOrdered
<1>10. /\ a \o b \o w \in Seq(Operation) /\ Ordered(a \o b \o w)
       /\ Ops(a \o b \o w) = Ops(a) \cup Ops(b) \cup {WL, WU}
  <2>1. ASSUME NEW x \in Ops(a) PROVE ~Late(x, WL) /\ ~Late(x, WU)
    <3>1. \A s \in Task : Within(s, L) => ~Inside(U, s) /\ s # U
      BY <1>1, HalvesApart DEF L, U
    <3> QED
      BY <1>1, <3>1, ProgramBeforeWait DEF WL, WU, L
  <2>2. ASSUME NEW x \in Ops(b) PROVE ~Late(x, WL) /\ ~Late(x, WU)
    <3>1. \A s \in Task : Within(s, U) => ~Inside(L, s) /\ s # L
      BY <1>1, HalvesApart DEF L, U
    <3> QED
      BY <1>1, <3>1, ProgramBeforeWait DEF WL, WU, U
  <2>3. \A x \in Ops(a \o b), y \in Ops(w) : ~Late(x, y)
    BY <1>5, <1>9, <2>1, <2>2
  <2> DEFINE c == a \o b
  <2>5. c \in Seq(Operation) /\ Ordered(c) /\ \A x \in Ops(c), y \in Ops(w) : ~Late(x, y)
    BY <1>9, <2>3
  <2> HIDE DEF c
  <2>4. c \o w \in Seq(Operation) /\ Ordered(c \o w) /\ Ops(c \o w) = Ops(c) \cup Ops(w)
    BY <1>5, <2>5, ConcatOps, ConcatOrdered
  <2> QED
    BY <1>5, <1>9, <2>4 DEF c
<1>11. ASSUME NEW x \in Ops(a) \cup Ops(b) \cup {WL, WU}
       PROVE  x.task \in Task /\ Inside(x.task, t) /\ Within(x.task, t) /\ x.task # t
  <2>1. x.task \in Task /\ (Within(x.task, L) \/ Within(x.task, U))
    BY <1>1, <1>3, <1>7, <1>8
  <2> QED
    BY <2>1, WithinHalf DEF L, U
<1>12. p \in Seq(Operation) /\ Ordered(p) /\ Ops(p) = Ops(a) \cup Ops(b) \cup {WL, WU, LT}
  <2> DEFINE c == a \o b \o w
  <2>1. \A x \in Ops(c), y \in Ops(l) : ~Late(x, y)
    BY <1>3, <1>6, <1>10, <1>11 DEF Late
  <2>2. p = c \o l /\ c \in Seq(Operation) /\ Ordered(c)
    BY <1>10
  <2> HIDE DEF c, p
  <2>3. p \in Seq(Operation) /\ Ordered(p) /\ Ops(p) = Ops(c) \cup Ops(l)
    BY <1>6, <2>1, <2>2, ConcatOps, ConcatOrdered
  <2> QED
    BY <1>6, <1>10, <2>3 DEF c
<1> HIDE DEF p
<1>13. Below(t, p)
  <2>1. ASSUME NEW o \in Ops(p)
        PROVE  Fits(o) /\ Within(o.task, t) /\ (o.op = "wait" => Inside(o.task, t))
    <3>1. Within(t, t)
      BY BisectAssumption DEF Within, Task
    <3>2. o # LT => Fits(o)
      BY <1>2, <1>3, <1>12 DEF Below, Fits
    <3> QED
      BY <1>3, <1>11, <1>12, <3>1, <3>2 DEF Fits
  <2>2. t \in TasksOf(p)
    BY <1>3, <1>12 DEF TasksOf
  <2> QED
    BY <2>1, <2>2 DEF Below
<1>14. Halved(t, p)
  <2>1. TasksOf(p) = TasksOf(a) \cup TasksOf(b) \cup {t}
    <3>1. L \in TasksOf(a) /\ U \in TasksOf(b)
      BY <1>2 DEF Below
    <3> QED
      BY <1>3, <1>12, <3>1 DEF TasksOf
  <2>2. ASSUME NEW s \in TasksOf(a)
        PROVE  s \in Task /\ Within(s, L) /\ Inside(s, t)
    BY <1>7, <1>11, <2>2 DEF TasksOf
  <2>3. ASSUME NEW s \in TasksOf(b)
        PROVE  s \in Task /\ Within(s, U) /\ Inside(s, t)
    BY <1>8, <1>11, <2>3 DEF TasksOf
  <2>4. ASSUME NEW s \in TasksOf(p)
        PROVE  /\ s # t => Do("wait", s) \in Ops(p)
               /\ ~IsLeaf(s) => {Upper(s), Lower(s)} \subseteq TasksOf(p)
    <3>1. CASE s \in TasksOf(a)
      BY <1>2, <1>12, <2>1, <3>1 DEF Halved, WL
    <3>2. CASE s \in TasksOf(b)
      BY <1>2, <1>12, <2>1, <3>2 DEF Halved, WU
    <3>3. CASE s = t
      <4>1. L \in TasksOf(a) /\ U \in TasksOf(b)
        BY <1>2 DEF Below
      <4> QED
        BY <2>1, <3>3, <4>1 DEF L, U
    <3> QED
      BY <2>1, <3>1, <3>2, <3>3
  <2>5. ASSUME NEW s \in TasksOf(p), NEW u \in TasksOf(p)
        PROVE  s = u \/ Apart(s, u) \/ Inside(s, u) \/ Inside(u, s)
    <3>1. CASE s = t \/ u = t
      BY <2>1, <2>2, <2>3, <3>1
    <3>2. CASE s \in TasksOf(a) /\ u \in TasksOf(a)
      BY <1>2, <3>2 DEF Halved
    <3>3. CASE s \in TasksOf(b) /\ u \in TasksOf(b)
      BY <1>2, <3>3 DEF Halved
    <3>4. CASE s \in TasksOf(a) /\ u \in TasksOf(b)
      BY <2>2, <2>3, <3>4, HalvesApart DEF L, U
    <3>5. CASE s \in TasksOf(b) /\ u \in TasksOf(a)
      BY <2>2, <2>3, <3>5, HalvesApart DEF L, U
    <3> QED
      BY <2>1, <3>1, <3>2, <3>3, <3>4, <3>5
  <2> QED
    BY <2>4, <2>5 DEF Halved
<1> QED
  BY <1>12, <1>13, <1>14 DEF IsProgramOf, p, w, l

\* A leaf is done, and that is all.
LEMMA ProgramOfLeaf ==
  ASSUME NEW t \in Task, IsLeaf(t)
  PROVE  IsProgramOf(t, Op("done", t))
<1> DEFINE p == Op("done", t)
           o == Do("done", t)
<1>1. p \in Seq(Operation) /\ Ops(p) = {o} /\ Ordered(p)
  BY OneOp
<1>2. o.op = "done" /\ o.task = t
  BY OperationIs
<1> HIDE DEF p, o
<1>3. Within(t, t)
  BY BisectAssumption DEF Within, Task
<1>4. TasksOf(p) = {t}
  BY <1>1, <1>2 DEF TasksOf
<1>5. Below(t, p)
  BY <1>1, <1>2, <1>3, <1>4 DEF Below, Fits
<1>6. Halved(t, p)
  BY <1>4 DEF Halved
<1> QED
  BY <1>1, <1>5, <1>6 DEF IsProgramOf, p

\* A task has the length of its stretch; both halves are shorter.
LEMMA ProgramIs ==
  \A t \in Task : IsProgramOf(t, Program[t])
<1> DEFINE V == Seq(Operation)
           F(f, t) == IF IsLeaf(t) THEN Op("done", t)
                      ELSE f[Lower(t)] \o f[Upper(t)] \o Wait(t) \o Op("launch", t)
           m == [t \in Task |-> t[2] - t[1]]
           G == [x \in [Task -> V] \X Task |-> F(x[1], x[2])]
<1>1. m \in [Task -> Nat] /\ \A t \in Task : m[t] <= MaxDimgs
  BY BisectAssumption DEF Task
<1>2. ASSUME NEW t \in Task, ~IsLeaf(t)
      PROVE  /\ Lower(t) \in Task /\ Upper(t) \in Task
             /\ m[Lower(t)] < m[t] /\ m[Upper(t)] < m[t]
  <2>1. /\ Upper(t) \in Task /\ Lower(t) \in Task
        /\ Upper(t)[1] = t[1] /\ Lower(t)[2] = t[2]
        /\ Upper(t)[2] < t[2] /\ t[1] < Lower(t)[1]
    BY <1>2, HalvesOf
  <2>2. \A v \in Task : v[1] \in Nat /\ v[2] \in Nat /\ v[1] <= v[2]
    BY BisectAssumption DEF Task
  <2> QED
    BY <2>1, <2>2
<1> HIDE DEF m
<1>3. ASSUME NEW f \in [Task -> V], NEW t \in Task PROVE F(f, t) \in V
  <2>1. CASE IsLeaf(t)
    BY <2>1, OneOp
  <2>2. CASE ~IsLeaf(t)
    <3>1. f[Lower(t)] \in V /\ f[Upper(t)] \in V
      BY <1>2, <2>2
    <3>2. Wait(t) \in V
      <4>1. Op("wait", Lower(t)) \in V /\ Op("wait", Upper(t)) \in V
        BY <1>2, <2>2, OneOp
      <4> QED
        BY <4>1, ConcatOps DEF Wait
    <3>3. Op("launch", t) \in V
      BY OneOp
    <3>4. f[Lower(t)] \o f[Upper(t)] \in V
      BY <3>1, ConcatOps
    <3>5. f[Lower(t)] \o f[Upper(t)] \o Wait(t) \in V
      BY <3>2, <3>4, ConcatOps
    <3>6. f[Lower(t)] \o f[Upper(t)] \o Wait(t) \o Op("launch", t) \in V
      BY <3>3, <3>5, ConcatOps
    <3> QED
      BY <2>2, <3>6
  <2> QED
    BY <2>1, <2>2
<1>4. ASSUME NEW f \in [Task -> V], NEW g \in [Task -> V], NEW t \in Task,
             \A u \in Task : m[u] < m[t] => f[u] = g[u]
      PROVE  F(f, t) = F(g, t)
  <2>1. CASE ~IsLeaf(t)
    <3>1. f[Lower(t)] = g[Lower(t)] /\ f[Upper(t)] = g[Upper(t)]
      BY <1>2, <1>4, <2>1
    <3> QED
      BY <3>1
  <2> QED
    BY <2>1
<1> HIDE DEF F
<1>5. /\ G \in [[Task -> V] \X Task -> V]
      /\ \A f \in [Task -> V], t \in Task : G[<<f, t>>] = F(f, t)
  BY <1>3
<1> HIDE DEF G
<1>6. \E f \in [Task -> V] : \A t \in Task : f[t] = F(f, t)
  <2>1. V # {}
    <3>1. <<>> \in V
      OBVIOUS
    <3> HIDE DEF V
    <3> QED
      BY <3>1
  <2> HIDE DEF V
  <2>2. Recurses(G, Task, V, m)
    <3> SUFFICES ASSUME NEW f \in [Task -> V], NEW g \in [Task -> V], NEW t \in Task,
                        \A u \in Task : m[u] < m[t] => f[u] = g[u]
                 PROVE  G[<<f, t>>] = G[<<g, t>>]
      BY DEF Recurses
    <3>1. F(f, t) = F(g, t)
      BY <1>4
    <3> QED
      BY <1>5, <3>1
  <2>3. \E f : Solves(f, Task, V, G)
    BY <1>1, <1>5, <2>1, <2>2, BisectAssumption, Recursion
  <2> QED
    BY <1>5, <2>3 DEF Solves
<1>7. \E f : f = [t \in Task |-> F(f, t)]
  <2>1. PICK f \in [Task -> V] : \A t \in Task : f[t] = F(f, t)
    BY <1>6
  <2>2. f = [t \in Task |-> F(f, t)]
    BY <2>1
  <2> QED
    BY <2>2
<1>8. Program = [t \in Task |-> F(Program, t)]
  BY <1>7 DEF Program, F
<1> DEFINE P == {t \in Task : IsProgramOf(t, Program[t])}
<1>9. ASSUME NEW t \in Task, \A u \in Task : m[u] < m[t] => u \in P
      PROVE  t \in P
  <2>1. Program[t] = F(Program, t)
    BY <1>8
  <2>2. CASE IsLeaf(t)
    BY <2>1, <2>2, ProgramOfLeaf DEF F
  <2>3. CASE ~IsLeaf(t)
    <3>1. IsProgramOf(Lower(t), Program[Lower(t)]) /\ IsProgramOf(Upper(t), Program[Upper(t)])
      BY <1>2, <1>9, <2>3
    <3>2. Program[t] = Program[Lower(t)] \o Program[Upper(t)] \o Wait(t) \o Op("launch", t)
      BY <2>1, <2>3 DEF F
    <3> QED
      BY <2>3, <3>1, <3>2, ProgramOfHalves
  <2> QED
    BY <2>2, <2>3
<1> HIDE DEF P
<1>10. Task \subseteq P
  BY <1>1, <1>9, MeasureInduction
<1> QED
  BY <1>10 DEF P
------------------------------------------------------------------------------
(* Steps of the caller *)

\* The first operation of a program, and the rest.
LEMMA FirstAndRest ==
  ASSUME NEW S, NEW p \in Seq(S), p # <<>>
  PROVE  /\ Head(p) \in S /\ Tail(p) \in Seq(S) /\ Len(Tail(p)) = Len(p) - 1
         /\ \A i \in 1..Len(p) - 1 : Tail(p)[i] = p[i + 1]
         /\ Head(p) = p[1]
         /\ Ops(p) = {Head(p)} \cup Ops(Tail(p))
         /\ Ordered(p) => Ordered(Tail(p)) /\ \A o \in Ops(Tail(p)) : ~Late(Head(p), o)
<1> DEFINE q == Tail(p)
<1>1. /\ Head(p) \in S /\ q \in Seq(S) /\ Len(p) \in Nat /\ 1 <= Len(p) /\ Len(q) = Len(p) - 1
      /\ Head(p) = p[1] /\ \A i \in 1..Len(p) - 1 : q[i] = p[i + 1]
  OBVIOUS
<1> HIDE DEF q
<1>2. Ops(p) \subseteq {Head(p)} \cup Ops(q)
  <2> SUFFICES ASSUME NEW i \in 1..Len(p), i # 1 PROVE p[i] \in Ops(q)
    BY <1>1 DEF Ops
  <2>1. i - 1 \in 1..Len(q) /\ q[i - 1] = p[(i - 1) + 1]
    BY <1>1
  <2> QED
    BY <2>1 DEF Ops
<1>3. Ops(q) \subseteq Ops(p) /\ Head(p) \in Ops(p)
  <2>1. \A i \in 1..Len(q) : i + 1 \in 1..Len(p) /\ q[i] = p[i + 1]
    BY <1>1
  <2>2. 1 \in 1..Len(p)
    BY <1>1
  <2> QED
    BY <1>1, <2>1, <2>2 DEF Ops
<1>4. ASSUME Ordered(p) PROVE Ordered(q) /\ \A o \in Ops(q) : ~Late(Head(p), o)
  <2>1. \A i \in 1..Len(q) : i + 1 \in 1..Len(p) /\ q[i] = p[i + 1]
    BY <1>1
  <2>2. ASSUME NEW i \in 1..Len(q), NEW j \in 1..Len(q), i < j PROVE ~Late(q[i], q[j])
    <3>1. i + 1 < j + 1
      BY <2>2
    <3> QED
      BY <1>4, <2>1, <3>1 DEF Ordered
  <2>3. ASSUME NEW i \in 1..Len(q) PROVE ~Late(p[1], q[i])
    <3>1. 1 \in 1..Len(p) /\ 1 < i + 1
      BY <1>1
    <3> QED
      BY <1>4, <2>1, <3>1 DEF Ordered
  <2> QED
    BY <1>1, <2>2, <2>3 DEF Ordered, Ops
<1> QED
  BY <1>1, <1>2, <1>3, <1>4 DEF q

\* The tasks of a call.
LEMMA TreeIs ==
  ASSUME len \in 1..MaxDimgs
  PROVE  /\ Top \in Task /\ Top \in Tree /\ Tree \subseteq Task
         /\ \A s \in Tree : /\ s # Top => Do("wait", s) \in Ops(Program[Top])
                            /\ ~IsLeaf(s) => Upper(s) \in Tree /\ Lower(s) \in Tree
         /\ \A s, u \in Tree : s = u \/ Apart(s, u) \/ Inside(s, u) \/ Inside(u, s)
<1>1. Top \in Task
  BY BisectAssumption DEF Top, Task
<1>2. IsProgramOf(Top, Program[Top])
  BY <1>1, ProgramIs
<1>3. Ops(Program[Top]) \subseteq Operation
  BY <1>2, OpsTyped DEF IsProgramOf
<1>4. Tree \subseteq Task
  BY <1>3 DEF Tree, TasksOf, Operation
<1> QED
  BY <1>1, <1>2, <1>4 DEF IsProgramOf, Below, Halved, Tree

\* The operation that the caller is at.
LEMMA CurrentIs ==
  ASSUME ProgramInOrder, NEW what, Does(what)
  PROVE  /\ Current \in Task /\ Head(program) = Do(what, Current) /\ Current \in Tree
         /\ Fits(Do(what, Current))
         /\ Tail(program) \in Seq(Operation) /\ Ordered(Tail(program))
         /\ Ops(program) = {Do(what, Current)} \cup Ops(Tail(program))
         /\ \A o \in Ops(Tail(program)) : ~Late(Do(what, Current), o)
         /\ what \in {"done", "wait", "launch"}
<1>1. program \in Seq(Operation) /\ program # <<>> /\ Ordered(program) /\ Head(program).op = what
  BY DEF ProgramInOrder, Does
<1>2. /\ Head(program) \in Operation /\ Tail(program) \in Seq(Operation)
      /\ Ops(program) = {Head(program)} \cup Ops(Tail(program))
      /\ Ordered(Tail(program)) /\ \A o \in Ops(Tail(program)) : ~Late(Head(program), o)
  BY <1>1, FirstAndRest
<1>3. Head(program) = Do(what, Current) /\ Current \in Task /\ what \in {"done", "wait", "launch"}
  BY <1>1, <1>2 DEF Operation, Do, Current
<1>4. Current \in Tree /\ Fits(Head(program))
  BY <1>2 DEF ProgramInOrder, Current
<1> QED
  BY <1>2, <1>3, <1>4

\* The caller goes on to the next operation.
LEMMA NextInOrder ==
  ASSUME ProgramInOrder, NEW what, Does(what), program' = Tail(program), UNCHANGED len
  PROVE  ProgramInOrder' /\ Ops(program') \subseteq Ops(program) /\ Tree' = Tree /\ Top' = Top
<1>1. /\ Tail(program) \in Seq(Operation) /\ Ordered(Tail(program))
      /\ Ops(program) = {Do(what, Current)} \cup Ops(Tail(program))
  BY CurrentIs
<1>2. Tree' = Tree /\ Top' = Top
  BY DEF Tree, Top
<1> QED
  BY <1>1, <1>2 DEF ProgramInOrder

\* As the program gets shorter, fewer results are wanted.
LEMMA WantedLess ==
  ASSUME Ops(program') \subseteq Ops(program), Top' = Top
  PROVE  \A t : Wanted(t)' => Wanted(t)
  BY DEF Wanted

\* A leaf is finished at once.
LEMMA LeafDoneKeeps ==
  ASSUME TypeOK, Bisecting, LeafDone
  PROVE  Bisecting'
<1> DEFINE c == Current
<1>1. /\ c \in Task /\ IsLeaf(c) /\ Ops(program) = {Do("done", c)} \cup Ops(Tail(program))
  BY CurrentIs, OperationIs DEF Bisecting, LeafDone, Fits
<1>2. /\ UNCHANGED <<len, merger, entry, file, caller>> /\ caller = "running"
      /\ program' = Tail(program) /\ done' = [done EXCEPT ![c] = "ok"]
  BY DEF LeafDone, Does
<1> HIDE DEF c
<1>3. /\ ProgramInOrder' /\ Ops(program') \subseteq Ops(program) /\ Tree' = Tree /\ Top' = Top
  BY <1>2, NextInOrder DEF Bisecting, LeafDone
<1>4. done \in [Task -> {"none", "ok", "error"}]
  BY DEF TypeOK
<1>5. merger[c] = "none"
  BY <1>1 DEF Bisecting, LaunchedOnce, TypeOK
<1>6. \A t \in Task : (Over(t)' <=> Over(t)) /\ (Ready(t)' <=> Ready(t))
  <2> TAKE t \in Task
  <2>1. Over(t)' <=> Over(t)
    BY <1>2 DEF Over
  <2>2. done[c] # "error"
    BY <1>1, <1>5 DEF Bisecting, Told
  <2>3. done'[t] = "error" <=> done[t] = "error"
    BY <1>1, <1>2, <1>4, <2>2
  <2> QED
    BY <2>1, <2>3 DEF Ready
<1>7. Top \in Task /\ Tree \subseteq Task
  BY TreeIs DEF TypeOK
<1>8. LaunchedOnce'
  BY <1>2, <1>3, <1>6, <1>7 DEF Bisecting, LaunchedOnce
<1>9. Told'
  <2> SUFFICES ASSUME NEW t \in Task
               PROVE  /\ merger[t] = "assigning" => file[t] = t
                      /\ merger[t] \in {"creating", "merging", "assigning"} => done'[t] = "none"
                      /\ done'[t] = "error" => merger[t] = "over"
                      /\ done'[t] = "ok" => Over(t)
                      /\ merger[t] \in {"creating", "merging"} =>
                           entry[Upper(t)[1]] = Upper(t) /\ entry[Lower(t)[1]] = Lower(t)
    BY <1>2, <1>6 DEF Told
  <2>1. CASE t = c
    BY <1>1, <1>2, <1>4, <1>5, <2>1 DEF Over
  <2>2. CASE t # c
    BY <1>2, <1>4, <2>2 DEF Bisecting, Told
  <2> QED
    BY <2>1, <2>2
<1>10. \A t \in Task : (Ready(t)' => Ready(t)) /\ (Kept(t) => Kept(t)')
  BY <1>2, <1>6 DEF Kept
<1>11. ResultsKept'
  BY <1>2, <1>3, <1>10, WantedLess DEF Bisecting, ResultsKept
<1>12. WaitedFor'
  <2> SUFFICES ASSUME NEW t \in Tree, Do("wait", t) \notin Ops(program')
               PROVE  Ready(t)'
    BY <1>3 DEF WaitedFor
  <2>1. Do("wait", t) \notin Ops(program)
    BY <1>1, <1>2, OperationIs
  <2> QED
    BY <1>2, <1>6, <1>7, <2>1 DEF Bisecting, WaitedFor
<1>13. Returned'
  BY <1>2 DEF Returned
<1> QED
  BY <1>3, <1>8, <1>9, <1>11, <1>12, <1>13 DEF Bisecting

\* What has been waited for is finished: it has told that it is well.
LEMMA WaitOkKeeps ==
  ASSUME TypeOK, Bisecting, WaitOk
  PROVE  Bisecting'
<1> DEFINE c == Current
<1>1. /\ c \in Task /\ Ops(program) = {Do("wait", c)} \cup Ops(Tail(program))
  BY CurrentIs DEF Bisecting, WaitOk
<1>2. /\ UNCHANGED <<len, merger, entry, file, caller>> /\ caller = "running"
      /\ program' = Tail(program) /\ done[c] = "ok" /\ done' = [done EXCEPT ![c] = "none"]
  BY DEF WaitOk, Does
<1> HIDE DEF c
<1>3. /\ ProgramInOrder' /\ Ops(program') \subseteq Ops(program) /\ Tree' = Tree /\ Top' = Top
  BY <1>2, NextInOrder DEF Bisecting, WaitOk
<1>4. done \in [Task -> {"none", "ok", "error"}]
  BY DEF TypeOK
<1>5. \A t \in Task : (Over(t)' <=> Over(t)) /\ (Ready(t)' <=> Ready(t))
  <2> TAKE t \in Task
  <2>1. Over(t)' <=> Over(t)
    BY <1>2 DEF Over
  <2>2. done'[t] = "error" <=> done[t] = "error"
    BY <1>1, <1>2, <1>4
  <2> QED
    BY <2>1, <2>2 DEF Ready
<1>6. Tree \subseteq Task
  BY TreeIs DEF TypeOK
<1>7. LaunchedOnce'
  BY <1>2, <1>3, <1>5, <1>6 DEF Bisecting, LaunchedOnce
<1>8. Told'
  <2> SUFFICES ASSUME NEW t \in Task
               PROVE  /\ merger[t] = "assigning" => file[t] = t
                      /\ merger[t] \in {"creating", "merging", "assigning"} => done'[t] = "none"
                      /\ done'[t] = "error" => merger[t] = "over"
                      /\ done'[t] = "ok" => Over(t)
                      /\ merger[t] \in {"creating", "merging"} =>
                           entry[Upper(t)[1]] = Upper(t) /\ entry[Lower(t)[1]] = Lower(t)
    BY <1>2, <1>5 DEF Told
  <2>1. done'[t] = IF t = c THEN "none" ELSE done[t]
    BY <1>2, <1>4
  <2> QED
    BY <1>2, <2>1 DEF Bisecting, Told
<1>9. \A t \in Task : Kept(t) => Kept(t)'
  BY <1>2, <1>5 DEF Kept
<1>10. ResultsKept'
  BY <1>2, <1>3, <1>9, WantedLess DEF Bisecting, ResultsKept
<1>11. WaitedFor'
  <2> SUFFICES ASSUME NEW t \in Tree, Do("wait", t) \notin Ops(program')
               PROVE  Ready(t)'
    BY <1>3 DEF WaitedFor
  <2>1. CASE t = c
    <3>1. Ready(t)
      BY <1>1, <1>2, <2>1 DEF Bisecting, Told, Ready
    <3> QED
      BY <1>5, <1>6, <3>1
  <2>2. CASE t # c
    <3>1. Do("wait", t) \notin Ops(program)
      BY <1>1, <1>2, <2>2, OperationIs
    <3> QED
      BY <1>2, <1>5, <1>6, <3>1 DEF Bisecting, WaitedFor
  <2> QED
    BY <2>1, <2>2
<1>12. Returned'
  BY <1>2 DEF Returned
<1> QED
  BY <1>3, <1>7, <1>8, <1>10, <1>11, <1>12 DEF Bisecting

\* A call that gives up leaves its goroutines alone.
LEMMA WaitFailsKeeps ==
  ASSUME TypeOK, Bisecting, WaitFails
  PROVE  Bisecting'
<1> DEFINE c == Current
<1>1. /\ UNCHANGED <<len, merger, entry, file, program>> /\ caller' = "error"
      /\ done[c] = "error" /\ done' = [done EXCEPT ![c] = "none"]
  BY DEF WaitFails
<1>2. done \in [Task -> {"none", "ok", "error"}]
  BY DEF TypeOK
<1> HIDE DEF c
<1>3. \A t : Over(t)' <=> Over(t)
  BY <1>1 DEF Over
<1>4. Tree' = Tree
  BY <1>1 DEF Tree, Top
<1>5. ProgramInOrder' /\ LaunchedOnce'
  BY <1>1, <1>3, <1>4 DEF Bisecting, ProgramInOrder, LaunchedOnce
<1>6. Told'
  <2> SUFFICES ASSUME NEW t \in Task
               PROVE  /\ merger[t] = "assigning" => file[t] = t
                      /\ merger[t] \in {"creating", "merging", "assigning"} => done'[t] = "none"
                      /\ done'[t] = "error" => merger[t] = "over"
                      /\ done'[t] = "ok" => Over(t)
                      /\ merger[t] \in {"creating", "merging"} =>
                           entry[Upper(t)[1]] = Upper(t) /\ entry[Lower(t)[1]] = Lower(t)
    BY <1>1, <1>3 DEF Told
  <2>1. done'[t] = IF t = c THEN "none" ELSE done[t]
    BY <1>1, <1>2
  <2> QED
    BY <1>1, <2>1 DEF Bisecting, Told
<1> QED
  BY <1>1, <1>5, <1>6 DEF Bisecting, ResultsKept, WaitedFor, Returned

\* What a goroutine starts with has been waited for.
LEMMA LaunchKeeps ==
  ASSUME TypeOK, Bisecting, Launch
  PROVE  Bisecting'
<1> DEFINE c == Current
<1>1. /\ c \in Task /\ c \in Tree /\ ~IsLeaf(c)
      /\ Ops(program) = {Do("launch", c)} \cup Ops(Tail(program))
      /\ \A o \in Ops(Tail(program)) : ~Late(Do("launch", c), o)
  BY CurrentIs, OperationIs DEF Bisecting, Launch, Fits
<1>2. /\ UNCHANGED <<len, done, entry, file, caller>> /\ caller = "running"
      /\ program' = Tail(program) /\ merger' = [merger EXCEPT ![c] = "creating"]
  BY DEF Launch, Does
<1> HIDE DEF c
<1>3. /\ ProgramInOrder' /\ Ops(program') \subseteq Ops(program) /\ Tree' = Tree /\ Top' = Top
  BY <1>2, NextInOrder DEF Bisecting, Launch
<1>4. /\ merger \in [Task -> {"none", "creating", "merging", "assigning", "releasing", "over"}]
      /\ done \in [Task -> {"none", "ok", "error"}]
  BY DEF TypeOK
<1>5. /\ Tree \subseteq Task /\ Upper(c) \in Tree /\ Lower(c) \in Tree
  BY <1>1, TreeIs DEF TypeOK
<1>6. merger[c] = "none" /\ done[c] = "none"
  <2>1. merger[c] = "none"
    BY <1>1 DEF Bisecting, LaunchedOnce
  <2> QED
    BY <1>1, <1>4, <2>1 DEF Bisecting, Told, Over
<1>7. \A t \in Task : merger'[t] = IF t = c THEN "creating" ELSE merger[t]
  BY <1>2, <1>4
<1>8. \A t \in Task : (Over(t)' <=> Over(t)) /\ (Ready(t)' <=> Ready(t))
  <2> TAKE t \in Task
  <2>1. Over(t)' <=> Over(t)
    BY <1>6, <1>7 DEF Over
  <2> QED
    BY <1>2, <2>1 DEF Ready
<1>9. Do("launch", c) \notin Ops(program')
  BY <1>1, <1>2 DEF Late
<1>10. ASSUME NEW s \in Tree, Inside(s, c) PROVE Ready(s)
  <2>1. Do("wait", s) \notin Ops(Tail(program))
    BY <1>1, <1>10, OperationIs DEF Late
  <2>2. Do("wait", s) \notin Ops(program)
    BY <1>1, <2>1, OperationIs
  <2> QED
    BY <1>2, <2>2 DEF Bisecting, WaitedFor
<1>11. LaunchedOnce'
  <2> SUFFICES ASSUME NEW t \in Task, merger'[t] # "none"
               PROVE  /\ t \in Tree /\ ~IsLeaf(t) /\ Do("launch", t) \notin Ops(program')
                      /\ \A s \in Tree : Inside(s, t) => Over(s)'
    BY <1>3 DEF LaunchedOnce
  <2>1. CASE t = c
    BY <1>1, <1>5, <1>8, <1>9, <1>10, <2>1 DEF Ready
  <2>2. CASE t # c
    BY <1>3, <1>5, <1>7, <1>8, <2>2 DEF Bisecting, LaunchedOnce
  <2> QED
    BY <2>1, <2>2
<1>12. entry[Upper(c)[1]] = Upper(c) /\ entry[Lower(c)[1]] = Lower(c)
  <2>1. Inside(Upper(c), c) /\ Inside(Lower(c), c)
    <3>1. Within(Upper(c), Upper(c)) /\ Within(Lower(c), Lower(c))
      BY <1>5, BisectAssumption DEF Within, Task
    <3> QED
      BY <1>1, <3>1 DEF Inside
  <2>2. Ready(Upper(c)) /\ Ready(Lower(c))
    BY <1>5, <1>10, <2>1
  <2>3. Wanted(Upper(c)) /\ Wanted(Lower(c))
    BY <1>1 DEF Wanted
  <2> QED
    BY <1>2, <1>5, <2>2, <2>3 DEF Bisecting, ResultsKept, Kept
<1>13. Told'
  <2> SUFFICES ASSUME NEW t \in Task
               PROVE  /\ merger'[t] = "assigning" => file[t] = t
                      /\ merger'[t] \in {"creating", "merging", "assigning"} => done[t] = "none"
                      /\ done[t] = "error" => merger'[t] = "over"
                      /\ done[t] = "ok" => Over(t)
                      /\ merger'[t] \in {"creating", "merging"} =>
                           entry[Upper(t)[1]] = Upper(t) /\ entry[Lower(t)[1]] = Lower(t)
    BY <1>2, <1>8 DEF Told
  <2>1. CASE t = c
    BY <1>6, <1>7, <1>12, <2>1
  <2>2. CASE t # c
    BY <1>7, <2>2 DEF Bisecting, Told
  <2> QED
    BY <2>1, <2>2
<1>14. \A t \in Task : Kept(t) => Kept(t)'
  BY <1>2, <1>8 DEF Kept
<1>15. ResultsKept'
  BY <1>2, <1>3, <1>14, WantedLess DEF Bisecting, ResultsKept
<1>16. WaitedFor'
  <2> SUFFICES ASSUME NEW t \in Tree, Do("wait", t) \notin Ops(program')
               PROVE  Ready(t)'
    BY <1>3 DEF WaitedFor
  <2>1. Do("wait", t) \notin Ops(program)
    BY <1>1, <1>2, OperationIs
  <2> QED
    BY <1>2, <1>5, <1>8, <2>1 DEF Bisecting, WaitedFor
<1>17. Returned'
  BY <1>2 DEF Returned
<1> QED
  BY <1>3, <1>11, <1>13, <1>15, <1>16, <1>17 DEF Bisecting

\* At the end everything has been waited for.
LEMMA ReturnKeeps ==
  ASSUME TypeOK, Bisecting, Return
  PROVE  Bisecting'
<1>1. /\ UNCHANGED <<len, merger, done, entry, file, program>> /\ caller' = "ok"
      /\ caller = "running" /\ program = <<>>
  BY DEF Return
<1>2. Top \in Task /\ Top \in Tree /\ Tree \subseteq Task
  BY TreeIs DEF TypeOK
<1>3. Ops(program) = {}
  BY <1>1 DEF Ops
<1>4. \A t \in Tree : Ready(t)
  BY <1>1, <1>3 DEF Bisecting, WaitedFor
<1>5. entry[1] = Top
  <2>1. Kept(Top)
    BY <1>1, <1>2 DEF Bisecting, ResultsKept, Wanted
  <2>2. Top[1] = 1
    BY DEF Top
  <2> QED
    BY <1>2, <1>4, <2>1, <2>2 DEF Kept
<1>6. Running = {}
  BY <1>4 DEF Running, Bisecting, LaunchedOnce, Ready, Over
<1>7. Returned'
  BY <1>1, <1>5, <1>6 DEF Returned, Top, Running
<1>8. ProgramInOrder' /\ LaunchedOnce' /\ Told'
  BY <1>1 DEF Bisecting, ProgramInOrder, LaunchedOnce, Told, Tree, Top, Over
<1> QED
  BY <1>1, <1>7, <1>8 DEF Bisecting, ResultsKept, WaitedFor
------------------------------------------------------------------------------
(* Steps of the goroutines *)

States == {"none", "creating", "merging", "assigning", "releasing", "over"}

\* A goroutine that goes on, with the invariant for what it tells and for the entries.
LEMMA GoroutineKeeps ==
  ASSUME TypeOK, Bisecting, NEW t \in Task, NEW at \in States \ {"none"},
         merger[t] # "none", merger' = [merger EXCEPT ![t] = at],
         UNCHANGED <<program, len, caller>>,
         merger[t] \in {"releasing", "over"} => at = "over",
         caller = "ok" => merger[t] = "releasing" /\ UNCHANGED entry,
         \A s \in Task : Ready(s) => Ready(s)',
         caller = "running" => \A s \in Task : Wanted(s) /\ Kept(s) => Kept(s)',
         Told'
  PROVE  Bisecting'
<1>1. \A s \in Task : merger'[s] = IF s = t THEN at ELSE merger[s]
  BY DEF TypeOK
<1>2. Tree' = Tree /\ Top' = Top /\ \A s : Wanted(s)' <=> Wanted(s)
  BY DEF Tree, Top, Wanted
<1>3. Tree \subseteq Task
  BY TreeIs DEF TypeOK
<1>4. \A s \in Task : Over(s) => Over(s)'
  BY <1>1 DEF Over
<1>5. ProgramInOrder'
  BY <1>2 DEF Bisecting, ProgramInOrder
<1>6. LaunchedOnce'
  BY <1>1, <1>2, <1>3, <1>4 DEF Bisecting, LaunchedOnce
<1>7. ResultsKept'
  BY <1>2 DEF Bisecting, ResultsKept
<1>8. WaitedFor'
  BY <1>2, <1>3 DEF Bisecting, WaitedFor
<1>9. Returned'
  <2> SUFFICES ASSUME caller = "ok" PROVE entry[1] = Top /\ Running' = {}
    BY <1>2 DEF Returned
  <2>1. entry[1] = Top /\ Running = {} /\ merger[t] = "releasing" /\ at = "over"
    BY DEF Bisecting, Returned
  <2> QED
    BY <1>1, <2>1 DEF Running
<1> QED
  BY <1>5, <1>6, <1>7, <1>8, <1>9 DEF Bisecting

\* When nothing fails and the entries stay, what goes on in a goroutine is its own.
LEMMA QuietlyKeeps ==
  ASSUME TypeOK, Bisecting, NEW t \in Task, NEW at \in {"merging", "assigning", "over"},
         \/ merger[t] = "creating" /\ at = "merging"
         \/ merger[t] = "merging" /\ at = "assigning"
         \/ merger[t] = "releasing" /\ at = "over",
         merger' = [merger EXCEPT ![t] = at],
         UNCHANGED <<program, len, caller, done, entry>>,
         at # "assigning" => UNCHANGED file, at = "assigning" => file' = [file EXCEPT ![t] = t]
  PROVE  Bisecting'
<1>1. \A s \in Task : merger'[s] = IF s = t THEN at ELSE merger[s]
  BY DEF TypeOK
<1>2. \A s \in Task : (Over(s)' <=> Over(s)) /\ (Ready(s)' <=> Ready(s))
  <2> TAKE s \in Task
  <2>1. Over(s)' <=> Over(s)
    BY <1>1 DEF Over
  <2> QED
    BY <2>1 DEF Ready
<1>3. \A s \in Task : file'[s] = IF s = t /\ at = "assigning" THEN t ELSE file[s]
  BY DEF TypeOK
<1>4. Told'
  BY <1>1, <1>2, <1>3 DEF Bisecting, Told
<1>5. \A s \in Task : Kept(s) => Kept(s)'
  BY <1>2 DEF Kept
<1>6. caller = "ok" => merger[t] = "releasing"
  BY DEF Bisecting, Returned, Running
<1> QED
  BY <1>2, <1>4, <1>5, <1>6, GoroutineKeeps DEF States

\* A goroutine that creates its output file disturbs no entry.
LEMMA CreateKeeps ==
  ASSUME TypeOK, Bisecting, NEW t \in Task, Create(t)
  PROVE  Bisecting'
  BY QuietlyKeeps DEF Create

\* The merged dimg has the dimgs of the whole task.
LEMMA MergeWritesTask ==
  ASSUME TypeOK, Bisecting, NEW t \in Task, MergeOne(t)
  PROVE  file' = [file EXCEPT ![t] = t]
<1>1. entry[Upper(t)[1]] = Upper(t) /\ entry[Lower(t)[1]] = Lower(t)
  BY DEF Bisecting, Told, MergeOne
<1>2. Upper(t)[1] = t[1] /\ Lower(t)[2] = t[2]
  BY HalvesOf DEF Bisecting, LaunchedOnce, MergeOne
<1>3. <<t[1], t[2]>> = t
  BY DEF Task
<1> QED
  BY <1>1, <1>2, <1>3 DEF MergeOne

\* A merge that goes well leaves a file of its whole task, and no entry changes yet.
LEMMA MergeOneKeeps ==
  ASSUME TypeOK, Bisecting, NEW t \in Task, MergeOne(t)
  PROVE  Bisecting'
  BY MergeWritesTask, QuietlyKeeps DEF MergeOne

\* A token that is given back says nothing of the entries.
LEMMA ReleaseKeeps ==
  ASSUME TypeOK, Bisecting, NEW t \in Task, Release(t)
  PROVE  Bisecting'
  BY QuietlyKeeps DEF Release

\* A merge that fails is not ready: its entry is not looked at.
LEMMA FailKeeps ==
  ASSUME TypeOK, Bisecting, NEW t \in Task, Fail(t)
  PROVE  Bisecting'
<1>1. /\ merger[t] \in {"creating", "merging"} /\ merger' = [merger EXCEPT ![t] = "over"]
      /\ done' = [done EXCEPT ![t] = "error"] /\ UNCHANGED <<program, len, caller, entry, file>>
  BY DEF Fail
<1>2. \A s \in Task : /\ merger'[s] = IF s = t THEN "over" ELSE merger[s]
                      /\ done'[s] = IF s = t THEN "error" ELSE done[s]
  BY <1>1 DEF TypeOK
<1>3. ~IsLeaf(t)
  BY <1>1 DEF Bisecting, LaunchedOnce
<1>4. \A s \in Task : Ready(s)' <=> Ready(s)
  BY <1>1, <1>2, <1>3 DEF Ready, Over
<1>5. Told'
  BY <1>1, <1>2 DEF Bisecting, Told, Over
<1>6. \A s \in Task : Kept(s) => Kept(s)'
  BY <1>1, <1>4 DEF Kept
<1>7. caller # "ok"
  BY <1>1 DEF Bisecting, Returned, Running
<1> QED
  BY <1>1, <1>4, <1>5, <1>6, <1>7, GoroutineKeeps DEF States

\* Nothing else that runs, or is wanted, has the entry that a result is assigned to.
LEMMA AssignKeeps ==
  ASSUME TypeOK, Bisecting, NEW t \in Task, Assign(t)
  PROVE  Bisecting'
<1>1. /\ merger[t] = "assigning" /\ merger' = [merger EXCEPT ![t] = "releasing"]
      /\ entry' = [entry EXCEPT ![Upper(t)[1]] = file[t]]
      /\ done' = [done EXCEPT ![t] = "ok"] /\ UNCHANGED <<program, len, caller, file>>
  BY DEF Assign
<1>2. \A s \in Task : /\ merger'[s] = IF s = t THEN "releasing" ELSE merger[s]
                      /\ done'[s] = IF s = t THEN "ok" ELSE done[s]
  BY <1>1 DEF TypeOK
<1>3. /\ t \in Tree /\ ~IsLeaf(t) /\ Do("launch", t) \notin Ops(program)
      /\ \A s \in Tree : Inside(s, t) => Over(s)
  BY <1>1 DEF Bisecting, LaunchedOnce
<1>4. file[t] = t /\ done[t] = "none"
  BY <1>1 DEF Bisecting, Told
<1>5. Upper(t)[1] = t[1] /\ t[1] \in 1..MaxDimgs
  BY <1>3, HalvesOf DEF Task
<1>6. \A i \in 1..MaxDimgs : entry'[i] = IF i = t[1] THEN t ELSE entry[i]
  BY <1>1, <1>4, <1>5 DEF TypeOK
<1>7. /\ Top \in Task /\ Tree \subseteq Task
      /\ \A s \in Tree : ~IsLeaf(s) => Upper(s) \in Tree /\ Lower(s) \in Tree
      /\ \A s, u \in Tree : s = u \/ Apart(s, u) \/ Inside(s, u) \/ Inside(u, s)
      /\ Top \in Tree
  BY TreeIs DEF TypeOK
<1>8. \A v \in Task : v[1] \in Nat /\ v[2] \in Nat /\ v[1] <= v[2]
  BY BisectAssumption DEF Task
<1>9. \A s \in Task : ~(s[1] = t[1] /\ Apart(s, t))
  BY <1>8 DEF Apart
<1>10. ~Over(t)
  BY <1>1, <1>3 DEF Over
<1>11. ASSUME NEW s \in Tree, s # t, s[1] = t[1], merger[s] # "none" \/ IsLeaf(s)
       PROVE  Inside(s, t)
  <2>1. ~IsLeaf(s) => ~Inside(t, s)
    BY <1>3, <1>7, <1>10, <1>11 DEF Bisecting, LaunchedOnce
  <2>2. IsLeaf(s) => ~Inside(t, s)
    BY DEF Inside
  <2> QED
    BY <1>3, <1>7, <1>9, <1>11, <2>1, <2>2
<1>12. ASSUME NEW s \in Task, s # t, merger[s] \in {"creating", "merging"},
              NEW h \in {Upper(s), Lower(s)}
       PROVE  h[1] # t[1]
  <2>1. /\ s \in Tree /\ ~IsLeaf(s) /\ \A u \in Tree : Inside(u, s) => Over(u)
    BY <1>12 DEF Bisecting, LaunchedOnce
  <2>2. ~Inside(t, s)
    BY <1>3, <1>10, <2>1
  <2>3. ~Inside(s, t)
    BY <1>3, <1>12, <2>1 DEF Over
  <2>4. Apart(s, t)
    BY <1>3, <1>7, <1>12, <2>1, <2>2, <2>3
  <2>5. h \in Task /\ Inside(h, s)
    <3>1. Within(h, h)
      BY <1>7, <1>8, <1>12, <2>1 DEF Within
    <3> QED
      BY <1>7, <1>12, <2>1, <3>1 DEF Inside
  <2>6. Within(h, s)
    BY <2>5, InsideIsWithin
  <2> QED
    BY <1>8, <2>4, <2>5, <2>6 DEF Apart, Within
<1>13. Told'
  <2> SUFFICES ASSUME NEW s \in Task
               PROVE  /\ merger'[s] = "assigning" => file[s] = s
                      /\ merger'[s] \in {"creating", "merging", "assigning"} => done'[s] = "none"
                      /\ done'[s] = "error" => merger'[s] = "over"
                      /\ done'[s] = "ok" => Over(s)'
                      /\ merger'[s] \in {"creating", "merging"} =>
                           entry'[Upper(s)[1]] = Upper(s) /\ entry'[Lower(s)[1]] = Lower(s)
    BY <1>1 DEF Told
  <2>1. CASE s = t
    BY <1>2, <2>1 DEF Over
  <2>2. CASE s # t
    <3>1. /\ merger[s] = "assigning" => file[s] = s
          /\ merger[s] \in {"creating", "merging", "assigning"} => done[s] = "none"
          /\ done[s] = "error" => merger[s] = "over"
          /\ done[s] = "ok" => Over(s)
          /\ merger[s] \in {"creating", "merging"} =>
               entry[Upper(s)[1]] = Upper(s) /\ entry[Lower(s)[1]] = Lower(s)
      BY DEF Bisecting, Told
    <3>2. Over(s) => Over(s)'
      BY <1>2, <2>2 DEF Over
    <3>3. ASSUME merger[s] \in {"creating", "merging"}
          PROVE  entry'[Upper(s)[1]] = Upper(s) /\ entry'[Lower(s)[1]] = Lower(s)
      <4>1. ~IsLeaf(s)
        BY <3>3 DEF Bisecting, LaunchedOnce
      <4>2. Upper(s)[1] \in 1..MaxDimgs /\ Lower(s)[1] \in 1..MaxDimgs
        BY <4>1, HalvesOf DEF Task
      <4> QED
        BY <1>6, <1>12, <2>2, <3>1, <3>3, <4>2
    <3> QED
      BY <1>2, <2>2, <3>1, <3>2, <3>3
  <2> QED
    BY <2>1, <2>2
<1>14. \A s \in Task : s # t => (Ready(s)' <=> Ready(s))
  BY <1>2 DEF Ready, Over
<1>15. \A s \in Task : Ready(s) => Ready(s)'
  BY <1>10, <1>14 DEF Ready
<1>16. ASSUME caller = "running", NEW s \in Task, Wanted(s), Kept(s) PROVE Kept(s)'
  <2>1. CASE s = t
    BY <1>5, <1>6, <2>1 DEF Kept
  <2>2. CASE s # t /\ s[1] # t[1]
    <3>1. s[1] \in 1..MaxDimgs
      BY DEF Task
    <3> QED
      BY <1>6, <1>14, <1>16, <2>2, <3>1 DEF Kept
  <2>3. CASE s # t /\ s[1] = t[1]
    <3> SUFFICES ASSUME Ready(s) PROVE FALSE
      BY <1>14, <2>3 DEF Kept
    <3>1. CASE s = Top
      <4>1. Inside(s, t)
        BY <1>7, <1>11, <2>3, <3>1 DEF Ready, Over
      <4>2. Within(t, s)
        <5>1. t \in Task /\ Within(t, Top)
          <6>1. IsProgramOf(Top, Program[Top]) /\ t \in TasksOf(Program[Top])
            BY <1>3, <1>7, ProgramIs DEF Tree
          <6> QED
            BY <6>1 DEF IsProgramOf, Below, TasksOf
        <5> QED
          BY <3>1, <5>1
      <4>3. Within(s, t) /\ s # t
        BY <4>1, InsideIsWithin
      <4> QED
        BY <1>8, <4>2, <4>3 DEF Within, Task
    <3>2. CASE \E u \in Task : Do("launch", u) \in Ops(program) /\ s \in {Upper(u), Lower(u)}
      <4>1. PICK u \in Task : Do("launch", u) \in Ops(program) /\ s \in {Upper(u), Lower(u)}
        BY <3>2
      <4>2. u \in Tree /\ ~IsLeaf(u) /\ merger[u] = "none"
        <5>1. u \in Tree /\ ~IsLeaf(u)
          BY <4>1, OperationIs DEF Bisecting, ProgramInOrder, Fits
        <5> QED
          BY <4>1, <5>1 DEF Bisecting, LaunchedOnce
      <4>3. s \in Tree
        BY <1>7, <4>1, <4>2
      <4>4. Inside(s, t)
        BY <1>11, <2>3, <4>3 DEF Ready, Over
      <4>5. u # t /\ ~Inside(u, t)
        BY <1>1, <1>3, <4>2 DEF Over
      <4>6. Inside(s, u)
        <5>1. Within(s, s)
          BY <1>8 DEF Within
        <5> QED
          BY <4>1, <4>2, <5>1 DEF Inside
      <4>7. ~Apart(u, t)
        <5>1. Within(s, u) /\ Within(s, t)
          BY <4>4, <4>6, InsideIsWithin
        <5> QED
          BY <1>8, <5>1 DEF Within, Apart
      <4>8. Inside(t, u)
        BY <1>3, <1>7, <4>2, <4>5, <4>7
      <4>9. Within(t, s)
        <5>1. /\ Upper(u) \in Task /\ Lower(u) \in Task /\ Lower(u)[1] = Upper(u)[2] + 1
          BY <4>2, HalvesOf
        <5>2. CASE s = Upper(u)
          <6>1. ~Within(t, Lower(u))
            BY <1>8, <2>3, <5>1, <5>2 DEF Within
          <6> QED
            BY <4>8, <5>2, <6>1 DEF Inside
        <5>3. CASE s = Lower(u)
          <6>1. ~Within(t, Upper(u))
            BY <1>8, <2>3, <5>1, <5>3 DEF Within
          <6> QED
            BY <4>8, <5>3, <6>1 DEF Inside
        <5> QED
          BY <4>1, <5>2, <5>3
      <4>10. Within(s, t) /\ s # t
        BY <4>4, InsideIsWithin
      <4> QED
        BY <1>8, <4>9, <4>10 DEF Within, Task
    <3> QED
      BY <1>16, <3>1, <3>2 DEF Wanted
  <2> QED
    BY <2>1, <2>2, <2>3
<1>17. caller # "ok"
  BY <1>1 DEF Bisecting, Returned, Running
<1> QED
  BY <1>1, <1>13, <1>15, <1>16, <1>17, GoroutineKeeps DEF States
------------------------------------------------------------------------------
(* Tokens and types *)

\* A chain has finitely many tasks, so the holders of tokens can be counted.
LEMMA TasksAreFinite ==
  IsFiniteSet(Task) /\ \A S \in SUBSET Task : IsFiniteSet(S) /\ Cardinality(S) \in Nat
<1>1. IsFiniteSet(1..MaxDimgs)
  BY FS_Interval, BisectAssumption
<1>2. IsFiniteSet((1..MaxDimgs) \X (1..MaxDimgs))
  BY <1>1, FS_Product
<1>3. Task \subseteq (1..MaxDimgs) \X (1..MaxDimgs)
  BY DEF Task
<1>4. IsFiniteSet(Task)
  BY <1>2, <1>3, FS_Subset
<1> QED
  BY <1>4, FS_Subset, FS_CardinalityType

\* A goroutine that goes on holds its token until it is over.
LEMMA HoldersStep ==
  ASSUME TypeOK, NEW t \in Task, NEW at \in States, merger' = [merger EXCEPT ![t] = at]
  PROVE  /\ at \notin {"none", "over"} /\ t \in Holders => Holders' = Holders
         /\ at \notin {"none", "over"} /\ t \notin Holders =>
              Cardinality(Holders') = Cardinality(Holders) + 1
         /\ at = "over" /\ t \in Holders => Cardinality(Holders') = Cardinality(Holders) - 1
<1>1. \A s \in Task : merger'[s] = IF s = t THEN at ELSE merger[s]
  BY DEF TypeOK
<1>2. Holders \subseteq Task /\ IsFiniteSet(Holders)
  BY TasksAreFinite DEF Holders
<1>3. at \notin {"none", "over"} => Holders' = Holders \cup {t}
  BY <1>1 DEF Holders, States
<1>4. at = "over" => Holders' = Holders \ {t}
  BY <1>1 DEF Holders
<1>5. t \notin Holders => Cardinality(Holders \cup {t}) = Cardinality(Holders) + 1
  BY <1>2, FS_AddElement
<1>6. t \in Holders => Cardinality(Holders \ {t}) = Cardinality(Holders) - 1
  BY <1>2, FS_RemoveElement
<1> QED
  BY <1>3, <1>4, <1>5, <1>6

AllOps == [op : {"done", "wait", "launch", "join"}, task : Task]

\* Whatever the caller does, its part stays well typed (for Join, see below).
LEMMA CallTypes ==
  ASSUME TypeOK, Cardinality(Holders) <= tokens, Call, ~Join,
         Does("launch") => merger[Current] = "none"
  PROVE  TypeOK' /\ Cardinality(Holders)' <= tokens'
<1>1. program \in Seq(AllOps)
  BY DEF TypeOK, AllOps
<1>2. ASSUME program # <<>>
      PROVE  Current \in Task /\ Tail(program) \in Seq(AllOps)
  <2>1. Head(program) \in AllOps /\ Tail(program) \in Seq(AllOps)
    BY <1>1, <1>2, FirstAndRest
  <2> QED
    BY <2>1 DEF AllOps, Current
<1>3. Cardinality(Holders) \in Nat /\ tokens \in Nat /\ Limit \in Nat /\ MaxDimgs \in Nat
  BY TasksAreFinite, BisectAssumption DEF Holders, TypeOK
<1>4. ASSUME UNCHANGED merger PROVE Cardinality(Holders)' = Cardinality(Holders)
  BY <1>4 DEF Holders
<1>5. CASE LeafDone \/ WaitOk \/ WaitFails
  <2>1. program # <<>> /\ UNCHANGED <<method, len, tokens, merger, entry, file>>
    BY <1>5 DEF LeafDone, WaitOk, WaitFails, Does
  <2>2. program' \in Seq(AllOps) /\ caller' \in {"running", "ok", "error"}
    BY <1>1, <1>2, <1>5, <2>1 DEF LeafDone, WaitOk, WaitFails, TypeOK
  <2>3. done' \in [Task -> {"none", "ok", "error"}]
    BY <1>5 DEF LeafDone, WaitOk, WaitFails, TypeOK
  <2> QED
    BY <1>3, <1>4, <2>1, <2>2, <2>3 DEF TypeOK, AllOps
<1>6. CASE Launch
  <2>1. /\ Current \in Task /\ Tail(program) \in Seq(AllOps) /\ merger[Current] = "none"
        /\ tokens < Limit /\ tokens' = tokens + 1 /\ program' = Tail(program)
        /\ merger' = [merger EXCEPT ![Current] = "creating"]
        /\ UNCHANGED <<method, len, done, entry, file, caller>>
    BY <1>2, <1>6 DEF Launch, Does
  <2>2. Cardinality(Holders') = Cardinality(Holders) + 1
    <3>1. Current \notin Holders
      BY <2>1 DEF Holders
    <3> QED
      BY <2>1, <3>1, HoldersStep DEF States
  <2>3. TypeOK'
    BY <1>3, <2>1 DEF TypeOK, AllOps
  <2> QED
    BY <1>3, <2>1, <2>2, <2>3
<1>8. CASE JoinFails
  BY <1>3, <1>4, <1>8 DEF JoinFails, TypeOK
<1>9. CASE Return
  BY <1>3, <1>4, <1>9 DEF Return, TypeOK
<1> QED
  BY <1>5, <1>6, <1>8, <1>9 DEF Call

\* A goroutine that fails keeps its token, one that is over gives it back.
LEMMA MergerTypes ==
  ASSUME TypeOK, Cardinality(Holders) <= tokens, NEW t \in Task, Merger(t),
         MergeOne(t) => file' = [file EXCEPT ![t] = t],
         Assign(t) => file[t] = t /\ Upper(t)[1] \in 1..MaxDimgs
  PROVE  TypeOK' /\ Cardinality(Holders)' <= tokens'
<1>1. Cardinality(Holders) \in Nat /\ tokens \in Nat /\ Limit \in Nat
  BY TasksAreFinite, BisectAssumption DEF Holders, TypeOK
<1>2. CASE Create(t)
  <2>1. t \in Holders /\ merger' = [merger EXCEPT ![t] = "merging"] /\ UNCHANGED tokens
    BY <1>2 DEF Create, Holders
  <2>2. Holders' = Holders
    BY <2>1, HoldersStep DEF States
  <2> QED
    BY <1>2, <2>2 DEF Create, TypeOK
<1>3. CASE MergeOne(t)
  <2>1. t \in Holders /\ merger' = [merger EXCEPT ![t] = "assigning"] /\ UNCHANGED tokens
    BY <1>3 DEF MergeOne, Holders
  <2>2. Holders' = Holders
    BY <2>1, HoldersStep DEF States
  <2> QED
    BY <1>3, <2>2 DEF MergeOne, TypeOK
<1>4. CASE Fail(t)
  <2>1. t \in Holders /\ merger' = [merger EXCEPT ![t] = "over"] /\ UNCHANGED tokens
    BY <1>4 DEF Fail, Holders
  <2>2. Cardinality(Holders') = Cardinality(Holders) - 1
    BY <2>1, HoldersStep DEF States
  <2> QED
    BY <1>1, <1>4, <2>2 DEF Fail, TypeOK
<1>5. CASE Assign(t)
  <2>1. t \in Holders /\ merger' = [merger EXCEPT ![t] = "releasing"] /\ UNCHANGED tokens
    BY <1>5 DEF Assign, Holders
  <2>2. Holders' = Holders
    BY <2>1, HoldersStep DEF States
  <2> QED
    BY <1>5, <2>2 DEF Assign, TypeOK
<1>6. CASE Release(t)
  <2>1. t \in Holders /\ merger' = [merger EXCEPT ![t] = "over"] /\ tokens' = tokens - 1
    BY <1>6 DEF Release, Holders
  <2>2. Cardinality(Holders') = Cardinality(Holders) - 1 /\ Cardinality(Holders') \in Nat
    <3>1. Cardinality(Holders') \in Nat
      BY TasksAreFinite DEF Holders
    <3> QED
      BY <2>1, <3>1, HoldersStep DEF States
  <2> QED
    BY <1>1, <1>6, <2>1, <2>2 DEF Release, TypeOK
<1> QED
  BY <1>2, <1>3, <1>4, <1>5, <1>6 DEF Merger

\* While the linear merge runs, the next dimg is the one above those that are merged.
LEMMA LoopIs ==
  ASSUME TypeOK, Looping, program # <<>>
  PROVE  /\ Len(program) \in 1..MaxDimgs /\ Len(program) < len
         /\ Head(program) = [op |-> "join", task |-> <<Len(program), len>>]
         /\ Current = <<Len(program), len>>
<1>1. program \in Seq(AllOps)
  BY DEF TypeOK, AllOps
<1>2. Len(program) \in Nat /\ 1 <= Len(program) /\ Head(program) = program[1]
  BY <1>1
<1>3. Head(program) = [op |-> "join", task |-> <<Len(program), len>>]
  <2> DEFINE k == Len(program)
  <2>1. k \in Nat /\ 1 <= k /\ Head(program) = program[1] /\ k + 1 - 1 = k
    BY <1>2
  <2>2. program = [i \in 1..k |-> [op |-> "join", task |-> <<k + 1 - i, len>>]]
    BY DEF Looping
  <2> HIDE DEF k
  <2>3. program[1] = [op |-> "join", task |-> <<k, len>>]
    BY <2>1, <2>2
  <2> QED
    BY <2>1, <2>3 DEF k
<1>4. Len(program) < len
  BY DEF Looping
<1>5. len \in 1..MaxDimgs /\ MaxDimgs \in Nat
  BY BisectAssumption DEF TypeOK
<1>6. Len(program) \in 1..MaxDimgs
  BY <1>2, <1>4, <1>5
<1>7. Current = <<Len(program), len>>
  BY <1>3 DEF Current
<1> QED
  BY <1>3, <1>4, <1>6, <1>7

\* Nothing but the caller runs in a linear merge.
LEMMA LoopingStep ==
  ASSUME BisectInv, method = "linear", Next
  PROVE  BisectInv'
<1>1. TypeOK /\ Looping /\ Cardinality(Holders) <= tokens
  BY DEF BisectInv
<1>2. \A t \in Task : ~Merger(t)
  BY <1>1 DEF Looping, Merger, Create, MergeOne, Fail, Assign, Release
<1>3. ~LeafDone /\ ~WaitOk /\ ~WaitFails /\ ~Launch
  BY <1>1, LoopIs DEF LeafDone, WaitOk, WaitFails, Launch, Does
<1>4. Call
  BY <1>2 DEF Next
<1>5. CASE Join
  <2> DEFINE k == Len(program)
  <2>1. /\ k \in 1..MaxDimgs /\ k < len /\ Current = <<k, len>> /\ program # <<>>
        /\ program \in Seq(AllOps) /\ len \in 1..MaxDimgs
    BY <1>1, <1>5, LoopIs DEF Join, Does, TypeOK, AllOps
  <2>2. /\ UNCHANGED <<method, len, tokens, merger, done, file, caller>> /\ caller = "running"
        /\ program' = Tail(program) /\ entry' = [entry EXCEPT ![len] = <<entry[k][1], entry[len][2]>>]
    BY <1>5, <2>1 DEF Join, Does
  <2>3. /\ program = [i \in 1..k |-> [op |-> "join", task |-> <<k + 1 - i, len>>]]
        /\ entry[len] = <<k + 1, len>> /\ \A i \in 1..k : entry[i] = <<i, i>>
    BY <1>1 DEF Looping
  <2>4. /\ Tail(program) \in Seq(AllOps) /\ Len(Tail(program)) = k - 1
        /\ \A i \in 1..k - 1 : Tail(program)[i] = program[i + 1]
    BY <2>1, FirstAndRest
  <2> HIDE DEF k
  <2>5. program' = [i \in 1..k - 1 |-> [op |-> "join", task |-> <<(k - 1) + 1 - i, len>>]]
    <3> DEFINE q == Tail(program)
    <3>1. q \in [1..k - 1 -> AllOps]
      <4>1. q \in Seq(AllOps) /\ Len(q) = k - 1
        BY <2>4
      <4> HIDE DEF q
      <4> QED
        BY <4>1
    <3>2. \A i \in 1..k - 1 : q[i] = [op |-> "join", task |-> <<(k - 1) + 1 - i, len>>]
      <4> TAKE i \in 1..k - 1
      <4>1. i + 1 \in 1..k /\ k + 1 - (i + 1) = (k - 1) + 1 - i
        BY <2>1
      <4> QED
        BY <2>3, <2>4, <4>1
    <3> HIDE DEF q
    <3>3. q = [i \in 1..k - 1 |-> [op |-> "join", task |-> <<(k - 1) + 1 - i, len>>]]
      BY <3>1, <3>2
    <3> QED
      BY <2>2, <3>3 DEF q
  <2>6. entry' = [entry EXCEPT ![len] = <<k, len>>] /\ <<k, len>> \in Task
    <3>1. k <= len /\ entry[k] = <<k, k>>
      BY <2>1, <2>3
    <3>2. <<k, len>> \in Task
      BY <2>1, <3>1 DEF Task
    <3> QED
      BY <2>2, <2>3, <3>1, <3>2
  <2>7. TypeOK'
    BY <1>1, <2>2, <2>4, <2>6 DEF TypeOK, AllOps
  <2>8. Looping'
    <3>1. Len(program') = k - 1 /\ k - 1 < len
      BY <2>1, <2>2, <2>4
    <3>2. entry'[len] = <<(k - 1) + 1, len>>
      BY <1>1, <2>1, <2>6 DEF TypeOK
    <3>3. \A i \in 1..k - 1 : entry'[i] = <<i, i>>
      BY <1>1, <2>1, <2>3, <2>6 DEF TypeOK
    <3>4. merger' = [t \in Task |-> "none"] /\ done' = [t \in Task |-> "none"]
      BY <1>1, <2>2 DEF Looping
    <3> QED
      BY <2>2, <2>5, <3>1, <3>2, <3>3, <3>4 DEF Looping
  <2>9. Cardinality(Holders)' <= tokens'
    BY <1>1, <2>2 DEF Holders
  <2> QED
    BY <2>2, <2>7, <2>8, <2>9 DEF BisectInv
<1>6. CASE JoinFails \/ Return
  <2>1. /\ UNCHANGED <<method, len, program, tokens, merger, done, entry, file>>
        /\ caller' = "ok" => program = <<>>
    BY <1>6 DEF JoinFails, Return
  <2>2. Looping'
    <3>1. Looping /\ (program = <<>> => Len(program) = 0)
      BY <1>1
    <3> QED
      BY <2>1, <3>1 DEF Looping
  <2>3. TypeOK'
    BY <1>1, <1>6, <2>1 DEF TypeOK, JoinFails, Return
  <2>4. Cardinality(Holders)' <= tokens'
    BY <1>1, <2>1 DEF Holders
  <2> QED
    BY <2>1, <2>2, <2>3, <2>4 DEF BisectInv
<1> QED
  BY <1>3, <1>4, <1>5, <1>6 DEF Call

\* In the other there are the caller's steps and the goroutines'.
LEMMA BisectingStep ==
  ASSUME BisectInv, method = "bisect", Next
  PROVE  BisectInv'
<1>1. TypeOK /\ Bisecting /\ Cardinality(Holders) <= tokens
  BY DEF BisectInv
<1>2. ~Join /\ ~JoinFails
  BY <1>1, CurrentIs DEF Bisecting, Join, JoinFails
<1>3. method' = "bisect"
  BY <1>2 DEF Next, Call, LeafDone, WaitOk, WaitFails, Launch, Return, Merger, Create,
              MergeOne, Fail, Assign, Release
<1>4. CASE Call
  <2>1. Does("launch") => merger[Current] = "none"
    <3>1. ASSUME Does("launch") PROVE merger[Current] = "none"
      <4>1. Current \in Task /\ Do("launch", Current) \in Ops(program)
        BY <1>1, <3>1, CurrentIs DEF Bisecting
      <4> QED
        BY <1>1, <4>1 DEF Bisecting, LaunchedOnce
    <3> QED
      BY <3>1
  <2>2. TypeOK' /\ Cardinality(Holders)' <= tokens'
    BY <1>1, <1>2, <1>4, <2>1, CallTypes
  <2>3. Bisecting'
    BY <1>1, <1>2, <1>4, LeafDoneKeeps, WaitOkKeeps, WaitFailsKeeps, LaunchKeeps, ReturnKeeps
    DEF Call
  <2> QED
    BY <1>3, <2>2, <2>3 DEF BisectInv
<1>5. ASSUME NEW t \in Task, Merger(t) PROVE BisectInv'
  <2>1. MergeOne(t) => file' = [file EXCEPT ![t] = t]
    BY <1>1, MergeWritesTask
  <2>2. Assign(t) => file[t] = t /\ Upper(t)[1] \in 1..MaxDimgs
    <3>1. ASSUME Assign(t) PROVE file[t] = t /\ ~IsLeaf(t)
      BY <1>1, <3>1 DEF Assign, Bisecting, Told, LaunchedOnce
    <3>2. ~IsLeaf(t) => Upper(t)[1] \in 1..MaxDimgs
      BY HalvesOf DEF Task
    <3> QED
      BY <3>1, <3>2
  <2>3. TypeOK' /\ Cardinality(Holders)' <= tokens'
    BY <1>1, <1>5, <2>1, <2>2, MergerTypes
  <2>4. Bisecting'
    BY <1>1, <1>5, CreateKeeps, MergeOneKeeps, FailKeeps, AssignKeeps, ReleaseKeeps DEF Merger
  <2> QED
    BY <1>3, <2>3, <2>4 DEF BisectInv
<1> QED
  BY <1>4, <1>5 DEF Next

\* A call starts with the whole of its program before it.
LEMMA FreshCall ==
  ASSUME Init
  PROVE  BisectInv
<1>1. Top \in Task /\ IsProgramOf(Top, Program[Top]) /\ Tree \subseteq Task /\ Top \in Tree
  BY TreeIs, ProgramIs DEF Init
<1>2. /\ merger = [t \in Task |-> "none"] /\ done = [t \in Task |-> "none"] /\ tokens = 0
      /\ entry = [i \in 1..MaxDimgs |-> <<i, i>>] /\ file = [t \in Task |-> <<0, 0>>]
      /\ caller = "running" /\ len \in 1..MaxDimgs /\ method \in {"bisect", "linear"}
  BY DEF Init
<1>3. Holders = {} /\ Cardinality(Holders) <= tokens
  <2>1. Holders = {}
    BY <1>2 DEF Holders
  <2> QED
    BY <1>2, <2>1, FS_EmptySet
<1>4. CASE method = "linear"
  <2>1. program = [i \in 1..len - 1 |-> [op |-> "join", task |-> <<len - i, len>>]]
    BY <1>4 DEF Init, Joins
  <2>2. len \in Nat /\ 1 <= len /\ MaxDimgs \in Nat
    BY <1>2, BisectAssumption
  <2>3. \A i \in 1..len - 1 : <<len - i, len>> \in Task
    BY <1>2, <2>2 DEF Task
  <2>4. program \in Seq(AllOps) /\ Len(program) = len - 1
    <3>1. \A i \in 1..len - 1 : [op |-> "join", task |-> <<len - i, len>>] \in AllOps
      BY <2>3 DEF AllOps
    <3>2. program \in [1..len - 1 -> AllOps]
      BY <2>1, <3>1
    <3>3. len - 1 \in Nat
      BY <2>2
    <3> QED
      BY <3>2, <3>3
  <2>5. Looping
    <3> DEFINE k == Len(program)
    <3>1. k = len - 1
      BY <2>4
    <3> HIDE DEF k
    <3>2. program = [i \in 1..k |-> [op |-> "join", task |-> <<k + 1 - i, len>>]]
      <4>1. \A i \in 1..k : len - i = k + 1 - i
        BY <2>2, <3>1
      <4> QED
        BY <2>1, <3>1, <4>1
    <3>3. entry[len] = <<k + 1, len>> /\ \A i \in 1..k : entry[i] = <<i, i>>
      BY <1>2, <2>2, <3>1
    <3>4. k < len
      BY <2>2, <3>1
    <3> QED
      BY <1>2, <3>2, <3>3, <3>4 DEF Looping, k
  <2>6. TypeOK
    BY <1>2, <2>4, BisectAssumption DEF TypeOK, AllOps, Task
  <2> QED
    BY <1>3, <1>4, <2>5, <2>6 DEF BisectInv
<1>5. CASE method = "bisect"
  <2> DEFINE p == Program[Top]
             w == Op("wait", Top)
  <2>1. program = p \o w
    BY <1>5 DEF Init, Top
  <2>2. p \in Seq(Operation) /\ Ordered(p)
    BY <1>1 DEF IsProgramOf
  <2>3. w \in Seq(Operation) /\ Ops(w) = {Do("wait", Top)} /\ Ordered(w)
    BY <1>1, OneOp
  <2>4. \A a \in Ops(p), b \in Ops(w) : ~Late(a, b)
    BY <1>1, <2>3, ProgramBeforeWait
  <2>5. /\ program \in Seq(Operation) /\ Ordered(program)
        /\ Ops(program) = Ops(p) \cup {Do("wait", Top)}
    <3> HIDE DEF p, w
    <3> QED
      BY <2>1, <2>2, <2>3, <2>4, ConcatOps, ConcatOrdered
  <2>6. ProgramInOrder
    <3>1. ASSUME NEW o \in Ops(p) PROVE Fits(o) /\ o.task \in Tree
      BY <1>1 DEF IsProgramOf, Below, Tree, TasksOf
    <3> QED
      BY <1>1, <2>5, <3>1, OperationIs DEF ProgramInOrder, Fits
  <2>7. LaunchedOnce /\ Told
    BY <1>2 DEF LaunchedOnce, Told
  <2>8. \A t \in Task : Kept(t)
    <3> TAKE t \in Task
    <3>1. t[1] \in 1..MaxDimgs /\ (IsLeaf(t) => t = <<t[1], t[1]>>)
      BY DEF Task, IsLeaf
    <3> QED
      BY <1>2, <3>1 DEF Kept, Ready, Over
  <2>9. WaitedFor
    <3>1. \A s \in Tree : Do("wait", s) \in Ops(program)
      BY <1>2, <2>5, TreeIs
    <3> QED
      BY <3>1 DEF WaitedFor
  <2>10. TypeOK
    <3>1. program \in Seq(AllOps)
      <4>1. Operation \subseteq AllOps
        BY DEF Operation, AllOps
      <4> QED
        BY <2>5, <4>1
    <3> QED
      BY <1>2, <3>1, BisectAssumption DEF TypeOK, AllOps, Task
  <2> QED
    BY <1>2, <1>3, <1>5, <2>6, <2>7, <2>8, <2>9, <2>10
    DEF BisectInv, Bisecting, ResultsKept, Returned
<1> QED
  BY <1>2, <1>4, <1>5

\* A goroutine merges what is finished, and nobody assigns to its entries meanwhile: the
\* inductive invariant.
THEOREM BisectInvariance == Spec => []BisectInv
<1>1. BisectInv /\ [Next]_vars => BisectInv'
  <2> SUFFICES ASSUME BisectInv, [Next]_vars PROVE BisectInv'
    OBVIOUS
  <2>1. CASE Next
    BY <2>1, LoopingStep, BisectingStep DEF BisectInv, TypeOK
  <2>2. CASE UNCHANGED vars
    BY <2>2 DEF vars, BisectInv, TypeOK, Holders, Looping, Bisecting, ProgramInOrder,
       LaunchedOnce, Told, ResultsKept, WaitedFor, Returned, Tree, Top, Over, Ready, Wanted,
       Kept, Running
  <2> QED
    BY <2>1, <2>2
<1> QED
  BY <1>1, FreshCall, PTL DEF Spec

\* What the call and its goroutines keep has its type; tokens of threadLimit are
\* neither lost below zero nor taken beyond the limit.
THEOREM BisectTypes == Spec => []TypeOK
<1>1. BisectInv => TypeOK
  BY DEF BisectInv
<1> QED
  BY <1>1, BisectInvariance, PTL

\* No more than threadLimit merges run at once.
THEOREM MergesAreLimited == Spec => []WithinLimit
<1>1. BisectInv => WithinLimit
  <2> SUFFICES ASSUME BisectInv PROVE Cardinality(Running) <= Limit
    BY DEF WithinLimit
  <2>1. Running \subseteq Holders /\ IsFiniteSet(Holders)
    BY TasksAreFinite DEF Running, Holders
  <2>2. Cardinality(Running) <= Cardinality(Holders)
    BY <2>1, FS_Subset
  <2>3. Cardinality(Holders) \in Nat /\ Cardinality(Running) \in Nat
    BY TasksAreFinite DEF Running, Holders
  <2> QED
    BY <2>2, <2>3, BisectAssumption DEF BisectInv, TypeOK
<1> QED
  BY <1>1, BisectInvariance, PTL

\* Every goroutine merges the two halves of its task, whatever the others assign.
THEOREM HalvesAreMerged == Spec => []MergesNeighbours
<1>1. BisectInv => MergesNeighbours
  <2> SUFFICES ASSUME BisectInv, NEW t \in Task
               PROVE  /\ merger[t] \in {"creating", "merging"} =>
                           entry[Upper(t)[1]] = Upper(t) /\ entry[Lower(t)[1]] = Lower(t)
                      /\ merger[t] = "assigning" => file[t] = t
                      /\ Does("join") /\ Current = t =>
                           entry[t[1]] = <<t[1], t[1]>> /\ entry[len] = <<t[1] + 1, len>>
    BY DEF MergesNeighbours
  <2>1. CASE method = "bisect"
    <3>1. Bisecting
      BY <2>1 DEF BisectInv
    <3>2. ~Does("join")
      BY <3>1, CurrentIs DEF Bisecting
    <3> QED
      BY <3>1, <3>2 DEF Bisecting, Told
  <2>2. CASE method = "linear"
    <3>1. TypeOK /\ Looping
      BY <2>2 DEF BisectInv
    <3>2. merger[t] = "none"
      BY <3>1 DEF Looping
    <3>3. ASSUME Does("join"), Current = t
          PROVE  entry[t[1]] = <<t[1], t[1]>> /\ entry[len] = <<t[1] + 1, len>>
      <4>1. t[1] = Len(program) /\ t[1] \in 1..Len(program)
        <5>1. Len(program) \in 1..MaxDimgs /\ t = <<Len(program), len>>
          BY <3>1, <3>3, LoopIs DEF Does
        <5> QED
          BY <5>1
      <4> QED
        BY <3>1, <4>1 DEF Looping
    <3> QED
      BY <3>2, <3>3
  <2> QED
    BY <2>1, <2>2 DEF BisectInv, TypeOK
<1> QED
  BY <1>1, BisectInvariance, PTL

\* The dimg that a call returns stands for the whole chain, and is final.
THEOREM WholeChainIsMerged == Spec => []ChainIsMerged
<1>1. BisectInv => ChainIsMerged
  <2> SUFFICES ASSUME BisectInv, caller = "ok" PROVE Result = <<1, len>> /\ Running = {}
    BY DEF ChainIsMerged
  <2>1. CASE method = "bisect"
    BY <2>1 DEF BisectInv, Bisecting, Returned, Result, Top
  <2>2. CASE method = "linear"
    BY <2>2 DEF BisectInv, Looping, Result, Running
  <2> QED
    BY <2>1, <2>2 DEF BisectInv, TypeOK
<1> QED
  BY <1>1, BisectInvariance, PTL
==============================================================================
