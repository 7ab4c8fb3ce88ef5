------------------------- MODULE DirectedGraphProofs -------------------------
(***************************************************************************)
(* For every set of names and costs: the search of DirectedGraph answers    *)
(* with a path, never dereferences a nil prev, reports "Goal not found" of  *)
(* reset nodes only when no goal can be reached, and implements PathSearch. *)
(***************************************************************************)
EXTENDS DirectedGraph, TLAPS, WellFoundedInduction, FiniteSetTheorems, SequenceTheorems

\* The nodes that the current search, and no earlier one, has reached.
Mine == Reached \ stale

\* The map of nodes is closed under the edges.
GraphOK == \A n \in Names : \A e \in OutEdges(n) : n \in nodes /\ e.next \in nodes

\* A node that is not in the map carries no search fields, and what is done
\* was reached.
AbsentOK == /\ \A n \in Names \ nodes : label[n] = Unlabelled
            /\ \A n \in Names : label[n].done => label[n].cost # -1

\* A node reached by this search is its start, or hangs by via on a node this
\* search has settled or is processing.
ParentsOK ==
  phase \in {"next", "calc", "back"} =>
    /\ start \in nodes
    /\ label[start].cost = 0
    /\ stale \subseteq Settled
    /\ \A n \in Mine : n # start =>
         /\ label[n].prev \in Mine
         /\ label[n].prev \in Settled \cup (IF phase = "calc" THEN {cur} ELSE {})
         /\ label[n].via \in OutEdges(label[n].prev)
         /\ label[n].via.next = n

\* calc works on an open node that is no goal, and todo holds its edges.
CalcOK ==
  phase = "calc" => /\ cur \in Open
                    /\ cur \notin goals
                    /\ \A i \in 1..Len(todo) : todo[i] \in OutEdges(cur)

\* Everything a settled node points at has been reached, and no goal is settled.
ClosedOK ==
  phase \in {"next", "calc", "notFound"} =>
    /\ start \in Reached
    /\ start \in nodes
    /\ \A n \in Settled \ stale : /\ n \in Reached
                                  /\ n \notin goals
                                  /\ \A e \in OutEdges(n) : e.next \in Reached
    /\ phase = "calc" =>
         \A e \in OutEdges(cur) : e.next \in Reached \/ \E i \in 1..Len(todo) : todo[i] = e

\* The part of the answer the walk back has collected starts right after cur.
BackOK ==
  phase = "back" =>
    /\ cur \in Mine
    /\ Len(via) = Len(ret)
    /\ ret = <<>> => cur \in goals
    /\ ret # <<>> => /\ ret[Len(ret)] \in goals
                     /\ via[1] \in OutEdges(cur)
    /\ \A i \in 1..Len(ret) : via[i].next = ret[i]
    /\ \A i \in 1..Len(ret) - 1 : via[i + 1] \in OutEdges(ret[i])

\* Whenever no search is in its loop, no node is half processed; before the
\* walk back there is no answer yet.
RestOK ==
  /\ phase \in {"idle", "found", "notFound", "panic"} => Open = {}
  /\ phase # "back" /\ phase # "found" => ret = <<>> /\ via = <<>>
  /\ phase = "panic" => start \notin nodes

IInv == /\ TypeOK
        /\ GraphOK
        /\ AbsentOK
        /\ ParentsOK
        /\ CalcOK
        /\ ClosedOK
        /\ BackOK
        /\ RestOK
        /\ FoundIsPath

------------------------------------------------------------------------------
(* Inductions *)

\* A set of natural numbers that is not empty has a least element.
LEMMA LeastNatural ==
  ASSUME NEW T, T \subseteq Nat, T # {}
  PROVE  \E m \in T : \A n \in T : m <= n
<1> DEFINE R == OpToRel(<, Nat)
<1>1. \A x, y \in T : <<y, x>> \in R <=> y < x
  BY DEF OpToRel
<1>2. \E x \in T : \A y \in T : ~ (<<y, x>> \in R)
  BY NatLessThanWellFounded, WFMin, Zenon
<1> HIDE DEF R
<1>3. \E x \in T : \A y \in T : ~(y < x)
  BY <1>1, <1>2
<1> QED
  BY ONLY <1>3, T \subseteq Nat

\* What holds of 0, and of n + 1 when it holds of n, holds of every number.
LEMMA SetInduction ==
  ASSUME NEW S, 0 \in S, \A n \in Nat : n \in S => n + 1 \in S
  PROVE  Nat \subseteq S
<1> SUFFICES ASSUME Nat \ S # {} PROVE FALSE
  OBVIOUS
<1>1. PICK m \in Nat \ S : \A n \in Nat \ S : m <= n
  BY LeastNatural
<1>2. m # 0 /\ m - 1 \in Nat /\ m - 1 \in S
  BY <1>1
<1> QED
  BY <1>1, <1>2

\* A function that is given by its first value and by a step from each value to the
\* next one.
Iterates(f, D, first, G, n) ==
  f \in [0..n -> D] /\ f[0] = first /\ \A k \in 1..n : f[k] = G[f[k - 1]]

\* There is one, in any set that the step does not leave.
LEMMA Iteration ==
  ASSUME NEW D, NEW first \in D, NEW G \in [D -> D], NEW n \in Nat
  PROVE  \E f : Iterates(f, D, first, G, n)
<1> DEFINE S == {m \in Nat : \E f : Iterates(f, D, first, G, m)}
<1>1. 0 \in S
  <2> DEFINE f == [k \in 0..0 |-> first]
  <2>1. f \in [0..0 -> D] /\ f[0] = first
    OBVIOUS
  <2>2. \A k \in 1..0 : FALSE
    OBVIOUS
  <2> HIDE DEF f
  <2> QED
    BY <2>1, <2>2 DEF Iterates
<1>2. ASSUME NEW m \in Nat, m \in S PROVE m + 1 \in S
  <2>1. PICK f : Iterates(f, D, first, G, m)
    BY <1>2
  <2>2. f \in [0..m -> D] /\ f[0] = first /\ \A k \in 1..m : f[k] = G[f[k - 1]]
    BY <2>1 DEF Iterates
  <2> DEFINE g == [k \in 0..m + 1 |-> IF k = m + 1 THEN G[f[m]] ELSE f[k]]
  <2>3. g \in [0..m + 1 -> D] /\ g[0] = first
    BY <2>2
  <2>4. ASSUME NEW k \in 1..m + 1 PROVE g[k] = G[g[k - 1]]
    BY <2>2
  <2> HIDE DEF g
  <2> QED
    BY <2>3, <2>4 DEF Iterates
<1>3. n \in S
  <2> HIDE DEF S
  <2> QED
    BY <1>1, <1>2, SetInduction
<1> QED
  BY <1>3

\* What no step leaves holds of every value.
LEMMA IterationStays ==
  ASSUME NEW W, NEW D, NEW n \in Nat, W[0] \in D,
         \A k \in 1..n : W[k - 1] \in D => W[k] \in D
  PROVE  \A k \in 0..n : W[k] \in D
<1> DEFINE T == {k \in Nat : k <= n => W[k] \in D}
<1>1. 0 \in T
  OBVIOUS
<1>2. ASSUME NEW k \in Nat, k \in T PROVE k + 1 \in T
  <2>1. CASE k + 1 <= n
    <3>1. k + 1 \in 1..n /\ (k + 1) - 1 = k /\ W[k] \in D
      BY <1>2, <2>1
    <3> QED
      BY <3>1
  <2> QED
    BY <2>1
<1>3. Nat \subseteq T
  <2> HIDE DEF T
  <2> QED
    BY <1>1, <1>2, SetInduction
<1> QED
  BY <1>3
------------------------------------------------------------------------------
(* Facts about sequences *)

\* Putting an element in front, as the walk back does.
LEMMA Prepend ==
  ASSUME NEW S, NEW s \in Seq(S), NEW x \in S
  PROVE  /\ <<x>> \o s \in Seq(S)
         /\ Len(<<x>> \o s) = Len(s) + 1
         /\ (<<x>> \o s)[1] = x
         /\ \A i \in 1..Len(s) : (<<x>> \o s)[i + 1] = s[i]
  OBVIOUS

\* Taking the first element off, as calc's loop does.
LEMMA HeadTail ==
  ASSUME NEW S, NEW s \in Seq(S), s # <<>>
  PROVE  /\ Head(s) = s[1] /\ Head(s) \in S
         /\ Len(s) \in Nat /\ Len(s) >= 1
         /\ Tail(s) \in Seq(S) /\ Len(Tail(s)) = Len(s) - 1
         /\ \A i \in 1..Len(Tail(s)) : Tail(s)[i] = s[i + 1]
  OBVIOUS

\* The edges that leave a node, and what appending one adds to them.
LEMMA OutEdgesType ==
  ASSUME TypeOK, NEW n \in Names
  PROVE  /\ OutEdges(n) \subseteq Edge
         /\ \A i \in 1..Len(edges[n]) : edges[n][i] \in OutEdges(n)
         /\ \A e \in OutEdges(n) : e.next \in Names /\ e.cost \in Nat
  <1>1. edges[n] \in Seq(Edge)
    BY DEF TypeOK
  <1>2. DOMAIN edges[n] = 1..Len(edges[n]) /\ \A i \in 1..Len(edges[n]) : edges[n][i] \in Edge
    BY <1>1
  <1>3. OutEdges(n) \subseteq Edge /\ \A i \in 1..Len(edges[n]) : edges[n][i] \in OutEdges(n)
    BY <1>2 DEF OutEdges
  <1> QED
    BY <1>3, CostsAssumption DEF Edge

\* An edge that leaves a node after Add left it before, or is the new one.
LEMMA OutEdgesAfterAdd ==
  ASSUME TypeOK, NEW src \in Names, NEW dst \in Names, NEW name \in EdgeNames,
         NEW c \in Costs, AddEdge(src, dst, name, c), NEW n \in Names,
         NEW e \in OutEdges(n)'
  PROVE  e \in OutEdges(n) \/ (n = src /\ e.next = dst)
  BY DEF TypeOK, AddEdge, OutEdges, Edge
------------------------------------------------------------------------------
(* Type correctness *)

\* The model's variables keep the types of the Go fields they stand for.
LEMMA TypeInit == Init => TypeOK
  BY NilAssumption DEF Init, NoSearch, TypeOK, Label, Unlabelled, Phases

\* Add keeps the types: it appends one edge.
LEMMA TypeAdd ==
  ASSUME TypeOK, NEW src \in Names, NEW dst \in Names, NEW name \in EdgeNames,
         NEW c \in Costs, Add(src, dst, name, c)
  PROVE  TypeOK'
  <1>1. [name |-> name, next |-> dst, cost |-> c] \in Edge
    BY DEF Edge
  <1>2. edges' \in [Names -> Seq(Edge)] /\ nodes' \subseteq Names
    BY <1>1 DEF TypeOK, Add, AddEdge
  <1> QED
    BY <1>2 DEF TypeOK, Add, query

\* One iteration of calc keeps the types: a cost is the sum of two.
LEMMA TypeCalc ==
  ASSUME TypeOK, CalcOK, Calc
  PROVE  TypeOK'
  <1>1. /\ Head(todo) \in Edge
        /\ todo' \in Seq(Edge)
    BY HeadTail DEF TypeOK, Calc
  <1>2. /\ cur \in Names
        /\ label[cur].cost \in Nat
        /\ Head(todo).next \in Names
        /\ Head(todo).cost \in Nat
    BY <1>1, CostsAssumption DEF TypeOK, CalcOK, Calc, Open, Reached, Label, Edge
  <1>3. label[cur].cost + Head(todo).cost \in Nat
    BY <1>2
  <1>4. label[Head(todo).next] \in Label
    BY <1>2 DEF TypeOK
  <1>5. [label[Head(todo).next] EXCEPT !.cost = label[cur].cost + Head(todo).cost,
                                       !.prev = cur, !.via = Head(todo)] \in Label
    BY <1>1, <1>2, <1>3, <1>4 DEF Label
  <1>6. label' \in [Names -> Label]
    BY <1>2, <1>5 DEF TypeOK, Calc, Relaxed
  <1> QED
    BY <1>1, <1>6 DEF TypeOK, Calc, graph, query


\* Every step keeps the types.
LEMMA TypeStep ==
  ASSUME TypeOK, ParentsOK, CalcOK, BackOK, [Next]_vars
  PROVE  TypeOK'
  <1>1. CASE \E src, dst \in Names, name \in EdgeNames, c \in Costs :
                  Add(src, dst, name, c)
    BY <1>1, TypeAdd
  <1>2. CASE \E s \in Names, gs \in (SUBSET Names) \ {{}} : Search(s, gs)
    <2> PICK s \in Names, gs \in SUBSET Names : Search(s, gs)
      BY <1>2
    <2>1. [label[s] EXCEPT !.cost = 0] \in Label
      BY DEF TypeOK, Label
    <2>2. label' \in [Names -> Label]
      BY <2>1 DEF TypeOK, Search
    <2>3. stale' \subseteq Names
      BY DEF TypeOK, Search, Settled
    <2> QED
      BY <2>2, <2>3 DEF TypeOK, Search, graph, Phases
  <1>3. CASE NextNode
    <2>1. \A n \in Cheapest : n \in Names /\ edges[n] \in Seq(Edge)
      BY DEF Cheapest, Open, Reached, TypeOK
    <2> QED
      BY <1>3, <2>1 DEF TypeOK, NextNode, graph, query, Phases
  <1>4. CASE Calc
    BY <1>4, TypeCalc
  <1>5. CASE Settle
    <2>1. cur \in Names /\ label[cur] \in Label
      BY <1>5 DEF TypeOK, CalcOK, Settle, Open, Reached
    <2>2. [label[cur] EXCEPT !.done = TRUE] \in Label
      BY <2>1 DEF Label
    <2>3. label' \in [Names -> Label]
      BY <1>5, <2>1, <2>2 DEF TypeOK, Settle
    <2> QED
      BY <1>5, <2>3 DEF TypeOK, Settle, graph, query, Phases
  <1>6. CASE WalkBack
    <2>1. cur \in Names /\ label[cur] \in Label
      BY <1>6 DEF TypeOK, BackOK, WalkBack, Mine, Reached
    <2>2. ret' \in Seq(Names)
      BY <1>6, <2>1, Prepend DEF TypeOK, WalkBack
    <2>3. CASE cur = start
      <3>1. ResetLabels \in [Names -> Label]
        BY DEF ResetLabels, Unlabelled, Label
      <3> QED
        BY <1>6, <2>2, <2>3, <3>1 DEF TypeOK, WalkBack, graph, query, Phases
    <2>4. CASE cur # start
      <3>1. label[cur].prev \in Names /\ label[cur].via \in OutEdges(label[cur].prev)
        BY <1>6, <2>1, <2>4 DEF ParentsOK, BackOK, WalkBack, Mine, Reached, TypeOK
      <3>2. label[cur].via \in Edge
        BY <3>1, OutEdgesType
      <3>3. via' = <<label[cur].via>> \o via /\ via \in Seq(Edge)
        BY <1>6, <2>4 DEF TypeOK, WalkBack
      <3>4. via' \in Seq(Edge)
        BY <3>2, <3>3, Prepend
      <3> QED
        BY <1>6, <2>2, <2>4, <3>1, <3>4 DEF TypeOK, WalkBack, graph, query, Phases
    <2> QED
      BY <2>3, <2>4
  <1>7. CASE Return
    BY <1>7 DEF TypeOK, Return, graph, Phases
  <1>8. CASE UNCHANGED vars
    BY <1>8 DEF vars, TypeOK
  <1> QED
    BY <1>1, <1>2, <1>3, <1>4, <1>5, <1>6, <1>7, <1>8 DEF Next, SearchStep
------------------------------------------------------------------------------
(* The graph and the resting states *)

\* Only Add touches the graph, and it puts both ends of the edge in the map.
LEMMA GraphStep ==
  ASSUME TypeOK, GraphOK, [Next]_vars
  PROVE  GraphOK'
  <1>1. CASE \E src, dst \in Names, name \in EdgeNames, c \in Costs :
                  Add(src, dst, name, c)
    <2> PICK src \in Names, dst \in Names, name \in EdgeNames, c \in Costs :
               Add(src, dst, name, c)
      BY <1>1
    <2> SUFFICES ASSUME NEW n \in Names, NEW e \in OutEdges(n)'
                 PROVE  n \in nodes' /\ e.next \in nodes'
      BY DEF GraphOK
    <2>1. e \in OutEdges(n) \/ (n = src /\ e.next = dst)
      BY OutEdgesAfterAdd DEF Add
    <2> QED
      BY <2>1 DEF GraphOK, Add, AddEdge
  <1>2. CASE UNCHANGED graph
    BY <1>2 DEF graph, GraphOK, OutEdges
  <1> QED
    BY <1>1, <1>2 DEF Next, SearchStep, Search, NextNode, Calc, Settle, WalkBack, Return,
                      vars, graph

\* What is left to prove of a step once types and the graph are settled.
Rest == /\ AbsentOK
        /\ ParentsOK
        /\ CalcOK
        /\ ClosedOK
        /\ BackOK
        /\ RestOK
        /\ FoundIsPath

\* Adding an edge between searches brings at most unlabelled nodes.
LEMMA AddStep ==
  ASSUME IInv, phase = "idle", NEW src \in Names, NEW dst \in Names,
         NEW name \in EdgeNames, NEW c \in Costs, Add(src, dst, name, c)
  PROVE  Rest'
  <1> USE DEF IInv, Add, AddEdge, query
  <1>1. AbsentOK'
    BY DEF AbsentOK
  <1>2. Open' = {}
    BY DEF AbsentOK, RestOK, Open, Reached, Settled, TypeOK, Unlabelled
  <1> QED
    BY <1>1, <1>2 DEF Rest, ParentsOK, CalcOK, ClosedOK, BackOK, RestOK, FoundIsPath

\* A search begins with its start as the only node that is reached and not done.
LEMMA SearchBegins ==
  ASSUME IInv, NEW s \in Names, NEW gs \in SUBSET Names, Search(s, gs)
  PROVE  Rest'
  <1>1. /\ phase = "idle" /\ Open = {} /\ ret = <<>> /\ via = <<>>
        /\ ret' = ret /\ via' = via /\ nodes' = nodes /\ edges' = edges
    BY DEF IInv, RestOK, Search, graph
  <1>2. CASE s \notin nodes
    BY <1>1, <1>2 DEF Search, IInv, Rest, AbsentOK, ParentsOK, CalcOK, ClosedOK, BackOK,
                      RestOK, FoundIsPath, Open, Reached, Settled
  <1>3. CASE s \in nodes
    <2>1. /\ phase' = "next" /\ start' = s
          /\ label' = [label EXCEPT ![s].cost = 0]
      BY <1>3 DEF Search
    <2>2. /\ label'[s].cost = 0
          /\ \A n \in Names : label'[n].done = label[n].done
          /\ \A n \in Names : n # s => label'[n] = label[n]
      BY <2>1 DEF IInv, TypeOK, Label
    <2>3. Settled' = Settled /\ stale' = Settled
      BY <1>1, <2>2 DEF Settled, Search, IInv, TypeOK
    <2>4. Reached' = Reached \cup {s} /\ Mine' \subseteq {s}
      BY <1>1, <1>3, <2>2, <2>3 DEF Reached, Open, Mine, IInv, TypeOK
    <2>5. AbsentOK'
      BY <1>1, <1>3, <2>2 DEF AbsentOK, IInv
    <2>6. ParentsOK'
      BY <1>1, <1>3, <2>1, <2>2, <2>3, <2>4 DEF ParentsOK
    <2>7. ClosedOK'
      BY <1>1, <1>3, <2>1, <2>3, <2>4 DEF ClosedOK
    <2> QED
      BY <1>1, <2>1, <2>5, <2>6, <2>7 DEF Rest, CalcOK, BackOK, RestOK, FoundIsPath
  <1> QED
    BY <1>2, <1>3

\* Taking the next node changes no label; a goal starts the walk back.
LEMMA NextNodeStep ==
  ASSUME IInv, NextNode
  PROVE  Rest'
  <1>1. /\ phase = "next" /\ ret = <<>> /\ via = <<>>
        /\ UNCHANGED <<nodes, edges, label, start, goals, stale, ret, via>>
    BY DEF NextNode, graph, query, IInv, RestOK
  <1>2. Settled' = Settled /\ Reached' = Reached /\ Open' = Open /\ Mine' = Mine
    BY <1>1 DEF Settled, Reached, Open, Mine
  <1>3. \A n : OutEdges(n)' = OutEdges(n)
    BY <1>1 DEF OutEdges
  <1>4. AbsentOK'
    BY <1>1 DEF IInv, AbsentOK
  <1>5. ParentsOK'
    BY <1>1, <1>2, <1>3 DEF IInv, ParentsOK
  <1>6. CASE Open = {} /\ phase' = "notFound"
    <2>1. ClosedOK'
      BY <1>1, <1>2, <1>3, <1>6 DEF IInv, ClosedOK
    <2> QED
      BY <1>1, <1>2, <1>4, <1>5, <1>6, <2>1 DEF Rest, CalcOK, BackOK, RestOK, FoundIsPath
  <1>7. ASSUME NEW n \in Cheapest, cur' = n, n \in goals, phase' = "back"
        PROVE  Rest'
    <2>1. n \in Mine
      BY <1>1, <1>7 DEF Cheapest, Open, Mine, IInv, ParentsOK
    <2>2. BackOK'
      BY <1>1, <1>2, <1>7, <2>1 DEF BackOK
    <2> QED
      BY <1>4, <1>5, <1>7, <2>2 DEF Rest, CalcOK, ClosedOK, RestOK, FoundIsPath
  <1>8. ASSUME NEW n \in Cheapest, cur' = n, n \notin goals, phase' = "calc", todo' = edges[n]
        PROVE  Rest'
    <2>1. n \in Open /\ n \in Names /\ edges[n] \in Seq(Edge)
      BY DEF Cheapest, Open, Reached, IInv, TypeOK
    <2>2. CalcOK'
      BY <1>1, <1>2, <1>3, <1>8, <2>1, OutEdgesType DEF CalcOK, IInv
    <2>3. \A e \in OutEdges(n) : \E i \in 1..Len(edges[n]) : edges[n][i] = e
      BY <2>1 DEF OutEdges
    <2>4. ClosedOK'
      BY <1>1, <1>2, <1>3, <1>8, <2>3 DEF ClosedOK, IInv
    <2> QED
      BY <1>1, <1>4, <1>5, <1>8, <2>2, <2>4 DEF Rest, BackOK, RestOK, FoundIsPath
  <1> QED
    BY <1>6, <1>7, <1>8 DEF NextNode

\* calc labels at most the target of the edge at hand, with cur as its parent.
LEMMA CalcStep ==
  ASSUME IInv, Calc
  PROVE  Rest'
  <1> DEFINE e == Head(todo)
  <1>1. /\ phase = "calc" /\ ret = <<>> /\ via = <<>>
        /\ UNCHANGED <<nodes, edges, start, goals, stale, phase, cur, ret, via>>
        /\ todo # <<>> /\ todo \in Seq(Edge)
    BY DEF Calc, graph, query, IInv, RestOK, TypeOK
  <1>2. \A n : OutEdges(n)' = OutEdges(n)
    BY <1>1 DEF OutEdges
  <1>3. /\ cur \in Open /\ cur \in Names /\ cur \in nodes
        /\ label[cur].cost \in Nat /\ ~label[cur].done
    BY <1>1 DEF IInv, CalcOK, Open, Reached, Settled, TypeOK, Label
  <1>4. e \in OutEdges(cur) /\ e = todo[1] /\ Len(todo) \in Nat /\ Len(todo) >= 1
    BY <1>1, HeadTail DEF IInv, CalcOK
  <1>5. e.next \in nodes /\ e.next \in Names /\ e.cost \in Nat
    BY <1>3, <1>4, OutEdgesType DEF IInv, GraphOK
  <1>6. /\ Len(todo') = Len(todo) - 1 /\ todo' \in Seq(Edge)
        /\ \A i \in 1..Len(todo') : todo'[i] = todo[i + 1]
    BY <1>1, HeadTail DEF Calc
  <1>7. CASE ~Improves(e)
    <2>1. label' = label
      BY <1>7 DEF Calc
    <2>2. Settled' = Settled /\ Reached' = Reached /\ Open' = Open /\ Mine' = Mine
      BY <1>1, <2>1 DEF Settled, Reached, Open, Mine
    <2>3. e.next \in Reached
      <3>1. label[e.next].done => label[e.next].cost # -1
        BY <1>5 DEF IInv, AbsentOK
      <3> QED
        BY <1>5, <1>7, <3>1 DEF Improves, Reached
    <2>4. ClosedOK'
      <3>1. \A x \in OutEdges(cur) : x.next \in Reached \/ \E i \in 1..Len(todo') : todo'[i] = x
        <4> SUFFICES ASSUME NEW x \in OutEdges(cur), x.next \notin Reached
                     PROVE  \E i \in 1..Len(todo') : todo'[i] = x
          OBVIOUS
        <4> PICK j \in 1..Len(todo) : todo[j] = x
          BY <1>1 DEF IInv, ClosedOK
        <4>1. j # 1
          BY <1>4, <2>3
        <4>2. j - 1 \in 1..Len(todo')
          BY <1>4, <1>6, <4>1
        <4>3. todo'[j - 1] = todo[(j - 1) + 1]
          BY <1>6, <4>2
        <4> QED
          BY <1>4, <4>2, <4>3
      <3> QED
        BY <1>1, <1>2, <2>2, <3>1 DEF IInv, ClosedOK
    <2>5. CalcOK'
      BY <1>1, <1>2, <1>6, <2>2 DEF IInv, CalcOK
    <2>6. ParentsOK' /\ AbsentOK'
      BY <1>1, <1>2, <2>1, <2>2 DEF IInv, ParentsOK, AbsentOK
    <2> QED
      BY <1>1, <2>4, <2>5, <2>6 DEF Rest, BackOK, RestOK, FoundIsPath
  <1>8. CASE Improves(e)
    <2>1. label' = Relaxed(e)
      BY <1>8 DEF Calc
    <2>2. /\ label'[e.next].cost = label[cur].cost + e.cost
          /\ label'[e.next].prev = cur
          /\ label'[e.next].via = e
          /\ \A n \in Names : label'[n].done = label[n].done
          /\ \A n \in Names : n # e.next => label'[n] = label[n]
      BY <1>5, <2>1 DEF Relaxed, IInv, TypeOK, Label
    <2>3. label[cur].cost + e.cost \in Nat
      BY <1>3, <1>5
    <2>4. /\ Settled' = Settled
          /\ Reached' = Reached \cup {e.next}
          /\ Mine' \subseteq Mine \cup {e.next}
          /\ Mine \subseteq Mine'
      <3>1. nodes \subseteq Names /\ nodes' = nodes /\ stale' = stale
        BY <1>1 DEF IInv, TypeOK
      <3>2. Settled' = Settled
        BY <2>2, <3>1 DEF Settled
      <3>3. Reached' = Reached \cup {e.next}
        <4>1. label'[e.next].cost # -1
          BY <2>2, <2>3
        <4>2. \A n \in nodes : n # e.next => label'[n].cost = label[n].cost
          BY <2>2, <3>1
        <4> QED
          BY <1>5, <3>1, <4>1, <4>2 DEF Reached
      <3> QED
        BY <3>1, <3>2, <3>3 DEF Mine
    <2>5. cur \in Open' /\ cur \in Mine'
      BY <1>1, <1>3, <2>4 DEF Open, Mine, IInv, ParentsOK
    <2>6. e.next # start
      <3>1. label[start].cost = 0
        BY <1>1 DEF IInv, ParentsOK
      <3> QED
        BY <1>3, <1>5, <1>8, <3>1 DEF Improves
    <2>7. ParentsOK'
      <3>1. label'[start].cost = 0 /\ start \in nodes /\ stale \subseteq Settled'
        BY <1>1, <2>2, <2>4, <2>6 DEF IInv, ParentsOK, TypeOK
      <3> SUFFICES ASSUME NEW n \in Mine', n # start
                   PROVE  /\ label'[n].prev \in Mine'
                          /\ label'[n].prev \in Settled' \cup {cur}
                          /\ label'[n].via \in OutEdges(label'[n].prev)
                          /\ label'[n].via.next = n
        BY <1>1, <1>2, <3>1 DEF ParentsOK
      <3>2. CASE n = e.next
        BY <1>4, <2>2, <2>5, <3>2
      <3>3. CASE n # e.next
        <4>1. n \in Mine /\ n \in Names /\ label'[n] = label[n]
          BY <2>2, <2>4, <3>3 DEF Mine, Reached, IInv, TypeOK
        <4>2. /\ label[n].prev \in Mine
              /\ label[n].prev \in Settled \cup {cur}
              /\ label[n].via \in OutEdges(label[n].prev)
              /\ label[n].via.next = n
          BY <1>1, <4>1 DEF IInv, ParentsOK
        <4> QED
          BY <2>4, <4>1, <4>2
      <3> QED
        BY <3>2, <3>3
    <2>8. CalcOK'
      BY <1>1, <1>2, <1>6, <2>5 DEF IInv, CalcOK
    <2>9. ClosedOK'
      <3>1. \A x \in OutEdges(cur) : x.next \in Reached' \/ \E i \in 1..Len(todo') : todo'[i] = x
        <4> SUFFICES ASSUME NEW x \in OutEdges(cur), x.next \notin Reached'
                     PROVE  \E i \in 1..Len(todo') : todo'[i] = x
          OBVIOUS
        <4> PICK j \in 1..Len(todo) : todo[j] = x
          BY <1>1, <2>4 DEF IInv, ClosedOK
        <4>1. j # 1
          BY <1>4, <2>4
        <4>2. j - 1 \in 1..Len(todo')
          BY <1>4, <1>6, <4>1
        <4>3. todo'[j - 1] = todo[(j - 1) + 1]
          BY <1>6, <4>2
        <4> QED
          BY <1>4, <4>2, <4>3
      <3> QED
        BY <1>1, <1>2, <2>4, <3>1 DEF IInv, ClosedOK
    <2>10. AbsentOK'
      <3>1. \A n \in Names \ nodes : label'[n] = Unlabelled
        BY <1>5, <2>2 DEF IInv, AbsentOK
      <3>2. label'[e.next].cost # -1
        BY <2>2, <2>3
      <3>3. \A n \in Names : label'[n].done => label'[n].cost # -1
        BY <2>2, <3>2 DEF IInv, AbsentOK
      <3> QED
        BY <1>1, <3>1, <3>3 DEF AbsentOK, Unlabelled
    <2> QED
      BY <1>1, <2>7, <2>8, <2>9, <2>10 DEF Rest, BackOK, RestOK, FoundIsPath
  <1> QED
    BY <1>7, <1>8

\* A settled node's edges have all been looked at.
LEMMA SettleStep ==
  ASSUME IInv, Settle
  PROVE  Rest'
  <1>1. /\ phase = "calc" /\ phase' = "next" /\ ret = <<>> /\ via = <<>> /\ todo = <<>>
        /\ UNCHANGED <<nodes, edges, start, goals, stale, cur, ret, via>>
    BY DEF Settle, graph, query, IInv, RestOK
  <1>2. \A n : OutEdges(n)' = OutEdges(n)
    BY <1>1 DEF OutEdges
  <1>3. cur \in Open /\ cur \in Names /\ cur \in nodes /\ cur \notin goals
    BY <1>1 DEF IInv, CalcOK, Open, Reached, TypeOK
  <1>4. /\ label'[cur].done
        /\ \A n \in Names : n # cur => label'[n] = label[n]
        /\ \A n \in Names : /\ label'[n].cost = label[n].cost
                            /\ label'[n].prev = label[n].prev
                            /\ label'[n].via = label[n].via
    BY <1>3 DEF Settle, IInv, TypeOK, Label
  <1>5. /\ Settled' = Settled \cup {cur}
        /\ Reached' = Reached
        /\ Mine' = Mine
    BY <1>1, <1>3, <1>4 DEF Settled, Reached, Mine, IInv, TypeOK
  <1>6. AbsentOK'
    <2>1. \A n \in Names \ nodes : label'[n] = Unlabelled
      BY <1>3, <1>4 DEF IInv, AbsentOK
    <2>2. label[cur].cost # -1
      BY <1>3 DEF Open, Reached
    <2>3. \A n \in Names : label'[n].done => label'[n].cost # -1
      BY <1>4, <2>2 DEF IInv, AbsentOK
    <2> QED
      BY <1>1, <2>1, <2>3 DEF AbsentOK, Unlabelled
  <1>7. ParentsOK'
    <2>1. start \in Names /\ \A n \in Mine : n \in Names
      BY <1>1 DEF IInv, ParentsOK, Mine, Reached, TypeOK
    <2> QED
      BY <1>1, <1>2, <1>4, <1>5, <2>1 DEF IInv, ParentsOK
  <1>8. ClosedOK'
    BY <1>1, <1>2, <1>3, <1>5 DEF IInv, ClosedOK, Open
  <1> QED
    BY <1>1, <1>6, <1>7, <1>8 DEF Rest, CalcOK, BackOK, RestOK, FoundIsPath

\* The walk back takes one edge per step, from a node's parent to the node.
LEMMA WalkBackStep ==
  ASSUME IInv, WalkBack
  PROVE  Rest'
  <1>1. /\ phase = "back" /\ cur \in Mine /\ cur \in Names
        /\ UNCHANGED <<nodes, edges, start, goals, stale>>
        /\ ret \in Seq(Names) /\ via \in Seq(Edge) /\ Len(via) = Len(ret)
        /\ ret' = <<cur>> \o ret
    BY DEF WalkBack, graph, query, IInv, BackOK, TypeOK, Mine, Reached
  <1>2. \A n : OutEdges(n)' = OutEdges(n)
    BY <1>1 DEF OutEdges
  <1>3. /\ Len(ret) \in Nat /\ Len(ret') = Len(ret) + 1
        /\ ret'[1] = cur
        /\ \A i \in 1..Len(ret) : ret'[i + 1] = ret[i]
    BY <1>1, Prepend
  <1>4. ret'[Len(ret')] \in goals
    <2>1. CASE ret = <<>>
      BY <1>1, <1>3, <2>1 DEF IInv, BackOK
    <2>2. CASE ret # <<>>
      BY <1>1, <1>3, <2>2 DEF IInv, BackOK
    <2> QED
      BY <2>1, <2>2
  <1>5. CASE cur = start
    <2>1. /\ phase' = "found" /\ via' = via
          /\ \A n \in Names : label'[n] = Unlabelled
      BY <1>5 DEF WalkBack, ResetLabels
    <2>2. Open' = {} /\ AbsentOK'
      <3>1. \A n \in Names : label'[n].cost = -1 /\ ~label'[n].done
        BY <2>1 DEF Unlabelled
      <3>2. Open' = {}
        BY <1>1, <3>1 DEF Open, Reached, IInv, TypeOK
      <3>3. AbsentOK'
        BY <1>1, <2>1, <3>1 DEF AbsentOK, Unlabelled
      <3> QED
        BY <3>2, <3>3
    <2>3. IsPath(ret, via)'
      <3>1. \A i \in 1..Len(via) : via[i].next = ret'[i + 1]
        BY <1>1, <1>3 DEF IInv, BackOK
      <3>2. \A i \in 1..Len(via) : via[i] \in OutEdges(ret'[i])
        <4> SUFFICES ASSUME NEW i \in 1..Len(via)
                     PROVE  via[i] \in OutEdges(ret'[i])
          OBVIOUS
        <4>1. CASE i = 1
          <5>1. ret # <<>>
            BY <1>1
          <5> QED
            BY <1>1, <1>3, <4>1, <5>1 DEF IInv, BackOK
        <4>2. CASE i # 1
          <5>1. i - 1 \in 1..Len(ret) - 1
            BY <1>1, <1>3, <4>2
          <5>2. via[(i - 1) + 1] \in OutEdges(ret[i - 1]) /\ ret'[(i - 1) + 1] = ret[i - 1]
            BY <1>1, <1>3, <5>1 DEF IInv, BackOK
          <5> QED
            BY <5>1, <5>2
        <4> QED
          BY <4>1, <4>2
      <3> QED
        BY <1>1, <1>2, <1>3, <2>1, <3>1, <3>2 DEF IsPath
    <2>4. FoundIsPath'
      BY <1>1, <1>3, <1>4, <1>5, <2>3 DEF FoundIsPath
    <2> QED
      BY <2>1, <2>2, <2>4 DEF Rest, ParentsOK, CalcOK, ClosedOK, BackOK, RestOK
  <1>6. CASE cur # start
    <2> DEFINE e == label[cur].via
               p == label[cur].prev
    <2>1. /\ phase' = "back" /\ label' = label /\ cur' = p /\ via' = <<e>> \o via
      BY <1>1, <1>6 DEF WalkBack
    <2>2. p \in Mine /\ p \in Names /\ e \in OutEdges(p) /\ e.next = cur
      BY <1>1, <1>6 DEF IInv, ParentsOK, Mine, Reached, TypeOK
    <2>3. e \in Edge
      BY <2>2, OutEdgesType DEF IInv
    <2>4. /\ Len(via') = Len(via) + 1
          /\ via'[1] = e
          /\ \A i \in 1..Len(via) : via'[i + 1] = via[i]
      BY <1>1, <2>1, <2>3, Prepend
    <2>5. Settled' = Settled /\ Reached' = Reached /\ Mine' = Mine
      BY <1>1, <2>1 DEF Settled, Reached, Mine
    <2>6. \A i \in 1..Len(ret') : via'[i].next = ret'[i]
      <3> SUFFICES ASSUME NEW i \in 1..Len(ret')
                   PROVE  via'[i].next = ret'[i]
        OBVIOUS
      <3>1. CASE i = 1
        BY <1>3, <2>2, <2>4, <3>1
      <3>2. CASE i # 1
        <4>1. i - 1 \in 1..Len(ret)
          BY <1>3, <3>2
        <4>2. via'[(i - 1) + 1].next = ret'[(i - 1) + 1]
          BY <1>1, <1>3, <2>4, <4>1 DEF IInv, BackOK
        <4> QED
          BY <4>1, <4>2
      <3> QED
        BY <3>1, <3>2
    <2>7. \A i \in 1..Len(ret') - 1 : via'[i + 1] \in OutEdges(ret'[i])
      <3> SUFFICES ASSUME NEW i \in 1..Len(ret') - 1
                   PROVE  via'[i + 1] \in OutEdges(ret'[i])
        OBVIOUS
      <3>1. i \in 1..Len(ret) /\ via'[i + 1] = via[i] /\ ret # <<>>
        BY <1>1, <1>3, <2>4
      <3>2. CASE i = 1
        BY <1>1, <1>3, <3>1, <3>2 DEF IInv, BackOK
      <3>3. CASE i # 1
        <4>1. i - 1 \in 1..Len(ret) - 1
          BY <1>3, <3>1, <3>3
        <4>2. via[(i - 1) + 1] \in OutEdges(ret[i - 1]) /\ ret'[(i - 1) + 1] = ret[i - 1]
          BY <1>1, <1>3, <4>1 DEF IInv, BackOK
        <4> QED
          BY <3>1, <4>1, <4>2
      <3> QED
        BY <3>2, <3>3
    <2>8. ret' # <<>> /\ Len(via') = Len(ret')
      BY <1>1, <1>3, <2>4
    <2>9. BackOK'
      <3>1. cur' \in Mine' /\ via'[1] \in OutEdges(cur')
        BY <2>1, <2>2, <2>4, <2>5
      <3>2. \A n : OutEdges(n)' = OutEdges(n)
        BY <1>1 DEF OutEdges
      <3>3. goals' = goals
        BY <1>1
      <3> QED
        BY <1>4, <2>6, <2>7, <2>8, <3>1, <3>2, <3>3 DEF BackOK
    <2>10. ParentsOK' /\ AbsentOK'
      BY <1>1, <1>2, <2>1, <2>5 DEF IInv, ParentsOK, AbsentOK
    <2> QED
      BY <2>1, <2>9, <2>10 DEF Rest, CalcOK, ClosedOK, RestOK, FoundIsPath
  <1> QED
    BY <1>5, <1>6

\* Taking the answer leaves the labels as they are.
LEMMA ReturnStep ==
  ASSUME IInv, Return
  PROVE  Rest'
  <1>1. /\ phase \in {"found", "notFound", "panic"} /\ phase' = "idle"
        /\ ret' = <<>> /\ via' = <<>>
        /\ UNCHANGED <<nodes, edges, label>>
    BY DEF Return, graph
  <1>2. Open' = {} /\ AbsentOK'
    BY <1>1 DEF IInv, RestOK, AbsentOK, Open, Reached, Settled
  <1> QED
    BY <1>1, <1>2 DEF Rest, ParentsOK, CalcOK, ClosedOK, BackOK, RestOK, FoundIsPath
------------------------------------------------------------------------------
(* The inductive invariant, and what follows from it *)

\* At first the graph is empty and nothing is searched.
LEMMA IInvInit == Init => IInv
  <1> SUFFICES ASSUME Init
               PROVE  IInv
    OBVIOUS
  <1>1. TypeOK
    BY TypeInit
  <1>2. \A n \in Names : OutEdges(n) = {}
    BY DEF Init, OutEdges
  <1>3. Open = {}
    BY DEF Init, Open, Reached
  <1> QED
    BY <1>1, <1>2, <1>3 DEF Init, NoSearch, Unlabelled, IInv, GraphOK, AbsentOK, ParentsOK,
                            CalcOK, ClosedOK, BackOK, RestOK, FoundIsPath

\* Every step of the clients and of a search keeps the invariant.
LEMMA IInvStep == IInv /\ [Next]_vars => IInv'
  <1> SUFFICES ASSUME IInv, [Next]_vars
               PROVE  IInv'
    OBVIOUS
  <1>1. TypeOK' /\ GraphOK'
    BY TypeStep, GraphStep DEF IInv
  <1>2. Rest'
    <2>1. CASE UNCHANGED vars
      BY <2>1 DEF vars, IInv, Rest, AbsentOK, ParentsOK, CalcOK, ClosedOK, BackOK, RestOK,
                  FoundIsPath, IsPath, Mine, Open, Reached, Settled, OutEdges
    <2> QED
      BY <2>1, AddStep, SearchBegins, NextNodeStep, CalcStep, SettleStep, WalkBackStep,
         ReturnStep DEF Next, SearchStep
  <1> QED
    BY <1>1, <1>2 DEF IInv, Rest

\* The inductive invariant holds in every state of every behaviour.
THEOREM Invariance == Spec => []IInv
  BY IInvInit, IInvStep, PTL DEF Spec

\* Type correctness of the search (dijkstra.go:13-24, 94-209).
THEOREM TypeCorrect == Spec => []TypeOK
  <1>1. IInv => TypeOK
    BY DEF IInv
  <1> QED
    BY <1>1, Invariance, PTL

\* Every answer is a path of the graph from the start to a goal, whatever
\* failed searches left in the nodes before (dijkstra.go:121-140).
THEOREM AnswersArePaths == Spec => []FoundIsPath
  <1>1. IInv => FoundIsPath
    BY DEF IInv
  <1> QED
    BY <1>1, Invariance, PTL

\* No search dereferences a nil prev (dijkstra.go:125-132).
THEOREM NoNilDereferenced == Spec => []NoNilDereference
  <1>1. IInv => NoNilDereference
    BY NilAssumption DEF IInv, NoNilDereference, BackOK, RestOK, Mine, Reached, TypeOK
  <1> QED
    BY <1>1, Invariance, PTL

\* Between searches nothing is reached but not done (dijkstra.go:102-119).
THEOREM NothingLeftHalfDone == Spec => []NothingHalfDone
  <1>1. IInv => NothingHalfDone
    BY DEF IInv, NothingHalfDone, RestOK
  <1> QED
    BY <1>1, Invariance, PTL

\* "Goal not found" is never a mistake of a search that began on reset nodes
\* (dijkstra.go:104-109): the settled nodes are closed under the edges.
THEOREM NotFoundTrue == Spec => []NotFoundIsTrue
  <1>1. IInv => NotFoundIsTrue
    <2> SUFFICES ASSUME IInv, phase = "notFound", stale = {}
                 PROVE  Unreachable
      BY DEF NotFoundIsTrue
    <2>1. Reached \subseteq Settled /\ Settled \subseteq nodes
      BY DEF IInv, RestOK, Open, Settled
    <2>2. start \in Settled /\ Settled \cap goals = {}
      BY <2>1 DEF IInv, ClosedOK
    <2>3. \A n \in Settled : \A e \in OutEdges(n) : e.next \in Settled
      BY <2>1 DEF IInv, ClosedOK
    <2> QED
      BY <2>1, <2>2, <2>3 DEF Unreachable
  <1> QED
    BY <1>1, Invariance, PTL
------------------------------------------------------------------------------
(* The walk back ends *)

\* The nodes of this search hang on its start: a set of them that holds with each
\* node its prev holds the start.
Rooted ==
  phase \in {"next", "calc", "back"} =>
    \A S \in SUBSET Mine :
      S # {} /\ (\A n \in S : n = start \/ label[n].prev \in S) => start \in S

\* The walk back has come along prev, and not from the start.
Trail ==
  phase = "back" =>
    \A i \in 1..Len(ret) : /\ ret[i] \in Mine /\ ret[i] # start
                           /\ label[ret[i]].prev = IF i = 1 THEN cur ELSE ret[i - 1]

WalkInv == Rooted /\ Trail /\ WalkBackEnds

\* A new search begins with one node of its own.
LEMMA WalkSearchBegins ==
  ASSUME IInv, NEW s \in Names, NEW gs \in SUBSET Names, Search(s, gs)
  PROVE  WalkInv'
  <1>1. /\ phase = "idle" /\ Open = {} /\ start' = s /\ stale' = Settled /\ nodes' = nodes
        /\ label \in [Names -> Label] /\ phase' \in {"next", "panic"}
        /\ phase' = "next" => label' = [label EXCEPT ![s].cost = 0]
    BY DEF Search, graph, IInv, RestOK, TypeOK
  <1>2. phase' = "next" => Mine' \subseteq {s}
    <2> SUFFICES ASSUME phase' = "next", NEW n \in Mine', n # s PROVE FALSE
      OBVIOUS
    <2>1. n \in nodes /\ label'[n] = label[n] /\ label'[n].cost # -1 /\ n \notin Settled
      BY <1>1 DEF Mine, Reached, IInv, TypeOK
    <2> QED
      BY <1>1, <2>1 DEF Open, Reached
  <1>3. Rooted'
    BY <1>1, <1>2 DEF Rooted
  <1> QED
    BY <1>1, <1>3 DEF WalkInv, Trail, WalkBackEnds

\* A node that is relaxed hangs on cur, and no other node hangs on it.
LEMMA WalkCalc ==
  ASSUME IInv, WalkInv, Calc
  PROVE  WalkInv'
  <1> DEFINE e == Head(todo)
  <1>1. /\ phase = "calc" /\ phase' = "calc" /\ todo # <<>> /\ todo \in Seq(Edge)
        /\ UNCHANGED <<nodes, start, stale, cur>> /\ label \in [Names -> Label]
        /\ nodes \subseteq Names
    BY DEF Calc, graph, query, IInv, TypeOK
  <1>2. cur \in Open /\ cur \in Names /\ label[cur].cost \in Nat /\ cur \in Mine
    BY <1>1 DEF IInv, CalcOK, ParentsOK, Open, Mine, Reached, TypeOK, Label
  <1>3. e \in OutEdges(cur) /\ e.next \in Names /\ e.cost \in Nat
    <2>1. e = todo[1] /\ 1 \in 1..Len(todo)
      BY <1>1, HeadTail
    <2> QED
      BY <1>1, <1>2, <2>1, OutEdgesType DEF IInv, CalcOK
  <1>4. Rooted'
    <2>1. CASE ~Improves(e)
      <3>1. label' = label
        BY <2>1 DEF Calc
      <3>2. Mine' = Mine
        BY <1>1, <3>1 DEF Mine, Reached
      <3> QED
        BY <1>1, <3>1, <3>2 DEF WalkInv, Rooted
    <2>2. CASE Improves(e)
      <3> DEFINE x == e.next
      <3>1. label' = Relaxed(e)
        BY <2>2 DEF Calc
      <3>2. x # cur /\ ~label[x].done
        BY <1>2, <1>3, <2>2 DEF Improves
      <3>3. label'[x].prev = cur /\ \A n \in Names \ {x} : label'[n] = label[n]
        BY <1>1, <1>3, <3>1 DEF Relaxed, Label
      <3> HIDE DEF e, x
      <3>4. Mine' \subseteq Mine \cup {x} /\ Mine' \subseteq Names
        BY <1>1, <3>3 DEF Mine, Reached
      <3>5. \A n \in Mine : n # start => label[n].prev # x
        BY <1>1, <3>2 DEF IInv, ParentsOK, Settled
      <3> SUFFICES ASSUME NEW S \in SUBSET Mine', S # {},
                          \A n \in S : n = start \/ label'[n].prev \in S
                   PROVE  start \in S
        BY <1>1 DEF Rooted
      <3>6. \A n \in S \ {x} : n \in Mine /\ (n = start \/ label[n].prev \in S \ {x})
        BY <3>3, <3>4, <3>5
      <3>7. S \ {x} # {} \/ start \in S
        BY <3>2, <3>3
      <3>8. S \ {x} \in SUBSET Mine
        BY <3>4
      <3>9. start \in S \ {x} \/ start \in S
        BY <1>1, <3>6, <3>7, <3>8 DEF WalkInv, Rooted
      <3> QED
        BY <3>9
    <2> QED
      BY <2>1, <2>2
  <1> QED
    BY <1>1, <1>4 DEF WalkInv, Trail, WalkBackEnds

\* A node that is settled hangs where it did.
LEMMA WalkSettle ==
  ASSUME IInv, WalkInv, Settle
  PROVE  WalkInv'
  <1>1. /\ phase = "calc" /\ phase' = "next" /\ UNCHANGED <<nodes, start, stale>>
        /\ label \in [Names -> Label] /\ nodes \subseteq Names
        /\ label' = [label EXCEPT ![cur].done = TRUE]
    BY DEF Settle, graph, query, IInv, TypeOK
  <1>2. \A n \in Names : label'[n].cost = label[n].cost /\ label'[n].prev = label[n].prev
    BY <1>1 DEF Label
  <1>3. Mine' = Mine /\ Mine \subseteq Names
    BY <1>1, <1>2 DEF Mine, Reached
  <1>4. Rooted'
    BY <1>1, <1>2, <1>3 DEF WalkInv, Rooted
  <1> QED
    BY <1>1, <1>4 DEF WalkInv, Trail, WalkBackEnds

\* The next node, an answer that is taken, an edge that is added: nothing hangs
\* elsewhere, and a walk back has not come anywhere yet.
LEMMA WalkRests ==
  ASSUME IInv, WalkInv, UNCHANGED <<label, start, stale, nodes>> \/ phase' = "idle",
         phase' = "idle" \/ phase = "next",
         phase' = "back" => ret' = <<>>
  PROVE  WalkInv'
  <1>1. CASE phase' = "idle"
    BY <1>1 DEF WalkInv, Rooted, Trail, WalkBackEnds
  <1>2. CASE phase = "next" /\ UNCHANGED <<label, start, stale, nodes>>
    <2>1. Mine' = Mine
      BY <1>2 DEF Mine, Reached
    <2>2. Rooted'
      BY <1>2, <2>1 DEF WalkInv, Rooted
    <2> QED
      BY <2>2 DEF WalkInv, Trail, WalkBackEnds
  <1> QED
    BY <1>1, <1>2

\* The walk back goes on to a node that it has not been at: between the two visits
\* there would be nodes that do not hang on the start.
LEMMA WalkBackKeeps ==
  ASSUME IInv, WalkInv, WalkBack
  PROVE  WalkInv'
  <1>1. /\ phase = "back" /\ cur \in Mine /\ cur \in Names /\ ret \in Seq(Names)
        /\ UNCHANGED <<nodes, start, stale>> /\ ret' = <<cur>> \o ret
    BY DEF WalkBack, graph, query, IInv, BackOK, TypeOK, Mine, Reached
  <1>2. /\ Len(ret) \in Nat /\ Len(ret') = Len(ret) + 1
        /\ ret'[1] = cur
        /\ \A i \in 1..Len(ret) : ret'[i + 1] = ret[i]
    BY <1>1, Prepend
  <1>3. CASE cur = start
    <2>1. phase' = "found"
      BY <1>3 DEF WalkBack
    <2> QED
      BY <2>1 DEF WalkInv, Rooted, Trail, WalkBackEnds
  <1>4. CASE cur # start
    <2> DEFINE p == label[cur].prev
    <2>1. phase' = "back" /\ label' = label /\ cur' = p
      BY <1>1, <1>4 DEF WalkBack
    <2>2. Mine' = Mine
      BY <1>1, <2>1 DEF Mine, Reached
    <2>3. Rooted'
      BY <1>1, <2>1, <2>2 DEF WalkInv, Rooted
    <2>4. ASSUME NEW i \in 1..Len(ret')
          PROVE  /\ ret'[i] \in Mine /\ ret'[i] # start
                 /\ label[ret'[i]].prev = IF i = 1 THEN p ELSE ret'[i - 1]
      <3>1. CASE i = 1
        BY <1>1, <1>2, <1>4, <3>1
      <3>2. CASE i # 1
        <4>1. i - 1 \in 1..Len(ret) /\ ret'[(i - 1) + 1] = ret[i - 1]
          BY <1>2, <3>2
        <4>2. /\ ret[i - 1] \in Mine /\ ret[i - 1] # start
              /\ label[ret[i - 1]].prev = IF i - 1 = 1 THEN cur ELSE ret[(i - 1) - 1]
          BY <1>1, <4>1 DEF WalkInv, Trail
        <4>3. ret'[i - 1] = IF i - 1 = 1 THEN cur ELSE ret[(i - 1) - 1]
          <5>1. CASE i - 1 = 1
            BY <1>2, <5>1
          <5>2. CASE i - 1 # 1
            <6>1. i - 2 \in 1..Len(ret) /\ (i - 1) - 1 = i - 2 /\ (i - 2) + 1 = i - 1
              BY <1>2, <4>1, <5>2
            <6> QED
              BY <1>2, <5>2, <6>1
          <5> QED
            BY <5>1, <5>2
        <4> QED
          BY <3>2, <4>1, <4>2, <4>3
      <3> QED
        BY <3>1, <3>2
    <2>5. Trail'
      BY <1>1, <2>1, <2>2, <2>4 DEF Trail
    <2>6. ASSUME NEW i \in 1..Len(ret'), ret'[i] = p PROVE FALSE
      <3> DEFINE S == {ret'[j] : j \in 1..i}
      <3>1. i \in Int /\ 1 <= i /\ i <= Len(ret')
        BY <1>2
      <3>2. S \in SUBSET Mine /\ start \notin S
        BY <1>2, <2>4, <3>1
      <3>3. ret'[i] \in S
        BY <3>1
      <3>4. \A n \in S : label[n].prev \in S
        <4> SUFFICES ASSUME NEW j \in 1..i PROVE label[ret'[j]].prev \in S
          OBVIOUS
        <4>1. CASE j = 1
          BY <1>2, <2>4, <2>6, <3>1, <3>3, <4>1
        <4>2. CASE j # 1
          <5>1. j - 1 \in 1..i /\ j \in 1..Len(ret')
            BY <1>2, <3>1, <4>2
          <5>2. label[ret'[j]].prev = ret'[j - 1]
            BY <2>4, <4>2, <5>1
          <5> QED
            BY <5>1, <5>2
        <4> QED
          BY <4>1, <4>2
      <3> HIDE DEF S
      <3> QED
        BY <1>1, <3>2, <3>3, <3>4 DEF WalkInv, Rooted
    <2>7. \A i, j \in 1..Len(ret') : ret'[i] = ret'[j] => i = j
      <3>1. ASSUME NEW i \in 1..Len(ret'), i # 1 PROVE i - 1 \in 1..Len(ret) /\ ret'[i] = ret[i - 1]
        <4>1. i - 1 \in 1..Len(ret) /\ (i - 1) + 1 = i
          BY <1>2, <3>1
        <4> QED
          BY <1>2, <4>1
      <3>2. \A i \in 1..Len(ret) : ret[i] # cur /\ \A j \in 1..Len(ret) : ret[i] = ret[j] => i = j
        BY <1>1 DEF WalkInv, WalkBackEnds
      <3> SUFFICES ASSUME NEW i \in 1..Len(ret'), NEW j \in 1..Len(ret'), ret'[i] = ret'[j]
                   PROVE  i = j
        OBVIOUS
      <3>3. CASE i = 1 \/ j = 1
        BY <1>2, <3>1, <3>2, <3>3
      <3>4. CASE i # 1 /\ j # 1
        <4>1. i - 1 = j - 1
          BY <3>1, <3>2, <3>4
        <4> QED
          BY <1>2, <4>1
      <3> QED
        BY <3>3, <3>4
    <2>8. WalkBackEnds'
      BY <2>1, <2>6, <2>7 DEF WalkBackEnds
    <2> QED
      BY <2>3, <2>5, <2>8 DEF WalkInv
  <1> QED
    BY <1>3, <1>4

\* Every step of a search, and of the clients, keeps the trail.
LEMMA WalkStep == IInv /\ WalkInv /\ [Next]_vars => WalkInv'
  <1> SUFFICES ASSUME IInv, WalkInv, [Next]_vars
               PROVE  WalkInv'
    OBVIOUS
  <1>1. ASSUME phase = "idle", NEW src \in Names, NEW dst \in Names, NEW name \in EdgeNames,
               NEW c \in Costs, Add(src, dst, name, c)
        PROVE  WalkInv'
    <2>1. phase' = "idle"
      BY <1>1 DEF Add
    <2> QED
      BY <2>1, WalkRests
  <1>2. CASE NextNode
    <2>1. /\ phase = "next" /\ UNCHANGED <<label, start, stale, nodes, ret>> /\ ret = <<>>
      BY <1>2 DEF NextNode, graph, query, IInv, RestOK
    <2> QED
      BY <2>1, WalkRests
  <1>3. CASE Return
    <2>1. phase' = "idle"
      BY <1>3 DEF Return
    <2> QED
      BY <2>1, WalkRests
  <1>4. CASE UNCHANGED vars
    BY <1>4 DEF vars, WalkInv, Rooted, Trail, WalkBackEnds, Mine, Reached
  <1> QED
    BY <1>1, <1>2, <1>3, <1>4, WalkSearchBegins, WalkCalc, WalkSettle, WalkBackKeeps
       DEF Next, SearchStep

\* No search walks back in circles, also where edges cost nothing: the nodes of the
\* walk differ, so it ends after as many steps as there are nodes (dijkstra.go:125-140).
THEOREM WalksBackEnd == Spec => []WalkBackEnds
  <1>1. Init => WalkInv
    BY DEF Init, NoSearch, WalkInv, Rooted, Trail, WalkBackEnds
  <1>2. WalkInv => WalkBackEnds
    BY DEF WalkInv
  <1> QED
    BY <1>1, <1>2, IInvInit, IInvStep, WalkStep, PTL DEF Spec
------------------------------------------------------------------------------
(* What PathSearch says a search may answer *)

\* A sequence of edges of ls, each of which begins where the one before it ends.
Connected(r, ls, s) ==
  /\ r \in Seq(ls)
  /\ r # <<>> => r[1].src = s
  /\ \A i \in 1..Len(r) - 1 : r[i].next = r[i + 1].src

RouteEnd(r, s) == IF r = <<>> THEN s ELSE r[Len(r)].next

\* A route that is connected stays it with a link from where it ends.
LEMMA ConnectedAppend ==
  ASSUME NEW ls, NEW s, NEW r, Connected(r, ls, s), NEW l \in ls, l.src = RouteEnd(r, s)
  PROVE  Connected(Append(r, l), ls, s)
<1> DEFINE q == Append(r, l)
<1>1. /\ r \in Seq(ls) /\ Len(r) \in Nat /\ q \in Seq(ls) /\ Len(q) = Len(r) + 1
      /\ q[Len(r) + 1] = l /\ \A i \in 1..Len(r) : q[i] = r[i]
  BY DEF Connected
<1>2. q # <<>> => q[1].src = s
  <2>1. CASE r = <<>>
    BY <1>1, <2>1 DEF RouteEnd
  <2>2. CASE r # <<>>
    BY <1>1, <2>2 DEF Connected
  <2> QED
    BY <2>1, <2>2
<1>3. ASSUME NEW i \in 1..Len(q) - 1 PROVE q[i].next = q[i + 1].src
  <2>1. CASE i = Len(r)
    <3>1. r # <<>> /\ q[i] = r[i] /\ q[i + 1] = l
      BY <1>1, <2>1
    <3> QED
      BY <2>1, <3>1 DEF RouteEnd
  <2>2. CASE i # Len(r)
    <3>1. i \in 1..Len(r) - 1 /\ q[i] = r[i] /\ q[i + 1] = r[i + 1]
      BY <1>1, <2>2
    <3> QED
      BY <3>1 DEF Connected
  <2> QED
    BY <2>1, <2>2
<1> HIDE DEF q
<1> QED
  BY <1>1, <1>2, <1>3 DEF Connected, q

\* The number of links is the same on both sides of the INSTANCE.
LEMMA SameCardinality ==
  ASSUME NEW S
  PROVE  Oracle!Cardinality(S) = Cardinality(S)
  BY DEF Oracle!Cardinality, Cardinality

\* The nodes that links of ls add to v.
Spread(ls, avoid, v) == v \cup {l.next : l \in {m \in ls : m.src \in v /\ m.next \notin avoid}}

\* Within is reached by as many steps as there are links.
LEMMA WithinIterates ==
  ASSUME NEW ls, IsFiniteSet(ls), NEW s, NEW avoid
  PROVE  \E W : /\ Oracle!Within(ls, s, avoid) = W[Cardinality(ls)]
                /\ W[0] = {s} \ avoid
                /\ \A k \in 1..Cardinality(ls) : W[k] = Spread(ls, avoid, W[k - 1])
<1> DEFINE n == Cardinality(ls)
           S == {s} \cup {l.next : l \in ls}
           D == SUBSET S
           first == {s} \ avoid
           F(v) == v \cup {l.next : l \in {m \in ls : m.src \in v /\ m.next \notin avoid}}
           G == [v \in D |-> F(v)]
           W == CHOOSE w : w = [k \in 0..n |-> IF k = 0 THEN first ELSE F(w[k - 1])]
<1>1. Oracle!Within(ls, s, avoid) = W[n]
  BY SameCardinality DEF Oracle!Within
<1>2. n \in Nat
  BY FS_CardinalityType
<1>3. first \in D /\ \A v \in D : F(v) \in D
  OBVIOUS
<1>4. \A v : F(v) = Spread(ls, avoid, v)
  BY DEF Spread
<1> HIDE DEF n, D, first, F, W
<1>5. G \in [D -> D] /\ \A v \in D : G[v] = F(v)
  BY <1>3
<1> HIDE DEF G
<1>6. PICK f : Iterates(f, D, first, G, n)
  BY <1>2, <1>3, <1>5, Iteration
<1>7. f \in [0..n -> D] /\ f[0] = first /\ \A k \in 1..n : f[k] = F(f[k - 1])
  <2>1. f \in [0..n -> D] /\ f[0] = first /\ \A k \in 1..n : f[k] = G[f[k - 1]]
    BY <1>6 DEF Iterates
  <2>2. \A k \in 1..n : f[k - 1] \in D
    BY <1>2, <2>1
  <2> QED
    BY <1>5, <2>1, <2>2
<1>8. f = [k \in 0..n |-> IF k = 0 THEN first ELSE F(f[k - 1])]
  BY <1>2, <1>7
<1>9. W = [k \in 0..n |-> IF k = 0 THEN first ELSE F(W[k - 1])]
  BY <1>8 DEF W
<1>10. W[0] = first /\ \A k \in 1..n : W[k] = F(W[k - 1])
  BY <1>2, <1>9
<1> QED
  BY <1>1, <1>4, <1>10 DEF n, first

\* A set that has the start and that no link leaves has all that Within collects.
LEMMA WithinIsLeast ==
  ASSUME NEW ls, IsFiniteSet(ls), NEW s, NEW avoid,
         NEW M, {s} \ avoid \subseteq M,
         \A l \in ls : l.src \in M /\ l.next \notin avoid => l.next \in M
  PROVE  Oracle!Within(ls, s, avoid) \subseteq M
<1> DEFINE n == Cardinality(ls)
           D == SUBSET M
<1>1. PICK W : /\ Oracle!Within(ls, s, avoid) = W[n]
               /\ W[0] = {s} \ avoid
               /\ \A k \in 1..n : W[k] = Spread(ls, avoid, W[k - 1])
  BY ONLY IsFiniteSet(ls), WithinIterates
<1>2. n \in Nat
  BY FS_CardinalityType
<1>3. {s} \ avoid \in D /\ \A v \in D : Spread(ls, avoid, v) \in D
  BY DEF Spread
<1> HIDE DEF n, D
<1>4. W[0] \in D /\ \A k \in 1..n : W[k - 1] \in D => W[k] \in D
  BY <1>1, <1>3
<1>5. \A k \in 0..n : W[k] \in D
  BY <1>2, <1>4, IterationStays
<1> QED
  BY <1>1, <1>2, <1>5 DEF D

\* No link leaves what Within collects: until nothing is new every step takes in a link
\* more, and there are no more steps needed than links.
LEMMA WithinIsClosed ==
  ASSUME NEW ls, IsFiniteSet(ls), NEW s, NEW avoid
  PROVE  /\ {s} \ avoid \subseteq Oracle!Within(ls, s, avoid)
         /\ \A l \in ls : l.src \in Oracle!Within(ls, s, avoid) /\ l.next \notin avoid
                            => l.next \in Oracle!Within(ls, s, avoid)
<1> DEFINE n == Cardinality(ls)
<1>1. PICK W : /\ Oracle!Within(ls, s, avoid) = W[n]
               /\ W[0] = {s} \ avoid
               /\ \A k \in 1..n : W[k] = Spread(ls, avoid, W[k - 1])
  BY WithinIterates
<1>2. n \in Nat
  BY FS_CardinalityType
<1>3. \A v : v \subseteq Spread(ls, avoid, v)
  BY DEF Spread
<1> DEFINE Inner(v) == {l \in ls : l.src \in v /\ l.next \in v}
           Done(v) == \A l \in ls : l.src \in v /\ l.next \notin avoid => l.next \in v
           T == {k \in Nat : k <= n => /\ {s} \ avoid \subseteq W[k]
                                       /\ Done(W[k]) \/ Cardinality(Inner(W[k])) >= k}
<1>4. \A v : Inner(v) \in SUBSET ls /\ IsFiniteSet(Inner(v)) /\ Cardinality(Inner(v)) \in Nat
  <2>1. \A v : Inner(v) \in SUBSET ls
    OBVIOUS
  <2> HIDE DEF Inner
  <2> QED
    BY <2>1, FS_Subset, FS_CardinalityType
<1>5. 0 \in T
  <2>1. Cardinality(Inner(W[0])) >= 0
    <3> HIDE DEF Inner
    <3> QED
      BY <1>4
  <2> QED
    BY <1>1, <2>1
<1>6. ASSUME NEW k \in Nat, k \in T PROVE k + 1 \in T
  <2> SUFFICES ASSUME k + 1 <= n
               PROVE  /\ {s} \ avoid \subseteq W[k + 1]
                      /\ Done(W[k + 1]) \/ Cardinality(Inner(W[k + 1])) >= k + 1
    OBVIOUS
  <2>1. W[k + 1] = Spread(ls, avoid, W[k])
    <3>1. k + 1 \in 1..n /\ (k + 1) - 1 = k
      BY <1>2
    <3> QED
      BY <1>1, <3>1
  <2>2. {s} \ avoid \subseteq W[k] /\ (Done(W[k]) \/ Cardinality(Inner(W[k])) >= k)
    BY <1>2, <1>6
  <2>3. {s} \ avoid \subseteq W[k + 1]
    BY <1>3, <2>1, <2>2
  <2>4. CASE Done(W[k])
    <3>1. W[k + 1] = W[k]
      BY <2>1, <2>4 DEF Spread
    <3> QED
      BY <2>3, <2>4, <3>1
  <2>5. CASE ~Done(W[k])
    <3>1. PICK l \in ls : l.src \in W[k] /\ l.next \notin avoid /\ l.next \notin W[k]
      BY <2>5
    <3>2. l \in Inner(W[k + 1]) /\ l \notin Inner(W[k]) /\ Inner(W[k]) \subseteq Inner(W[k + 1])
      BY <2>1, <3>1 DEF Spread
    <3> HIDE DEF Inner, Done
    <3>3. Cardinality(Inner(W[k]) \cup {l}) = Cardinality(Inner(W[k])) + 1
      BY <1>4, <3>2, FS_AddElement
    <3>4. Inner(W[k]) \cup {l} \in SUBSET Inner(W[k + 1])
      BY <3>2
    <3>5. Cardinality(Inner(W[k]) \cup {l}) <= Cardinality(Inner(W[k + 1]))
      BY <1>4, <3>4, FS_Subset
    <3>6. Cardinality(Inner(W[k + 1])) >= k + 1
      BY <1>4, <2>2, <2>5, <3>3, <3>5
    <3> QED
      BY <2>3, <3>6
  <2> QED
    BY <2>4, <2>5
<1>7. n \in T
  <2> HIDE DEF T
  <2> QED
    BY <1>2, <1>5, <1>6, SetInduction
<1>8. {s} \ avoid \subseteq W[n] /\ (Done(W[n]) \/ Cardinality(Inner(W[n])) >= n)
  BY <1>2, <1>7
<1>9. CASE Cardinality(Inner(W[n])) >= n
  <2>1. Inner(W[n]) = ls
    <3> HIDE DEF Inner
    <3>1. Cardinality(Inner(W[n])) <= n
      BY <1>4, FS_Subset
    <3>2. Cardinality(Inner(W[n])) = n
      BY <1>2, <1>4, <1>9, <3>1
    <3> QED
      BY <1>4, <3>2, FS_Subset
  <2>2. \A l \in ls : l.next \in W[n]
    BY <2>1
  <2> QED
    BY <1>1, <1>8, <2>2
<1>10. CASE Done(W[n])
  BY <1>1, <1>8, <1>10
<1> QED
  BY <1>8, <1>9, <1>10

\* What v has, and each of its routes that has not come to a goal with a link to a node
\* that is new to it.
Grown(ls, s, gs, avoid, v) ==
  v \cup UNION {{Append(r, l) : l \in {m \in ls : /\ m.src = RouteEnd(r, s)
                                                 /\ m.next \notin avoid \cup ({s} \cup {r[i].next : i \in DOMAIN r})}} :
                r \in {q \in v : RouteEnd(q, s) \notin gs}}

\* W is that, from the empty route on, and the routes are those that end at a goal.
GrowsTo(W, n, ls, s, gs, avoid) ==
  /\ \A r : r \in Oracle!Routes(ls, s, gs, avoid) <=> r \in W[n] /\ RouteEnd(r, s) \in gs
  /\ W[0] = {<<>>}
  /\ \A k \in 1..n : W[k] = Grown(ls, s, gs, avoid, W[k - 1])

\* Routes is reached by as many steps as there are links.
LEMMA RoutesIterate ==
  ASSUME NEW ls, IsFiniteSet(ls), NEW s, NEW gs, NEW avoid, s \notin avoid
  PROVE  \E W : GrowsTo(W, Cardinality(ls), ls, s, gs, avoid)
<1> DEFINE n == Cardinality(ls)
           D == SUBSET Seq(ls)
           first == {<<>>}
           Visited(r) == {s} \cup {r[i].next : i \in DOMAIN r}
           Extend(rs) == UNION {{Append(r, l) : l \in {m \in ls : /\ m.src = RouteEnd(r, s)
                                                                 /\ m.next \notin avoid \cup Visited(r)}} :
                                r \in {q \in rs : RouteEnd(q, s) \notin gs}}
           F(v) == v \cup Extend(v)
           G == [v \in D |-> F(v)]
           W == CHOOSE w : w = [k \in 0..n |-> IF k = 0 THEN first ELSE F(w[k - 1])]
<1>1. Oracle!Routes(ls, s, gs, avoid) = {r \in W[n] : RouteEnd(r, s) \in gs}
  BY SameCardinality DEF Oracle!Routes, RouteEnd
<1>2. n \in Nat
  BY FS_CardinalityType
<1>3. first \in D /\ \A v \in D : F(v) \in D
  <2>1. ASSUME NEW v \in D, NEW x \in Extend(v) PROVE x \in Seq(ls)
    <3>1. \E r \in v, l \in ls : x = Append(r, l)
      BY <2>1
    <3> HIDE DEF Extend
    <3> QED
      BY <3>1
  <2> HIDE DEF Extend
  <2> QED
    BY <2>1
<1>4. \A v : F(v) = Grown(ls, s, gs, avoid, v)
  BY DEF Grown
<1> HIDE DEF n, D, first, F, W
<1>5. G \in [D -> D] /\ \A v \in D : G[v] = F(v)
  BY <1>3
<1> HIDE DEF G
<1>6. PICK f : Iterates(f, D, first, G, n)
  BY <1>2, <1>3, <1>5, Iteration
<1>7. f \in [0..n -> D] /\ f[0] = first /\ \A k \in 1..n : f[k] = F(f[k - 1])
  <2>1. f \in [0..n -> D] /\ f[0] = first /\ \A k \in 1..n : f[k] = G[f[k - 1]]
    BY <1>6 DEF Iterates
  <2>2. \A k \in 1..n : f[k - 1] \in D
    BY <1>2, <2>1
  <2> QED
    BY <1>5, <2>1, <2>2
<1>8. f = [k \in 0..n |-> IF k = 0 THEN first ELSE F(f[k - 1])]
  BY <1>2, <1>7
<1>9. W = [k \in 0..n |-> IF k = 0 THEN first ELSE F(W[k - 1])]
  BY <1>8 DEF W
<1>10. W[0] = first /\ \A k \in 1..n : W[k] = F(W[k - 1])
  BY <1>2, <1>9
<1>11. \A r : r \in Oracle!Routes(ls, s, gs, avoid) <=> r \in W[n] /\ RouteEnd(r, s) \in gs
  BY <1>1
<1> QED
  BY <1>4, <1>10, <1>11 DEF n, first, GrowsTo

\* A search that starts on a marked node has no routes.
LEMMA NoRoutesFromMarked ==
  ASSUME NEW ls, NEW s, NEW gs, NEW avoid, s \in avoid
  PROVE  Oracle!Routes(ls, s, gs, avoid) = {}
  BY DEF Oracle!Routes

\* What holds of the empty route, and of a route with a link more when it holds of the
\* route, holds of all routes.
LEMMA RoutesInduction ==
  ASSUME NEW ls, IsFiniteSet(ls), NEW s, NEW gs, NEW avoid, s \notin avoid,
         NEW M, M \subseteq Seq(ls), <<>> \in M,
         \A r \in M, l \in ls : l.src = RouteEnd(r, s) /\ l.next \notin avoid => Append(r, l) \in M
  PROVE  Oracle!Routes(ls, s, gs, avoid) \subseteq {r \in M : RouteEnd(r, s) \in gs}
<1> DEFINE n == Cardinality(ls)
           D == SUBSET M
<1> PICK W : GrowsTo(W, n, ls, s, gs, avoid)
  BY RoutesIterate
<1>1. /\ \A r : r \in Oracle!Routes(ls, s, gs, avoid) <=> r \in W[n] /\ RouteEnd(r, s) \in gs
      /\ W[0] = {<<>>}
      /\ \A k \in 1..n : W[k] = Grown(ls, s, gs, avoid, W[k - 1])
  BY DEF GrowsTo
<1>2. n \in Nat
  BY FS_CardinalityType
<1>3. {<<>>} \in D /\ \A v \in D : Grown(ls, s, gs, avoid, v) \in D
  <2>1. ASSUME NEW v \in D, NEW x \in Grown(ls, s, gs, avoid, v), x \notin v PROVE x \in M
    <3>1. \E r \in v, l \in ls : l.src = RouteEnd(r, s) /\ l.next \notin avoid /\ x = Append(r, l)
      BY <2>1 DEF Grown
    <3> QED
      BY <3>1
  <2> QED
    BY <2>1
<1> HIDE DEF n, D
<1>4. W[0] \in D /\ \A k \in 1..n : W[k - 1] \in D => W[k] \in D
  BY <1>1, <1>3
<1>5. \A k \in 0..n : W[k] \in D
  BY <1>2, <1>4, IterationStays
<1> QED
  BY <1>1, <1>2, <1>5 DEF D

\* A route that never comes to the same node twice, nor to a marked one, nor to a goal
\* before its end.
Direct(r, s, gs, avoid) ==
  /\ \A i \in 1..Len(r) : r[i].next \notin avoid /\ r[i].next # s
  /\ \A i, j \in 1..Len(r) : r[i].next = r[j].next => i = j
  /\ r # <<>> => s \notin gs
  /\ \A i \in 1..Len(r) - 1 : r[i].next \notin gs

\* Such a route is one of Routes.
LEMMA DirectIsRoute ==
  ASSUME NEW ls, IsFiniteSet(ls), NEW s, NEW gs, NEW avoid, s \notin avoid,
         NEW r, Connected(r, ls, s), RouteEnd(r, s) \in gs, Direct(r, s, gs, avoid)
  PROVE  r \in Oracle!Routes(ls, s, gs, avoid)
<1> DEFINE n == Cardinality(ls)
<1> PICK W : GrowsTo(W, n, ls, s, gs, avoid)
  BY RoutesIterate
<1>1. /\ \A q : q \in Oracle!Routes(ls, s, gs, avoid) <=> q \in W[n] /\ RouteEnd(q, s) \in gs
      /\ W[0] = {<<>>}
      /\ \A k \in 1..n : W[k] = Grown(ls, s, gs, avoid, W[k - 1])
  BY DEF GrowsTo
<1>2. n \in Nat
  BY FS_CardinalityType
<1>3. r \in Seq(ls) /\ Len(r) \in Nat
  BY DEF Connected
<1>4. Len(r) <= n
  <2> DEFINE f == [i \in 1..Len(r) |-> r[i]]
  <2>1. f \in [1..Len(r) -> ls] /\ \A i, j \in 1..Len(r) : f[i] = f[j] => i = j
    BY <1>3 DEF Direct
  <2> HIDE DEF f
  <2>2. f \in Injection(1..Len(r), ls)
    BY <2>1 DEF Injection, IsInjective
  <2>3. Cardinality(1..Len(r)) <= n
    BY <2>2, FS_Injection
  <2> QED
    <3>1. Cardinality(1..Len(r)) = IF 1 > Len(r) THEN 0 ELSE Len(r) - 1 + 1
      <4>1. 1 \in Int /\ Len(r) \in Int
        BY <1>3
      <4> QED
        BY ONLY <4>1, FS_Interval
    <3> QED
      BY <1>3, <2>3, <3>1
<1> DEFINE P(k) == SubSeq(r, 1, k)
           T == {k \in Nat : k <= n => P(IF k <= Len(r) THEN k ELSE Len(r)) \in W[k]}
<1>5. 0 \in T
  <2>1. P(0) = <<>>
    BY <1>3
  <2>2. (IF 0 <= Len(r) THEN 0 ELSE Len(r)) = 0
    BY <1>3
  <2> HIDE DEF P
  <2> QED
    BY <1>1, <2>1, <2>2
<1>6. ASSUME NEW k \in Nat, k \in T PROVE k + 1 \in T
  <2> SUFFICES ASSUME k + 1 <= n
               PROVE  P(IF k + 1 <= Len(r) THEN k + 1 ELSE Len(r)) \in W[k + 1]
    OBVIOUS
  <2>1. W[k + 1] = Grown(ls, s, gs, avoid, W[k])
    <3>1. k + 1 \in 1..n /\ (k + 1) - 1 = k
      BY <1>2
    <3> QED
      BY <1>1, <3>1
  <2>2. CASE k + 1 > Len(r)
    <3>1. P(Len(r)) \in W[k]
      BY <1>2, <1>3, <1>6, <2>2
    <3> QED
      BY <1>3, <2>1, <2>2, <3>1 DEF Grown
  <2>3. CASE k + 1 <= Len(r)
    <3> DEFINE q == P(k)
               l == r[k + 1]
    <3>1. P(k) \in W[k]
      BY <1>2, <1>3, <1>6, <2>3
    <3>2. q \in Seq(ls) /\ Len(q) = k /\ \A i \in 1..k : q[i] = r[i]
      BY <1>3, <2>3
    <3>3. l \in ls
      BY <1>3, <2>3
    <3>4. P(k + 1) = Append(q, l)
      BY <1>3, <2>3
    <3>5. l.src = RouteEnd(q, s) /\ RouteEnd(q, s) \notin gs
      <4>1. CASE k = 0
        <5>1. q = <<>> /\ r # <<>>
          BY <1>3, <2>3, <3>2, <4>1
        <5> QED
          BY <4>1, <5>1 DEF Connected, RouteEnd, Direct
      <4>2. CASE k # 0
        <5>1. q # <<>> /\ q[Len(q)] = r[k] /\ k \in 1..Len(r) - 1
          BY <1>3, <2>3, <3>2, <4>2
        <5>2. r[k].next = r[k + 1].src /\ r[k].next \notin gs
          BY <5>1 DEF Connected, Direct
        <5> QED
          BY <5>1, <5>2 DEF RouteEnd
      <4> QED
        BY <4>1, <4>2
    <3>6. l.next \notin avoid \cup ({s} \cup {q[i].next : i \in DOMAIN q})
      <4>1. k + 1 \in 1..Len(r) /\ DOMAIN q = 1..k
        BY <1>3, <2>3, <3>2
      <4>2. \A i \in 1..k : q[i].next # l.next
        <5>1. \A i \in 1..k : i \in 1..Len(r) /\ i # k + 1
          BY <1>3, <2>3
        <5> QED
          BY <3>2, <4>1, <5>1 DEF Direct
      <4> QED
        BY <4>1, <4>2 DEF Direct
    <3> HIDE DEF P, q, l
    <3>7. Append(q, l) \in Grown(ls, s, gs, avoid, W[k])
      BY <3>1, <3>3, <3>5, <3>6 DEF Grown, q
    <3> QED
      BY <2>1, <2>3, <3>4, <3>7
  <2> QED
    BY <1>3, <2>2, <2>3
<1>7. n \in T
  <2> HIDE DEF T
  <2> QED
    BY <1>2, <1>5, <1>6, SetInduction
<1>8. P(Len(r)) \in W[n]
  BY <1>2, <1>3, <1>4, <1>7
<1>9. P(Len(r)) = r
  BY <1>3
<1> QED
  BY <1>1, <1>8, <1>9

\* A sequence of links whose costs are numbers.
Priced(r) == r \in Seq(Oracle!Link) /\ \A i \in 1..Len(r) : r[i].cost \in Nat

\* B has what the first links of r cost, for each number of them.
Sums(B, r) == B[0] = 0 /\ \A k \in 1..Len(r) : B[k] = B[k - 1] + r[k].cost

\* There are such sums, and the cost of a route is the last of them.
LEMMA CostIsSum ==
  ASSUME NEW r, Priced(r)
  PROVE  \E B \in [0..Len(r) -> Nat] : Sums(B, r) /\ Oracle!RouteCost(r) = B[Len(r)]
<1> DEFINE n == Len(r)
           T == {m \in Nat : m <= n => \E B \in [0..m -> Nat] :
                                         B[0] = 0 /\ \A k \in 1..m : B[k] = B[k - 1] + r[k].cost}
<1>1. n \in Nat /\ \A i \in 1..n : r[i].cost \in Nat
  BY DEF Priced
<1> HIDE DEF n
<1>2. 0 \in T
  <2> DEFINE B == [k \in 0..0 |-> 0]
  <2>1. B \in [0..0 -> Nat] /\ B[0] = 0
    OBVIOUS
  <2>2. \A k \in 1..0 : FALSE
    OBVIOUS
  <2> HIDE DEF B
  <2> QED
    BY <2>1, <2>2
<1>3. ASSUME NEW m \in Nat, m \in T PROVE m + 1 \in T
  <2> SUFFICES ASSUME m + 1 <= n
               PROVE  \E B \in [0..m + 1 -> Nat] :
                        B[0] = 0 /\ \A k \in 1..m + 1 : B[k] = B[k - 1] + r[k].cost
    OBVIOUS
  <2>1. PICK B \in [0..m -> Nat] : B[0] = 0 /\ \A k \in 1..m : B[k] = B[k - 1] + r[k].cost
    <3>1. m <= n
      BY <1>1
    <3> QED
      BY <1>3, <3>1, Zenon
  <2> DEFINE b == B[m] + r[m + 1].cost
             A == [k \in 0..m + 1 |-> IF k = m + 1 THEN b ELSE B[k]]
  <2>2. b \in Nat
    BY <1>1
  <2>3. A \in [0..m + 1 -> Nat] /\ A[0] = 0
    BY <2>1, <2>2
  <2>4. ASSUME NEW k \in 1..m + 1 PROVE A[k] = A[k - 1] + r[k].cost
    <3>1. CASE k = m + 1
      <4>1. A[k] = b /\ A[k - 1] = B[m]
        BY <3>1
      <4> QED
        BY <3>1, <4>1
    <3>2. CASE k # m + 1
      <4>1. k \in 1..m /\ A[k] = B[k] /\ A[k - 1] = B[k - 1]
        BY <3>2
      <4> QED
        BY <2>1, <4>1
    <3> QED
      BY <3>1, <3>2
  <2> HIDE DEF A
  <2> QED
    BY <2>3, <2>4
<1>4. n \in T
  <2> HIDE DEF T
  <2> QED
    BY <1>1, <1>2, <1>3, SetInduction
<1>5. PICK B \in [0..n -> Nat] : B[0] = 0 /\ \A k \in 1..n : B[k] = B[k - 1] + r[k].cost
  BY <1>1, <1>4
<1> DEFINE C == CHOOSE c : c = [i \in 0..n |-> IF i = 0 THEN 0 ELSE c[i - 1] + r[i].cost]
<1>6. Oracle!RouteCost(r) = C[n]
  BY DEF Oracle!RouteCost, n
<1> HIDE DEF C
<1>7. B = [i \in 0..n |-> IF i = 0 THEN 0 ELSE B[i - 1] + r[i].cost]
  BY <1>1, <1>5
<1>8. C = [i \in 0..n |-> IF i = 0 THEN 0 ELSE C[i - 1] + r[i].cost]
  BY <1>7 DEF C
<1>9. C[0] = 0 /\ \A k \in 1..n : C[k] = C[k - 1] + r[k].cost
  BY <1>1, <1>8
<1>10. \A k \in 0..n : C[k] \in Nat
  <2>1. ASSUME NEW k \in 1..n, C[k - 1] \in Nat PROVE C[k] \in Nat
    <3>1. C[k] = C[k - 1] + r[k].cost /\ r[k].cost \in Nat
      BY <1>1, <1>9
    <3> QED
      BY <2>1, <3>1
  <2>2. C[0] \in Nat
    BY <1>9
  <2> QED
    BY <1>1, <2>1, <2>2, IterationStays
<1>11. C \in [0..n -> Nat]
  <2>1. C = [i \in 0..n |-> C[i]]
    BY <1>8
  <2> QED
    BY <1>10, <2>1
<1> QED
  BY <1>6, <1>9, <1>11 DEF n, Sums

\* There are no others.
LEMMA SumIsCost ==
  ASSUME NEW r, Priced(r), NEW A, Sums(A, r)
  PROVE  Oracle!RouteCost(r) = A[Len(r)]
<1>1. PICK B \in [0..Len(r) -> Nat] : Sums(B, r) /\ Oracle!RouteCost(r) = B[Len(r)]
  BY CostIsSum
<1> DEFINE n == Len(r)
           T == {k \in Nat : k <= n => A[k] = B[k]}
<1>2. n \in Nat
  BY DEF Priced
<1>3. /\ A[0] = 0 /\ \A k \in 1..n : A[k] = A[k - 1] + r[k].cost
      /\ B[0] = 0 /\ \A k \in 1..n : B[k] = B[k - 1] + r[k].cost
  BY <1>1 DEF Sums
<1> HIDE DEF n
<1>4. 0 \in T
  BY <1>3
<1>5. ASSUME NEW k \in Nat, k \in T PROVE k + 1 \in T
  <2> SUFFICES ASSUME k + 1 <= n PROVE A[k + 1] = B[k + 1]
    OBVIOUS
  <2>1. k + 1 \in 1..n /\ (k + 1) - 1 = k /\ A[k] = B[k]
    BY <1>2, <1>5
  <2> QED
    BY <1>3, <2>1
<1>6. n \in T
  <2> HIDE DEF T
  <2> QED
    BY <1>2, <1>4, <1>5, SetInduction
<1> QED
  BY <1>1, <1>2, <1>6 DEF n

\* The empty route costs nothing, and a link adds its cost.
LEMMA CostOfRoutes ==
  /\ Priced(<<>>) /\ Oracle!RouteCost(<<>>) = 0
  /\ \A r, l : Priced(r) /\ l \in Oracle!Link /\ l.cost \in Nat =>
       /\ Priced(Append(r, l))
       /\ Oracle!RouteCost(r) \in Nat
       /\ Oracle!RouteCost(Append(r, l)) = Oracle!RouteCost(r) + l.cost
<1>1. Priced(<<>>) /\ Oracle!RouteCost(<<>>) = 0
  <2>1. Priced(<<>>) /\ Len(<<>>) = 0
    BY DEF Priced
  <2>2. PICK B \in [0..0 -> Nat] : Sums(B, <<>>) /\ Oracle!RouteCost(<<>>) = B[0]
    BY <2>1, CostIsSum
  <2> QED
    BY <2>1, <2>2 DEF Sums
<1>2. ASSUME NEW r, NEW l, Priced(r), l \in Oracle!Link, l.cost \in Nat
      PROVE  /\ Priced(Append(r, l))
             /\ Oracle!RouteCost(r) \in Nat
             /\ Oracle!RouteCost(Append(r, l)) = Oracle!RouteCost(r) + l.cost
  <2> DEFINE n == Len(r)
             q == Append(r, l)
  <2>1. n \in Nat /\ r \in Seq(Oracle!Link) /\ \A i \in 1..n : r[i].cost \in Nat
    BY <1>2 DEF Priced
  <2>2. /\ q \in Seq(Oracle!Link) /\ Len(q) = n + 1
        /\ q[n + 1] = l /\ \A i \in 1..n : q[i] = r[i]
    BY <1>2, <2>1
  <2>3. PICK B \in [0..n -> Nat] : Sums(B, r) /\ Oracle!RouteCost(r) = B[n]
    BY <1>2, CostIsSum
  <2>4. B[0] = 0 /\ (\A k \in 1..n : B[k] = B[k - 1] + r[k].cost) /\ B[n] \in Nat
    BY <2>1, <2>3 DEF Sums
  <2> HIDE DEF n, q
  <2>5. Priced(q)
    <3> SUFFICES ASSUME NEW i \in 1..n + 1 PROVE q[i].cost \in Nat
      BY <2>2 DEF Priced
    <3>1. CASE i = n + 1
      BY <1>2, <2>2, <3>1
    <3>2. CASE i # n + 1
      <4>1. i \in 1..n
        BY <2>1, <3>2
      <4> QED
        BY <2>1, <2>2, <4>1
    <3> QED
      BY <3>1, <3>2
  <2> DEFINE A == [k \in 0..n + 1 |-> IF k = n + 1 THEN B[n] + l.cost ELSE B[k]]
  <2>6. A[0] = 0 /\ A[n + 1] = B[n] + l.cost
    BY <2>1, <2>4
  <2>7. ASSUME NEW k \in 1..n + 1 PROVE A[k] = A[k - 1] + q[k].cost
    <3>1. CASE k = n + 1
      <4>1. A[k - 1] = B[n]
        BY <2>1, <3>1
      <4> QED
        BY <2>2, <2>6, <3>1, <4>1
    <3>2. CASE k # n + 1
      <4>1. k \in 1..n /\ A[k] = B[k] /\ A[k - 1] = B[k - 1]
        BY <2>1, <3>2
      <4> QED
        BY <2>2, <2>4, <4>1
    <3> QED
      BY <3>1, <3>2
  <2> HIDE DEF A
  <2>8. Sums(A, q)
    BY <2>2, <2>6, <2>7 DEF Sums
  <2>9. Oracle!RouteCost(q) = A[n + 1]
    BY <2>2, <2>5, <2>8, SumIsCost
  <2> QED
    BY <2>3, <2>4, <2>5, <2>6, <2>9 DEF q
<1> QED
  BY <1>1, <1>2
------------------------------------------------------------------------------
(* A search settles nodes in the order of their costs *)

Searching == phase \in {"next", "calc", "back"}

\* An edge that has been looked at: its target is reached, and costs no more than by it,
\* unless it was marked before.
Slack(n, e) ==
  /\ e.next \in Reached
  /\ e.next \in stale \/ label[e.next].cost <= label[n].cost + e.cost

\* There are finitely many links, and a search has a goal.
LinksOK == IsFiniteSet(Links)
AskedOK == Searching => goals # {}

\* A node costs what the node that it hangs on costs and the edge.
SumsOK ==
  Searching => \A n \in Mine : n # start =>
                 label[n].cost = label[label[n].prev].cost + label[n].via.cost

\* No open node is cheaper than one that this search has settled.
OrderOK ==
  Searching => \A n \in Settled \ stale, m \in Open : label[n].cost <= label[m].cost

\* All edges of what this search has settled have been looked at.
RelaxedOK ==
  Searching => \A n \in Settled \ stale : n \notin goals /\ \A e \in OutEdges(n) : Slack(n, e)

\* The node at hand is a cheapest one, and so is the goal that a search has come to.
HandOK ==
  phase = "calc" =>
    /\ \A m \in Open : label[cur].cost <= label[m].cost
    /\ \A e \in OutEdges(cur) : Slack(cur, e) \/ \E i \in 1..Len(todo) : todo[i] = e

Goal == IF ret = <<>> THEN cur ELSE ret[Len(ret)]

GoalOK ==
  phase = "back" =>
    /\ Goal \in Open \cap goals
    /\ \A m \in Open : label[Goal].cost <= label[m].cost
    /\ \A i \in 1..Len(ret) : via[i] = label[ret[i]].via

CostInv == LinksOK /\ AskedOK /\ SumsOK /\ OrderOK /\ RelaxedOK /\ HandOK /\ GoalOK

\* What is reached has a cost, and what is settled is reached.
LEMMA ReachedCosts ==
  ASSUME IInv
  PROVE  /\ Reached \subseteq Names /\ Settled \subseteq Reached
         /\ \A n \in Reached : label[n].cost \in Nat
         /\ Open \subseteq Reached /\ Mine \subseteq Reached
         /\ \A n \in Open : ~label[n].done
<1>1. nodes \subseteq Names /\ label \in [Names -> Label]
  BY DEF IInv, TypeOK
<1>2. \A n \in Reached : label[n].cost \in Nat
  BY <1>1 DEF Reached, Label
<1>3. Settled \subseteq Reached
  BY <1>1 DEF IInv, AbsentOK, Settled, Reached
<1> QED
  BY <1>1, <1>2, <1>3 DEF Open, Mine, Reached, Settled

\* The links change with the edges only.
LEMMA LinksStay ==
  ASSUME UNCHANGED edges
  PROVE  Links' = Links /\ \A n : OutEdges(n)' = OutEdges(n)
  BY DEF Links, OutEdges

\* Add makes one link.
LEMMA LinksAfterAdd ==
  ASSUME TypeOK, NEW src \in Names, NEW dst \in Names, NEW name \in EdgeNames,
         NEW c \in Costs, AddEdge(src, dst, name, c)
  PROVE  Links' = Links \cup {[src |-> src, name |-> name, next |-> dst, cost |-> c]}
<1> DEFINE e == [name |-> name, next |-> dst, cost |-> c]
<1>1. edges \in [Names -> Seq(Edge)] /\ e \in Edge
  BY DEF TypeOK, Edge
<1>2. edges' = [edges EXCEPT ![src] = Append(edges[src], e)]
  BY DEF AddEdge
<1>3. LinkOf(src, e) = [src |-> src, name |-> name, next |-> dst, cost |-> c]
  BY DEF LinkOf
<1> HIDE DEF e
<1>4. OutEdges(src)' = OutEdges(src) \cup {e}
  <2>1. edges[src] \in Seq(Edge) /\ edges'[src] = Append(edges[src], e)
    BY <1>1, <1>2
  <2>2. /\ DOMAIN edges[src] = 1..Len(edges[src]) /\ Len(edges[src]) \in Nat
        /\ DOMAIN edges'[src] = 1..Len(edges[src]) + 1
        /\ edges'[src][Len(edges[src]) + 1] = e
        /\ \A i \in 1..Len(edges[src]) : edges'[src][i] = edges[src][i]
    BY <1>1, <2>1
  <2>3. \A x \in OutEdges(src)' : x = e \/ x \in OutEdges(src)
    <3> SUFFICES ASSUME NEW i \in 1..Len(edges[src]) + 1
                 PROVE  edges'[src][i] = e \/ edges'[src][i] \in OutEdges(src)
      BY <2>2 DEF OutEdges
    <3>1. CASE i = Len(edges[src]) + 1
      BY <2>2, <3>1
    <3>2. CASE i # Len(edges[src]) + 1
      <4>1. i \in 1..Len(edges[src])
        BY <2>2, <3>2
      <4> QED
        BY <2>2, <4>1 DEF OutEdges
    <3> QED
      BY <3>1, <3>2
  <2>4. \A x \in OutEdges(src) : x \in OutEdges(src)'
    <3> SUFFICES ASSUME NEW i \in 1..Len(edges[src]) PROVE edges[src][i] \in OutEdges(src)'
      BY <2>2 DEF OutEdges
    <3>1. i \in DOMAIN edges'[src] /\ edges'[src][i] = edges[src][i]
      BY <2>2
    <3> QED
      BY <3>1 DEF OutEdges
  <2>5. e \in OutEdges(src)'
    <3>1. Len(edges[src]) + 1 \in DOMAIN edges'[src]
      BY <2>2
    <3> QED
      BY <2>2, <3>1 DEF OutEdges
  <2> QED
    BY <2>3, <2>4, <2>5
<1>5. \A n \in Names \ {src} : OutEdges(n)' = OutEdges(n)
  BY <1>1, <1>2 DEF OutEdges
<1>6. \A l \in Links' : l \in Links \/ l = LinkOf(src, e)
  BY <1>4, <1>5 DEF Links
<1>7. \A l \in Links : l \in Links'
  BY <1>4, <1>5 DEF Links
<1>8. LinkOf(src, e) \in Links'
  BY <1>4 DEF Links
<1> QED
  BY <1>3, <1>6, <1>7, <1>8

\* A new search has settled nothing, and reached one node.
LEMMA CostSearchBegins ==
  ASSUME IInv, CostInv, NEW s \in Names, NEW gs \in (SUBSET Names) \ {{}}, Search(s, gs)
  PROVE  CostInv'
<1>1. /\ phase = "idle" /\ Open = {} /\ start' = s /\ goals' = gs /\ stale' = Settled
      /\ UNCHANGED <<nodes, edges>> /\ label \in [Names -> Label] /\ nodes \subseteq Names
      /\ phase' \in {"next", "panic"}
      /\ phase' = "next" => label' = [label EXCEPT ![s].cost = 0]
  BY DEF Search, graph, IInv, RestOK, TypeOK
<1>2. LinksOK'
  BY <1>1, LinksStay DEF CostInv, LinksOK
<1>3. ASSUME phase' = "next" PROVE Settled' \ stale' = {} /\ Mine' \subseteq {s}
  <2>1. \A n \in Names : label'[n].done = label[n].done
    BY <1>1, <1>3 DEF Label
  <2>2. \A n \in Names \ {s} : label'[n] = label[n]
    BY <1>1, <1>3
  <2>3. Settled' = Settled
    BY <1>1, <2>1 DEF Settled
  <2>4. ASSUME NEW n \in Mine', n # s PROVE FALSE
    <3>1. n \in nodes /\ n \in Names /\ label'[n].cost # -1 /\ n \notin Settled
      BY <1>1, <2>4 DEF Mine, Reached
    <3>2. n \in Open
      BY <2>2, <2>4, <3>1 DEF Open, Reached
    <3> QED
      BY <1>1, <3>2
  <2> QED
    BY <1>1, <2>3, <2>4
<1>4. AskedOK'
  BY <1>1 DEF AskedOK
<1>5. SumsOK' /\ OrderOK'
  BY <1>1, <1>3 DEF SumsOK, OrderOK, Searching
<1>6. RelaxedOK'
  <2>1. CASE phase' = "panic"
    BY <2>1 DEF RelaxedOK, Searching
  <2>2. CASE phase' = "next"
    BY <1>3, <2>2 DEF RelaxedOK
  <2> QED
    BY <1>1, <2>1, <2>2
<1> QED
  BY <1>1, <1>2, <1>4, <1>5, <1>6 DEF CostInv, HandOK, GoalOK

\* The next node is a cheapest one; no label changes.
LEMMA CostNextNode ==
  ASSUME IInv, CostInv, NextNode
  PROVE  CostInv'
<1>1. /\ phase = "next" /\ ret = <<>>
      /\ UNCHANGED <<nodes, edges, label, start, goals, stale, ret, via>>
  BY DEF NextNode, graph, query, IInv, RestOK
<1>2. /\ Settled' = Settled /\ Reached' = Reached /\ Open' = Open /\ Mine' = Mine
      /\ Links' = Links /\ \A n : OutEdges(n)' = OutEdges(n)
  BY <1>1, LinksStay DEF Settled, Reached, Open, Mine
<1>3. LinksOK' /\ AskedOK' /\ SumsOK'
  BY <1>1, <1>2 DEF CostInv, LinksOK, AskedOK, SumsOK, Searching
<1>4. OrderOK'
  BY <1>1, <1>2 DEF CostInv, OrderOK, Searching
<1>5. RelaxedOK'
  BY <1>1, <1>2 DEF CostInv, RelaxedOK, Searching, Slack
<1>6. CASE phase' = "notFound"
  BY <1>3, <1>4, <1>5, <1>6 DEF CostInv, HandOK, GoalOK
<1>7. ASSUME NEW n \in Cheapest, cur' = n, n \in goals, phase' = "back"
      PROVE  CostInv'
  <2>1. Goal' = n /\ Len(ret') = 0 /\ n \in Open
    BY <1>1, <1>7 DEF Goal, Cheapest
  <2>2. GoalOK'
    BY <1>1, <1>2, <1>7, <2>1 DEF GoalOK, Cheapest
  <2> QED
    BY <1>3, <1>4, <1>5, <1>7, <2>2 DEF CostInv, HandOK
<1>8. ASSUME NEW n \in Cheapest, cur' = n, phase' = "calc", todo' = edges[n]
      PROVE  CostInv'
  <2>1. n \in Names /\ edges[n] \in Seq(Edge)
    BY ReachedCosts DEF Cheapest, IInv, TypeOK
  <2>2. \A e \in OutEdges(n) : \E i \in 1..Len(edges[n]) : edges[n][i] = e
    BY <2>1 DEF OutEdges
  <2>3. HandOK'
    BY <1>1, <1>2, <1>8, <2>2 DEF HandOK, Cheapest
  <2> QED
    BY <1>3, <1>4, <1>5, <1>8, <2>3 DEF CostInv, GoalOK
<1> QED
  BY <1>6, <1>7, <1>8 DEF NextNode

\* A node that is settled is no dearer than what stays open, and its edges have been
\* looked at.
LEMMA CostSettle ==
  ASSUME IInv, CostInv, Settle
  PROVE  CostInv'
<1>1. /\ phase = "calc" /\ phase' = "next" /\ todo = <<>>
      /\ UNCHANGED <<nodes, edges, start, goals, stale>>
      /\ label \in [Names -> Label] /\ nodes \subseteq Names
      /\ label' = [label EXCEPT ![cur].done = TRUE]
  BY DEF Settle, graph, query, IInv, TypeOK
<1>2. \A n \in Names : /\ label'[n].cost = label[n].cost /\ label'[n].prev = label[n].prev
                       /\ label'[n].via = label[n].via
                       /\ label'[n].done = (label[n].done \/ n = cur)
  BY <1>1 DEF Label
<1>3. cur \in Open /\ cur \in Names /\ cur \in nodes /\ cur \notin goals /\ cur \notin Settled
  BY <1>1, ReachedCosts DEF IInv, CalcOK, Open, Reached
<1>4. /\ Reached' = Reached /\ Settled' = Settled \cup {cur} /\ Open' \subseteq Open
      /\ Mine' = Mine /\ Links' = Links /\ \A n : OutEdges(n)' = OutEdges(n)
  <2>1. Reached' = Reached /\ Settled' = Settled \cup {cur}
    BY <1>1, <1>2, <1>3 DEF Reached, Settled
  <2> QED
    BY <1>1, <2>1, LinksStay DEF Open, Mine
<1>5. LinksOK' /\ AskedOK'
  BY <1>1, <1>4 DEF CostInv, LinksOK, AskedOK, Searching
<1>6. SumsOK'
  <2> SUFFICES ASSUME NEW n \in Mine, n # start
               PROVE  label'[n].cost = label'[label'[n].prev].cost + label'[n].via.cost
    BY <1>1, <1>4 DEF SumsOK
  <2>1. n \in Names /\ label[n].prev \in Names
    BY <1>1, ReachedCosts DEF IInv, ParentsOK
  <2> QED
    BY <1>1, <1>2, <2>1 DEF CostInv, SumsOK, Searching
<1>7. OrderOK'
  <2> SUFFICES ASSUME NEW n \in Settled' \ stale', NEW m \in Open'
               PROVE  label'[n].cost <= label'[m].cost
    BY DEF OrderOK
  <2>1. n \in Names /\ m \in Names /\ m \in Open /\ (n \in Settled \ stale \/ n = cur)
    BY <1>1, <1>3, <1>4, ReachedCosts
  <2> QED
    BY <1>1, <1>2, <2>1 DEF CostInv, OrderOK, HandOK, Searching
<1>8. RelaxedOK'
  <2> SUFFICES ASSUME NEW n \in Settled' \ stale'
               PROVE  n \notin goals /\ \A e \in OutEdges(n) : Slack(n, e)'
    BY <1>1, <1>4 DEF RelaxedOK
  <2>1. n \in Names /\ (n \in Settled \ stale \/ n = cur)
    BY <1>1, <1>3, <1>4, ReachedCosts
  <2>2. n \notin goals /\ \A e \in OutEdges(n) : Slack(n, e)
    <3>1. CASE n = cur
      <4>1. \A i \in 1..Len(todo) : FALSE
        BY <1>1
      <4> QED
        BY <1>1, <1>3, <3>1, <4>1 DEF CostInv, HandOK
    <3>2. CASE n \in Settled \ stale
      BY <1>1, <3>2 DEF CostInv, RelaxedOK, Searching
    <3> QED
      BY <2>1, <3>1, <3>2
  <2>3. \A e \in OutEdges(n) : e.next \in Names
    BY <2>1, OutEdgesType DEF IInv
  <2> QED
    BY <1>1, <1>2, <1>4, <2>1, <2>2, <2>3 DEF Slack
<1> QED
  BY <1>1, <1>5, <1>6, <1>7, <1>8 DEF CostInv, HandOK, GoalOK

\* An edge that is cheaper than what was known makes its target cheaper, no cheaper than
\* what is at hand, and nothing else.
LEMMA CostRelaxes ==
  ASSUME IInv, CostInv, Calc, Improves(Head(todo))
  PROVE  LET x == Head(todo).next
             c == label[cur].cost + Head(todo).cost
         IN  /\ x # cur /\ x \in nodes /\ x \in Names /\ x \notin stale
             /\ label' = Relaxed(Head(todo))
             /\ label'[x].cost = c /\ label'[x].prev = cur /\ label'[x].via = Head(todo)
             /\ \A n \in Names \ {x} : label'[n] = label[n]
             /\ c \in Nat /\ label[cur].cost <= c
             /\ x \in Reached => c <= label[x].cost
             /\ Settled' = Settled /\ Reached' = Reached \cup {x} /\ Open' = Open \cup {x}
             /\ x \notin Settled
<1> DEFINE e == Head(todo)
           x == e.next
           c == label[cur].cost + e.cost
<1>1. /\ phase = "calc" /\ todo # <<>> /\ todo \in Seq(Edge)
      /\ UNCHANGED <<nodes, start, stale, cur>> /\ label \in [Names -> Label]
      /\ nodes \subseteq Names /\ stale \subseteq Settled
  BY DEF Calc, graph, query, IInv, TypeOK, ParentsOK
<1>2. cur \in Open /\ cur \in Names /\ label[cur].cost \in Nat
  BY <1>1, ReachedCosts DEF IInv, CalcOK
<1>3. e \in OutEdges(cur) /\ x \in Names /\ x \in nodes /\ e.cost \in Nat
  <2>1. e = todo[1] /\ 1 \in 1..Len(todo)
    BY <1>1, HeadTail
  <2> QED
    BY <1>1, <1>2, <2>1, OutEdgesType DEF IInv, CalcOK, GraphOK
<1>4. label' = Relaxed(e) /\ Improves(e)
  BY DEF Calc
<1>5. c \in Nat /\ label[cur].cost <= c
  BY <1>2, <1>3
<1>6. /\ label'[x].cost = c /\ label'[x].prev = cur /\ label'[x].via = e
      /\ label'[x].done = label[x].done
      /\ \A n \in Names \ {x} : label'[n] = label[n]
  BY <1>1, <1>3, <1>4 DEF Relaxed, Label
<1>7. ~label[x].done /\ (label[x].cost = -1 \/ c < label[x].cost)
  BY <1>4 DEF Improves
<1> HIDE DEF e, x, c
<1>8. x # cur
  BY <1>2, <1>5, <1>7, ReachedCosts
<1>9. x \in Reached => c <= label[x].cost
  <2> SUFFICES ASSUME x \in Reached PROVE c <= label[x].cost
    OBVIOUS
  <2>1. label[x].cost \in Nat /\ label[x].cost # -1
    BY ReachedCosts
  <2> QED
    BY <1>5, <1>7, <2>1
<1>10. x \notin Settled /\ x \notin stale
  BY <1>1, <1>7 DEF Settled
<1>11. Settled' = Settled
  BY <1>1, <1>3, <1>6 DEF Settled
<1>12. Reached' = Reached \cup {x}
  <2>1. c # -1
    BY <1>5
  <2> QED
    BY <1>1, <1>3, <1>6, <2>1 DEF Reached
<1>13. Open' = Open \cup {x}
  BY <1>10, <1>11, <1>12 DEF Open
<1> QED
  BY <1>3, <1>4, <1>5, <1>6, <1>8, <1>9, <1>10, <1>11, <1>12, <1>13 DEF e, x, c

\* calc looks at one edge of the node at hand.
LEMMA CostCalc ==
  ASSUME IInv, CostInv, Calc
  PROVE  CostInv'
<1> DEFINE e == Head(todo)
           x == e.next
           c == label[cur].cost + e.cost
<1>1. /\ phase = "calc" /\ phase' = "calc" /\ todo # <<>> /\ todo \in Seq(Edge)
      /\ UNCHANGED <<nodes, edges, start, goals, stale, cur>> /\ label \in [Names -> Label]
      /\ nodes \subseteq Names /\ stale \subseteq Settled
  BY DEF Calc, graph, query, IInv, TypeOK, ParentsOK
<1>2. /\ cur \in Open /\ cur \in Names /\ label[cur].cost \in Nat
      /\ cur \in Reached /\ cur \notin Settled
  BY <1>1, ReachedCosts DEF IInv, CalcOK, Open
<1>3. e \in OutEdges(cur) /\ x \in Names /\ x \in nodes /\ e.cost \in Nat
  <2>1. e = todo[1] /\ 1 \in 1..Len(todo)
    BY <1>1, HeadTail
  <2> QED
    BY <1>1, <1>2, <2>1, OutEdgesType DEF IInv, CalcOK, GraphOK
<1>4. /\ todo' \in Seq(Edge) /\ e = todo[1] /\ Len(todo) \in Nat /\ Len(todo') = Len(todo) - 1
      /\ \A i \in 1..Len(todo') : todo'[i] = todo[i + 1]
  BY <1>1, HeadTail DEF Calc
<1>5. \A y : (\E i \in 1..Len(todo) : todo[i] = y) => y = e \/ \E i \in 1..Len(todo') : todo'[i] = y
  <2> SUFFICES ASSUME NEW i \in 1..Len(todo), todo[i] # e
               PROVE  \E k \in 1..Len(todo') : todo'[k] = todo[i]
    OBVIOUS
  <2>1. i # 1
    BY <1>4
  <2>2. i - 1 \in 1..Len(todo') /\ (i - 1) + 1 = i
    BY <1>4, <2>1
  <2> QED
    BY <1>4, <2>2
<1>6. Links' = Links /\ \A n : OutEdges(n)' = OutEdges(n)
  BY <1>1, LinksStay
<1>7. LinksOK' /\ AskedOK'
  BY <1>1, <1>6 DEF CostInv, LinksOK, AskedOK, Searching
<1>8. /\ \A n \in Mine : n # start => label[n].cost = label[label[n].prev].cost + label[n].via.cost
      /\ \A n \in Settled \ stale, m \in Open : label[n].cost <= label[m].cost
      /\ \A n \in Settled \ stale : n \notin goals /\ \A y \in OutEdges(n) : Slack(n, y)
      /\ \A m \in Open : label[cur].cost <= label[m].cost
      /\ \A y \in OutEdges(cur) : Slack(cur, y) \/ \E i \in 1..Len(todo) : todo[i] = y
  BY <1>1 DEF CostInv, SumsOK, OrderOK, RelaxedOK, HandOK, Searching
<1>9. CASE ~Improves(e)
  <2>1. label' = label
    BY <1>9 DEF Calc
  <2>2. Settled' = Settled /\ Reached' = Reached /\ Open' = Open /\ Mine' = Mine
    BY <1>1, <2>1 DEF Settled, Reached, Open, Mine
  <2>3. Slack(cur, e)
    <3>1. label[x].done \/ (label[x].cost # -1 /\ ~(c < label[x].cost))
      <4>1. label[x].done \in BOOLEAN
        BY <1>1, <1>3 DEF Label
      <4> QED
        BY <1>9, <4>1 DEF Improves
    <3>2. x \in Reached
      BY <1>3, <3>1, ReachedCosts DEF Settled, Reached
    <3>3. label[x].cost \in Nat
      BY <3>2, ReachedCosts
    <3>4. x \in stale \/ label[x].cost <= c
      <4>1. CASE label[x].done
        <5>1. x \in Settled
          BY <1>3, <4>1 DEF Settled
        <5>2. x \in stale \/ label[x].cost <= label[cur].cost
          BY <1>2, <1>8, <5>1
        <5> QED
          BY <1>2, <1>3, <3>3, <5>2
      <4>2. CASE ~label[x].done
        BY <1>2, <1>3, <3>1, <3>3, <4>2
      <4> QED
        BY <4>1, <4>2
    <3> QED
      BY <3>2, <3>4 DEF Slack
  <2>4. SumsOK' /\ OrderOK'
    BY <1>1, <1>8, <2>1, <2>2 DEF SumsOK, OrderOK
  <2>5. RelaxedOK'
    BY <1>1, <1>6, <1>8, <2>1, <2>2 DEF RelaxedOK, Slack
  <2>6. HandOK'
    <3>1. \A y \in OutEdges(cur) : Slack(cur, y) \/ \E i \in 1..Len(todo') : todo'[i] = y
      BY <1>5, <1>8, <2>3
    <3> QED
      BY <1>1, <1>6, <1>8, <2>1, <2>2, <3>1 DEF HandOK, Slack
  <2> QED
    BY <1>1, <1>7, <2>4, <2>5, <2>6 DEF CostInv, GoalOK
<1>10. CASE Improves(e)
  <2>1. /\ x # cur /\ x \notin stale /\ x \notin Settled
        /\ label'[x].cost = c /\ label'[x].prev = cur /\ label'[x].via = e
        /\ \A n \in Names \ {x} : label'[n] = label[n]
        /\ c \in Nat /\ label[cur].cost <= c
        /\ x \in Reached => c <= label[x].cost
        /\ Settled' = Settled /\ Reached' = Reached \cup {x} /\ Open' = Open \cup {x}
    BY <1>10, CostRelaxes
  <2>2. label'[cur] = label[cur]
    BY <1>2, <2>1
  <2>3. SumsOK'
    <3> SUFFICES ASSUME NEW n \in Mine', n # start
                 PROVE  label'[n].cost = label'[label'[n].prev].cost + label'[n].via.cost
      BY <1>1 DEF SumsOK
    <3>1. CASE n = x
      BY <2>1, <2>2, <3>1 DEF c
    <3>2. CASE n # x
      <4>1. n \in Mine /\ n \in Names /\ label'[n] = label[n]
        BY <1>1, <2>1, <3>2, ReachedCosts DEF Mine
      <4>2. label[n].prev \in Settled \cup {cur} /\ label[n].prev \in Names
        BY <1>1, <4>1, ReachedCosts DEF IInv, ParentsOK
      <4>3. label'[label[n].prev] = label[label[n].prev]
        BY <2>1, <4>2
      <4> QED
        BY <1>8, <4>1, <4>3
    <3> QED
      BY <3>1, <3>2
  <2>4. \A n \in Settled : n \in Names /\ n # x /\ label'[n] = label[n]
    BY <2>1, ReachedCosts
  <2>5. OrderOK'
    <3> SUFFICES ASSUME NEW n \in Settled \ stale, NEW m \in Open \cup {x}
                 PROVE  label'[n].cost <= label'[m].cost
      BY <1>1, <2>1 DEF OrderOK
    <3>1. label'[n] = label[n] /\ label[n].cost <= label[cur].cost /\ label[n].cost \in Nat
      BY <1>2, <1>8, <2>4, ReachedCosts
    <3>2. CASE m = x
      BY <1>2, <2>1, <3>1, <3>2
    <3>3. CASE m # x
      <4>1. m \in Open /\ label'[m] = label[m]
        BY <2>1, <3>3, ReachedCosts
      <4> QED
        BY <1>8, <3>1, <4>1
    <3> QED
      BY <3>2, <3>3
  <2>6. ASSUME NEW n \in Names, label'[n] = label[n], label[n].cost \in Nat,
               NEW y \in OutEdges(n), Slack(n, y)
        PROVE  Slack(n, y)'
    <3>1. y.next \in Reached /\ y.next \in Names /\ y.cost \in Nat /\ label[y.next].cost \in Nat
      BY <2>6, ReachedCosts, OutEdgesType DEF Slack, IInv
    <3>2. y.next \in Reached'
      BY <2>1, <3>1
    <3>3. CASE y.next = x
      <4>1. label[x].cost <= label[n].cost + y.cost /\ c <= label[x].cost
        BY <2>1, <2>6, <3>1, <3>3 DEF Slack
      <4>2. c <= label[n].cost + y.cost
        BY <2>1, <2>6, <3>1, <3>3, <4>1
      <4> QED
        BY <1>1, <2>1, <2>6, <3>2, <3>3, <4>2 DEF Slack
    <3>4. CASE y.next # x
      <4>1. label'[y.next] = label[y.next]
        BY <2>1, <3>1, <3>4
      <4> QED
        BY <1>1, <2>6, <3>2, <4>1 DEF Slack
    <3> QED
      BY <3>3, <3>4
  <2>7. RelaxedOK'
    <3> SUFFICES ASSUME NEW n \in Settled \ stale
                 PROVE  n \notin goals /\ \A y \in OutEdges(n) : Slack(n, y)'
      BY <1>1, <1>6, <2>1 DEF RelaxedOK
    <3>1. n \in Names /\ label'[n] = label[n] /\ label[n].cost \in Nat
      BY <2>4, ReachedCosts
    <3> QED
      BY <1>8, <2>6, <3>1
  <2>8. HandOK'
    <3>1. \A m \in Open \cup {x} : label'[cur].cost <= label'[m].cost
      <4> SUFFICES ASSUME NEW m \in Open \cup {x} PROVE label[cur].cost <= label'[m].cost
        BY <2>2
      <4>1. CASE m = x
        BY <2>1, <4>1
      <4>2. CASE m # x
        <5>1. m \in Open /\ label'[m] = label[m]
          BY <2>1, <4>2, ReachedCosts
        <5> QED
          BY <1>8, <5>1
      <4> QED
        BY <4>1, <4>2
    <3>2. x \in Reached' /\ label'[x].cost <= label'[cur].cost + e.cost
      <4>1. label'[x].cost \in Nat /\ label'[x].cost = label[cur].cost + e.cost
        BY <2>1 DEF c
      <4> QED
        BY <2>1, <2>2, <4>1
    <3>3. ASSUME NEW n, n = cur, NEW y \in OutEdges(cur)
          PROVE  Slack(n, y)' \/ \E i \in 1..Len(todo') : todo'[i] = y
      <4>1. CASE y = e
        BY <3>2, <3>3, <4>1 DEF Slack
      <4>2. CASE Slack(cur, y)
        BY <1>2, <2>2, <2>6, <3>3, <4>2
      <4> QED
        BY <1>5, <1>8, <4>1, <4>2
    <3>4. cur' = cur /\ OutEdges(cur)' = OutEdges(cur) /\ Open' = Open \cup {x}
      BY <1>1, <1>6, <2>1 DEF OutEdges
    <3> SUFFICES /\ \A m \in Open' : label'[cur'].cost <= label'[m].cost
                 /\ \A y \in OutEdges(cur)' : \A n : n = cur =>
                      Slack(n, y)' \/ \E i \in 1..Len(todo') : todo'[i] = y
      BY <3>4 DEF HandOK, Slack
    <3> QED
      BY <3>1, <3>3, <3>4
  <2> QED
    BY <1>1, <1>7, <2>3, <2>5, <2>7, <2>8 DEF CostInv, GoalOK
<1> QED
  BY <1>9, <1>10

\* The walk back stays with its goal, and remembers the edges that it came along.
LEMMA CostWalkBack ==
  ASSUME IInv, CostInv, WalkBack
  PROVE  CostInv'
<1>1. /\ phase = "back" /\ UNCHANGED <<nodes, edges, start, goals, stale>>
      /\ ret' = <<cur>> \o ret /\ ret \in Seq(Names) /\ via \in Seq(Edge)
      /\ cur \in Names /\ Len(via) = Len(ret)
  BY ReachedCosts DEF WalkBack, graph, query, IInv, TypeOK, BackOK, Mine
<1>2. LinksOK'
  BY <1>1, LinksStay DEF CostInv, LinksOK
<1>3. CASE cur = start
  <2>1. phase' = "found"
    BY <1>3 DEF WalkBack
  <2> QED
    BY <1>2, <2>1 DEF CostInv, AskedOK, SumsOK, OrderOK, RelaxedOK, HandOK, GoalOK, Searching
<1>4. CASE cur # start
  <2>1. phase' = "back" /\ label' = label /\ via' = <<label[cur].via>> \o via
    BY <1>1, <1>4 DEF WalkBack
  <2>2. Settled' = Settled /\ Reached' = Reached /\ Open' = Open /\ Mine' = Mine
    BY <1>1, <2>1 DEF Settled, Reached, Open, Mine
  <2>3. \A n : OutEdges(n)' = OutEdges(n)
    BY <1>1, LinksStay
  <2>4. AskedOK' /\ SumsOK' /\ OrderOK'
    BY <1>1, <2>1, <2>2 DEF CostInv, AskedOK, SumsOK, OrderOK, Searching
  <2>5. RelaxedOK'
    BY <1>1, <2>1, <2>2, <2>3 DEF CostInv, RelaxedOK, Searching, Slack
  <2>6. label[cur].via \in Edge
    <3>1. cur \in Mine
      BY <1>1 DEF IInv, BackOK
    <3>2. label[cur].prev \in Names /\ label[cur].via \in OutEdges(label[cur].prev)
      BY <1>1, <1>4, <3>1, ReachedCosts DEF IInv, ParentsOK
    <3> QED
      BY <3>2, OutEdgesType DEF IInv
  <2>7. /\ Len(ret) \in Nat /\ Len(ret') = Len(ret) + 1 /\ ret'[1] = cur
        /\ \A i \in 1..Len(ret) : ret'[i + 1] = ret[i]
        /\ via'[1] = label[cur].via /\ \A i \in 1..Len(ret) : via'[i + 1] = via[i]
    <3>1. /\ Len(ret) \in Nat /\ Len(ret') = Len(ret) + 1 /\ ret'[1] = cur
          /\ \A i \in 1..Len(ret) : ret'[i + 1] = ret[i]
      BY <1>1, Prepend
    <3>2. via'[1] = label[cur].via /\ \A i \in 1..Len(via) : via'[i + 1] = via[i]
      BY <1>1, <2>1, <2>6, Prepend
    <3> QED
      BY <1>1, <3>1, <3>2
  <2>8. Goal' = Goal
    <3>1. ret' # <<>> /\ Goal' = ret'[Len(ret')]
      <4>1. ret' # <<>>
        BY <1>1, <2>7
      <4> QED
        BY <4>1 DEF Goal
    <3>2. CASE ret = <<>>
      BY <2>7, <3>1, <3>2 DEF Goal
    <3>3. CASE ret # <<>>
      <4>1. Len(ret) \in 1..Len(ret)
        BY <1>1, <3>3
      <4>2. ret'[Len(ret) + 1] = ret[Len(ret)]
        BY <2>7, <4>1
      <4> QED
        BY <2>7, <3>1, <3>3, <4>2 DEF Goal
    <3> QED
      BY <3>2, <3>3
  <2>9. \A i \in 1..Len(ret') : via'[i] = label[ret'[i]].via
    <3> SUFFICES ASSUME NEW i \in 1..Len(ret') PROVE via'[i] = label[ret'[i]].via
      OBVIOUS
    <3>1. CASE i = 1
      BY <2>7, <3>1
    <3>2. CASE i # 1
      <4>1. i - 1 \in 1..Len(ret) /\ (i - 1) + 1 = i
        BY <2>7, <3>2
      <4>2. via'[i] = via[i - 1] /\ ret'[i] = ret[i - 1]
        BY <2>7, <4>1
      <4>3. via[i - 1] = label[ret[i - 1]].via
        BY <1>1, <4>1 DEF CostInv, GoalOK
      <4> QED
        BY <4>2, <4>3
    <3> QED
      BY <3>1, <3>2
  <2>10. GoalOK'
    BY <1>1, <2>1, <2>2, <2>8, <2>9 DEF CostInv, GoalOK
  <2> QED
    BY <1>2, <2>1, <2>4, <2>5, <2>10 DEF CostInv, HandOK
<1> QED
  BY <1>3, <1>4

\* At first there are no links.
LEMMA CostInit == Init => CostInv
<1> SUFFICES ASSUME Init PROVE CostInv
  OBVIOUS
<1>1. phase = "idle" /\ \A n \in Names : OutEdges(n) = {}
  BY DEF Init, NoSearch, OutEdges
<1>2. Links = {}
  BY <1>1 DEF Links
<1>3. LinksOK
  BY <1>2, FS_EmptySet DEF LinksOK
<1> QED
  BY <1>1, <1>3 DEF CostInv, AskedOK, SumsOK, OrderOK, RelaxedOK, HandOK, GoalOK, Searching

\* Every step of a search, and of the clients, keeps the order.
LEMMA CostStep == IInv /\ CostInv /\ [Next]_vars => CostInv'
<1> SUFFICES ASSUME IInv, CostInv, [Next]_vars PROVE CostInv'
  OBVIOUS
<1>1. ASSUME phase = "idle", NEW src \in Names, NEW dst \in Names, NEW name \in EdgeNames,
             NEW c \in Costs, Add(src, dst, name, c)
      PROVE  CostInv'
  <2>1. phase' = "idle"
    BY <1>1 DEF Add
  <2> DEFINE l == [src |-> src, name |-> name, next |-> dst, cost |-> c]
  <2>2. Links' = Links \cup {l}
    BY <1>1, LinksAfterAdd DEF IInv, Add
  <2> HIDE DEF l
  <2>3. LinksOK'
    BY <2>2, FS_AddElement DEF CostInv, LinksOK
  <2> QED
    BY <2>1, <2>3 DEF CostInv, AskedOK, SumsOK, OrderOK, RelaxedOK, HandOK, GoalOK, Searching
<1>2. CASE Return
  <2>1. phase' = "idle" /\ UNCHANGED edges
    BY <1>2 DEF Return, graph
  <2>2. LinksOK'
    BY <2>1, LinksStay DEF CostInv, LinksOK
  <2> QED
    BY <2>1, <2>2 DEF CostInv, AskedOK, SumsOK, OrderOK, RelaxedOK, HandOK, GoalOK, Searching
<1>3. CASE UNCHANGED vars
  <2>1. /\ UNCHANGED <<nodes, edges, label, phase, start, goals, cur, todo, ret, via, stale>>
        /\ Settled' = Settled /\ Reached' = Reached /\ Open' = Open /\ Mine' = Mine
        /\ Goal' = Goal /\ Links' = Links /\ \A n : OutEdges(n)' = OutEdges(n)
    BY <1>3, LinksStay DEF vars, Settled, Reached, Open, Mine, Goal
  <2>2. LinksOK' /\ AskedOK' /\ SumsOK' /\ OrderOK' /\ GoalOK'
    BY <2>1 DEF CostInv, LinksOK, AskedOK, SumsOK, OrderOK, GoalOK, Searching
  <2>3. RelaxedOK' /\ HandOK'
    BY <2>1 DEF CostInv, RelaxedOK, HandOK, Searching, Slack
  <2> QED
    BY <2>2, <2>3 DEF CostInv
<1> QED
  BY <1>1, <1>2, <1>3, CostSearchBegins, CostNextNode, CostCalc, CostSettle, CostWalkBack
     DEF Next, SearchStep
------------------------------------------------------------------------------
(* The search answers what PathSearch says *)

\* A link is an edge with its source.
LEMMA LinksAre ==
  ASSUME TypeOK
  PROVE  /\ \A n \in Names : \A e \in OutEdges(n) :
              /\ LinkOf(n, e) \in Links
              /\ LinkOf(n, e).src = n /\ LinkOf(n, e).next = e.next /\ LinkOf(n, e).cost = e.cost
         /\ \A l \in Links : /\ l \in Oracle!Link /\ l.cost \in Nat
                             /\ \E n \in Names : \E e \in OutEdges(n) : l = LinkOf(n, e)
<1>1. \A n \in Names : \A e \in OutEdges(n) :
        /\ LinkOf(n, e) \in Links
        /\ LinkOf(n, e).src = n /\ LinkOf(n, e).next = e.next /\ LinkOf(n, e).cost = e.cost
  BY DEF Links, LinkOf
<1>2. \A l \in Links : \E n \in Names : \E e \in OutEdges(n) : l = LinkOf(n, e)
  BY DEF Links
<1>3. ASSUME NEW n \in Names, NEW e \in OutEdges(n)
      PROVE  LinkOf(n, e) \in Oracle!Link /\ LinkOf(n, e).cost \in Nat
  <2>1. e \in Edge
    BY OutEdgesType
  <2> QED
    BY <2>1, CostsAssumption DEF LinkOf, Oracle!Link, Edge
<1> QED
  BY <1>1, <1>2, <1>3

\* A route with a link more ends where the link leads.
LEMMA EndOfAppend ==
  ASSUME NEW S, NEW r \in Seq(S), NEW l \in S, NEW s
  PROVE  RouteEnd(Append(r, l), s) = l.next
<1>1. Append(r, l) # <<>> /\ Len(Append(r, l)) = Len(r) + 1 /\ Append(r, l)[Len(r) + 1] = l
  OBVIOUS
<1> QED
  BY <1>1 DEF RouteEnd

\* What the links of the nodes of this search lead to, unless it was marked.
LEMMA SettledSpread ==
  ASSUME IInv, CostInv, Searching, NEW l \in Links, l.src \in Settled \ stale, l.next \notin stale
  PROVE  /\ l.next \in Reached
         /\ label[l.next].cost <= label[l.src].cost + l.cost
<1>1. PICK n \in Names : \E e \in OutEdges(n) : l = LinkOf(n, e)
  BY LinksAre DEF IInv
<1>2. PICK e \in OutEdges(n) : l = LinkOf(n, e)
  BY <1>1
<1>3. l.src = n /\ l.next = e.next /\ l.cost = e.cost
  BY <1>2 DEF LinkOf
<1>4. Slack(n, e)
  BY <1>3 DEF CostInv, RelaxedOK
<1> QED
  BY <1>3, <1>4 DEF Slack

\* A search that finds nothing open has settled what PathSearch says it comes to, and
\* there is no route to a goal.
LEMMA SearchFails ==
  ASSUME IInv, WalkInv, CostInv, phase = "next", Open = {}
  PROVE  <<Oracle!NoPath, Settled>> \in Oracle!Replies(nodes, Links, stale, start, goals)
<1> DEFINE M == Settled \ stale
           In == Oracle!Within(Links, start, stale)
<1>1. /\ Searching /\ IsFiniteSet(Links) /\ start \in nodes /\ start \in Reached
      /\ Reached = Settled /\ stale \subseteq Settled
  <2>1. start \in nodes /\ start \in Reached /\ stale \subseteq Settled
    BY DEF IInv, ParentsOK, ClosedOK
  <2>2. Reached = Settled
    BY ReachedCosts DEF Open
  <2> QED
    BY <2>1, <2>2 DEF CostInv, LinksOK, Searching
<1>2. {start} \ stale \subseteq M
  BY <1>1
<1>3. ASSUME NEW l \in Links, l.src \in M, l.next \notin stale PROVE l.next \in M
  BY <1>1, <1>3, SettledSpread
<1>4. In \subseteq M
  <2> HIDE DEF M
  <2> QED
    BY <1>1, <1>2, <1>3, WithinIsLeast
<1>5. /\ {start} \ stale \subseteq In
      /\ \A l \in Links : l.src \in In /\ l.next \notin stale => l.next \in In
  BY <1>1, WithinIsClosed
<1> HIDE DEF In
<1>6. M \subseteq In
  <2> SUFFICES ASSUME Mine \ In # {} PROVE FALSE
    BY <1>1 DEF Mine
  <2>1. ASSUME NEW n \in Mine \ In, n # start PROVE label[n].prev \in Mine \ In
    <3> DEFINE p == label[n].prev
               e == label[n].via
    <3>1. p \in Mine /\ p \in Names /\ e \in OutEdges(p) /\ e.next = n /\ n \notin stale
      BY <2>1, ReachedCosts DEF IInv, ParentsOK, Mine
    <3>2. LinkOf(p, e) \in Links /\ LinkOf(p, e).src = p /\ LinkOf(p, e).next = n
      BY <3>1, LinksAre DEF IInv
    <3>3. p \notin In
      BY <1>5, <2>1, <3>1, <3>2
    <3> QED
      BY <3>1, <3>3
  <2>2. start \in Mine \ In
    BY <2>1 DEF WalkInv, Rooted
  <2> QED
    BY <1>5, <2>2 DEF Mine
<1>7. Settled = stale \cup In
  BY <1>1, <1>4, <1>6
<1>8. Oracle!Routes(Links, start, goals, stale) = {}
  <2>1. CASE start \in stale
    BY <2>1, NoRoutesFromMarked
  <2>2. CASE start \notin stale
    <3> DEFINE Rs == {r \in Seq(Links) : RouteEnd(r, start) \in M}
    <3>1. <<>> \in Rs
      BY <1>1, <2>2 DEF RouteEnd
    <3>2. ASSUME NEW r \in Rs, NEW l \in Links, l.src = RouteEnd(r, start), l.next \notin stale
          PROVE  Append(r, l) \in Rs
      <4>1. r \in Seq(Links) /\ l.next \in M
        BY <1>3, <3>2
      <4>2. Append(r, l) \in Seq(Links) /\ RouteEnd(Append(r, l), start) = l.next
        BY <4>1, EndOfAppend
      <4> HIDE DEF M
      <4> QED
        BY <4>1, <4>2
    <3>3. Oracle!Routes(Links, start, goals, stale) \subseteq {r \in Rs : RouteEnd(r, start) \in goals}
      <4>1. Rs \subseteq Seq(Links)
        OBVIOUS
      <4> HIDE DEF Rs
      <4> QED
        BY <1>1, <2>2, <3>1, <3>2, <4>1, RoutesInduction
    <3>4. \A n \in M : n \notin goals
      BY <1>1 DEF CostInv, RelaxedOK
    <3> QED
      BY <3>3, <3>4
  <2> QED
    BY <2>1, <2>2
<1> QED
  BY <1>1, <1>7, <1>8 DEF Oracle!Replies, In

\* No route to a goal is cheaper than the cheapest open node, which it has to pass.
LEMMA RoutesAreDearer ==
  ASSUME IInv, CostInv, Searching, start \notin stale,
         NEW g \in Open, \A m \in Open : label[g].cost <= label[m].cost,
         NEW q \in Oracle!Routes(Links, start, goals, stale)
  PROVE  label[g].cost <= Oracle!RouteCost(q)
<1> DEFINE cost(r) == Oracle!RouteCost(r)
           M == Settled \ stale
           Passed(r) == label[g].cost <= cost(r)
           Inside(r) == RouteEnd(r, start) \in M /\ label[RouteEnd(r, start)].cost <= cost(r)
           Rs == {r \in Seq(Links) : Priced(r) /\ cost(r) \in Nat /\ (Passed(r) \/ Inside(r))}
<1>1. /\ IsFiniteSet(Links) /\ start \in Reached /\ label[start].cost = 0
      /\ label[g].cost \in Nat
  BY ReachedCosts DEF CostInv, LinksOK, IInv, ParentsOK, Searching, Reached
<1>2. ASSUME NEW n \in Reached, n \notin stale PROVE n \in M \/ label[g].cost <= label[n].cost
  BY <1>2 DEF Open
<1>3. \A n \in M : n \notin goals /\ label[n].cost \in Nat
  BY ReachedCosts DEF CostInv, RelaxedOK
<1>4. <<>> \in Rs
  <2>1. Priced(<<>>) /\ cost(<<>>) = 0 /\ RouteEnd(<<>>, start) = start
    BY CostOfRoutes DEF RouteEnd
  <2>2. Passed(<<>>) \/ Inside(<<>>)
    BY <1>1, <1>2, <2>1
  <2> HIDE DEF Passed, Inside, cost
  <2> QED
    BY <2>1, <2>2
<1>5. ASSUME NEW r \in Rs, NEW l \in Links, l.src = RouteEnd(r, start), l.next \notin stale
      PROVE  Append(r, l) \in Rs
  <2> DEFINE a == Append(r, l)
  <2>1. r \in Seq(Links) /\ Priced(r) /\ cost(r) \in Nat /\ (Passed(r) \/ Inside(r))
    BY <1>5
  <2>2. l \in Oracle!Link /\ l.cost \in Nat
    BY LinksAre DEF IInv
  <2>3. a \in Seq(Links) /\ RouteEnd(a, start) = l.next
    BY <2>1, EndOfAppend
  <2>4. Priced(a) /\ cost(a) = cost(r) + l.cost
    BY <2>1, <2>2, CostOfRoutes
  <2> HIDE DEF a, cost
  <2>5. cost(a) \in Nat
    BY <2>1, <2>2, <2>4
  <2>6. CASE Passed(r)
    <3>1. Passed(a)
      BY <1>1, <2>1, <2>2, <2>4, <2>6
    <3> HIDE DEF Passed, Inside
    <3> QED
      BY <2>3, <2>4, <2>5, <3>1 DEF a
  <2>7. CASE Inside(r)
    <3>1. /\ l.next \in Reached /\ label[l.next].cost <= label[l.src].cost + l.cost
          /\ label[l.src].cost \in Nat /\ label[l.src].cost <= cost(r)
      BY <1>3, <1>5, <2>7, SettledSpread
    <3>2. label[l.next].cost \in Nat
      BY <3>1, ReachedCosts
    <3>3. label[l.next].cost <= cost(a)
      BY <2>1, <2>2, <2>4, <3>1, <3>2
    <3>4. Inside(a) \/ Passed(a)
      <4>1. CASE l.next \in M
        BY <2>3, <3>3, <4>1
      <4>2. CASE label[g].cost <= label[l.next].cost
        BY <1>1, <2>5, <3>2, <3>3, <4>2
      <4> QED
        BY <1>2, <1>5, <3>1, <4>1, <4>2
    <3> HIDE DEF Passed, Inside
    <3> QED
      BY <2>3, <2>4, <2>5, <3>4 DEF a
  <2> QED
    BY <2>1, <2>6, <2>7
<1>6. q \in Rs /\ RouteEnd(q, start) \in goals
  <2>1. Rs \subseteq Seq(Links)
    OBVIOUS
  <2> HIDE DEF Rs
  <2> QED
    BY <1>1, <1>4, <1>5, <2>1, RoutesInduction
<1> QED
  BY <1>3, <1>6

\* The walk back makes a direct route of the links along prev, and its cost is the goal's.
LEMMA SearchFinds ==
  ASSUME IInv, WalkInv, CostInv, WalkBack, cur = start
  PROVE  <<Answer', {}>> \in Oracle!Replies(nodes, Links, stale, start, goals)
<1> DEFINE n == Len(ret)
           ns == <<cur>> \o ret
           R == [i \in 1..n |-> LinkOf(ns[i], via[i])]
<1>1. /\ phase = "back" /\ phase' = "found" /\ ret' = ns /\ via' = via /\ goals' = goals
      /\ edges' = edges /\ start' = start
      /\ ret \in Seq(Names) /\ cur \in Names /\ cur \in Mine /\ Len(via) = n
  BY ReachedCosts DEF WalkBack, graph, query, IInv, TypeOK, BackOK
<1>2. /\ n \in Nat /\ ns \in Seq(Names) /\ Len(ns) = n + 1 /\ ns[1] = start
      /\ \A i \in 1..n : ns[i + 1] = ret[i]
  BY <1>1, Prepend
<1>3. /\ \A i \in 1..n : via[i] \in OutEdges(ns[i]) /\ via[i].next = ns[i + 1]
      /\ ns[n + 1] \in goals
  <2>1. FoundIsPath'
    BY IInvStep DEF IInv, Next, SearchStep
  <2> HIDE DEF ns, n
  <2>2. IsPath(ret, via)' /\ ret'[Len(ret')] \in goals'
    BY <1>1, <2>1 DEF FoundIsPath
  <2>3. IsPath(ns, via)
    BY <1>1, <2>2 DEF IsPath, OutEdges
  <2> QED
    BY <1>1, <1>2, <2>2, <2>3 DEF IsPath
<1>4. /\ Searching /\ IsFiniteSet(Links) /\ start \in nodes /\ start \notin stale
      /\ label[start].cost = 0
  BY <1>1 DEF CostInv, LinksOK, IInv, ParentsOK, Mine, Searching
<1> HIDE DEF ns, n
<1>5. \A i \in 1..n : /\ ret[i] \in Mine /\ ret[i] # start /\ label[ret[i]].prev = ns[i]
                      /\ via[i] = label[ret[i]].via /\ ns[i] \in Settled \ stale
  <2> SUFFICES ASSUME NEW i \in 1..n
               PROVE  /\ ret[i] \in Mine /\ ret[i] # start /\ label[ret[i]].prev = ns[i]
                      /\ via[i] = label[ret[i]].via /\ ns[i] \in Settled \ stale
    OBVIOUS
  <2>1. /\ ret[i] \in Mine /\ ret[i] # start
        /\ label[ret[i]].prev = IF i = 1 THEN cur ELSE ret[i - 1]
    BY <1>1 DEF WalkInv, Trail, n
  <2>2. ns[i] = IF i = 1 THEN cur ELSE ret[i - 1]
    <3>1. CASE i = 1
      BY <1>2, <3>1
    <3>2. CASE i # 1
      <4>1. i - 1 \in 1..n /\ (i - 1) + 1 = i
        BY <1>2, <3>2
      <4> QED
        BY <1>2, <3>2, <4>1
    <3> QED
      BY <3>1, <3>2
  <2>3. via[i] = label[ret[i]].via
    BY <1>1 DEF CostInv, GoalOK, n
  <2>4. label[ret[i]].prev \in Settled /\ label[ret[i]].prev \in Mine
    BY <1>1, <2>1 DEF IInv, ParentsOK
  <2> QED
    BY <2>1, <2>2, <2>3, <2>4 DEF Mine
<1>6. ASSUME NEW i \in 1..n
      PROVE  /\ R[i] \in Links /\ R[i].src = ns[i] /\ R[i].next = ns[i + 1]
             /\ R[i].next = ret[i] /\ R[i].cost = via[i].cost /\ R[i].cost \in Nat
             /\ R[i] \in Oracle!Link
  <2>1. ns[i] \in Names
    BY <1>2
  <2>2. R[i] = LinkOf(ns[i], via[i])
    OBVIOUS
  <2> HIDE DEF R
  <2>3. /\ R[i] \in Links /\ R[i].src = ns[i] /\ R[i].next = via[i].next
        /\ R[i].cost = via[i].cost
    BY <1>3, <2>1, <2>2, LinksAre DEF IInv
  <2>4. R[i].cost \in Nat /\ R[i] \in Oracle!Link
    BY <2>3, LinksAre DEF IInv
  <2> QED
    BY <1>2, <1>3, <2>3, <2>4
<1>7. R \in Seq(Links) /\ Len(R) = n /\ R \in Seq(Oracle!Link)
  <2>1. DOMAIN R = 1..n
    OBVIOUS
  <2> HIDE DEF R
  <2>2. R \in [1..n -> Links] /\ R \in [1..n -> Oracle!Link]
    <3>1. R = [i \in 1..n |-> R[i]]
      BY <2>1 DEF R
    <3> QED
      BY <1>6, <3>1
  <2> QED
    BY <1>2, <2>2
<1>8. Answer' = [kind |-> "path", route |-> R]
  BY <1>1 DEF Answer, n, R, ns
<1> HIDE DEF R
<1>9. Connected(R, Links, start) /\ RouteEnd(R, start) = ns[n + 1]
  <2>1. R # <<>> => R[1].src = start
    <3> SUFFICES ASSUME R # <<>> PROVE R[1].src = start
      OBVIOUS
    <3>1. 1 \in 1..n
      BY <1>2, <1>7
    <3> QED
      BY <1>2, <1>6, <3>1
  <2>2. \A i \in 1..n - 1 : R[i].next = R[i + 1].src
    <3> SUFFICES ASSUME NEW i \in 1..n - 1 PROVE R[i].next = R[i + 1].src
      OBVIOUS
    <3>1. i \in 1..n /\ i + 1 \in 1..n
      BY <1>2
    <3> QED
      BY <1>6, <3>1
  <2>3. RouteEnd(R, start) = ns[n + 1]
    <3>1. CASE R = <<>>
      <4>1. n = 0
        BY <1>7, <3>1
      <4> QED
        BY <1>2, <3>1, <4>1 DEF RouteEnd
    <3>2. CASE R # <<>>
      <4>1. n \in 1..n
        BY <1>2, <1>7, <3>2
      <4> QED
        BY <1>6, <1>7, <3>2, <4>1 DEF RouteEnd
    <3> QED
      BY <3>1, <3>2
  <2> QED
    BY <1>7, <2>1, <2>2, <2>3 DEF Connected
<1>10. Direct(R, start, goals, stale)
  <2>1. \A m \in Settled \ stale : m \notin goals
    BY <1>4 DEF CostInv, RelaxedOK
  <2>2. \A i \in 1..n : R[i].next \notin stale /\ R[i].next # start
    BY <1>5, <1>6 DEF Mine
  <2>3. \A i, j \in 1..n : R[i].next = R[j].next => i = j
    <3>1. \A i, j \in 1..n : ret[i] = ret[j] => i = j
      BY <1>1 DEF WalkInv, WalkBackEnds, n
    <3> QED
      BY <1>6, <3>1
  <2>4. R # <<>> => start \notin goals
    <3> SUFFICES ASSUME R # <<>> PROVE start \notin goals
      OBVIOUS
    <3>1. 1 \in 1..n
      BY <1>2, <1>7
    <3> QED
      BY <1>2, <1>5, <2>1, <3>1
  <2>5. \A i \in 1..n - 1 : R[i].next \notin goals
    <3> SUFFICES ASSUME NEW i \in 1..n - 1 PROVE R[i].next \notin goals
      OBVIOUS
    <3>1. i \in 1..n /\ i + 1 \in 1..n
      BY <1>2
    <3> QED
      BY <1>5, <1>6, <2>1, <3>1
  <2> QED
    BY <1>7, <2>2, <2>3, <2>4, <2>5 DEF Direct
<1>11. R \in Oracle!Routes(Links, start, goals, stale)
  BY <1>3, <1>4, <1>9, <1>10, DirectIsRoute
<1>12. Goal = ns[n + 1]
  <2>1. CASE ret = <<>>
    BY <1>1, <1>2, <2>1 DEF Goal, n
  <2>2. CASE ret # <<>>
    <3>1. n \in 1..n
      BY <1>1, <1>2, <2>2 DEF n
    <3> QED
      BY <1>2, <2>2, <3>1 DEF Goal, n
  <2> QED
    BY <2>1, <2>2
<1>13. Oracle!RouteCost(R) = label[Goal].cost
  <2> DEFINE A == [k \in 0..n |-> label[ns[k + 1]].cost]
  <2>1. Priced(R)
    BY <1>6, <1>7 DEF Priced
  <2>2. A[0] = 0
    BY <1>2, <1>4
  <2>3. ASSUME NEW k \in 1..n PROVE A[k] = A[k - 1] + R[k].cost
    <3>1. A[k] = label[ns[k + 1]].cost /\ A[k - 1] = label[ns[k]].cost
      <4>1. k \in 0..n /\ k - 1 \in 0..n /\ (k - 1) + 1 = k
        BY <1>2
      <4> QED
        BY <4>1
    <3>2. ns[k + 1] = ret[k]
      BY <1>2
    <3>3. label[ret[k]].cost = label[label[ret[k]].prev].cost + label[ret[k]].via.cost
      BY <1>4, <1>5 DEF CostInv, SumsOK
    <3> HIDE DEF A
    <3> QED
      BY <1>5, <1>6, <3>1, <3>2, <3>3
  <2>4. A[n] = label[Goal].cost
    BY <1>2, <1>12
  <2> HIDE DEF A
  <2>5. Sums(A, R)
    BY <1>7, <2>2, <2>3 DEF Sums
  <2>6. Oracle!RouteCost(R) = A[n]
    BY <1>7, <2>1, <2>5, SumIsCost
  <2> QED
    BY <2>4, <2>6
<1>14. \A q \in Oracle!Routes(Links, start, goals, stale) : Oracle!RouteCost(R) <= Oracle!RouteCost(q)
  <2>1. Goal \in Open /\ \A m \in Open : label[Goal].cost <= label[m].cost
    BY <1>1 DEF CostInv, GoalOK
  <2> QED
    BY <1>4, <1>13, <2>1, RoutesAreDearer
<1>15. R \in Oracle!Cheapest(Oracle!Routes(Links, start, goals, stale))
  BY <1>11, <1>14 DEF Oracle!Cheapest
<1>16. Answer' = Oracle!Path(R)
  BY <1>8 DEF Oracle!Path
<1> QED
  BY <1>4, <1>11, <1>15, <1>16 DEF Oracle!Replies
------------------------------------------------------------------------------
(* The refinement *)

\* The graph is empty at first, and nothing is asked.
LEMMA RefinedInit == Init => Oracle!Init
<1> SUFFICES ASSUME Init PROVE Oracle!Init
  OBVIOUS
<1>1. phase = "idle" /\ nodes = {} /\ \A n \in Names : OutEdges(n) = {}
  BY DEF Init, NoSearch, OutEdges
<1>2. Links = {} /\ Marked = {} /\ Answer = Nil
  BY <1>1 DEF Links, Marked, Settled, Answer
<1> QED
  BY <1>1, <1>2 DEF Oracle!Init

\* A step of the search's loop is none of PathSearch, but for the last one, which answers;
\* every other step is one of PathSearch.
LEMMA RefinedStep ==
  ASSUME IInv, WalkInv, CostInv, [Next]_vars
  PROVE  [Oracle!Next]_<<nodes, Links, Marked, Answer>>
<1> DEFINE Stutter == UNCHANGED <<nodes, Links, Marked, Answer>>
<1>1. ASSUME phase = "idle", NEW src \in Names, NEW dst \in Names, NEW name \in EdgeNames,
             NEW c \in Costs, Add(src, dst, name, c)
      PROVE  Oracle!Next
  <2> DEFINE l == [src |-> src, name |-> name, next |-> dst, cost |-> c]
  <2>1. phase' = "idle" /\ label' = label /\ nodes' = nodes \cup {src, dst}
    BY <1>1 DEF Add, AddEdge
  <2>2. Links' = Links \cup {l}
    BY <1>1, LinksAfterAdd DEF IInv, Add
  <2>3. Answer = Nil /\ Answer' = Nil
    BY <1>1, <2>1 DEF Answer
  <2>4. Marked' = Marked
    <3>1. \A n \in Names \ nodes : ~label[n].done
      BY DEF IInv, AbsentOK, Unlabelled
    <3>2. Settled' = Settled
      BY <2>1, <3>1 DEF Settled
    <3> QED
      BY <1>1, <2>1, <3>2 DEF Marked
  <2>5. l \in Oracle!Link /\ l.src = src /\ l.next = dst
    BY DEF Oracle!Link
  <2> HIDE DEF l
  <2>6. Oracle!Add(l)
    BY <2>1, <2>2, <2>3, <2>4, <2>5 DEF Oracle!Add, Oracle!AddLink
  <2> QED
    BY <2>5, <2>6 DEF Oracle!Next
<1>2. ASSUME NEW s \in Names, NEW gs \in (SUBSET Names) \ {{}}, Search(s, gs)
      PROVE  Oracle!Next \/ Stutter
  <2>1. /\ phase = "idle" /\ stale' = Settled /\ UNCHANGED <<nodes, edges>>
        /\ label \in [Names -> Label] /\ nodes \subseteq Names
    BY <1>2 DEF Search, graph, IInv, TypeOK
  <2>2. Links' = Links /\ Marked = Settled /\ Answer = Nil
    BY <2>1, LinksStay DEF Marked, Answer
  <2>3. CASE s \in nodes
    <3>1. phase' = "next"
      BY <1>2, <2>3 DEF Search
    <3>2. Marked' = Settled /\ Answer' = Nil
      BY <2>1, <3>1 DEF Marked, Answer
    <3> QED
      BY <2>1, <2>2, <3>2
  <2>4. CASE s \notin nodes
    <3>1. phase' = "panic" /\ label' = label
      BY <1>2, <2>4 DEF Search
    <3>2. Marked' = Settled /\ Answer' = Oracle!UnknownStart
      BY <2>1, <3>1 DEF Marked, Settled, Answer, Oracle!UnknownStart
    <3>3. <<Oracle!UnknownStart, Marked>> \in Oracle!Replies(nodes, Links, Marked, s, gs)
      BY <2>4 DEF Oracle!Replies
    <3>4. Oracle!Ask(s, gs)
      <4>1. /\ Answer' = <<Oracle!UnknownStart, Marked>>[1]
            /\ Marked' = <<Oracle!UnknownStart, Marked>>[2]
        BY <2>2, <3>2
      <4> QED
        BY <2>1, <2>2, <3>3, <4>1 DEF Oracle!Ask
    <3> QED
      BY <3>4 DEF Oracle!Next
  <2> QED
    BY <2>3, <2>4
<1>3. CASE NextNode
  <2>1. phase = "next" /\ UNCHANGED <<nodes, edges, label, start, goals, stale>>
    BY <1>3 DEF NextNode, graph, query
  <2>2. Links' = Links /\ Marked = stale /\ Answer = Nil /\ Settled' = Settled
    BY <2>1, LinksStay DEF Marked, Answer, Settled
  <2>3. CASE Open = {} /\ phase' = "notFound"
    <3>1. Marked' = Settled /\ Answer' = Oracle!NoPath
      BY <2>2, <2>3 DEF Marked, Answer, Oracle!NoPath
    <3>2. <<Oracle!NoPath, Settled>> \in Oracle!Replies(nodes, Links, Marked, start, goals)
      BY <2>1, <2>2, <2>3, SearchFails
    <3>3. Oracle!Ask(start, goals)
      <4>1. Answer' = <<Oracle!NoPath, Settled>>[1] /\ Marked' = <<Oracle!NoPath, Settled>>[2]
        BY <3>1
      <4> QED
        BY <2>1, <2>2, <3>2, <4>1 DEF Oracle!Ask
    <3>4. start \in Names /\ goals \in (SUBSET Names) \ {{}}
      BY <2>1 DEF IInv, ParentsOK, TypeOK, CostInv, AskedOK, Searching
    <3> QED
      BY <3>3, <3>4 DEF Oracle!Next
  <2>4. CASE phase' \in {"back", "calc"}
    <3>1. Marked' = stale /\ Answer' = Nil
      BY <2>1, <2>4 DEF Marked, Answer
    <3> QED
      BY <2>1, <2>2, <3>1
  <2> QED
    BY <1>3, <2>3, <2>4 DEF NextNode
<1>4. CASE Calc \/ Settle
  <2>1. /\ phase = "calc" /\ phase' \in {"calc", "next"}
        /\ UNCHANGED <<nodes, edges, stale>>
    BY <1>4 DEF Calc, Settle, graph, query
  <2>2. Links' = Links
    BY <2>1, LinksStay
  <2>3. Marked = stale /\ Marked' = stale /\ Answer = Nil /\ Answer' = Nil
    BY <2>1 DEF Marked, Answer
  <2> QED
    BY <2>1, <2>2, <2>3
<1>5. CASE WalkBack
  <2>1. phase = "back" /\ UNCHANGED <<nodes, edges, start, goals, stale>>
    BY <1>5 DEF WalkBack, graph, query
  <2>2. Links' = Links /\ Marked = stale /\ Answer = Nil
    BY <2>1, LinksStay DEF Marked, Answer
  <2>3. CASE cur # start
    <3>1. phase' = "back"
      BY <1>5, <2>1, <2>3 DEF WalkBack
    <3>2. Marked' = stale /\ Answer' = Nil
      BY <2>1, <3>1 DEF Marked, Answer
    <3> QED
      BY <2>1, <2>2, <3>2
  <2>4. CASE cur = start
    <3>1. phase' = "found" /\ label' = ResetLabels /\ nodes \subseteq Names
      BY <1>5, <2>4 DEF WalkBack, IInv, TypeOK
    <3>2. Marked' = {}
      BY <2>1, <3>1 DEF Marked, Settled, ResetLabels, Unlabelled
    <3>3. <<Answer', {}>> \in Oracle!Replies(nodes, Links, Marked, start, goals)
      BY <1>5, <2>2, <2>4, SearchFinds
    <3>4. Oracle!Ask(start, goals)
      <4>1. Answer' = <<Answer', {}>>[1] /\ Marked' = <<Answer', {}>>[2]
        BY <3>2
      <4> QED
        BY <2>1, <2>2, <3>3, <4>1 DEF Oracle!Ask
    <3>5. start \in Names /\ goals \in (SUBSET Names) \ {{}}
      BY <2>1 DEF IInv, ParentsOK, TypeOK, CostInv, AskedOK, Searching
    <3> QED
      BY <3>4, <3>5 DEF Oracle!Next
  <2> QED
    BY <2>3, <2>4
<1>6. CASE Return
  <2>1. /\ phase \in {"found", "notFound", "panic"} /\ phase' = "idle"
        /\ UNCHANGED <<nodes, edges, label>>
    BY <1>6 DEF Return, graph
  <2>2. Links' = Links /\ Answer' = Nil /\ Marked' = Marked
    BY <2>1, LinksStay DEF Answer, Marked, Settled
  <2>3. CASE Answer = Nil
    BY <2>1, <2>2, <2>3
  <2>4. CASE Answer # Nil
    BY <2>1, <2>2, <2>4 DEF Oracle!Take, Oracle!Next
  <2> QED
    BY <2>3, <2>4
<1>7. CASE UNCHANGED vars
  <2>1. UNCHANGED <<nodes, edges, label, phase, ret, via, stale>>
    BY <1>7 DEF vars
  <2>2. Links' = Links /\ Answer' = Answer /\ Marked' = Marked
    BY <2>1, LinksStay DEF Answer, Marked, Settled
  <2> QED
    BY <2>1, <2>2
<1> QED
  BY <1>1, <1>2, <1>3, <1>4, <1>5, <1>6, <1>7 DEF Next, SearchStep

\* A search answers as if at once, and with a cheapest path to a goal that avoids what
\* failed searches have marked, exactly when there is one; one that fails marks exactly
\* what it could come to (dijkstra.go:93-151).
THEOREM SearchesImplementPathSearch == Spec => AnswersAtOnce
<1>1. Init => WalkInv
  BY DEF Init, NoSearch, WalkInv, Rooted, Trail, WalkBackEnds
<1>2. IInv /\ WalkInv /\ CostInv /\ [Next]_vars => [Oracle!Next]_<<nodes, Links, Marked, Answer>>
  BY RefinedStep
<1> QED
  BY <1>1, <1>2, IInvInit, IInvStep, WalkStep, CostInit, CostStep, RefinedInit, PTL
     DEF Spec, AnswersAtOnce, Oracle!Spec
==============================================================================
