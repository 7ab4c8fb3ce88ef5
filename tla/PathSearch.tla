------------------------------ MODULE PathSearch ------------------------------
(***************************************************************************)
(* What the graph of pkg/algorithm promises its clients: an edge is added   *)
(* at once and a question is answered at once, with a cheapest path.  A     *)
(* question that has no answer leaves marked every node it came to, and no  *)
(* later question passes a marked node until one of them is answered.       *)
(* DirectedGraph, which spells the search out, implements this module; the  *)
(* modules of the stores use it.                                            *)
(***************************************************************************)
EXTENDS Integers, Sequences, FiniteSets

CONSTANTS
  Names,       \* the node names the clients use
  EdgeNames,   \* the edge names the clients use
  Costs,       \* the edge costs the clients use
  Nil          \* there is no answer to take

VARIABLES
  nodes,    \* the names in the graph
  links,    \* its edges
  marked,   \* the nodes that unanswered questions have left marked
  answer    \* the answer the client has not taken yet, or Nil

Link == [src : Names, name : EdgeNames, next : Names, cost : Costs]

NoPath == [kind |-> "no path", route |-> <<>>]
UnknownStart == [kind |-> "unknown start", route |-> <<>>]
Path(r) == [kind |-> "path", route |-> r]

Init == nodes = {} /\ links = {} /\ marked = {} /\ answer = Nil
------------------------------------------------------------------------------
\* The nodes a question that starts at s can come to, in the graph ls.
Within(ls, s, avoid) ==
  LET W[k \in 0..Cardinality(ls)] ==
        IF k = 0 THEN {s} \ avoid
        ELSE W[k - 1] \cup {l.next : l \in {m \in ls : m.src \in W[k - 1] /\ m.next \notin avoid}}
  IN W[Cardinality(ls)]

\* The routes from s that end at their first goal and visit no node twice.
Routes(ls, s, gs, avoid) ==
  LET End(r) == IF r = <<>> THEN s ELSE r[Len(r)].next
      Visited(r) == {s} \cup {r[i].next : i \in DOMAIN r}
      Extend(rs) == UNION {{Append(r, l) : l \in {m \in ls : /\ m.src = End(r)
                                                             /\ m.next \notin avoid \cup Visited(r)}} :
                           r \in {q \in rs : End(q) \notin gs}}
      R[k \in 0..Cardinality(ls)] ==
        IF k = 0 THEN {<<>>} ELSE R[k - 1] \cup Extend(R[k - 1])
  IN IF s \in avoid THEN {} ELSE {r \in R[Cardinality(ls)] : End(r) \in gs}

RouteCost(r) == LET C[i \in 0..Len(r)] == IF i = 0 THEN 0 ELSE C[i - 1] + r[i].cost
                IN C[Len(r)]

Cheapest(rs) == {r \in rs : \A q \in rs : RouteCost(r) <= RouteCost(q)}

\* What a question may be answered in the graph of ns and ls, and what it
\* leaves marked: pairs of an answer and a set of nodes.
Replies(ns, ls, avoid, s, gs) ==
  LET rs == Routes(ls, s, gs, avoid)
  IN IF s \notin ns THEN {<<UnknownStart, avoid>>}
     ELSE IF rs = {} THEN {<<NoPath, avoid \cup Within(ls, s, avoid)>>}
     ELSE {<<Path(r), {}>> : r \in Cheapest(rs)}
------------------------------------------------------------------------------
AddLink(l) ==
  /\ nodes' = nodes \cup {l.src, l.next}
  /\ links' = links \cup {l}

Add(l) == answer = Nil /\ AddLink(l) /\ UNCHANGED <<marked, answer>>

Ask(s, gs) ==
  /\ answer = Nil
  /\ \E reply \in Replies(nodes, links, marked, s, gs) :
       answer' = reply[1] /\ marked' = reply[2]
  /\ UNCHANGED <<nodes, links>>

Take == answer # Nil /\ answer' = Nil /\ UNCHANGED <<nodes, links, marked>>

Next ==
  \/ \E l \in Link : Add(l)
  \/ \E s \in Names, gs \in (SUBSET Names) \ {{}} : Ask(s, gs)
  \/ Take

Spec == Init /\ [][Next]_<<nodes, links, marked, answer>>
==============================================================================
