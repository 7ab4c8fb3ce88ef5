---------------------------- MODULE DirectedGraph ----------------------------
(***************************************************************************)
(* The directed graph of pkg/algorithm/dijkstra.go: Add puts an edge in,    *)
(* ShortestPathWithMultipleGoals searches a cheapest path from one node to  *)
(* whichever of several goals it settles first.  The search keeps its       *)
(* working state (done, cost, prev, via) inside the nodes of the graph, so  *)
(* what one search leaves there is what the next one starts from.  Each     *)
(* loop iteration of the search is one step.                                *)
(***************************************************************************)
EXTENDS Integers, Sequences, FiniteSets

CONSTANTS
  Names,       \* the node names the clients use
  EdgeNames,   \* the edge names the clients use
  Costs,       \* the edge costs the clients use
  MaxEdges,    \* bound: how many edges are added
  Nil          \* a nil pointer

ASSUME CostsAssumption == Costs \subseteq Nat
ASSUME NilAssumption == Nil \notin Names

VARIABLES
  nodes,   \* the keys of the map DirectedGraph.nodes
  edges,   \* edges[n]: n's outgoing edges, in the order Add appended them
  label,   \* label[n]: the search fields of node n
  phase,   \* where the search is: "idle" when none is running
  start,   \* the search's arguments ...
  goals,
  cur,     \* the node at hand, in the main loop and in the walk back
  todo,    \* the edges of cur that calc has not looked at yet
  ret,     \* the nodes of the answer, as far as the walk back has come
  via,     \* the edges of the answer
  stale    \* history: the nodes marked done before the search began

graph == <<nodes, edges>>
query == <<start, goals, stale>>
vars == <<nodes, edges, label, phase, start, goals, cur, todo, ret, via, stale>>

Edge == [name : EdgeNames, next : Names, cost : Costs]
Label == [done : BOOLEAN, cost : Nat \cup {-1},
          prev : Names \cup {Nil}, via : Edge \cup {Nil}]
Unlabelled == [done |-> FALSE, cost |-> -1, prev |-> Nil, via |-> Nil]
OutEdges(n) == {edges[n][i] : i \in DOMAIN edges[n]}

Settled == {n \in nodes : label[n].done}
Reached == {n \in nodes : label[n].cost # -1}
Open == Reached \ Settled

NoSearch == /\ phase = "idle" /\ start = Nil /\ goals = {} /\ cur = Nil
            /\ todo = <<>> /\ ret = <<>> /\ via = <<>> /\ stale = {}

Init == /\ nodes = {}
        /\ edges = [n \in Names |-> <<>>]
        /\ label = [n \in Names |-> Unlabelled]
        /\ NoSearch
------------------------------------------------------------------------------
\* Missing nodes are created, then the edge is appended to its source.
AddEdge(src, dst, name, c) ==
  /\ nodes' = nodes \cup {src, dst}
  /\ edges' = [edges EXCEPT ![src] = Append(@, [name |-> name, next |-> dst, cost |-> c])]

Add(src, dst, name, c) ==
  /\ Cardinality(UNION {{n} \X DOMAIN edges[n] : n \in Names}) < MaxEdges
  /\ AddEdge(src, dst, name, c)
  /\ UNCHANGED <<label, phase, query, cur, todo, ret, via>>

\* A start that is not in the map is a nil pointer, dereferenced at once.
Search(s, gs) ==
  /\ phase = "idle"
  /\ start' = s /\ goals' = gs
  /\ stale' = Settled
  /\ IF s \in nodes
     THEN phase' = "next" /\ label' = [label EXCEPT ![s].cost = 0]
     ELSE phase' = "panic" /\ UNCHANGED label
  /\ UNCHANGED <<graph, cur, todo, ret, via>>

\* The cheapest open node is taken; which one of several is the map's order.
CheapestIsAny == Open
Cheapest == {n \in Open : \A m \in Open : label[n].cost <= label[m].cost}

NextNode ==
  /\ phase = "next"
  /\ \/ /\ Open = {}
        /\ phase' = "notFound"
        /\ UNCHANGED <<cur, todo>>
     \/ \E n \in Cheapest :
          /\ cur' = n
          /\ IF n \in goals
             THEN phase' = "back" /\ UNCHANGED todo
             ELSE phase' = "calc" /\ todo' = edges[n]
  /\ UNCHANGED <<graph, query, label, ret, via>>

\* One iteration of calc's loop: an edge that improves on what is known of its
\* target is recorded there, unless the target is already done.
ImprovesIfReached(e) ==
  /\ ~label[e.next].done
  /\ label[e.next].cost # -1
  /\ label[cur].cost + e.cost < label[e.next].cost
Improves(e) ==
  /\ ~label[e.next].done
  /\ \/ label[e.next].cost = -1
     \/ label[cur].cost + e.cost < label[e.next].cost

RelaxedNoPrev(e) == [label EXCEPT ![e.next] =
                       [@ EXCEPT !.cost = label[cur].cost + e.cost, !.via = e]]
RelaxedOldVia(e) == [label EXCEPT ![e.next] =
                       [@ EXCEPT !.cost = label[cur].cost + e.cost, !.prev = cur,
                                 !.via = IF @ = Nil THEN e ELSE @]]
Relaxed(e) == [label EXCEPT ![e.next] =
                 [@ EXCEPT !.cost = label[cur].cost + e.cost, !.prev = cur, !.via = e]]

Calc ==
  /\ phase = "calc"
  /\ todo # <<>>
  /\ todo' = Tail(todo)
  /\ label' = IF Improves(Head(todo)) THEN Relaxed(Head(todo)) ELSE label
  /\ UNCHANGED <<graph, query, phase, cur, ret, via>>

Settle ==
  /\ phase = "calc"
  /\ todo = <<>>
  /\ label' = [label EXCEPT ![cur].done = TRUE]
  /\ phase' = "next"
  /\ UNCHANGED <<graph, query, cur, todo, ret, via>>

\* From the goal along prev to the start; there every node is reset.
ResetLabels == [n \in Names |-> Unlabelled]

WalkBackViaFirst ==
  /\ phase = "back"
  /\ cur # Nil
  /\ ret' = <<cur>> \o ret
  /\ via' = <<label[cur].via>> \o via
  /\ IF cur = start THEN phase' = "found" /\ label' = ResetLabels /\ UNCHANGED cur
                    ELSE cur' = label[cur].prev /\ UNCHANGED <<phase, label>>
  /\ UNCHANGED <<graph, query, todo>>
WalkBackInPlace ==
  /\ phase = "back"
  /\ cur # Nil
  /\ Len(ret) < MaxEdges
  /\ ret' = <<cur>> \o ret
  /\ IF cur = start THEN phase' = "found" /\ label' = ResetLabels /\ UNCHANGED via
                    ELSE via' = <<label[cur].via>> \o via /\ UNCHANGED <<phase, label>>
  /\ UNCHANGED <<graph, query, cur, todo>>
WalkBack ==
  /\ phase = "back"
  /\ cur # Nil
  /\ ret' = <<cur>> \o ret
  /\ IF cur = start
     THEN /\ phase' = "found"
          /\ label' = ResetLabels
          /\ UNCHANGED <<cur, via>>
     ELSE /\ via' = <<label[cur].via>> \o via
          /\ cur' = label[cur].prev
          /\ UNCHANGED <<phase, label>>
  /\ UNCHANGED <<graph, query, todo>>

\* The caller takes the answer, the error or the recovered panic.
Return ==
  /\ phase \in {"found", "notFound", "panic"}
  /\ phase' = "idle" /\ start' = Nil /\ goals' = {} /\ cur' = Nil
  /\ todo' = <<>> /\ ret' = <<>> /\ via' = <<>> /\ stale' = {}
  /\ UNCHANGED <<graph, label>>

SearchStep == NextNode \/ Calc \/ Settle \/ WalkBack \/ Return

\* The clients serialise their calls: nothing is added while a search runs.
Next ==
  \/ /\ phase = "idle"
     /\ \E src, dst \in Names, name \in EdgeNames, c \in Costs : Add(src, dst, name, c)
  \/ \E s \in Names, gs \in (SUBSET Names) \ {{}} : Search(s, gs)
  \/ SearchStep

Spec == Init /\ [][Next]_vars
------------------------------------------------------------------------------
Phases == {"idle", "next", "calc", "back", "found", "notFound", "panic"}

\* The working state of a search has the types of the Go fields.
TypeOK ==
  /\ nodes \subseteq Names
  /\ edges \in [Names -> Seq(Edge)]
  /\ label \in [Names -> Label]
  /\ phase \in Phases
  /\ start \in Names \cup {Nil}
  /\ goals \subseteq Names
  /\ cur \in Names \cup {Nil}
  /\ todo \in Seq(Edge)
  /\ ret \in Seq(Names)
  /\ via \in Seq(Edge)
  /\ stale \subseteq Names

\* The edges lead through the nodes, in order.
IsPath(ns, es) ==
  /\ Len(ns) = Len(es) + 1
  /\ \A i \in 1..Len(es) : es[i] \in OutEdges(ns[i]) /\ es[i].next = ns[i + 1]

\* What a search returns is a path of the graph from its start to one of its
\* goals: the walk back (lines 121-140) never strays into fields that an
\* earlier, failed search left behind.
FoundIsPath ==
  phase = "found" => /\ IsPath(ret, via)
                     /\ ret[1] = start
                     /\ ret[Len(ret)] \in goals

\* The walk back never follows a nil prev: a search panics only on a start
\* that was never added.
NoNilDereference ==
  /\ phase = "back" => cur # Nil
  /\ phase = "panic" => start \notin nodes

\* The walk back comes to each node once, also around circles of edges that cost
\* nothing: it ends.
WalkBackEnds ==
  phase = "back" => \A i \in 1..Len(ret) :
                      ret[i] # cur /\ \A j \in 1..Len(ret) : ret[i] = ret[j] => i = j

\* Between searches no node is left half processed: one that carries a cost is
\* also marked done.  So what a failed search leaves can hide a path from the
\* next one, but cannot bend one.
NothingHalfDone == phase = "idle" => Open = {}

\* No goal can be reached: the start lies in a set without goals that no edge
\* leaves.
Unreachable ==
  \E S \in SUBSET nodes :
    /\ start \in S
    /\ S \cap goals = {}
    /\ \A n \in S : \A e \in OutEdges(n) : e.next \in S

\* "Goal not found" (lines 107-109) is true of a search that started on reset
\* nodes.
NotFoundIsTrue == phase = "notFound" /\ stale = {} => Unreachable

\* The same of every search.  The code breaks it: the error return skips the
\* reset of line 142, and a later search treats what the failed one marked done
\* as processed already, its own start included.
NotFoundIsAlwaysTrue == phase = "notFound" => Unreachable

\* What PathSearch sees of a search: its answer from the end to the return, and the
\* marks of earlier searches until then.
LinkOf(n, e) == [src |-> n, name |-> e.name, next |-> e.next, cost |-> e.cost]
Answer ==
  CASE phase = "found" -> [kind |-> "path",
                           route |-> [i \in 1..Len(via) |-> LinkOf(ret[i], via[i])]]
    [] phase = "notFound" -> [kind |-> "no path", route |-> <<>>]
    [] phase = "panic" -> [kind |-> "unknown start", route |-> <<>>]
    [] OTHER -> Nil

Links == UNION {{LinkOf(n, e) : e \in OutEdges(n)} : n \in Names}
Marked == IF phase \in {"next", "calc", "back"} THEN stale ELSE Settled

Oracle == INSTANCE PathSearch WITH links <- Links, marked <- Marked, answer <- Answer

\* The search implements PathSearch, which answers at once: its answer is a
\* cheapest path over all goals that avoids what is marked, it finds one whenever
\* there is one, and what it leaves marked is exactly what it came to (lines
\* 93-151).
AnswersAtOnce == Oracle!Spec
==============================================================================
