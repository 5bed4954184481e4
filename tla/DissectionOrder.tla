--------------------------- MODULE DissectionOrder ---------------------------
(***************************************************************************)
(* The order in which a customizable hierarchy contracts the nodes of the  *)
(* road graph: compute_cch_graph_order (min_fill_in.h).  A problem is a    *)
(* set of nodes, the roads left among them and the first of the slots of   *)
(* the order that are theirs.  It is split into components, some of which  *)
(* go to the end: around the largest biconnected component, between chains *)
(* of nodes of degree two and the core, around a separator.  Large         *)
(* components are tasks of their own, the others are taken in turn.        *)
(***************************************************************************)
EXTENDS GraphWalks, Ordered

CONSTANTS
  Graphs,          \* the road graphs: nodes 0 .. n-1 and roads
  TaskSpawnCutoff  \* components above this size are tasks (800)

ASSUME TaskSpawnCutoffAssumption == TaskSpawnCutoff \in Nat

VARIABLES
  graph,  \* the graph to be ordered
  tasks,  \* the sequences of problems that threads are working through
  order   \* the order so far: slots to nodes

\* History only: families of components that the order keeps apart.
VARIABLE apart

vars == <<graph, tasks, order, apart>>

\* A set holds each road once; loops go.
Simple(roads) == {r \in roads : Cardinality(r) = 2}
NodeIds(g) == [i \in 1 .. g.n |-> i - 1]
Within(roads, S) == {r \in roads : r \subseteq S}
\* The roads that neither enter nor leave S.
NotAcross(roads, S) == {r \in roads : r \subseteq S \/ r \cap S = {}}

-----------------------------------------------------------------------------
\* Cliques and single nodes as they come, trees by an optimal ranking.
Trivial(p) ==
  LET n == Len(p.nodes) arcs == 2 * Cardinality(p.roads)
  IN n * (n - 1) = arcs \/ arcs = 0 \/ arcs = 2 * (n - 1)
TrivialOrder(p) ==
  IF Len(p.nodes) * (Len(p.nodes) - 1) = 2 * Cardinality(p.roads) \/ p.roads = {} THEN p.nodes ELSE TreeOrder(p.nodes, p.roads)

\* A component fills the slots at the front, or those at the back.
Placed(placed, component, atEnd) ==
  LET n == Len(component)
  IN IF component[1] \in atEnd
     THEN [placed EXCEPT !.back = @ - n, !.begin = Append(@, placed.back - n)]
     ELSE [placed EXCEPT !.front = @ + n, !.begin = Append(@, placed.front)]

\* The components of p with the roads it is left with; those of atEnd go last.
Slots(p, components, atEnd) ==
  FoldLeft(LAMBDA s, c : Placed(s, c, atEnd), [front |-> p.begin, back |-> p.begin + Len(p.nodes), begin |-> <<>>], components).begin
Part(p, component, roads, begin, atEnd, stage) ==
  [nodes |-> component, roads |-> Within(roads, Members(component)), begin |-> begin, stage |-> stage,
   whole |-> p.whole /\ (p.stage = "cut" => component[1] \notin atEnd)]
Parts(p, roads, atEnd, stage) ==
  LET Of(components, slots) ==
        IF Len(components) = 1 THEN <<[p EXCEPT !.roads = roads, !.stage = stage]>>
        ELSE [k \in DOMAIN components |-> Part(p, components[k], roads, slots[k], atEnd, stage)]
      Into(components) == Of(components, Slots(p, components, atEnd))
  IN Into(Components(p.nodes, roads))

\* A connected graph is passed on as it is; one large component alone is no task.
Spawned(parts) ==
  LET Large(p) == Len(p.nodes) > TaskSpawnCutoff
      Tasks(large, small) == IF Len(large) = 1 THEN [large |-> <<>>, small |-> Append(small, large[1])]
                             ELSE [large |-> large, small |-> small]
  IN Tasks(SelectSeq(parts, Large), SelectSeq(parts, LAMBDA p : ~Large(p)))

\* The nodes of the parts that come first.
Before(parts, atEnd) == {Members(parts[k].nodes) : k \in {j \in DOMAIN parts : parts[j].nodes[1] \notin atEnd}}
\* What is left of a task, unless nothing is.
Rest(problems) == IF problems = <<>> THEN {} ELSE {problems}
Split(task, roads, atEnd, stage) ==
  LET p == Head(task)
  IN \E parts \in {Parts(p, roads, atEnd, stage)} :
       /\ \E spawned \in {Spawned(parts)} :
            tasks' = (tasks \ {task}) \cup {<<spawned.large[k]>> : k \in DOMAIN spawned.large} \cup Rest(spawned.small \o Tail(task))
       /\ apart' = IF p.whole /\ Cardinality(Before(parts, atEnd)) > 1 THEN apart \cup {Before(parts, atEnd)} ELSE apart
       /\ UNCHANGED <<graph, order>>

-----------------------------------------------------------------------------
\* The nodes that are not in the largest block hang on it by single nodes.
TakeBlock(task) ==
  LET p == Head(task)
  IN /\ p.stage = "block" /\ ~Trivial(p)
     /\ \E block \in {LargestBlock(p.nodes, p.roads)} : Split(task, NotAcross(p.roads, block), block, "chain")

Degree(p, x) == Cardinality({r \in p.roads : x \in r})
RECURSIVE ChainFrom(_, _, _)
ChainFrom(p, before, now) ==
  IF Degree(p, now) # 2 THEN <<before, now>>
  ELSE ChainFrom(p, now, CHOOSE y \in Members(p.nodes) \ {before} : {now, y} \in p.roads)

\* A chain from the core into the core: its first road, its last and its ends.
Chains(p, core) ==
  {LET far == ChainFrom(p, e[1], e[2])
   IN [first |-> {e[1], e[2]}, last |-> {far[1], far[2]}, ends |-> {e[1], far[2]}, deadEnd |-> Degree(p, far[2]) = 1] :
     e \in {f \in core \X (Members(p.nodes) \ core) : {f[1], f[2]} \in p.roads}}

\* Mutant: the core is left without the shortcuts.
CutOffChains(p, core) ==
  p.roads \ UNION {{c.first} \cup (IF c.deadEnd THEN {} ELSE {c.last}) : c \in Chains(p, core)}

\* Chains lose their roads to the core, which gets a shortcut for each chain
\* between two of its nodes.
Contracted(p, core) ==
  LET Without(chains) ==
        (p.roads \ UNION {{c.first} \cup (IF c.deadEnd THEN {} ELSE {c.last}) : c \in chains})
          \cup {c.ends : c \in {d \in chains : ~d.deadEnd /\ Cardinality(d.ends) = 2}}
  IN Without(Chains(p, core))

ContractChains(task) ==
  LET p == Head(task) core == {x \in Members(p.nodes) : Degree(p, x) > 2}
  IN /\ p.stage = "chain" /\ ~Trivial(p)
     /\ Split(task, Contracted(p, core), core, "cut")

\* Any nodes may be the separator; when it is all of them no road is kept.
Dissect(task) ==
  LET p == Head(task)
  IN /\ p.stage = "cut" /\ ~Trivial(p)
     /\ \E separator \in SUBSET Members(p.nodes) \ {{}} :
          Split(task, IF separator = Members(p.nodes) THEN {} ELSE NotAcross(p.roads, separator), separator, "cut")

\* The whole graph, which need not be connected, and nothing goes to the end.
Begin(task) ==
  /\ Head(task).stage = "all"
  /\ Split(task, Head(task).roads, {}, "block")

PlaceTrivial(task) ==
  LET p == Head(task)
  IN /\ p.stage # "all" /\ Trivial(p)
     /\ \E nodes \in {TrivialOrder(p)} :
          order' = [i \in p.begin .. p.begin + Len(nodes) - 1 |-> nodes[i - p.begin + 1]] @@ order
     /\ tasks' = (tasks \ {task}) \cup Rest(Tail(task))
     /\ UNCHANGED <<graph, apart>>

Init ==
  /\ graph \in Graphs
  /\ tasks = {<<[nodes |-> NodeIds(graph), roads |-> Simple(graph.roads), begin |-> 0, stage |-> "all", whole |-> TRUE]>>}
  /\ order = <<>> /\ apart = {}

Next == \E task \in tasks : Begin(task) \/ TakeBlock(task) \/ ContractChains(task) \/ Dissect(task) \/ PlaceTrivial(task)
Spec == Init /\ [][Next]_vars

-----------------------------------------------------------------------------
\* The neighbours of a node when its turn comes, all nodes before it contracted.
Contraction(nodes, roads) ==
  FoldLeft(LAMBDA s, x :
             LET later == {y \in s.left \ {x} : {x, y} \in s.roads}
             IN [left |-> s.left \ {x}, met |-> s.met @@ (x :> later),
                 roads |-> s.roads \cup {{e[1], e[2]} : e \in {f \in later \X later : f[1] # f[2]}}],
           [left |-> Members(nodes), met |-> <<>>, roads |-> roads], nodes)

Result == [i \in 1 .. graph.n |-> order[i - 1]]

(***************************************************************************)
(* However the tasks are interleaved and whatever separators are found,    *)
(* the order that is left names every node once, and contracting the nodes *)
(* in that order joins no two parts that a separator, the core or the      *)
(* largest block was to keep apart.  Inside a separator nothing of the     *)
(* kind is promised: its parts may be joined through the nodes before it.  *)
(***************************************************************************)
OrderDissects ==
  tasks = {} =>
    /\ DOMAIN order = 0 .. graph.n - 1
    /\ {order[i] : i \in DOMAIN order} = Members(NodeIds(graph))
    /\ LET filled == Contraction(Result, graph.roads).roads
       IN \A family \in apart : \A S, T \in family :
            S # T => \A x \in S, y \in T : {x, y} \notin filled

\* The least height any order can have: some node comes last, the parts it leaves before it.
RECURSIVE Depth(_, _)
Depth(nodes, roads) ==
  IF Cardinality(nodes) <= 1 THEN Cardinality(nodes)
  ELSE LET start == CHOOSE x \in nodes : TRUE
           Of(S) == Depth(S, Within(roads, S))
           With(mine) == IF mine = nodes THEN 1 + Min({Of(nodes \ {x}) : x \in nodes})
                         ELSE Max({Of(mine), Of(nodes \ mine)})
       IN With(Members(VisitFrom(Ascending(nodes), roads, <<>>, start)))

\* The nodes a query may visit: the longest way up the elimination tree.
Height(nodes, roads) ==
  LET Place(x) == CHOOSE i \in DOMAIN nodes : nodes[i] = x
      Lowest(S) == CHOOSE y \in S : \A z \in S : Place(y) <= Place(z)
      Heights(met) == FoldRight(LAMBDA x, h : h @@ (x :> IF met[x] = {} THEN 1 ELSE 1 + h[Lowest(met[x])]), nodes, <<>>)
      Highest(height) == Max({height[x] : x \in Members(nodes)})
  IN Highest(Heights(Contraction(nodes, roads).met))

(***************************************************************************)
(* "Optimal for trees": the elimination tree of a tree's order is as low   *)
(* as that of any order of it.                                             *)
(***************************************************************************)
TreesAreShallow ==
  (tasks = {} /\ Cardinality(graph.roads) = graph.n - 1) =>
    Height(Result, graph.roads) = Depth(Members(NodeIds(graph)), graph.roads)
=============================================================================
