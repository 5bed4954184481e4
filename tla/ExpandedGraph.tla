----------------------------- MODULE ExpandedGraph -----------------------------
(***************************************************************************)
(* The graphs the cutters run on (flow_cutter.h, node_flow_cutter.h).  The *)
(* road graph o has nodes 0 .. o.n-1 and arcs 0 .. o.m-1, sorted by tail   *)
(* and head, every arc with its back arc.  A plain graph gives each arc    *)
(* capacity 1.  The expanded graph splits node x in 2x (in) and 2x+1 (out):*)
(* arc 2a+f leaves the f-copy of the tail of a, and capacity 1 is on the   *)
(* arcs out -> in of a road and in -> out of a node, so that a cut of arcs *)
(* is a cut of nodes.                                                      *)
(***************************************************************************)
EXTENDS Integers, Sequences, SequencesExt, Ordered

Ids(k) == 0 .. k - 1

\* Symmetric, without loops and multiple arcs: what the command demands.
RoadGraph(n, roads, weightOf) ==
  LET arcs == InOrder({<<x, y>> \in Ids(n) \X Ids(n) : {x, y} \in roads /\ x # y},
                      LAMBDA p, q : p[1] < q[1] \/ (p[1] = q[1] /\ p[2] < q[2]))
      m == Len(arcs)
  IN [n |-> n, m |-> m, tail |-> [a \in Ids(m) |-> arcs[a + 1][1]], head |-> [a \in Ids(m) |-> arcs[a + 1][2]],
      weight |-> [a \in Ids(m) |-> weightOf[arcs[a + 1]]]]

OutArcs(o, x) == Ascending({a \in Ids(o.m) : o.tail[a] = x})
BackArc(o) == [a \in Ids(o.m) |-> CHOOSE b \in Ids(o.m) : o.tail[b] = o.head[a] /\ o.head[b] = o.tail[a]]

PlainGraph(o) ==
  [n |-> o.n, m |-> o.m, tail |-> o.tail, head |-> o.head, back |-> BackArc(o), weight |-> o.weight,
   capacity |-> [a \in Ids(o.m) |-> 1], out |-> [x \in Ids(o.n) |-> OutArcs(o, x)]]

ExpandedNode(x, out) == 2 * x + out
OriginalNode(x) == x \div 2
IsIntra(a, m) == a >= 2 * m
OutFlag(a) == a % 2
OriginalArc(a) == a \div 2
NodeOfIntra(a, m) == a \div 2 - m
IntraArc(x, out, m) == 2 * (m + x) + out

Expanded(o) ==
  LET arcs == Ids(2 * (o.n + o.m))
      back == BackArc(o)
      TailNode(a) == IF IsIntra(a, o.m) THEN NodeOfIntra(a, o.m) ELSE o.tail[OriginalArc(a)]
      HeadNode(a) == IF IsIntra(a, o.m) THEN NodeOfIntra(a, o.m) ELSE o.head[OriginalArc(a)]
      Back(a) == IF IsIntra(a, o.m) THEN IntraArc(NodeOfIntra(a, o.m), 1 - OutFlag(a), o.m)
                 ELSE 2 * back[OriginalArc(a)] + (1 - OutFlag(a))
      Out(x) == LET inter == OutArcs(o, OriginalNode(x))
                IN <<IntraArc(OriginalNode(x), OutFlag(x), o.m)>> \o [i \in DOMAIN inter |-> 2 * inter[i] + OutFlag(x)]
  IN [n |-> 2 * o.n, m |-> 2 * (o.n + o.m),
      tail |-> [a \in arcs |-> ExpandedNode(TailNode(a), OutFlag(a))],
      head |-> [a \in arcs |-> ExpandedNode(HeadNode(a), 1 - OutFlag(a))],
      back |-> [a \in arcs |-> Back(a)],
      weight |-> [a \in arcs |-> IF IsIntra(a, o.m) THEN 0 ELSE o.weight[OriginalArc(a)]],
      capacity |-> [a \in arcs |-> IF IsIntra(a, o.m) THEN 1 - OutFlag(a) ELSE OutFlag(a)],
      out |-> [x \in Ids(2 * o.n) |-> Out(x)]]

\* A cutter's terminals, carried over to the expanded graph.
ExpandedTerminals(t) ==
  [t EXCEPT !.order = [i \in 1 .. 2 * Len(t.order) |-> ExpandedNode(t.order[(i + 1) \div 2], (i + 1) % 2)],
            !.source = IF t.byDistance THEN ExpandedNode(t.source, 0) ELSE @,
            !.target = IF t.byDistance THEN ExpandedNode(t.target, 1) ELSE @]

SeparatorOfNodes(o, g, cut, sideSize) ==
  LET nodes == SelectSeq(cut, LAMBDA a : IsIntra(a, o.m)) IN {NodeOfIntra(nodes[i], o.m) : i \in DOMAIN nodes}
(***************************************************************************)
(* The separator of a cut: the cut nodes, and of each cut road the end on  *)
(* the side that is the larger one so far.  cut is the sequence of arcs    *)
(* out of the smaller side, sideSize the size of that side.                *)
(***************************************************************************)
Separator(o, g, cut, sideSize) ==
  LET nodes == SelectSeq(cut, LAMBDA a : IsIntra(a, o.m))
      roads == SelectSeq(cut, LAMBDA a : ~IsIntra(a, o.m))
      left == (sideSize - Len(nodes)) \div 2
      start == [sep |-> {NodeOfIntra(nodes[i], o.m) : i \in DOMAIN nodes}, left |-> left, right |-> o.n - Len(nodes) - left]
      Add(s, a) == IF s.left > s.right
                   THEN [s EXCEPT !.sep = @ \cup {OriginalNode(g.tail[a])}, !.left = @ - 1]
                   ELSE [s EXCEPT !.sep = @ \cup {OriginalNode(g.head[a])}, !.right = @ - 1]
  IN FoldLeft(Add, start, roads).sep
=============================================================================
