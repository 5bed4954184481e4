------------------------------ MODULE GraphWalks ------------------------------
(***************************************************************************)
(* The graph algorithms the dissection order is built from: preorder.h,    *)
(* connected_components.h and tree_node_ranking.h of InertialFlowCutter.   *)
(* A graph is the sequence of its nodes in the order of their local        *)
(* numbers, and the set of its roads, sets of two nodes (an arc each way). *)
(***************************************************************************)
EXTENDS Integers, Sequences, FiniteSets, SequencesExt

Members(s) == {s[i] : i \in DOMAIN s}
\* The successors of x: arcs are sorted by tail, then by head.
Neighbours(nodes, roads, x) == SelectSeq(nodes, LAMBDA y : {x, y} \in roads)

-----------------------------------------------------------------------------
RECURSIVE VisitFrom(_, _, _, _)
VisitFrom(nodes, roads, seen, x) ==
  IF x \in Members(seen) THEN seen
  ELSE FoldLeft(LAMBDA s, y : VisitFrom(nodes, roads, s, y), Append(seen, x), Neighbours(nodes, roads, x))

Preorder(nodes, roads) ==
  FoldLeft(LAMBDA s, r : VisitFrom(nodes, roads, s, r), <<>>, nodes)

\* In preorder a component is a range, and begins at a node without a road to an earlier one.
Begins(order, roads) == {i \in DOMAIN order : \A j \in 1 .. i - 1 : {order[i], order[j]} \notin roads}
Ranges(order, begins) ==
  LET EndOf(i) == CHOOSE j \in i .. Len(order) :
                    (j = Len(order) \/ j + 1 \in begins) /\ \A k \in i + 1 .. j : k \notin begins
      inTurn == SelectSeq([i \in DOMAIN order |-> i], LAMBDA i : i \in begins)
  IN [k \in DOMAIN inTurn |-> SubSeq(order, inTurn[k], EndOf(inTurn[k]))]
Components(nodes, roads) ==
  LET Of(order) == Ranges(order, Begins(order, roads)) IN Of(Preorder(nodes, roads))

-----------------------------------------------------------------------------
(***************************************************************************)
(* Biconnected components of a connected graph: a depth-first search that  *)
(* keeps the arcs it meets on a stack and closes a component on the way up *)
(* from x to y when nothing below x reaches above y.                       *)
(***************************************************************************)
Unreached == 1000
Lower(a, b) == IF b < a THEN b ELSE a

Close(s, x, y) ==
  LET from == CHOOSE i \in DOMAIN s.stack : s.stack[i] = <<y, x>>
      met == {{s.stack[i][1], s.stack[i][2]} : i \in from .. Len(s.stack)}
  IN [s EXCEPT !.stack = SubSeq(@, 1, from - 1), !.blocks = Append(@, met \ UNION Members(@))]

Up(s, x, y) ==
  LET Closed(up) == IF up.low[x] >= up.depth[y] THEN Close(up, x, y) ELSE up
  IN Closed([s EXCEPT !.stack = Append(@, <<x, y>>), !.low[y] = Lower(Lower(@, s.low[x]), s.depth[x])])

RECURSIVE Search(_, _, _, _)
Search(nodes, roads, s, x) ==
  LET Along(t, y) ==
        IF t.parent[x] = y THEN t
        ELSE IF t.depth[y] = Unreached
        THEN LET down == [t EXCEPT !.stack = Append(@, <<x, y>>), !.depth[y] = t.depth[x] + 1, !.parent[y] = x]
                 below == Search(nodes, roads, down, y)
             IN Up(below, y, x)
        ELSE [t EXCEPT !.stack = Append(@, <<x, y>>), !.low[x] = Lower(@, t.depth[y])]
  IN FoldLeft(Along, s, Neighbours(nodes, roads, x))

Blocks(nodes, roads) ==
  LET root == nodes[1]
      unseen == [x \in Members(nodes) |-> Unreached]
      start == [stack |-> <<>>, blocks |-> <<>>, low |-> unseen, depth |-> [unseen EXCEPT ![root] = 0],
                parent |-> [x \in Members(nodes) |-> -1]]
  IN Search(nodes, roads, start, root).blocks

\* The nodes of the component with most arcs, the first of several.
LargestBlock(nodes, roads) ==
  LET Arcs(blocks, k) == Cardinality(blocks[k])
      MostArcs(blocks) == UNION blocks[CHOOSE k \in DOMAIN blocks :
                             /\ \A j \in DOMAIN blocks : Arcs(blocks, j) <= Arcs(blocks, k)
                             /\ \A j \in 1 .. k - 1 : Arcs(blocks, j) < Arcs(blocks, k)]
  IN MostArcs(Blocks(nodes, roads))

-----------------------------------------------------------------------------
(***************************************************************************)
(* Optimal node ranking of a tree.  A subtree is known by the levels still *)
(* visible from its root, in descending order, and its size.               *)
(***************************************************************************)
Kept(list, above) == SelectSeq(list, LAMBDA l : l > above)
Pushed(list, q) == Append(Kept(list, q), q)
\* The first level from q up that the list does not hold.
FreeFrom(list, q) == CHOOSE l \in q .. q + Len(list) : l \notin Members(list) /\ \A k \in q .. l - 1 : k \in Members(list)

Levels(children) == UNION {Members(children[i].critical) : i \in DOMAIN children}
Largest(children) ==
  CHOOSE i \in DOMAIN children : /\ \A j \in DOMAIN children : children[j].size <= children[i].size
                                 /\ \A j \in 1 .. i - 1 : children[j].size < children[i].size
HighestOf(S) == IF S = {} THEN 0 ELSE CHOOSE x \in S : \A y \in S : y <= x

\* The root at a level q of its own hides the lower ones.
Above(list, q) == [critical |-> Pushed(list, q), level |-> q]
\* Below the highest level of the others what is seen from q up stays visible.
Between(list, highest, seen, q) ==
  [critical |-> Kept(list, highest) \o Reverse(SelectSeq([l \in 1 .. highest |-> l], LAMBDA l : l = q \/ (l > q /\ l \in seen))),
   level |-> q]
\* The root takes the first level above shared that no subtree sees.
Rooted(list, highest, shared, seen) ==
  IF shared + 1 .. highest \subseteq seen THEN Above(list, FreeFrom(list, highest + 1))
  ELSE Between(list, highest, seen, Min((shared + 1 .. highest) \ seen))

\* Mutant: a level two subtrees share does not block the levels below it.
JoinedLoosely(children) ==
  LET Of(first, others) == Rooted(first, HighestOf(others), 0, others \cup {l \in Members(first) : l <= HighestOf(others)})
      i == Largest(children)
  IN Of(children[i].critical, Levels(RemoveAt(children, i)))

\* Several subtrees: the root is above every level that two of them share.
SharedBy(children) ==
  {l \in Levels(children) : \E i, j \in DOMAIN children :
     i < j /\ l \in Members(children[i].critical) /\ l \in Members(children[j].critical)}
Joined(children) ==
  LET Of(first, others) == Rooted(first, HighestOf(others), HighestOf(SharedBy(children)),
                                  others \cup {l \in Members(first) : l <= HighestOf(others)})
      i == Largest(children)
  IN Of(children[i].critical, Levels(RemoveAt(children, i)))

RootLevel(children) ==
  LET OverOne(list) == Above(list, FreeFrom(list, 1))
  IN CASE Len(children) = 0 -> [critical |-> <<1>>, level |-> 1]
       [] Len(children) = 1 -> OverOne(children[1].critical)
       [] OTHER -> Joined(children)

RECURSIVE Ranked(_, _, _, _)
Ranked(nodes, roads, x, above) ==
  LET Subtree(children, root) ==
        [critical |-> root.critical,
         size |-> 1 + FoldLeft(LAMBDA n, c : n + c.size, 0, children),
         level |-> FoldLeft(LAMBDA f, c : f @@ c.level, x :> root.level, children)]
      Over(children) == Subtree(children, RootLevel(children))
      below == SelectSeq(Neighbours(nodes, roads, x), LAMBDA y : y # above)
  IN Over([i \in DOMAIN below |-> Ranked(nodes, roads, below[i], x)])

\* Nodes by level, those of a level by their numbers.
TreeOrder(nodes, roads) ==
  LET ByLevel(level) == FlattenSeq([l \in 1 .. HighestOf({level[x] : x \in Members(nodes)}) |->
                                      SelectSeq(nodes, LAMBDA x : level[x] = l)])
  IN ByLevel(Ranked(nodes, roads, nodes[1], -1).level)
=============================================================================
