----------------------- MODULE ContractionHierarchyInv -----------------------
(***************************************************************************)
(* Why contracting nodes keeps the distances between the others, whatever  *)
(* the witness searches find and whenever they give up.  A distance that a *)
(* search notes is that of some real way around the contracted node; so a  *)
(* shortcut that is left out is needless, and one that is added is never   *)
(* shorter than the two arcs it stands for.                                *)
(***************************************************************************)
EXTENDS ContractionHierarchyQuery

Contracting == pc \in {"pin", "target", "search"}
Searching == pc \in {"target", "search"}
Working == pc = "pick" \/ Contracting

(* The remaining graph has no loops; what was contracted is not remaining.  *)
Links == {p \in Nodes \X Nodes : p[1] # p[2]}
GraphOK ==
  /\ input \in Inputs
  /\ Working => DOMAIN graph \subseteq Links /\ \A p \in DOMAIN graph : graph[p].weight \in Nat
  /\ Contracting => cur.node \in DOMAIN rank

KeepsOK == Working => \A p \in Remaining \X Remaining : DistancesIn(graph)[p] = TrueDistance[p]

(* Around the node being contracted there is a way from u to t that is no    *)
(* longer than the one over it.                                             *)
Around == DistancesIn(RemoveAllIncidentArcs(graph, cur.node))
Needless(u, t) == Around[<<u, t>>] <= graph[<<u, cur.node>>].weight + graph[<<cur.node, t>>].weight

(* This is so for all in-arcs that are done and, for the one at hand, all    *)
(* targets that are done.                                                   *)
Sources == In(graph, cur.node)
Targets(u) == Out(graph, cur.node) \ {u}
Done(u) == \A t \in Targets(u) : Needless(u, t)
SourcesOK ==
  /\ Contracting => DOMAIN cur \in SUBSET {"node", "ins", "source", "outs", "target"} /\ {"node", "ins"} \subseteq DOMAIN cur
                    /\ cur.ins \subseteq Sources
  /\ pc = "pin" => \A u \in Sources \ cur.ins : Done(u)
  /\ Searching => \A u \in Sources \ cur.ins : u = cur.source \/ Done(u)
TargetsOK ==
  /\ Searching => {"source", "outs"} \subseteq DOMAIN cur /\ cur.source \in Sources /\ cur.outs \subseteq Targets(cur.source)
  /\ pc = "target" => \A t \in Targets(cur.source) \ cur.outs : Needless(cur.source, t)
  /\ pc = "search" => /\ "target" \in DOMAIN cur /\ cur.target \in Targets(cur.source)
                      /\ \A t \in Targets(cur.source) \ cur.outs : t = cur.target \/ Needless(cur.source, t)

(* What a search has noted of a node is the length of some way to it (from   *)
(* it, backward) around the contracted node.                                *)
Real(d, y, way) ==
  /\ y \in Nodes \ {cur.node} /\ way \in Nat
  /\ way >= IF d = "f" THEN Around[<<cur.source, y>>] ELSE Around[<<y, cur.target>>]
Noted(d) == /\ \A y \in DOMAIN search.dist[d] : Real(d, y, search.dist[d][y])
            /\ \A y \in DOMAIN search.q[d] : Real(d, y, search.q[d][y])
SearchOK ==
  /\ Searching => /\ DOMAIN search = {"q", "dist", "pops"} /\ DOMAIN search.q = Dirs /\ DOMAIN search.dist = Dirs
                  /\ Noted("f")
  /\ pc = "search" => Noted("b")

IInv == GraphOK /\ KeepsOK /\ SourcesOK /\ TargetsOK /\ SearchOK
-----------------------------------------------------------------------------
(***************************************************************************)
(* Why the arcs that are kept make a hierarchy.  Every arc leads from a     *)
(* contracted node up, and is either an arc of the road graph or stands for *)
(* two arcs of a lower node; and a shortest way up from a node begins with  *)
(* one of its arcs.  The graph arc an arc of side d stands for is           *)
(* SearchArc(d, x, y).                                                      *)
(***************************************************************************)
Stands(clean, D, s, a, e) ==
  /\ a.weight \in Nat /\ D[e] <= a.weight
  /\ a.mid = NoId => e \in DOMAIN clean /\ a.weight = clean[e].weight
  /\ a.mid # NoId => /\ <<a.mid, e[1]>> \in DOMAIN s["b"] /\ <<a.mid, e[2]>> \in DOMAIN s["f"]
                     /\ a.weight = s["b"][<<a.mid, e[1]>>].weight + s["f"][<<a.mid, e[2]>>].weight

\* y is contracted after x, or will be
Later(r, x, y) == y \notin DOMAIN r \/ r[x] < r[y]
LeadsUp(nodes, r, p) == p \in (DOMAIN r) \X nodes /\ p[1] # p[2] /\ Later(r, p[1], p[2])
SideIs(clean, D, nodes, r, s) ==
  \A d \in Dirs : \A p \in DOMAIN s[d] :
    LeadsUp(nodes, r, p) /\ Stands(clean, D, s, s[d][p], SearchArc(d, p[1], p[2]))

\* a way from x (to x, for "b") to y that goes up first
Hop(D, s, d, x, y) ==
  \E p \in DOMAIN s[d] : p[1] = x /\ s[d][p].weight + D[SearchArc(d, p[2], y)] = D[SearchArc(d, x, y)]
HopsIn(D, nodes, r, s) ==
  \A d \in Dirs : \A x \in DOMAIN r, y \in nodes :
    x # y /\ Later(r, x, y) /\ D[SearchArc(d, x, y)] < Inf => Hop(D, s, d, x, y)

RankIs(nodes, r) ==
  /\ DOMAIN r \subseteq nodes
  /\ \A x \in DOMAIN r : r[x] \in Nat /\ r[x] < Cardinality(DOMAIN r)
  /\ \A x, y \in DOMAIN r : r[x] = r[y] => x = y
InOrder(o, nodes, r) ==
  /\ o \in GivenOrders /\ Range(o) = nodes /\ Cardinality(DOMAIN r) <= Len(o)
  /\ DOMAIN r = {o[i] : i \in 1 .. Cardinality(DOMAIN r)}

Unfinished == Working \/ pc = "order"
RanksOK == /\ Unfinished => RankIs(Nodes, rank) /\ (mode = "rank" => InOrder(given, Nodes, rank))
           /\ pc = "order" => DOMAIN rank = Nodes
SideOK == Unfinished => /\ DOMAIN side = Dirs
                        /\ SideIs(CleanGraph, TrueDistance, Nodes, rank, side)
                        /\ HopsIn(TrueDistance, Nodes, rank, side)
InPlay == IF Contracting THEN Remaining \cup {cur.node} ELSE Remaining
CoreOK == /\ Working => \A e \in DOMAIN graph : /\ e[1] \in InPlay /\ e[2] \in InPlay
                                                /\ Stands(CleanGraph, TrueDistance, side, graph[e], e)
          /\ Contracting => \A d \in Dirs, y \in Nodes :
               SearchArc(d, cur.node, y) \in DOMAIN graph =>
                 /\ <<cur.node, y>> \in DOMAIN side[d]
                 /\ side[d][<<cur.node, y>>].weight = graph[SearchArc(d, cur.node, y)].weight

(* The finished hierarchy, with the nodes renamed to their positions in the *)
(* order.  Its levels are when the nodes were contracted, which the order   *)
(* that is good for the cache need not follow.                              *)
Named(h, D, d, x, y) == D[SearchArc(d, h.order[x + 1], h.order[y + 1])]
OrderIs(nodes, h) ==
  /\ h.order \in [1 .. input.n -> nodes] /\ h.rank \in [nodes -> nodes]
  /\ \A x \in nodes : h.order[h.rank[x] + 1] = x /\ h.rank[h.order[x + 1]] = x
UnpacksTo(h, clean, a, e) ==
  IF a.original
  THEN /\ <<h.order[e[1] + 1], h.order[e[2] + 1]>> \in DOMAIN clean
       /\ a.first = InputArcId[<<h.order[e[1] + 1], h.order[e[2] + 1]>>] /\ a.second = h.order[e[2] + 1]
       /\ a.weight = clean[<<h.order[e[1] + 1], h.order[e[2] + 1]>>].weight
  ELSE /\ a.first \in DOMAIN h.side["b"] /\ a.second \in DOMAIN h.side["f"]
       /\ a.first[2] = e[1] /\ a.second[2] = e[2] /\ a.first[1] = a.second[1]
       /\ a.weight = h.side["b"][a.first].weight + h.side["f"][a.second].weight
UpwardIs(nodes, h, clean, D, level) ==
  \A d \in Dirs : \A p \in DOMAIN h.side[d] :
    /\ p \in nodes \X nodes /\ p[1] < p[2] /\ level[p[1]] < level[p[2]]
    /\ h.side[d][p].weight \in Nat /\ Named(h, D, d, p[1], p[2]) <= h.side[d][p].weight
    /\ UnpacksTo(h, clean, h.side[d][p], SearchArc(d, p[1], p[2]))
HopsUp(nodes, h, D, level) ==
  \A d \in Dirs : \A x, y \in nodes :
    level[x] < level[y] /\ Named(h, D, d, x, y) < Inf =>
      \E p \in DOMAIN h.side[d] :
        p[1] = x /\ h.side[d][p].weight + Named(h, D, d, p[2], y) = Named(h, D, d, x, y)
IsLevels(nodes, h, clean, D, level) ==
  /\ level \in [nodes -> nodes] /\ \A x, y \in nodes : level[x] = level[y] => x = y
  /\ UpwardIs(nodes, h, clean, D, level) /\ HopsUp(nodes, h, D, level)
Levelled(nodes, h, clean, D) == \E level \in [nodes -> nodes] : IsLevels(nodes, h, clean, D, level)
HierarchyOK == pc = "built" => /\ OrderIs(Nodes, ch) /\ DOMAIN ch.side = Dirs
                               /\ Levelled(Nodes, ch, CleanGraph, TrueDistance)

HInv == RanksOK /\ SideOK /\ CoreOK /\ HierarchyOK
-----------------------------------------------------------------------------
(***************************************************************************)
(* Why a query finds the best distance although it only looks upward,      *)
(* leaves stalled nodes unexpanded and stops early.  best[x] is the         *)
(* distance from what was added to x (from x, backward), which no label is  *)
(* below.  For a node that is the highest one on all its best ways, the     *)
(* highest node on them with a right label is still in the queue, or the    *)
(* node has its right label: a stalled node has a higher one before it, and *)
(* an expanded one puts the next higher one into the queue.                 *)
(***************************************************************************)
Gaps(nodes, h, D, d) == [e \in nodes \X nodes |-> Named(h, D, d, e[1], e[2])]
ArcWeights(h, d) == [p \in DOMAIN h.side[d] |-> h.side[d][p].weight]
Starts(h, src) == [x \in {h.rank[s] : s \in DOMAIN src} |-> src[h.order[x + 1]]]
Bests(nodes, h, D, d, src) == [x \in nodes |-> BestFrom(src, h.order[x + 1], IF d = "f" THEN D ELSE Turned(D))]

IsFresh(start, qu, fl, tent, pn) ==
  /\ fl = DOMAIN start /\ DOMAIN qu = DOMAIN start
  /\ \A x \in DOMAIN start : qu[x] = start[x] /\ tent[x] = start[x] /\ pn[x] = NoId
IsLabelled(nodes, up, start, best, qu, fl, tent, pn, pa) ==
  /\ DOMAIN qu \subseteq fl /\ fl \subseteq nodes /\ \A x \in DOMAIN qu : qu[x] = tent[x]
  /\ \A x \in fl : /\ tent[x] \in Nat /\ tent[x] <= Inf /\ best[x] <= tent[x]
                   /\ pn[x] = NoId => x \in DOMAIN start /\ tent[x] = start[x]
                   /\ pn[x] # NoId => /\ pn[x] \in fl /\ pa[x] = <<pn[x], x>> /\ pa[x] \in DOMAIN up
                                      /\ tent[pn[x]] + up[pa[x]] <= tent[x] /\ tent[x] < Inf
IsTop(nodes, level, gap, best, z) ==
  best[z] < Inf /\ \A x \in nodes : best[x] + gap[<<x, z>>] = best[z] => level[x] <= level[z]
Tights(gap, best, fl, tent, z) == {x \in fl : tent[x] = best[x] /\ best[x] + gap[<<x, z>>] = best[z]}
Progresses(nodes, level, gap, best, qu, fl, tent) ==
  \A z \in nodes : IsTop(nodes, level, gap, best, z) =>
    \/ z \in Tights(gap, best, fl, tent, z)
    \/ \E x \in Tights(gap, best, fl, tent, z) : x \in DOMAIN qu /\ \A y \in Tights(gap, best, fl, tent, z) : level[y] <= level[x]

IsLiveAt(nodes, h, clean, D, d, src, qu, fl, tent, pn, pa) ==
  /\ IsLabelled(nodes, ArcWeights(h, d), Starts(h, src), Bests(nodes, h, D, d, src), qu, fl, tent, pn, pa)
  /\ \A level \in [nodes -> nodes] : IsLevels(nodes, h, clean, D, level) =>
       Progresses(nodes, level, Gaps(nodes, h, D, d), Bests(nodes, h, D, d, src), qu, fl, tent)
IsJoined(qu, fl, tent, ln, at) ==
  /\ ln \in Nat /\ ln <= Inf
  /\ at = NoId => ln = Inf
  /\ at # NoId => at \in fl["f"] \cap fl["b"] /\ tent["f"][at] + tent["b"][at] <= ln /\ ln < Inf
  /\ \A x \in fl["f"] \cap fl["b"] : x \in DOMAIN qu["f"] \/ x \in DOMAIN qu["b"] \/ ln <= tent["f"][x] + tent["b"][x]
FreshSide(d) == IsFresh(Starts(ch, asked.src[d]), q[d], flag[d], dist[d], pnode[d])
LiveSide(d) == IsLiveAt(Nodes, ch, CleanGraph, TrueDistance, d, asked.src[d], q[d], flag[d], dist[d], pnode[d], parc[d])
Joined == IsJoined(q, flag, dist, len, meet)

(* The lists of the pinned side: its nodes, and all above them from the     *)
(* highest down.  The nodes of a hierarchy are numbered upward.             *)
ArePins(nodes, h, p, pins, ids, cnt, sel, number) ==
  /\ number \in Nat /\ cnt = Len(pins) /\ cnt \in Nat
  /\ \A i \in 0 .. number - 1 :
       /\ sel[i] \in nodes
       /\ \A y \in nodes : <<sel[i], y>> \in DOMAIN h.side[p] => \E j \in 0 .. i - 1 : sel[j] = y
  /\ \A i, j \in 0 .. number - 1 : sel[i] = sel[j] => i = j
  /\ \A i \in 1 .. cnt : /\ pins[i] \in nodes /\ ids[i - 1] = h.rank[pins[i]]
                         /\ \E j \in 0 .. number - 1 : sel[j] = ids[i - 1]
PinsOK(p) == ArePins(Nodes, ch, p, asked.pins, pnode[p], count, dist[p], meet)
IsSwept(best, sel, number, tent) == \A i \in 0 .. number - 1 : tent[sel[i]] = best[sel[i]]

(* The sweep leaves every node an explanation of its distance.  A node that *)
(* keeps its flag has the label of the upward search, and so has, as none   *)
(* of them was too long, every node its way up came over; one that lost it  *)
(* was improved over an arc from a node swept before.                       *)
IsTraced(nodes, up, down, start, best, sel, number, fl, tent, pn, pa) ==
  /\ fl \subseteq nodes
  /\ \A y \in fl : /\ tent[y] \in Nat
                   /\ pn[y] # NoId => pn[y] \in nodes /\ pa[y] = <<pn[y], y>> /\ pa[y] \in DOMAIN up
  /\ \A y \in fl : tent[y] = best[y] =>
       IF pn[y] = NoId THEN y \in DOMAIN start /\ tent[y] = start[y]
       ELSE pn[y] \in fl /\ tent[pn[y]] = best[pn[y]] /\ tent[pn[y]] + up[pa[y]] <= tent[y]
  /\ \A i \in 0 .. number - 1 : sel[i] \notin fl =>
       IF pa[sel[i]] = NoId THEN tent[sel[i]] = Inf
       ELSE \E y \in nodes : /\ pa[sel[i]] = <<sel[i], y>> /\ <<sel[i], y>> \in DOMAIN down
                             /\ tent[y] + down[<<sel[i], y>>] = tent[sel[i]] /\ tent[sel[i]] < Inf
IsSweptAt(nodes, h, D, d, src, sel, number, fl, tent, pn, pa) ==
  /\ IsSwept(Bests(nodes, h, D, d, src), sel, number, tent)
  /\ IsTraced(nodes, ArcWeights(h, d), ArcWeights(h, Opposite(d)), Starts(h, src), Bests(nodes, h, D, d, src),
              sel, number, fl, tent, pn, pa)
SweptOK(d) == IsSweptAt(Nodes, ch, TrueDistance, d, asked.src[d], dist[Opposite(d)], meet,
                        flag[d], dist[d], pnode[d], parc[d])

SourcesAre(nodes, src) == DOMAIN src \subseteq nodes /\ \A s \in DOMAIN src : src[s] \in Nat /\ src[s] <= Inf
AskedIs(nodes, what) ==
  /\ DOMAIN what = {"src", "pins"} /\ DOMAIN what.src = Dirs /\ \A d \in Dirs : SourcesAre(nodes, what.src[d])
Shaped(nodes, qu, fl, tent, pn, pa) ==
  /\ DOMAIN qu = Dirs /\ DOMAIN fl = Dirs /\ DOMAIN tent = Dirs /\ DOMAIN pn = Dirs /\ DOMAIN pa = Dirs
  /\ \A d \in Dirs : DOMAIN tent[d] = nodes /\ DOMAIN pn[d] = nodes /\ DOMAIN pa[d] = nodes
QueryTypes == Shaped(Nodes, q, flag, dist, pnode, parc) /\ AskedIs(Nodes, asked)
QueryOK ==
  /\ st = "initialized" => \A d \in Dirs : FreshSide(d)
  /\ st = "running" => LiveSide("f") /\ LiveSide("b") /\ Joined
  /\ st = "run" => LiveSide("f") /\ LiveSide("b") /\ Joined /\ Finished("f") /\ Finished("b")
  /\ \A d \in Dirs : /\ st = PinnedState(Opposite(d)) => FreshSide(d) /\ PinsOK(Opposite(d))
                     /\ st = SearchState(Opposite(d)) => LiveSide(d) /\ PinsOK(Opposite(d))
                     /\ st = RunState(Opposite(d)) => SweptOK(d) /\ PinsOK(Opposite(d))
QInv == /\ QueryTypes
        /\ IF pc = "built" THEN QueryOK ELSE QueryInit
=============================================================================
