------------------------------- MODULE FlowCutter -------------------------------
(***************************************************************************)
(* One cutter of flow_cutter_accelerated.h.  It grows a source side (0)    *)
(* and a target side (1), keeps a maximum flow between them and, whenever  *)
(* no augmenting path is left, has a minimum cut next to the smaller side. *)
(* It goes on by piercing: a node beyond the cut joins the smaller side.   *)
(*                                                                         *)
(* g is a graph of ExpandedGraph, f the configuration, t the fixed part of *)
(* a cutter (order of the nodes, terminals, distances, whether nodes are   *)
(* pierced in bulk) and c its state:                                       *)
(*   assimilated, reachable  per side: the nodes in, the nodes a search    *)
(*                           starts from, and where the last one stopped   *)
(*   front                   per side: the arcs with flow out of it        *)
(*   flow                    per arc, -1, 0 or 1                           *)
(*   pointer                 per side: how far its end of the order is used*)
(***************************************************************************)
EXTENDS ExpandedGraph, FiniteSets

Source == 0
Target == 1
Sides == {Source, Target}

Saturated(g, flow, side, a) ==
  IF side = Target THEN g.capacity[g.back[a]] = flow[g.back[a]] ELSE g.capacity[a] = flow[a]
OpenArcs(g, flow, side) == {a \in Ids(g.m) : ~Saturated(g, flow, side, a)}

--------------------------------------------------------------------------------
(* The searches. s.work is the stack or queue, s.in what has been seen, s.hit  *)
(* the node of stops that ends the search (-1 for none), s.tree the arcs nodes *)
(* were first reached by, s.seen the arcs looked at. What a search that hits   *)
(* leaves behind is thrown away, but for the path, so it may finish its node.  *)

RECURSIVE Explore(_, _, _, _, _)
Explore(g, f, open, stops, s) ==
  IF s.work = <<>> \/ s.hit # -1 THEN s
  ELSE LET x == IF f.breadthFirst THEN s.work[1] ELSE s.work[Len(s.work)]
           rest == IF f.breadthFirst THEN SubSeq(s.work, 2, Len(s.work)) ELSE Front(s.work)
           new == SelectSeq(g.out[x], LAMBDA a : a \in open /\ g.head[a] \notin s.in)
           nodes == [i \in DOMAIN new |-> g.head[new[i]]]
           ends == SelectSeq(nodes, LAMBDA y : y \in stops)
       IN Explore(g, f, open, stops,
                  [s EXCEPT !.work = rest \o nodes, !.in = @ \cup ToSet(nodes), !.tree = @ \cup ToSet(new),
                            !.seen = @ \o g.out[x], !.hit = IF ends = <<>> THEN -1 ELSE ends[1]])

\* From each extra node in turn, beginning with the one the last search ended at.
Grow(g, f, set, open, stops) ==
  LET k == Len(set.extra)
      begin == IF set.last >= k THEN 0 ELSE set.last
      turn == [i \in 1 .. k |-> (begin + i - 1) % k]
      start == [in |-> set.in, work |-> <<>>, hit |-> -1, tree |-> {}, seen |-> <<>>, last |-> begin]
      From(s, i) == IF s.hit # -1 THEN s
                    ELSE LET r == Explore(g, f, open, stops, [s EXCEPT !.work = <<set.extra[i + 1]>>])
                         IN IF r.hit # -1 THEN [r EXCEPT !.last = i] ELSE r
  IN FoldLeft(From, start, turn)
Grown(set, s) == [set EXCEPT !.in = s.in, !.last = s.last]

--------------------------------------------------------------------------------
(* Which side has the cut, and how the next pierce node is rated.              *)

Complete(c, side) == Cardinality(c.reachable[side].in) = Cardinality(c.assimilated[side].in)
Size(c, side) == Cardinality(c.assimilated[side].in)
CutSide(c) ==
  IF Complete(c, Source) /\ (~Complete(c, Target) \/ Size(c, Source) <= Size(c, Target)) THEN Source ELSE Target
Cut(c) == c.front[CutSide(c)]
SmallerSize(c) == Size(c, CutSide(c))

\* f.random stands for the hash of a node and a side, unfilled for a distance never filled in.
Score(f, t, x, side, augments, weight) ==
  LET near == t.distance[side][x]
      far == t.distance[1 - side][x]
      rated == CASE f.rating = "max_target_minus_source" -> <<far - near, 0>>
                 [] f.rating = "max_target" -> <<far, 0>>
                 [] f.rating = "min_source" -> <<-near, 0>>
                 [] f.rating = "oldest" -> <<0, 0>>
                 [] f.rating = "random" -> <<f.random[x, side], 0>>
                 [] f.rating = "max_arc_weight" -> <<weight, 0>>
                 [] f.rating = "min_arc_weight" -> <<-weight, 0>>
                 [] f.rating = "circular" -> <<IF side = Source THEN -near ELSE far, 0>>
                 [] f.rating = "source_tie_break" -> <<far - near, near>>
                 [] f.rating = "closer_tie_break" -> <<far - near, IF near < far THEN -near ELSE -far>>
      avoids == IF f.avoid = "do_not_avoid" \/ augments THEN 0 ELSE 1
  IN CASE avoids = 1 /\ f.avoid = "avoid_and_pick_oldest" -> <<1, f.infinity, rated[2]>>
       [] avoids = 1 /\ f.avoid = "avoid_and_pick_random" -> <<1, f.random[x, side], rated[2]>>
       [] OTHER -> <<avoids, rated[1], rated[2]>>

Above(p, q) ==
  \/ p[1] > q[1]
  \/ p[1] = q[1] /\ (p[2] > q[2] \/ (p[2] = q[2] /\ p[3] > q[3]))

--------------------------------------------------------------------------------
(* Nodes from the order. percentages of f are those of the configuration.      *)

Toward0(a, b) == IF a >= 0 THEN a \div b ELSE -((-a) \div b)
Remaining(f, t, c, side) ==
  LET k == Len(t.order)
  IN IF side = Source THEN Toward0(f.orderThreshold * k - 100 * c.pointer[Source], 100)
     ELSE Toward0(100 * c.pointer[Target] - (100 - f.orderThreshold) * k, 100)

Step(side) == IF side = Source THEN 1 ELSE -1
Taken(c, x) == x \in c.assimilated[Source].in \/ x \in c.assimilated[Target].in

RECURSIVE NextFromOrder(_, _, _, _, _)
NextFromOrder(f, t, c, side, force) ==
  IF c.pointer[Source] > c.pointer[Target] \/ (~force /\ Remaining(f, t, c, side) <= 0) THEN [c |-> c, node |-> -1]
  ELSE LET x == t.order[c.pointer[side] + 1]
       IN IF ~Taken(c, x) THEN [c |-> c, node |-> x]
          ELSE NextFromOrder(f, t, [c EXCEPT !.pointer[side] = @ + Step(side)], side, force)

AddNode(c, side, x) ==
  [c EXCEPT !.assimilated[side].in = @ \cup {x}, !.reachable[side].in = @ \cup {x}]
AddExtra(c, side, x) ==
  [c EXCEPT !.assimilated[side].extra = Append(@, x), !.reachable[side].extra = Append(@, x)]

\* Of the nodes assimilated together, those with a neighbour outside are searched from.
AddFrontier(g, c, side, new) ==
  FoldLeft(LAMBDA d, x : AddExtra(d, side, x), c,
           SelectSeq(new, LAMBDA x : \E i \in DOMAIN g.out[x] : g.head[g.out[x][i]] \notin c.assimilated[side].in))

TooMuch(g, f, t, c, side) == ~t.bulk \/ 100 * Size(c, side) > f.bulkThreshold * g.n

RECURSIVE TakeUpTo(_, _, _, _, _, _)
TakeUpTo(f, t, c, side, k, new) ==
  LET next == NextFromOrder(f, t, c, side, FALSE)
  IN IF k = 0 \/ next.node = -1 THEN [c |-> IF k = 0 THEN c ELSE next.c, new |-> new]
     ELSE TakeUpTo(f, t, AddNode(next.c, side, next.node), side, k - 1, Append(new, next.node))

AtLeast1(k) == IF k < 1 THEN 1 ELSE k
AdaptiveBulk(g, f, t, c, side, percent) ==
  IF TooMuch(g, f, t, c, side) \/ Remaining(f, t, c, side) <= 0 THEN [c |-> c, new |-> <<>>]
  ELSE LET k == AtLeast1((percent * ((100 - percent) * g.n - 200 * Size(c, side))) \div 20000)
           taken == TakeUpTo(f, t, c, side, k, <<>>)
       IN [taken EXCEPT !.c = AddFrontier(g, @, side, taken.new)]

\* At the start only: so many nodes from the side's end of the order, skipping none it need not.
RECURSIVE BulkFrom(_, _, _, _, _)
BulkFrom(f, t, c, side, k) ==
  LET step == IF k <= Remaining(f, t, c, side) THEN k ELSE Remaining(f, t, c, side)
      here == [i \in 1 .. step |-> t.order[c.pointer[side] + 1 + Step(side) * (i - 1)]]
      new == SelectSeq(here, LAMBDA x : ~Taken(c, x))
      moved == FoldLeft(LAMBDA d, x : AddNode(d, side, x), [c EXCEPT !.pointer[side] = @ + Step(side) * step], new)
  IN IF Remaining(f, t, c, side) <= 1 THEN [c |-> c, new |-> <<>>]
     ELSE IF new = <<>> THEN BulkFrom(f, t, moved, side, step)
     ELSE [c |-> moved, new |-> new]

EquidistantBulk(g, f, t, c, side, percent) ==
  LET k == (g.n * percent) \div 100
      taken == BulkFrom(f, t, c, side, k)
  IN IF TooMuch(g, f, t, c, side) \/ k <= 1 THEN [c |-> c, new |-> <<>>]
     ELSE [taken EXCEPT !.c = AddFrontier(g, @, side, taken.new)]

--------------------------------------------------------------------------------
(* The cutter.                                                                 *)

NoNodes == [in |-> {}, extra |-> <<>>, last |-> 0]
Pierced(c, side, x) == AddExtra(AddNode(c, side, x), side, x)

InitCutter(g, f, t) ==
  LET blank == [assimilated |-> [s \in Sides |-> NoNodes], reachable |-> [s \in Sides |-> NoNodes],
                front |-> [s \in Sides |-> <<>>], flow |-> [a \in Ids(g.m) |-> 0], intensity |-> 0,
                canAdvance |-> TRUE, hasCut |-> FALSE, side |-> Source,
                pointer |-> [s \in Sides |-> IF s = Source THEN 0 ELSE g.n - 1]]
      End(side) == t.order[IF side = Source THEN 1 ELSE Len(t.order)]
      After(bulk, side) == IF bulk.new = <<>> THEN Pierced(bulk.c, side, End(side)) ELSE bulk.c
      Ended(c, side) == After(EquidistantBulk(g, f, t, c, side, f.initialFraction), side)
  IN IF t.bulk THEN Ended(Ended(blank, Source), Target)
     ELSE Pierced(Pierced(blank, Source, t.source), Target, t.target)

SelectPierceNode(g, f, t, c, side) ==
  LET Rate(a) == Score(f, t, g.head[a], side, g.head[a] \in c.reachable[1 - side].in, g.weight[a])
      beyond == SelectSeq(c.front[side], LAMBDA a : g.head[a] \notin c.assimilated[1 - side].in)
      best == FoldLeft(LAMBDA b, a : IF Above(Rate(a), Rate(b)) THEN a ELSE b, beyond[1], beyond)
  IN IF beyond = <<>> THEN NextFromOrder(f, t, c, side, TRUE) ELSE [c |-> c, node |-> g.head[best]]

HalfReached(g, c, side) == Size(c, side) >= g.n \div 2

\* Asking moves the pointers into the order, so the cutter comes back with the answer.
AsksForFlow(g, f, t, c) ==
  LET side == CutSide(c)
      Answer(pick) == [c |-> pick.c, yes |-> pick.node = -1 \/ pick.node \in c.reachable[1 - side].in]
  IN IF HalfReached(g, c, side) THEN [c |-> c, yes |-> TRUE] ELSE Answer(SelectPierceNode(g, f, t, c, side))

Push(g, side, c, a) ==
  LET d == IF side = Source THEN 1 ELSE -1
  IN [c EXCEPT !.flow = [@ EXCEPT ![a] = c.flow[a] + d, ![g.back[a]] = -(c.flow[a] + d)]]

RECURSIVE PushPath(_, _, _, _, _)
PushPath(g, side, c, tree, x) ==
  LET a == CHOOSE b \in tree : g.head[b] = x
  IN IF x \in c.assimilated[side].in THEN c ELSE PushPath(g, side, Push(g, side, c, a), tree, g.tail[a])

KeepBackwardReachable(g, f, c, side) == c
GrowBackwardReachable(g, f, c, side) ==
  LET s == Grow(g, f, c.assimilated[side], OpenArcs(g, c.flow, side), {})
  IN [c EXCEPT !.reachable[side] = Grown(c.assimilated[side], s)]

AdvanceFlow(g, f, c, side, pierced) ==
  LET Augmented(s, reached) ==
        [PushPath(g, side, reached, s.tree, s.hit) EXCEPT !.reachable[side].in = c.assimilated[side].in, !.intensity = @ + 1]
      HasCut(cut) == IF pierced THEN cut ELSE GrowBackwardReachable(g, f, cut, 1 - side)
      After(s) == LET reached == [c EXCEPT !.reachable[side] = Grown(@, s)]
                  IN IF s.hit # -1 THEN Augmented(s, reached) ELSE HasCut([reached EXCEPT !.hasCut = TRUE])
  IN After(Grow(g, f, c.reachable[side], OpenArcs(g, c.flow, side), c.assimilated[1 - side].in))

GrowAssimilated(g, f, c) ==
  LET side == IF Cardinality(c.reachable[Source].in) <= Cardinality(c.reachable[Target].in) THEN Source ELSE Target
      Crossing(s) == SelectSeq(c.front[side] \o SelectSeq(s.seen, LAMBDA a : c.flow[a] # 0), LAMBDA a : g.head[a] \notin s.in)
      After(s) == [c EXCEPT !.assimilated[side] = Grown(@, s), !.front[side] = Crossing(s)]
  IN After(Grow(g, f, c.assimilated[side], OpenArcs(g, c.flow, side), {}))

PierceNext(g, f, t, c, side) ==
  LET Bulk(ask) == IF ask.yes THEN AdaptiveBulk(g, f, t, ask.c, side, f.bulkStep) ELSE [c |-> ask.c, new |-> <<>>]
      At(pick) == IF pick.node = -1 THEN [c |-> pick.c, ok |-> FALSE]
                  ELSE [c |-> Pierced(pick.c, side, pick.node), ok |-> TRUE]
      After(bulk) == IF bulk.new # <<>> THEN [c |-> bulk.c, ok |-> TRUE]
                     ELSE At(SelectPierceNode(g, f, t, bulk.c, side))
  IN After(Bulk(AsksForFlow(g, f, t, c)))

WithoutExtra(c, side) == [c EXCEPT !.assimilated[side].extra = <<>>, !.reachable[side].extra = <<>>]
Flowing(g, f, c, side, pierced) ==
  LET After(d) == IF d.hasCut THEN GrowAssimilated(g, f, d) ELSE d IN After(AdvanceFlow(g, f, c, side, pierced))

\* ok is FALSE when no further cut can be had.
Advance(g, f, t, c) ==
  LET side == CutSide(c)
      cleared == [WithoutExtra(c, side) EXCEPT !.side = side]
      After(pierce) == IF ~pierce.ok THEN [c |-> [pierce.c EXCEPT !.canAdvance = FALSE], ok |-> FALSE]
                       ELSE [c |-> Flowing(g, f, [pierce.c EXCEPT !.hasCut = FALSE], side, TRUE), ok |-> TRUE]
  IN IF ~c.hasCut THEN [c |-> Flowing(g, f, c, c.side, FALSE), ok |-> TRUE]
     ELSE IF HalfReached(g, c, side) THEN [c |-> [c EXCEPT !.side = side, !.canAdvance = FALSE], ok |-> FALSE]
     ELSE After(PierceNext(g, f, t, cleared, side))

\* On to the largest side this flow allows.
RECURSIVE Enlarged(_, _, _, _)
Enlarged(g, f, t, c) ==
  LET After(ask) == IF ask.yes THEN ask.c ELSE Enlarged(g, f, t, Advance(g, f, t, ask.c).c)
  IN After(AsksForFlow(g, f, t, c))
=============================================================================
