--------------------------- MODULE OsmGraphBuilder ---------------------------
(***************************************************************************)
(* From nodes, ways and relations to a routing graph with forbidden turns. *)
(* Ids stay those of OSM: the code renumbers the ids in use in increasing  *)
(* order, which keeps every comparison (IdMapper).                         *)
(***************************************************************************)
EXTENDS OsmProfile, FiniteSets, SequencesExt, TLC

Magnitude(x) == IF x < 0 THEN -x ELSE x
\* Stands for the geographic distance.
GeoDist(p, q) == Magnitude(p.lat - q.lat) + Magnitude(p.lon - q.lon)

(***************************************************************************)
(* The first scan: which ways and nodes the graph is made of.  A node is a *)
(* routing node once it has been seen twice or ends a way.                 *)
(***************************************************************************)
EmptyMapping == [ways |-> {}, modelling |-> {}, routing |-> {}]

MapNodeOnce(m, n) == [m EXCEPT !.modelling = @ \cup {n}]
MapNode(m, n) ==
  IF n \in m.modelling THEN [m EXCEPT !.routing = @ \cup {n}] ELSE [m EXCEPT !.modelling = @ \cup {n}]
MapWay(m, profile, allRouting, w) ==
  IF Len(w.nodes) < 2 \/ ~IsWayUsed(profile, w.tags) THEN m
  ELSE LET nodes == {w.nodes[i] : i \in DOMAIN w.nodes}
           seen[i \in 0 .. Len(w.nodes)] ==
             IF i = 0 THEN [m EXCEPT !.ways = @ \cup {w.id}] ELSE MapNode(seen[i - 1], w.nodes[i])
       IN  IF allRouting
           THEN [ways |-> m.ways \cup {w.id}, modelling |-> m.modelling \cup nodes, routing |-> m.routing \cup nodes]
           ELSE [seen[Len(w.nodes)] EXCEPT !.routing = @ \cup {w.nodes[1], w.nodes[Len(w.nodes)]}]

(***************************************************************************)
(* The second scan: positions, arcs between routing nodes, restrictions.   *)
(***************************************************************************)
NoPosition == [lat |-> 0, lon |-> 0]
EmptyBuilder(m) ==
  [position |-> [n \in m.modelling |-> NoPosition], arcs |-> <<>>, values |-> <<>>, restrictions |-> <<>>]

LoadNode(b, m, e) ==
  IF e.id \in m.modelling THEN [b EXCEPT !.position[e.id] = [lat |-> e.lat, lon |-> e.lon]] ELSE b

Kept(geometry, points) ==
  IF geometry = "none" THEN <<>>
  ELSE IF geometry = "uncompressed" \/ Len(points) < 2 THEN points
  ELSE <<points[1], points[Len(points)]>>

\* The walk along a way: last routing node, points and distance since then.
StepAlong(b, m, geometry, w, direction, walk, i) ==
  LET here == b.position[w.nodes[i]]
      dist == walk.dist + GeoDist(here, b.position[w.nodes[i - 1]])
      forward == [tail |-> walk.last, head |-> w.nodes[i], dist |-> dist, way |-> w.id, anti |-> FALSE,
                  points |-> Kept(geometry, walk.points)]
      backward == [forward EXCEPT !.tail = w.nodes[i], !.head = walk.last, !.anti = TRUE,
                                  !.points = Kept(geometry, Reverse(walk.points))]
  IN  IF w.nodes[i] \in m.routing
      THEN [last |-> w.nodes[i], points |-> <<>>, dist |-> 0,
            arcs |-> walk.arcs \o (IF direction \in {"forwards", "both"} THEN <<forward>> ELSE <<>>)
                               \o (IF direction \in {"backwards", "both"} THEN <<backward>> ELSE <<>>)]
      ELSE [walk EXCEPT !.points = Append(@, here), !.dist = dist]

LoadWay(b, m, profile, geometry, w) ==
  LET direction == DirectionOf(profile, w.tags)
      start == [last |-> w.nodes[1], points |-> <<>>, dist |-> 0, arcs |-> <<>>]
      walk[i \in 1 .. Len(w.nodes)] == IF i = 1 THEN start ELSE StepAlong(b, m, geometry, w, direction, walk[i - 1], i)
      value == WayValue(profile, w.tags)
      valued == [b EXCEPT !.values = [v \in DOMAIN @ \cup {w.id} |-> IF v = w.id THEN value ELSE b.values[v]]]
  IN  CASE w.id \notin m.ways -> b
        [] w.id \in m.ways /\ direction = "closed" -> valued
        [] OTHER -> [valued EXCEPT !.arcs = @ \o walk[Len(w.nodes)].arcs]

LoadRelation(b, profile, e) == [b EXCEPT !.restrictions = @ \o TurnRestrictions(profile, e)]

(***************************************************************************)
(* Sorting by tail, then head; equal arcs keep their order.                *)
(***************************************************************************)
BeforePair(x, y) == x[1] < y[1] \/ (x[1] = y[1] /\ x[2] < y[2])
StableSort(s, key) ==
  LET NotAfter(i) ==
        {j \in DOMAIN s : BeforePair(key[s[j]], key[s[i]]) \/ (j <= i /\ ~BeforePair(key[s[i]], key[s[j]]))}
      place == [i \in DOMAIN s |-> Cardinality(NotAfter(i))]
  IN  [k \in DOMAIN s |-> s[CHOOSE i \in DOMAIN s : place[i] = k]]
SortArcs(arcs) == StableSort(arcs, [a \in ToSet(arcs) |-> <<a.tail, a.head>>])

(***************************************************************************)
(* Restrictions become forbidden pairs of arcs, numbered as in the graph.  *)
(***************************************************************************)
Exported(m, r) == r.from \in m.ways /\ r.to \in m.ways /\ (r.via = NoNode \/ r.via \in m.routing)
ArcsOfWay(arcs, w) == {a \in DOMAIN arcs : arcs[a].way = w}
ArcsOut(arcs, n) == {a \in DOMAIN arcs : arcs[a].tail = n}

\* "Straight on" along one way, without a via node: whoever arrives on the
\* way stays on it.  Of several arcs of the way into a node the last counts.
GoesStraight(r) == r.via = NoNode /\ r.from = r.to /\ r.category = "only"
LeavingOnly(arcs, r) ==
  UNION {LET n == arcs[out].tail
             into == {a \in ArcsOfWay(arcs, r.from) : arcs[a].head = n}
         IN  IF into = {} THEN {} ELSE {<<Max(into), other>> : other \in ArcsOut(arcs, n) \ {out}}
         : out \in ArcsOfWay(arcs, r.from)}

\* A missing via node is where an arc of the second way starts at the head
\* of one of the first; two such arcs are one too many.
MeetingArcs(arcs, r) ==
  {a \in ArcsOfWay(arcs, r.to) : \E f \in ArcsOfWay(arcs, r.from) : arcs[f].head = arcs[a].tail}
WithVia(arcs, r) ==
  CASE r.via # NoNode -> {r}
    [] r.via = NoNode /\ Cardinality(MeetingArcs(arcs, r)) = 1 ->
         {[r EXCEPT !.via = arcs[a].tail] : a \in MeetingArcs(arcs, r)}
    [] OTHER -> {}

\* The angle between the ways in and out, by cross and dot product: left is
\* 45 to 135 degrees, straight on less than 60, back more than 120.
LastPoint(b, a) == IF a.points = <<>> THEN b.position[a.tail] ELSE a.points[Len(a.points)]
FirstPoint(b, a) == IF a.points = <<>> THEN b.position[a.head] ELSE a.points[1]
TurnsInto(b, r, from, to) ==
  LET via == b.position[r.via]
      inLat == via.lat - LastPoint(b, from).lat
      inLon == via.lon - LastPoint(b, from).lon
      outLat == FirstPoint(b, to).lat - via.lat
      outLon == FirstPoint(b, to).lon - via.lon
      cross == inLon * outLat - inLat * outLon
      dot == inLon * outLon + inLat * outLat
  IN  CASE r.direction = "left_turn" -> cross > Magnitude(dot)
        [] r.direction = "right_turn" -> -cross > Magnitude(dot)
        [] r.direction = "straight_on" -> dot > 0 /\ cross * cross < 3 * dot * dot
        [] r.direction = "u_turn" -> dot < 0 /\ cross * cross < 3 * dot * dot

Candidates(b, arcs, r) ==
  LET all == {<<f, t>> : f \in {a \in ArcsOfWay(arcs, r.from) : arcs[a].head = r.via},
                         t \in {a \in ArcsOfWay(arcs, r.to) : arcs[a].tail = r.via}}
      fitting == {c \in all : TurnsInto(b, r, arcs[c[1]], arcs[c[2]])}
  IN  IF Cardinality(all) = 1 THEN all ELSE IF Cardinality(fitting) = 1 THEN fitting ELSE {}
TurnsOfKeepingNone(b, arcs, r) ==
  UNION {IF r.category = "no" THEN {c} ELSE {<<c[1], other>> : other \in ArcsOut(arcs, r.via)}
         : c \in Candidates(b, arcs, r)}
TurnsOf(b, arcs, r) ==
  UNION {IF r.category = "no" THEN {c} ELSE {<<c[1], other>> : other \in ArcsOut(arcs, r.via) \ {c[2]}}
         : c \in Candidates(b, arcs, r)}

ForbiddenTurns(b, m, arcs) ==
  LET known == {r \in {b.restrictions[i] : i \in DOMAIN b.restrictions} : Exported(m, r)}
      straight == {r \in known : GoesStraight(r)}
  IN  (UNION {LeavingOnly(arcs, r) : r \in straight})
      \cup UNION {TurnsOf(b, arcs, v) : v \in UNION {WithVia(arcs, r) : r \in known \ straight}}

\* Travel times in milliseconds, for the profiles whose way value is a speed.
TravelTime(b, a) == ((a.dist * 18000) \div b.values[a.way]) \div 5

RoutingGraph(b, m, profile) ==
  LET arcs == SortArcs(b.arcs)
  IN  [arcs |-> arcs, forbidden |-> ForbiddenTurns(b, m, arcs),
       position |-> [n \in m.routing |-> b.position[n]],
       weight |-> CASE profile \in {"car", "motorcycle"} -> [i \in DOMAIN arcs |-> TravelTime(b, arcs[i])]
                    [] profile = "bicycle" -> [i \in DOMAIN arcs |-> b.values[arcs[i].way]]
                    [] OTHER -> [i \in DOMAIN arcs |-> arcs[i].dist]]
=============================================================================
