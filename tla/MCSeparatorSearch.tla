--------------------------- MODULE MCSeparatorSearch ---------------------------
(***************************************************************************)
(* Small road graphs that are neither trees nor cliques, as the nested     *)
(* dissection hands them over.                                             *)
(***************************************************************************)
EXTENDS SeparatorSearch

CONSTANTS h1, h2
MCThreads == {h1, h2}
MCSymmetry == Permutations(MCThreads)

R(x, y) == {x, y}
Sums == [p \in (0 .. 5) \X (0 .. 5) |-> p[1] + p[2]]
Products == [p \in (0 .. 5) \X (0 .. 5) |-> p[1] * p[2]]
Square == RoadGraph(4, {R(0, 1), R(1, 2), R(2, 3), R(3, 0)}, Sums)
Ring == RoadGraph(5, {R(0, 1), R(1, 2), R(2, 3), R(3, 4), R(4, 0)}, Sums)
House == RoadGraph(5, {R(0, 1), R(1, 2), R(2, 3), R(3, 0), R(2, 4), R(3, 4)}, Sums)
Flag == RoadGraph(4, {R(0, 1), R(1, 2), R(2, 3), R(3, 1)}, Sums)
Ladder == RoadGraph(6, {R(0, 1), R(1, 2), R(3, 4), R(4, 5), R(0, 3), R(1, 4), R(2, 5)}, Products)
\* No two nodes level with each other in any of the four directions; two of them in one.
Uneven == [x \in 0 .. 5 |-> <<<<0, 0>>, <<1, 5>>, <<2, 11>>, <<7, 1>>, <<8, 6>>, <<10, 12>>>>[x + 1]]
Level == [x \in 0 .. 3 |-> <<<<0, 0>>, <<0, 1>>, <<5, 3>>, <<7, 2>>>>[x + 1]]

Common ==
  [threads |-> 1, geoCutters |-> 4, distanceCutters |-> 0, orderThreshold |-> 25, bulkThreshold |-> 40, initialFraction |-> 5,
   bulkStep |-> 5, bulkDistance |-> 0, imbalance |-> 20, breadthFirst |-> FALSE, rating |-> "max_target_minus_source",
   byWeight |-> FALSE, avoid |-> "avoid_and_pick_best", infinity |-> 100,
   random |-> [p \in (0 .. 11) \X Sides |-> (7 * p[1] + 3 * p[2]) % 5], unfilled |-> [x \in 0 .. 11 |-> (5 * x) % 3]]
Call(road, position, selection, config) ==
  [road |-> road, position |-> position, selection |-> selection, config |-> config, pairs |-> {<<0, road.n - 1>>}]

Expansion(road, position, config) == Call(road, position, "node_min_expansion", config)
\* With a wider bulk no order is left open.
Ladders(configs) == {Expansion(Ladder, Uneven, [c EXCEPT !.orderThreshold = 34]) : c \in configs}

\* Every way of rating nodes, of avoiding augmenting paths, of taking nodes in bulk and by distance.
Ratings == {[Common EXCEPT !.rating = r] : r \in {"oldest", "random", "max_arc_weight", "min_arc_weight", "source_tie_break", "closer_tie_break"}}
Weights == {[Common EXCEPT !.rating = r, !.byWeight = TRUE] : r \in {"max_target", "min_source"}}
Avoiding == {[Common EXCEPT !.avoid = a] : a \in {"do_not_avoid", "avoid_and_pick_oldest", "avoid_and_pick_random"}}
InBulk == {[Common EXCEPT !.initialFraction = 20, !.bulkStep = 30], [Common EXCEPT !.initialFraction = 20, !.bulkStep = 40, !.bulkThreshold = 45]}
ByHops == {[Common EXCEPT !.rating = "circular", !.distanceCutters = 2], [Common EXCEPT !.bulkDistance = 20]}
Alone ==
  {Expansion(Square, Level, Common), Expansion(Ring, Uneven, Common),
   Call(Ladder, Uneven, "edge_min_expansion", Common),
   Call(Ladder, Uneven, "edge_first", [Common EXCEPT !.orderThreshold = 34]),
   Call(Ladder, Uneven, "node_first", [Common EXCEPT !.orderThreshold = 34, !.breadthFirst = TRUE])}
  \cup Ladders(Ratings \cup Weights \cup Avoiding \cup InBulk \cup ByHops)

\* Two threads share four cutters, which find cuts of different worth.
Together == {Call(House, Uneven, "edge_min_expansion", [Common EXCEPT !.threads = 2]),
             Expansion(Flag, Uneven, [Common EXCEPT !.threads = 2])}
MCInputs == Alone \cup Together
=============================================================================
