-------------------------- MODULE MCDissectionOrder --------------------------
(* Trees, and graphs with a core, chains, dead ends and several blocks.      *)
EXTENDS DissectionOrder

Roads(S) == {{e[1], e[2]} : e \in S}
Graph(n, S) == [n |-> n, roads |-> Roads(S)]

\* Every tree of n labelled nodes: where a search is rooted and in which order it
\* meets the nodes depends on the labels.
Connected(n, roads) == Len(Components([i \in 1 .. n |-> i - 1], roads)) = 1
AllTrees(n) ==
  {g \in {[n |-> n, roads |-> R] : R \in kSubset(n - 1, Roads({e \in (0 .. n - 1) \X (0 .. n - 1) : e[1] < e[2]}))} :
     Connected(n, g.roads)}

Spider == Graph(10, {<<0, 1>>, <<1, 2>>, <<2, 3>>, <<0, 4>>, <<4, 5>>, <<5, 6>>, <<0, 7>>, <<7, 8>>, <<8, 9>>})
Caterpillar == Graph(8, {<<0, 1>>, <<1, 2>>, <<2, 3>>, <<0, 4>>, <<1, 5>>, <<2, 6>>, <<3, 7>>})
Broom == Graph(9, {<<0, 1>>, <<1, 2>>, <<2, 3>>, <<3, 4>>, <<4, 5>>, <<4, 6>>, <<1, 7>>, <<7, 8>>})
Twigs == Graph(8, {<<7, 0>>, <<0, 1>>, <<7, 2>>, <<2, 3>>, <<7, 4>>, <<4, 5>>, <<4, 6>>})

\* A diamond with a chain past it, a dead end, and a road from a node to itself.
Diamond == Graph(8, {<<0, 1>>, <<1, 2>>, <<2, 3>>, <<3, 0>>, <<1, 3>>, <<0, 4>>, <<4, 5>>, <<5, 2>>, <<1, 6>>, <<6, 7>>, <<6, 6>>})
\* Two blocks joined by a road, and two nodes apart.
TwoBlocks == Graph(10, {<<0, 1>>, <<1, 2>>, <<2, 3>>, <<3, 0>>, <<3, 4>>, <<4, 5>>, <<5, 6>>, <<6, 7>>, <<7, 4>>, <<5, 7>>, <<8, 9>>})
\* No node of degree two: nothing but separators.
Prism == Graph(6, {<<0, 1>>, <<1, 2>>, <<2, 0>>, <<3, 4>>, <<4, 5>>, <<5, 3>>, <<0, 3>>, <<1, 4>>, <<2, 5>>})
\* A core of six nodes with chains along it, and a twig.
Web == Graph(10, {<<0, 1>>, <<1, 2>>, <<2, 3>>, <<3, 4>>, <<4, 5>>, <<5, 0>>, <<0, 6>>, <<6, 3>>, <<1, 7>>, <<7, 4>>, <<2, 5>>, <<7, 8>>, <<6, 9>>})
Ring == Graph(5, {<<0, 1>>, <<1, 2>>, <<2, 3>>, <<3, 4>>, <<4, 0>>})

MCGraphs == AllTrees(5) \cup AllTrees(6) \cup {Spider, Caterpillar, Broom, Twigs, Diamond, TwoBlocks, Prism, Web, Ring}
=============================================================================
