------------------------ MODULE ContractionHierarchy ------------------------
(* The contraction hierarchy of RoutingKit (contraction_hierarchy.cpp): the *)
(* clean-up of the input, the contraction of one node after another with    *)
(* its bounded witness search, the reordering of the nodes, the unpacking   *)
(* information and the file format.  Arcs are kept by their two end nodes:  *)
(* the code sorts them and looks an arc up by tail and head, so the pair is *)
(* what an arc id stands for.  A queue is the function from the ids in it   *)
(* to their keys; which of several equal keys is popped is left open.       *)
EXTENDS Integers, FiniteSets, Sequences, FiniteSetsExt, Functions, SequencesExt, ShortestDistances, TLC

CONSTANTS Inputs,     \* the road graphs: [n |-> nodes, arcs |-> <<[tail, head, weight], ...>>]
          PopBounds,  \* the values of max_pop_count
          GivenOrders, \* the orders build_given_rank is called with
          NoId        \* invalid_id

ASSUME InputsAssumption ==
  \A i \in Inputs : /\ i.n \in Nat
                     /\ i.arcs \in Seq([tail : 0 .. i.n - 1, head : 0 .. i.n - 1, weight : Nat])
\* an order names no node twice; invalid_id is no node and no arc
ASSUME GivenOrdersAssumption == \A o \in GivenOrders : o \in Seq(Nat) /\ IsInjective(o)
ASSUME NoIdAssumption == NoId \notin Nat /\ NoId \notin Nat \X Nat

VARIABLES input,   \* the arguments of build or build_given_rank
          mode,    \* "rank": build_given_rank, "importance": build
          given,   \* the order given, in mode "rank"
          maxPop,  \* max_pop_count
          graph,   \* the remaining graph: <<tail, head>> -> [weight, mid]
          rank,    \* ranks of the nodes contracted so far
          side,    \* ch.forward and ch.backward: <<tail, head>> -> [weight, mid]
          pc, cur, \* where contract_node is, and its locals
          search,  \* the members of ShorterPathTest
          ch       \* the finished hierarchy

buildVars == <<input, mode, given, maxPop, graph, rank, side, pc, cur, search, ch>>

Dirs == {"f", "b"}
Opposite(d) == IF d = "f" THEN "b" ELSE "f"
Flip(p) == <<p[2], p[1]>>
NoFn == [x \in {} |-> 0]
(* x :> value and new @@ old, spelled out for the provers. *)
Just(x, value) == [y \in {x} |-> value]
Overlaid(new, old) == [x \in DOMAIN new \cup DOMAIN old |-> IF x \in DOMAIN new THEN new[x] ELSE old[x]]
MinKey(q) == Min(Range(q))
(* The members of S by rising key; the keys are different. *)
SortedBy(key, S) ==
  CHOOSE s \in [1 .. Cardinality(S) -> S] : \A i, j \in 1 .. Cardinality(S) : i < j => key[s[i]] < key[s[j]]
(* What is reached from xs: the members of every set that is closed under to. *)
ReachedBy(to, xs) == {y \in DOMAIN to : \A S \in SUBSET DOMAIN to :
                        xs \subseteq S /\ (\A x \in S : to[x] \subseteq S) => y \in S}
Unset == [x |-> NoId]
-----------------------------------------------------------------------------
(* sort_arcs_and_remove_multi_and_loop_arcs: loops go, and of parallel arcs *)
(* the first lightest one stays, with its input id.                         *)
Nodes == 0 .. input.n - 1
Joining(p) == {i \in DOMAIN input.arcs : input.arcs[i].tail = p[1] /\ input.arcs[i].head = p[2]}
InputArcId == [p \in {<<input.arcs[i].tail, input.arcs[i].head>> : i \in DOMAIN input.arcs}
                        \ {<<x, x>> : x \in Nodes} |->
                 Min({i \in Joining(p) : \A j \in Joining(p) : input.arcs[i].weight <= input.arcs[j].weight})]
CleanGraph == [p \in DOMAIN InputArcId |-> [weight |-> input.arcs[InputArcId[p]].weight, mid |-> NoId]]

(* The graph being contracted: class Graph. *)
AddArcOrReduceArcWeight(g, x, mid, y, w) ==
  IF <<x, y>> \in DOMAIN g /\ g[<<x, y>>].weight <= w THEN g
  ELSE Overlaid(Just(<<x, y>>, [weight |-> w, mid |-> mid]), g)
RemoveAllIncidentArcs(g, x) == Restrict(g, {p \in DOMAIN g : x \notin {p[1], p[2]}})
Out(g, x) == {y \in Nodes : <<x, y>> \in DOMAIN g}
In(g, x) == {y \in Nodes : <<y, x>> \in DOMAIN g}
-----------------------------------------------------------------------------
(* ShorterPathTest.  A settle pops the nearest node of one side; it finds a *)
(* witness at the popped node, which is then left unexpanded, or at a       *)
(* neighbour whose distance it improves.                                    *)
SearchArc(d, x, y) == IF d = "f" THEN <<x, y>> ELSE <<y, x>>
PinSource(s) == [q |-> [d \in Dirs |-> IF d = "f" THEN Just(s, 0) ELSE NoFn],
                 dist |-> [d \in Dirs |-> IF d = "f" THEN Just(s, 0) ELSE NoFn], pops |-> 0]
PinTarget(sr, t) == [q |-> [sr.q EXCEPT !["b"] = Just(t, 0)], dist |-> [sr.dist EXCEPT !["b"] = Just(t, 0)],
                     pops |-> 0]
Meets(sr, d, x, key, len) == x \in DOMAIN sr.dist[Opposite(d)] /\ key + sr.dist[Opposite(d)][x] <= len
NextDistance(d, x, key, y) == key + graph[SearchArc(d, x, y)].weight
\* Mutant: the witness search walks over the node being contracted.
ImprovedThroughBypass(sr, d, x, key, bypass) ==
  {y \in Nodes : /\ SearchArc(d, x, y) \in DOMAIN graph
                 /\ \/ y \notin DOMAIN sr.dist[d]
                    \/ NextDistance(d, x, key, y) < sr.dist[d][y]}
Improved(sr, d, x, key, bypass) ==
  {y \in Nodes \ {bypass} : /\ SearchArc(d, x, y) \in DOMAIN graph
                            /\ \/ y \notin DOMAIN sr.dist[d]
                               \/ NextDistance(d, x, key, y) < sr.dist[d][y]}
Expanded(sr, d, x, key, bypass) ==
  LET new == [y \in Improved(sr, d, x, key, bypass) |-> NextDistance(d, x, key, y)] IN
  [sr EXCEPT !.q[d] = Overlaid(new, Restrict(@, DOMAIN @ \ {x})), !.dist[d] = Overlaid(new, @)]
ForwardSettle(sr, d, x, bypass, len) ==
  LET key == sr.q[d][x] IN
  IF Meets(sr, d, x, key, len) THEN [found |-> TRUE, sr |-> [sr EXCEPT !.q[d] = Restrict(@, DOMAIN @ \ {x})]]
  ELSE [found |-> \E y \in Improved(sr, d, x, key, bypass) : Meets(sr, d, y, NextDistance(d, x, key, y), len),
        sr |-> Expanded(sr, d, x, key, bypass)]
SearchSide(sr) == IF MinKey(sr.q["f"]) <= MinKey(sr.q["b"]) THEN "f" ELSE "b"
Exhausted(sr, len) ==
  IF \E d \in Dirs : DOMAIN sr.q[d] = {} THEN TRUE ELSE MinKey(sr.q["f"]) + MinKey(sr.q["b"]) > len
-----------------------------------------------------------------------------
Init == /\ input \in Inputs
        /\ maxPop \in PopBounds
        /\ mode \in {"rank", "importance"}
        /\ given \in IF mode = "rank" THEN {o \in GivenOrders : Range(o) = Nodes} ELSE {<<>>}
        /\ graph = CleanGraph
        /\ rank = NoFn
        /\ side = [d \in Dirs |-> NoFn]
        /\ pc = "pick" /\ cur = Unset /\ search = Unset /\ ch = Unset

Remaining == Nodes \ DOMAIN rank
SearchGraphArcs(v, d) == [p \in {<<v, y>> : y \in IF d = "f" THEN Out(graph, v) ELSE In(graph, v)} |->
                            graph[SearchArc(d, p[1], p[2])]]
StartContraction(v) ==
  /\ side' = [d \in Dirs |-> Overlaid(SearchGraphArcs(v, d), side[d])]
  /\ rank' = Overlaid(Just(v, Cardinality(DOMAIN rank)), rank)
  /\ cur' = [node |-> v, ins |-> In(graph, v)]
  /\ pc' = "pin"
  /\ UNCHANGED <<input, mode, given, maxPop, graph, search, ch>>

(* estimate_node_importance weighs levels, hops and bounded searches: any   *)
(* remaining node may be the least important one, which build_ch_and_order  *)
(* pops.                                                                    *)
MayBeLeastImportant == Remaining
PickByImportance == /\ pc = "pick" /\ mode = "importance"
                    /\ \E v \in MayBeLeastImportant : StartContraction(v)
(* build_ch_given_rank takes the nodes in the given order. *)
PickByRank == /\ pc = "pick" /\ mode = "rank" /\ Remaining # {}
              /\ StartContraction(given[Cardinality(DOMAIN rank) + 1])

(* contract_node: one forward search per in-arc, shared by all its targets. *)
NextSource(u) ==
  /\ pc = "pin" /\ u \in cur.ins
  /\ search' = PinSource(u)
  /\ cur' = [node |-> cur.node, ins |-> cur.ins \ {u}, source |-> u, outs |-> Out(graph, cur.node) \ {u}]
  /\ pc' = "target"
  /\ UNCHANGED <<input, mode, given, maxPop, graph, rank, side, ch>>

Detour(t) == graph[<<cur.source, cur.node>>].weight + graph[<<cur.node, t>>].weight
NextTarget(t) ==
  /\ pc = "target" /\ t \in cur.outs
  /\ search' = PinTarget(search, t)
  /\ cur' = [node |-> cur.node, ins |-> cur.ins, source |-> cur.source, outs |-> cur.outs \ {t}, target |-> t]
  /\ pc' = IF t \in DOMAIN search.dist["f"] /\ search.dist["f"][t] <= Detour(t) THEN "target" ELSE "search"
  /\ UNCHANGED <<input, mode, given, maxPop, graph, rank, side, ch>>

AddShortcut == graph' = AddArcOrReduceArcWeight(graph, cur.source, cur.node, cur.target, Detour(cur.target))
Settle ==
  /\ pc = "search" /\ ~Exhausted(search, Detour(cur.target))
  /\ LET d == SearchSide(search) IN
     \E x \in {y \in DOMAIN search.q[d] : search.q[d][y] = MinKey(search.q[d])} :
       LET r == ForwardSettle(search, d, x, cur.node, Detour(cur.target)) IN
       /\ search' = [r.sr EXCEPT !.pops = @ + 1]
       /\ pc' = IF r.found \/ search.pops + 1 > maxPop THEN "target" ELSE "search"
       /\ IF ~r.found /\ search.pops + 1 > maxPop THEN AddShortcut ELSE graph' = graph
  /\ cur' = cur
  /\ UNCHANGED <<input, mode, given, maxPop, rank, side, ch>>
NoWitness ==
  /\ pc = "search" /\ Exhausted(search, Detour(cur.target))
  /\ AddShortcut
  /\ pc' = "target"
  /\ UNCHANGED <<input, mode, given, maxPop, rank, side, cur, search, ch>>
LastTarget ==
  /\ pc = "target" /\ cur.outs = {}
  /\ cur' = [node |-> cur.node, ins |-> cur.ins]
  /\ search' = Unset /\ pc' = "pin"
  /\ UNCHANGED <<input, mode, given, maxPop, graph, rank, side, ch>>
FinishContraction ==
  /\ pc = "pin" /\ cur.ins = {}
  /\ graph' = RemoveAllIncidentArcs(graph, cur.node)
  /\ cur' = Unset
  /\ pc' = IF Remaining = {} THEN "order" ELSE "pick"
  /\ UNCHANGED <<input, mode, given, maxPop, rank, side, search, ch>>
-----------------------------------------------------------------------------
(* optimize_order_for_cache: for every node no arc leads up to, its search  *)
(* space is put before what is already placed, sorted by rank.              *)
Ups(x) == {p[2] : p \in {e \in DOMAIN side["f"] \cup DOMAIN side["b"] : e[1] = x}}
BottomLevel == {x \in Nodes : \A y \in Nodes : x \notin Ups(y)}
SearchSpace(x) == ReachedBy([y \in Nodes |-> Ups(y)], {x})
\* Mutant: the placed search space is not reversed.
CacheOrderUnreversed ==
  LET O[i \in -1 .. input.n - 1] ==
        IF i = -1 THEN <<>>
        ELSE IF i \notin BottomLevel THEN O[i - 1]
        ELSE SortedBy([x \in Nodes |-> -rank[x]], SearchSpace(i) \ Range(O[i - 1])) \o O[i - 1]
  IN O[input.n - 1]
CacheOrder == LET O[i \in -1 .. input.n - 1] ==
                    IF i = -1 THEN <<>>
                    ELSE IF i \notin BottomLevel THEN O[i - 1]
                    ELSE SortedBy(rank, SearchSpace(i) \ Range(O[i - 1])) \o O[i - 1]
              IN O[input.n - 1]
PositionIn(order) == [x \in Nodes |-> (CHOOSE i \in DOMAIN order : order[i] = x) - 1]

(* make_internal_nodes_and_rank_coincide, the second sort of the arcs and   *)
(* build_unpacking_information: nodes are renamed to their final rank and   *)
(* every arc gets either its input arc or the two arcs it stands for.       *)
Renamed(r, x) == IF x = NoId THEN NoId ELSE r[x]
Ranked(r, d) == [p \in {<<r[e[1]], r[e[2]]>> : e \in DOMAIN side[d]} |->
                   LET e == CHOOSE e \in DOMAIN side[d] : <<r[e[1]], r[e[2]]>> = p IN
                   [weight |-> side[d][e].weight, mid |-> Renamed(r, side[d][e].mid)]]
Unpacking(order, d, p, a) ==
  LET from == IF d = "f" THEN p[1] ELSE p[2]
      to == IF d = "f" THEN p[2] ELSE p[1] IN
  IF a.mid = NoId
  THEN LET e == <<order[from + 1], order[to + 1]>> IN
       [weight |-> a.weight, original |-> TRUE, first |-> InputArcId[e], second |-> e[2]]
  ELSE [weight |-> a.weight, original |-> FALSE, first |-> <<a.mid, from>>, second |-> <<a.mid, to>>]
Hierarchy(order) ==
  LET r == PositionIn(order) IN
  [order |-> order, rank |-> r,
   side |-> [d \in Dirs |-> [p \in DOMAIN Ranked(r, d) |-> Unpacking(order, d, p, Ranked(r, d)[p])]]]
Finish ==
  /\ pc = "order"
  /\ ch' = Hierarchy(IF mode = "importance" THEN CacheOrder ELSE SortedBy(rank, Nodes))
  /\ pc' = "built"
  \* build returns: its locals and arguments are gone, the caller keeps the arcs
  /\ mode' = "none" /\ given' = <<>> /\ maxPop' = 0
  /\ graph' = NoFn /\ rank' = NoFn /\ side' = Unset /\ cur' = Unset /\ search' = Unset
  /\ UNCHANGED input

Building == \/ PickByImportance \/ PickByRank
            \/ \E u \in Nodes : NextSource(u)
            \/ \E t \in Nodes : NextTarget(t)
            \/ Settle \/ NoWitness \/ LastTarget \/ FinishContraction \/ Finish
-----------------------------------------------------------------------------
(* The file: write puts the sections in this order, finish_read takes them  *)
(* in the same order and inverts the rank for the order.                    *)
Sections(s) == <<DOMAIN s, [p \in DOMAIN s |-> s[p].weight], [p \in DOMAIN s |-> s[p].original],
                 [p \in DOMAIN s |-> s[p].first], [p \in DOMAIN s |-> s[p].second]>>
Written(h) == <<[magic |-> "ch", nodes |-> Len(h.order)], h.rank>> \o Sections(h.side["f"]) \o Sections(h.side["b"])
ReadSide(file, at) ==
  [p \in file[at] |-> [weight |-> file[at + 1][p], original |-> file[at + 2][p],
                       first |-> file[at + 3][p], second |-> file[at + 4][p]]]
ReadBack(file) ==
  [order |-> [i \in 1 .. file[1].nodes |-> CHOOSE x \in Nodes : file[2][x] = i - 1], rank |-> file[2],
   side |-> [d \in Dirs |-> ReadSide(file, IF d = "f" THEN 3 ELSE 8)]]

(* check_contraction_hierarchy_for_errors. *)
Passes(h) ==
  /\ \A x \in Nodes : h.order[h.rank[x] + 1] = x
  /\ \A d \in Dirs : \A p \in DOMAIN h.side[d] :
       /\ p[1] \in Nodes /\ p[2] \in Nodes /\ p[1] < p[2]
       /\ ~h.side[d][p].original =>
            LET a == h.side[d][p] IN
            /\ a.first \in DOMAIN h.side["b"] /\ a.second \in DOMAIN h.side["f"]
            /\ a.weight = h.side["b"][a.first].weight + h.side["f"][a.second].weight
       /\ h.side[d][p].original => h.side[d][p].second \in Nodes
-----------------------------------------------------------------------------
(* The reference: the distances in a graph of weighted arcs. *)
Weights(g) == [p \in Nodes \X Nodes |-> IF p \in DOMAIN g THEN g[p].weight ELSE Inf]
DistancesIn(g) == Distances(input.n, Weights(g))
TrueDistance == DistancesIn(CleanGraph)

(* Between two contractions the remaining graph keeps every distance between *)
(* the remaining nodes, whatever the order, the pop bound, the shortcuts     *)
(* already added and the forward search shared by several targets: contract_ *)
(* node leaves a shortcut out only when a real path makes it needless.       *)
CoreKeepsDistances ==
  pc = "pick" => LET now == DistancesIn(graph)
                     then == TrueDistance IN
                 \A p \in Remaining \X Remaining : now[p] = then[p]

(* The finished hierarchy, after renaming and reordering for the cache and   *)
(* after a trip through its file, passes the code's own consistency check.   *)
HierarchyIsConsistent == pc = "built" => Passes(ch) /\ Passes(ReadBack(Written(ch)))
=============================================================================
