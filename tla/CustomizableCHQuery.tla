------------------------- MODULE CustomizableCHQuery -------------------------
(* A CustomizableContractionHierarchyQuery object over the metric: every     *)
(* operation of its protocol, the elimination-tree walks with their cut-off  *)
(* ends, the one-to-many runs and the unpacking.  "f" is the side of the     *)
(* sources, "b" that of the targets; pinned targets are pinned on "b".       *)
EXTENDS CustomizableCH

\* A start distance is no more than inf_weight, pinned nodes are nodes.
ASSUME CallsAssumption ==
  \A i \in Inputs : i.starts \subseteq 0 .. Inf /\ i.pins \subseteq Seq(0 .. i.n - 1)

VARIABLES st,        \* state
          dist,      \* forward_ and backward_tentative_distance, per side
          pred,      \* forward_ and backward_predecessor_node
          inSpace,   \* in_forward_ and in_backward_search_space
          node, end, \* source_node, target_node and their elimination_tree_end
          meet,      \* shortest_path_meeting_node
          asked,     \* what the caller asked for: nodes with their start distances, pinned nodes
          rounds     \* bound: runs of the object so far

queryVars == <<st, dist, pred, inSpace, node, end, meet, asked, rounds>>
vars == <<cchVars, queryVars>>

BothSides(v) == [d \in Dirs |-> v]
Pinned(d) == <<"pinned", d>>
PinnedRun(d) == <<"pinned_run", d>>
Initialized == <<"initialized">>
HasRun == <<"run">>
NoStarts == [x \in {} |-> 0]
AllInf == [x \in Nodes |-> Inf]

QueryInit == /\ st = Initialized
             /\ dist = BothSides(AllInf) /\ pred = BothSides([x \in Nodes |-> NoId])
             /\ inSpace = BothSides({}) /\ node = BothSides(<<>>) /\ end = BothSides(<<>>)
             /\ meet = NoId /\ asked = [src |-> BothSides(NoStarts), pins |-> <<>>] /\ rounds = 0

(* forall_ancestors: from x up the elimination tree, stop_at left out. *)
Ancestors(x, stop_at) ==
  LET A[y \in Nodes \cup {NoId}] == IF y \in {stop_at, NoId} THEN <<>> ELSE <<y>> \o A[cch.parent[y]] IN A[x]
(* Where a new node's path meets what is in the search space already. *)
FirstIn(S, x) == LET F[y \in Nodes \cup {NoId}] == IF y \in S \cup {NoId} THEN y ELSE F[cch.parent[y]] IN F[x]
(* The nodes of a side in the order the loops see them: the last node added *)
(* first, each up to where its path was in the search space before.         *)
Walk(nodes, ends) ==
  LET W[i \in 0 .. Len(nodes)] == IF i = 0 THEN <<>> ELSE Ancestors(nodes[i], ends[i]) \o W[i - 1] IN W[Len(nodes)]
Walked(d) == Walk(node[d], end[d])

(* add_source and add_target. *)
Add(d, x, d0) ==
  LET s == Rank(x)
      stop_at == FirstIn(inSpace[d], s) IN
  /\ st \in {Initialized, Pinned(Opposite(d))} /\ Len(node[d]) < input.sources
  /\ IF dist[d][s] = Inf
     THEN /\ node' = [node EXCEPT ![d] = Append(@, s)]
          /\ end' = [end EXCEPT ![d] = Append(@, stop_at)]
          /\ dist' = [dist EXCEPT ![d][s] = d0]
          /\ pred' = [pred EXCEPT ![d][s] = NoId]
          /\ inSpace' = [inSpace EXCEPT ![d] = @ \cup Range(Ancestors(s, stop_at))]
     ELSE /\ dist' = [dist EXCEPT ![d][s] = Lesser(@, d0)]
          /\ UNCHANGED <<node, end, pred, inSpace>>
  /\ asked' = [asked EXCEPT !.src[d] = [y \in DOMAIN @ \cup {x} |-> IF y \notin DOMAIN @ THEN d0
                                                                     ELSE IF y = x THEN Lesser(@[y], d0) ELSE @[y]]]
  /\ UNCHANGED <<st, meet, rounds>>

(* relax_outgoing_arcs and the two sweeps of run. *)
RelaxOutgoing(s, w, x) ==
  LET better == {y \in Up(x) : s.dist[x] + w[<<x, y>>] < s.dist[y]} IN
  [s EXCEPT !.dist = [y \in Nodes |-> IF y \in better THEN s.dist[x] + w[<<x, y>>] ELSE @[y]],
            !.pred = [y \in Nodes |-> IF y \in better THEN x ELSE @[y]]]
Climb(walk, w, s) ==
  LET S[i \in 0 .. Len(walk)] == IF i = 0 THEN s ELSE RelaxOutgoing(S[i - 1], w, walk[i]) IN S[Len(walk)]
Meeting(s, forward, x) ==
  LET l == forward[x] + s.dist[x] IN
  IF x \in inSpace["f"] /\ l < s.len THEN [s EXCEPT !.len = l, !.meet = x] ELSE s
ClimbAndMeet(walk, w, s, forward) ==
  LET S[i \in 0 .. Len(walk)] == IF i = 0 THEN s ELSE Meeting(RelaxOutgoing(S[i - 1], w, walk[i]), forward, walk[i])
  IN S[Len(walk)]
Run ==
  LET f == Climb(Walked("f"), metric["f"], [dist |-> dist["f"], pred |-> pred["f"]])
      b == ClimbAndMeet(Walked("b"), metric["b"], [dist |-> dist["b"], pred |-> pred["b"], len |-> Inf, meet |-> NoId],
                        f.dist) IN
  /\ st = Initialized
  /\ dist' = [d \in Dirs |-> IF d = "f" THEN f.dist ELSE b.dist]
  /\ pred' = [d \in Dirs |-> IF d = "f" THEN f.pred ELSE b.pred]
  /\ meet' = b.meet
  /\ st' = HasRun
  /\ UNCHANGED <<inSpace, node, end, asked, rounds>>

(* pin_targets and pin_sources: the lists of that side are overwritten. *)
PinAll(d, list) ==
  LET space(i) == inSpace[d] \cup UNION {Range(Ancestors(Rank(list[j]), NoId)) : j \in 1 .. i} IN
  /\ st = Initialized /\ node[d] = <<>>  \* callers pin a side they add nothing to
  /\ node' = [node EXCEPT ![d] = [i \in DOMAIN list |-> Rank(list[i])]]
  /\ end' = [end EXCEPT ![d] = [i \in DOMAIN list |-> FirstIn(space(i - 1), Rank(list[i]))]]
  /\ inSpace' = [inSpace EXCEPT ![d] = space(Len(list))]
  /\ st' = Pinned(d)
  /\ asked' = [asked EXCEPT !.pins = list]
  /\ UNCHANGED <<dist, pred, meet, rounds>>

(* internal_run_to_pinned_targets: up from the free side d, then down to    *)
(* the pinned nodes; the distances of the pinned side serve as a stack.     *)
RelaxIncomingFrom(dd, w, x) ==
  [dd EXCEPT ![x] = Min({dd[x]} \cup {dd[y] + w[<<x, y>>] : y \in Up(x)})]
Descend(walk, w, dd) ==
  LET S[i \in 0 .. Len(walk)] == IF i = 0 THEN dd ELSE RelaxIncomingFrom(S[i - 1], w, walk[Len(walk) + 1 - i])
  IN S[Len(walk)]
RunToPinned(p) ==
  LET d == Opposite(p)
      up == Climb(Walked(d), metric[d], [dist |-> dist[d], pred |-> pred[d]]).dist
      stack == Walked(p) IN
  /\ st = Pinned(p)
  /\ dist' = [dist EXCEPT ![d] = Descend(stack, metric[p], up),
                          ![p] = [x \in Nodes |-> IF x < Len(stack) THEN Inf ELSE @[x]]]
  /\ st' = PinnedRun(p)
  /\ UNCHANGED <<pred, inSpace, node, end, meet, asked, rounds>>

(* reset_source_list empties a side, reset_target_distances clears what a   *)
(* run left in the distances of the free side over the pinned nodes.        *)
ClearedOver(side, dd) == [x \in Nodes |-> IF x \in Range(Walked(side)) THEN Inf ELSE dd[x]]
\* Mutant: what the run left over the pinned nodes stays.
ResetOneKeepsOld(d) ==
  /\ st \in {Pinned(Opposite(d)), PinnedRun(Opposite(d))} /\ rounds < input.rounds
  /\ dist' = [dist EXCEPT ![d] = ClearedOver(d, @)]
  /\ inSpace' = [inSpace EXCEPT ![d] = @ \ Range(Walked(d))]
  /\ node' = [node EXCEPT ![d] = <<>>] /\ end' = [end EXCEPT ![d] = <<>>]
  /\ st' = Pinned(Opposite(d))
  /\ asked' = [asked EXCEPT !.src[d] = NoStarts]
  /\ rounds' = rounds + 1
  /\ UNCHANGED <<pred, meet>>
ResetOne(d) ==
  /\ st \in {Pinned(Opposite(d)), PinnedRun(Opposite(d))} /\ rounds < input.rounds
  /\ dist' = [dist EXCEPT ![d] = ClearedOver(Opposite(d), ClearedOver(d, @))]
  /\ inSpace' = [inSpace EXCEPT ![d] = @ \ Range(Walked(d))]
  /\ node' = [node EXCEPT ![d] = <<>>] /\ end' = [end EXCEPT ![d] = <<>>]
  /\ st' = Pinned(Opposite(d))
  /\ asked' = [asked EXCEPT !.src[d] = NoStarts]
  /\ rounds' = rounds + 1
  /\ UNCHANGED <<pred, meet>>
Reset ==
  /\ st # Initialized /\ rounds < input.rounds
  /\ dist' = [d \in Dirs |-> ClearedOver(d, IF st \in {Pinned(Opposite(d)), PinnedRun(Opposite(d))}
                                            THEN ClearedOver(Opposite(d), dist[d]) ELSE dist[d])]
  /\ inSpace' = [d \in Dirs |-> inSpace[d] \ Range(Walked(d))]
  /\ node' = BothSides(<<>>) /\ end' = BothSides(<<>>)
  /\ st' = Initialized
  /\ asked' = [src |-> BothSides(NoStarts), pins |-> <<>>]
  /\ rounds' = rounds + 1
  /\ UNCHANGED <<pred, meet>>
-----------------------------------------------------------------------------
(* The answers. *)
GetDistance == IF meet = NoId THEN Inf ELSE dist["f"][meet] + dist["b"][meet]
StartOf(d, x) == LET E[y \in Nodes] == IF pred[d][y] = NoId THEN y ELSE E[pred[d][y]] IN E[x]
GetUsed(d) == order[StartOf(d, meet) + 1]

(* unpack_arc: the lowest triangle that explains the weight, else the arc. *)
Fitting(d, p) == {x \in LowerTriangles(p) : metric[d][p] = OverLower(metric, d, <<x, p[1]>>, <<x, p[2]>>)}
Segment(d, p) == <<[dir |-> d, arc |-> p, from |-> IF d = "f" THEN p[1] ELSE p[2]]>>
\* Mutant: the two halves of an upward arc are swapped.
UnpackArcSwapped(d, p) ==
  LET U[c \in Dirs \X cch.up] ==
        IF Fitting(c[1], c[2]) = {} THEN Segment(c[1], c[2])
        ELSE LET x == Min(Fitting(c[1], c[2])) IN U[<<"b", <<x, c[2][2]>>>>] \o U[<<"f", <<x, c[2][1]>>>>]
  IN U[<<d, p>>]
UnpackArc(d, p) ==
  LET U[c \in Dirs \X cch.up] ==
        IF Fitting(c[1], c[2]) = {} THEN Segment(c[1], c[2])
        ELSE LET x == Min(Fitting(c[1], c[2]))
                 first == c[2][IF c[1] = "f" THEN 1 ELSE 2]
                 last == c[2][IF c[1] = "f" THEN 2 ELSE 1]
             IN U[<<"b", <<x, first>>>>] \o U[<<"f", <<x, last>>>>]
  IN U[<<d, p>>]
(* unpack_shortest_path: up from the source to the meeting node, then down. *)
UnpackedUp(x) ==
  LET R[y \in Nodes] == IF pred["f"][y] = NoId THEN <<>> ELSE R[pred["f"][y]] \o UnpackArc("f", <<pred["f"][y], y>>) IN R[x]
UnpackedDown(x) ==
  LET R[y \in Nodes] == IF pred["b"][y] = NoId THEN <<>> ELSE UnpackArc("b", <<pred["b"][y], y>>) \o R[pred["b"][y]] IN R[x]
UnpackShortestPath == UnpackedUp(meet) \o UnpackedDown(meet)
GetNodePath == IF meet = NoId THEN <<>>
               ELSE [i \in 1 .. Len(UnpackShortestPath) |-> order[UnpackShortestPath[i].from + 1]] \o <<GetUsed("b")>>
GetArcPath == IF meet = NoId THEN <<>>
              ELSE [i \in 1 .. Len(UnpackShortestPath) |->
                      UnpackOriginalArc(metric, UnpackShortestPath[i].dir, UnpackShortestPath[i].arc)]
-----------------------------------------------------------------------------
Free == \A d \in Dirs : asked.src[d] = NoStarts /\ st \in {Initialized, Pinned(d), Pinned(Opposite(d))}
Asking == \/ \E d \in Dirs, x \in Nodes, d0 \in input.starts : Add(d, x, d0)
          \/ Run \/ Reset
          \/ \E d \in Dirs : RunToPinned(d) \/ ResetOne(d)
          \/ \E d \in Dirs, list \in input.pins : PinAll(d, list)
(* The weights change only between two runs: the query is reset, or keeps    *)
(* its pinned nodes only.                                                    *)
Next == \/ Customizing /\ UNCHANGED queryVars
        \/ Free /\ (\E w \in input.weights : Reweigh(w)) /\ UNCHANGED queryVars
        \/ pc = "customized" /\ Asking /\ UNCHANGED cchVars
\* Before the build; the query object is that of a fresh hierarchy.
Start == Init /\ QueryInit
Spec == Start /\ [][Next]_vars
-----------------------------------------------------------------------------
PathWeight(path) == LET W[i \in 0 .. Len(path)] == IF i = 0 THEN 0 ELSE W[i - 1] + weight[path[i]] IN W[Len(path)]
IsPath(path, from, to) ==
  /\ NoId \notin Range(path)
  /\ path = <<>> => from = to
  /\ path # <<>> => input.arcs[path[1]][1] = from /\ input.arcs[Last(path)][2] = to
  /\ \A i \in 1 .. Len(path) - 1 : input.arcs[path[i]][2] = input.arcs[path[i + 1]][1]
Best(src, tgt, D) ==
  LET pairs == {e \in (DOMAIN src) \X (DOMAIN tgt) : D[<<Rank(e[1]), Rank(e[2])>>] < Inf} IN
  Min({Inf} \cup {src[e[1]] + D[<<Rank(e[1]), Rank(e[2])>>] + tgt[e[2]] : e \in pairs})

(* After run the distance is that of the best pair of a source and a target; *)
(* the arc path is a road between the two the query names, of that length,   *)
(* and the node path visits its ends.  Walks cut off at a shared ancestor,   *)
(* arcs filtered away, closed roads and parallel arcs lose nothing.          *)
QueryIsShortest ==
  st = HasRun =>
    /\ GetDistance = Best(asked.src["f"], asked.src["b"], TrueDistance)
    /\ meet # NoId =>
         LET arcs == GetArcPath
             nodes == GetNodePath IN
         /\ IsPath(arcs, GetUsed("f"), GetUsed("b"))
         /\ asked.src["f"][GetUsed("f")] + PathWeight(arcs) + asked.src["b"][GetUsed("b")] = GetDistance
         /\ Len(nodes) = Len(arcs) + 1
         /\ \A i \in DOMAIN arcs : nodes[i] = input.arcs[arcs[i]][1] /\ nodes[i + 1] = input.arcs[arcs[i]][2]

(* After a pinned run every pinned node has its shortest distance, whatever  *)
(* earlier rounds and earlier weights left in the arrays, one of which       *)
(* served as a stack.                                                        *)
PinnedIsShortest ==
  \A p \in Dirs : st = PinnedRun(p) =>
    \A i \in DOMAIN asked.pins :
      LET pin == [x \in {asked.pins[i]} |-> 0]
          d == Opposite(p) IN
      dist[d][node[p][i]] = IF d = "f" THEN Best(asked.src["f"], pin, TrueDistance)
                                       ELSE Best(pin, asked.src["b"], TrueDistance)
=============================================================================
