---------------------- MODULE ContractionHierarchyQuery ----------------------
(* ContractionHierarchyQuery: one query object on a finished hierarchy.  The *)
(* code is written once per direction and called with its arguments swapped, *)
(* so every array is indexed by the direction.  Pinning stores its lists in  *)
(* arrays the other direction does not need, as the code does: the targets   *)
(* in the backward predecessors, the nodes to sweep in the backward          *)
(* distances, their number in the meeting node.                              *)
EXTENDS ContractionHierarchy

CONSTANTS StartDistances,  \* by number of nodes: the dist_to_s and dist_to_t a caller passes
          PinLists,        \* by number of nodes: the lists a caller pins
          MaxSources,      \* by number of nodes: how many sources, or targets, a caller adds
          MaxRounds        \* by number of nodes: how often a caller resets the object

(* Callers add no more than inf_weight and pin lists that fit into the arrays. *)
ASSUME CallsAssumption ==
  \A i \in Inputs : /\ StartDistances[i.n] \subseteq 0 .. Inf
                     /\ \A list \in PinLists[i.n] : list \in Seq(0 .. i.n - 1) /\ Len(list) <= i.n

VARIABLES st,       \* InternalState, and the loops run and pinned_run are in
          q,        \* forward_queue, backward_queue
          dist,     \* tentative distances
          flag,     \* was_forward_pushed, was_backward_pushed
          pnode, parc,    \* predecessor nodes and arcs
          meet,     \* shortest_path_meeting_node
          count,    \* many_to_many_source_or_target_count
          len, fnext,     \* run's shortest_path_length and forward_next
          asked,    \* what the caller added or pinned since the last reset
          rounds    \* resets so far

queryVars == <<st, q, dist, flag, pnode, parc, meet, count, len, fnext, asked, rounds>>
vars == <<buildVars, queryVars>>

Least(a, b) == IF a <= b THEN a ELSE b
BothSides(v) == [d \in Dirs |-> v]
NotAsked == [src |-> [d \in Dirs |-> NoFn], pins |-> <<>>]
QueryInit == /\ st = "initialized" /\ q = BothSides(NoFn) /\ flag = BothSides({})
             /\ dist = BothSides([x \in Nodes |-> 0])
             /\ pnode = BothSides([x \in Nodes |-> 0]) /\ parc = BothSides([x \in Nodes |-> NoId])
             /\ meet = NoId /\ count = 0 /\ len = Inf /\ fnext = TRUE
             /\ asked = NotAsked /\ rounds = 0
Heads(d, x) == {y \in Nodes : <<x, y>> \in DOMAIN ch.side[d]}
-----------------------------------------------------------------------------
(* add_source and add_target: allowed on a fresh object, and on the free    *)
(* side of a pinned one.                                                    *)
PinnedState(d) == IF d = "b" THEN "target_pinned" ELSE "source_pinned"
SearchState(d) == IF d = "b" THEN "target_search" ELSE "source_search"
RunState(d) == IF d = "b" THEN "target_run" ELSE "source_run"
Add(d, node, d0) ==
  LET x == ch.rank[node]
      better == x \notin DOMAIN q[d] \/ d0 < dist[d][x] IN
  /\ st \in {"initialized", PinnedState(Opposite(d))}
  /\ Cardinality(DOMAIN asked.src[d]) < MaxSources[input.n]
  /\ q' = IF better THEN [q EXCEPT ![d] = Overlaid(Just(x, d0), @)] ELSE q
  /\ dist' = IF better THEN [dist EXCEPT ![d][x] = d0] ELSE dist
  /\ pnode' = IF x \notin DOMAIN q[d] THEN [pnode EXCEPT ![d][x] = NoId] ELSE pnode
  /\ flag' = [flag EXCEPT ![d] = @ \cup {x}]
  /\ asked' = [asked EXCEPT !.src[d] =
                 Overlaid(Just(node, IF node \in DOMAIN @ THEN Least(@[node], d0) ELSE d0), @)]
  /\ UNCHANGED <<st, parc, meet, count, len, fnext, rounds>>

(* reset, reset_source and reset_target. *)
Reset ==
  /\ st \notin {"running", "target_search", "source_search"} /\ rounds < MaxRounds[input.n]
  /\ q' = BothSides(NoFn) /\ flag' = BothSides({}) /\ meet' = NoId /\ st' = "initialized"
  /\ asked' = NotAsked /\ rounds' = rounds + 1
  /\ UNCHANGED <<dist, pnode, parc, count, len, fnext>>
ResetOne(d) ==
  /\ st \in {PinnedState(Opposite(d)), RunState(Opposite(d))} /\ rounds < MaxRounds[input.n]
  /\ q' = [q EXCEPT ![d] = NoFn] /\ flag' = [flag EXCEPT ![d] = {}]
  /\ st' = PinnedState(Opposite(d))
  /\ asked' = [asked EXCEPT !.src[d] = NoFn] /\ rounds' = rounds + 1
  /\ UNCHANGED <<dist, pnode, parc, meet, count, len, fnext>>
-----------------------------------------------------------------------------
(* forward_expand_upward_ch_arcs_of_node. *)
Relaxed(d, x, key) ==
  {h \in Heads(d, x) : LET new == key + ch.side[d][<<x, h>>].weight IN
                       IF h \in flag[d] THEN new < dist[d][h] ELSE new < Inf}
ExpandUpward(d, x, key) ==
  LET up == Relaxed(d, x, key)
      new == [h \in up |-> key + ch.side[d][<<x, h>>].weight] IN
  /\ q' = [q EXCEPT ![d] = Overlaid(new, Restrict(@, DOMAIN @ \ {x}))]
  /\ dist' = [dist EXCEPT ![d] = Overlaid(new, @)]
  /\ flag' = [flag EXCEPT ![d] = @ \cup up]
  /\ pnode' = [pnode EXCEPT ![d] = Overlaid([h \in up |-> x], @)]
  /\ parc' = [parc EXCEPT ![d] = Overlaid([h \in up |-> <<x, h>>], @)]

(* forward_can_stall_at_node: a higher node already reached is a better way. *)
\* Mutant: a node not reached in this search can stall, its distance is an old one.
CanStallOnStale(d, x) ==
  \E y \in Heads(Opposite(d), x) :
    dist[d][y] + ch.side[Opposite(d)][<<x, y>>].weight <= dist[d][x]
CanStall(d, x) ==
  \E y \in Heads(Opposite(d), x) \cap flag[d] :
    dist[d][y] + ch.side[Opposite(d)][<<x, y>>].weight <= dist[d][x]

(* forward_settle_node. *)
SettleNode(d, x) ==
  LET key == q[d][x]
      sum == key + dist[Opposite(d)][x]
      joins == x \in flag[Opposite(d)] /\ len > sum IN
  /\ len' = IF joins THEN sum ELSE len
  /\ meet' = IF joins THEN x ELSE meet
  /\ IF CanStall(d, x)
     THEN q' = [q EXCEPT ![d] = Restrict(@, DOMAIN @ \ {x})] /\ UNCHANGED <<dist, flag, pnode, parc>>
     ELSE ExpandUpward(d, x, key)

StartRun ==
  /\ st = "initialized" /\ \A d \in Dirs : DOMAIN q[d] # {}
  /\ st' = "running" /\ len' = Inf /\ meet' = NoId /\ fnext' = TRUE
  /\ UNCHANGED <<q, dist, flag, pnode, parc, count, asked, rounds>>
Nearest(d) == {x \in DOMAIN q[d] : q[d][x] = MinKey(q[d])}
Finished(d) == IF DOMAIN q[d] = {} THEN TRUE ELSE MinKey(q[d]) >= len
RunSettle ==
  /\ st = "running" /\ ~(Finished("f") /\ Finished("b"))
  /\ LET d == IF Finished("f") THEN "b" ELSE IF Finished("b") THEN "f" ELSE IF fnext THEN "f" ELSE "b" IN
     /\ \E x \in Nearest(d) : SettleNode(d, x)
     /\ fnext' = (d = "b")
  /\ UNCHANGED <<st, count, asked, rounds>>
EndRun ==
  /\ st = "running" /\ Finished("f") /\ Finished("b")
  /\ st' = "run"
  /\ UNCHANGED <<q, dist, flag, pnode, parc, meet, count, len, fnext, asked, rounds>>
-----------------------------------------------------------------------------
(* pin: note the list, and every node above it by falling rank. *)
Above(d, xs) == ReachedBy([x \in Nodes |-> Heads(d, x)], xs)
AtFront(arr, list) == [i \in DOMAIN arr |-> IF i < Len(list) THEN list[i + 1] ELSE arr[i]]
PinAll(d, list) ==
  LET ids == [i \in DOMAIN list |-> ch.rank[list[i]]]
      select == SortedBy([x \in Nodes |-> input.n - x], Above(d, Range(ids) \cup DOMAIN q[d])) IN
  /\ st = "initialized" /\ DOMAIN asked.src[d] = {}  \* callers pin a side they add nothing to
  /\ pnode' = [pnode EXCEPT ![d] = AtFront(@, ids)]
  /\ dist' = [dist EXCEPT ![d] = AtFront(@, select)]
  /\ meet' = Len(select) /\ count' = Len(list)
  /\ q' = [q EXCEPT ![d] = NoFn]
  /\ st' = PinnedState(d)
  /\ asked' = [asked EXCEPT !.pins = list]
  /\ UNCHANGED <<flag, parc, len, fnext, rounds>>

(* pinned_run from the free side d to the lists pinned on the other side:   *)
(* a full upward search, then one sweep down the selected nodes.            *)
StartPinnedRun(d) ==
  /\ st = PinnedState(Opposite(d)) /\ DOMAIN q[d] # {}
  /\ st' = SearchState(Opposite(d))
  /\ UNCHANGED <<q, dist, flag, pnode, parc, meet, count, len, fnext, asked, rounds>>
FullForwardSearch(d) ==
  /\ st = SearchState(Opposite(d))
  /\ DOMAIN q[d] # {}
  /\ \E x \in Nearest(d) : ExpandUpward(d, x, q[d][x])
  /\ UNCHANGED <<st, meet, count, len, fnext, asked, rounds>>
\* Mutant: a node nothing reaches keeps the distance of the last round.
SweepStepKeepsOld(d, acc, x) ==
  LET p == Opposite(d)
      via(y) == acc.dist[y] + ch.side[p][<<x, y>>].weight
      own == IF x \in acc.flag THEN acc.dist[x] ELSE Inf
      best == {y \in Heads(p, x) : via(y) < own /\ \A z \in Heads(p, x) : via(y) <= via(z)} IN
  IF best # {}
  THEN LET y == Min(best) IN
       [dist |-> [acc.dist EXCEPT ![x] = via(y)], parc |-> [acc.parc EXCEPT ![x] = <<x, y>>],
        flag |-> acc.flag \ {x}]
  ELSE IF own = Inf
  THEN [acc EXCEPT !.parc[x] = NoId]
  ELSE acc
\* Mutant: a node improved on the way down still counts as reached upward.
SweepStepKeepsFlag(d, acc, x) ==
  LET p == Opposite(d)
      via(y) == acc.dist[y] + ch.side[p][<<x, y>>].weight
      own == IF x \in acc.flag THEN acc.dist[x] ELSE Inf
      best == {y \in Heads(p, x) : via(y) < own /\ \A z \in Heads(p, x) : via(y) <= via(z)} IN
  IF best # {}
  THEN LET y == Min(best) IN
       [dist |-> [acc.dist EXCEPT ![x] = via(y)], parc |-> [acc.parc EXCEPT ![x] = <<x, y>>],
        flag |-> acc.flag]
  ELSE IF own = Inf
  THEN [acc EXCEPT !.dist[x] = Inf, !.parc[x] = NoId]
  ELSE acc
SweepStep(d, acc, x) ==
  LET p == Opposite(d)
      via(y) == acc.dist[y] + ch.side[p][<<x, y>>].weight
      own == IF x \in acc.flag THEN acc.dist[x] ELSE Inf
      best == {y \in Heads(p, x) : via(y) < own /\ \A z \in Heads(p, x) : via(y) <= via(z)} IN
  IF best # {}
  THEN LET y == Min(best) IN
       [dist |-> [acc.dist EXCEPT ![x] = via(y)], parc |-> [acc.parc EXCEPT ![x] = <<x, y>>],
        flag |-> acc.flag \ {x}]
  ELSE IF own = Inf
  THEN [acc EXCEPT !.dist[x] = Inf, !.parc[x] = NoId]
  ELSE acc
Sweep(d) ==
  /\ st = SearchState(Opposite(d)) /\ DOMAIN q[d] = {}
  /\ LET S[i \in 0 .. meet] == IF i = 0 THEN [dist |-> dist[d], parc |-> parc[d], flag |-> flag[d]]
                                ELSE SweepStep(d, S[i - 1], dist[Opposite(d)][i - 1])
         r == S[meet] IN
     /\ dist' = [dist EXCEPT ![d] = r.dist] /\ parc' = [parc EXCEPT ![d] = r.parc]
     /\ flag' = [flag EXCEPT ![d] = r.flag]
  /\ st' = RunState(Opposite(d))
  /\ UNCHANGED <<q, pnode, meet, count, len, fnext, asked, rounds>>
-----------------------------------------------------------------------------
(* Unpacking, get_used_source, get_arc_path and get_distance. *)
SideArcs == {e \in Dirs \X (Nodes \X Nodes) : e[2] \in DOMAIN ch.side[e[1]]}
UnpackArc == LET U[e \in SideArcs] ==
                   LET a == ch.side[e[1]][e[2]] IN
                   IF a.original THEN <<a.first>> ELSE U[<<"b", a.first>>] \o U[<<"f", a.second>>]
             IN U
Link(d, far, near) == IF d = "f" THEN far \o near ELSE near \o far
\* the predecessor of a node that was not reached is an old one, no way leads over it
Ends(d, y) == y \notin flag[d] \/ pnode[d][y] = NoId
StartOf(d) == LET S[y \in Nodes] == IF Ends(d, y) THEN y ELSE S[pnode[d][y]] IN S
UnpackedWay(d) == LET W[y \in Nodes] == IF Ends(d, y) THEN <<>>
                                        ELSE Link(d, W[pnode[d][y]], UnpackArc[<<d, parc[d][y]>>])
                  IN W
UsedEnd(d) == IF meet = NoId THEN NoId ELSE ch.order[StartOf(d)[meet] + 1]
GetDistance == IF meet = NoId THEN Inf ELSE dist["f"][meet] + dist["b"][meet]
GetArcPath == IF meet = NoId THEN <<>> ELSE UnpackedWay("f")[meet] \o UnpackedWay("b")[meet]

(* get_extra_weight_distance: the extra weights of the up part and of the   *)
(* down part, linked in road order, with no neutral element for a part that *)
(* is missing.  ShortcutWeights unpacks an arc on the way; here the extra   *)
(* weight of an arc is the arc and link is concatenation.                   *)
UpExtra(d) ==
  LET E[y \in {x \in Nodes : ~Ends(d, x)}] ==
        LET near == UnpackArc[<<d, parc[d][y]>>] IN
        IF Ends(d, pnode[d][y]) THEN near ELSE Link(d, E[pnode[d][y]], near)
  IN E
ExtraDistance ==
  IF meet = NoId THEN <<>>
  ELSE CASE pnode["f"][meet] = NoId /\ pnode["b"][meet] = NoId -> <<>>
         [] pnode["f"][meet] # NoId /\ pnode["b"][meet] # NoId -> UpExtra("f")[meet] \o UpExtra("b")[meet]
         [] pnode["f"][meet] # NoId /\ pnode["b"][meet] = NoId -> UpExtra("f")[meet]
         [] OTHER -> UpExtra("b")[meet]

(* ContractionHierarchyExtraWeight::reset, with the extra weight of an arc  *)
(* the arc itself and link the concatenation: what a path weighs is what it *)
(* runs over.                                                               *)
ExtraWeight ==
  LET Take(w, a) == IF a.original THEN <<a.first>> ELSE w["b"][a.first] \o w["f"][a.second]
      At(w, d, x) == [w EXCEPT ![d] = Overlaid([p \in {e \in DOMAIN ch.side[d] : e[1] = x} |-> Take(w, ch.side[d][p])], @)]
      W[x \in -1 .. input.n - 1] == IF x = -1 THEN BothSides(NoFn) ELSE At(At(W[x - 1], "f", x), "b", x)
  IN W[input.n - 1]

(* extract_distances_to_targets: a target walks down pins to a node of the  *)
(* upward search, and from there along predecessors to its source.          *)
Unreached(d, x) == x \notin flag[d] /\ parc[d][x] = NoId
Reached(d) == {x \in {dist[Opposite(d)][i] : i \in 0 .. meet - 1} : ~Unreached(d, x)}
ExtraFromSource(d) ==
  LET F[x \in Nodes] == IF Ends(d, x) THEN <<>> ELSE Link(d, F[pnode[d][x]], ExtraWeight[d][parc[d][x]])
      B[x \in Reached(d)] == IF x \in flag[d] THEN F[x]
                             ELSE Link(d, B[parc[d][x][2]], ExtraWeight[Opposite(d)][parc[d][x]])
  IN B
UsedSource(d) ==
  LET B[x \in Reached(d)] == IF x \in flag[d] THEN StartOf(d)[x] ELSE B[parc[d][x][2]] IN B
PinnedId(d, i) == pnode[Opposite(d)][i - 1]

(* get_extra_weight_distances_to_targets marks the nodes it has a distance  *)
(* for in the flags of the pinned side and uses its arcs as a stack.        *)
ExtraDistances(d) ==
  /\ st = RunState(Opposite(d))
  /\ flag' = [flag EXCEPT ![Opposite(d)] =
                {x \in Nodes : \E i \in 1 .. count : /\ ~Unreached(d, PinnedId(d, i))
                                                     /\ x = PinnedId(d, i)}]
  /\ parc' = [parc EXCEPT ![Opposite(d)] = [x \in Nodes |-> NoId]]
  /\ UNCHANGED <<st, q, dist, pnode, meet, count, len, fnext, asked, rounds>>

Asking == \/ \E d \in Dirs, x \in Nodes, d0 \in StartDistances[input.n] : Add(d, x, d0)
          \/ Reset \/ StartRun \/ RunSettle \/ EndRun
          \/ \E d \in Dirs : \/ ResetOne(d) \/ StartPinnedRun(d) \/ FullForwardSearch(d)
                             \/ Sweep(d) \/ ExtraDistances(d)
          \/ \E d \in Dirs, list \in PinLists[input.n] : PinAll(d, list)
Next == \/ pc # "built" /\ Building /\ UNCHANGED queryVars
        \/ pc = "built" /\ Asking /\ UNCHANGED buildVars
\* Before the build; the query object is that of a fresh hierarchy.
Start == Init /\ QueryInit
Spec == Start /\ [][Next]_vars
-----------------------------------------------------------------------------
PathWeight(path) == LET W[i \in 0 .. Len(path)] == IF i = 0 THEN 0 ELSE W[i - 1] + input.arcs[path[i]].weight
                    IN W[Len(path)]
IsPath(path, from, to) ==
  /\ path = <<>> => from = to
  /\ path # <<>> => input.arcs[path[1]].tail = from /\ input.arcs[Last(path)].head = to
  /\ \A i \in 1 .. Len(path) - 1 : input.arcs[path[i]].head = input.arcs[path[i + 1]].tail
BestFrom(src, to, D) ==
  Min({Inf} \cup {src[s] + D[<<s, to>>] : s \in {x \in DOMAIN src : D[<<x, to>>] < Inf}})
Turned(D) == [p \in DOMAIN D |-> D[Flip(p)]]

(* After run the distance is that of the best pair of an added source and    *)
(* an added target, and the unpacked arcs are a road from the source the     *)
(* query names to the target it names, of exactly that length: stalled nodes *)
(* and the alternating searches that stop early lose nothing.  The extra     *)
(* weight runs over the same arcs in the same order.                         *)
RunIsShortest ==
  st = "run" =>
    LET D == TrueDistance
        best == Min({Inf} \cup {BestFrom(asked.src["f"], t, D) + asked.src["b"][t] :
                                  t \in {x \in DOMAIN asked.src["b"] : BestFrom(asked.src["f"], x, D) < Inf}}) IN
    /\ GetDistance = best
    /\ ExtraDistance = GetArcPath
    /\ meet # NoId =>
         /\ IsPath(GetArcPath, UsedEnd("f"), UsedEnd("b"))
         /\ asked.src["f"][UsedEnd("f")] + PathWeight(GetArcPath) + asked.src["b"][UsedEnd("b")] = best

(* After a pinned run every pinned node has the distance from the best       *)
(* source (to the best target, for pinned sources), also when only the free  *)
(* side was reset and the arrays still hold the last round.                  *)
PinnedRunIsShortest ==
  \A d \in Dirs : st = RunState(Opposite(d)) =>
    \A i \in 1 .. count :
      dist[d][PinnedId(d, i)] =
        BestFrom(asked.src[d], asked.pins[i], IF d = "f" THEN TrueDistance ELSE Turned(TrueDistance))

(* The source named for a pinned target and the road the extra weights run   *)
(* over explain its distance: walking predecessors never leaves the nodes of *)
(* the upward search, and with an extra weight that cannot be swapped round  *)
(* the result is still one road from that source to the target.              *)
PinnedRoadExplainsDistance ==
  \A d \in Dirs : st = RunState(Opposite(d)) =>
    \A i \in 1 .. count :
      LET x == PinnedId(d, i)
          road == ExtraFromSource(d)[x]
          used == ch.order[UsedSource(d)[x] + 1] IN
      IF Unreached(d, x) THEN dist[d][x] = Inf
      ELSE /\ used \in DOMAIN asked.src[d]
           /\ IF d = "f" THEN IsPath(road, used, asked.pins[i]) ELSE IsPath(road, asked.pins[i], used)
           /\ asked.src[d][used] + PathWeight(road) = dist[d][x]
=============================================================================
