--------------------------- MODULE CustomizableCH ---------------------------
(* The customizable contraction hierarchy of RoutingKit                     *)
(* (customizable_contraction_hierarchy.cpp): the chordal supergraph of a    *)
(* road graph under a node order, and the three ways to give its arcs the   *)
(* current weights: in one sweep, by many threads level by level, or only   *)
(* around the arcs whose weight changed.  Nodes are ranks, an arc is its    *)
(* two end nodes <<lower, higher>>: the code sorts the arcs by them, and    *)
(* compares arc ids only in that order.                                     *)
EXTENDS Integers, FiniteSets, Sequences, FiniteSetsExt, Functions, SequencesExt, ShortestDistances, TLC

CONSTANTS Inputs,   \* road graphs: [n, arcs: <<tail, head>>.., orders, weights: vectors, ways]
          Threads,  \* the threads of a parallel customization
          NoId      \* invalid_id

\* A vector has a weight for every arc, an order names every node once.
ASSUME InputsAssumption ==
  \A i \in Inputs :
    /\ i.n \in Nat /\ i.arcs \in Seq((0 .. i.n - 1) \X (0 .. i.n - 1))
    /\ \A w \in i.weights : w \in [DOMAIN i.arcs -> Nat]
    /\ \A o \in i.orders : DOMAIN o = 1 .. i.n /\ \A x \in 0 .. i.n - 1 : \E k \in DOMAIN o : o[k] = x
ASSUME NoIdAssumption == NoId \notin Nat /\ NoId \notin Nat \X Nat

VARIABLES input, order, filtered, \* the arguments of the constructor
          cch,      \* what it builds: [up, parent]
          scan, can, \* its loops: the next node, the arcs that can be finite
          weight,   \* the weight vector the metric points to
          metric,   \* forward and backward: direction -> arc -> weight
          q,        \* the queue of the partial customization
          pc,       \* what is running: "dirty" until the metric is customized
          sweep,    \* the sweep: its node, its cache of arcs, the arcs left; or the witness search: the triangles left, the arcs kept
          placed, chunk, worker, \* parallel: the nodes of earlier levels, the arcs not handed out, the threads
          ch        \* what the perfect witness search returned

graphVars == <<input, order, filtered, cch, scan, can>>
parallelVars == <<placed, chunk, worker>>
cchVars == <<graphVars, weight, metric, q, pc, sweep, parallelVars, ch>>

Dirs == {"f", "b"}
Opposite(d) == IF d = "f" THEN "b" ELSE "f"
Unset == [x |-> NoId]
Nodes == 0 .. input.n - 1
Before(p, r) == p[1] < r[1] \/ (p[1] = r[1] /\ p[2] < r[2])
First(S) == CHOOSE p \in S : \A r \in S : r = p \/ Before(p, r)
Rank(x) == (CHOOSE i \in DOMAIN order : order[i] = x) - 1
TailOf(a) == Rank(input.arcs[a][1])
HeadOf(a) == Rank(input.arcs[a][2])
InputArcs == DOMAIN input.arcs
-----------------------------------------------------------------------------
(* The constructor. *)
InputArcToCchArc(a) == IF TailOf(a) = HeadOf(a) THEN NoId
                       ELSE IF TailOf(a) < HeadOf(a) THEN <<TailOf(a), HeadOf(a)>> ELSE <<HeadOf(a), TailOf(a)>>
InputArcDir(a) == IF TailOf(a) < HeadOf(a) THEN "f" ELSE "b"
SymmetricArcs == {InputArcToCchArc(a) : a \in InputArcs} \ {NoId}

(* compute_chordal_supergraph: the lowest neighbour inherits the others. *)
Above(arcs, x) == {p[2] : p \in {e \in arcs : e[1] = x}}
Inherited(arcs, x) ==
  LET nodes == Above(arcs, x) IN {<<Min(nodes), y>> : y \in {z \in nodes : z > Min(nodes)}}
EliminationTreeParent(up) ==
  [x \in Nodes |-> IF Above(up, x) = {} THEN NoId ELSE Min(Above(up, x))]

(* filter_always_inf_arcs: an arc stays if some weights can make it finite  *)
(* in one direction.                                                        *)
InputCan == {<<InputArcDir(a), InputArcToCchArc(a)>> : a \in {b \in InputArcs : TailOf(b) # HeadOf(b)}}
Spread(up, x) ==
  {c \in Dirs \X {e \in up : {<<x, e[1]>>, <<x, e[2]>>} \subseteq up} :
     <<Opposite(c[1]), <<x, c[2][1]>>>> \in can /\ <<c[1], <<x, c[2][2]>>>> \in can}

Up(x) == {y \in Nodes : <<x, y>> \in cch.up}
Down(x) == {y \in Nodes : <<y, x>> \in cch.up}
UpperTriangles(p) == Up(p[1]) \cap Up(p[2])
IntermediateTriangles(p) == Up(p[1]) \cap Down(p[2])
LowerTriangles(p) == Down(p[1]) \cap Down(p[2])

(* The input arcs of an arc: the first one and the extra ones. *)
InputArcsOfCch(d, p) ==
  {a \in InputArcs : InputArcToCchArc(a) = p /\ InputArcDir(a) = d}
-----------------------------------------------------------------------------
(* The metric. *)
Extract(d, p) == Min({Inf} \cup {weight[a] : a \in InputArcsOfCch(d, p)})
ExtractInitialMetric == [d \in Dirs |-> [p \in cch.up |-> Extract(d, p)]]
OverLower(m, d, bottom, mid) == m[Opposite(d)][bottom] + m[d][mid]
LowerTriangleRelaxer(m, bottom, mid, top) ==
  [m EXCEPT !["f"][top] = Lesser(@, OverLower(m, "f", bottom, mid)),
            !["b"][top] = Lesser(@, OverLower(m, "b", bottom, mid))]
-----------------------------------------------------------------------------
Init == /\ input \in Inputs
        /\ order \in input.orders
        /\ filtered \in BOOLEAN
        /\ cch = [up |-> SymmetricArcs, parent |-> [x \in Nodes |-> NoId]]
        /\ scan = 0 /\ can = {} /\ pc = "contract"
        /\ weight \in input.weights
        /\ metric = [d \in Dirs |-> <<>>] /\ q = {}
        /\ sweep = Unset /\ placed = {} /\ chunk = {} /\ worker = [t \in Threads |-> Unset]
        /\ ch = Unset

(* The constructor goes over the nodes once for the supergraph and once for *)
(* the filter.                                                              *)
ContractNode ==
  /\ pc = "contract" /\ scan < input.n
  /\ cch' = [cch EXCEPT !.up = @ \cup Inherited(cch.up, scan)]
  /\ scan' = scan + 1
  /\ UNCHANGED <<input, order, filtered, can, weight, metric, q, pc, sweep, parallelVars, ch>>
BuildTree ==
  /\ pc = "contract" /\ scan = input.n
  /\ cch' = [cch EXCEPT !.parent = EliminationTreeParent(cch.up)]
  /\ scan' = 0 /\ can' = InputCan
  /\ pc' = IF filtered THEN "filter" ELSE "dirty"
  /\ UNCHANGED <<input, order, filtered, weight, metric, q, sweep, parallelVars, ch>>
FilterNode ==
  /\ pc = "filter" /\ scan < input.n
  /\ can' = can \cup Spread(cch.up, scan)
  /\ scan' = scan + 1
  /\ UNCHANGED <<input, order, filtered, cch, weight, metric, q, pc, sweep, parallelVars, ch>>
KeepArcs ==
  /\ pc = "filter" /\ scan = input.n
  /\ cch' = [cch EXCEPT !.up = {c[2] : c \in can}]
  /\ pc' = "dirty"
  /\ UNCHANGED <<input, order, filtered, scan, can, weight, metric, q, sweep, parallelVars, ch>>

(* customize: for every node x and arcs y-x, y-z with y < x < z the arc x-z *)
(* is taken from a cache that is not cleared between nodes: where the filter *)
(* removed x-z the cache holds the arc of an earlier node, or arc 0.  The    *)
(* perfect witness search begins with a sweep of its own.                   *)
Arc0 == IF cch.up = {} THEN NoId ELSE First(cch.up)
PairsOver(x) == {e \in cch.up : e[1] \in Down(x) /\ e[2] > x}
AtNode(x, cache, goal) ==
  [x |-> x, cache |-> [z \in Nodes |-> IF z \in Up(x) THEN <<x, z>> ELSE cache[z]], left |-> PairsOver(x), goal |-> goal]
Customize ==
  /\ pc = "dirty"
  /\ metric' = ExtractInitialMetric
  /\ \E goal \in {"sweep", "witness"} \cap input.ways : sweep' = AtNode(0, [z \in Nodes |-> Arc0], goal)
  /\ pc' = "sweep" /\ q' = {}
  /\ UNCHANGED <<graphVars, weight, parallelVars, ch>>
NextPair == CHOOSE e \in sweep.left : \A r \in sweep.left : r = e \/ e[1] < r[1] \/ (e[1] = r[1] /\ e[2] > r[2])
RelaxPair ==
  /\ pc = "sweep" /\ sweep.left # {}
  /\ metric' = LowerTriangleRelaxer(metric, <<NextPair[1], sweep.x>>, NextPair, sweep.cache[NextPair[2]])
  /\ sweep' = [sweep EXCEPT !.left = @ \ {NextPair}]
  /\ UNCHANGED <<graphVars, weight, q, pc, parallelVars, ch>>
NextNode ==
  /\ pc = "sweep" /\ sweep.left = {}
  /\ IF sweep.x + 1 < input.n
     THEN sweep' = AtNode(sweep.x + 1, sweep.cache, sweep.goal) /\ UNCHANGED pc
     ELSE sweep' = Unset /\ pc' = IF sweep.goal = "sweep" THEN "customized" ELSE "witness"
  /\ UNCHANGED <<graphVars, weight, metric, q, parallelVars, ch>>

(* The levels of CustomizableContractionHierarchyParallelization: a node is *)
(* released when its last lower neighbour was placed.                       *)
Released(done) == {x \in Nodes \ done : Down(x) \subseteq done}
ArcsOfLevel(nodes) == {p \in cch.up : p[1] \in nodes}
StartParallel == /\ pc = "dirty" /\ "parallel" \in input.ways
                 /\ metric' = ExtractInitialMetric
                 /\ placed' = {} /\ chunk' = ArcsOfLevel(Released({}))
                 /\ pc' = "parallel" /\ q' = {}
                 /\ UNCHANGED <<graphVars, weight, sweep, worker, ch>>

(* The arcs of a level are handed out in order.  A thread goes over the     *)
(* upper triangles of its arc, in each to the forward, then the backward    *)
(* minimum.  It reads the sum once and the value to replace, then stores    *)
(* the sum if the value is still there, else reads the value again.         *)
TakeArc(t) == /\ pc = "parallel" /\ chunk # {} /\ worker[t] = Unset
              /\ LET p == First(chunk) IN
                 /\ worker' = [worker EXCEPT ![t] = IF UpperTriangles(p) = {} THEN Unset
                                                    ELSE [arc |-> p, left |-> UpperTriangles(p), dir |-> "f", seen |-> NoId, sum |-> NoId]]
                 /\ chunk' = chunk \ {p}
              /\ UNCHANGED <<graphVars, weight, metric, q, pc, sweep, placed, ch>>
Apex(t) == Min(worker[t].left)
TopOf(t) == <<worker[t].arc[2], Apex(t)>>
SumOf(t) == OverLower(metric, worker[t].dir, worker[t].arc, <<worker[t].arc[1], Apex(t)>>)
NextTask(t) ==
  LET left == IF worker[t].dir = "f" THEN worker[t].left ELSE worker[t].left \ {Apex(t)} IN
  IF left = {} THEN Unset ELSE [arc |-> worker[t].arc, left |-> left, dir |-> Opposite(worker[t].dir), seen |-> NoId, sum |-> NoId]
Seen(t) == metric[worker[t].dir][TopOf(t)]
ReadTop(t) == /\ worker[t] # Unset /\ worker[t].seen = NoId
              /\ worker' = [worker EXCEPT ![t] = [@ EXCEPT !.sum = SumOf(t), !.seen = Seen(t)]]
              /\ UNCHANGED <<graphVars, weight, metric, q, pc, sweep, placed, chunk, ch>>
Finishes(t) == worker' = [worker EXCEPT ![t] = NextTask(t)]
Stores(t) == metric' = [metric EXCEPT ![worker[t].dir][TopOf(t)] = worker[t].sum] /\ Finishes(t)
\* Mutant: the minimum is stored whatever the value is by now.
PlainMinTo(t) ==
  /\ worker[t] # Unset /\ worker[t].seen # NoId
  /\ IF worker[t].sum >= worker[t].seen THEN Finishes(t) /\ UNCHANGED metric ELSE Stores(t)
  /\ UNCHANGED <<graphVars, weight, q, pc, sweep, placed, chunk, ch>>
AtomicMinTo(t) ==
  /\ worker[t] # Unset /\ worker[t].seen # NoId
  /\ \/ worker[t].sum >= worker[t].seen /\ Finishes(t) /\ UNCHANGED metric
     \/ /\ worker[t].sum < worker[t].seen /\ Seen(t) # worker[t].seen
        /\ worker' = [worker EXCEPT ![t].seen = Seen(t)] /\ UNCHANGED metric
     \/ worker[t].sum < worker[t].seen /\ Seen(t) = worker[t].seen /\ Stores(t)
  /\ UNCHANGED <<graphVars, weight, q, pc, sweep, placed, chunk, ch>>
(* The threads wait for each other at the end of a level. *)
NextLevel ==
  LET done == placed \cup Released(placed) IN
  /\ placed' = done /\ chunk' = ArcsOfLevel(Released(done))
  /\ pc' = IF Nodes \subseteq done THEN "customized" ELSE pc
\* Mutant: a thread that finds no arc goes on to the next level alone.
NoBarrier == /\ pc = "parallel" /\ chunk = {} /\ \E t \in Threads : worker[t] = Unset
             /\ NextLevel
             /\ UNCHANGED <<graphVars, weight, metric, q, sweep, worker, ch>>
Barrier == /\ pc = "parallel" /\ chunk = {} /\ \A t \in Threads : worker[t] = Unset
           /\ NextLevel
           /\ UNCHANGED <<graphVars, weight, metric, q, sweep, worker, ch>>
-----------------------------------------------------------------------------
(* New weights: the metric is pointed to them, and the partial customization *)
(* is reset and told every input arc whose weight changed.                  *)
UpdateArcs(A) == {InputArcToCchArc(a) : a \in A} \ {NoId}
Reweigh(w) == /\ pc = "customized" /\ w # weight
              /\ weight' = w
              /\ q' = UpdateArcs({a \in InputArcs : w[a] # weight[a]})
              /\ pc' = "changed"
              /\ UNCHANGED <<graphVars, metric, sweep, parallelVars, ch>>
CustomizeAnew == /\ pc = "changed" /\ pc' = "dirty"
                 /\ UNCHANGED <<graphVars, weight, metric, q, sweep, parallelVars, ch>>

(* partial customize: the lowest arc in the queue is computed anew; when it *)
(* changed, so may every arc above that it set or can now set.              *)
LowerSums(m, d, p) == {OverLower(m, d, <<x, p[1]>>, <<x, p[2]>>) : x \in LowerTriangles(p)}
Least(m, d, p) == Min({Extract(d, p)} \cup LowerSums(m, d, p))
Recomputed(p) == [d \in Dirs |-> [metric[d] EXCEPT ![p] = Least(metric, d, p)]]
TopsBetween(p, m, old) ==
  {<<y, p[2]>> : y \in {v \in IntermediateTriangles(p) :
     \E d \in Dirs : \/ m[Opposite(d)][<<p[1], v>>] + old[d] = m[d][<<v, p[2]>>]
                     \/ m[Opposite(d)][<<p[1], v>>] + m[d][p] < m[d][<<v, p[2]>>]}}
TopsAbove(p, m, old) ==
  {<<p[2], z>> : z \in {v \in UpperTriangles(p) :
     \E d \in Dirs : \/ m[d][<<p[1], v>>] + old[Opposite(d)] = m[d][<<p[2], v>>]
                     \/ m[d][<<p[1], v>>] + m[Opposite(d)][p] < m[d][<<p[2], v>>]}}
PartialStep ==
  /\ pc = "changed" /\ "partial" \in input.ways /\ q # {}
  /\ LET p == First(q)
         old == [d \in Dirs |-> metric[d][p]]
         m == Recomputed(p) IN
     /\ metric' = m
     /\ q' = (q \ {p}) \cup IF \A d \in Dirs : m[d][p] = old[d] THEN {}
                            ELSE TopsBetween(p, m, old) \cup TopsAbove(p, m, old)
     /\ pc' = IF q' = {} THEN "customized" ELSE pc
  /\ UNCHANGED <<graphVars, weight, sweep, parallelVars, ch>>
-----------------------------------------------------------------------------
(* build_contraction_hierarchy_using_perfect_witness_search: from the top   *)
(* down an arc that a way over a higher node beats is lowered and dropped.  *)
TrianglesOfArcs == {t \in Nodes \X Nodes \X Nodes : {<<t[1], t[2]>>, <<t[1], t[3]>>, <<t[2], t[3]>>} \subseteq cch.up}
StartWitnessSearch ==
  /\ pc = "witness"
  /\ sweep' = [left |-> TrianglesOfArcs, keep |-> [d \in Dirs |-> {p \in cch.up : metric[d][p] # Inf}]]
  /\ pc' = "search"
  /\ UNCHANGED <<graphVars, weight, metric, q, parallelVars, ch>>
Beat(s, d, p, via) ==
  IF s.m[d][p] > via THEN [m |-> [s.m EXCEPT ![d][p] = via], keep |-> [s.keep EXCEPT ![d] = @ \ {p}]] ELSE s
WitnessArc(s, bottom, mid, top) ==
  LET s1 == Beat(s, "f", bottom, s.m["f"][mid] + s.m["b"][top])
      s2 == Beat(s1, "b", bottom, s1.m["b"][mid] + s1.m["f"][top])
      s3 == Beat(s2, "f", mid, s2.m["f"][bottom] + s2.m["f"][top]) IN
  Beat(s3, "b", mid, s3.m["b"][bottom] + s3.m["b"][top])
SearchedFirst(t, s) == Before(<<s[1], s[2]>>, <<t[1], t[2]>>) \/ (t[1] = s[1] /\ t[2] = s[2] /\ t[3] < s[3])
\* Mutant: the arcs are taken from the bottom up.
NextTriangleUpwards ==
  CHOOSE t \in sweep.left : \A s \in sweep.left : s = t \/ Before(<<t[1], t[2]>>, <<s[1], s[2]>>) \/ (t[1] = s[1] /\ t[2] = s[2] /\ t[3] < s[3])
NextTriangle == CHOOSE t \in sweep.left : \A s \in sweep.left : s = t \/ SearchedFirst(t, s)
WitnessStep ==
  /\ pc = "search" /\ sweep.left # {}
  /\ LET t == NextTriangle
         s == WitnessArc([m |-> metric, keep |-> sweep.keep], <<t[1], t[2]>>, <<t[1], t[3]>>, <<t[2], t[3]>>) IN
     metric' = s.m /\ sweep' = [left |-> sweep.left \ {t}, keep |-> s.keep]
  /\ UNCHANGED <<graphVars, weight, q, pc, parallelVars, ch>>

(* unpack_original_arc: the first input arc that has the weight of the arc. *)
UnpackOriginalArc(m, d, p) ==
  LET fits == {a \in InputArcsOfCch(d, p) : weight[a] = m[d][p]} IN
  IF fits = {} THEN NoId ELSE Min(fits)
(* The kept shortcuts name a kept arc of the backward and one of the forward *)
(* graph.  Where no lower triangle is kept, both ids stay 0.                *)
KeptLower(d, p) == {x \in LowerTriangles(p) : /\ <<x, p[1]>> \in sweep.keep[Opposite(d)] /\ <<x, p[2]>> \in sweep.keep[d]
                                             /\ OverLower(metric, d, <<x, p[1]>>, <<x, p[2]>>) = metric[d][p]}
IdZero(d) == IF sweep.keep[d] = {} THEN NoId ELSE First(sweep.keep[d])
Halves(d, p, x) == IF d = "f" THEN <<<<x, p[1]>>, <<x, p[2]>>>> ELSE <<<<x, p[2]>>, <<x, p[1]>>>>
ShortcutArcs(d, p) ==
  IF KeptLower(d, p) = {} THEN <<IdZero("b"), IdZero("f")>> ELSE Halves(d, p, Min(KeptLower(d, p)))
ChArc(d, p) ==
  LET a == UnpackOriginalArc(metric, d, p)
      arcs == ShortcutArcs(d, p) IN
  IF a # NoId THEN [weight |-> metric[d][p], original |-> TRUE, first |-> a,
                       second |-> order[1 + IF d = "f" THEN p[2] ELSE p[1]]]
  ELSE [weight |-> metric[d][p], original |-> FALSE, first |-> arcs[1], second |-> arcs[2]]
(* check_contraction_hierarchy_for_errors: a shortcut names arcs that exist, *)
(* the one of its own graph before it, and has the weight of both.          *)
IsValid(h) ==
  \A d \in Dirs : \A p \in DOMAIN h[d] :
    LET a == h[d][p] IN
    ~a.original => /\ a.first \in DOMAIN h["b"] /\ a.second \in DOMAIN h["f"]
                   /\ Before(IF d = "f" THEN a.second ELSE a.first, p)
                   /\ a.weight = h["b"][a.first].weight + h["f"][a.second].weight
BuildPerfectWitness ==
  /\ pc = "search" /\ sweep.left = {}
  /\ ch' = [d \in Dirs |-> [p \in sweep.keep[d] |-> ChArc(d, p)]]
  /\ pc' = IF IsValid(ch') THEN "perfect" ELSE "invalid"
  /\ sweep' = Unset
  /\ UNCHANGED <<graphVars, weight, metric, q, parallelVars>>

Customizing ==
  \/ ContractNode \/ BuildTree \/ FilterNode \/ KeepArcs
  \/ Customize \/ RelaxPair \/ NextNode \/ StartParallel \/ Barrier \/ PartialStep \/ CustomizeAnew
  \/ StartWitnessSearch \/ WitnessStep \/ BuildPerfectWitness
  \/ \E t \in Threads : TakeArc(t) \/ ReadTop(t) \/ AtomicMinTo(t)
-----------------------------------------------------------------------------
(* The reference: the distances in the input, over inner nodes up to k. *)
InputWeight(x, y) == Min({Inf} \cup {weight[a] : a \in {b \in InputArcs : TailOf(b) = x /\ HeadOf(b) = y}})
InputWeights == [p \in Nodes \X Nodes |-> InputWeight(p[1], p[2])]
DistancesUpTo == DistancesOver(input.n, InputWeights)
TrueDistance == DistancesUpTo[input.n - 1]

(* Whichever way the metric was customized - one sweep, threads that race   *)
(* within a level, or a queue of changed arcs - every arc has the exact     *)
(* distance between its ends over nodes below both, and what the supergraph *)
(* or its filter leaves out has none.                                       *)
MetricIsExact ==
  pc \in {"customized", "witness"} =>
    LET D == DistancesUpTo IN
    \A x, y \in Nodes : x < y =>
      IF <<x, y>> \in cch.up
      THEN metric["f"][<<x, y>>] = D[x - 1][<<x, y>>] /\ metric["b"][<<x, y>>] = D[x - 1][<<y, x>>]
      ELSE D[x - 1][<<x, y>>] = Inf /\ D[x - 1][<<y, x>>] = Inf

(* A metric is exact if every arc has the least weight of its own input     *)
(* arcs and of the ways over its lower triangles, however the threads raced *)
(* and whatever was in the queue: nothing is lost, and nothing is left of   *)
(* the weights before.                                                      *)
Solves(m) == \A d \in Dirs, p \in cch.up : m[d][p] = Least(m, d, p)
TrianglesAreSettled == pc \in {"customized", "witness"} => Solves(metric)

(* A kept shortcut is over a lower triangle, between the ends it should be. *)
Unpacks(d, p) == \E x \in LowerTriangles(p) : <<ch[d][p].first, ch[d][p].second>> = Halves(d, p, x)

(* The hierarchy of the perfect witness search keeps all distances with the *)
(* arcs it drops gone.  Without the filter it is valid, every arc it keeps  *)
(* has the distance between its ends, and unpacks into arcs it keeps: a     *)
(* path of input arcs of the same length.                                   *)
UpDistance(d) ==
  LET U[x \in Nodes] ==
        LET ups == {p[2] : p \in {e \in DOMAIN ch[d] : e[1] = x}} IN
        [z \in Nodes |-> IF z = x THEN 0 ELSE Min({Inf} \cup {Plus(ch[d][<<x, y>>].weight, U[y][z]) : y \in ups})]
  IN U
ArcIsPerfect(D, d, p) ==
  LET a == ch[d][p] IN
  /\ a.weight = D[IF d = "f" THEN p ELSE <<p[2], p[1]>>]
  /\ IF a.original THEN weight[a.first] = a.weight /\ input.arcs[a.first][2] = a.second
     ELSE Unpacks(d, p) /\ ch["b"][a.first].weight + ch["f"][a.second].weight = a.weight
KeepsDistances(D) ==
  LET forward == UpDistance("f")
      backward == UpDistance("b") IN
  \A x, y \in Nodes : D[<<x, y>>] = Min({Inf} \cup {Plus(forward[x][z], backward[y][z]) : z \in Nodes})
WitnessSearchIsPerfect ==
  pc \in {"perfect", "invalid"} =>
    LET D == TrueDistance IN
    /\ KeepsDistances(D)
    /\ ~filtered => pc = "perfect" /\ \A d \in Dirs : \A p \in DOMAIN ch[d] : ArcIsPerfect(D, d, p)
=============================================================================
