-------------------------- MODULE CustomizableCHInv --------------------------
(***************************************************************************)
(* Why a sweep, the racing threads of a parallel customization, and the    *)
(* queue of a partial one all end with an exact metric: what holds in      *)
(* between, and what the constructor has built by then.  Then why every    *)
(* answer of a query object is right.  In between, what a perfect witness  *)
(* search has found.                                                       *)
(***************************************************************************)
EXTENDS CustomizableCHQuery

Built == pc \notin {"contract", "filter"}
Weighed == pc \in {"sweep", "parallel", "customized", "changed", "witness"}
Metrics == [Dirs -> [cch.up -> Nat]]
Over(m, d, p, x) == OverLower(m, d, <<x, p[1]>>, <<x, p[2]>>)
Pairs == {p \in Nodes \X Nodes : p[1] < p[2]}
Workers(arcs) ==
  {Unset} \cup [arc : arcs, left : SUBSET Nat, dir : Dirs, seen : Nat \cup {NoId}, sum : Nat \cup {NoId}]

(* What the constructor has built: arcs lead up, every input arc is there.  *)
GraphOK ==
  /\ input \in Inputs /\ order \in input.orders /\ weight \in input.weights
  /\ scan \in Nat /\ (pc \in {"contract", "filter"} => scan <= input.n)
  /\ DOMAIN cch = {"up", "parent"} /\ cch.up \subseteq Pairs /\ SymmetricArcs \subseteq cch.up
  /\ pc = "filter" => can \subseteq Dirs \X cch.up /\ InputCan \subseteq can

(* The lowest upper neighbour of a node that was contracted has inherited    *)
(* the others; so in the end all upper neighbours of a node are connected.   *)
InheritedOK ==
  pc = "contract" =>
    \A x \in Nodes : x < scan => Inherited(cch.up, x) \subseteq cch.up
ChordalOK ==
  pc = "filter" =>
    \A x \in Nodes : \A y, z \in Above(cch.up, x) : y < z => <<y, z>> \in cch.up
SpreadOK ==
  pc = "filter" => filtered /\ \A x \in Nodes : x < scan => Spread(cch.up, x) \subseteq can

(* An arc that can be finite in one direction is there, and so is every      *)
(* shortcut two such arcs make over a common lower node.                     *)
Possible(d, p) == IF filtered THEN <<d, p>> \in can ELSE d \in Dirs /\ p \in cch.up
PossibleOK ==
  Built =>
    /\ \A c \in InputCan : Possible(c[1], c[2])
    /\ filtered => can \subseteq Dirs \X cch.up
    /\ \A d \in Dirs, x, y, z \in Nodes :
         y < z /\ Possible(Opposite(d), <<x, y>>) /\ Possible(d, <<x, z>>) => Possible(d, <<y, z>>)

TypeOK ==
  /\ pc \in {"contract", "filter", "dirty", "sweep", "parallel", "customized", "changed", "witness", "search", "perfect", "invalid"}
  /\ Weighed => metric \in Metrics
  /\ worker \in [Threads -> Workers(cch.up)]
  /\ placed \subseteq Nodes /\ q \subseteq cch.up /\ (pc \in {"contract", "filter"} => q = {})
  /\ pc = "parallel" => chunk \subseteq ArcsOfLevel(Released(placed))
  /\ pc # "parallel" => \A t \in Threads : worker[t] = Unset

(* The sweep has settled the arcs of the nodes it has passed, those of its   *)
(* own node as far as its list goes, and no others.  The cache knows the     *)
(* arcs of its node; what else it holds is harmless: a way whose shortcut    *)
(* the filter removed is closed.                                             *)
Swept(m, x, left, d, p) ==
  /\ m[d][p] <= Extract(d, p)
  /\ m[d][p] = Extract(d, p) \/ (p[1] <= x /\ \E y \in LowerTriangles(p) : m[d][p] = Over(m, d, p, y))
  /\ \A y \in LowerTriangles(p) : p[1] < x \/ (p[1] = x /\ <<y, p[2]>> \notin left) => m[d][p] <= Over(m, d, p, y)
  /\ ~Possible(d, p) => m[d][p] = Inf
Sweeps(x) == [x : {x}, cache : [Nodes -> cch.up \cup {NoId}], left : SUBSET PairsOver(x), goal : {"sweep", "witness"}]
Caches(x, cache) == \A z \in Nodes : IF z \in Up(x) THEN cache[z] = <<x, z>> ELSE cch.up # {} => cache[z] \in cch.up
SweepOK ==
  pc = "sweep" =>
    /\ sweep.x \in Nat /\ sweep \in Sweeps(sweep.x) /\ Caches(sweep.x, sweep.cache)
    /\ \A d \in Dirs, p \in cch.up : Swept(metric, sweep.x, sweep.left, d, p)

(* A thread works on an arc of the level, over triangles that are there;    *)
(* the value it compares with has not grown since it was read, and the sum  *)
(* it read is still that of its two arcs.                                   *)
WorkersOK ==
  \A t \in Threads :
    worker[t] # Unset =>
      /\ worker[t].arc[1] \in Released(placed) /\ worker[t].arc \notin chunk
      /\ worker[t].left # {} /\ worker[t].left \subseteq UpperTriangles(worker[t].arc)
      /\ worker[t].seen # NoId => Seen(t) <= worker[t].seen /\ worker[t].sum = SumOf(t)

(* Only the arcs of nodes in later levels change: earlier ones have no      *)
(* lower neighbours that are still at work.                                 *)
PlacedOK == pc = "parallel" => \A x \in placed : Down(x) \subseteq placed

(* A weight is that of an input arc or of a way over a lower triangle whose *)
(* own arcs do not change any more, and no larger than the input arcs'.     *)
Begun(x) == x \in placed \/ x \in Released(placed)
Explained(d, p) ==
  /\ metric[d][p] <= Extract(d, p)
  /\ \/ metric[d][p] = Extract(d, p)
     \/ \E x \in LowerTriangles(p) : Begun(x) /\ metric[d][p] = Over(metric, d, p, x)

(* A triangle is relaxed, or not handed out yet, or on a thread's list.     *)
Waiting(t, d, r, z) ==
  /\ worker[t] # Unset /\ worker[t].arc = r /\ z \in worker[t].left
  /\ worker[t].dir = "f" \/ z # Apex(t) \/ d = "b"
Relaxed(d, r, z) == metric[d][<<r[2], z>>] <= OverLower(metric, d, r, <<r[1], z>>)
Covered(d, r, z) ==
  r \in chunk \/ Relaxed(d, r, z) \/ \E t \in Threads : Waiting(t, d, r, z)
ParallelOK ==
  pc = "parallel" =>
    /\ \A d \in Dirs, p \in cch.up : Explained(d, p)
    /\ \A d \in Dirs, r \in cch.up : Begun(r[1]) => \A z \in UpperTriangles(r) : Covered(d, r, z)

(* An arc that is not in the queue has the weight its triangles give it.    *)
PartialOK ==
  pc \in {"changed", "customized", "witness"} =>
    \A d \in Dirs, p \in cch.up \ (IF pc = "changed" THEN q ELSE {}) : metric[d][p] = Least(metric, d, p)

SupergraphOK == InheritedOK /\ ChordalOK /\ SpreadOK /\ PossibleOK
IInv == GraphOK /\ SupergraphOK /\ TypeOK /\ SweepOK /\ WorkersOK /\ PlacedOK /\ ParallelOK /\ PartialOK

-----------------------------------------------------------------------------
(* The distances along a direction: those over nodes below y, all nodes. *)
Toward(d, D, x, y) == IF d = "f" THEN D[<<x, y>>] ELSE D[<<y, x>>]
Below(d, x, y) == IF x = y THEN 0 ELSE Toward(d, DistancesUpTo[y - 1], x, y)

(***************************************************************************)
(* The perfect witness search lowers the exact weights the sweep left, at   *)
(* most to the distance between the ends, and keeps the arcs it has not     *)
(* lowered.                                                                *)
(***************************************************************************)
ExactWeight(d, p) == Toward(d, DistancesUpTo[p[1] - 1], p[1], p[2])
TrueWeight(d, p) == Toward(d, TrueDistance, p[1], p[2])
ExactMetric == [d \in Dirs |-> [p \in cch.up |-> ExactWeight(d, p)]]
ExactOK == Solves(ExactMetric) /\ \A d \in Dirs, p \in Pairs \ cch.up : ExactWeight(d, p) = Inf
Lowered(m) ==
  /\ m \in Metrics
  /\ \A d \in Dirs, p \in cch.up : TrueWeight(d, p) <= m[d][p] /\ m[d][p] <= ExactWeight(d, p)
Kept(m) == [d \in Dirs |-> {p \in cch.up : m[d][p] = ExactWeight(d, p) /\ m[d][p] # Inf}]

(* Over a triangle it has gone over no way is shorter that goes to one upper *)
(* corner below the lowest, and from there to the other anyhow.  Where the   *)
(* filter removed a triangle nothing is known of such ways.                  *)
Searched(m, t) ==
  \A d \in Dirs :
    /\ m[d][<<t[1], t[2]>>] <= ExactWeight(d, <<t[1], t[3]>>) + Toward(d, TrueDistance, t[3], t[2])
    /\ m[d][<<t[1], t[3]>>] <= ExactWeight(d, <<t[1], t[2]>>) + Toward(d, TrueDistance, t[2], t[3])
LeftToSearch == IF pc = "search" THEN sweep.left ELSE {}

(* What it returns. *)
ChArcOK(d, p) ==
  LET a == ch[d][p] IN
  /\ a.weight = metric[d][p] /\ a.original \in BOOLEAN
  /\ a.original => weight[a.first] = a.weight /\ input.arcs[a.first][2] = a.second
  /\ ~filtered /\ ~a.original => Unpacks(d, p) /\ ch["b"][a.first].weight + ch["f"][a.second].weight = a.weight
ChOK ==
  /\ \A d \in Dirs : DOMAIN ch[d] = Kept(metric)[d] /\ \A p \in DOMAIN ch[d] : ChArcOK(d, p)
  /\ ~filtered => pc = "perfect"
SearchOK ==
  pc \in {"search", "perfect", "invalid"} =>
    /\ ExactOK /\ Lowered(metric)
    /\ ~filtered => \A t \in TrianglesOfArcs \ LeftToSearch : Searched(metric, t)
    /\ IF pc = "search" THEN sweep = [left |-> sweep.left, keep |-> Kept(metric)] /\ sweep.left \subseteq TrianglesOfArcs
                        ELSE ChOK
WInv == IInv /\ SearchOK

-----------------------------------------------------------------------------
(***************************************************************************)
(* The query object.  The elimination tree: whoever goes up to the root    *)
(* passes all upper neighbours, also those an arc kept by the filter       *)
(* leads to.                                                               *)
(***************************************************************************)
ParentClosed(S) == \A x \in S : cch.parent[x] \in S \cup {NoId}
TreeOK ==
  /\ cch.parent \in [Nodes -> Nodes \cup {NoId}]
  /\ \A x \in Nodes : cch.parent[x] # NoId => cch.parent[x] > x
  /\ pc # "contract" => \A S \in SUBSET Nodes : ParentClosed(S) => \A x \in S : Up(x) \subseteq S

(* A walk visits the search space, every node once and after its lower       *)
(* neighbours.                                                               *)
Orderly(walk) ==
  \A i, j \in DOMAIN walk : i < j => walk[i] # walk[j] /\ walk[i] \notin Up(walk[j])
WalkOK(d) ==
  /\ ParentClosed(inSpace[d]) /\ node[d] \in Seq(inSpace[d]) /\ Len(end[d]) = Len(node[d])
  /\ Walked(d) \in Seq(Nodes) /\ Range(Walked(d)) = inSpace[d] /\ Orderly(Walked(d))

(* What the caller added; the order turned round is the rank.                *)
Asked(d, y) == order[y + 1] \in DOMAIN asked.src[d]
Given(d, y) == IF Asked(d, y) THEN asked.src[d][order[y + 1]] ELSE Inf
Added(d) == st \notin {Pinned(d), PinnedRun(d)}
AskedOK(d) ==
  /\ DOMAIN asked.src[d] \subseteq Nodes /\ asked.src[d] \in [DOMAIN asked.src[d] -> 0 .. Inf]
  /\ \A y \in Nodes : Added(d) => (Asked(d, y) <=> y \in Range(node[d]))
  /\ ~Added(d) => asked.src[d] = NoStarts /\ node[d] = [i \in DOMAIN asked.pins |-> Rank(asked.pins[i])]

(* Predecessors of earlier rounds lead down as well.                        *)
LeadsDown(pp) == \A y \in Nodes : pp[y] # NoId => pp[y] < y
AtStart(d) == \A y \in Nodes : dist[d][y] = Given(d, y) /\ (Asked(d, y) => pred[d][y] = NoId)
Closed(d, S) == \A y \in Nodes \ S : dist[d][y] = Inf

(* After the way up no arc can lower a distance, and every distance is that  *)
(* of a start or over an arc.                                                *)
Settles(d, dd) ==
  /\ \A y \in Nodes : Asked(d, y) => dd[y] <= Given(d, y)
  /\ \A x \in inSpace[d] : \A y \in Up(x) : dd[y] <= dd[x] + metric[d][<<x, y>>]
Backed(d, dd, pp) ==
  \A y \in Nodes : dd[y] < Inf =>
    /\ y \in inSpace[d]
    /\ IF pp[y] = NoId THEN Asked(d, y) /\ dd[y] = Given(d, y)
       ELSE <<pp[y], y>> \in cch.up /\ dd[y] = dd[pp[y]] + metric[d][<<pp[y], y>>]
Joined(x) == dist["f"][x] + dist["b"][x]
Met ==
  LET both == inSpace["f"] \cap inSpace["b"] IN
  IF meet = NoId THEN \A x \in both : Joined(x) >= Inf
  ELSE meet \in both /\ Joined(meet) < Inf /\ \A x \in both : Joined(meet) <= Joined(x)
RunOK == Met /\ \A d \in Dirs : Settles(d, dist[d]) /\ Backed(d, dist[d], pred[d])

(* After the way down: no distance is greater than over a node above, the    *)
(* top of a way over lower nodes has been reached, and nothing is too low.   *)
Tops(d, dd) ==
  \A s, y \in Nodes : Asked(d, s) /\ s <= y /\ Below(d, s, y) < Inf => dd[y] <= Given(d, s) + Below(d, s, y)
Realised(d, dd) ==
  \A y \in Nodes : dd[y] < Inf =>
    \E s \in Nodes : Asked(d, s) /\ dd[y] >= Given(d, s) + Toward(d, TrueDistance, s, y) /\ Toward(d, TrueDistance, s, y) < Inf
PinnedOK(d) ==
  /\ Tops(d, dist[d]) /\ Realised(d, dist[d])
  /\ \A x \in inSpace[Opposite(d)] : \A y \in Up(x) :
       dist[d][x] <= dist[d][y] + metric[Opposite(d)][<<x, y>>]

QueryTypeOK ==
  /\ dist \in [Dirs -> [Nodes -> 0 .. Inf]] /\ pred \in [Dirs -> [Nodes -> Nodes \cup {NoId}]]
  /\ inSpace \in [Dirs -> SUBSET Nodes] /\ node \in [Dirs -> Seq(Nodes)] /\ end \in [Dirs -> Seq(Nodes \cup {NoId})]
  /\ asked = [src |-> asked.src, pins |-> asked.pins] /\ asked.pins \in Seq(Nodes)
  /\ asked.src = [d \in Dirs |-> asked.src[d]]
SideOK(d) ==
  /\ WalkOK(d) /\ AskedOK(d) /\ LeadsDown(pred[d])
  /\ st \notin {HasRun, PinnedRun(Opposite(d))} => AtStart(d)
  /\ st = HasRun => Closed(d, inSpace[d])
  /\ st = PinnedRun(Opposite(d)) => PinnedOK(d) /\ Closed(d, inSpace["f"] \cup inSpace["b"])
QueryOK ==
  /\ QueryTypeOK
  /\ st \in {Initialized, HasRun} \cup {Pinned(d) : d \in Dirs} \cup {PinnedRun(d) : d \in Dirs}
  /\ pc # "customized" => Free
  /\ pc \in {"contract", "filter"} => \A d \in Dirs : node[d] = <<>>
  /\ \A d \in Dirs : SideOK(d)
  /\ st = HasRun => RunOK
QInv == IInv /\ TreeOK /\ QueryOK
=============================================================================
