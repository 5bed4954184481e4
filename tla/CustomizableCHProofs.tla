------------------------ MODULE CustomizableCHProofs ------------------------
(***************************************************************************)
(* The sweep, the parallel and the partial customization end with a settled *)
(* metric, and only one metric is settled: for every road graph, every     *)
(* order and vector of weights, with and without the filter, for any       *)
(* threads.  Then what a query takes from the hierarchy: exact arcs, the    *)
(* highest node of a shortest way, and walks up the elimination tree.  At   *)
(* the end the perfect witness search: with the arcs it drops gone it keeps *)
(* all distances, whatever it is run on.                                   *)
(***************************************************************************)
EXTENDS CustomizableCHInv, ShortestDistancesProofs, SequenceTheorems

-----------------------------------------------------------------------------
(* Arcs in the order of their ids.                                          *)
LEMMA FirstIsMember ==
  ASSUME NEW S \in SUBSET (Nat \X Nat), S # {}
  PROVE  First(S) \in S /\ \A r \in S : r = First(S) \/ Before(First(S), r)
<1> DEFINE A == {p[1] : p \in S}
           B == {p[2] : p \in {r \in S : r[1] = Min(A)}}
<1>1. A \in SUBSET Nat /\ A # {}
  OBVIOUS
<1>2. Min(A) \in A /\ \A y \in A : Min(A) <= y
  <2> HIDE DEF A
  <2> QED BY <1>1, MinIsLeast
<1>3. B \in SUBSET Nat /\ B # {}
  BY <1>2
<1>4. Min(B) \in B /\ \A y \in B : Min(B) <= y
  <2> HIDE DEF B
  <2> QED BY <1>3, MinIsLeast
<1>5. PICK p \in S : p[1] = Min(A) /\ p[2] = Min(B)
  BY <1>4
<1>6. \A r \in S : r = p \/ Before(p, r)
  <2> SUFFICES ASSUME NEW r \in S, r # p PROVE Before(p, r)
    OBVIOUS
  <2>1. Min(A) <= r[1] /\ Min(A) \in Nat
    BY <1>2, <1>1
  <2>2. CASE r[1] = Min(A)
    <3>1. Min(B) <= r[2] /\ Min(B) \in Nat
      BY <2>2, <1>4, <1>3
    <3>2. r[2] # p[2]
      BY <2>2, <1>5
    <3> QED BY <3>1, <3>2, <2>2, <1>5 DEF Before
  <2>3. CASE r[1] # Min(A)
    BY <2>1, <2>3, <1>5 DEF Before
  <2> QED BY <2>2, <2>3
<1> QED BY <1>6 DEF First

-----------------------------------------------------------------------------
(* The graph: nodes are numbers, arcs lead up, weights are numbers.         *)
LEMMA NodesAreNumbers == ASSUME input \in Inputs PROVE input.n \in Nat /\ Nodes \subseteq Nat
<1>1. input.n \in Nat
  BY InputsAssumption
<1> QED BY <1>1 DEF Nodes

LEMMA RanksAreNodes ==
  ASSUME input \in Inputs, order \in input.orders
  PROVE  \A a \in InputArcs : TailOf(a) \in Nodes /\ HeadOf(a) \in Nodes
<1>1. DOMAIN order = 1 .. input.n /\ \A x \in Nodes : \E k \in DOMAIN order : order[k] = x
  BY InputsAssumption DEF Nodes
<1>2. \A x \in Nodes : Rank(x) \in Nodes
  <2> SUFFICES ASSUME NEW x \in Nodes PROVE Rank(x) \in Nodes
    OBVIOUS
  <2>1. (CHOOSE i \in DOMAIN order : order[i] = x) \in 1 .. input.n
    BY <1>1
  <2> QED BY <2>1, NodesAreNumbers DEF Rank, Nodes
<1>3. \A a \in InputArcs : input.arcs[a] \in Nodes \X Nodes
  <2>1. input.arcs \in Seq(Nodes \X Nodes)
    BY InputsAssumption DEF Nodes
  <2> QED BY <2>1 DEF InputArcs
<1> QED BY <1>2, <1>3 DEF TailOf, HeadOf

LEMMA CchArcsLeadUp ==
  ASSUME input \in Inputs, order \in input.orders
  PROVE  /\ \A a \in InputArcs : TailOf(a) # HeadOf(a) => InputArcToCchArc(a) \in Pairs
         /\ NoId \notin Pairs /\ SymmetricArcs \subseteq Pairs
         /\ InputCan \subseteq Dirs \X SymmetricArcs
<1>1. \A a \in InputArcs : TailOf(a) # HeadOf(a) => InputArcToCchArc(a) \in Pairs
  <2> SUFFICES ASSUME NEW a \in InputArcs, TailOf(a) # HeadOf(a) PROVE InputArcToCchArc(a) \in Pairs
    OBVIOUS
  <2>1. TailOf(a) \in Nodes /\ HeadOf(a) \in Nodes /\ TailOf(a) \in Nat /\ HeadOf(a) \in Nat
    BY RanksAreNodes, NodesAreNumbers
  <2>2. CASE TailOf(a) < HeadOf(a)
    BY <2>1, <2>2 DEF InputArcToCchArc, Pairs
  <2>3. CASE HeadOf(a) < TailOf(a)
    BY <2>1, <2>3 DEF InputArcToCchArc, Pairs
  <2> QED BY <2>1, <2>2, <2>3
<1>2. NoId \notin Pairs
  BY NoIdAssumption, NodesAreNumbers DEF Pairs
<1>3. SymmetricArcs \subseteq Pairs
  BY <1>1 DEF SymmetricArcs, InputArcToCchArc
<1>4. \A a \in InputArcs : InputArcDir(a) \in Dirs
  BY DEF InputArcDir, Dirs
<1>5. InputCan \subseteq Dirs \X SymmetricArcs
  <2> SUFFICES ASSUME NEW a \in InputArcs, TailOf(a) # HeadOf(a)
               PROVE  InputArcDir(a) \in Dirs /\ InputArcToCchArc(a) \in SymmetricArcs
    BY DEF InputCan
  <2> QED BY <1>1, <1>2, <1>4 DEF SymmetricArcs
<1> QED BY <1>1, <1>2, <1>3, <1>5

LEMMA ExtractIsNumber ==
  ASSUME input \in Inputs, weight \in input.weights
  PROVE  \A d, p : Extract(d, p) \in Nat
<1> SUFFICES ASSUME NEW d, NEW p PROVE Extract(d, p) \in Nat
  OBVIOUS
<1> DEFINE S == {Inf} \cup {weight[a] : a \in InputArcsOfCch(d, p)}
<1>1. weight \in [InputArcs -> Nat]
  BY InputsAssumption DEF InputArcs
<1>2. S \in SUBSET Nat /\ S # {}
  BY <1>1, InfAssumption DEF InputArcsOfCch
<1>3. Min(S) \in S
  <2> HIDE DEF S
  <2> QED BY <1>2, MinIsLeast
<1> QED BY <1>2, <1>3 DEF Extract

LEMMA ExtractAtMostInf ==
  ASSUME input \in Inputs, weight \in input.weights
  PROVE  \A d, p : Extract(d, p) <= Inf
<1> SUFFICES ASSUME NEW d, NEW p PROVE Extract(d, p) <= Inf
  OBVIOUS
<1> DEFINE S == {Inf} \cup {weight[a] : a \in InputArcsOfCch(d, p)}
<1>1. weight \in [InputArcs -> Nat]
  BY InputsAssumption DEF InputArcs
<1>2. S \in SUBSET Nat /\ Inf \in S
  BY <1>1, InfAssumption DEF InputArcsOfCch
<1>3. Min(S) <= Inf
  <2> HIDE DEF S
  <2> QED BY <1>2, MinIsLeast
<1> QED BY <1>3 DEF Extract

(* A triangle of three arcs. *)
LEMMA Triangles ==
  ASSUME input \in Inputs, cch.up \subseteq Pairs
  PROVE  /\ \A p \in cch.up : p = <<p[1], p[2]>> /\ p[1] \in Nodes /\ p[2] \in Nodes /\ p[1] < p[2]
         /\ \A p \in cch.up : \A x \in LowerTriangles(p) :
              /\ x \in Nodes /\ <<x, p[1]>> \in cch.up /\ <<x, p[2]>> \in cch.up
              /\ x < p[1] /\ x < p[2]
         /\ \A p \in cch.up : \A z \in UpperTriangles(p) :
              /\ z \in Nodes /\ <<p[1], z>> \in cch.up /\ <<p[2], z>> \in cch.up /\ p[2] < z
              /\ p[1] \in LowerTriangles(<<p[2], z>>)
         /\ \A p \in cch.up : \A x \in LowerTriangles(p) : p[2] \in UpperTriangles(<<x, p[1]>>)
<1>1. \A p \in cch.up : p = <<p[1], p[2]>> /\ p[1] \in Nodes /\ p[2] \in Nodes /\ p[1] < p[2]
  BY DEF Pairs
<1>2. \A p \in cch.up : \A x \in LowerTriangles(p) :
        x \in Nodes /\ <<x, p[1]>> \in cch.up /\ <<x, p[2]>> \in cch.up
  BY DEF LowerTriangles, Down
<1>3. \A p \in cch.up : \A z \in UpperTriangles(p) :
        z \in Nodes /\ <<p[1], z>> \in cch.up /\ <<p[2], z>> \in cch.up
  BY DEF UpperTriangles, Up
<1>4. \A p \in cch.up : \A x \in LowerTriangles(p) : p[2] \in UpperTriangles(<<x, p[1]>>)
  BY <1>1, <1>2 DEF UpperTriangles, Up
<1>5. \A p \in cch.up : \A z \in UpperTriangles(p) : p[1] \in LowerTriangles(<<p[2], z>>)
  BY <1>1, <1>3 DEF LowerTriangles, Down
<1>6. \A p \in cch.up : \A z \in UpperTriangles(p) : p[2] < z
  BY <1>3 DEF Pairs
<1>7. \A p \in cch.up : \A x \in LowerTriangles(p) : x < p[1] /\ x < p[2]
  BY <1>2 DEF Pairs
<1> QED BY <1>1, <1>2, <1>3, <1>4, <1>5, <1>6, <1>7

-----------------------------------------------------------------------------
(* Settled weights. *)
LEMMA WeightsAreNumbers ==
  ASSUME input \in Inputs, cch.up \subseteq Pairs, NEW m \in Metrics
  PROVE  /\ \A d \in Dirs, p \in cch.up : m[d][p] \in Nat
         /\ \A d \in Dirs, p \in cch.up : \A x \in LowerTriangles(p) : Over(m, d, p, x) \in Nat
<1>1. \A d \in Dirs, p \in cch.up : m[d][p] \in Nat
  BY DEF Metrics
<1>2. \A d \in Dirs : Opposite(d) \in Dirs
  BY DEF Dirs, Opposite
<1>3. \A d \in Dirs, p \in cch.up : \A x \in LowerTriangles(p) : Over(m, d, p, x) \in Nat
  <2> SUFFICES ASSUME NEW d \in Dirs, NEW p \in cch.up, NEW x \in LowerTriangles(p)
               PROVE  Over(m, d, p, x) \in Nat
    OBVIOUS
  <2>1. m[Opposite(d)][<<x, p[1]>>] \in Nat /\ m[d][<<x, p[2]>>] \in Nat
    BY <1>1, <1>2, Triangles
  <2> QED BY <2>1 DEF Over, OverLower
<1> QED BY <1>1, <1>3

LEMMA LeastIsLeast ==
  ASSUME input \in Inputs, weight \in input.weights, cch.up \subseteq Pairs,
         NEW m \in Metrics, NEW d \in Dirs, NEW p \in cch.up
  PROVE  /\ Least(m, d, p) \in Nat /\ Least(m, d, p) <= Extract(d, p)
         /\ \A x \in LowerTriangles(p) : Least(m, d, p) <= Over(m, d, p, x)
         /\ \/ Least(m, d, p) = Extract(d, p)
            \/ \E x \in LowerTriangles(p) : Least(m, d, p) = Over(m, d, p, x)
<1> DEFINE S == {Extract(d, p)} \cup {Over(m, d, p, x) : x \in LowerTriangles(p)}
<1>1. S \in SUBSET Nat /\ S # {}
  BY WeightsAreNumbers, ExtractIsNumber
<1>2. Min(S) \in S /\ \A y \in S : Min(S) <= y
  <2> HIDE DEF S
  <2> QED BY <1>1, MinIsLeast
<1>3. Least(m, d, p) = Min(S)
  BY DEF Least, LowerSums, Over
<1> HIDE DEF Least
<1> QED BY <1>1, <1>2, <1>3

LEMMA LeastWhen ==
  ASSUME input \in Inputs, weight \in input.weights, cch.up \subseteq Pairs,
         NEW m \in Metrics, NEW d \in Dirs, NEW p \in cch.up,
         m[d][p] <= Extract(d, p), \A x \in LowerTriangles(p) : m[d][p] <= Over(m, d, p, x),
         m[d][p] = Extract(d, p) \/ \E x \in LowerTriangles(p) : m[d][p] = Over(m, d, p, x)
  PROVE  m[d][p] = Least(m, d, p)
<1>1. m[d][p] \in Nat
  BY WeightsAreNumbers
<1>2. Least(m, d, p) <= m[d][p] /\ m[d][p] <= Least(m, d, p) /\ Least(m, d, p) \in Nat
  BY LeastIsLeast
<1> QED BY <1>1, <1>2

(* Two metrics that agree below an arc give it the same least weight. *)
LEMMA LeastDependsBelow ==
  ASSUME input \in Inputs, cch.up \subseteq Pairs,
         NEW m, NEW n, NEW d \in Dirs, NEW p \in cch.up,
         \A x \in LowerTriangles(p) : Over(m, d, p, x) = Over(n, d, p, x)
  PROVE  Least(m, d, p) = Least(n, d, p)
<1>1. {Over(m, d, p, x) : x \in LowerTriangles(p)} = {Over(n, d, p, x) : x \in LowerTriangles(p)}
  OBVIOUS
<1> QED BY <1>1 DEF Least, LowerSums, Over

(* Only one metric is settled, so all ways of customizing that settle it    *)
(* end with the same one: the least arc on which two differ has no lower    *)
(* arcs on which they differ.                                               *)
THEOREM SettledMetricIsUnique ==
  ASSUME input \in Inputs, weight \in input.weights, cch.up \subseteq Pairs,
         NEW m \in Metrics, NEW n \in Metrics, Solves(m), Solves(n)
  PROVE  m = n
<1> DEFINE Differ == {p \in cch.up : \E d \in Dirs : m[d][p] # n[d][p]}
           Low == {p[1] : p \in Differ}
<1>1. SUFFICES ASSUME Differ # {} PROVE FALSE
  <2>1. ASSUME Differ = {} PROVE \A d \in Dirs : m[d] = n[d]
    BY <2>1 DEF Metrics
  <2> QED BY <2>1 DEF Metrics
<1>2. Low \in SUBSET Nat /\ Low # {}
  BY <1>1, Triangles, NodesAreNumbers
<1>3. Min(Low) \in Low /\ \A y \in Low : Min(Low) <= y
  <2> HIDE DEF Low
  <2> QED BY <1>2, MinIsLeast
<1>4. PICK p \in Differ : p[1] = Min(Low)
  BY <1>3
<1>5. PICK d \in Dirs : m[d][p] # n[d][p]
  BY <1>4
<1>6. \A x \in LowerTriangles(p) : Over(m, d, p, x) = Over(n, d, p, x)
  <2> SUFFICES ASSUME NEW x \in LowerTriangles(p) PROVE Over(m, d, p, x) = Over(n, d, p, x)
    OBVIOUS
  <2>1. <<x, p[1]>> \in cch.up /\ <<x, p[2]>> \in cch.up /\ x < p[1] /\ x \in Nat /\ p[1] \in Nat
    BY <1>4, Triangles, NodesAreNumbers
  <2>2. <<x, p[1]>> \notin Differ /\ <<x, p[2]>> \notin Differ
    <3>1. \A r \in Differ : p[1] <= r[1]
      BY <1>3, <1>4
    <3>2. ~ (p[1] <= x)
      BY <2>1
    <3> QED BY <3>1, <3>2
  <2>3. \A r \in cch.up \ Differ : \A e \in Dirs : m[e][r] = n[e][r]
    OBVIOUS
  <2> QED BY <2>1, <2>2, <2>3 DEF Over, OverLower, Opposite, Dirs
<1>7. Least(m, d, p) = Least(n, d, p)
  BY <1>4, <1>6, LeastDependsBelow
<1> QED BY <1>4, <1>5, <1>7 DEF Solves

-----------------------------------------------------------------------------
(* What a step that leaves the graph alone cannot disturb. *)
LEMMA InputFrame ==
  ASSUME UNCHANGED <<input, order>>
  PROVE  /\ \A a : InputArcToCchArc(a)' = InputArcToCchArc(a) /\ InputArcDir(a)' = InputArcDir(a)
         /\ SymmetricArcs' = SymmetricArcs /\ InputCan' = InputCan /\ InputArcs' = InputArcs
         /\ Nodes' = Nodes /\ Pairs' = Pairs
<1>1. \A x : Rank(x)' = Rank(x)
  BY DEF Rank
<1>2. \A a : TailOf(a)' = TailOf(a) /\ HeadOf(a)' = HeadOf(a)
  BY <1>1 DEF TailOf, HeadOf
<1>3. InputArcs' = InputArcs /\ Nodes' = Nodes
  BY DEF InputArcs, Nodes
<1>4. \A a : InputArcToCchArc(a)' = InputArcToCchArc(a) /\ InputArcDir(a)' = InputArcDir(a)
  BY <1>2 DEF InputArcToCchArc, InputArcDir
<1>5. SymmetricArcs' = SymmetricArcs /\ InputCan' = InputCan
  BY <1>2, <1>3, <1>4 DEF SymmetricArcs, InputCan
<1>6. Pairs' = Pairs
  BY <1>3 DEF Pairs
<1> QED BY <1>3, <1>4, <1>5, <1>6

LEMMA ExtractFrame ==
  ASSUME UNCHANGED <<input, order, weight>>
  PROVE  \A d, p : Extract(d, p)' = Extract(d, p)
BY InputFrame DEF Extract, InputArcsOfCch

LEMMA GraphFrame ==
  ASSUME UNCHANGED <<input, order, cch>>
  PROVE  /\ \A p : UpperTriangles(p)' = UpperTriangles(p) /\ LowerTriangles(p)' = LowerTriangles(p)
         /\ \A x : Down(x)' = Down(x) /\ Up(x)' = Up(x) /\ PairsOver(x)' = PairsOver(x)
         /\ \A S : Released(S)' = Released(S) /\ ArcsOfLevel(S)' = ArcsOfLevel(S)
         /\ Metrics' = Metrics
<1>1. Nodes' = Nodes
  BY InputFrame
<1>2. \A x : Down(x)' = Down(x) /\ Up(x)' = Up(x)
  BY <1>1 DEF Down, Up
<1>3. \A p : UpperTriangles(p)' = UpperTriangles(p) /\ LowerTriangles(p)' = LowerTriangles(p)
  BY <1>2 DEF UpperTriangles, LowerTriangles
<1>4. \A S : Released(S)' = Released(S)
  BY <1>1, <1>2 DEF Released
<1>5. \A S : ArcsOfLevel(S)' = ArcsOfLevel(S)
  BY DEF ArcsOfLevel
<1>6. Metrics' = Metrics
  BY DEF Metrics
<1>7. \A x : PairsOver(x)' = PairsOver(x)
  BY <1>2 DEF PairsOver
<1> QED BY <1>2, <1>3, <1>4, <1>5, <1>6, <1>7

LEMMA LeastFrame ==
  ASSUME UNCHANGED <<input, order, cch, weight>>
  PROVE  \A m, d, p : Least(m, d, p)' = Least(m, d, p)
BY ExtractFrame, GraphFrame DEF Least, LowerSums

LEMMA GraphStays ==
  ASSUME GraphOK, SupergraphOK, Built, Built', UNCHANGED graphVars, weight' \in input.weights
  PROVE  GraphOK' /\ SupergraphOK'
<1> USE DEF graphVars
<1>1. GraphOK'
  BY InputFrame DEF GraphOK, Built
<1>2. InheritedOK' /\ ChordalOK' /\ SpreadOK'
  BY DEF Built, InheritedOK, ChordalOK, SpreadOK
<1>3. PossibleOK'
  <2>1. \A d, p : Possible(d, p)' <=> Possible(d, p)
    BY DEF Possible
  <2>2. \A d : Opposite(d)' = Opposite(d)
    BY DEF Opposite
  <2> QED BY <2>1, <2>2, InputFrame DEF SupergraphOK, PossibleOK
<1> QED BY <1>1, <1>2, <1>3 DEF SupergraphOK

(* Nothing is claimed here of the metric before it is customized, and from  *)
(* the perfect witness search on.                                           *)
LEMMA Resting ==
  ASSUME TypeOK, GraphOK', SupergraphOK', ~Weighed', \A t \in Threads : worker[t] = Unset, UNCHANGED <<worker, placed>>,
         pc' \in {"contract", "filter", "dirty", "search", "perfect", "invalid"},
         Nodes' = Nodes, q' \subseteq cch'.up, pc' \in {"contract", "filter"} => q' = {}
  PROVE  IInv'
<1>1. TypeOK'
  <2>1. worker' \in [Threads -> Workers(cch'.up)]
    BY DEF TypeOK, Workers
  <2> QED BY <2>1 DEF TypeOK
<1>2. WorkersOK'
  BY DEF WorkersOK
<1>3. PlacedOK' /\ ParallelOK' /\ SweepOK'
  BY DEF PlacedOK, ParallelOK, SweepOK
<1>4. PartialOK'
  BY DEF PartialOK, Weighed
<1> QED BY <1>1, <1>2, <1>3, <1>4 DEF IInv

LEMMA InitOK == Init => IInv
<1> SUFFICES ASSUME Init PROVE IInv
  OBVIOUS
<1> USE DEF Init
<1>1. GraphOK
  BY CchArcsLeadUp, NodesAreNumbers DEF GraphOK
<1>2. ~Weighed
  BY DEF Weighed
<1>3. TypeOK
  BY <1>2 DEF TypeOK, Workers
<1>4. WorkersOK /\ PlacedOK /\ ParallelOK /\ PartialOK /\ SweepOK
  BY DEF WorkersOK, PlacedOK, ParallelOK, PartialOK, SweepOK
<1>5. InheritedOK
  <2>1. \A x \in Nodes : ~ (x < scan)
    BY <1>1, NodesAreNumbers DEF GraphOK
  <2> QED BY <2>1 DEF InheritedOK
<1>6. SupergraphOK
  BY <1>5 DEF SupergraphOK, ChordalOK, SpreadOK, PossibleOK, Built
<1> QED BY <1>1, <1>3, <1>4, <1>6 DEF IInv

-----------------------------------------------------------------------------
(* The constructor. *)
LEMMA AboveArcs ==
  ASSUME input \in Inputs, NEW S \in SUBSET Pairs, NEW x
  PROVE  /\ \A y : y \in Above(S, x) <=> <<x, y>> \in S
         /\ Above(S, x) \in SUBSET Nat /\ \A y \in Above(S, x) : y \in Nodes /\ x < y
BY NodesAreNumbers DEF Above, Pairs

LEMMA InheritedArcs ==
  ASSUME input \in Inputs, NEW S \in SUBSET Pairs, NEW x
  PROVE  /\ \A e \in Inherited(S, x) : e \in Pairs /\ e[1] = Min(Above(S, x)) /\ x < e[1]
         /\ \A y \in Above(S, x) : /\ Min(Above(S, x)) \in Above(S, x) /\ Min(Above(S, x)) <= y
                                   /\ y # Min(Above(S, x)) => <<Min(Above(S, x)), y>> \in Inherited(S, x)
<1> DEFINE A == Above(S, x)
<1>1. A \in SUBSET Nat /\ \A y \in A : y \in Nodes /\ x < y
  BY AboveArcs
<1>2. \A y \in A : Min(A) \in A /\ Min(A) <= y
  BY <1>1, MinIsLeast
<1>3. \A e \in Inherited(S, x) : \E z \in A : z > Min(A) /\ e = <<Min(A), z>>
  BY DEF Inherited
<1>4. \A y \in A : y > Min(A) => <<Min(A), y>> \in Inherited(S, x)
  BY DEF Inherited
<1> HIDE DEF A
<1>5. ASSUME NEW e \in Inherited(S, x) PROVE e \in Pairs /\ e[1] = Min(A) /\ x < e[1]
  <2>1. PICK z \in A : z > Min(A) /\ e = <<Min(A), z>>
    BY <1>3
  <2>2. Min(A) \in A /\ Min(A) \in Nodes /\ z \in Nodes /\ x < Min(A) /\ Min(A) < z
    BY <2>1, <1>1, <1>2
  <2> QED BY <2>1, <2>2 DEF Pairs
<1>6. ASSUME NEW y \in A, y # Min(A) PROVE <<Min(A), y>> \in Inherited(S, x)
  <2>1. Min(A) \in Nat /\ y \in Nat /\ Min(A) <= y
    BY <1>1, <1>2
  <2>2. y > Min(A)
    BY <2>1, <1>6
  <2> QED BY <2>2, <1>4
<1> QED BY <1>2, <1>5, <1>6 DEF A

(* Elimination makes the graph chordal: take the highest node two of whose  *)
(* upper neighbours are not connected.  Neither is the lowest one, so both  *)
(* are upper neighbours of the lowest.                                      *)
LEMMA EliminationIsChordal ==
  ASSUME input \in Inputs, cch.up \subseteq Pairs, \A x \in Nodes : Inherited(cch.up, x) \subseteq cch.up
  PROVE  \A x \in Nodes : \A y, z \in Above(cch.up, x) : y < z => <<y, z>> \in cch.up
<1> DEFINE Bad == {x \in Nodes : \E y, z \in Above(cch.up, x) : y < z /\ <<y, z>> \notin cch.up}
           T == {input.n - x : x \in Bad}
<1>1. SUFFICES ASSUME Bad # {} PROVE FALSE
  OBVIOUS
<1>2. T \in SUBSET Nat /\ T # {}
  <2>1. \A x \in Nodes : input.n - x \in Nat
    BY NodesAreNumbers DEF Nodes
  <2> QED BY <2>1, <1>1
<1>3. PICK k \in T : \A j \in T : k <= j
  <2> HIDE DEF T
  <2> QED BY <1>2, NatHasLeast
<1>4. PICK x \in Bad : k = input.n - x
  BY <1>3
<1>5. PICK y \in Above(cch.up, x), z \in Above(cch.up, x) : y < z /\ <<y, z>> \notin cch.up
  BY <1>4
<1> DEFINE m == Min(Above(cch.up, x))
<1>6. /\ m \in Above(cch.up, x) /\ m <= y /\ m <= z
      /\ y # m => <<m, y>> \in Inherited(cch.up, x)
      /\ z # m => <<m, z>> \in Inherited(cch.up, x)
  BY <1>5, InheritedArcs
<1>7. x \in Nodes /\ m \in Nodes /\ x < m /\ y \in Nat /\ z \in Nat /\ m \in Nat /\ Inherited(cch.up, x) \subseteq cch.up
  BY <1>4, <1>5, <1>6, AboveArcs
<1> HIDE DEF m
<1>8. y # m /\ z # m
  BY <1>5, <1>6, <1>7
<1>9. y \in Above(cch.up, m) /\ z \in Above(cch.up, m)
  BY <1>6, <1>7, <1>8, AboveArcs
<1>10. m \in Bad
  BY <1>5, <1>7, <1>9
<1>11. ~ (k <= input.n - m)
  BY <1>4, <1>7, NodesAreNumbers DEF Nodes
<1> QED BY <1>3, <1>10, <1>11

LEMMA ContractNodeStep == ASSUME GraphOK, SupergraphOK, ContractNode PROVE SupergraphOK'
<1>1. /\ pc = "contract" /\ pc' = "contract" /\ input \in Inputs /\ cch.up \subseteq Pairs /\ scan \in Nat /\ scan' = scan + 1
      /\ cch'.up = cch.up \cup Inherited(cch.up, scan) /\ UNCHANGED <<input, order>>
      /\ \A x \in Nodes : x < scan => Inherited(cch.up, x) \subseteq cch.up
  BY DEF ContractNode, GraphOK, SupergraphOK, InheritedOK
<1>2. ASSUME NEW x \in Nodes, x < scan + 1 PROVE Inherited(cch'.up, x) \subseteq cch'.up
  <2>1. \A e \in Inherited(cch.up, scan) : e[1] # x /\ e \in Pairs
    BY <1>1, <1>2, InheritedArcs, NodesAreNumbers DEF Pairs
  <2>2. {e \in cch'.up : e[1] = x} = {e \in cch.up : e[1] = x}
    BY <2>1, <1>1
  <2>3. Above(cch'.up, x) = Above(cch.up, x)
    BY <2>2 DEF Above
  <2>4. Inherited(cch'.up, x) = Inherited(cch.up, x)
    BY <2>3 DEF Inherited
  <2>5. x < scan \/ x = scan
    BY <1>1, <1>2, NodesAreNumbers
  <2> QED BY <2>4, <2>5, <1>1
<1>3. InheritedOK'
  <2>1. \A S, x : Inherited(S, x)' = Inherited(S', x)
    BY DEF Inherited, Above
  <2>2. Nodes' = Nodes
    BY <1>1, InputFrame
  <2>3. \A x : Inherited(cch.up, x)' = Inherited(cch'.up, x)
    BY DEF Inherited, Above
  <2> QED BY <1>1, <1>2, <2>2, <2>3 DEF InheritedOK
<1> QED BY <1>1, <1>3 DEF SupergraphOK, ChordalOK, SpreadOK, PossibleOK, Built

LEMMA BuildTreeStep == ASSUME GraphOK, SupergraphOK, BuildTree PROVE SupergraphOK'
<1>1. /\ pc = "contract" /\ scan = input.n /\ input \in Inputs /\ order \in input.orders /\ cch.up \subseteq Pairs
      /\ cch'.up = cch.up /\ scan' = 0 /\ pc' = (IF filtered THEN "filter" ELSE "dirty")
      /\ SymmetricArcs \subseteq cch.up /\ UNCHANGED <<input, order, filtered>>
      /\ \A x \in Nodes : x < scan => Inherited(cch.up, x) \subseteq cch.up
  BY DEF BuildTree, GraphOK, SupergraphOK, InheritedOK
<1>2. \A x \in Nodes : x < scan /\ ~ (x < scan')
  BY <1>1, NodesAreNumbers DEF Nodes
<1>3. \A x \in Nodes : \A y, z \in Above(cch.up, x) : y < z => <<y, z>> \in cch.up
  BY <1>1, <1>2, EliminationIsChordal
<1>4. Nodes' = Nodes /\ InputCan' = InputCan /\ \A x : Above(cch.up, x)' = Above(cch.up, x)
  BY <1>1, InputFrame DEF Above
<1>5. ChordalOK' /\ InheritedOK' /\ SpreadOK'
  BY <1>1, <1>2, <1>3, <1>4 DEF ChordalOK, InheritedOK, SpreadOK
<1>6. PossibleOK'
  <2> SUFFICES ASSUME ~filtered PROVE PossibleOK'
    BY <1>1 DEF PossibleOK, Built
  <2>1. \A d, p : Possible(d, p)' <=> d \in Dirs /\ p \in cch.up
    BY <1>1 DEF Possible
  <2>2. \A c \in InputCan : Possible(c[1], c[2])'
    BY <2>1, <1>1, CchArcsLeadUp
  <2>3. ASSUME NEW d \in Dirs, NEW x \in Nodes, NEW y \in Nodes, NEW z \in Nodes, y < z,
               Possible(Opposite(d), <<x, y>>)', Possible(d, <<x, z>>)'
        PROVE  Possible(d, <<y, z>>)'
    <3>1. <<x, y>> \in cch.up /\ <<x, z>> \in cch.up
      BY <2>1, <2>3, <1>1 DEF Possible
    <3> QED BY <3>1, <2>1, <2>3, <1>1, <1>3, AboveArcs
  <2> QED BY <2>2, <2>3, <1>1, <1>4 DEF PossibleOK
<1> QED BY <1>5, <1>6 DEF SupergraphOK

LEMMA FilterNodeStep == ASSUME GraphOK, SupergraphOK, FilterNode PROVE SupergraphOK'
<1>1. /\ pc = "filter" /\ pc' = "filter" /\ input \in Inputs /\ cch.up \subseteq Pairs /\ scan \in Nat /\ scan' = scan + 1
      /\ can' = can \cup Spread(cch.up, scan) /\ UNCHANGED <<input, order, filtered, cch>>
      /\ filtered /\ \A x \in Nodes : x < scan => Spread(cch.up, x) \subseteq can
      /\ can \subseteq Dirs \X cch.up
  BY DEF FilterNode, GraphOK, SupergraphOK, SpreadOK
<1>2. \A c \in Spread(cch.up, scan) : c[2] \in cch.up /\ scan < c[2][1]
  BY <1>1 DEF Spread, Pairs
<1>3. ASSUME NEW x \in Nodes, x < scan + 1 PROVE Spread(cch.up, x)' \subseteq can'
  <2>1. \A d, y : <<d, <<x, y>>>> \notin Spread(cch.up, scan)
    BY <1>1, <1>2, <1>3, NodesAreNumbers
  <2>2. \A d, y : <<d, <<x, y>>>> \in can' <=> <<d, <<x, y>>>> \in can
    BY <2>1, <1>1
  <2>3. \A d : Opposite(d)' = Opposite(d)
    BY DEF Opposite
  <2>4. Spread(cch.up, x)' = Spread(cch.up, x)
    BY <2>2, <2>3, <1>1 DEF Spread
  <2>5. x < scan \/ x = scan
    BY <1>1, <1>3, NodesAreNumbers
  <2> QED BY <2>4, <2>5, <1>1
<1>4. SpreadOK'
  BY <1>1, <1>3, InputFrame DEF SpreadOK
<1>5. ChordalOK'
  <2>1. \A x : Above(cch.up, x)' = Above(cch.up, x)
    BY <1>1 DEF Above
  <2> QED BY <2>1, <1>1, InputFrame DEF SupergraphOK, ChordalOK
<1> QED BY <1>1, <1>4, <1>5 DEF SupergraphOK, InheritedOK, PossibleOK, Built

LEMMA KeepArcsStep == ASSUME GraphOK, SupergraphOK, KeepArcs PROVE SupergraphOK'
<1>1. /\ pc = "filter" /\ pc' = "dirty" /\ input \in Inputs /\ cch.up \subseteq Pairs /\ scan = input.n
      /\ cch'.up = {c[2] : c \in can} /\ UNCHANGED <<input, order, filtered, can>>
      /\ filtered /\ \A x \in Nodes : x < scan => Spread(cch.up, x) \subseteq can
      /\ can \subseteq Dirs \X cch.up /\ InputCan \subseteq can
      /\ \A x \in Nodes : \A y, z \in Above(cch.up, x) : y < z => <<y, z>> \in cch.up
  BY DEF KeepArcs, GraphOK, SupergraphOK, SpreadOK, ChordalOK
<1>2. \A d, p : Possible(d, p)' <=> <<d, p>> \in can
  BY <1>1 DEF Possible
<1>3. \A c \in can : c = <<c[1], c[2]>> /\ c[1] \in Dirs /\ c[2] \in cch'.up
  BY <1>1
<1>4. \A c \in InputCan : Possible(c[1], c[2])'
  BY <1>1, <1>2, <1>3
<1>5. ASSUME NEW d \in Dirs, NEW x \in Nodes, NEW y \in Nodes, NEW z \in Nodes, y < z,
             Possible(Opposite(d), <<x, y>>)', Possible(d, <<x, z>>)'
      PROVE  Possible(d, <<y, z>>)'
  <2>1. <<Opposite(d), <<x, y>>>> \in can /\ <<d, <<x, z>>>> \in can
    BY <1>2, <1>5 DEF Opposite
  <2>2. <<x, y>> \in cch.up /\ <<x, z>> \in cch.up
    BY <2>1, <1>1
  <2>3. <<y, z>> \in cch.up
    BY <2>2, <1>1, <1>5, AboveArcs
  <2>4. <<d, <<y, z>>>> \in Spread(cch.up, x)
    BY <2>1, <2>2, <2>3 DEF Spread
  <2>5. x < scan
    BY <1>1, NodesAreNumbers DEF Nodes
  <2> QED BY <2>4, <2>5, <1>1, <1>2
<1>6. PossibleOK'
  BY <1>1, <1>3, <1>4, <1>5, InputFrame DEF PossibleOK
<1> QED BY <1>1, <1>6 DEF SupergraphOK, InheritedOK, ChordalOK, SpreadOK

LEMMA BuildSteps ==
  ASSUME IInv, ContractNode \/ BuildTree \/ FilterNode \/ KeepArcs
  PROVE  IInv'
<1> USE DEF graphVars, parallelVars
<1>1. /\ GraphOK /\ SupergraphOK /\ TypeOK /\ pc \in {"contract", "filter"} /\ pc' \in {"contract", "filter", "dirty"}
      /\ UNCHANGED <<input, order, weight, worker, placed, q>>
  BY DEF IInv, ContractNode, BuildTree, FilterNode, KeepArcs
<1>2. /\ Nodes' = Nodes /\ Pairs' = Pairs /\ SymmetricArcs' = SymmetricArcs /\ InputCan' = InputCan
      /\ input \in Inputs /\ order \in input.orders /\ cch.up \subseteq Pairs /\ Nodes \subseteq Nat
  BY <1>1, InputFrame, NodesAreNumbers DEF GraphOK
<1>3. q = {} /\ \A t \in Threads : worker[t] = Unset
  BY <1>1 DEF TypeOK
<1>4. ASSUME ContractNode PROVE GraphOK'
  <2>1. Inherited(cch.up, scan) \subseteq Pairs
    <3> SUFFICES ASSUME NEW y \in Above(cch.up, scan), y > Min(Above(cch.up, scan))
                 PROVE  <<Min(Above(cch.up, scan)), y>> \in Pairs
      BY DEF Inherited
    <3>1. Above(cch.up, scan) \subseteq Nodes
      BY <1>2 DEF Above, Pairs
    <3>2. Min(Above(cch.up, scan)) \in Above(cch.up, scan)
      BY <3>1, <1>2, MinIsLeast
    <3> QED BY <3>1, <3>2, <1>2 DEF Pairs
  <2>2. cch'.up = cch.up \cup Inherited(cch.up, scan) /\ DOMAIN cch' = {"up", "parent"}
    BY <1>4, <1>1 DEF ContractNode, GraphOK
  <2>3. scan' \in Nat /\ scan' <= input.n /\ pc' = "contract"
    BY <1>4, <1>1, <1>2, NodesAreNumbers DEF ContractNode, GraphOK
  <2> QED BY <1>1, <1>2, <2>1, <2>2, <2>3 DEF GraphOK
<1>5. ASSUME BuildTree PROVE GraphOK'
  <2>1. cch'.up = cch.up /\ DOMAIN cch' = {"up", "parent"}
    BY <1>5, <1>1 DEF BuildTree, GraphOK
  <2>2. InputCan \subseteq Dirs \X cch.up
    BY <1>1, <1>2, CchArcsLeadUp DEF GraphOK
  <2>3. scan' = 0 /\ can' = InputCan /\ input.n \in Nat
    BY <1>5, <1>2, NodesAreNumbers DEF BuildTree
  <2> QED BY <1>1, <1>2, <2>1, <2>2, <2>3 DEF GraphOK
<1>6. ASSUME FilterNode PROVE GraphOK'
  <2>1. Spread(cch.up, scan) \subseteq Dirs \X cch.up
    BY DEF Spread
  <2>2. scan' \in Nat /\ scan' <= input.n /\ pc' = "filter" /\ cch' = cch /\ can' = can \cup Spread(cch.up, scan)
    BY <1>6, <1>1, <1>2, NodesAreNumbers DEF FilterNode, GraphOK
  <2>3. can \subseteq Dirs \X cch.up /\ InputCan \subseteq can
    BY <1>6, <1>1 DEF FilterNode, GraphOK
  <2> QED BY <1>1, <1>2, <2>1, <2>2, <2>3 DEF GraphOK
<1>7. ASSUME KeepArcs PROVE GraphOK'
  <2>1. can \subseteq Dirs \X cch.up /\ InputCan \subseteq can
    BY <1>7, <1>1 DEF KeepArcs, GraphOK
  <2>2. cch'.up = {c[2] : c \in can} /\ DOMAIN cch' = {"up", "parent"} /\ scan' = scan /\ pc' = "dirty"
    BY <1>7, <1>1 DEF KeepArcs, GraphOK
  <2>3. cch'.up \subseteq cch.up
    BY <2>1, <2>2
  <2>4. SymmetricArcs \subseteq cch'.up
    <3> SUFFICES ASSUME NEW a \in InputArcs, InputArcToCchArc(a) # NoId
                 PROVE  InputArcToCchArc(a) \in cch'.up
      BY DEF SymmetricArcs
    <3>1. <<InputArcDir(a), InputArcToCchArc(a)>> \in InputCan
      BY DEF InputCan, InputArcToCchArc
    <3> QED BY <3>1, <2>1, <2>2
  <2> QED BY <1>1, <1>2, <2>2, <2>3, <2>4 DEF GraphOK
<1>8. GraphOK' /\ SupergraphOK' /\ ~Weighed'
  BY <1>1, <1>4, <1>5, <1>6, <1>7, ContractNodeStep, BuildTreeStep, FilterNodeStep, KeepArcsStep DEF Weighed
<1> QED BY <1>1, <1>2, <1>3, <1>8, Resting

(* When a sweep has ended, the weights of a settled metric are replaced, or  *)
(* the first arc of the queue is computed anew, what is left to show is     *)
(* PartialOK.                                                               *)
LEMMA CustomizedStep ==
  ASSUME IInv, pc \in {"sweep", "customized", "changed"}, pc' \in {"customized", "changed", "witness"},
         UNCHANGED <<graphVars, parallelVars>>, weight' \in input.weights,
         metric' \in Metrics, q' \subseteq cch.up, PartialOK'
  PROVE  IInv'
<1> USE DEF graphVars, parallelVars
<1>1. GraphOK /\ SupergraphOK /\ TypeOK
  BY DEF IInv
<1>2. GraphOK' /\ SupergraphOK'
  BY <1>1, GraphStays DEF Built
<1>3. \A t \in Threads : worker'[t] = Unset
  BY <1>1 DEF TypeOK
<1>4. TypeOK'
  <2>1. worker' \in [Threads -> Workers(cch'.up)] /\ Nodes' = Nodes /\ Metrics' = Metrics /\ placed' \subseteq Nodes
    BY <1>1, InputFrame, GraphFrame DEF TypeOK
  <2> QED BY <2>1, <1>3 DEF TypeOK
<1>5. WorkersOK' /\ PlacedOK' /\ ParallelOK' /\ SweepOK'
  BY <1>3 DEF WorkersOK, PlacedOK, ParallelOK, SweepOK
<1> QED BY <1>2, <1>4, <1>5 DEF IInv

-----------------------------------------------------------------------------
(* The sweep. *)
LEMMA ExtractedMetric ==
  ASSUME input \in Inputs, weight \in input.weights
  PROVE  /\ ExtractInitialMetric \in Metrics
         /\ \A d \in Dirs, p \in cch.up : ExtractInitialMetric[d][p] = Extract(d, p)
BY ExtractIsNumber DEF ExtractInitialMetric, Metrics

LEMMA ExtractIsClosed ==
  ASSUME PossibleOK, Built, NEW d, NEW p, p # NoId, ~Possible(d, p)
  PROVE  Extract(d, p) = Inf
<1>1. \A a \in InputArcs : InputArcToCchArc(a) = p /\ InputArcDir(a) = d => <<d, p>> \in InputCan
  BY DEF InputCan, InputArcToCchArc
<1>2. InputArcsOfCch(d, p) = {}
  BY <1>1 DEF InputArcsOfCch, PossibleOK
<1>3. {Inf} \cup {weight[a] : a \in InputArcsOfCch(d, p)} = {Inf}
  BY <1>2
<1>4. {Inf} \in SUBSET Nat /\ {Inf} # {}
  BY InfAssumption
<1>5. Min({Inf}) \in {Inf}
  BY <1>4, MinIsLeast
<1> QED BY <1>3, <1>5 DEF Extract

LEMMA NextPairIsLeft ==
  ASSUME input \in Inputs, sweep.left \in SUBSET Pairs, sweep.left # {}
  PROVE  NextPair \in sweep.left
<1> DEFINE T == {<<e[1], input.n - e[2]>> : e \in sweep.left}
<1>1. \A e \in sweep.left : e = <<e[1], e[2]>> /\ e[1] \in Nat /\ e[2] \in Nat /\ input.n - e[2] \in Nat /\ input.n \in Nat
  <2> SUFFICES ASSUME NEW e \in sweep.left
               PROVE  e = <<e[1], e[2]>> /\ e[1] \in Nat /\ e[2] \in Nat /\ input.n - e[2] \in Nat /\ input.n \in Nat
    OBVIOUS
  <2>1. e = <<e[1], e[2]>> /\ e[1] \in Nodes /\ e[2] \in Nodes /\ input.n \in Nat
    BY NodesAreNumbers DEF Pairs
  <2> QED BY <2>1 DEF Nodes
<1>2. T \in SUBSET (Nat \X Nat) /\ T # {}
  <2>1. \A e \in sweep.left : <<e[1], input.n - e[2]>> \in Nat \X Nat
    BY <1>1
  <2> QED BY <2>1
<1>3. First(T) \in T /\ \A r \in T : r = First(T) \/ Before(First(T), r)
  <2> HIDE DEF T
  <2> QED BY <1>2, FirstIsMember
<1>4. PICK e \in sweep.left : First(T) = <<e[1], input.n - e[2]>>
  BY <1>3
<1>5. \A r \in sweep.left : r = e \/ e[1] < r[1] \/ (e[1] = r[1] /\ e[2] > r[2])
  <2> SUFFICES ASSUME NEW r \in sweep.left PROVE r = e \/ e[1] < r[1] \/ (e[1] = r[1] /\ e[2] > r[2])
    OBVIOUS
  <2>1. <<r[1], input.n - r[2]>> = First(T) \/ Before(First(T), <<r[1], input.n - r[2]>>)
    BY <1>3
  <2> HIDE DEF T
  <2>2. /\ e = <<e[1], e[2]>> /\ e[1] \in Nat /\ e[2] \in Nat /\ r = <<r[1], r[2]>> /\ r[1] \in Nat /\ r[2] \in Nat
        /\ input.n \in Nat
    BY <1>1
  <2>3. CASE <<r[1], input.n - r[2]>> = First(T)
    <3>1. r[1] = e[1] /\ input.n - r[2] = input.n - e[2]
      BY <2>3, <1>4
    <3>2. r[2] = e[2]
      BY <3>1, <2>2
    <3> QED BY <3>1, <3>2, <2>2
  <2>4. CASE Before(First(T), <<r[1], input.n - r[2]>>)
    BY <2>4, <1>4, <2>2 DEF Before
  <2> QED BY <2>1, <2>3, <2>4
<1> QED BY <1>5 DEF NextPair

LEMMA SweepFrame ==
  ASSUME UNCHANGED <<graphVars, weight>>
  PROVE  /\ \A m, x, left, d, p : Swept(m, x, left, d, p)' <=> Swept(m, x, left, d, p)
         /\ \A x : Sweeps(x)' = Sweeps(x)
         /\ \A x, cache : Caches(x, cache)' <=> Caches(x, cache)
<1> USE DEF graphVars
<1>1. \A d, p : Possible(d, p)' <=> Possible(d, p)
  BY DEF Possible
<1>2. \A m, d, p, x : Over(m, d, p, x)' = Over(m, d, p, x)
  BY DEF Over, OverLower, Opposite
<1>3. \A m, x, left, d, p : Swept(m, x, left, d, p)' <=> Swept(m, x, left, d, p)
  BY <1>1, <1>2, ExtractFrame, GraphFrame DEF Swept
<1>4. \A x : Sweeps(x)' = Sweeps(x)
  BY GraphFrame, InputFrame DEF Sweeps
<1>5. \A x, cache : Caches(x, cache)' <=> Caches(x, cache)
  BY GraphFrame, InputFrame DEF Caches
<1> QED BY <1>3, <1>4, <1>5

(* While the sweep goes on, what is left to show is SweepOK. *)
LEMMA SweepStep ==
  ASSUME IInv, pc \in {"dirty", "sweep"}, pc' = "sweep", UNCHANGED <<graphVars, weight, parallelVars>>,
         q' \in {q, {}}, metric' \in Metrics, sweep'.x \in Nat, sweep' \in Sweeps(sweep'.x), Caches(sweep'.x, sweep'.cache),
         \A d \in Dirs, p \in cch.up : Swept(metric', sweep'.x, sweep'.left, d, p)
  PROVE  IInv'
<1> USE DEF graphVars, parallelVars
<1>1. GraphOK /\ SupergraphOK /\ TypeOK
  BY DEF IInv
<1>2. GraphOK' /\ SupergraphOK'
  <2>1. weight' \in input.weights /\ Built /\ Built'
    BY <1>1 DEF GraphOK, Built
  <2> QED BY <1>1, <2>1, GraphStays
<1>3. \A t \in Threads : worker'[t] = Unset
  BY <1>1 DEF TypeOK
<1>4. TypeOK'
  <2>1. worker' \in [Threads -> Workers(cch'.up)] /\ Nodes' = Nodes /\ Metrics' = Metrics /\ placed' \subseteq Nodes /\ q' \subseteq cch'.up
    BY <1>1, InputFrame, GraphFrame DEF TypeOK
  <2> QED BY <2>1, <1>3 DEF TypeOK
<1>5. WorkersOK' /\ PlacedOK' /\ ParallelOK' /\ PartialOK'
  BY <1>3 DEF WorkersOK, PlacedOK, ParallelOK, PartialOK
<1>6. SweepOK'
  BY SweepFrame DEF SweepOK
<1> QED BY <1>2, <1>4, <1>5, <1>6 DEF IInv

(* A node's list begins with all the triangles it is the middle of. *)
LEMMA NodeBegins ==
  ASSUME GraphOK, NEW x \in Nat, NEW cache \in [Nodes -> cch.up \cup {NoId}],
         cch.up # {} => \A z \in Nodes : cache[z] \in cch.up, NEW goal \in {"sweep", "witness"}
  PROVE  /\ AtNode(x, cache, goal) \in Sweeps(x) /\ Caches(x, AtNode(x, cache, goal).cache)
         /\ AtNode(x, cache, goal).x = x /\ AtNode(x, cache, goal).left = PairsOver(x)
         /\ \A p \in cch.up : p[1] = x => \A y \in LowerTriangles(p) : <<y, p[2]>> \in PairsOver(x)
<1>1. \A z \in Up(x) : <<x, z>> \in cch.up
  BY DEF Up
<1>2. AtNode(x, cache, goal) \in Sweeps(x)
  BY <1>1 DEF AtNode, Sweeps
<1>3. Caches(x, AtNode(x, cache, goal).cache)
  BY <1>1 DEF AtNode, Caches
<1>4. ASSUME NEW p \in cch.up, p[1] = x, NEW y \in LowerTriangles(p) PROVE <<y, p[2]>> \in PairsOver(x)
  <2>1. y \in Nodes /\ <<y, x>> \in cch.up /\ <<y, p[2]>> \in cch.up /\ x < p[2] /\ p[2] \in Nat
    BY <1>4, Triangles, NodesAreNumbers DEF GraphOK
  <2> QED BY <2>1 DEF PairsOver, Down
<1> QED BY <1>2, <1>3, <1>4 DEF AtNode

LEMMA CustomizeStep == ASSUME IInv, Customize PROVE IInv'
<1> USE DEF graphVars, parallelVars
<1>1. /\ GraphOK /\ SupergraphOK /\ pc = "dirty" /\ pc' = "sweep" /\ metric' = ExtractInitialMetric /\ q' = {}
      /\ UNCHANGED <<graphVars, weight, parallelVars>>
      /\ input \in Inputs /\ weight \in input.weights /\ cch.up \subseteq Pairs
  BY DEF IInv, Customize, GraphOK
<1> DEFINE cache == [z \in Nodes |-> Arc0]
<1>2. PICK goal \in {"sweep", "witness"} : sweep' = AtNode(0, cache, goal)
  BY DEF Customize
<1>3. Arc0 \in cch.up \cup {NoId} /\ (cch.up # {} => Arc0 \in cch.up)
  <2>1. cch.up \in SUBSET (Nat \X Nat)
    BY <1>1, NodesAreNumbers DEF Pairs
  <2> QED BY <2>1, FirstIsMember DEF Arc0
<1>4. /\ sweep' \in Sweeps(0) /\ Caches(0, sweep'.cache) /\ sweep'.x = 0 /\ sweep'.left = PairsOver(0)
      /\ \A p \in cch.up : p[1] = 0 => \A y \in LowerTriangles(p) : <<y, p[2]>> \in PairsOver(0)
  <2>1. cache \in [Nodes -> cch.up \cup {NoId}] /\ (cch.up # {} => \A z \in Nodes : cache[z] \in cch.up) /\ 0 \in Nat
    BY <1>3
  <2> HIDE DEF cache
  <2> QED BY <2>1, <1>1, <1>2, NodeBegins
<1>5. metric' \in Metrics /\ \A d \in Dirs, p \in cch.up : metric'[d][p] = Extract(d, p) /\ Extract(d, p) \in Nat
  BY <1>1, ExtractedMetric, ExtractIsNumber
<1>6. ASSUME NEW d \in Dirs, NEW p \in cch.up PROVE Swept(metric', 0, PairsOver(0), d, p)
  <2>1. p[1] \in Nat /\ ~ (p[1] < 0)
    BY <1>1, Triangles, NodesAreNumbers
  <2>2. ~Possible(d, p) => Extract(d, p) = Inf
    BY <1>1, ExtractIsClosed, CchArcsLeadUp DEF SupergraphOK, Built, GraphOK
  <2> QED BY <2>1, <2>2, <1>4, <1>5 DEF Swept
<1> QED BY <1>1, <1>4, <1>5, <1>6, SweepStep

LEMMA RelaxerRelaxes ==
  ASSUME input \in Inputs, cch.up \subseteq Pairs, NEW m \in Metrics,
         NEW bottom \in cch.up, NEW mid \in cch.up, NEW top \in cch.up
  PROVE  /\ LowerTriangleRelaxer(m, bottom, mid, top) \in Metrics
         /\ \A d \in Dirs : LowerTriangleRelaxer(m, bottom, mid, top)[d][top] = Lesser(m[d][top], OverLower(m, d, bottom, mid))
         /\ \A d \in Dirs, p \in cch.up \ {top} : LowerTriangleRelaxer(m, bottom, mid, top)[d][p] = m[d][p]
         /\ \A d \in Dirs : OverLower(m, d, bottom, mid) \in Nat
<1>1. \A d \in Dirs, p \in cch.up : m[d][p] \in Nat /\ Opposite(d) \in Dirs
  BY WeightsAreNumbers DEF Dirs, Opposite
<1>2. \A d \in Dirs : OverLower(m, d, bottom, mid) \in Nat
  BY <1>1 DEF OverLower
<1> DEFINE low(d) == Lesser(m[d][top], OverLower(m, d, bottom, mid))
<1>3. \A d \in Dirs : low(d) \in Nat
  BY <1>1, <1>2 DEF Lesser
<1>4. LowerTriangleRelaxer(m, bottom, mid, top) = [m EXCEPT !["f"][top] = low("f"), !["b"][top] = low("b")]
  BY DEF LowerTriangleRelaxer
<1> HIDE DEF low
<1>5. LowerTriangleRelaxer(m, bottom, mid, top) = [d \in Dirs |-> [m[d] EXCEPT ![top] = low(d)]]
  BY <1>4 DEF Metrics, Dirs
<1>6. \A d \in Dirs : m[d] \in [cch.up -> Nat] /\ LowerTriangleRelaxer(m, bottom, mid, top)[d] = [m[d] EXCEPT ![top] = low(d)]
  BY <1>5 DEF Metrics
<1>7. \A d \in Dirs : LowerTriangleRelaxer(m, bottom, mid, top)[d] \in [cch.up -> Nat]
  <2> SUFFICES ASSUME NEW d \in Dirs PROVE LowerTriangleRelaxer(m, bottom, mid, top)[d] \in [cch.up -> Nat]
    OBVIOUS
  <2>1. /\ m[d] \in [cch.up -> Nat] /\ low(d) \in Nat
        /\ LowerTriangleRelaxer(m, bottom, mid, top)[d] = [m[d] EXCEPT ![top] = low(d)]
    BY <1>3, <1>6
  <2> QED BY <2>1
<1>8. LowerTriangleRelaxer(m, bottom, mid, top) \in Metrics
  BY <1>5, <1>7 DEF Metrics
<1> QED BY <1>2, <1>6, <1>8 DEF low

(* A way over a lower node that the filter does not keep a shortcut for is  *)
(* closed on one of its sides.                                              *)
LEMMA ClosedWay ==
  ASSUME PossibleOK, Built, NEW m \in Metrics, \A e \in Dirs, r \in cch.up : ~Possible(e, r) => m[e][r] = Inf,
         NEW d \in Dirs, NEW x \in Nodes, NEW y \in Nodes, NEW z \in Nodes, y < z,
         <<x, y>> \in cch.up, <<x, z>> \in cch.up, ~Possible(d, <<y, z>>)
  PROVE  OverLower(m, d, <<x, y>>, <<x, z>>) >= Inf
<1>1. Opposite(d) \in Dirs /\ (~Possible(Opposite(d), <<x, y>>) \/ ~Possible(d, <<x, z>>))
  BY DEF PossibleOK, Opposite, Dirs
<1>2. m[Opposite(d)][<<x, y>>] \in Nat /\ m[d][<<x, z>>] \in Nat
  BY <1>1 DEF Metrics
<1>3. m[Opposite(d)][<<x, y>>] = Inf \/ m[d][<<x, z>>] = Inf
  BY <1>1
<1> QED BY <1>2, <1>3, InfAssumption DEF OverLower

LEMMA RelaxPairStep == ASSUME IInv, RelaxPair PROVE IInv'
<1> USE DEF graphVars, parallelVars
<1> DEFINE e == NextPair
           x == sweep.x
           top == sweep.cache[e[2]]
           left == sweep.left \ {e}
<1>1. /\ GraphOK /\ SupergraphOK /\ TypeOK /\ SweepOK /\ pc = "sweep" /\ pc' = "sweep" /\ sweep.left # {}
      /\ metric' = LowerTriangleRelaxer(metric, <<e[1], x>>, e, top)
      /\ sweep' = [sweep EXCEPT !.left = left]
      /\ UNCHANGED <<graphVars, weight, q, parallelVars>>
  BY DEF IInv, RelaxPair
<1>2. /\ input \in Inputs /\ weight \in input.weights /\ cch.up \subseteq Pairs /\ Nodes \subseteq Nat /\ metric \in Metrics
      /\ x \in Nat /\ sweep \in Sweeps(x) /\ Caches(x, sweep.cache) /\ sweep.left \subseteq PairsOver(x)
      /\ \A d \in Dirs, p \in cch.up : Swept(metric, x, sweep.left, d, p)
  BY <1>1, NodesAreNumbers DEF GraphOK, TypeOK, Weighed, SweepOK, Sweeps
<1>3. e \in sweep.left /\ e \in PairsOver(x)
  <2>1. sweep.left \in SUBSET Pairs
    BY <1>2 DEF PairsOver
  <2>2. e \in sweep.left
    BY <2>1, <1>1, <1>2, NextPairIsLeft
  <2> QED BY <2>2, <1>2
<1> HIDE DEF e
<1>4. /\ e \in cch.up /\ e = <<e[1], e[2]>> /\ e[1] \in Nodes /\ e[2] \in Nodes /\ <<e[1], x>> \in cch.up /\ x < e[2]
      /\ x \in Nodes /\ e[1] < x
  BY <1>2, <1>3 DEF PairsOver, Down, Pairs
<1>5. top \in cch.up /\ (e[2] \in Up(x) => top = <<x, e[2]>>)
  BY <1>2, <1>4 DEF Caches, Up
<1>6. \A d \in Dirs, p \in cch.up : ~Possible(d, p) => metric[d][p] = Inf
  BY <1>2 DEF Swept
<1>7. /\ metric' \in Metrics
      /\ \A d \in Dirs : metric'[d][top] = Lesser(metric[d][top], OverLower(metric, d, <<e[1], x>>, e))
      /\ \A d \in Dirs, p \in cch.up \ {top} : metric'[d][p] = metric[d][p]
      /\ \A d \in Dirs : OverLower(metric, d, <<e[1], x>>, e) \in Nat
  <2> HIDE DEF top, x
  <2>1. /\ input \in Inputs /\ cch.up \subseteq Pairs /\ metric \in Metrics
        /\ <<e[1], x>> \in cch.up /\ e \in cch.up /\ top \in cch.up
    BY <1>2, <1>4, <1>5
  <2>2. metric' = LowerTriangleRelaxer(metric, <<e[1], x>>, e, top)
    BY <1>1
  <2>3. metric' \in Metrics
    BY <2>1, <2>2, RelaxerRelaxes
  <2>4. \A d \in Dirs : metric'[d][top] = Lesser(metric[d][top], OverLower(metric, d, <<e[1], x>>, e))
    BY <2>1, <2>2, RelaxerRelaxes
  <2>5. \A d \in Dirs, p \in cch.up \ {top} : metric'[d][p] = metric[d][p]
    <3>1. \A d \in Dirs, p \in cch.up \ {top} : LowerTriangleRelaxer(metric, <<e[1], x>>, e, top)[d][p] = metric[d][p]
      BY <2>1, RelaxerRelaxes
    <3> QED BY <2>2, <3>1
  <2>6. \A d \in Dirs : OverLower(metric, d, <<e[1], x>>, e) \in Nat
    BY <2>1, <2>2, RelaxerRelaxes
  <2> QED BY <2>3, <2>4, <2>5, <2>6
<1> HIDE DEF top
<1>8. \A d \in Dirs, p \in cch.up : metric[d][p] \in Nat /\ metric'[d][p] \in Nat /\ Extract(d, p) \in Nat
  BY <1>2, <1>7, WeightsAreNumbers, ExtractIsNumber
<1>9. \A d \in Dirs : ~Possible(d, <<x, e[2]>>) => OverLower(metric, d, <<e[1], x>>, e) >= Inf
  <2> SUFFICES ASSUME NEW d \in Dirs, ~Possible(d, <<x, e[2]>>) PROVE OverLower(metric, d, <<e[1], x>>, <<e[1], e[2]>>) >= Inf
    BY <1>4
  <2>1. PossibleOK /\ Built /\ <<e[1], e[2]>> \in cch.up
    BY <1>1, <1>4 DEF SupergraphOK, Built
  <2> QED BY <2>1, <1>2, <1>4, <1>6, ClosedWay
<1>10. ASSUME NEW d \in Dirs, NEW p \in cch.up PROVE Swept(metric', x, left, d, p)
  <2>1. Swept(metric, x, sweep.left, d, p)
    BY <1>2
  <2>2. CASE e[2] \notin Up(x)
    <3>1. \A c \in Dirs : ~Possible(c, <<x, e[2]>>)
      BY <2>2, <1>1, <1>4, <1>5 DEF SupergraphOK, PossibleOK, Possible, Built, Up
    <3>2. \A c \in Dirs : metric[c][top] <= Extract(c, top) /\ Extract(c, top) <= Inf
      <4>1. \A c \in Dirs : metric[c][top] <= Extract(c, top)
        BY <1>2, <1>5 DEF Swept
      <4> QED BY <4>1, <1>2, ExtractAtMostInf
    <3>3. \A c \in Dirs : metric'[c][top] = metric[c][top]
      BY <3>1, <3>2, <1>5, <1>7, <1>8, <1>9, InfAssumption DEF Lesser
    <3>4. \A c \in Dirs, r \in cch.up : metric'[c][r] = metric[c][r]
      BY <3>3, <1>7
    <3>5. \A y \in LowerTriangles(p) : Over(metric', d, p, y) = Over(metric, d, p, y)
      BY <3>4, <1>2, Triangles DEF Over, OverLower, Opposite, Dirs
    <3>6. \A y : p[1] = x => <<y, p[2]>> # e
      BY <2>2, <1>2, <1>4, Triangles DEF Up
    <3> QED BY <2>1, <3>4, <3>5, <3>6 DEF Swept
  <2>3. CASE e[2] \in Up(x)
    <3>1. top = <<x, e[2]>> /\ e[1] \in LowerTriangles(top) /\ \A c \in Dirs : OverLower(metric, c, <<e[1], x>>, e) = Over(metric, c, top, e[1])
      BY <2>3, <1>4, <1>5 DEF LowerTriangles, Down, Over
    <3>2. ASSUME p[1] <= x, NEW y \in LowerTriangles(p) PROVE Over(metric', d, p, y) = Over(metric, d, p, y)
      <4>1. <<y, p[1]>> \in cch.up /\ <<y, p[2]>> \in cch.up /\ y \in Nat /\ p[1] \in Nat /\ y < p[1]
        BY <1>2, <3>2, Triangles
      <4>2. y # x
        BY <4>1, <3>2, <1>2
      <4>3. <<y, p[1]>> # top /\ <<y, p[2]>> # top
        BY <4>2, <3>1
      <4> QED BY <4>1, <4>3, <1>7 DEF Over, OverLower, Opposite, Dirs
    <3>3. CASE p # top
      <4>1. metric'[d][p] = metric[d][p]
        BY <3>3, <1>7
      <4>2. \A y : p[1] = x => <<y, p[2]>> # e
        BY <3>1, <3>3, <1>2, Triangles
      <4>3. p[1] \in Nat
        BY <1>2, Triangles
      <4> QED BY <2>1, <3>2, <4>1, <4>2, <4>3, <1>2 DEF Swept
    <3>4. CASE p = top
      <4>1. p[1] = x /\ p[2] = e[2] /\ p[1] <= x /\ ~(p[1] < x)
        BY <3>1, <3>4, <1>2
      <4>2. metric'[d][p] = Lesser(metric[d][p], Over(metric, d, p, e[1])) /\ Over(metric, d, p, e[1]) \in Nat
        BY <3>1, <3>4, <1>7
      <4>3. /\ metric'[d][p] <= metric[d][p] /\ metric'[d][p] <= Over(metric, d, p, e[1])
            /\ metric'[d][p] = metric[d][p] \/ metric'[d][p] = Over(metric, d, p, e[1])
        BY <4>2, <1>8 DEF Lesser
      <4>4. metric'[d][p] <= Extract(d, p)
        BY <2>1, <4>3, <1>8 DEF Swept
      <4>5. metric'[d][p] = Extract(d, p) \/ \E y \in LowerTriangles(p) : metric'[d][p] = Over(metric', d, p, y)
        BY <2>1, <3>1, <3>2, <3>4, <4>1, <4>3 DEF Swept
      <4>6. ASSUME NEW y \in LowerTriangles(p), <<y, p[2]>> \notin left PROVE metric'[d][p] <= Over(metric', d, p, y)
        <5>1. CASE y = e[1]
          BY <5>1, <3>2, <4>1, <4>3
        <5>2. CASE y # e[1]
          <6>1. <<y, p[2]>> \notin sweep.left
            BY <5>2, <4>6, <1>4
          <6>2. metric[d][p] <= Over(metric, d, p, y) /\ Over(metric, d, p, y) \in Nat
            BY <6>1, <2>1, <4>1, <1>2, WeightsAreNumbers DEF Swept
          <6> QED BY <6>2, <3>2, <4>1, <4>3, <1>8
        <5> QED BY <5>1, <5>2
      <4>7. ~Possible(d, p) => metric'[d][p] = Inf
        <5> SUFFICES ASSUME ~Possible(d, p) PROVE metric'[d][p] = Inf
          OBVIOUS
        <5>1. metric[d][p] = Inf
          BY <1>6
        <5>2. Over(metric, d, p, e[1]) >= Inf
          BY <1>9, <3>1, <3>4
        <5> QED BY <5>1, <5>2, <4>2, InfAssumption DEF Lesser
      <4> HIDE DEF left
      <4> QED BY <4>1, <4>4, <4>5, <4>6, <4>7 DEF Swept
    <3> QED BY <3>3, <3>4
  <2> QED BY <2>2, <2>3
<1>11. sweep'.x = x /\ sweep'.left = left /\ sweep'.cache = sweep.cache /\ sweep' \in Sweeps(x)
  BY <1>1, <1>2 DEF Sweeps
<1> HIDE DEF x, left
<1> QED BY <1>1, <1>2, <1>7, <1>10, <1>11, SweepStep

(* When the list of a node is empty its arcs are settled; after the last    *)
(* node all are.                                                            *)
LEMMA NextNodeStep == ASSUME IInv, NextNode PROVE IInv'
<1> USE DEF graphVars, parallelVars
<1> DEFINE x == sweep.x
<1>1. /\ GraphOK /\ SupergraphOK /\ TypeOK /\ SweepOK /\ pc = "sweep" /\ sweep.left = {}
      /\ UNCHANGED <<graphVars, weight, metric, q, parallelVars>>
  BY DEF IInv, NextNode
<1>2. /\ input \in Inputs /\ weight \in input.weights /\ cch.up \subseteq Pairs /\ Nodes \subseteq Nat /\ metric \in Metrics
      /\ x \in Nat /\ sweep \in Sweeps(x) /\ Caches(x, sweep.cache) /\ input.n \in Nat
      /\ \A d \in Dirs, p \in cch.up : Swept(metric, x, {}, d, p)
  BY <1>1, NodesAreNumbers DEF GraphOK, TypeOK, Weighed, SweepOK
<1>3. CASE x + 1 < input.n
  <2>1. sweep' = AtNode(x + 1, sweep.cache, sweep.goal) /\ pc' = "sweep"
    BY <1>1, <1>3 DEF NextNode
  <2>2. sweep.cache \in [Nodes -> cch.up \cup {NoId}] /\ sweep.goal \in {"sweep", "witness"} /\ x + 1 \in Nat
    BY <1>2 DEF Sweeps
  <2>3. cch.up # {} => \A z \in Nodes : sweep.cache[z] \in cch.up
    BY <1>2 DEF Caches, Up
  <2>4. /\ sweep' \in Sweeps(x + 1) /\ Caches(x + 1, sweep'.cache) /\ sweep'.x = x + 1 /\ sweep'.left = PairsOver(x + 1)
        /\ \A p \in cch.up : p[1] = x + 1 => \A y \in LowerTriangles(p) : <<y, p[2]>> \in PairsOver(x + 1)
    BY <2>1, <2>2, <2>3, <1>1, NodeBegins
  <2>5. ASSUME NEW d \in Dirs, NEW p \in cch.up PROVE Swept(metric, x + 1, PairsOver(x + 1), d, p)
    <3>1. Swept(metric, x, {}, d, p)
      BY <1>2
    <3>2. p[1] \in Nat
      BY <1>2, Triangles, NodesAreNumbers
    <3>3. p[1] < x + 1 => p[1] < x \/ p[1] = x
      BY <3>2, <1>2
    <3>4. p[1] <= x => p[1] <= x + 1
      BY <3>2, <1>2
    <3> QED BY <2>4, <3>1, <3>3, <3>4 DEF Swept
  <2> HIDE DEF x
  <2> QED BY <2>1, <2>2, <2>4, <2>5, <1>1, <1>2, SweepStep
<1>4. CASE ~(x + 1 < input.n)
  <2>1. pc' \in {"customized", "witness"} /\ metric' = metric
    BY <1>1, <1>4 DEF NextNode
  <2>2. ASSUME NEW d \in Dirs, NEW p \in cch.up PROVE metric[d][p] = Least(metric, d, p)
    <3>1. Swept(metric, x, {}, d, p)
      BY <1>2
    <3>2. p[1] < x \/ p[1] = x
      <4>1. p[1] \in Nodes
        BY <1>2, Triangles
      <4> QED BY <4>1, <1>2, <1>4 DEF Nodes
    <3>3. \A y \in LowerTriangles(p) : metric[d][p] <= Over(metric, d, p, y)
      BY <3>1, <3>2 DEF Swept
    <3> QED BY <3>1, <3>3, <1>2, LeastWhen DEF Swept
  <2>3. PartialOK'
    BY <2>1, <2>2, <1>1, LeastFrame DEF PartialOK
  <2>4. weight' \in input.weights /\ q' \subseteq cch.up
    BY <1>1, <1>2 DEF TypeOK
  <2> QED BY <2>1, <2>3, <2>4, <1>1, <1>2, CustomizedStep
<1> QED BY <1>3, <1>4

-----------------------------------------------------------------------------
(* The threads. *)
LEMMA StartParallelStep == ASSUME IInv, StartParallel PROVE IInv'
<1> USE DEF graphVars, parallelVars
<1>1. /\ GraphOK /\ SupergraphOK /\ TypeOK /\ pc = "dirty" /\ pc' = "parallel" /\ q' = {} /\ placed' = {}
      /\ metric' = ExtractInitialMetric /\ chunk' = ArcsOfLevel(Released({}))
      /\ UNCHANGED <<graphVars, weight, worker>>
  BY DEF IInv, StartParallel
<1>2. \A t \in Threads : worker[t] = Unset
  BY <1>1 DEF TypeOK
<1>3. input \in Inputs /\ weight \in input.weights /\ cch.up \subseteq Pairs /\ Released(placed)' = Released({})
  BY <1>1, GraphFrame DEF GraphOK
<1>4. metric' \in Metrics' /\ \A d \in Dirs, p \in cch.up : metric'[d][p] = Extract(d, p) /\ Extract(d, p) \in Nat
  <2>1. Metrics' = Metrics
    BY <1>1, GraphFrame
  <2>2. /\ ExtractInitialMetric \in Metrics
        /\ \A d \in Dirs, p \in cch.up : ExtractInitialMetric[d][p] = Extract(d, p) /\ Extract(d, p) \in Nat
    BY <1>3, ExtractedMetric, ExtractIsNumber
  <2> QED BY <2>1, <2>2, <1>1
<1>5. GraphOK' /\ SupergraphOK'
  BY <1>1, <1>3, GraphStays DEF Built
<1>6. TypeOK'
  <2>1. worker' \in [Threads -> Workers(cch'.up)] /\ placed' \subseteq Nodes'
    BY <1>1 DEF TypeOK
  <2>2. ArcsOfLevel(Released(placed))' = ArcsOfLevel(Released({}))
    BY <1>1, GraphFrame
  <2> QED BY <1>1, <1>4, <2>1, <2>2 DEF TypeOK
<1>7. WorkersOK' /\ PlacedOK' /\ PartialOK' /\ SweepOK'
  BY <1>1, <1>2 DEF WorkersOK, PlacedOK, PartialOK, SweepOK
<1>8. ParallelOK'
  <2>1. \A d \in Dirs, p \in cch'.up : Explained(d, p)'
    BY <1>1, <1>4, ExtractFrame DEF Explained
  <2>2. \A d \in Dirs, r \in cch'.up : Begun(r[1])' => \A z \in UpperTriangles(r)' : Covered(d, r, z)'
    BY <1>1, <1>3 DEF Begun, Covered, ArcsOfLevel
  <2> QED BY <2>1, <2>2 DEF ParallelOK
<1> QED BY <1>5, <1>6, <1>7, <1>8 DEF IInv

(* What holds of a thread at work, and what it goes on with. *)
LEMMA AtWork ==
  ASSUME GraphOK, TypeOK, WorkersOK, NEW t \in Threads, worker[t] # Unset
  PROVE  /\ pc = "parallel" /\ metric \in Metrics /\ worker[t].arc \in cch.up /\ worker[t].dir \in Dirs
         /\ worker[t].left \in SUBSET Nat
         /\ worker[t] = [arc |-> worker[t].arc, left |-> worker[t].left, dir |-> worker[t].dir,
                         seen |-> worker[t].seen, sum |-> worker[t].sum]
         /\ worker[t].seen \in Nat \cup {NoId}
         /\ Apex(t) \in worker[t].left /\ Apex(t) \in UpperTriangles(worker[t].arc)
         /\ TopOf(t) \in cch.up /\ worker[t].arc[1] \in LowerTriangles(TopOf(t))
         /\ Seen(t) \in Nat /\ SumOf(t) \in Nat
         /\ SumOf(t) = Over(metric, worker[t].dir, TopOf(t), worker[t].arc[1])
<1>1. pc = "parallel" /\ metric \in Metrics /\ worker[t] \in Workers(cch.up) \ {Unset}
  BY DEF TypeOK, Weighed
<1>2. /\ worker[t].arc \in cch.up /\ worker[t].dir \in Dirs /\ worker[t].left \in SUBSET Nat
      /\ worker[t] = [arc |-> worker[t].arc, left |-> worker[t].left, dir |-> worker[t].dir,
                      seen |-> worker[t].seen, sum |-> worker[t].sum]
      /\ worker[t].seen \in Nat \cup {NoId}
  BY <1>1 DEF Workers
<1>3. Apex(t) \in worker[t].left
  BY <1>2, MinIsLeast DEF WorkersOK, Apex
<1>4. Apex(t) \in UpperTriangles(worker[t].arc)
  BY <1>3 DEF WorkersOK
<1>5. TopOf(t) \in cch.up /\ worker[t].arc[1] \in LowerTriangles(TopOf(t))
  BY <1>2, <1>4, Triangles DEF TopOf, GraphOK
<1>6. SumOf(t) = Over(metric, worker[t].dir, TopOf(t), worker[t].arc[1])
  <2>1. worker[t].arc = <<worker[t].arc[1], worker[t].arc[2]>>
    BY <1>2, Triangles DEF GraphOK
  <2> QED BY <2>1 DEF SumOf, Over, TopOf
<1>7. Seen(t) \in Nat /\ SumOf(t) \in Nat
  BY <1>1, <1>2, <1>5, <1>6, WeightsAreNumbers DEF Seen, GraphOK
<1> QED BY <1>1, <1>2, <1>3, <1>4, <1>5, <1>6, <1>7

LEMMA NextTaskKeeps ==
  ASSUME GraphOK, TypeOK, WorkersOK, NEW t \in Threads, worker[t] # Unset,
         worker' = [worker EXCEPT ![t] = NextTask(t)]
  PROVE  /\ worker'[t] \in Workers(cch.up)
         /\ worker'[t] # Unset => /\ worker'[t].arc = worker[t].arc /\ worker'[t].seen = NoId
                                  /\ worker'[t].left # {} /\ worker'[t].left \subseteq worker[t].left
         /\ \A d \in Dirs : \A r, z : Waiting(t, d, r, z) =>
              Waiting(t, d, r, z)' \/ (d = worker[t].dir /\ r = worker[t].arc /\ z = Apex(t))
<1> DEFINE left == IF worker[t].dir = "f" THEN worker[t].left ELSE worker[t].left \ {Apex(t)}
           next == [arc |-> worker[t].arc, left |-> left, dir |-> Opposite(worker[t].dir), seen |-> NoId, sum |-> NoId]
<1>1. worker'[t] = IF left = {} THEN Unset ELSE next
  BY DEF TypeOK, NextTask
<1>2. next \in Workers(cch.up) /\ left \subseteq worker[t].left
  BY AtWork DEF Workers, Opposite, Dirs
<1>3. next # Unset
  <2>1. "x" \notin DOMAIN next /\ "x" \in DOMAIN Unset
    BY DEF Unset
  <2> QED BY <2>1
<1>4. ASSUME NEW d \in Dirs, NEW r, NEW z, Waiting(t, d, r, z)
      PROVE  Waiting(t, d, r, z)' \/ (d = worker[t].dir /\ r = worker[t].arc /\ z = Apex(t))
  <2>1. r = worker[t].arc /\ z \in worker[t].left /\ (worker[t].dir = "f" \/ z # Apex(t) \/ d = "b")
    BY <1>4 DEF Waiting
  <2>2. worker[t].dir \in {"f", "b"}
    BY AtWork DEF Dirs
  <2>3. CASE worker[t].dir = "f"
    <3>1. worker'[t] = next /\ worker'[t].left = worker[t].left /\ worker'[t].arc = r
      BY <2>1, <2>3, <1>1
    <3>2. Apex(t)' = Apex(t)
      BY <3>1 DEF Apex
    <3>3. CASE z = Apex(t) /\ d = "f"
      BY <3>3, <2>1, <2>3
    <3>4. CASE z # Apex(t) \/ d = "b"
      BY <3>1, <3>2, <3>4, <2>1, <1>3 DEF Waiting
    <3> QED BY <3>3, <3>4 DEF Dirs
  <2>4. CASE worker[t].dir = "b"
    <3>1. CASE z = Apex(t)
      BY <3>1, <2>1, <2>4
    <3>2. CASE z # Apex(t)
      <4>1. z \in left
        BY <2>1, <2>4, <3>2
      <4>2. worker'[t] = next /\ worker'[t].dir = "f"
        BY <4>1, <1>1, <2>4 DEF Opposite
      <4> QED BY <4>1, <4>2, <2>1, <1>3 DEF Waiting
    <3> QED BY <3>1, <3>2
  <2> QED BY <2>2, <2>3, <2>4
<1>5. worker'[t] # Unset => /\ worker'[t].arc = worker[t].arc /\ worker'[t].seen = NoId
                            /\ worker'[t].left # {} /\ worker'[t].left \subseteq worker[t].left
  BY <1>1, <1>2
<1>6. worker'[t] \in Workers(cch.up)
  BY <1>1, <1>2 DEF Workers
<1> QED BY <1>4, <1>5, <1>6

(* What a step of one thread owes: it may only lower arcs that nobody's     *)
(* list starts from yet, and what it strikes off its list is relaxed.       *)
LEMMA OthersWait ==
  ASSUME NEW u \in Threads, worker'[u] = worker[u]
  PROVE  /\ \A d, r, z : Waiting(u, d, r, z)' <=> Waiting(u, d, r, z)
         /\ TopOf(u)' = TopOf(u)
<1>1. Apex(u)' = Apex(u)
  BY DEF Apex
<1> QED BY <1>1 DEF Waiting, TopOf

LEMMA ThreadStep ==
  ASSUME IInv, pc = "parallel", NEW t \in Threads,
         UNCHANGED <<graphVars, weight, q, pc, placed>>, chunk' \subseteq chunk,
         worker' \in [Threads -> Workers(cch.up)], \A u \in Threads \ {t} : worker'[u] = worker[u],
         metric' \in Metrics, \A d \in Dirs, p \in cch.up : metric'[d][p] <= metric[d][p],
         \A d \in Dirs, p \in cch.up : metric'[d][p] # metric[d][p] =>
           /\ ~Begun(p[1])
           /\ \E x \in LowerTriangles(p) : Begun(x) /\ metric'[d][p] = Over(metric, d, p, x),
         worker'[t] # Unset =>
           /\ worker'[t].arc[1] \in Released(placed) /\ worker'[t].arc \notin chunk'
           /\ worker'[t].left # {} /\ worker'[t].left \subseteq UpperTriangles(worker'[t].arc)
           /\ worker'[t].seen # NoId => Seen(t)' <= worker'[t].seen /\ worker'[t].sum = SumOf(t)',
         \A d \in Dirs, r \in cch.up : \A z \in UpperTriangles(r) :
           r \in chunk \ chunk' \/ Waiting(t, d, r, z) => Waiting(t, d, r, z)' \/ Relaxed(d, r, z)'
  PROVE  IInv'
<1> USE DEF graphVars
<1>1. /\ GraphOK /\ SupergraphOK /\ TypeOK /\ WorkersOK /\ PlacedOK /\ ParallelOK
      /\ input \in Inputs /\ cch.up \subseteq Pairs /\ metric \in Metrics /\ weight \in input.weights
  BY DEF IInv, GraphOK, TypeOK, Weighed
<1>2. /\ Released(placed)' = Released(placed) /\ ArcsOfLevel(Released(placed))' = ArcsOfLevel(Released(placed))
      /\ \A x : Begun(x)' <=> Begun(x)
  BY GraphFrame DEF Begun
<1>3. GraphOK' /\ SupergraphOK' /\ PlacedOK' /\ PartialOK' /\ SweepOK'
  BY <1>1, GraphStays, GraphFrame DEF PlacedOK, PartialOK, SweepOK, Built
<1>4. TypeOK'
  <2>1. placed' \subseteq Nodes' /\ q' \subseteq cch'.up /\ (Weighed' => metric' \in Metrics')
    BY <1>1, InputFrame, GraphFrame DEF TypeOK
  <2>2. chunk' \subseteq ArcsOfLevel(Released(placed))'
    BY <1>1, <1>2 DEF TypeOK
  <2> QED BY <2>1, <2>2 DEF TypeOK
<1>5. \A d \in Dirs, p \in cch.up : metric[d][p] \in Nat /\ metric'[d][p] \in Nat
  BY <1>1 DEF Metrics
<1>6. \A d \in Dirs, p \in cch.up : \A x \in LowerTriangles(p) :
        Begun(x) => Over(metric', d, p, x) = Over(metric, d, p, x)
  <2> SUFFICES ASSUME NEW d \in Dirs, NEW p \in cch.up, NEW x \in LowerTriangles(p), Begun(x)
               PROVE  Over(metric', d, p, x) = Over(metric, d, p, x)
    OBVIOUS
  <2>1. <<x, p[1]>> \in cch.up /\ <<x, p[2]>> \in cch.up
    BY <1>1, Triangles
  <2>2. \A e \in Dirs : metric'[e][<<x, p[1]>>] = metric[e][<<x, p[1]>>] /\ metric'[e][<<x, p[2]>>] = metric[e][<<x, p[2]>>]
    BY <2>1
  <2> QED BY <2>2 DEF Over, OverLower, Opposite, Dirs
<1>7. WorkersOK'
  <2> SUFFICES ASSUME NEW u \in Threads, worker'[u] # Unset
               PROVE  /\ worker'[u].arc[1] \in Released(placed)' /\ worker'[u].arc \notin chunk'
                      /\ worker'[u].left # {} /\ worker'[u].left \subseteq UpperTriangles(worker[u].arc)'
                      /\ worker'[u].seen # NoId => Seen(u)' <= worker'[u].seen /\ worker'[u].sum = SumOf(u)'
    BY DEF WorkersOK
  <2>1. CASE u = t
    BY <2>1, <1>2, GraphFrame
  <2>2. CASE u # t
    <3>1. worker'[u] = worker[u] /\ TopOf(u)' = TopOf(u) /\ worker[u] # Unset
      BY <2>2, OthersWait
    <3>2. Seen(u)' <= Seen(u) /\ Seen(u) \in Nat /\ Seen(u)' \in Nat /\ worker[u].seen \in Nat \cup {NoId}
      BY <3>1, <1>1, <1>5, AtWork DEF Seen
    <3>3. worker[u].seen # NoId => Seen(u)' <= worker[u].seen
      BY <3>1, <3>2, <1>1 DEF WorkersOK
    <3>4. SumOf(u)' = SumOf(u)
      <4>1. /\ worker[u].arc[1] \in LowerTriangles(TopOf(u)) /\ TopOf(u) \in cch.up /\ worker[u].dir \in Dirs
            /\ SumOf(u) = Over(metric, worker[u].dir, TopOf(u), worker[u].arc[1])
            /\ worker[u].arc = <<worker[u].arc[1], worker[u].arc[2]>>
        BY <3>1, <1>1, AtWork, Triangles
      <4>2. Begun(worker[u].arc[1])
        BY <3>1, <1>1 DEF WorkersOK, Begun
      <4>3. SumOf(u) = Over(metric', worker[u].dir, TopOf(u), worker[u].arc[1])
        BY <4>1, <4>2, <1>6
      <4>4. Apex(u)' = Apex(u)
        BY <3>1 DEF Apex
      <4> QED BY <4>1, <4>3, <4>4, <3>1 DEF SumOf, Over, OverLower, Opposite, TopOf
    <3> QED BY <3>1, <3>3, <3>4, <1>1, <1>2, GraphFrame DEF WorkersOK
  <2> QED BY <2>1, <2>2
<1>8. ASSUME NEW d \in Dirs, NEW p \in cch.up PROVE Explained(d, p)'
  <2>1. Explained(d, p) /\ Extract(d, p)' = Extract(d, p) /\ LowerTriangles(p)' = LowerTriangles(p)
    BY <1>1, ExtractFrame, GraphFrame DEF ParallelOK
  <2>2. metric'[d][p] <= Extract(d, p)
    <3>1. metric[d][p] <= Extract(d, p) /\ metric'[d][p] <= metric[d][p] /\ Extract(d, p) \in Nat
      BY <2>1, <1>1, ExtractIsNumber DEF Explained
    <3> QED BY <3>1, <1>5
  <2>3. \/ metric'[d][p] = Extract(d, p)
        \/ \E x \in LowerTriangles(p) : Begun(x) /\ metric'[d][p] = Over(metric, d, p, x)
    BY <2>1 DEF Explained
  <2>4. \/ metric'[d][p] = Extract(d, p)
        \/ \E x \in LowerTriangles(p) : Begun(x) /\ metric'[d][p] = Over(metric', d, p, x)
    BY <2>3, <1>6
  <2>5. \A x : Over(metric, d, p, x)' = Over(metric', d, p, x)
    BY DEF Over, OverLower, Opposite
  <2> QED BY <2>1, <2>2, <2>4, <2>5, <1>2 DEF Explained
<1>9. ASSUME NEW d \in Dirs, NEW r \in cch.up, Begun(r[1]), NEW z \in UpperTriangles(r)
      PROVE  Covered(d, r, z)'
  <2>1. r \in chunk \/ Relaxed(d, r, z) \/ \E u \in Threads : Waiting(u, d, r, z)
    BY <1>9, <1>1 DEF ParallelOK, Covered
  <2>2. CASE r \in chunk'
    BY <2>2 DEF Covered
  <2>3. CASE r \in chunk \ chunk'
    BY <2>3 DEF Covered
  <2>4. CASE Relaxed(d, r, z)
    <3>1. <<r[2], z>> \in cch.up /\ r = <<r[1], r[2]>> /\ r[1] \in LowerTriangles(<<r[2], z>>)
      BY <1>1, Triangles
    <3>2. Over(metric', d, <<r[2], z>>, r[1]) = Over(metric, d, <<r[2], z>>, r[1])
      BY <3>1, <1>6, <1>9
    <3>3. metric'[d][<<r[2], z>>] <= metric[d][<<r[2], z>>]
      BY <3>1
    <3>4. metric[d][<<r[2], z>>] <= Over(metric, d, <<r[2], z>>, r[1]) /\ Over(metric, d, <<r[2], z>>, r[1]) \in Nat
      BY <2>4, <3>1, <1>1, WeightsAreNumbers DEF Relaxed, Over
    <3>5. metric'[d][<<r[2], z>>] <= Over(metric', d, <<r[2], z>>, r[1])
      BY <3>1, <3>2, <3>3, <3>4, <1>5
    <3>6. Relaxed(d, r, z)'
      BY <3>5, <3>1 DEF Relaxed, Over, OverLower, Opposite
    <3> QED BY <3>6 DEF Covered
  <2>5. ASSUME NEW u \in Threads, Waiting(u, d, r, z) PROVE Covered(d, r, z)'
    <3>1. CASE u = t
      BY <3>1, <2>5 DEF Covered
    <3>2. CASE u # t
      BY <3>2, <2>5, OthersWait DEF Covered
    <3> QED BY <3>1, <3>2
  <2> QED BY <2>1, <2>2, <2>3, <2>4, <2>5
<1>10. ParallelOK'
  BY <1>2, <1>8, <1>9, GraphFrame DEF ParallelOK
<1> QED BY <1>3, <1>4, <1>7, <1>10 DEF IInv

LEMMA TakeArcStep == ASSUME IInv, NEW t \in Threads, TakeArc(t) PROVE IInv'
<1> USE DEF graphVars, parallelVars
<1> DEFINE p == First(chunk)
           task == [arc |-> p, left |-> UpperTriangles(p), dir |-> "f", seen |-> NoId, sum |-> NoId]
<1>1. /\ GraphOK /\ TypeOK /\ pc = "parallel" /\ chunk # {} /\ worker[t] = Unset
      /\ UNCHANGED <<graphVars, weight, metric, q, pc, placed>>
      /\ worker' = [worker EXCEPT ![t] = IF UpperTriangles(p) = {} THEN Unset ELSE task]
      /\ chunk' = chunk \ {p}
  BY DEF IInv, TakeArc
<1>2. input \in Inputs /\ cch.up \subseteq Pairs /\ Nodes \subseteq Nat /\ metric \in Metrics
  BY <1>1, NodesAreNumbers DEF GraphOK, TypeOK, Weighed
<1>3. p \in chunk /\ p \in cch.up /\ p[1] \in Released(placed)
  <2>1. chunk \subseteq ArcsOfLevel(Released(placed)) /\ chunk \subseteq cch.up
    BY <1>1 DEF TypeOK, ArcsOfLevel
  <2>2. chunk \in SUBSET (Nat \X Nat)
    BY <2>1, <1>2 DEF Pairs
  <2>3. p \in chunk
    BY <2>2, <1>1, FirstIsMember
  <2> QED BY <2>1, <2>3 DEF ArcsOfLevel
<1>4. UpperTriangles(p) \subseteq Nat
  BY <1>2, <1>3, Triangles
<1> HIDE DEF p
<1>5. task \in Workers(cch.up) /\ task # Unset
  <2>1. task \in Workers(cch.up)
    BY <1>3, <1>4 DEF Workers, Dirs
  <2>2. "x" \notin DOMAIN task /\ "x" \in DOMAIN Unset
    BY DEF Unset
  <2> QED BY <2>1, <2>2
<1>6. /\ worker'[t] = IF UpperTriangles(p) = {} THEN Unset ELSE task
      /\ \A u \in Threads \ {t} : worker'[u] = worker[u]
      /\ worker' \in [Threads -> Workers(cch.up)]
  BY <1>1, <1>5 DEF TypeOK, Workers
<1>7. ASSUME NEW d \in Dirs, NEW r \in cch.up, NEW z \in UpperTriangles(r), r \in chunk \ chunk'
      PROVE  Waiting(t, d, r, z)'
  <2>1. r = p /\ worker'[t] = task /\ z \in task.left
    BY <1>7, <1>1, <1>6
  <2> QED BY <2>1, <1>5 DEF Waiting
<1>8. \A d, r, z : ~Waiting(t, d, r, z)
  BY <1>1 DEF Waiting
<1>9. \A d \in Dirs, r \in cch.up : metric'[d][r] <= metric[d][r] /\ metric'[d][r] = metric[d][r]
  BY <1>1, <1>2, WeightsAreNumbers
<1> QED BY <1>1, <1>2, <1>3, <1>6, <1>7, <1>8, <1>9, ThreadStep

LEMMA ReadsTop ==
  ASSUME IInv, NEW t \in Threads, worker[t] # Unset, 
         worker' = [worker EXCEPT ![t] = [arc |-> worker[t].arc, left |-> worker[t].left, dir |-> worker[t].dir,
                                          seen |-> Seen(t), sum |-> SumOf(t)]],
         UNCHANGED <<graphVars, weight, metric, q, pc, placed, chunk>>
  PROVE  IInv'
<1> USE DEF graphVars
<1>1. GraphOK /\ TypeOK /\ WorkersOK
  BY DEF IInv
<1>2. /\ pc = "parallel" /\ metric \in Metrics /\ Seen(t) \in Nat /\ SumOf(t) \in Nat /\ worker[t] \in Workers(cch.up)
      /\ worker[t].arc \in cch.up /\ worker[t].left \in SUBSET Nat /\ worker[t].dir \in Dirs
  BY <1>1, AtWork DEF TypeOK
<1>3. worker'[t] = [arc |-> worker[t].arc, left |-> worker[t].left, dir |-> worker[t].dir,
                    seen |-> Seen(t), sum |-> SumOf(t)]
  BY <1>1, <1>2 DEF TypeOK
<1>4. /\ worker'[t].arc = worker[t].arc /\ worker'[t].left = worker[t].left /\ worker'[t].dir = worker[t].dir
      /\ worker'[t].seen = Seen(t) /\ worker'[t].sum = SumOf(t)
  BY <1>3
<1>5. worker'[t] # Unset
  <2>1. "x" \notin DOMAIN worker'[t] /\ "x" \in DOMAIN Unset
    BY <1>3 DEF Unset
  <2> QED BY <2>1
<1>6. worker' \in [Threads -> Workers(cch.up)] /\ \A u \in Threads \ {t} : worker'[u] = worker[u]
  <2>1. worker'[t] \in Workers(cch.up)
    BY <1>2, <1>3 DEF Workers
  <2> QED BY <2>1, <1>1 DEF TypeOK
<1>7. Apex(t)' = Apex(t) /\ Seen(t)' = Seen(t) /\ Seen(t)' <= worker'[t].seen /\ SumOf(t)' = worker'[t].sum
  <2>1. Apex(t)' = Apex(t)
    BY <1>4 DEF Apex
  <2>2. Seen(t)' = Seen(t)
    BY <2>1, <1>4 DEF Seen, TopOf
  <2>3. SumOf(t)' = SumOf(t)
    BY <2>1, <1>4 DEF SumOf, OverLower, Opposite
  <2> QED BY <2>1, <2>2, <2>3, <1>2, <1>4
<1>8. \A d, r, z : Waiting(t, d, r, z) => Waiting(t, d, r, z)'
  BY <1>4, <1>5, <1>7 DEF Waiting
<1>9. \A d \in Dirs, r \in cch.up : metric'[d][r] <= metric[d][r] /\ metric'[d][r] = metric[d][r]
  BY <1>1, <1>2, WeightsAreNumbers DEF GraphOK
<1>10. /\ worker'[t].arc[1] \in Released(placed) /\ worker'[t].arc \notin chunk'
       /\ worker'[t].left # {} /\ worker'[t].left \subseteq UpperTriangles(worker'[t].arc)
  BY <1>1, <1>4 DEF WorkersOK
<1> QED BY <1>2, <1>6, <1>7, <1>8, <1>9, <1>10, ThreadStep

LEMMA AtomicMinToStep == ASSUME IInv, NEW t \in Threads, AtomicMinTo(t) PROVE IInv'
<1> USE DEF graphVars, parallelVars
<1> DEFINE a == worker[t].arc
           dir == worker[t].dir
           top == TopOf(t)
<1>1. /\ GraphOK /\ TypeOK /\ WorkersOK /\ PlacedOK /\ ParallelOK
      /\ worker[t] # Unset /\ worker[t].seen # NoId /\ UNCHANGED <<graphVars, weight, q, pc, placed, chunk>>
  BY DEF IInv, AtomicMinTo
<1>2. /\ pc = "parallel" /\ metric \in Metrics /\ a \in cch.up /\ dir \in Dirs /\ worker[t].seen \in Nat
      /\ top \in cch.up /\ a[1] \in LowerTriangles(top) /\ Seen(t) \in Nat /\ SumOf(t) \in Nat
      /\ SumOf(t) = Over(metric, dir, top, a[1]) /\ Seen(t) = metric[dir][top] /\ Seen(t) <= worker[t].seen
      /\ worker[t].sum = SumOf(t)
      /\ top = <<a[2], Apex(t)>> /\ Apex(t) \in UpperTriangles(a)
  BY <1>1, AtWork DEF WorkersOK, Seen, TopOf
<1>3. cch.up \subseteq Pairs /\ input \in Inputs /\ \A d \in Dirs, r \in cch.up : metric[d][r] \in Nat
  BY <1>1, <1>2, WeightsAreNumbers DEF GraphOK
<1>4. a[1] \in Released(placed) /\ Begun(a[1]) /\ ~Begun(top[1])
  <2>1. a[1] \in Released(placed) /\ a[1] \notin placed
    BY <1>1 DEF WorkersOK, Released
  <2>2. a[1] \in Down(a[2])
    BY <1>2, <1>3, Triangles DEF Down
  <2>3. a[2] \notin placed /\ a[2] \notin Released(placed)
    BY <2>1, <2>2, <1>1, <1>2 DEF PlacedOK, Released
  <2> QED BY <2>1, <2>3, <1>2 DEF Begun
<1>5. ASSUME Finishes(t)
      PROVE  /\ worker' \in [Threads -> Workers(cch.up)] /\ \A u \in Threads \ {t} : worker'[u] = worker[u]
             /\ worker'[t] # Unset =>
                  /\ worker'[t].arc[1] \in Released(placed) /\ worker'[t].arc \notin chunk'
                  /\ worker'[t].left # {} /\ worker'[t].left \subseteq UpperTriangles(worker'[t].arc)
                  /\ worker'[t].seen # NoId => Seen(t)' <= worker'[t].seen /\ worker'[t].sum = SumOf(t)'
             /\ \A d \in Dirs : \A r, z : Waiting(t, d, r, z) => Waiting(t, d, r, z)' \/ (d = dir /\ r = a /\ z = Apex(t))
  <2>1. worker' = [worker EXCEPT ![t] = NextTask(t)]
    BY <1>5 DEF Finishes
  <2>2. /\ worker'[t] \in Workers(cch.up)
        /\ worker'[t] # Unset => /\ worker'[t].arc = a /\ worker'[t].seen = NoId
                                 /\ worker'[t].left # {} /\ worker'[t].left \subseteq worker[t].left
        /\ \A d \in Dirs : \A r, z : Waiting(t, d, r, z) => Waiting(t, d, r, z)' \/ (d = dir /\ r = a /\ z = Apex(t))
    BY <2>1, <1>1, NextTaskKeeps
  <2>3. worker' \in [Threads -> Workers(cch.up)] /\ \A u \in Threads \ {t} : worker'[u] = worker[u]
    BY <2>1, <2>2, <1>1 DEF TypeOK
  <2>4. a[1] \in Released(placed) /\ a \notin chunk /\ worker[t].left \subseteq UpperTriangles(a)
    BY <1>1 DEF WorkersOK
  <2> QED BY <2>2, <2>3, <2>4, <1>1
<1>6. ASSUME metric'[dir][top] <= Over(metric', dir, top, a[1])
      PROVE  \A d \in Dirs : \A r, z : d = dir /\ r = a /\ z = Apex(t) => Relaxed(d, r, z)'
  <2> SUFFICES ASSUME NEW d \in Dirs, NEW r, NEW z, d = dir, r = a, z = Apex(t) PROVE Relaxed(d, r, z)'
    OBVIOUS
  <2>1. r = <<r[1], r[2]>> /\ top = <<r[2], z>>
    BY <1>2, <1>3, Triangles
  <2>2. metric'[d][<<r[2], z>>] <= Over(metric', d, <<r[2], z>>, r[1])
    BY <2>1, <1>6
  <2> HIDE DEF a, dir, top
  <2> QED BY <2>1, <2>2 DEF Relaxed, Over, OverLower, Opposite
<1>7. CASE worker[t].sum >= worker[t].seen /\ Finishes(t) /\ UNCHANGED metric
  <2>1. \A d \in Dirs, r \in cch.up : metric'[d][r] <= metric[d][r] /\ metric'[d][r] = metric[d][r]
    BY <1>7, <1>3
  <2>2. metric'[dir][top] <= Over(metric', dir, top, a[1])
    BY <1>2, <1>7
  <2> QED BY <2>1, <2>2, <1>1, <1>2, <1>5, <1>6, <1>7, ThreadStep
<1>8. CASE worker' = [worker EXCEPT ![t].seen = Seen(t)] /\ UNCHANGED metric
  <2>1. worker[t] = [arc |-> worker[t].arc, left |-> worker[t].left, dir |-> worker[t].dir,
                     seen |-> worker[t].seen, sum |-> SumOf(t)]
    BY <1>1, <1>2, AtWork
  <2>2. [worker[t] EXCEPT !.seen = Seen(t)] =
          [arc |-> worker[t].arc, left |-> worker[t].left, dir |-> worker[t].dir, seen |-> Seen(t), sum |-> SumOf(t)]
    BY <2>1
  <2> QED BY <2>2, <1>1, <1>8, ReadsTop
<1>9. CASE worker[t].sum < worker[t].seen /\ Seen(t) = worker[t].seen /\ Stores(t)
  <2>1. Finishes(t) /\ metric' = [metric EXCEPT ![dir][top] = SumOf(t)]
    BY <1>9, <1>2 DEF Stores
  <2>2. /\ metric' \in Metrics /\ metric'[dir][top] = SumOf(t)
        /\ \A d \in Dirs, r \in cch.up : d # dir \/ r # top => metric'[d][r] = metric[d][r]
    BY <2>1, <1>2 DEF Metrics
  <2>3. metric'[dir][top] < metric[dir][top]
    BY <2>2, <1>9, <1>2
  <2>4. \A d \in Dirs, r \in cch.up : metric'[d][r] <= metric[d][r]
    <3> SUFFICES ASSUME NEW d \in Dirs, NEW r \in cch.up PROVE metric'[d][r] <= metric[d][r]
      OBVIOUS
    <3>1. CASE d = dir /\ r = top
      BY <3>1, <2>2, <2>3, <1>2
    <3>2. CASE d # dir \/ r # top
      BY <3>2, <2>2, <1>3
    <3> QED BY <3>1, <3>2
  <2>5. \A d \in Dirs, r \in cch.up : metric'[d][r] # metric[d][r] =>
          ~Begun(r[1]) /\ \E x \in LowerTriangles(r) : Begun(x) /\ metric'[d][r] = Over(metric, d, r, x)
    BY <2>2, <1>2, <1>4
  <2>6. metric'[dir][top] <= Over(metric', dir, top, a[1])
    <3>1. <<a[1], top[1]>> \in cch.up /\ <<a[1], top[2]>> \in cch.up /\ a[1] # top[1]
      BY <1>2, <1>3, <1>4, Triangles
    <3>2. \A d \in Dirs : /\ metric'[d][<<a[1], top[1]>>] = metric[d][<<a[1], top[1]>>]
                          /\ metric'[d][<<a[1], top[2]>>] = metric[d][<<a[1], top[2]>>]
      BY <3>1, <2>2
    <3>3. Over(metric', dir, top, a[1]) = SumOf(t)
      BY <3>2, <1>2 DEF Over, OverLower, Opposite, Dirs
    <3> QED BY <3>3, <2>2, <1>2
  <2>7. \A d \in Dirs, r \in cch.up : \A z \in UpperTriangles(r) :
          r \in chunk \ chunk' \/ Waiting(t, d, r, z) => Waiting(t, d, r, z)' \/ Relaxed(d, r, z)'
    BY <2>1, <2>6, <1>1, <1>5, <1>6
  <2>8. metric' \in Metrics /\ chunk' \subseteq chunk
    BY <2>2, <1>1
  <2> HIDE DEF a, dir, top
  <2> QED BY <2>1, <2>4, <2>5, <2>7, <2>8, <1>1, <1>2, <1>5, ThreadStep
<1> QED BY <1>7, <1>8, <1>9 DEF AtomicMinTo

LEMMA ReadTopStep == ASSUME IInv, NEW t \in Threads, ReadTop(t) PROVE IInv'
<1> USE DEF graphVars, parallelVars
<1>1. worker[t] = [arc |-> worker[t].arc, left |-> worker[t].left, dir |-> worker[t].dir,
                   seen |-> worker[t].seen, sum |-> worker[t].sum]
  BY AtWork DEF IInv, ReadTop
<1>2. [worker[t] EXCEPT !.sum = SumOf(t)] =
        [arc |-> worker[t].arc, left |-> worker[t].left, dir |-> worker[t].dir,
         seen |-> worker[t].seen, sum |-> SumOf(t)]
  BY <1>1
<1>3. [worker[t] EXCEPT !.sum = SumOf(t), !.seen = Seen(t)] =
        [arc |-> worker[t].arc, left |-> worker[t].left, dir |-> worker[t].dir, seen |-> Seen(t), sum |-> SumOf(t)]
  <2>1. [worker[t] EXCEPT !.sum = SumOf(t), !.seen = Seen(t)] =
          [[worker[t] EXCEPT !.sum = SumOf(t)] EXCEPT !.seen = Seen(t)]
    OBVIOUS
  <2>2. [[worker[t] EXCEPT !.sum = SumOf(t)] EXCEPT !.seen = Seen(t)] =
          [[arc |-> worker[t].arc, left |-> worker[t].left, dir |-> worker[t].dir,
            seen |-> worker[t].seen, sum |-> SumOf(t)] EXCEPT !.seen = Seen(t)]
    BY <1>2
  <2>3. [[arc |-> worker[t].arc, left |-> worker[t].left, dir |-> worker[t].dir,
          seen |-> worker[t].seen, sum |-> SumOf(t)] EXCEPT !.seen = Seen(t)] =
          [arc |-> worker[t].arc, left |-> worker[t].left, dir |-> worker[t].dir, seen |-> Seen(t), sum |-> SumOf(t)]
    OBVIOUS
  <2> QED BY <2>1, <2>2, <2>3, Zenon
<1>4. worker' = [worker EXCEPT ![t] = [worker[t] EXCEPT !.sum = SumOf(t), !.seen = Seen(t)]]
  BY DEF ReadTop
<1> QED BY <1>3, <1>4, ReadsTop DEF ReadTop

(* At the end of a level everything that begun is relaxed; at the end of    *)
(* the last one everything has begun, and every arc is as low as its        *)
(* triangles make it.                                                       *)
LEMMA BarrierStep == ASSUME IInv, Barrier PROVE IInv'
<1> USE DEF graphVars, parallelVars
<1> DEFINE done == placed \cup Released(placed)
<1>1. /\ GraphOK /\ SupergraphOK /\ TypeOK /\ PlacedOK /\ ParallelOK /\ pc = "parallel" /\ chunk = {}
      /\ \A t \in Threads : worker[t] = Unset
      /\ UNCHANGED <<graphVars, weight, metric, q, worker>>
      /\ placed' = done /\ chunk' = ArcsOfLevel(Released(done))
      /\ pc' = IF Nodes \subseteq done THEN "customized" ELSE pc
  BY DEF IInv, Barrier, NextLevel
<1>2. /\ input \in Inputs /\ cch.up \subseteq Pairs /\ metric \in Metrics /\ weight \in input.weights
      /\ placed \subseteq Nodes /\ done \subseteq Nodes
  BY <1>1 DEF GraphOK, TypeOK, Weighed, Released
<1>3. \A d \in Dirs, r \in cch.up : Begun(r[1]) => \A z \in UpperTriangles(r) : Relaxed(d, r, z)
  BY <1>1 DEF ParallelOK, Covered, Waiting
<1>4. \A x : Begun(x) <=> x \in done
  BY DEF Begun
<1>5. Released(placed)' = Released(done) /\ ArcsOfLevel(Released(placed))' = ArcsOfLevel(Released(done))
  BY <1>1, GraphFrame
<1> HIDE DEF done
<1>6. \A x : Begun(x)' <=> x \in done \/ x \in Released(done)
  BY <1>1, <1>5 DEF Begun
<1>7. GraphOK' /\ SupergraphOK' /\ SweepOK'
  BY <1>1, <1>2, GraphStays DEF Built, SweepOK
<1>8. TypeOK'
  <2>1. worker' \in [Threads -> Workers(cch'.up)] /\ Nodes' = Nodes /\ Metrics' = Metrics
    BY <1>1, InputFrame, GraphFrame DEF TypeOK
  <2>2. pc' \in {"parallel", "customized"} /\ q' \subseteq cch'.up
    BY <1>1 DEF TypeOK
  <2> QED BY <1>1, <1>2, <1>5, <2>1, <2>2 DEF TypeOK
<1>9. WorkersOK'
  BY <1>1 DEF WorkersOK
<1>10. PlacedOK'
  <2>1. \A x \in done : Down(x) \subseteq done
    BY <1>1 DEF done, PlacedOK, Released
  <2> QED BY <2>1, <1>1, GraphFrame DEF PlacedOK
<1>11. ParallelOK'
  <2>1. ASSUME NEW d \in Dirs, NEW p \in cch.up PROVE Explained(d, p)'
    <3>1. Explained(d, p)
      BY <1>1 DEF ParallelOK
    <3>2. \A x : Over(metric, d, p, x)' = Over(metric, d, p, x)
      BY <1>1 DEF Over, OverLower, Opposite
    <3> QED BY <3>1, <3>2, <1>1, <1>4, <1>6, ExtractFrame, GraphFrame DEF Explained
  <2>2. ASSUME NEW d \in Dirs, NEW r \in cch.up, Begun(r[1])', NEW z \in UpperTriangles(r)
        PROVE  Covered(d, r, z)'
    <3>1. CASE r[1] \in done
      <4>1. Relaxed(d, r, z)
        BY <3>1, <1>3, <1>4
      <4> QED BY <4>1, <1>1 DEF Covered, Relaxed, OverLower, Opposite
    <3>2. CASE r[1] \in Released(done)
      BY <3>2, <1>1 DEF Covered, ArcsOfLevel
    <3> QED BY <2>2, <3>1, <3>2, <1>6
  <2> QED BY <2>1, <2>2, <1>1, GraphFrame DEF ParallelOK
<1>12. PartialOK'
  <2> SUFFICES ASSUME Nodes \subseteq done, NEW d \in Dirs, NEW p \in cch.up
               PROVE  metric[d][p] = Least(metric, d, p)
    BY <1>1, LeastFrame DEF PartialOK
  <2>1. metric[d][p] <= Extract(d, p)
    BY <1>1 DEF ParallelOK, Explained
  <2>2. \A x \in LowerTriangles(p) : metric[d][p] <= Over(metric, d, p, x)
    <3> SUFFICES ASSUME NEW x \in LowerTriangles(p) PROVE metric[d][p] <= Over(metric, d, p, x)
      OBVIOUS
    <3>1. /\ x \in Nodes /\ <<x, p[1]>> \in cch.up /\ p[2] \in UpperTriangles(<<x, p[1]>>)
          /\ p = <<p[1], p[2]>>
      BY <1>2, Triangles
    <3>2. Relaxed(d, <<x, p[1]>>, p[2])
      BY <3>1, <1>3, <1>4
    <3> QED BY <3>1, <3>2 DEF Relaxed, Over
  <2>3. metric[d][p] = Extract(d, p) \/ \E x \in LowerTriangles(p) : metric[d][p] = Over(metric, d, p, x)
    BY <1>1 DEF ParallelOK, Explained
  <2> QED BY <2>1, <2>2, <2>3, <1>2, LeastWhen
<1> QED BY <1>7, <1>8, <1>9, <1>10, <1>11, <1>12 DEF IInv

-----------------------------------------------------------------------------
(* The queue. *)
LEMMA ReweighStep == ASSUME IInv, NEW w \in input.weights, Reweigh(w) PROVE IInv'
<1> USE DEF graphVars, parallelVars
<1> DEFINE told == UpdateArcs({a \in InputArcs : w[a] # weight[a]})
<1>1. /\ GraphOK /\ TypeOK /\ PartialOK /\ pc = "customized" /\ pc' = "changed"
      /\ weight' = w /\ q' = told /\ UNCHANGED <<graphVars, metric, parallelVars>>
  BY DEF IInv, Reweigh
<1>2. told \subseteq SymmetricArcs /\ told \subseteq cch.up /\ input \in Inputs /\ order \in input.orders
  BY <1>1 DEF UpdateArcs, SymmetricArcs, GraphOK
<1>3. ASSUME NEW d \in Dirs, NEW p \in cch.up \ told PROVE Extract(d, p)' = Extract(d, p)
  <2>1. p # NoId
    BY <1>3, <1>1, <1>2, CchArcsLeadUp DEF GraphOK
  <2>2. \A a \in InputArcsOfCch(d, p) : weight'[a] = weight[a]
    BY <1>3, <2>1, <1>1 DEF InputArcsOfCch, UpdateArcs
  <2>3. InputArcsOfCch(d, p)' = InputArcsOfCch(d, p)
    BY <1>1, InputFrame DEF InputArcsOfCch
  <2>4. {weight[a] : a \in InputArcsOfCch(d, p)}' = {weight[a] : a \in InputArcsOfCch(d, p)}
    BY <2>2, <2>3
  <2> QED BY <2>4 DEF Extract
<1>4. ASSUME NEW d \in Dirs, NEW p \in cch.up \ told PROVE metric'[d][p] = Least(metric, d, p)'
  <2>1. metric[d][p] = Least(metric, d, p)
    BY <1>1, <1>4 DEF PartialOK
  <2>2. LowerSums(metric, d, p)' = LowerSums(metric, d, p)
    BY <1>1, GraphFrame DEF LowerSums, OverLower, Opposite
  <2> QED BY <2>1, <2>2, <1>3, <1>1 DEF Least
<1>5. PartialOK'
  BY <1>4, <1>1 DEF PartialOK
<1>6. metric' \in Metrics
  BY <1>1 DEF TypeOK, Weighed
<1> QED BY <1>5, <1>6, <1>1, <1>2, CustomizedStep

LEMMA TopsAreArcs ==
  ASSUME input \in Inputs, cch.up \subseteq Pairs, NEW p \in cch.up, NEW m, NEW old
  PROVE  TopsBetween(p, m, old) \subseteq cch.up /\ TopsAbove(p, m, old) \subseteq cch.up
<1>1. \A y \in IntermediateTriangles(p) : <<y, p[2]>> \in cch.up
  BY DEF IntermediateTriangles, Down
<1>2. \A z \in UpperTriangles(p) : <<p[2], z>> \in cch.up
  BY DEF UpperTriangles, Up
<1> QED BY <1>1, <1>2 DEF TopsBetween, TopsAbove

(* An arc over a lower triangle one side of which has changed keeps its     *)
(* least weight, unless the code puts it into the queue: the two tests of   *)
(* the code are enough, although they mix the old weight of the one side    *)
(* with the present weights of the other two arcs.                          *)
LEMMA UnaffectedArc ==
  ASSUME input \in Inputs, weight \in input.weights, cch.up \subseteq Pairs, metric \in Metrics,
         NEW p \in cch.up, NEW m \in Metrics, NEW old,
         \A d \in Dirs : old[d] = metric[d][p],
         \A d \in Dirs, r \in cch.up \ {p} : m[d][r] = metric[d][r],
         NEW d \in Dirs, NEW r \in cch.up \ {p}, metric[d][r] = Least(metric, d, r),
         r \notin TopsBetween(p, m, old), r \notin TopsAbove(p, m, old)
  PROVE  m[d][r] = Least(m, d, r)
<1>1. /\ \A e \in Dirs, s \in cch.up : m[e][s] \in Nat /\ metric[e][s] \in Nat
      /\ Opposite(d) \in Dirs /\ Opposite(Opposite(d)) = d
  BY WeightsAreNumbers DEF Dirs, Opposite
<1>2. /\ metric[d][r] <= Extract(d, r) /\ \A x \in LowerTriangles(r) : metric[d][r] <= Over(metric, d, r, x)
      /\ metric[d][r] = Extract(d, r) \/ \E x \in LowerTriangles(r) : metric[d][r] = Over(metric, d, r, x)
  BY LeastIsLeast
<1>3. r = <<r[1], r[2]>> /\ p = <<p[1], p[2]>> /\ r[1] \in Nat /\ r[2] \in Nat /\ r[1] < r[2]
  BY Triangles, NodesAreNumbers
<1>4. ASSUME NEW x \in LowerTriangles(r)
      PROVE  /\ m[d][r] <= Over(m, d, r, x)
             /\ metric[d][r] = Over(metric, d, r, x) => m[d][r] = Over(m, d, r, x)
  <2>1. <<x, r[1]>> \in cch.up /\ <<x, r[2]>> \in cch.up /\ m[d][r] = metric[d][r]
    BY Triangles
  <2>2. CASE <<x, r[1]>> # p /\ <<x, r[2]>> # p
    <3>1. Over(m, d, r, x) = Over(metric, d, r, x)
      BY <2>1, <2>2, <1>1 DEF Over, OverLower
    <3> QED BY <3>1, <2>1, <1>2
  <2>3. CASE <<x, r[2]>> = p
    <3>1. x = p[1] /\ r[2] = p[2] /\ r = <<r[1], p[2]>> /\ <<p[1], r[1]>> \in cch.up /\ <<p[1], r[1]>> # p
      BY <2>1, <2>3, <1>3
    <3>2. r[1] \in IntermediateTriangles(p)
      BY <3>1, Triangles DEF IntermediateTriangles, Up, Down
    <3>3. /\ m[Opposite(d)][<<p[1], r[1]>>] + old[d] # m[d][r]
          /\ ~(m[Opposite(d)][<<p[1], r[1]>>] + m[d][p] < m[d][r])
      BY <3>1, <3>2, <1>1 DEF TopsBetween
    <3>4. /\ Over(m, d, r, x) = m[Opposite(d)][<<p[1], r[1]>>] + m[d][p]
          /\ Over(metric, d, r, x) = metric[Opposite(d)][<<p[1], r[1]>>] + metric[d][p]
      BY <3>1, <2>3 DEF Over, OverLower
    <3>5. m[Opposite(d)][<<p[1], r[1]>>] = metric[Opposite(d)][<<p[1], r[1]>>]
      BY <3>1, <1>1
    <3>6. Over(metric, d, r, x) # metric[d][r]
      BY <3>3, <3>4, <3>5, <2>1
    <3>7. m[d][r] <= Over(m, d, r, x)
      BY <3>1, <3>3, <3>4, <1>1
    <3> QED BY <3>6, <3>7
  <2>4. CASE <<x, r[1]>> = p
    <3>1. x = p[1] /\ r[1] = p[2] /\ r = <<p[2], r[2]>> /\ <<p[1], r[2]>> \in cch.up /\ <<p[1], r[2]>> # p
      BY <2>1, <2>4, <1>3
    <3>2. r[2] \in UpperTriangles(p)
      BY <3>1, Triangles DEF UpperTriangles, Up
    <3>3. /\ m[d][<<p[1], r[2]>>] + old[Opposite(d)] # m[d][r]
          /\ ~(m[d][<<p[1], r[2]>>] + m[Opposite(d)][p] < m[d][r])
      BY <3>1, <3>2, <1>1 DEF TopsAbove
    <3>4. /\ Over(m, d, r, x) = m[Opposite(d)][p] + m[d][<<p[1], r[2]>>]
          /\ Over(metric, d, r, x) = metric[Opposite(d)][p] + metric[d][<<p[1], r[2]>>]
      BY <3>1, <2>4 DEF Over, OverLower
    <3>5. m[d][<<p[1], r[2]>>] = metric[d][<<p[1], r[2]>>]
      BY <3>1, <1>1
    <3>6. Over(metric, d, r, x) # metric[d][r]
      BY <3>1, <3>3, <3>4, <3>5, <2>1, <1>1
    <3>7. m[d][r] <= Over(m, d, r, x)
      BY <3>1, <3>3, <3>4, <1>1
    <3> QED BY <3>6, <3>7
  <2> QED BY <2>2, <2>3, <2>4
<1>5. m[d][r] = metric[d][r]
  OBVIOUS
<1>6. m[d][r] = Extract(d, r) \/ \E x \in LowerTriangles(r) : m[d][r] = Over(m, d, r, x)
  BY <1>2, <1>4, <1>5
<1> QED BY <1>2, <1>4, <1>5, <1>6, LeastWhen

LEMMA PartialStepKeeps == ASSUME IInv, PartialStep PROVE IInv'
<1> USE DEF graphVars, parallelVars
<1> DEFINE p == First(q)
           old == [d \in Dirs |-> metric[d][p]]
           m == Recomputed(p)
           tops == IF \A d \in Dirs : m[d][p] = old[d] THEN {} ELSE TopsBetween(p, m, old) \cup TopsAbove(p, m, old)
<1>1. /\ GraphOK /\ TypeOK /\ PartialOK /\ pc = "changed" /\ q # {} /\ metric' = m /\ q' = (q \ {p}) \cup tops
      /\ pc' = (IF q' = {} THEN "customized" ELSE pc) /\ UNCHANGED <<graphVars, weight, parallelVars>>
  BY DEF IInv, PartialStep
<1>2. /\ input \in Inputs /\ cch.up \subseteq Pairs /\ weight \in input.weights /\ Nodes \subseteq Nat /\ q \subseteq cch.up
  BY <1>1, NodesAreNumbers DEF GraphOK, TypeOK
<1>3. p \in q /\ p \in cch.up
  <2>1. q \in SUBSET (Nat \X Nat)
    BY <1>2 DEF Pairs
  <2>2. p \in q
    BY <2>1, <1>1, FirstIsMember
  <2> QED BY <2>2, <1>2
<1>4. q' \subseteq cch.up
  BY <1>1, <1>2, <1>3, TopsAreArcs
<1>5. metric \in Metrics
  BY <1>1 DEF TypeOK, Weighed
<1>6. /\ m \in Metrics /\ \A d \in Dirs : m[d][p] = Least(metric, d, p)
      /\ \A d \in Dirs, r \in cch.up \ {p} : m[d][r] = metric[d][r]
  <2>1. \A d \in Dirs : Least(metric, d, p) \in Nat
    BY <1>5, <1>2, <1>3, LeastIsLeast
  <2> HIDE DEF p
  <2> QED BY <2>1, <1>5, <1>3 DEF Metrics, Recomputed
<1>7. \A d \in Dirs : old[d] = metric[d][p]
  OBVIOUS
<1> HIDE DEF p, m, old
<1>8. \A d \in Dirs, r \in cch.up \ q : metric[d][r] = Least(metric, d, r)
  BY <1>1 DEF PartialOK
<1>9. ASSUME NEW d \in Dirs, NEW r \in cch.up \ q' PROVE m[d][r] = Least(m, d, r)
  <2>1. CASE r = p
    <3>1. \A x \in LowerTriangles(p) : Over(m, d, p, x) = Over(metric, d, p, x)
      <4> SUFFICES ASSUME NEW x \in LowerTriangles(p) PROVE Over(m, d, p, x) = Over(metric, d, p, x)
        OBVIOUS
      <4>1. /\ <<x, p[1]>> \in cch.up /\ <<x, p[2]>> \in cch.up /\ x \in Nat /\ p[1] \in Nat /\ x < p[1]
            /\ p = <<p[1], p[2]>>
        BY <1>2, <1>3, Triangles
      <4>2. x # p[1]
        BY <4>1
      <4>3. <<x, p[1]>> # p /\ <<x, p[2]>> # p
        BY <4>1, <4>2
      <4> QED BY <4>1, <4>3, <1>6 DEF Over, OverLower, Opposite, Dirs
    <3>2. Least(m, d, p) = Least(metric, d, p)
      BY <3>1, <1>2, <1>3, LeastDependsBelow
    <3> QED BY <3>2, <2>1, <1>6
  <2>2. CASE r # p /\ \A e \in Dirs : m[e][p] = old[e]
    <3>1. r \notin q
      BY <2>2, <1>9, <1>1
    <3>2. \A e \in Dirs, s \in cch.up : m[e][s] = metric[e][s]
      BY <2>2, <1>6, <1>7
    <3>3. \A x \in LowerTriangles(r) : Over(m, d, r, x) = Over(metric, d, r, x)
      BY <3>2, <1>2, Triangles DEF Over, OverLower, Opposite, Dirs
    <3>4. Least(m, d, r) = Least(metric, d, r)
      BY <3>3, <1>2, LeastDependsBelow
    <3> QED BY <3>1, <3>2, <3>4, <1>8
  <2>3. CASE r # p /\ ~ \A e \in Dirs : m[e][p] = old[e]
    <3>1. r \notin q /\ r \notin TopsBetween(p, m, old) /\ r \notin TopsAbove(p, m, old)
      BY <2>3, <1>9, <1>1
    <3>2. metric[d][r] = Least(metric, d, r)
      BY <3>1, <1>8
    <3> QED BY <3>1, <3>2, <2>3, <1>2, <1>3, <1>5, <1>6, <1>7, UnaffectedArc
  <2> QED BY <2>1, <2>2, <2>3
<1>10. PartialOK'
  BY <1>9, <1>1, LeastFrame DEF PartialOK
<1>11. metric' \in Metrics /\ pc' \in {"changed", "customized"}
  BY <1>6, <1>1
<1> QED BY <1>10, <1>11, <1>1, <1>2, <1>4, CustomizedStep

-----------------------------------------------------------------------------
(* The other steps. *)
LEMMA UnclaimedSteps == ASSUME IInv, StartWitnessSearch \/ WitnessStep \/ BuildPerfectWitness \/ CustomizeAnew PROVE IInv'
<1> USE DEF graphVars, parallelVars
<1>1. /\ GraphOK /\ SupergraphOK /\ TypeOK /\ UNCHANGED <<graphVars, weight, q, parallelVars>>
      /\ pc \in {"witness", "search", "changed"} /\ pc' \in {"dirty", "search", "perfect", "invalid"}
  BY DEF IInv, StartWitnessSearch, WitnessStep, BuildPerfectWitness, CustomizeAnew
<1>2. GraphOK' /\ SupergraphOK' /\ Nodes' = Nodes /\ ~Weighed' /\ weight \in input.weights
  <2>1. weight' \in input.weights /\ Built /\ Built'
    BY <1>1 DEF GraphOK, Built
  <2> QED BY <1>1, <2>1, GraphStays, InputFrame DEF Weighed
<1>3. q' \subseteq cch'.up /\ \A t \in Threads : worker[t] = Unset
  BY <1>1 DEF TypeOK
<1> QED BY <1>1, <1>2, <1>3, Resting

LEMMA Stutter == ASSUME IInv, UNCHANGED cchVars PROVE IInv'
<1> USE DEF graphVars, parallelVars, cchVars
<1>1. GraphOK' /\ SupergraphOK' /\ PlacedOK' /\ PartialOK' /\ SweepOK'
  <2>1. GraphOK'
    BY InputFrame DEF IInv, GraphOK
  <2>2. \A x : Above(cch.up, x)' = Above(cch.up, x) /\ Inherited(cch.up, x)' = Inherited(cch.up, x)
    BY DEF Above, Inherited
  <2>3. \A x : Spread(cch.up, x)' = Spread(cch.up, x)
    BY DEF Spread, Opposite
  <2>4. InheritedOK' /\ ChordalOK' /\ SpreadOK'
    BY <2>2, <2>3, InputFrame DEF IInv, SupergraphOK, InheritedOK, ChordalOK, SpreadOK
  <2>5. PossibleOK'
    <3>1. \A d, p : Possible(d, p)' <=> Possible(d, p)
      BY DEF Possible
    <3>2. \A d : Opposite(d)' = Opposite(d)
      BY DEF Opposite
    <3> QED BY <3>1, <3>2, InputFrame DEF IInv, SupergraphOK, PossibleOK, Built
  <2>6. SweepOK'
    BY SweepFrame DEF IInv, SweepOK
  <2>7. PlacedOK' /\ PartialOK'
    BY GraphFrame, InputFrame, LeastFrame DEF IInv, PlacedOK, PartialOK
  <2> QED BY <2>1, <2>4, <2>5, <2>6, <2>7 DEF SupergraphOK
<1>2. TypeOK'
  <2>1. Workers(cch.up)' = Workers(cch.up)
    BY DEF Workers
  <2>2. Weighed' <=> Weighed
    BY DEF Weighed
  <2> QED BY <2>1, <2>2, InputFrame, GraphFrame DEF IInv, TypeOK
<1>3. CASE pc = "parallel"
  <2>1. \A t \in Threads : worker'[t] = worker[t] /\ worker \in [Threads -> Workers(cch.up)] /\ metric \in Metrics
    BY <1>3 DEF IInv, TypeOK, Weighed
  <2>2. WorkersOK'
    <3>1. \A t \in Threads : Seen(t)' = Seen(t) /\ SumOf(t)' = SumOf(t)
      BY OthersWait DEF Seen, SumOf, OverLower, Opposite, Apex
    <3> QED BY <3>1, GraphFrame DEF IInv, WorkersOK
  <2>3. ParallelOK'
    <3>1. \A x : Begun(x)' <=> Begun(x)
      BY GraphFrame DEF Begun
    <3>2. \A d, p, x : Over(metric, d, p, x)' = Over(metric, d, p, x)
      BY DEF Over, OverLower, Opposite
    <3>3. \A d, p : Explained(d, p)' <=> Explained(d, p)
      BY <3>1, <3>2, ExtractFrame, GraphFrame DEF Explained
    <3>4. \A d, r, z : Relaxed(d, r, z)' <=> Relaxed(d, r, z)
      BY DEF Relaxed, OverLower, Opposite
    <3>5. \A d, r, z : Covered(d, r, z)' <=> Covered(d, r, z)
      BY <3>4, OthersWait DEF Covered
    <3> QED BY <3>1, <3>3, <3>5, GraphFrame DEF IInv, ParallelOK
  <2> QED BY <1>1, <1>2, <2>2, <2>3 DEF IInv
<1>4. CASE pc # "parallel"
  <2>1. WorkersOK' /\ ParallelOK'
    BY <1>4 DEF IInv, TypeOK, WorkersOK, ParallelOK
  <2> QED BY <1>1, <1>2, <2>1 DEF IInv
<1> QED BY <1>3, <1>4

LEMMA NextOK == IInv /\ [Next]_vars => IInv'
<1> SUFFICES ASSUME IInv, [Next]_vars PROVE IInv'
  OBVIOUS
<1>1. CASE Customizing
  <2>1. CASE ContractNode \/ BuildTree \/ FilterNode \/ KeepArcs
    BY <2>1, BuildSteps
  <2>2. CASE StartWitnessSearch \/ WitnessStep \/ BuildPerfectWitness \/ CustomizeAnew
    BY <2>2, UnclaimedSteps
  <2>3. CASE StartParallel
    BY <2>3, StartParallelStep
  <2>4. CASE Barrier
    BY <2>4, BarrierStep
  <2>5. CASE PartialStep
    BY <2>5, PartialStepKeeps
  <2>6. ASSUME NEW t \in Threads, TakeArc(t) \/ ReadTop(t) \/ AtomicMinTo(t) PROVE IInv'
    BY <2>6, TakeArcStep, ReadTopStep, AtomicMinToStep
  <2>7. CASE Customize
    BY <2>7, CustomizeStep
  <2>8. CASE RelaxPair
    BY <2>8, RelaxPairStep
  <2>9. CASE NextNode
    BY <2>9, NextNodeStep
  <2> QED BY <1>1, <2>1, <2>2, <2>3, <2>4, <2>5, <2>6, <2>7, <2>8, <2>9 DEF Customizing
<1>2. CASE \E w \in input.weights : Reweigh(w)
  BY <1>2, ReweighStep
<1>3. CASE UNCHANGED cchVars
  BY <1>3, Stutter
<1> QED BY <1>1, <1>2, <1>3 DEF Next, vars

(* A customization that has ended left a settled metric. *)
LEMMA SettledAtTheEnd == IInv => TrianglesAreSettled
BY DEF IInv, PartialOK, TrianglesAreSettled, Solves

THEOREM CustomizationInvariant == Spec => []IInv
<1>1. Start => IInv
  BY InitOK DEF Start
<1> QED BY <1>1, NextOK, PTL DEF Spec

(* Whether it is swept, customized by threads however they interleave, or   *)
(* brought up to date after any changes in whatever order the arcs of the   *)
(* queue come: the metric has in every arc the least of its input arcs and  *)
(* of its lower triangles.                                                  *)
THEOREM EveryWaySettles == Spec => []TrianglesAreSettled
BY CustomizationInvariant, SettledAtTheEnd, PTL

-----------------------------------------------------------------------------
(* A customized metric is exact: for every road graph, order and vector of   *)
(* weights, with and without the filter, whichever way it was customized,    *)
(* every arc has the distance between its ends over the nodes below both,    *)
(* as the dynamic program over all nodes computes it.                        *)

(* The input weights are numbers up to Inf, and so are the distances.       *)
LEMMA InputWeightIsNumber ==
  ASSUME input \in Inputs, weight \in input.weights
  PROVE  \A u, v : InputWeight(u, v) \in Numbers
<1> SUFFICES ASSUME NEW u, NEW v PROVE InputWeight(u, v) \in Numbers
  OBVIOUS
<1> DEFINE S == {Inf} \cup {weight[a] : a \in {b \in InputArcs : TailOf(b) = u /\ HeadOf(b) = v}}
<1>1. weight \in [InputArcs -> Nat]
  BY InputsAssumption DEF InputArcs
<1>2. S \in SUBSET Nat /\ Inf \in S
  BY <1>1, InfAssumption
<1>3. Min(S) \in Nat /\ Min(S) <= Inf
  <2> HIDE DEF S
  <2> QED BY <1>2, MinIsLeast
<1> QED BY <1>3 DEF InputWeight, Numbers

LEMMA DistancesUpToAreNumbers ==
  ASSUME input \in Inputs, weight \in input.weights
  PROVE  \A k \in -1 .. input.n - 1 :
           /\ DOMAIN DistancesUpTo[k] = Nodes \X Nodes
           /\ \A p \in Nodes \X Nodes : DistancesUpTo[k][p] \in Numbers
           /\ \A u, v \in Nodes : DistancesUpTo[k][<<u, v>>] \in Numbers
<1>1. input.n \in Nat /\ Between(input.n) = Nodes \X Nodes
  BY NodesAreNumbers DEF Between, Nodes
<1>2. InputWeights \in Graphs(input.n)
  <2>1. \A p \in Nodes \X Nodes : InputWeight(p[1], p[2]) \in Nat
    BY InputWeightIsNumber DEF Numbers
  <2> QED BY <1>1, <2>1 DEF InputWeights, Graphs
<1>3. \A k \in -1 .. input.n - 1 : DistancesUpTo[k] \in [Nodes \X Nodes -> Numbers]
  BY <1>1, <1>2, DistancesAreNumbers DEF DistancesUpTo, Table
<1> QED BY <1>3

(* and each is the input weight or the least way over one of the nodes so   *)
(* far, composed of the distances over the nodes before that one.           *)
WayOver(z, u, v) == Plus(DistancesUpTo[z - 1][<<u, z>>], DistancesUpTo[z - 1][<<z, v>>])
LeastWay(k, u, v) ==
  /\ DistancesUpTo[k][<<u, v>>] <= InputWeight(u, v)
  /\ \A z \in 0 .. k : DistancesUpTo[k][<<u, v>>] <= WayOver(z, u, v)
  /\ \/ DistancesUpTo[k][<<u, v>>] = InputWeight(u, v)
     \/ \E z \in 0 .. k : DistancesUpTo[k][<<u, v>>] = WayOver(z, u, v)

LEMMA DistancesUnrolled ==
  ASSUME input \in Inputs, weight \in input.weights,
         NEW u \in Nodes, NEW v \in Nodes, u # v
  PROVE  \A k \in -1 .. input.n - 1 : LeastWay(k, u, v)
<1> DEFINE S == {j \in Nat : j <= input.n => LeastWay(j - 1, u, v)}
<1>1. input.n \in Nat
  BY NodesAreNumbers
<1>2. 0 \in S
  <2>1. DistancesUpTo[-1] = Direct(input.n, InputWeights) /\ <<u, v>> \in Between(input.n)
    BY <1>1, DistancesRecur DEF DistancesUpTo, Between, Nodes
  <2>3. InputWeight(u, v) \in Nat /\ InputWeight(u, v) <= Inf
    BY InputWeightIsNumber DEF Numbers
  <2>5. Direct(input.n, InputWeights)[<<u, v>>] = Lesser(InputWeights[<<u, v>>], Inf)
    BY <2>1 DEF Direct
  <2>6. InputWeights[<<u, v>>] = InputWeight(u, v)
    BY DEF InputWeights
  <2>2. DistancesUpTo[-1][<<u, v>>] = InputWeight(u, v)
    BY <2>1, <2>3, <2>5, <2>6 DEF Lesser
  <2>4. 0 - 1 = -1 /\ 0 .. -1 = {}
    OBVIOUS
  <2> QED BY <2>2, <2>3, <2>4 DEF LeastWay
<1>3. ASSUME NEW j \in Nat, j \in S PROVE j + 1 \in S
  <2> SUFFICES ASSUME j + 1 <= input.n PROVE LeastWay((j + 1) - 1, u, v)
    OBVIOUS
  <2>1. j \in 0 .. input.n - 1 /\ (j + 1) - 1 = j /\ j \in Nodes /\ j - 1 \in -1 .. input.n - 1
    BY <1>1 DEF Nodes
  <2>2. LeastWay(j - 1, u, v)
    BY <1>1, <1>3
  <2>3. <<u, v>> \in Nodes \X Nodes /\ DOMAIN DistancesUpTo[j - 1] = Nodes \X Nodes
    BY <2>1, DistancesUpToAreNumbers
  <2>4. DistancesUpTo[j - 1][<<u, v>>] \in Numbers /\ DistancesUpTo[j - 1][<<u, j>>] \in Numbers /\ DistancesUpTo[j - 1][<<j, v>>] \in Numbers
    BY <2>1, DistancesUpToAreNumbers
  <2>5. WayOver(j, u, v) \in Nat
    BY <2>4, PlusOfNumbers DEF WayOver, Numbers
  <2>6. DistancesUpTo[j] = Through(DistancesUpTo[j - 1], j)
    BY <1>1, <2>1, DistancesRecur DEF DistancesUpTo
  <2>7. DistancesUpTo[j][<<u, v>>] = Lesser(DistancesUpTo[j - 1][<<u, v>>], Plus(DistancesUpTo[j - 1][<<u, j>>], DistancesUpTo[j - 1][<<j, v>>]))
    <3>1. \A low : DOMAIN low = Nodes \X Nodes =>
            Through(low, j)[<<u, v>>] = Lesser(low[<<u, v>>], Plus(low[<<u, j>>], low[<<j, v>>]))
      BY <2>3, Zenon DEF Through
    <3> QED BY <2>3, <2>6, <3>1
  <2>8. WayOver(j, u, v) = Plus(DistancesUpTo[j - 1][<<u, j>>], DistancesUpTo[j - 1][<<j, v>>])
    BY DEF WayOver
  <2>9. /\ DistancesUpTo[j][<<u, v>>] \in Nat
        /\ DistancesUpTo[j][<<u, v>>] <= DistancesUpTo[j - 1][<<u, v>>]
        /\ DistancesUpTo[j][<<u, v>>] <= WayOver(j, u, v)
        /\ \/ DistancesUpTo[j][<<u, v>>] = DistancesUpTo[j - 1][<<u, v>>]
           \/ DistancesUpTo[j][<<u, v>>] = WayOver(j, u, v)
    <3>1. DistancesUpTo[j][<<u, v>>] = Lesser(DistancesUpTo[j - 1][<<u, v>>], WayOver(j, u, v))
      BY <2>7, <2>8
    <3>2. Lesser(DistancesUpTo[j - 1][<<u, v>>], WayOver(j, u, v)) \in Nat
      BY <2>4, <2>5, LesserOfNumbers DEF Numbers
    <3>3. DistancesUpTo[j - 1][<<u, v>>] \in Nat
      BY <2>4 DEF Numbers
    <3> QED BY <2>5, <3>1, <3>2, <3>3, LesserOfNumbers
  <2>10. /\ DistancesUpTo[j - 1][<<u, v>>] <= InputWeight(u, v)
         /\ \A z \in 0 .. j - 1 : DistancesUpTo[j - 1][<<u, v>>] <= WayOver(z, u, v)
         /\ \/ DistancesUpTo[j - 1][<<u, v>>] = InputWeight(u, v)
            \/ \E z \in 0 .. j - 1 : DistancesUpTo[j - 1][<<u, v>>] = WayOver(z, u, v)
    BY <2>2 DEF LeastWay
  <2>11. DistancesUpTo[j][<<u, v>>] <= InputWeight(u, v)
    BY <2>4, <2>9, <2>10, InputWeightIsNumber DEF Numbers
  <2>12. \A z \in 0 .. j - 1 : WayOver(z, u, v) \in Nat
    <3>1. \A z \in 0 .. j - 1 : z \in Nodes /\ z - 1 \in -1 .. input.n - 1
      BY <1>1, <2>1 DEF Nodes
    <3>2. \A z \in 0 .. j - 1 : DistancesUpTo[z - 1][<<u, z>>] \in Numbers /\ DistancesUpTo[z - 1][<<z, v>>] \in Numbers
      BY <3>1, DistancesUpToAreNumbers
    <3> QED BY <3>2, PlusOfNumbers DEF WayOver, Numbers
  <2>13. \A z \in 0 .. j : DistancesUpTo[j][<<u, v>>] <= WayOver(z, u, v)
    <3>1. \A z \in 0 .. j : z = j \/ z \in 0 .. j - 1
      OBVIOUS
    <3>2. \A z \in 0 .. j - 1 : DistancesUpTo[j][<<u, v>>] <= WayOver(z, u, v)
      BY <2>4, <2>9, <2>10, <2>12 DEF Numbers
    <3> QED BY <2>9, <3>1, <3>2
  <2>14. DistancesUpTo[j][<<u, v>>] = InputWeight(u, v) \/ \E z \in 0 .. j : DistancesUpTo[j][<<u, v>>] = WayOver(z, u, v)
    <3>1. j \in 0 .. j /\ \A z \in 0 .. j - 1 : z \in 0 .. j
      OBVIOUS
    <3>2. CASE DistancesUpTo[j][<<u, v>>] = WayOver(j, u, v)
      BY <3>1, <3>2
    <3>3. CASE DistancesUpTo[j][<<u, v>>] = DistancesUpTo[j - 1][<<u, v>>]
      BY <2>10, <3>1, <3>3
    <3> QED BY <2>9, <3>2, <3>3
  <2> QED BY <2>1, <2>11, <2>13, <2>14 DEF LeastWay
<1>4. Nat \subseteq S
  <2> HIDE DEF S
  <2> QED BY <1>2, <1>3, InductionOnNat
<1>5. \A k \in -1 .. input.n - 1 : k + 1 \in Nat /\ k + 1 <= input.n /\ (k + 1) - 1 = k
  BY <1>1
<1> QED BY <1>4, <1>5

-----------------------------------------------------------------------------
(* The same along a direction of an arc: the way over a node z below it goes *)
(* down the one lower arc against the direction and up the other along it.  *)
Ends(d, p) == IF d = "f" THEN p ELSE <<p[2], p[1]>>
Along(d, p) == DistancesUpTo[p[1] - 1][Ends(d, p)]
Around(d, p, z) == Plus(Along(Opposite(d), <<z, p[1]>>), Along(d, <<z, p[2]>>))

LEMMA ExtractIsInputWeight ==
  ASSUME input \in Inputs, order \in input.orders, NEW u \in Nodes, NEW v \in Nodes, u < v
  PROVE  Extract("f", <<u, v>>) = InputWeight(u, v) /\ Extract("b", <<u, v>>) = InputWeight(v, u)
<1>1. u \in Nat /\ v \in Nat /\ NoId # <<u, v>>
  BY NodesAreNumbers, NoIdAssumption
<1>2. \A a \in InputArcs : TailOf(a) \in Nat /\ HeadOf(a) \in Nat
  BY RanksAreNodes, NodesAreNumbers
<1>3. InputArcsOfCch("f", <<u, v>>) = {b \in InputArcs : TailOf(b) = u /\ HeadOf(b) = v}
  BY <1>1, <1>2 DEF InputArcsOfCch, InputArcToCchArc, InputArcDir
<1>4. InputArcsOfCch("b", <<u, v>>) = {b \in InputArcs : TailOf(b) = v /\ HeadOf(b) = u}
  BY <1>1, <1>2 DEF InputArcsOfCch, InputArcToCchArc, InputArcDir
<1> QED BY <1>3, <1>4 DEF Extract, InputWeight

LEMMA AlongIsLeast ==
  ASSUME input \in Inputs, order \in input.orders, weight \in input.weights,
         NEW d \in Dirs, NEW p \in Pairs
  PROVE  /\ Along(d, p) \in Numbers /\ Along(d, p) <= Extract(d, p)
         /\ \A z \in 0 .. p[1] - 1 :
              /\ z \in Nodes /\ <<z, p[1]>> \in Pairs /\ <<z, p[2]>> \in Pairs
              /\ Along(Opposite(d), <<z, p[1]>>) \in Numbers /\ Along(d, <<z, p[2]>>) \in Numbers
              /\ Along(d, p) <= Around(d, p, z)
         /\ \/ Along(d, p) = Extract(d, p)
            \/ \E z \in 0 .. p[1] - 1 : Along(d, p) = Around(d, p, z)
<1> DEFINE x == p[1]
           y == p[2]
           k == p[1] - 1
<1>1. p = <<x, y>> /\ x \in Nodes /\ y \in Nodes /\ x < y /\ x \in Nat /\ y \in Nat
  BY NodesAreNumbers DEF Pairs
<1>2. input.n \in Nat /\ k \in -1 .. input.n - 1
  BY <1>1, NodesAreNumbers DEF Nodes
<1>3. \A z \in 0 .. k : /\ z \in Nodes /\ <<z, x>> \in Pairs /\ <<z, y>> \in Pairs
                        /\ z - 1 \in -1 .. input.n - 1
  BY <1>1, <1>2 DEF Pairs, Nodes
<1>4. \A e \in Dirs, r \in Pairs : Along(e, r) \in Numbers
  <2> SUFFICES ASSUME NEW e \in Dirs, NEW r \in Pairs PROVE Along(e, r) \in Numbers
    OBVIOUS
  <2>1. r[1] - 1 \in -1 .. input.n - 1 /\ Ends(e, r) \in Nodes \X Nodes
    BY <1>2 DEF Pairs, Nodes, Ends
  <2> QED BY <2>1, DistancesUpToAreNumbers DEF Along
<1>5. Opposite(d) \in Dirs
  BY DEF Opposite, Dirs
<1>6. CASE d = "f"
  <2>1. LeastWay(k, x, y) /\ Extract(d, p) = InputWeight(x, y)
    BY <1>1, <1>2, <1>6, DistancesUnrolled, ExtractIsInputWeight
  <2>2. Along(d, p) = DistancesUpTo[k][<<x, y>>]
    BY <1>1, <1>6 DEF Along, Ends
  <2>3. \A z \in 0 .. k : Around(d, p, z) = WayOver(z, x, y)
    BY <1>6 DEF Around, Along, Ends, WayOver, Opposite
  <2> QED BY <1>3, <1>4, <1>5, <2>1, <2>2, <2>3 DEF LeastWay
<1>7. CASE d = "b"
  <2>1. LeastWay(k, y, x) /\ Extract(d, p) = InputWeight(y, x)
    BY <1>1, <1>2, <1>7, DistancesUnrolled, ExtractIsInputWeight
  <2>2. Along(d, p) = DistancesUpTo[k][<<y, x>>]
    BY <1>1, <1>7 DEF Along, Ends
  <2>3. ASSUME NEW z \in 0 .. k PROVE Around(d, p, z) = WayOver(z, y, x)
    <3>1. Around(d, p, z) = Plus(DistancesUpTo[z - 1][<<z, x>>], DistancesUpTo[z - 1][<<y, z>>])
      BY <1>7 DEF Around, Along, Ends, Opposite
    <3>2. DistancesUpTo[z - 1][<<z, x>>] \in Nat /\ DistancesUpTo[z - 1][<<y, z>>] \in Nat
      BY <1>1, <1>3, DistancesUpToAreNumbers DEF Numbers
    <3> QED BY <3>1, <3>2 DEF WayOver, Plus
  <2> QED BY <1>3, <1>4, <1>5, <2>1, <2>2, <2>3 DEF LeastWay
<1> QED BY <1>6, <1>7 DEF Dirs

(* The weights of a settled metric are these distances: the lowest node     *)
(* with an arc of another weight would have its ways over lower nodes right. *)
Exact(d, p) == /\ p \in cch.up => metric[d][p] = Along(d, p)
               /\ ~Possible(d, p) => Along(d, p) = Inf

LEMMA ExactFromBelow ==
  ASSUME GraphOK, PossibleOK, Built, metric \in Metrics, Solves(metric),
         NEW d \in Dirs, NEW p \in Pairs,
         \A e \in Dirs, r \in Pairs : r[1] < p[1] => Exact(e, r)
  PROVE  Exact(d, p)
<1>1. input \in Inputs /\ order \in input.orders /\ weight \in input.weights /\ cch.up \subseteq Pairs
  BY DEF GraphOK
<1>2. Opposite(d) \in Dirs
  BY DEF Opposite, Dirs
<1>3. p = <<p[1], p[2]>> /\ p[1] \in Nodes /\ p[2] \in Nodes /\ p[1] < p[2] /\ p[1] \in Nat
  BY <1>1, NodesAreNumbers DEF Pairs
<1>4. NoId \notin Pairs
  BY <1>1, CchArcsLeadUp
<1>5. Along(d, p) \in Numbers /\ Along(d, p) <= Extract(d, p)
  BY <1>1, AlongIsLeast
<1>6. Along(d, p) = Extract(d, p) \/ \E z \in 0 .. p[1] - 1 : Along(d, p) = Around(d, p, z)
  BY <1>1, AlongIsLeast
<1>7. \A z \in 0 .. p[1] - 1 :
        /\ z \in Nodes /\ <<z, p[1]>> \in Pairs /\ <<z, p[2]>> \in Pairs
        /\ Along(Opposite(d), <<z, p[1]>>) \in Numbers /\ Along(d, <<z, p[2]>>) \in Numbers
        /\ Along(d, p) <= Around(d, p, z)
  BY <1>1, AlongIsLeast
<1>8. \A z \in 0 .. p[1] - 1 : Exact(Opposite(d), <<z, p[1]>>) /\ Exact(d, <<z, p[2]>>)
  BY <1>2, <1>3, <1>7
<1>9. \A e \in Dirs, r \in Pairs : r \notin cch.up => ~Possible(e, r)
  BY DEF Possible, PossibleOK
<1>13. ASSUME NEW z \in 0 .. p[1] - 1
       PROVE  /\ Around(d, p, z) \in Nat /\ Around(d, p, z) <= Inf
              /\ \/ Around(d, p, z) = Inf
                 \/ Around(d, p, z) = Along(Opposite(d), <<z, p[1]>>) + Along(d, <<z, p[2]>>)
              /\ (Along(Opposite(d), <<z, p[1]>>) = Inf \/ Along(d, <<z, p[2]>>) = Inf) => Around(d, p, z) = Inf
              /\ Around(d, p, z) = Inf => Along(Opposite(d), <<z, p[1]>>) + Along(d, <<z, p[2]>>) >= Inf
  <2>1. Along(Opposite(d), <<z, p[1]>>) \in Numbers /\ Along(d, <<z, p[2]>>) \in Numbers
    BY <1>7
  <2> QED BY <2>1, PlusOfNumbers DEF Around, Numbers
<1>10. \A z \in 0 .. p[1] - 1 : Around(d, p, z) < Inf => <<z, p[1]>> \in cch.up /\ <<z, p[2]>> \in cch.up
  <2> SUFFICES ASSUME NEW z \in 0 .. p[1] - 1, Around(d, p, z) < Inf
               PROVE  <<z, p[1]>> \in cch.up /\ <<z, p[2]>> \in cch.up
    OBVIOUS
  <2>1. Along(Opposite(d), <<z, p[1]>>) # Inf /\ Along(d, <<z, p[2]>>) # Inf
    BY <1>13, InfAssumption
  <2> QED BY <1>2, <1>7, <1>8, <1>9, <2>1 DEF Exact
<1>11. ~Possible(d, p) => Along(d, p) = Inf
  <2> SUFFICES ASSUME ~Possible(d, p), Along(d, p) # Inf PROVE FALSE
    OBVIOUS
  <2>1. Extract(d, p) = Inf
    BY <1>4, ExtractIsClosed
  <2>2. PICK z \in 0 .. p[1] - 1 : Along(d, p) = Around(d, p, z)
    BY <1>6, <2>1
  <2>3. ~Possible(Opposite(d), <<z, p[1]>>) \/ ~Possible(d, <<z, p[2]>>)
    BY <1>3, <1>7 DEF PossibleOK
  <2>4. Along(Opposite(d), <<z, p[1]>>) = Inf \/ Along(d, <<z, p[2]>>) = Inf
    BY <1>8, <2>3 DEF Exact
  <2> QED BY <1>13, <2>2, <2>4
<1>12. ASSUME p \in cch.up PROVE metric[d][p] = Along(d, p)
  <2>1. metric[d][p] = Least(metric, d, p) /\ metric[d][p] \in Nat
    BY <1>1, <1>12, WeightsAreNumbers DEF Solves
  <2>2. /\ metric[d][p] <= Extract(d, p)
        /\ \A z \in LowerTriangles(p) : metric[d][p] <= Over(metric, d, p, z)
        /\ metric[d][p] = Extract(d, p) \/ \E z \in LowerTriangles(p) : metric[d][p] = Over(metric, d, p, z)
    BY <1>1, <1>12, <2>1, LeastIsLeast
  <2>3. Extract(d, p) \in Nat /\ Extract(d, p) <= Inf
    BY <1>1, ExtractIsNumber, ExtractAtMostInf
  <2>4. ASSUME NEW z \in 0 .. p[1] - 1, <<z, p[1]>> \in cch.up, <<z, p[2]>> \in cch.up
        PROVE  Over(metric, d, p, z) = Along(Opposite(d), <<z, p[1]>>) + Along(d, <<z, p[2]>>)
    BY <1>8, <2>4 DEF Exact, Over, OverLower
  <2>5. metric[d][p] <= Along(d, p)
    <3>1. CASE Along(d, p) = Extract(d, p)
      BY <2>2, <3>1
    <3>2. ASSUME NEW z \in 0 .. p[1] - 1, Along(d, p) = Around(d, p, z) PROVE metric[d][p] <= Along(d, p)
      <4>1. CASE Around(d, p, z) < Inf
        <5>1. <<z, p[1]>> \in cch.up /\ <<z, p[2]>> \in cch.up /\ z \in LowerTriangles(p)
          BY <1>7, <1>10, <4>1 DEF LowerTriangles, Down
        <5>2. Around(d, p, z) = Along(Opposite(d), <<z, p[1]>>) + Along(d, <<z, p[2]>>)
          BY <1>13, <4>1, InfAssumption
        <5> QED BY <2>2, <2>4, <3>2, <5>1, <5>2
      <4>2. CASE ~(Around(d, p, z) < Inf)
        BY <1>5, <2>1, <2>2, <2>3, <3>2, <4>2, InfAssumption DEF Numbers
      <4> QED BY <4>1, <4>2
    <3> QED BY <1>6, <3>1, <3>2
  <2>6. Along(d, p) <= metric[d][p]
    <3>1. CASE metric[d][p] = Extract(d, p)
      BY <1>5, <3>1
    <3>2. ASSUME NEW z \in LowerTriangles(p), metric[d][p] = Over(metric, d, p, z) PROVE Along(d, p) <= metric[d][p]
      <4>1. z \in 0 .. p[1] - 1 /\ <<z, p[1]>> \in cch.up /\ <<z, p[2]>> \in cch.up
        <5>1. z \in Nodes /\ z \in Nat /\ z < p[1] /\ <<z, p[1]>> \in cch.up /\ <<z, p[2]>> \in cch.up
          BY <1>1, <1>12, Triangles, NodesAreNumbers
        <5> QED BY <1>3, <5>1
      <4>2. metric[d][p] = Along(Opposite(d), <<z, p[1]>>) + Along(d, <<z, p[2]>>)
        BY <2>4, <3>2, <4>1
      <4>3. /\ Along(Opposite(d), <<z, p[1]>>) \in Numbers /\ Along(d, <<z, p[2]>>) \in Numbers
            /\ Along(d, p) <= Around(d, p, z)
        BY <1>7, <4>1
      <4>4. Around(d, p, z) = Inf \/ Around(d, p, z) = metric[d][p]
        BY <1>13, <4>1, <4>2
      <4>5. Around(d, p, z) = Inf => metric[d][p] >= Inf
        BY <1>13, <4>1, <4>2
      <4> QED BY <1>5, <2>1, <4>3, <4>4, <4>5, InfAssumption DEF Numbers
    <3> QED BY <2>2, <3>1, <3>2
  <2> QED BY <1>5, <2>1, <2>5, <2>6 DEF Numbers
<1> QED BY <1>11, <1>12 DEF Exact

LEMMA SettledIsExact ==
  ASSUME GraphOK, PossibleOK, Built, metric \in Metrics, Solves(metric)
  PROVE  \A d \in Dirs, p \in Pairs : Exact(d, p)
<1> DEFINE Wrong == {x \in Nodes : \E d \in Dirs, p \in Pairs : p[1] = x /\ ~Exact(d, p)}
<1>1. Wrong \in SUBSET Nat
  BY NodesAreNumbers DEF GraphOK
<1>2. SUFFICES ASSUME Wrong # {} PROVE FALSE
  BY DEF Pairs
<1>3. PICK x \in Wrong : \A y \in Wrong : x <= y
  <2> HIDE DEF Wrong
  <2> QED BY <1>1, <1>2, NatHasLeast
<1>4. PICK d \in Dirs, p \in Pairs : p[1] = x /\ ~Exact(d, p)
  BY <1>3
<1>5. \A e \in Dirs, r \in Pairs : r[1] < p[1] => Exact(e, r)
  <2> SUFFICES ASSUME NEW e \in Dirs, NEW r \in Pairs, r[1] < p[1], ~Exact(e, r) PROVE FALSE
    OBVIOUS
  <2>1. r[1] \in Nodes
    BY DEF Pairs
  <2>2. r[1] \in Wrong
    BY <2>1
  <2>3. x <= r[1] /\ x \in Nat /\ r[1] \in Nat
    BY <1>1, <1>3, <2>2
  <2> QED BY <1>4, <2>3
<1> QED BY <1>4, <1>5, ExactFromBelow

(* Whichever way the metric was customized, every arc has the distance      *)
(* between its ends over the nodes below both, and what the supergraph or    *)
(* its filter leaves out has none.                                          *)
LEMMA ExactAtTheEnd == IInv => MetricIsExact
<1> SUFFICES ASSUME IInv, pc \in {"customized", "witness"}, NEW x \in Nodes, NEW y \in Nodes, x < y
             PROVE  IF <<x, y>> \in cch.up
                    THEN /\ metric["f"][<<x, y>>] = DistancesUpTo[x - 1][<<x, y>>]
                         /\ metric["b"][<<x, y>>] = DistancesUpTo[x - 1][<<y, x>>]
                    ELSE /\ DistancesUpTo[x - 1][<<x, y>>] = Inf
                         /\ DistancesUpTo[x - 1][<<y, x>>] = Inf
  BY DEF MetricIsExact
<1>1. GraphOK /\ PossibleOK /\ Built /\ metric \in Metrics /\ Solves(metric)
  BY SettledAtTheEnd DEF IInv, SupergraphOK, TypeOK, Built, Weighed, TrianglesAreSettled
<1>2. <<x, y>> \in Pairs /\ "f" \in Dirs /\ "b" \in Dirs
  BY DEF Pairs, Dirs
<1>3. Exact("f", <<x, y>>) /\ Exact("b", <<x, y>>)
  BY <1>1, <1>2, SettledIsExact
<1>4. /\ Along("f", <<x, y>>) = DistancesUpTo[x - 1][<<x, y>>]
      /\ Along("b", <<x, y>>) = DistancesUpTo[x - 1][<<y, x>>]
  BY DEF Along, Ends
<1>5. <<x, y>> \notin cch.up => ~Possible("f", <<x, y>>) /\ ~Possible("b", <<x, y>>)
  BY <1>1 DEF Possible, PossibleOK
<1> QED BY <1>3, <1>4, <1>5 DEF Exact

THEOREM EveryWayIsExact == Spec => []MetricIsExact
BY CustomizationInvariant, ExactAtTheEnd, PTL

-----------------------------------------------------------------------------
(* The distances over nodes below k, along a direction.                     *)
Near(d, k, x, y) == Toward(d, DistancesUpTo[k - 1], x, y)
NearBy(d, k, x, y) ==
  /\ Near(d, k, x, y) \in Nat /\ Near(d, k, x, y) <= Inf
  /\ Near(d, k, x, x) = 0 /\ Near(d, input.n, x, y) <= Near(d, k, x, y)
NearOver(d, k, x, y) ==
  Near(d, k + 1, x, y) = Near(d, k, x, y) \/ Near(d, k + 1, x, y) = Near(d, k, x, k) + Near(d, k, k, y)
Shortest(d, x, y) == Near(d, input.n, x, y)

LEMMA InputIsGraph ==
  ASSUME input \in Inputs, weight \in input.weights
  PROVE  input.n \in Nat /\ Nodes = 0 .. input.n - 1 /\ InputWeights \in Graphs(input.n)
<1>1. input.n \in Nat /\ Between(input.n) = Nodes \X Nodes
  BY NodesAreNumbers DEF Between, Nodes
<1>2. \A p \in Nodes \X Nodes : InputWeight(p[1], p[2]) \in Nat
  BY InputWeightIsNumber DEF Numbers
<1> QED BY <1>1, <1>2 DEF InputWeights, Graphs, Nodes

LEMMA TablesAreMetrics ==
  ASSUME input \in Inputs, weight \in input.weights
  PROVE  /\ Metric(input.n, TrueDistance)
         /\ \A k \in 0 .. input.n : MetricOver(input.n, DistancesUpTo[k - 1], k - 1)
         /\ \A k \in 0 .. input.n : \A x, y \in 0 .. input.n - 1 : TrueDistance[<<x, y>>] <= DistancesUpTo[k - 1][<<x, y>>]
         /\ \A k \in 0 .. input.n - 1 : DistancesUpTo[k] = Through(DistancesUpTo[k - 1], k)
<1>1. input.n \in Nat /\ InputWeights \in Graphs(input.n)
  BY InputIsGraph
<1>2. Metric(input.n, TrueDistance) /\ Within(input.n, TrueDistance, InputWeights)
  BY <1>1, DistancesAreGreatest DEF TrueDistance, DistancesUpTo, Distances
<1>3. \A k \in 0 .. input.n : k - 1 \in -1 .. input.n - 1
  BY <1>1
<1>4. \A k \in 0 .. input.n : MetricOver(input.n, DistancesUpTo[k - 1], k - 1)
  BY <1>1, <1>3, DistancesBetweenBounds DEF DistancesUpTo
<1>5. \A k \in 0 .. input.n : \A x, y \in 0 .. input.n - 1 : TrueDistance[<<x, y>>] <= DistancesUpTo[k - 1][<<x, y>>]
  <2> SUFFICES ASSUME NEW k \in 0 .. input.n
               PROVE  \A x, y \in 0 .. input.n - 1 : TrueDistance[<<x, y>>] <= DistancesUpTo[k - 1][<<x, y>>]
    OBVIOUS
  <2>1. \A d : Metric(input.n, d) /\ Within(input.n, d, InputWeights) =>
          \A x, y \in 0 .. input.n - 1 : d[<<x, y>>] <= DistancesUpTo[k - 1][<<x, y>>]
    BY <1>1, <1>3, DistancesBetweenBounds DEF DistancesUpTo
  <2> QED BY <1>2, <2>1
<1>6. \A k \in 0 .. input.n - 1 : DistancesUpTo[k] = Through(DistancesUpTo[k - 1], k)
  BY <1>1, DistancesRecur DEF DistancesUpTo
<1> QED BY <1>2, <1>4, <1>5, <1>6

LEMMA NearIsNear ==
  ASSUME input \in Inputs, weight \in input.weights, NEW d \in Dirs
  PROVE  /\ \A k \in 0 .. input.n : \A x, y \in Nodes : NearBy(d, k, x, y)
         /\ \A k \in 0 .. input.n - 1 : \A x, y \in Nodes : NearOver(d, k, x, y)
         /\ \A x, y, z \in Nodes : Shortest(d, x, z) <= Shortest(d, x, y) + Shortest(d, y, z)
<1>1. input.n \in Nat /\ Nodes = 0 .. input.n - 1
  BY InputIsGraph
<1>2. ASSUME NEW k \in 0 .. input.n, NEW x \in Nodes, NEW y \in Nodes PROVE NearBy(d, k, x, y)
  <2>1. /\ DistancesUpTo[k - 1][<<x, y>>] \in Nat /\ DistancesUpTo[k - 1][<<x, y>>] <= Inf
        /\ DistancesUpTo[k - 1][<<y, x>>] \in Nat /\ DistancesUpTo[k - 1][<<y, x>>] <= Inf
    <3>1. k - 1 \in -1 .. input.n - 1
      BY <1>1
    <3> QED BY <3>1, DistancesUpToAreNumbers DEF Numbers
  <2>2. DistancesUpTo[k - 1][<<x, x>>] = 0
    BY <1>1, TablesAreMetrics DEF MetricOver
  <2>3. /\ TrueDistance[<<x, y>>] <= DistancesUpTo[k - 1][<<x, y>>]
        /\ TrueDistance[<<y, x>>] <= DistancesUpTo[k - 1][<<y, x>>]
    BY <1>1, TablesAreMetrics
  <2> QED BY <2>1, <2>2, <2>3 DEF NearBy, Near, Toward, TrueDistance
<1>3. ASSUME NEW k \in 0 .. input.n - 1, NEW x \in Nodes, NEW y \in Nodes PROVE NearOver(d, k, x, y)
  <2>1. DistancesUpTo[k - 1] \in Table(input.n)
    <3>1. k \in 0 .. input.n
      BY <1>1
    <3> QED BY <3>1, TablesAreMetrics DEF MetricOver
  <2> PICK low : low = DistancesUpTo[k - 1]
    OBVIOUS
  <2>2. \A u, v \in Nodes : \/ DistancesUpTo[k][<<u, v>>] = low[<<u, v>>]
                            \/ DistancesUpTo[k][<<u, v>>] = low[<<u, k>>] + low[<<k, v>>]
    <3>1. DistancesUpTo[k] = Through(low, k) /\ low \in Table(input.n)
      BY <1>1, <2>1, TablesAreMetrics
    <3> SUFFICES ASSUME NEW u \in Nodes, NEW v \in Nodes
                 PROVE  \/ DistancesUpTo[k][<<u, v>>] = low[<<u, v>>]
                        \/ DistancesUpTo[k][<<u, v>>] = low[<<u, k>>] + low[<<k, v>>]
      OBVIOUS
    <3>2. u \in 0 .. input.n - 1 /\ v \in 0 .. input.n - 1 /\ input.n \in Nat
      BY <1>1
    <3>3. Through(low, k)[<<u, v>>] = low[<<u, v>>] \/ Through(low, k)[<<u, v>>] = low[<<u, k>>] + low[<<k, v>>]
      BY <3>1, <3>2, ThroughIsLeast
    <3> QED BY <3>1, <3>3
  <2>3. (k + 1) - 1 = k /\ k \in Nodes
    BY <1>1
  <2>4. \A u, v \in Nodes : low[<<u, v>>] \in Nat
    BY <2>1, <1>1 DEF Table, Between, Numbers
  <2> QED BY <2>2, <2>3, <2>4 DEF NearOver, Near, Toward
<1>4. \A x, y, z \in Nodes : Shortest(d, x, z) <= Shortest(d, x, y) + Shortest(d, y, z)
  <2> SUFFICES ASSUME NEW x \in Nodes, NEW y \in Nodes, NEW z \in Nodes
               PROVE  Shortest(d, x, z) <= Shortest(d, x, y) + Shortest(d, y, z)
    OBVIOUS
  <2>1. Metric(input.n, TrueDistance)
    BY TablesAreMetrics
  <2>2. /\ TrueDistance[<<x, z>>] <= TrueDistance[<<x, y>>] + TrueDistance[<<y, z>>]
        /\ TrueDistance[<<z, x>>] <= TrueDistance[<<z, y>>] + TrueDistance[<<y, x>>]
    BY <1>1, <2>1 DEF Metric
  <2>3. \A u, v \in Nodes : TrueDistance[<<u, v>>] \in Nat
    BY <1>1, <2>1 DEF Metric, Table, Between, Numbers
  <2> QED BY <2>2, <2>3 DEF Shortest, Near, Toward, TrueDistance
<1> QED BY <1>2, <1>3, <1>4

(* The hierarchy is built and its metric exact. *)
Ready == GraphOK /\ PossibleOK /\ TreeOK /\ pc = "customized" /\ metric \in Metrics /\ Solves(metric)

LEMMA ReadyWhenCustomized == IInv /\ TreeOK /\ pc = "customized" => Ready
BY DEF IInv, SupergraphOK, TypeOK, Weighed, PartialOK, Solves, Ready

ArcIsNear(d, x, y) ==
  IF <<x, y>> \in cch.up THEN metric[d][<<x, y>>] = Near(d, x, x, y) /\ metric[d][<<x, y>>] \in Nat
                         ELSE Near(d, x, x, y) = Inf
LEMMA ArcsAreNear ==
  ASSUME Ready
  PROVE  \A d \in Dirs, x, y \in Nodes : x < y => ArcIsNear(d, x, y)
<1> SUFFICES ASSUME NEW d \in Dirs, NEW x \in Nodes, NEW y \in Nodes, x < y
             PROVE  ArcIsNear(d, x, y)
  OBVIOUS
<1> PICK p : p = <<x, y>>
  OBVIOUS
<1>1. p \in Pairs /\ p[1] = x /\ p[2] = y
  BY DEF Pairs
<1>2. Exact(d, p)
  BY <1>1, SettledIsExact DEF Ready, Built
<1>3. Along(d, p) = Near(d, x, x, y)
  BY <1>1 DEF Along, Ends, Near, Toward
<1>4. p \in cch.up => metric[d][p] \in Nat
  BY DEF Ready, Metrics
<1>5. p \notin cch.up => ~Possible(d, p)
  BY DEF Possible, Ready, PossibleOK, Built
<1> QED BY <1>1, <1>2, <1>3, <1>4, <1>5 DEF Exact, ArcIsNear

(* What rises by no more than the arcs along every way up, and never leaves *)
(* S, rises by no more than the distance over lower nodes.                  *)
Rises(d, S, P) == \A x \in S : \A y \in Up(x) : y \in S /\ P[y] <= P[x] + metric[d][<<x, y>>]
RisesTo(d, S, P, k, x, y) == Near(d, k, x, y) < Inf => y \in S /\ P[y] <= P[x] + Near(d, k, x, y)
LEMMA ClimbBound ==
  ASSUME Ready, NEW d \in Dirs, NEW S \in SUBSET Nodes, NEW P, \A x \in S : P[x] \in Int, Rises(d, S, P)
  PROVE  \A k \in 0 .. input.n : \A x \in S, y \in Nodes : x < k /\ k <= y => RisesTo(d, S, P, k, x, y)
<1> DEFINE R(k) == \A x \in S, y \in Nodes : x < k /\ k <= y => RisesTo(d, S, P, k, x, y)
           T == {k \in Nat : k <= input.n => R(k)}
<1>1. input.n \in Nat /\ Nodes = 0 .. input.n - 1 /\ input \in Inputs /\ weight \in input.weights
  BY InputIsGraph DEF Ready, GraphOK
<1>2. /\ \A k \in 0 .. input.n : \A x, y \in Nodes : NearBy(d, k, x, y)
      /\ \A k \in 0 .. input.n - 1 : \A x, y \in Nodes : NearOver(d, k, x, y)
  BY <1>1, NearIsNear
<1>3. R(0)
  BY <1>1
<1>4. ASSUME NEW k \in Nat, k <= input.n => R(k), k + 1 <= input.n PROVE R(k + 1)
  <2> SUFFICES ASSUME NEW x \in S, NEW y \in Nodes, x < k + 1, k + 1 <= y, Near(d, k + 1, x, y) < Inf
               PROVE  y \in S /\ P[y] <= P[x] + Near(d, k + 1, x, y)
    BY DEF RisesTo
  <2>1. /\ k \in Nodes /\ k \in 0 .. input.n /\ k \in 0 .. input.n - 1 /\ x \in Nodes /\ k < y /\ k <= y /\ R(k)
        /\ x = k \/ x < k
    BY <1>1, <1>4
  <2>2. NearBy(d, k, x, y) /\ NearBy(d, k, x, k) /\ NearBy(d, k, k, y) /\ NearBy(d, k, k, k) /\ NearOver(d, k, x, y)
    BY <1>2, <2>1
  <2>3. ArcIsNear(d, k, y)
    BY <2>1, ArcsAreNear
  <2>4. k \in S /\ Near(d, k, k, y) < Inf => y \in S /\ P[y] <= P[k] + Near(d, k, k, y)
    <3> SUFFICES ASSUME k \in S, Near(d, k, k, y) < Inf PROVE y \in S /\ P[y] <= P[k] + Near(d, k, k, y)
      OBVIOUS
    <3>1. <<k, y>> \in cch.up /\ metric[d][<<k, y>>] = Near(d, k, k, y)
      BY <2>2, <2>3, InfAssumption DEF ArcIsNear
    <3>2. y \in Up(k)
      BY <3>1 DEF Up
    <3> QED BY <3>1, <3>2 DEF Rises
  <2>5. CASE x = k
    <3>1. Near(d, k + 1, k, y) = Near(d, k, k, y)
      BY <2>2, <2>5 DEF NearBy, NearOver
    <3> QED BY <3>1, <2>4, <2>5
  <2>6. CASE x < k
    <3>1. Near(d, k, x, y) < Inf => y \in S /\ P[y] <= P[x] + Near(d, k, x, y)
      BY <2>1, <2>6 DEF RisesTo
    <3>2. Near(d, k, x, k) < Inf => k \in S /\ P[k] <= P[x] + Near(d, k, x, k)
      BY <2>1, <2>6 DEF RisesTo
    <3>3. CASE Near(d, k + 1, x, y) = Near(d, k, x, y)
      BY <3>1, <3>3
    <3>4. CASE Near(d, k + 1, x, y) = Near(d, k, x, k) + Near(d, k, k, y)
      <4>1. Near(d, k, x, k) \in Nat /\ Near(d, k, k, y) \in Nat
        BY <2>2 DEF NearBy
      <4>2. Near(d, k, x, k) < Inf /\ Near(d, k, k, y) < Inf
        BY <3>4, <4>1, InfAssumption
      <4> QED BY <2>4, <3>2, <3>4, <4>1, <4>2
    <3> QED BY <2>2, <3>3, <3>4 DEF NearOver
  <2> QED BY <2>1, <2>5, <2>6
<1>5. Nat \subseteq T
  <2>1. 0 \in T
    BY <1>3
  <2>2. \A k \in Nat : k \in T => k + 1 \in T
    BY <1>4
  <2> HIDE DEF T
  <2> QED BY <2>1, <2>2, InductionOnNat
<1> QED BY <1>1, <1>5

(* A shortest way has a highest node: it goes up to it over lower ones and   *)
(* comes down.                                                               *)
Peak(d, x, y, z, total) == z \in Nodes /\ x <= z /\ y <= z /\ Below(d, x, z) + Below(Opposite(d), y, z) <= total
LEMMA BelowIsNear ==
  ASSUME input \in Inputs, weight \in input.weights, NEW d \in Dirs, NEW x \in Nodes, NEW y \in Nodes
  PROVE  /\ Below(d, x, y) = Near(d, y, x, y) /\ Below(d, x, y) \in Nat /\ Below(d, x, y) <= Inf /\ Below(d, x, x) = 0
         /\ Below(Opposite(d), x, y) = Near(d, y, y, x)
         /\ Shortest(d, x, y) <= Below(d, x, y) /\ Shortest(d, x, y) \in Nat /\ Shortest(d, x, y) <= Inf
         /\ Shortest(Opposite(d), x, y) = Shortest(d, y, x)
<1>1. input.n \in Nat /\ Nodes = 0 .. input.n - 1
  BY InputIsGraph
<1>2. y \in 0 .. input.n /\ x \in 0 .. input.n /\ input.n \in 0 .. input.n
  BY <1>1
<1>3. NearBy(d, y, x, y) /\ NearBy(d, y, y, x) /\ NearBy(d, x, x, x) /\ NearBy(d, y, y, y) /\ NearBy(d, input.n, x, y)
  BY <1>2, NearIsNear
<1> QED BY <1>3 DEF NearBy, Near, Below, Toward, Opposite, Dirs, Shortest

LEMMA HighestNode ==
  ASSUME input \in Inputs, weight \in input.weights, NEW d \in Dirs, NEW x \in Nodes, NEW y \in Nodes, Shortest(d, x, y) < Inf
  PROVE  \E z : Peak(d, x, y, z, Shortest(d, x, y))
<1> DEFINE H(k) == \A u, v \in Nodes : u < k /\ v < k /\ Near(d, k, u, v) < Inf => \E z : Peak(d, u, v, z, Near(d, k, u, v))
           T == {k \in Nat : k <= input.n => H(k)}
<1>1. input.n \in Nat /\ Nodes = 0 .. input.n - 1
  BY InputIsGraph
<1>2. /\ \A k \in 0 .. input.n : \A u, v \in Nodes : NearBy(d, k, u, v)
      /\ \A k \in 0 .. input.n - 1 : \A u, v \in Nodes : NearOver(d, k, u, v)
  BY <1>1, NearIsNear
<1>3. H(0)
  BY <1>1
<1>4. ASSUME NEW k \in Nat, k <= input.n => H(k), k + 1 <= input.n PROVE H(k + 1)
  <2> SUFFICES ASSUME NEW u \in Nodes, NEW v \in Nodes, u < k + 1, v < k + 1, Near(d, k + 1, u, v) < Inf
               PROVE  \E z : Peak(d, u, v, z, Near(d, k + 1, u, v))
    OBVIOUS
  <2>1. /\ k \in Nodes /\ k \in 0 .. input.n /\ k \in 0 .. input.n - 1 /\ H(k)
        /\ (u = k \/ u < k) /\ (v = k \/ v < k) /\ u <= k /\ v <= k
    BY <1>1, <1>4
  <2>2. /\ NearBy(d, k, u, v) /\ NearBy(d, k, u, k) /\ NearBy(d, k, k, v) /\ NearBy(d, k, k, k) /\ NearOver(d, k, u, v)
        /\ NearBy(d, k + 1, u, v)
    BY <1>1, <1>2, <2>1
  <2>3. /\ Below(d, u, k) = Near(d, k, u, k) /\ Below(Opposite(d), v, k) = Near(d, k, k, v)
    BY <2>1, BelowIsNear
  <2>4. Near(d, k, u, k) + Near(d, k, k, v) <= Near(d, k + 1, u, v) => \E z : Peak(d, u, v, z, Near(d, k + 1, u, v))
    BY <2>1, <2>3 DEF Peak
  <2>5. CASE u = k \/ v = k
    BY <2>2, <2>4, <2>5 DEF NearBy, NearOver
  <2>6. CASE u < k /\ v < k /\ Near(d, k + 1, u, v) = Near(d, k, u, v)
    BY <2>1, <2>6
  <2>7. CASE u < k /\ v < k /\ Near(d, k + 1, u, v) = Near(d, k, u, k) + Near(d, k, k, v)
    BY <2>2, <2>4, <2>7 DEF NearBy
  <2> QED BY <1>1, <2>2, <2>5, <2>6, <2>7 DEF NearOver
<1>5. Nat \subseteq T
  <2>1. 0 \in T
    BY <1>3
  <2>2. \A k \in Nat : k \in T => k + 1 \in T
    BY <1>4
  <2> HIDE DEF T
  <2> QED BY <2>1, <2>2, InductionOnNat
<1>6. x < input.n /\ y < input.n
  BY <1>1
<1> QED BY <1>1, <1>5, <1>6 DEF Shortest

(* An order names every node once: the rank is its inverse.                 *)
LEMMA OrderAndRank ==
  ASSUME input \in Inputs, order \in input.orders
  PROVE  /\ \A x \in Nodes : Rank(x) \in Nodes /\ order[Rank(x) + 1] = x
         /\ \A y \in Nodes : order[y + 1] \in Nodes /\ Rank(order[y + 1]) = y
<1>1. input.n \in Nat /\ Nodes = 0 .. input.n - 1
  BY NodesAreNumbers DEF Nodes
<1>2. DOMAIN order = 1 .. input.n /\ \A x \in Nodes : \E k \in DOMAIN order : order[k] = x
  BY InputsAssumption DEF Nodes
<1> PICK T : T = {order[k] : k \in 1 .. input.n}
  OBVIOUS
<1> PICK f : f = [k \in 1 .. input.n |-> order[k]]
  OBVIOUS
<1>3. f \in Surjection(1 .. input.n, T)
  BY DEF Surjection
<1>4. IsFiniteSet(1 .. input.n) /\ Cardinality(1 .. input.n) = input.n
  BY <1>1, FS_Interval
<1>5. IsFiniteSet(Nodes) /\ Cardinality(Nodes) = input.n
  BY <1>1, FS_Interval
<1>6. IsFiniteSet(T) /\ Cardinality(T) <= input.n
  BY <1>3, <1>4, FS_Surjection
<1>7. Nodes \subseteq T
  BY <1>2
<1>8. T = Nodes
  <2>1. Cardinality(Nodes) <= Cardinality(T) /\ (Cardinality(Nodes) = Cardinality(T) => Nodes = T)
    BY <1>6, <1>7, FS_Subset
  <2>2. Cardinality(T) \in Nat
    BY <1>6, FS_CardinalityType
  <2> QED BY <1>1, <1>5, <1>6, <2>1, <2>2
<1>9. f \in Injection(1 .. input.n, T)
  BY <1>3, <1>4, <1>5, <1>8, FS_SurjSameCardinalityImpliesInj
<1>10. \A j, k \in 1 .. input.n : order[j] = order[k] => j = k
  BY <1>9 DEF Injection, IsInjective
<1>11. \A y \in Nodes : y + 1 \in 1 .. input.n /\ order[y + 1] \in Nodes
  <2>1. \A y \in Nodes : y + 1 \in 1 .. input.n
    BY <1>1
  <2>2. \A k \in 1 .. input.n : order[k] \in Nodes
    BY <1>8
  <2> QED BY <2>1, <2>2
<1>12. ASSUME NEW x \in Nodes PROVE Rank(x) \in Nodes /\ order[Rank(x) + 1] = x
  <2> PICK i : i = CHOOSE j \in DOMAIN order : order[j] = x
    OBVIOUS
  <2>1. i \in 1 .. input.n /\ order[i] = x
    BY <1>2
  <2>2. Rank(x) = i - 1
    BY DEF Rank
  <2>3. Rank(x) + 1 = i /\ Rank(x) \in Nodes
    BY <1>1, <2>1, <2>2
  <2> QED BY <2>1, <2>3
<1>13. ASSUME NEW y \in Nodes PROVE Rank(order[y + 1]) = y
  <2> PICK x : x = order[y + 1]
    OBVIOUS
  <2>1. x \in Nodes
    BY <1>11
  <2>2. Rank(x) \in Nodes /\ order[Rank(x) + 1] = order[y + 1]
    BY <1>12, <2>1
  <2>3. Rank(x) + 1 = y + 1
    BY <1>10, <1>11, <2>2
  <2> QED BY <1>1, <2>2, <2>3
<1> QED BY <1>11, <1>12, <1>13

-----------------------------------------------------------------------------
(* Up the elimination tree. *)
Stations == Nodes \cup {NoId}
TreeRank == [y \in Stations |-> IF y = NoId THEN 0 ELSE input.n - y]
LEMMA TreeRanks ==
  ASSUME input \in Inputs, TreeOK
  PROVE  /\ input.n + 1 \in Nat /\ Nodes = 0 .. input.n - 1 /\ NoId \notin Nodes
         /\ RankedBelow(Stations, TreeRank, input.n + 1)
         /\ \A y \in Nodes : cch.parent[y] \in Stations /\ cch.parent[y] \in Lower(Stations, TreeRank, y)
<1>1. input.n \in Nat /\ Nodes = 0 .. input.n - 1 /\ NoId \notin Nodes
  BY NodesAreNumbers, NoIdAssumption DEF Nodes
<1>2. RankedBelow(Stations, TreeRank, input.n + 1)
  BY <1>1 DEF TreeRank, Stations, RankedBelow
<1>3. ASSUME NEW y \in Nodes PROVE cch.parent[y] \in Stations /\ TreeRank[cch.parent[y]] < TreeRank[y] /\ y \in Stations
  BY <1>1 DEF TreeOK, TreeRank, Stations
<1> QED BY <1>1, <1>2, <1>3 DEF Lower

AncestorsStep(stop_at) ==
  [y \in Stations |-> [f \in [Stations -> Seq(Nodes)] |-> IF y \in {stop_at, NoId} THEN <<>> ELSE <<y>> \o f[cch.parent[y]]]]
LEMMA AncestorsStepwise ==
  ASSUME input \in Inputs, TreeOK, NEW stop_at
  PROVE  /\ Stepwise(Stations, Seq(Nodes), AncestorsStep(stop_at))
         /\ Local(Stations, Seq(Nodes), TreeRank, AncestorsStep(stop_at))
<1>1. ASSUME NEW y \in Stations, NEW f \in [Stations -> Seq(Nodes)]
      PROVE  AncestorsStep(stop_at)[y][f] = IF y \in {stop_at, NoId} THEN <<>> ELSE <<y>> \o f[cch.parent[y]]
  BY DEF AncestorsStep
<1>2. Stepwise(Stations, Seq(Nodes), AncestorsStep(stop_at))
  <2> SUFFICES ASSUME NEW y \in Stations, NEW f \in [Stations -> Seq(Nodes)]
               PROVE  AncestorsStep(stop_at)[y][f] \in Seq(Nodes)
    BY DEF Stepwise
  <2>1. CASE y \in {stop_at, NoId}
    BY <1>1, <2>1, EmptySeq
  <2>2. CASE y \notin {stop_at, NoId}
    <3>1. y \in Nodes /\ cch.parent[y] \in Stations
      BY <2>2, TreeRanks DEF Stations
    <3>2. f[cch.parent[y]] \in Seq(Nodes) /\ <<y>> \in Seq(Nodes)
      BY <3>1
    <3>3. <<y>> \o f[cch.parent[y]] \in Seq(Nodes)
      BY <3>2, ConcatProperties
    <3> QED BY <1>1, <2>2, <3>3
  <2> QED BY <2>1, <2>2
<1>3. Local(Stations, Seq(Nodes), TreeRank, AncestorsStep(stop_at))
  <2> SUFFICES ASSUME NEW y \in Stations, NEW f \in [Stations -> Seq(Nodes)], NEW g \in [Stations -> Seq(Nodes)],
                      \A e \in Lower(Stations, TreeRank, y) : f[e] = g[e]
               PROVE  AncestorsStep(stop_at)[y][f] = AncestorsStep(stop_at)[y][g]
    BY DEF Local
  <2>1. y # NoId => f[cch.parent[y]] = g[cch.parent[y]]
    BY TreeRanks DEF Stations
  <2>2. CASE y \in {stop_at, NoId}
    BY <1>1, <2>2
  <2>3. CASE y \notin {stop_at, NoId}
    <3>1. AncestorsStep(stop_at)[y][f] = <<y>> \o f[cch.parent[y]] /\ AncestorsStep(stop_at)[y][g] = <<y>> \o g[cch.parent[y]]
      BY <1>1, <2>3
    <3> QED BY <2>1, <2>3, <3>1
  <2> QED BY <2>2, <2>3
<1> QED BY <1>2, <1>3

AncestorsBy(A, stop_at) == A = [y \in Stations |-> IF y \in {stop_at, NoId} THEN <<>> ELSE <<y>> \o A[cch.parent[y]]]
LEMMA AncestorsRecur ==
  ASSUME input \in Inputs, TreeOK, NEW stop_at
  PROVE  \A x \in Stations : Ancestors(x, stop_at) = IF x \in {stop_at, NoId} THEN <<>> ELSE <<x>> \o Ancestors(cch.parent[x], stop_at)
<1>1. \E A : AncestorsBy(A, stop_at)
  <2>1. Seq(Nodes) # {}
    BY EmptySeq
  <2>2. PICK A \in [Stations -> Seq(Nodes)] : \A y \in Stations : A[y] = AncestorsStep(stop_at)[y][A]
    BY <2>1, AncestorsStepwise, TreeRanks, RankedRecursion
  <2>3. \A y \in Stations : A[y] = IF y \in {stop_at, NoId} THEN <<>> ELSE <<y>> \o A[cch.parent[y]]
    BY <2>2 DEF AncestorsStep
  <2>4. A = [y \in Stations |-> A[y]]
    OBVIOUS
  <2> QED BY <2>3, <2>4 DEF AncestorsBy
<1> PICK A : A = CHOOSE B : AncestorsBy(B, stop_at)
  OBVIOUS
<1>2. AncestorsBy(A, stop_at)
  BY <1>1
<1>3. \A x : Ancestors(x, stop_at) = A[x]
  BY DEF Ancestors, Stations, AncestorsBy
<1>4. \A y \in Stations : A[y] = IF y \in {stop_at, NoId} THEN <<>> ELSE <<y>> \o A[cch.parent[y]]
  BY <1>2 DEF AncestorsBy
<1> QED BY <1>3, <1>4

LEMMA TreeInduction ==
  ASSUME input \in Inputs, TreeOK, NEW T, NoId \in T, \A y \in Nodes : cch.parent[y] \in T => y \in T
  PROVE  Stations \subseteq T
<1> DEFINE S == {k \in Nat : \A y \in Stations : TreeRank[y] < k => y \in T}
<1>1. \A y \in Stations : TreeRank[y] \in Nat /\ TreeRank[y] < input.n + 1
  BY TreeRanks DEF RankedBelow
<1>2. 0 \in S
  BY <1>1
<1>3. ASSUME NEW k \in Nat, k \in S PROVE k + 1 \in S
  <2> SUFFICES ASSUME NEW y \in Stations, TreeRank[y] < k + 1, y # NoId PROVE y \in T
    OBVIOUS
  <2>1. y \in Nodes /\ cch.parent[y] \in Stations /\ TreeRank[cch.parent[y]] < TreeRank[y]
    BY TreeRanks DEF Stations, Lower
  <2>2. TreeRank[cch.parent[y]] < k
    <3>1. TreeRank[cch.parent[y]] \in Nat /\ TreeRank[y] \in Nat
      BY <1>1, <2>1
    <3> QED BY <2>1, <3>1
  <2> QED BY <1>3, <2>1, <2>2
<1> HIDE DEF S
<1>4. input.n + 1 \in S
  BY <1>2, <1>3, TreeRanks, InductionOnNat
<1> QED BY <1>1, <1>4 DEF S

FirstInStep(S) ==
  [y \in Stations |-> [f \in [Stations -> Stations] |-> IF y \in S \cup {NoId} THEN y ELSE f[cch.parent[y]]]]
LEMMA FirstInStepwise ==
  ASSUME input \in Inputs, TreeOK, NEW S
  PROVE  /\ Stepwise(Stations, Stations, FirstInStep(S))
         /\ Local(Stations, Stations, TreeRank, FirstInStep(S))
<1>1. ASSUME NEW y \in Stations, NEW f \in [Stations -> Stations]
      PROVE  FirstInStep(S)[y][f] = IF y \in S \cup {NoId} THEN y ELSE f[cch.parent[y]]
  BY DEF FirstInStep
<1>2. Stepwise(Stations, Stations, FirstInStep(S))
  <2> SUFFICES ASSUME NEW y \in Stations, NEW f \in [Stations -> Stations]
               PROVE  FirstInStep(S)[y][f] \in Stations
    BY DEF Stepwise
  <2>1. CASE y \in S \cup {NoId}
    BY <1>1, <2>1
  <2>2. CASE y \notin S \cup {NoId}
    <3>1. y \in Nodes /\ cch.parent[y] \in Stations
      BY <2>2, TreeRanks DEF Stations
    <3> QED BY <1>1, <2>2, <3>1
  <2> QED BY <2>1, <2>2
<1>3. Local(Stations, Stations, TreeRank, FirstInStep(S))
  <2> SUFFICES ASSUME NEW y \in Stations, NEW f \in [Stations -> Stations], NEW g \in [Stations -> Stations],
                      \A e \in Lower(Stations, TreeRank, y) : f[e] = g[e]
               PROVE  FirstInStep(S)[y][f] = FirstInStep(S)[y][g]
    BY DEF Local
  <2>1. y # NoId => f[cch.parent[y]] = g[cch.parent[y]]
    BY TreeRanks DEF Stations
  <2>2. CASE y \in S \cup {NoId}
    BY <1>1, <2>2
  <2>3. CASE y \notin S \cup {NoId}
    <3>1. FirstInStep(S)[y][f] = f[cch.parent[y]] /\ FirstInStep(S)[y][g] = g[cch.parent[y]]
      BY <1>1, <2>3
    <3> QED BY <2>1, <2>3, <3>1
  <2> QED BY <2>2, <2>3
<1> QED BY <1>2, <1>3

FirstInBy(F, S) == F = [y \in Stations |-> IF y \in S \cup {NoId} THEN y ELSE F[cch.parent[y]]]
LEMMA FirstInRecurs ==
  ASSUME input \in Inputs, TreeOK, NEW S
  PROVE  \A x \in Stations : FirstIn(S, x) = IF x \in S \cup {NoId} THEN x ELSE FirstIn(S, cch.parent[x])
<1>1. \E F : FirstInBy(F, S)
  <2>1. Stations # {}
    BY DEF Stations
  <2>2. PICK F \in [Stations -> Stations] : \A y \in Stations : F[y] = FirstInStep(S)[y][F]
    BY <2>1, FirstInStepwise, TreeRanks, RankedRecursion
  <2>3. \A y \in Stations : F[y] = IF y \in S \cup {NoId} THEN y ELSE F[cch.parent[y]]
    BY <2>2 DEF FirstInStep
  <2>4. F = [y \in Stations |-> F[y]]
    OBVIOUS
  <2> QED BY <2>3, <2>4 DEF FirstInBy
<1> PICK F : F = CHOOSE B : FirstInBy(B, S)
  OBVIOUS
<1>2. FirstInBy(F, S)
  BY <1>1
<1>3. \A x : FirstIn(S, x) = F[x]
  BY DEF FirstIn, Stations, FirstInBy
<1>4. \A y \in Stations : F[y] = IF y \in S \cup {NoId} THEN y ELSE F[cch.parent[y]]
  BY <1>2 DEF FirstInBy
<1> QED BY <1>3, <1>4

(* The part of a node's path to the root that is not in a search space yet. *)
Cut(S, x) == Ancestors(x, FirstIn(S, x))
Rising(walk) == \A i, j \in DOMAIN walk : i < j => walk[i] < walk[j]
GoodCut(S, x) ==
  /\ Cut(S, x) \in Seq(Nodes) /\ Ancestors(x, NoId) \in Seq(Nodes)
  /\ \A i \in DOMAIN Cut(S, x) : x \in Nodes /\ Cut(S, x)[i] \notin S /\ x <= Cut(S, x)[i]
  /\ Rising(Cut(S, x))
  /\ Range(Cut(S, x)) \cup S = Range(Ancestors(x, NoId)) \cup S
  /\ ParentClosed(Range(Cut(S, x)) \cup S)
  /\ x \in Range(Cut(S, x)) \cup S \cup {NoId}

LEMMA OneAndMore ==
  ASSUME NEW S, NEW x, NEW one \in Seq(S), Len(one) = 1, one[1] = x, Range(one) = {x}, NEW walk \in Seq(S)
  PROVE  /\ one \o walk \in Seq(S) /\ Len(one \o walk) = Len(walk) + 1 /\ Len(walk) \in Nat
         /\ Range(one \o walk) = {x} \cup Range(walk)
         /\ DOMAIN (one \o walk) = 1 .. Len(walk) + 1 /\ DOMAIN walk = 1 .. Len(walk)
         /\ \A i \in 1 .. Len(walk) + 1 : (one \o walk)[i] = IF i = 1 THEN x ELSE walk[i - 1]
<1>1. Len(walk) \in Nat /\ DOMAIN walk = 1 .. Len(walk)
  BY LenProperties
<1>2. one \o walk \in Seq(S) /\ Len(one \o walk) = 1 + Len(walk) /\ DOMAIN (one \o walk) = 1 .. 1 + Len(walk)
  BY ConcatLen
<1>3. Range(one \o walk) = {x} \cup Range(walk)
  BY RangeConcatenation
<1>4. ASSUME NEW i \in 1 .. Len(walk) + 1 PROVE (one \o walk)[i] = IF i = 1 THEN x ELSE walk[i - 1]
  <2>1. i \in 1 .. Len(one) + Len(walk) /\ (i <= Len(one) <=> i = 1) /\ i - Len(one) = i - 1
    BY <1>1
  <2>2. (one \o walk)[i] = IF i <= Len(one) THEN one[i] ELSE walk[i - Len(one)]
    BY <2>1, ConcatAt
  <2> QED BY <2>1, <2>2
<1>5. 1 + Len(walk) = Len(walk) + 1
  BY <1>1
<1> QED BY <1>1, <1>2, <1>3, <1>4, <1>5
LEMMA OneNode ==
  ASSUME NEW x \in Nodes, NEW walk \in Seq(Nodes)
  PROVE  /\ <<x>> \o walk \in Seq(Nodes) /\ Len(<<x>> \o walk) = Len(walk) + 1 /\ Len(walk) \in Nat
         /\ Range(<<x>> \o walk) = {x} \cup Range(walk)
         /\ DOMAIN (<<x>> \o walk) = 1 .. Len(walk) + 1 /\ DOMAIN walk = 1 .. Len(walk)
         /\ \A i \in 1 .. Len(walk) + 1 : (<<x>> \o walk)[i] = IF i = 1 THEN x ELSE walk[i - 1]
<1>1. <<x>> \in Seq(Nodes) /\ Len(<<x>>) = 1 /\ Range(<<x>>) = {x} /\ <<x>>[1] = x
  BY DEF Range
<1>2. \A one : one \in Seq(Nodes) /\ Len(one) = 1 /\ one[1] = x /\ Range(one) = {x} =>
         /\ one \o walk \in Seq(Nodes) /\ Len(one \o walk) = Len(walk) + 1 /\ Len(walk) \in Nat
         /\ Range(one \o walk) = {x} \cup Range(walk)
         /\ DOMAIN (one \o walk) = 1 .. Len(walk) + 1 /\ DOMAIN walk = 1 .. Len(walk)
         /\ \A i \in 1 .. Len(walk) + 1 : (one \o walk)[i] = IF i = 1 THEN x ELSE walk[i - 1]
  BY OneAndMore
<1> QED BY <1>1, <1>2, Zenon

LEMMA CutGrows ==
  ASSUME input \in Inputs, TreeOK, NEW S \in SUBSET Nodes, ParentClosed(S), NEW y \in Nodes \ S
  PROVE  Cut(S, y) = <<y>> \o Cut(S, cch.parent[y]) /\ Ancestors(y, NoId) = <<y>> \o Ancestors(cch.parent[y], NoId)
<1>1. y \in Stations /\ y # NoId /\ cch.parent[y] \in Stations
  BY TreeRanks DEF Stations
<1>2. FirstIn(S, y) = FirstIn(S, cch.parent[y])
  BY <1>1, FirstInRecurs
<1>3. FirstIn(S, y) # y
  <2> DEFINE T == {x \in Stations : FirstIn(S, x) \in S \cup {NoId}}
  <2>1. NoId \in T
    BY FirstInRecurs DEF Stations
  <2>2. \A x \in Nodes : cch.parent[x] \in T => x \in T
    BY FirstInRecurs DEF Stations
  <2> HIDE DEF T
  <2>3. y \in T
    BY <1>1, <2>1, <2>2, TreeInduction
  <2> QED BY <1>1, <2>3 DEF T
<1>4. Ancestors(y, FirstIn(S, y)) = <<y>> \o Ancestors(cch.parent[y], FirstIn(S, y))
  BY <1>1, <1>3, AncestorsRecur
<1>5. Ancestors(y, NoId) = <<y>> \o Ancestors(cch.parent[y], NoId)
  BY <1>1, AncestorsRecur
<1> QED BY <1>2, <1>4, <1>5 DEF Cut

LEMMA CutsAreGood ==
  ASSUME input \in Inputs, TreeOK, NEW S \in SUBSET Nodes, ParentClosed(S)
  PROVE  \A y \in Stations : GoodCut(S, y)
<1> DEFINE T == {y \in Stations : GoodCut(S, y) /\ (y \in S \cup {NoId} => Range(Ancestors(y, NoId)) \subseteq S)}
<1>0. \A y \in S \cup {NoId} : y \in Stations /\ Cut(S, y) = <<>> /\ FirstIn(S, y) = y
  <2> SUFFICES ASSUME NEW y \in S \cup {NoId} PROVE y \in Stations /\ Cut(S, y) = <<>> /\ FirstIn(S, y) = y
    OBVIOUS
  <2>1. y \in Stations
    BY DEF Stations
  <2>2. FirstIn(S, y) = y
    BY <2>1, FirstInRecurs
  <2>3. Ancestors(y, y) = <<>>
    BY <2>1, AncestorsRecur
  <2> QED BY <2>1, <2>2, <2>3 DEF Cut
<1>1. \A y : y \in S \cup {NoId} /\ Range(Ancestors(y, NoId)) \subseteq S /\ Ancestors(y, NoId) \in Seq(Nodes) => y \in T
  <2> SUFFICES ASSUME NEW y \in S \cup {NoId}, Range(Ancestors(y, NoId)) \subseteq S, Ancestors(y, NoId) \in Seq(Nodes)
               PROVE  GoodCut(S, y)
    BY <1>0
  <2>1. <<>> \in Seq(Nodes) /\ DOMAIN <<>> = {} /\ Range(<<>>) = {}
    BY EmptySeq DEF Range
  <2>2. Cut(S, y) = <<>> /\ y \in S \cup {NoId}
    BY <1>0
  <2>3. Cut(S, y) \in Seq(Nodes) /\ DOMAIN Cut(S, y) = {} /\ Range(Cut(S, y)) = {}
    BY <2>1, <2>2
  <2> QED BY <2>2, <2>3 DEF GoodCut, Rising
<1>2. NoId \in T
  <2>1. Ancestors(NoId, NoId) = <<>>
    BY AncestorsRecur DEF Stations
  <2>2. Range(Ancestors(NoId, NoId)) \subseteq S /\ Ancestors(NoId, NoId) \in Seq(Nodes)
    BY <2>1, EmptySeq DEF Range
  <2> QED BY <1>1, <2>2
<1>3. ASSUME NEW y \in Nodes, cch.parent[y] \in T PROVE y \in T
  <2> PICK p : p = cch.parent[y]
    OBVIOUS
  <2>1. y \in Stations /\ y # NoId /\ p \in Stations /\ GoodCut(S, p) /\ (p # NoId => y < p)
    BY <1>3, TreeRanks DEF Stations, TreeOK
  <2>2. Ancestors(y, NoId) = <<y>> \o Ancestors(p, NoId)
    BY <2>1, AncestorsRecur
  <2>3. Ancestors(p, NoId) \in Seq(Nodes) /\ Cut(S, p) \in Seq(Nodes)
    BY <2>1 DEF GoodCut
  <2>4. Ancestors(y, NoId) \in Seq(Nodes) /\ Range(Ancestors(y, NoId)) = {y} \cup Range(Ancestors(p, NoId))
    BY <2>2, <2>3, OneNode
  <2>5. CASE y \in S
    <3>1. p \in S \cup {NoId}
      BY <2>5 DEF ParentClosed
    <3>2. Range(Ancestors(p, NoId)) \subseteq S
      BY <1>3, <3>1
    <3> QED BY <1>1, <2>4, <2>5, <3>2
  <2>6. CASE y \notin S
    <3>1. Cut(S, y) = <<y>> \o Cut(S, p)
      BY <2>6, CutGrows
    <3> PICK rest : rest = Cut(S, p)
      OBVIOUS
    <3> PICK cut : cut = Cut(S, y)
      OBVIOUS
    <3>2. /\ cut \in Seq(Nodes) /\ Range(cut) = {y} \cup Range(rest) /\ rest \in Seq(Nodes) /\ Len(rest) \in Nat
          /\ DOMAIN cut = 1 .. Len(rest) + 1 /\ DOMAIN rest = 1 .. Len(rest)
          /\ \A i \in 1 .. Len(rest) + 1 : cut[i] = IF i = 1 THEN y ELSE rest[i - 1]
      <4>1. rest \in Seq(Nodes) /\ cut = <<y>> \o rest
        BY <2>3, <3>1
      <4> QED BY <4>1, OneNode
    <3>3. \A i \in DOMAIN rest : p \in Nodes /\ rest[i] \notin S /\ p <= rest[i] /\ rest[i] \in Nodes /\ y < rest[i]
      <4>1. \A i \in DOMAIN rest : p \in Nodes /\ rest[i] \notin S /\ p <= rest[i]
        BY <2>1 DEF GoodCut
      <4>2. \A i \in DOMAIN rest : rest[i] \in Nodes
        BY <3>2
      <4>3. p \in Nodes => y < p
        BY <2>1, TreeRanks
      <4> QED BY <4>1, <4>2, <4>3, TreeRanks
    <3>4. \A i \in 1 .. Len(rest) + 1 : i # 1 => i - 1 \in DOMAIN rest
      BY <3>2
    <3>5. \A i \in DOMAIN cut : cut[i] \notin S /\ y <= cut[i]
      <4> SUFFICES ASSUME NEW i \in DOMAIN cut PROVE cut[i] \notin S /\ y <= cut[i]
        OBVIOUS
      <4>1. CASE i = 1
        BY <2>6, <3>2, <4>1, TreeRanks
      <4>2. CASE i # 1
        <5>1. cut[i] = rest[i - 1] /\ i - 1 \in DOMAIN rest
          BY <3>2, <3>4, <4>2
        <5>2. y < rest[i - 1] /\ rest[i - 1] \notin S /\ rest[i - 1] \in Nodes
          BY <3>3, <5>1
        <5> QED BY <5>1, <5>2, TreeRanks
      <4> QED BY <4>1, <4>2
    <3>6. Rising(cut)
      <4> SUFFICES ASSUME NEW i \in DOMAIN cut, NEW j \in DOMAIN cut, i < j PROVE cut[i] < cut[j]
        BY DEF Rising
      <4>1. i \in Nat /\ j \in Nat /\ j # 1 /\ cut[j] = rest[j - 1] /\ j - 1 \in DOMAIN rest
        BY <3>2, <3>4
      <4>2. CASE i = 1
        BY <3>2, <3>3, <4>1, <4>2
      <4>3. CASE i # 1
        <5>1. cut[i] = rest[i - 1] /\ i - 1 \in DOMAIN rest /\ i - 1 < j - 1
          BY <3>2, <3>4, <4>1, <4>3
        <5>2. Rising(rest)
          BY <2>1 DEF GoodCut
        <5> QED BY <4>1, <5>1, <5>2 DEF Rising
      <4> QED BY <4>2, <4>3
    <3>7. Range(rest) \cup S = Range(Ancestors(p, NoId)) \cup S /\ ParentClosed(Range(rest) \cup S) /\ p \in Range(rest) \cup S \cup {NoId}
      BY <2>1 DEF GoodCut
    <3>8. Range(cut) \cup S = Range(Ancestors(y, NoId)) \cup S
      BY <2>4, <3>2, <3>7
    <3>9. ParentClosed(Range(cut) \cup S)
      BY <3>2, <3>7 DEF ParentClosed
    <3>10. GoodCut(S, y)
      BY <2>4, <3>2, <3>5, <3>6, <3>8, <3>9 DEF GoodCut
    <3> QED BY <2>1, <2>6, <3>10
  <2> QED BY <2>5, <2>6
<1> HIDE DEF T
<1>4. Stations \subseteq T
  BY <1>2, <1>3, TreeInduction
<1> QED BY <1>4 DEF T

(* A walk over a search space. *)
GoodWalk(walk, S) == walk \in Seq(Nodes) /\ Range(walk) = S /\ Orderly(walk)
LEMMA GrowWalk ==
  ASSUME GraphOK, NEW S \in SUBSET Nodes, \A x \in S : Up(x) \subseteq S,
         NEW cut \in Seq(Nodes), Rising(cut), \A i \in DOMAIN cut : cut[i] \notin S,
         NEW walk, GoodWalk(walk, S)
  PROVE  GoodWalk(cut \o walk, Range(cut) \cup S)
<1>1. walk \in Seq(Nodes) /\ Range(walk) = S /\ Orderly(walk)
  BY DEF GoodWalk
<1>2. /\ Len(cut) \in Nat /\ Len(walk) \in Nat /\ DOMAIN cut = 1 .. Len(cut) /\ DOMAIN walk = 1 .. Len(walk)
      /\ \A i \in DOMAIN cut : cut[i] \in Nodes
      /\ \A i \in DOMAIN walk : walk[i] \in S
  BY <1>1 DEF Range
<1>3. cut \o walk \in Seq(Nodes) /\ DOMAIN (cut \o walk) = 1 .. Len(cut) + Len(walk)
  BY <1>1, ConcatLen
<1>4. Range(cut \o walk) = Range(cut) \cup S
  BY <1>1, RangeConcatenation
<1>5. \A i \in 1 .. Len(cut) + Len(walk) : (cut \o walk)[i] = IF i <= Len(cut) THEN cut[i] ELSE walk[i - Len(cut)]
  BY <1>1, ConcatAt
<1> PICK both : both = cut \o walk
  OBVIOUS
<1>6. \A y \in Nodes : y \in Nat /\ \A x \in Up(y) : x \in Nat /\ y < x
  BY NodesAreNumbers DEF GraphOK, Up, Pairs
<1>7. Orderly(both)
  <2> SUFFICES ASSUME NEW i \in DOMAIN both, NEW j \in DOMAIN both, i < j
               PROVE  both[i] # both[j] /\ both[i] \notin Up(both[j])
    BY DEF Orderly
  <2>0. i \in 1 .. Len(cut) + Len(walk) /\ j \in 1 .. Len(cut) + Len(walk)
    BY <1>3
  <2>1. CASE j <= Len(cut)
    <3>1. i \in DOMAIN cut /\ j \in DOMAIN cut /\ both[i] = cut[i] /\ both[j] = cut[j]
      BY <1>2, <1>5, <2>0, <2>1
    <3>2. cut[i] < cut[j] /\ cut[i] \in Nodes /\ cut[j] \in Nodes
      BY <1>2, <3>1 DEF Rising
    <3>3. \A a, b \in Nodes : a < b => a # b /\ a \notin Up(b)
      BY <1>6
    <3> QED BY <3>1, <3>2, <3>3
  <2>2. CASE i <= Len(cut) /\ j > Len(cut)
    <3>1. i \in DOMAIN cut /\ j - Len(cut) \in DOMAIN walk /\ both[i] = cut[i] /\ both[j] = walk[j - Len(cut)]
      BY <1>2, <1>5, <2>0, <2>2
    <3>2. both[i] \notin S /\ both[j] \in S
      BY <1>2, <3>1
    <3> QED BY <3>2
  <2>3. CASE i > Len(cut)
    <3>1. /\ i - Len(cut) \in DOMAIN walk /\ j - Len(cut) \in DOMAIN walk /\ i - Len(cut) < j - Len(cut)
          /\ both[i] = walk[i - Len(cut)] /\ both[j] = walk[j - Len(cut)]
      BY <1>2, <1>5, <2>0, <2>3
    <3>2. \A k, l \in DOMAIN walk : k < l => walk[k] # walk[l] /\ walk[k] \notin Up(walk[l])
      BY <1>1 DEF Orderly
    <3> QED BY <3>1, <3>2
  <2> QED BY <1>2, <2>0, <2>1, <2>2, <2>3
<1> QED BY <1>3, <1>4, <1>7 DEF GoodWalk

LEMMA AncestorsAreNodes ==
  ASSUME input \in Inputs, TreeOK, NEW stop_at
  PROVE  \A x \in Stations : Ancestors(x, stop_at) \in Seq(Nodes)
<1> DEFINE T == {x \in Stations : Ancestors(x, stop_at) \in Seq(Nodes)}
<1>0. <<>> \in Seq(Nodes) /\ NoId \in Stations
  BY EmptySeq DEF Stations
<1>1. NoId \in T
  BY <1>0, AncestorsRecur
<1>2. ASSUME NEW y \in Nodes, cch.parent[y] \in T PROVE y \in T
  <2>1. y \in Stations
    BY DEF Stations
  <2>2. CASE y \in {stop_at, NoId}
    BY <1>0, <2>1, <2>2, AncestorsRecur
  <2>3. CASE y \notin {stop_at, NoId}
    <3>1. Ancestors(y, stop_at) = <<y>> \o Ancestors(cch.parent[y], stop_at)
      BY <2>1, <2>3, AncestorsRecur
    <3>2. Ancestors(cch.parent[y], stop_at) \in Seq(Nodes)
      BY <1>2
    <3> QED BY <2>1, <3>1, <3>2, OneNode
  <2> QED BY <2>2, <2>3
<1> HIDE DEF T
<1>3. Stations \subseteq T
  BY <1>1, <1>2, TreeInduction
<1> QED BY <1>3 DEF T

(* The pieces of a walk. *)
Pieces(nodes, ends, W) ==
  /\ W[0] = <<>> /\ Walk(nodes, ends) = W[Len(nodes)]
  /\ \A i \in 1 .. Len(nodes) : W[i] = Ancestors(nodes[i], ends[i]) \o W[i - 1]
WalkRank(nodes) == [i \in 0 .. Len(nodes) |-> i]
WalkStep(nodes, ends) ==
  [i \in 0 .. Len(nodes) |-> [f \in [0 .. Len(nodes) -> Seq(Nodes)] |-> IF i = 0 THEN <<>> ELSE Ancestors(nodes[i], ends[i]) \o f[i - 1]]]
LEMMA WalkStepwise ==
  ASSUME input \in Inputs, TreeOK, NEW nodes \in Seq(Nodes), NEW ends
  PROVE  /\ Stepwise(0 .. Len(nodes), Seq(Nodes), WalkStep(nodes, ends))
         /\ Local(0 .. Len(nodes), Seq(Nodes), WalkRank(nodes), WalkStep(nodes, ends))
<1>0. Len(nodes) \in Nat /\ \A i \in 1 .. Len(nodes) : nodes[i] \in Stations
  BY DEF Stations
<1>1. ASSUME NEW i \in 0 .. Len(nodes), NEW f \in [0 .. Len(nodes) -> Seq(Nodes)]
      PROVE  WalkStep(nodes, ends)[i][f] = IF i = 0 THEN <<>> ELSE Ancestors(nodes[i], ends[i]) \o f[i - 1]
  BY DEF WalkStep
<1>2. Stepwise(0 .. Len(nodes), Seq(Nodes), WalkStep(nodes, ends))
  <2> SUFFICES ASSUME NEW i \in 0 .. Len(nodes), NEW f \in [0 .. Len(nodes) -> Seq(Nodes)]
               PROVE  WalkStep(nodes, ends)[i][f] \in Seq(Nodes)
    BY DEF Stepwise
  <2>1. CASE i = 0
    BY <1>1, <2>1, EmptySeq
  <2>2. CASE i # 0
    <3>1. i \in 1 .. Len(nodes) /\ i - 1 \in 0 .. Len(nodes)
      BY <1>0, <2>2
    <3>2. f[i - 1] \in Seq(Nodes) /\ Ancestors(nodes[i], ends[i]) \in Seq(Nodes)
      BY <1>0, <3>1, AncestorsAreNodes
    <3>3. Ancestors(nodes[i], ends[i]) \o f[i - 1] \in Seq(Nodes)
      BY <3>2, ConcatProperties
    <3> QED BY <1>1, <2>2, <3>3
  <2> QED BY <2>1, <2>2
<1>3. Local(0 .. Len(nodes), Seq(Nodes), WalkRank(nodes), WalkStep(nodes, ends))
  <2> SUFFICES ASSUME NEW i \in 0 .. Len(nodes),
                      NEW f \in [0 .. Len(nodes) -> Seq(Nodes)], NEW g \in [0 .. Len(nodes) -> Seq(Nodes)],
                      \A e \in Lower(0 .. Len(nodes), WalkRank(nodes), i) : f[e] = g[e]
               PROVE  WalkStep(nodes, ends)[i][f] = WalkStep(nodes, ends)[i][g]
    BY DEF Local
  <2>1. CASE i = 0
    BY <1>1, <2>1
  <2>2. CASE i # 0
    <3>1. i - 1 \in Lower(0 .. Len(nodes), WalkRank(nodes), i)
      BY <1>0, <2>2 DEF Lower, WalkRank
    <3>2. f[i - 1] = g[i - 1]
      BY <3>1
    <3> QED BY <1>1, <2>2, <3>2
  <2> QED BY <2>1, <2>2
<1> QED BY <1>2, <1>3

WalkBy(W, nodes, ends) == W = [i \in 0 .. Len(nodes) |-> IF i = 0 THEN <<>> ELSE Ancestors(nodes[i], ends[i]) \o W[i - 1]]
LEMMA WalkHasPieces ==
  ASSUME input \in Inputs, TreeOK, NEW nodes \in Seq(Nodes), NEW ends
  PROVE  \E W : Pieces(nodes, ends, W)
<1> PICK D : D = 0 .. Len(nodes)
  OBVIOUS
<1>0. Len(nodes) \in Nat
  OBVIOUS
<1>1. \E W : WalkBy(W, nodes, ends)
  <2>1. Seq(Nodes) # {} /\ Len(nodes) + 1 \in Nat
    BY <1>0, EmptySeq
  <2>2. RankedBelow(D, WalkRank(nodes), Len(nodes) + 1)
    BY <1>0 DEF RankedBelow, WalkRank
  <2>3. Stepwise(D, Seq(Nodes), WalkStep(nodes, ends)) /\ Local(D, Seq(Nodes), WalkRank(nodes), WalkStep(nodes, ends))
    BY WalkStepwise
  <2> PICK N : N = Len(nodes) + 1
    OBVIOUS
  <2> PICK rank : rank = WalkRank(nodes)
    OBVIOUS
  <2> PICK step : step = WalkStep(nodes, ends)
    OBVIOUS
  <2>7. \E W \in [D -> Seq(Nodes)] : \A i \in D : W[i] = step[i][W]
    <3>1. N \in Nat /\ RankedBelow(D, rank, N) /\ Stepwise(D, Seq(Nodes), step) /\ Local(D, Seq(Nodes), rank, step)
      BY <2>1, <2>2, <2>3
    <3>2. Seq(Nodes) # {}
      BY <2>1
    <3>3. Recurses(D, Seq(Nodes), step)
      BY <3>1, <3>2, Recursing
    <3> QED BY <3>3 DEF Recurses
  <2>4. PICK W \in [D -> Seq(Nodes)] : \A i \in D : W[i] = WalkStep(nodes, ends)[i][W]
    BY <2>7
  <2>5. \A i \in D : W[i] = IF i = 0 THEN <<>> ELSE Ancestors(nodes[i], ends[i]) \o W[i - 1]
    BY <2>4 DEF WalkStep
  <2>6. W = [i \in D |-> W[i]]
    OBVIOUS
  <2> QED BY <2>5, <2>6 DEF WalkBy
<1> PICK W : W = CHOOSE B : WalkBy(B, nodes, ends)
  OBVIOUS
<1>2. WalkBy(W, nodes, ends)
  BY <1>1
<1>3. Walk(nodes, ends) = W[Len(nodes)]
  BY DEF Walk, WalkBy
<1>4. \A i \in 0 .. Len(nodes) : W[i] = IF i = 0 THEN <<>> ELSE Ancestors(nodes[i], ends[i]) \o W[i - 1]
  BY <1>2 DEF WalkBy
<1>5. 0 \in 0 .. Len(nodes) /\ \A i \in 1 .. Len(nodes) : i \in 0 .. Len(nodes) /\ i # 0
  BY <1>0
<1> QED BY <1>3, <1>4, <1>5 DEF Pieces

LEMMA SamePieces ==
  ASSUME NEW nodes, NEW ends, NEW W, Pieces(nodes, ends, W), Len(nodes) \in Nat,
         NEW more, NEW stops, NEW V, Pieces(more, stops, V), Len(more) \in Nat, Len(nodes) <= Len(more),
         \A i \in 1 .. Len(nodes) : more[i] = nodes[i] /\ stops[i] = ends[i]
  PROVE  V[Len(nodes)] = Walk(nodes, ends)
<1> DEFINE S == {k \in Nat : k <= Len(nodes) => V[k] = W[k]}
<1>1. 0 \in S
  BY DEF Pieces
<1>2. ASSUME NEW k \in Nat, k \in S PROVE k + 1 \in S
  <2> SUFFICES ASSUME k + 1 <= Len(nodes) PROVE V[k + 1] = W[k + 1]
    OBVIOUS
  <2> PICK l : l = k + 1
    OBVIOUS
  <2>1. l \in 1 .. Len(nodes) /\ l \in 1 .. Len(more) /\ l - 1 = k /\ V[k] = W[k]
    BY <1>2
  <2>2. V[l] = Ancestors(more[l], stops[l]) \o V[l - 1] /\ W[l] = Ancestors(nodes[l], ends[l]) \o W[l - 1]
    BY <2>1 DEF Pieces
  <2>3. more[l] = nodes[l] /\ stops[l] = ends[l]
    BY <2>1
  <2> QED BY <2>1, <2>2, <2>3
<1> HIDE DEF S
<1>3. Len(nodes) \in S
  BY <1>1, <1>2, InductionOnNat
<1> QED BY <1>3 DEF S, Pieces

LEMMA WalkAppend ==
  ASSUME input \in Inputs, TreeOK, NEW nodes \in Seq(Nodes), NEW ends \in Seq(Stations), Len(ends) = Len(nodes),
         NEW s \in Nodes, NEW stop \in Stations
  PROVE  Walk(Append(nodes, s), Append(ends, stop)) = Ancestors(s, stop) \o Walk(nodes, ends)
<1> PICK more : more = Append(nodes, s)
  OBVIOUS
<1> PICK stops : stops = Append(ends, stop)
  OBVIOUS
<1> PICK n : n = Len(nodes)
  OBVIOUS
<1>1. /\ more \in Seq(Nodes) /\ n \in Nat /\ Len(more) = n + 1 /\ more[n + 1] = s
      /\ \A i \in 1 .. n : more[i] = nodes[i]
  BY AppendProperties
<1>2. stops[n + 1] = stop /\ \A i \in 1 .. n : stops[i] = ends[i]
  BY AppendProperties
<1>3. PICK W : Pieces(nodes, ends, W)
  BY WalkHasPieces
<1>4. PICK V : Pieces(more, stops, V)
  BY <1>1, WalkHasPieces
<1>5. V[n] = Walk(nodes, ends)
  <2>1. Len(more) \in Nat /\ Len(nodes) \in Nat /\ Len(nodes) <= Len(more)
    BY <1>1
  <2>2. \A i \in 1 .. Len(nodes) : more[i] = nodes[i] /\ stops[i] = ends[i]
    BY <1>1, <1>2
  <2>3. V[Len(nodes)] = Walk(nodes, ends)
    BY <1>3, <1>4, <2>1, <2>2, SamePieces
  <2> QED BY <2>3
<1>6. V[n + 1] = Ancestors(s, stop) \o V[n]
  <2>1. n + 1 \in 1 .. Len(more) /\ (n + 1) - 1 = n
    BY <1>1
  <2>2. V[n + 1] = Ancestors(more[n + 1], stops[n + 1]) \o V[(n + 1) - 1]
    BY <1>4, <2>1 DEF Pieces
  <2> QED BY <1>1, <1>2, <2>1, <2>2
<1>7. Walk(more, stops) = V[n + 1]
  BY <1>1, <1>4 DEF Pieces
<1> QED BY <1>5, <1>6, <1>7

LEMMA EmptyWalk ==
  ASSUME input \in Inputs, TreeOK
  PROVE  Walk(<<>>, <<>>) = <<>> /\ GoodWalk(<<>>, {}) /\ ParentClosed({})
<1>1. <<>> \in Seq(Nodes) /\ Len(<<>>) = 0 /\ DOMAIN <<>> = {} /\ Range(<<>>) = {}
  BY EmptySeq DEF Range
<1>2. PICK W : Pieces(<<>>, <<>>, W)
  BY <1>1, WalkHasPieces
<1>3. Walk(<<>>, <<>>) = <<>>
  BY <1>1, <1>2 DEF Pieces
<1> QED BY <1>1, <1>3 DEF GoodWalk, Orderly, ParentClosed

(* One more node.                                                           *)
LongerWalk(S, walk, s) ==
  /\ GoodWalk(Ancestors(s, FirstIn(S, s)) \o walk, Range(Ancestors(s, FirstIn(S, s))) \cup S)
  /\ ParentClosed(Range(Ancestors(s, FirstIn(S, s))) \cup S)
  /\ s \in Range(Ancestors(s, FirstIn(S, s))) \cup S
  /\ Range(Ancestors(s, FirstIn(S, s))) \cup S = Range(Ancestors(s, NoId)) \cup S
  /\ Range(Ancestors(s, FirstIn(S, s))) \cup S \in SUBSET Nodes
LEMMA WalkOfOneMore ==
  ASSUME GraphOK, TreeOK, pc # "contract", NEW S \in SUBSET Nodes, ParentClosed(S), NEW walk, GoodWalk(walk, S), NEW s \in Nodes
  PROVE  LongerWalk(S, walk, s)
<1>1. input \in Inputs /\ s \in Stations /\ s # NoId
  BY NodesAreNumbers, NoIdAssumption DEF GraphOK, Stations
<1>2. GoodCut(S, s)
  BY <1>1, CutsAreGood
<1> PICK cut : cut = Cut(S, s)
  OBVIOUS
<1>3. /\ cut \in Seq(Nodes) /\ \A i \in DOMAIN cut : cut[i] \notin S
      /\ Rising(cut) /\ Range(cut) \cup S = Range(Ancestors(s, NoId)) \cup S
      /\ ParentClosed(Range(cut) \cup S) /\ s \in Range(cut) \cup S \cup {NoId}
  BY <1>2 DEF GoodCut
<1>4. \A x \in S : Up(x) \subseteq S
  BY DEF TreeOK
<1>5. GoodWalk(cut \o walk, Range(cut) \cup S)
  BY <1>3, <1>4, GrowWalk
<1>6. Range(cut) \cup S \in SUBSET Nodes
  BY <1>5 DEF GoodWalk, Range
<1> QED BY <1>1, <1>3, <1>5, <1>6 DEF Cut, LongerWalk

(* The walk over all nodes of a list.                                       *)
Grows(nodes, ends, space) ==
  /\ space[0] = {}
  /\ \A i \in 1 .. Len(nodes) : ends[i] = FirstIn(space[i - 1], nodes[i]) /\ space[i] = Range(Ancestors(nodes[i], NoId)) \cup space[i - 1]
LEMMA WalkGrows ==
  ASSUME GraphOK, TreeOK, pc # "contract", NEW nodes \in Seq(Nodes), NEW ends, NEW space, Grows(nodes, ends, space)
  PROVE  /\ GoodWalk(Walk(nodes, ends), space[Len(nodes)]) /\ ParentClosed(space[Len(nodes)])
         /\ Range(nodes) \subseteq space[Len(nodes)]
<1>0. input \in Inputs /\ Len(nodes) \in Nat /\ \A i \in 1 .. Len(nodes) : nodes[i] \in Nodes
  BY DEF GraphOK
<1>1. PICK W : Pieces(nodes, ends, W)
  BY <1>0, WalkHasPieces
<1> DEFINE Fine(k) == /\ GoodWalk(W[k], space[k]) /\ ParentClosed(space[k]) /\ space[k] \in SUBSET Nodes
                      /\ \A i \in 1 .. k : nodes[i] \in space[k]
           S == {k \in Nat : k <= Len(nodes) => Fine(k)}
<1>2. 0 \in S
  <2>1. W[0] = <<>> /\ space[0] = {}
    BY <1>1 DEF Pieces, Grows
  <2>2. GoodWalk(<<>>, {}) /\ ParentClosed({})
    BY <1>0, EmptyWalk
  <2>3. GoodWalk(W[0], space[0]) /\ ParentClosed(space[0])
    BY <2>1, <2>2
  <2>4. space[0] \in SUBSET Nodes /\ \A i \in 1 .. 0 : nodes[i] \in space[0]
    BY <2>1
  <2> QED BY <2>3, <2>4
<1>3. ASSUME NEW k \in Nat, k \in S PROVE k + 1 \in S
  <2> SUFFICES ASSUME k + 1 <= Len(nodes) PROVE Fine(k + 1)
    OBVIOUS
  <2> PICK l : l = k + 1
    OBVIOUS
  <2>1. l \in 1 .. Len(nodes) /\ l - 1 = k /\ Fine(k)
    BY <1>0, <1>3
  <2>2. W[l] = Ancestors(nodes[l], ends[l]) \o W[k]
    BY <1>1, <2>1 DEF Pieces
  <2>3. ends[l] = FirstIn(space[k], nodes[l]) /\ space[l] = Range(Ancestors(nodes[l], NoId)) \cup space[k]
    BY <2>1 DEF Grows
  <2> PICK s : s = nodes[l]
    OBVIOUS
  <2> PICK walk : walk = W[k]
    OBVIOUS
  <2> PICK old : old = space[k]
    OBVIOUS
  <2>4. s \in Nodes /\ GoodWalk(walk, old) /\ ParentClosed(old) /\ old \in SUBSET Nodes /\ \A i \in 1 .. k : nodes[i] \in old
    BY <1>0, <2>1
  <2>5. LongerWalk(old, walk, s)
    BY <2>4, WalkOfOneMore
  <2>6. space[l] = Range(Ancestors(s, FirstIn(old, s))) \cup old /\ W[l] = Ancestors(s, FirstIn(old, s)) \o walk
    BY <2>2, <2>3, <2>5 DEF LongerWalk
  <2>7. GoodWalk(W[l], space[l]) /\ ParentClosed(space[l]) /\ space[l] \in SUBSET Nodes /\ s \in space[l] /\ old \subseteq space[l]
    BY <2>5, <2>6 DEF LongerWalk
  <2>8. \A i \in 1 .. l : i = l \/ i \in 1 .. k
    OBVIOUS
  <2>9. \A i \in 1 .. l : nodes[i] \in space[l]
    BY <2>4, <2>7, <2>8
  <2> QED BY <2>7, <2>9
<1> HIDE DEF S
<1>4. Len(nodes) \in S
  BY <1>0, <1>2, <1>3, InductionOnNat
<1>5. Fine(Len(nodes))
  BY <1>0, <1>4 DEF S
<1>6. Walk(nodes, ends) = W[Len(nodes)]
  BY <1>1 DEF Pieces
<1>7. Range(nodes) \subseteq space[Len(nodes)]
  BY <1>0, <1>5 DEF Range
<1> QED BY <1>5, <1>6, <1>7
-----------------------------------------------------------------------------
(* The perfect witness search. *)

(* A way over more nodes is no longer, and a shortest way from x first rises *)
(* to a node w above it over lower ones: that is one exact arc.             *)
LEMMA NearShrinks ==
  ASSUME input \in Inputs, weight \in input.weights, NEW d \in Dirs, NEW k \in 0 .. input.n - 1, NEW x \in Nodes, NEW y \in Nodes
  PROVE  Near(d, k + 1, x, y) <= Near(d, k, x, y) /\ Near(d, k + 1, x, y) <= Near(d, k, x, k) + Near(d, k, k, y)
<1>1. input.n \in Nat /\ Nodes = 0 .. input.n - 1
  BY InputIsGraph
<1>2. k \in 0 .. input.n /\ (k + 1) - 1 = k /\ k \in Nodes
  BY <1>1
<1> PICK low : low = DistancesUpTo[k - 1]
  OBVIOUS
<1>3. low \in Table(input.n) /\ DistancesUpTo[k] = Through(low, k)
  BY <1>2, TablesAreMetrics DEF MetricOver
<1>4. \A u, v \in 0 .. input.n - 1 : /\ Through(low, k)[<<u, v>>] <= low[<<u, v>>]
                                     /\ Through(low, k)[<<u, v>>] <= low[<<u, k>>] + low[<<k, v>>]
  BY <1>1, <1>3, ThroughIsLeast
<1>5. \A u, v \in Nodes : low[<<u, v>>] \in Nat
  BY <1>1, <1>3 DEF Table, Between, Numbers
<1> QED BY <1>1, <1>2, <1>3, <1>4, <1>5 DEF Near, Toward

FirstRise(d, k, x, y, w) ==
  /\ w \in Nodes /\ x < w /\ (w < k \/ w = y)
  /\ Near(d, x, x, w) + Near(d, k, w, y) <= Near(d, k, x, y)
LEMMA RisesFirst ==
  ASSUME input \in Inputs, weight \in input.weights, NEW d \in Dirs, NEW x \in Nodes
  PROVE  \A k \in x .. input.n : \A y \in Nodes : x < y => \E w : FirstRise(d, k, x, y, w)
<1> DEFINE R(k) == \A y \in Nodes : x < y => \E w : FirstRise(d, k, x, y, w)
           T == {j \in Nat : x + j <= input.n => R(x + j)}
<1>1. input.n \in Nat /\ Nodes = 0 .. input.n - 1 /\ x \in Nat
  BY InputIsGraph
<1>2. /\ \A k \in 0 .. input.n : \A u, v \in Nodes : NearBy(d, k, u, v)
      /\ \A k \in 0 .. input.n - 1 : \A u, v \in Nodes : NearOver(d, k, u, v)
  BY <1>1, NearIsNear
<1>3. 0 \in T
  <2> SUFFICES ASSUME NEW y \in Nodes, x < y PROVE FirstRise(d, x, x, y, y)
    BY <1>1
  <2>1. NearBy(d, x, y, y) /\ NearBy(d, x, x, y)
    BY <1>1, <1>2
  <2> QED BY <2>1, <1>1 DEF FirstRise, NearBy
<1>4. ASSUME NEW j \in Nat, j \in T PROVE j + 1 \in T
  <2> SUFFICES ASSUME x + (j + 1) <= input.n PROVE R(x + (j + 1))
    OBVIOUS
  <2> PICK k : k = x + j
    OBVIOUS
  <2>1. k \in 0 .. input.n - 1 /\ k \in 0 .. input.n /\ k \in Nodes /\ x <= k /\ x + (j + 1) = k + 1 /\ R(k)
    BY <1>1, <1>4
  <2> SUFFICES ASSUME NEW y \in Nodes, x < y PROVE \E w : FirstRise(d, k + 1, x, y, w)
    BY <2>1
  <2>2. NearBy(d, k, x, y) /\ NearBy(d, k, x, k) /\ NearBy(d, k, k, y) /\ NearBy(d, k, k, k) /\ NearOver(d, k, x, y)
    BY <1>2, <2>1
  <2>3. CASE Near(d, k + 1, x, y) = Near(d, k, x, y)
    <3>1. PICK w : FirstRise(d, k, x, y, w)
      BY <2>1
    <3>2. w \in Nodes /\ x < w /\ (w < k + 1 \/ w = y)
      BY <3>1, <2>1, <1>1 DEF FirstRise
    <3>3. Near(d, k + 1, w, y) <= Near(d, k, w, y)
      BY <3>2, <2>1, NearShrinks
    <3>4. k + 1 \in 0 .. input.n /\ x \in 0 .. input.n
      BY <2>1, <1>1
    <3>5. NearBy(d, k + 1, w, y) /\ NearBy(d, k, w, y) /\ NearBy(d, x, x, w)
      BY <3>2, <3>4, <2>1, <1>2
    <3>6. Near(d, x, x, w) + Near(d, k + 1, w, y) <= Near(d, k + 1, x, y)
      BY <2>2, <2>3, <3>1, <3>3, <3>5 DEF FirstRise, NearBy
    <3> QED BY <3>2, <3>6 DEF FirstRise
  <2>4. CASE x < k /\ Near(d, k + 1, x, y) = Near(d, k, x, k) + Near(d, k, k, y)
    <3>1. PICK w : FirstRise(d, k, x, k, w)
      BY <2>1, <2>4
    <3>2. w < k + 1 /\ w \in Nodes /\ x < w
      BY <3>1, <2>1, <1>1 DEF FirstRise
    <3>3. Near(d, k + 1, w, y) <= Near(d, k, w, k) + Near(d, k, k, y)
      BY <3>2, <2>1, NearShrinks
    <3>4. k + 1 \in 0 .. input.n /\ x \in 0 .. input.n
      BY <2>1, <1>1
    <3>5. NearBy(d, k + 1, w, y) /\ NearBy(d, k, w, k) /\ NearBy(d, x, x, w)
      BY <3>2, <3>4, <2>1, <1>2
    <3>6. Near(d, x, x, w) + Near(d, k + 1, w, y) <= Near(d, k + 1, x, y)
      BY <2>2, <2>4, <3>1, <3>3, <3>5 DEF FirstRise, NearBy
    <3> QED BY <3>2, <3>6 DEF FirstRise
  <2>5. x = k => Near(d, k + 1, x, y) = Near(d, k, x, y)
    BY <2>2 DEF NearBy, NearOver
  <2> QED BY <2>1, <2>2, <2>3, <2>4, <2>5, <1>1 DEF NearOver
<1>5. Nat \subseteq T
  <2> HIDE DEF T
  <2> QED BY <1>3, <1>4, InductionOnNat
<1> SUFFICES ASSUME NEW k \in x .. input.n PROVE R(k)
  OBVIOUS
<1>6. k - x \in Nat /\ x + (k - x) = k /\ k <= input.n
  BY <1>1
<1>7. k - x \in T
  BY <1>5, <1>6
<1> QED BY <1>6, <1>7

(* What the weights between the search and its end are compared with.       *)
LEMMA WeightsAreNear ==
  ASSUME input \in Inputs, weight \in input.weights, NEW d \in Dirs, NEW x \in Nodes, NEW y \in Nodes
  PROVE  /\ ExactWeight(d, <<x, y>>) = Near(d, x, x, y) /\ TrueWeight(d, <<x, y>>) = Shortest(d, x, y)
         /\ Toward(d, TrueDistance, x, y) = Shortest(d, x, y) /\ Toward(Opposite(d), TrueDistance, x, y) = Shortest(d, y, x)
         /\ Near(d, x, x, y) \in Nat /\ Near(d, x, x, y) <= Inf /\ Shortest(d, x, y) \in Nat /\ Shortest(d, x, y) <= Inf
         /\ Shortest(d, x, y) <= Near(d, x, x, y) /\ Shortest(d, x, x) = 0
<1>1. input.n \in Nat /\ Nodes = 0 .. input.n - 1 /\ x \in 0 .. input.n /\ input.n \in 0 .. input.n
  BY InputIsGraph
<1>2. NearBy(d, x, x, y) /\ NearBy(d, input.n, x, y)
  BY <1>1, NearIsNear
<1>3. Near(d, input.n, x, y) = Toward(d, TrueDistance, x, y)
  BY DEF Near, TrueDistance
<1>4. Toward(Opposite(d), TrueDistance, x, y) = Toward(d, TrueDistance, y, x)
  BY DEF Toward, Opposite, Dirs
<1>5. Toward(d, TrueDistance, y, x) = Shortest(d, y, x)
  BY DEF Near, TrueDistance, Shortest
<1> QED BY <1>2, <1>3, <1>4, <1>5 DEF NearBy, Shortest, ExactWeight, TrueWeight, Near

(* The corners of a triangle, and its arcs.                                 *)
LEMMA TriangleArcs ==
  ASSUME input \in Inputs, cch.up \subseteq Pairs, NEW t \in TrianglesOfArcs
  PROVE  /\ t[1] \in Nodes /\ t[2] \in Nodes /\ t[3] \in Nodes /\ t[1] < t[2] /\ t[2] < t[3] /\ t = <<t[1], t[2], t[3]>>
         /\ <<t[1], t[2]>> \in cch.up /\ <<t[1], t[3]>> \in cch.up /\ <<t[2], t[3]>> \in cch.up
BY DEF TrianglesOfArcs, Pairs

(* Once all triangles over a node are searched its arcs have the distances: *)
(* a shortest way that is not the arc itself first rises over an exact arc   *)
(* to another node, and the supergraph has the third arc.                   *)
LEMMA SearchedIsTrue ==
  ASSUME GraphOK, PossibleOK, Built, ExactOK, ~filtered, NEW m, Lowered(m), NEW x \in Nodes,
         \A t \in TrianglesOfArcs : t[1] = x => Searched(m, t)
  PROVE  \A d \in Dirs : \A y \in Up(x) : m[d][<<x, y>>] = Shortest(d, x, y)
<1> SUFFICES ASSUME NEW d \in Dirs, NEW y \in Up(x) PROVE m[d][<<x, y>>] = Shortest(d, x, y)
  OBVIOUS
<1>1. input \in Inputs /\ weight \in input.weights /\ input.n \in Nat /\ Nodes = 0 .. input.n - 1 /\ cch.up \subseteq Pairs
  BY InputIsGraph DEF GraphOK
<1>2. y \in Nodes /\ <<x, y>> \in cch.up /\ x < y
  BY <1>1 DEF Up, Pairs
<1>3. Shortest(d, x, y) <= m[d][<<x, y>>] /\ m[d][<<x, y>>] <= Near(d, x, x, y) /\ m[d][<<x, y>>] \in Nat
  BY <1>1, <1>2, WeightsAreNear DEF Lowered, Metrics
<1>4. Shortest(d, x, y) \in Nat /\ Shortest(d, x, y) <= Inf /\ Near(d, x, x, y) \in Nat /\ Near(d, x, x, y) <= Inf
  BY <1>1, <1>2, WeightsAreNear
<1>5. CASE Shortest(d, x, y) = Inf
  BY <1>3, <1>4, <1>5, InfAssumption
<1>6. CASE Shortest(d, x, y) < Inf
  <2>1. input.n \in x .. input.n
    BY <1>1
  <2>2. PICK w : FirstRise(d, input.n, x, y, w)
    BY <2>1, <1>1, <1>2, RisesFirst
  <2>3. w \in Nodes /\ x < w /\ Near(d, x, x, w) + Shortest(d, w, y) <= Shortest(d, x, y)
    BY <2>2 DEF FirstRise, Shortest
  <2>4. /\ Near(d, x, x, w) \in Nat /\ Shortest(d, w, y) \in Nat /\ ExactWeight(d, <<x, w>>) = Near(d, x, x, w)
        /\ Toward(d, TrueDistance, w, y) = Shortest(d, w, y)
    BY <2>3, <1>1, <1>2, WeightsAreNear
  <2>5. <<x, w>> \in cch.up
    <3>1. <<x, w>> \in Pairs
      BY <2>3 DEF Pairs
    <3>2. ExactWeight(d, <<x, w>>) # Inf
      BY <2>3, <2>4, <1>4, <1>6, InfAssumption
    <3> QED BY <3>1, <3>2 DEF ExactOK
  <2>6. \A u, v \in Nodes : u < v /\ <<x, u>> \in cch.up /\ <<x, v>> \in cch.up => <<u, v>> \in cch.up
    BY DEF PossibleOK, Possible, Dirs, Opposite
  <2>7. CASE w = y
    BY <2>3, <2>4, <2>7, <1>3, <1>4
  <2>8. CASE w < y
    <3>1. PICK t : t = <<x, w, y>>
      OBVIOUS
    <3>2. t \in TrianglesOfArcs /\ t[1] = x /\ t[2] = w /\ t[3] = y
      BY <3>1, <2>3, <2>5, <2>6, <2>8, <1>2 DEF TrianglesOfArcs
    <3>3. m[d][<<x, y>>] <= ExactWeight(d, <<x, w>>) + Toward(d, TrueDistance, w, y)
      BY <3>2 DEF Searched
    <3> QED BY <3>3, <2>3, <2>4, <1>3, <1>4
  <2>9. CASE y < w
    <3>1. PICK t : t = <<x, y, w>>
      OBVIOUS
    <3>2. t \in TrianglesOfArcs /\ t[1] = x /\ t[2] = y /\ t[3] = w
      BY <3>1, <2>3, <2>5, <2>6, <2>9, <1>2 DEF TrianglesOfArcs
    <3>3. m[d][<<x, y>>] <= ExactWeight(d, <<x, w>>) + Toward(d, TrueDistance, w, y)
      BY <3>2 DEF Searched
    <3> QED BY <3>3, <2>3, <2>4, <1>3, <1>4
  <2> QED BY <2>3, <2>7, <2>8, <2>9, <1>1, <1>2
<1> QED BY <1>4, <1>5, <1>6, InfAssumption

(* A way over the third node of a triangle is no shorter than the distance. *)
LEMMA TriangleBounds ==
  ASSUME GraphOK, NEW m, Lowered(m), NEW t \in TrianglesOfArcs, NEW d \in Dirs
  PROVE  /\ TrueWeight(d, <<t[1], t[2]>>) <= m[d][<<t[1], t[3]>>] + m[Opposite(d)][<<t[2], t[3]>>]
         /\ TrueWeight(d, <<t[1], t[3]>>) <= m[d][<<t[1], t[2]>>] + m[d][<<t[2], t[3]>>]
<1>1. input \in Inputs /\ weight \in input.weights /\ cch.up \subseteq Pairs
  BY DEF GraphOK
<1> PICK x, y, z : x = t[1] /\ y = t[2] /\ z = t[3]
  OBVIOUS
<1>2. /\ x \in Nodes /\ y \in Nodes /\ z \in Nodes
      /\ <<x, y>> \in cch.up /\ <<x, z>> \in cch.up /\ <<y, z>> \in cch.up
  BY <1>1, TriangleArcs
<1>3. Opposite(d) \in Dirs
  BY DEF Opposite, Dirs
<1>4. /\ Shortest(d, x, y) <= m[d][<<x, y>>] /\ Shortest(d, x, z) <= m[d][<<x, z>>] /\ Shortest(d, y, z) <= m[d][<<y, z>>]
      /\ Shortest(Opposite(d), y, z) <= m[Opposite(d)][<<y, z>>]
      /\ TrueWeight(d, <<x, y>>) = Shortest(d, x, y) /\ TrueWeight(d, <<x, z>>) = Shortest(d, x, z)
  BY <1>1, <1>2, <1>3, WeightsAreNear DEF Lowered
<1>5. Shortest(Opposite(d), y, z) = Shortest(d, z, y)
  BY <1>1, <1>2, BelowIsNear
<1>6. Shortest(d, x, y) <= Shortest(d, x, z) + Shortest(d, z, y) /\ Shortest(d, x, z) <= Shortest(d, x, y) + Shortest(d, y, z)
  BY <1>1, <1>2, NearIsNear
<1>7. /\ Shortest(d, x, y) \in Nat /\ Shortest(d, x, z) \in Nat /\ Shortest(d, y, z) \in Nat /\ Shortest(d, z, y) \in Nat
      /\ m[d][<<x, y>>] \in Nat /\ m[d][<<x, z>>] \in Nat /\ m[d][<<y, z>>] \in Nat /\ m[Opposite(d)][<<y, z>>] \in Nat
  BY <1>1, <1>2, <1>3, WeightsAreNear DEF Lowered, Metrics
<1> QED BY <1>4, <1>5, <1>6, <1>7

(* What one comparison does to the weights and the arcs that are kept.      *)
Search(s) == s = [m |-> s.m, keep |-> s.keep] /\ Lowered(s.m) /\ s.keep = Kept(s.m)
NoMore(m, old) == \A d \in Dirs, p \in cch.up : m[d][p] <= old[d][p]
LEMMA BeatKeeps ==
  ASSUME GraphOK, NEW s, Search(s), NEW d \in Dirs, NEW p \in cch.up, NEW via \in Nat, TrueWeight(d, p) <= via,
         NEW r, r = Beat(s, d, p, via)
  PROVE  Search(r) /\ NoMore(r.m, s.m) /\ r.m[d][p] <= via
<1> PICK m, keep : m = s.m /\ keep = s.keep
  OBVIOUS
<1>1. m \in Metrics /\ m[d][p] \in Nat /\ \A e \in Dirs, x \in cch.up : m[e][x] \in Nat
  BY DEF Search, Lowered, Metrics
<1>2. CASE m[d][p] <= via
  <2>1. r = s
    BY <1>1, <1>2 DEF Beat
  <2> QED BY <1>1, <1>2, <2>1 DEF NoMore
<1>3. CASE m[d][p] > via
  <2> PICK m1 : m1 = [m EXCEPT ![d][p] = via]
    OBVIOUS
  <2> PICK keep1 : keep1 = [keep EXCEPT ![d] = @ \ {p}]
    OBVIOUS
  <2>1. r = [m |-> m1, keep |-> keep1]
    BY <1>3 DEF Beat
  <2>2. m1 \in Metrics /\ \A e \in Dirs, x \in cch.up : m1[e][x] = IF e = d /\ x = p THEN via ELSE m[e][x]
    BY <1>1 DEF Metrics
  <2>3. Lowered(m1)
    <3>1. \A e \in Dirs, x \in cch.up : ExactWeight(e, x) \in Nat /\ TrueWeight(e, x) \in Nat
      <4> SUFFICES ASSUME NEW e \in Dirs, NEW x \in cch.up PROVE ExactWeight(e, x) \in Nat /\ TrueWeight(e, x) \in Nat
        OBVIOUS
      <4>1. x[1] \in Nodes /\ x[2] \in Nodes /\ x = <<x[1], x[2]>>
        BY DEF GraphOK, Pairs
      <4> QED BY <4>1, WeightsAreNear DEF GraphOK
    <3>2. \A e \in Dirs, x \in cch.up : TrueWeight(e, x) <= m[e][x] /\ m[e][x] <= ExactWeight(e, x)
      BY DEF Search, Lowered
    <3>3. \A e \in Dirs, x \in cch.up : TrueWeight(e, x) <= m1[e][x] /\ m1[e][x] <= ExactWeight(e, x)
      BY <1>1, <1>3, <2>2, <3>1, <3>2
    <3> QED BY <2>2, <3>3 DEF Lowered
  <2>4. NoMore(m1, m)
    BY <1>1, <1>3, <2>2 DEF NoMore
  <2>5. keep1 = Kept(m1)
    <3>1. keep = Kept(m)
      BY DEF Search
    <3>2. ExactWeight(d, p) \in Nat /\ m[d][p] <= ExactWeight(d, p)
      <4>1. p[1] \in Nodes /\ p[2] \in Nodes /\ p = <<p[1], p[2]>>
        BY DEF GraphOK, Pairs
      <4>2. ExactWeight(d, p) \in Nat
        BY <4>1, WeightsAreNear DEF GraphOK
      <4> QED BY <4>2 DEF Search, Lowered
    <3>3. p \notin Kept(m1)[d]
      BY <1>1, <1>3, <2>2, <3>2 DEF Kept
    <3>4. \A e \in Dirs, x \in cch.up : e # d \/ x # p => (x \in Kept(m1)[e] <=> x \in Kept(m)[e])
      BY <2>2 DEF Kept
    <3>5. DOMAIN keep1 = Dirs /\ \A e \in Dirs : keep1[e] = IF e = d THEN keep[e] \ {p} ELSE keep[e]
      BY <3>1 DEF Kept
    <3>6. \A e \in Dirs : Kept(m)[e] \subseteq cch.up /\ Kept(m1)[e] \subseteq cch.up
      BY DEF Kept
    <3>7. \A e \in Dirs : keep1[e] = Kept(m1)[e]
      <4> SUFFICES ASSUME NEW e \in Dirs PROVE keep1[e] = Kept(m1)[e]
        OBVIOUS
      <4>1. \A x : x \in keep1[e] <=> x \in Kept(m1)[e]
        BY <3>1, <3>3, <3>4, <3>5, <3>6
      <4>2. keep1[e] \subseteq cch.up
        BY <3>1, <3>5, <3>6
      <4> QED BY <4>1, <4>2, <3>6
    <3>8. keep1 = [e \in Dirs |-> keep1[e]] /\ Kept(m1) = [e \in Dirs |-> Kept(m1)[e]]
      BY <3>5, <3>1 DEF Kept
    <3> QED BY <3>7, <3>8
  <2>6. r.m = m1 /\ r.keep = keep1 /\ m1[d][p] = via
    BY <2>1, <2>2
  <2>7. Search(r)
    BY <2>1, <2>3, <2>5, <2>6 DEF Search
  <2> QED BY <2>4, <2>6, <2>7
<1> QED BY <1>1, <1>2, <1>3
LEMMA RankFrame == ASSUME UNCHANGED order PROVE \A x : Rank(x)' = Rank(x)
BY DEF Rank

LEMMA DistanceFrame ==
  ASSUME UNCHANGED <<input, order, weight>>
  PROVE  /\ DistancesUpTo' = DistancesUpTo /\ TrueDistance' = TrueDistance
         /\ \A d, x, y : Below(d, x, y)' = Below(d, x, y)
<1>1. \A x : Rank(x)' = Rank(x)
  BY RankFrame
<1>2. InputArcs' = InputArcs /\ Nodes' = Nodes /\ \A a : TailOf(a)' = TailOf(a) /\ HeadOf(a)' = HeadOf(a)
  BY <1>1 DEF InputArcs, Nodes, TailOf, HeadOf
<1>3. \A x, y : InputWeight(x, y)' = InputWeight(x, y)
  BY <1>2 DEF InputWeight
<1>4. InputWeights' = InputWeights
  BY <1>2, <1>3 DEF InputWeights
<1>5. DistancesUpTo' = DistancesUpTo
  BY <1>4 DEF DistancesUpTo
<1>6. TrueDistance' = TrueDistance
  BY <1>5 DEF TrueDistance
<1> QED BY <1>5, <1>6 DEF Below, Toward

LEMMA SearchFrame ==
  ASSUME UNCHANGED <<input, order, cch, weight>>
  PROVE  /\ \A d, p : ExactWeight(d, p)' = ExactWeight(d, p) /\ TrueWeight(d, p)' = TrueWeight(d, p)
         /\ ExactOK' <=> ExactOK
         /\ \A m : (Lowered(m)' <=> Lowered(m)) /\ Kept(m)' = Kept(m)
         /\ \A m, t : Searched(m, t)' <=> Searched(m, t)
         /\ TrianglesOfArcs' = TrianglesOfArcs
<1>1. DistancesUpTo' = DistancesUpTo /\ TrueDistance' = TrueDistance
  BY DistanceFrame
<1>2. \A d, D, x, y : Toward(d, D, x, y)' = Toward(d, D, x, y)
  BY DEF Toward
<1>3. \A d, p : ExactWeight(d, p)' = ExactWeight(d, p) /\ TrueWeight(d, p)' = TrueWeight(d, p)
  BY <1>1 DEF ExactWeight, TrueWeight, Toward
<1>4. Nodes' = Nodes /\ Pairs' = Pairs /\ Metrics' = Metrics
  BY InputFrame, GraphFrame
<1>5. \A m : (Lowered(m)' <=> Lowered(m)) /\ Kept(m)' = Kept(m)
  BY <1>3, <1>4 DEF Lowered, Kept
<1>6. \A m, t : Searched(m, t)' <=> Searched(m, t)
  BY <1>1, <1>3 DEF Searched, Toward
<1>7. TrianglesOfArcs' = TrianglesOfArcs
  BY <1>4 DEF TrianglesOfArcs
<1>8. ExactMetric' = ExactMetric
  BY <1>3 DEF ExactMetric
<1>9. \A m : Solves(m)' <=> Solves(m)
  BY LeastFrame DEF Solves
<1>10. ExactOK' <=> ExactOK
  BY <1>3, <1>4, <1>8, <1>9 DEF ExactOK
<1> QED BY <1>3, <1>5, <1>6, <1>7, <1>10

(* A metric on the arcs of a triangle: a way around it is no shorter than    *)
(* the distance.                                                            *)
CornersAreNumbers(m, bottom, mid, top) ==
  /\ m["f"][bottom] \in Nat /\ m["f"][mid] \in Nat /\ m["f"][top] \in Nat
  /\ m["b"][bottom] \in Nat /\ m["b"][mid] \in Nat /\ m["b"][top] \in Nat
CornersAreBounded(m, bottom, mid, top) ==
  /\ TrueWeight("f", bottom) <= m["f"][mid] + m["b"][top] /\ TrueWeight("f", mid) <= m["f"][bottom] + m["f"][top]
  /\ TrueWeight("b", bottom) <= m["b"][mid] + m["f"][top] /\ TrueWeight("b", mid) <= m["b"][bottom] + m["b"][top]

(* All four comparisons over a triangle.                                    *)
LEMMA WitnessArcKeeps ==
  ASSUME GraphOK, NEW s, Search(s), NEW t \in TrianglesOfArcs,
         NEW bottom, bottom = <<t[1], t[2]>>, NEW mid, mid = <<t[1], t[3]>>, NEW top, top = <<t[2], t[3]>>,
         NEW r, r = WitnessArc(s, bottom, mid, top)
  PROVE  /\ Search(r) /\ NoMore(r.m, s.m)
         /\ \A d \in Dirs : /\ r.m[d][bottom] <= s.m[d][mid] + s.m[Opposite(d)][top]
                            /\ r.m[d][mid] <= s.m[d][bottom] + s.m[d][top]
<1>1. "f" \in Dirs /\ "b" \in Dirs /\ Opposite("f") = "b" /\ Opposite("b") = "f"
  BY DEF Dirs, Opposite
<1>2. bottom \in cch.up /\ mid \in cch.up /\ top \in cch.up
  BY TriangleArcs DEF GraphOK
<1>3. ASSUME NEW m, Lowered(m) PROVE CornersAreNumbers(m, bottom, mid, top) /\ CornersAreBounded(m, bottom, mid, top)
  <2>1. \A e \in Dirs, p \in cch.up : m[e][p] \in Nat
    BY <1>3 DEF Lowered, Metrics
  <2>2. \A d \in Dirs : /\ TrueWeight(d, bottom) <= m[d][mid] + m[Opposite(d)][top]
                        /\ TrueWeight(d, mid) <= m[d][bottom] + m[d][top]
    BY <1>3, TriangleBounds
  <2>3. CornersAreNumbers(m, bottom, mid, top)
    BY <2>1, <1>1, <1>2 DEF CornersAreNumbers
  <2>4. CornersAreBounded(m, bottom, mid, top)
    BY <2>2, <1>1 DEF CornersAreBounded
  <2> QED BY <2>3, <2>4
<1>4. PICK v1 : v1 = s.m["f"][mid] + s.m["b"][top]
  OBVIOUS
<1>5. PICK s1 : s1 = Beat(s, "f", bottom, v1)
  OBVIOUS
<1>6. PICK v2 : v2 = s1.m["b"][mid] + s1.m["f"][top]
  OBVIOUS
<1>7. PICK s2 : s2 = Beat(s1, "b", bottom, v2)
  OBVIOUS
<1>8. PICK v3 : v3 = s2.m["f"][bottom] + s2.m["f"][top]
  OBVIOUS
<1>9. PICK s3 : s3 = Beat(s2, "f", mid, v3)
  OBVIOUS
<1>10. PICK v4 : v4 = s3.m["b"][bottom] + s3.m["b"][top]
  OBVIOUS
<1>11. r = Beat(s3, "b", mid, v4)
  <2> DEFINE u1 == Beat(s, "f", bottom, s.m["f"][mid] + s.m["b"][top])
             u2 == Beat(u1, "b", bottom, u1.m["b"][mid] + u1.m["f"][top])
             u3 == Beat(u2, "f", mid, u2.m["f"][bottom] + u2.m["f"][top])
  <2>1. WitnessArc(s, bottom, mid, top) = Beat(u3, "b", mid, u3.m["b"][bottom] + u3.m["b"][top])
    BY DEF WitnessArc
  <2>2. s1 = u1
    BY <1>4, <1>5
  <2> HIDE DEF u1
  <2>3. s2 = u2
    BY <2>2, <1>6, <1>7
  <2> HIDE DEF u2
  <2>4. s3 = u3
    BY <2>3, <1>8, <1>9
  <2> HIDE DEF u3
  <2> QED BY <2>1, <2>4, <1>10
<1>12. CornersAreNumbers(s.m, bottom, mid, top) /\ v1 \in Nat /\ TrueWeight("f", bottom) <= v1
  <2>1. CornersAreNumbers(s.m, bottom, mid, top) /\ CornersAreBounded(s.m, bottom, mid, top)
    BY <1>3 DEF Search
  <2> QED BY <2>1, <1>4 DEF CornersAreNumbers, CornersAreBounded
<1>13. Search(s1) /\ NoMore(s1.m, s.m) /\ s1.m["f"][bottom] <= v1
  BY <1>1, <1>2, <1>5, <1>12, BeatKeeps
<1>14. CornersAreNumbers(s1.m, bottom, mid, top) /\ v2 \in Nat /\ TrueWeight("b", bottom) <= v2
  <2>1. CornersAreNumbers(s1.m, bottom, mid, top) /\ CornersAreBounded(s1.m, bottom, mid, top)
    BY <1>3, <1>13 DEF Search
  <2> QED BY <2>1, <1>6 DEF CornersAreNumbers, CornersAreBounded
<1>15. Search(s2) /\ NoMore(s2.m, s1.m) /\ s2.m["b"][bottom] <= v2
  BY <1>1, <1>2, <1>7, <1>13, <1>14, BeatKeeps
<1>16. CornersAreNumbers(s2.m, bottom, mid, top) /\ v3 \in Nat /\ TrueWeight("f", mid) <= v3
  <2>1. CornersAreNumbers(s2.m, bottom, mid, top) /\ CornersAreBounded(s2.m, bottom, mid, top)
    BY <1>3, <1>15 DEF Search
  <2> QED BY <2>1, <1>8 DEF CornersAreNumbers, CornersAreBounded
<1>17. Search(s3) /\ NoMore(s3.m, s2.m) /\ s3.m["f"][mid] <= v3
  BY <1>1, <1>2, <1>9, <1>15, <1>16, BeatKeeps
<1>18. CornersAreNumbers(s3.m, bottom, mid, top) /\ v4 \in Nat /\ TrueWeight("b", mid) <= v4
  <2>1. CornersAreNumbers(s3.m, bottom, mid, top) /\ CornersAreBounded(s3.m, bottom, mid, top)
    BY <1>3, <1>17 DEF Search
  <2> QED BY <2>1, <1>10 DEF CornersAreNumbers, CornersAreBounded
<1>19. Search(r) /\ NoMore(r.m, s3.m) /\ r.m["b"][mid] <= v4
  BY <1>1, <1>2, <1>11, <1>17, <1>18, BeatKeeps
<1>20. CornersAreNumbers(r.m, bottom, mid, top)
  BY <1>3, <1>19 DEF Search
<1>21. NoMore(s2.m, s.m) /\ NoMore(r.m, s2.m) /\ NoMore(r.m, s.m)
  <2>1. ASSUME NEW x, NEW y, NEW z, Lowered(x), Lowered(y), Lowered(z), NoMore(x, y), NoMore(y, z) PROVE NoMore(x, z)
    <3>1. \A e \in Dirs, p \in cch.up : x[e][p] \in Nat /\ y[e][p] \in Nat /\ z[e][p] \in Nat
      BY <2>1 DEF Lowered, Metrics
    <3> QED BY <2>1, <3>1 DEF NoMore
  <2>2. Lowered(s.m) /\ Lowered(s1.m) /\ Lowered(s2.m) /\ Lowered(s3.m) /\ Lowered(r.m)
    BY <1>13, <1>15, <1>17, <1>19 DEF Search
  <2>3. NoMore(s2.m, s.m) /\ NoMore(r.m, s2.m)
    BY <2>1, <2>2, <1>13, <1>15, <1>17, <1>19
  <2> QED BY <2>1, <2>2, <2>3
<1>22. /\ r.m["f"][bottom] <= s.m["f"][mid] + s.m["b"][top]
       /\ r.m["b"][bottom] <= s.m["b"][mid] + s.m["f"][top]
  <2>1. s2.m["f"][bottom] <= s1.m["f"][bottom] /\ r.m["f"][bottom] <= s2.m["f"][bottom] /\ r.m["b"][bottom] <= s2.m["b"][bottom]
    BY <1>1, <1>2, <1>15, <1>21 DEF NoMore
  <2>2. s1.m["b"][mid] <= s.m["b"][mid] /\ s1.m["f"][top] <= s.m["f"][top]
    BY <1>1, <1>2, <1>13 DEF NoMore
  <2>3. r.m["f"][bottom] <= v1
    BY <2>1, <1>12, <1>13, <1>14, <1>16, <1>20 DEF CornersAreNumbers
  <2>4. r.m["b"][bottom] <= v2
    BY <2>1, <1>14, <1>15, <1>16, <1>20 DEF CornersAreNumbers
  <2>5. v2 <= s.m["b"][mid] + s.m["f"][top]
    BY <2>2, <1>6, <1>12, <1>14 DEF CornersAreNumbers
  <2> QED BY <2>3, <2>4, <2>5, <1>4, <1>12, <1>14, <1>20 DEF CornersAreNumbers
<1>23. /\ r.m["f"][mid] <= s.m["f"][bottom] + s.m["f"][top]
       /\ r.m["b"][mid] <= s.m["b"][bottom] + s.m["b"][top]
  <2>1. /\ s2.m["f"][bottom] <= s.m["f"][bottom] /\ s2.m["f"][top] <= s.m["f"][top]
        /\ s3.m["b"][bottom] <= s2.m["b"][bottom] /\ s3.m["b"][top] <= s2.m["b"][top]
        /\ s2.m["b"][bottom] <= s.m["b"][bottom] /\ s2.m["b"][top] <= s.m["b"][top]
        /\ r.m["f"][mid] <= s3.m["f"][mid]
    BY <1>1, <1>2, <1>17, <1>19, <1>21 DEF NoMore
  <2>2. v3 <= s.m["f"][bottom] + s.m["f"][top]
    BY <2>1, <1>8, <1>12, <1>16 DEF CornersAreNumbers
  <2>3. v4 <= s.m["b"][bottom] + s.m["b"][top]
    BY <2>1, <1>10, <1>12, <1>16, <1>18 DEF CornersAreNumbers
  <2>4. r.m["f"][mid] <= v3
    BY <2>1, <1>16, <1>17, <1>18, <1>20 DEF CornersAreNumbers
  <2> QED BY <2>2, <2>3, <2>4, <1>12, <1>16, <1>18, <1>19, <1>20 DEF CornersAreNumbers
<1>24. \A d \in Dirs : d = "f" \/ d = "b"
  BY DEF Dirs
<1> QED BY <1>1, <1>19, <1>21, <1>22, <1>23, <1>24

(* The search begins with the exact weights the sweep left.                 *)
LEMMA StartWitnessSearchStep == ASSUME IInv, StartWitnessSearch PROVE SearchOK'
<1>1. /\ GraphOK /\ PossibleOK /\ Built /\ metric \in Metrics /\ Solves(metric)
      /\ UNCHANGED <<input, order, cch, weight, metric>> /\ pc' = "search"
  BY DEF IInv, SupergraphOK, StartWitnessSearch, TypeOK, Weighed, PartialOK, Solves, Built, graphVars
<1>2. \A d \in Dirs, p \in Pairs : Exact(d, p)
  BY <1>1, SettledIsExact
<1>3. \A d \in Dirs, p \in Pairs : ExactWeight(d, p) = Along(d, p)
  BY DEF ExactWeight, Along, Ends, Toward, Pairs
<1>4. cch.up \subseteq Pairs /\ input \in Inputs /\ weight \in input.weights
  BY <1>1 DEF GraphOK
<1>5. \A d \in Dirs, p \in cch.up : metric[d][p] = ExactWeight(d, p)
  BY <1>2, <1>3, <1>4 DEF Exact
<1>6. \A d \in Dirs, p \in Pairs \ cch.up : ExactWeight(d, p) = Inf
  <2>1. \A d \in Dirs, p \in Pairs \ cch.up : ~Possible(d, p)
    BY <1>1 DEF PossibleOK, Possible
  <2> QED BY <1>2, <1>3, <2>1 DEF Exact
<1>7. metric = ExactMetric
  BY <1>1, <1>5 DEF Metrics, ExactMetric
<1>8. Lowered(metric)
  <2> SUFFICES ASSUME NEW d \in Dirs, NEW p \in cch.up PROVE TrueWeight(d, p) <= metric[d][p] /\ metric[d][p] <= ExactWeight(d, p)
    BY <1>1 DEF Lowered
  <2>1. p[1] \in Nodes /\ p[2] \in Nodes /\ p = <<p[1], p[2]>>
    BY <1>4 DEF Pairs
  <2> QED BY <2>1, <1>4, <1>5, WeightsAreNear
<1>9. ExactOK
  BY <1>1, <1>6, <1>7 DEF ExactOK
<1>10. sweep' = [left |-> TrianglesOfArcs, keep |-> Kept(metric)]
  <2>1. Kept(metric) = [d \in Dirs |-> {p \in cch.up : metric[d][p] # Inf}]
    BY <1>5 DEF Kept
  <2> QED BY <2>1 DEF StartWitnessSearch
<1>11. LeftToSearch' = TrianglesOfArcs
  BY <1>1, <1>10 DEF LeftToSearch
<1>12. /\ ExactOK' /\ Lowered(metric)' /\ Kept(metric)' = Kept(metric) /\ TrianglesOfArcs' = TrianglesOfArcs
  <2>1. Lowered(metric') /\ Kept(metric') = Kept(metric)
    BY <1>1, <1>8
  <2>2. \A m : (Lowered(m)' <=> Lowered(m)) /\ Kept(m)' = Kept(m)
    BY <1>1, SearchFrame
  <2>3. ExactOK' /\ TrianglesOfArcs' = TrianglesOfArcs
    BY <1>1, <1>9, SearchFrame
  <2> PICK m : m = metric
    OBVIOUS
  <2>4. metric' = m
    BY <1>1
  <2>5. Lowered(metric)' <=> Lowered(m)'
    BY <2>4 DEF Lowered
  <2>6. Kept(metric)' = Kept(m)'
    BY <2>4 DEF Kept
  <2> QED BY <2>1, <2>2, <2>3, <2>4, <2>5, <2>6
<1>13. \A t \in TrianglesOfArcs' \ LeftToSearch' : Searched(metric, t)'
  BY <1>11, <1>12
<1> QED BY <1>1, <1>10, <1>12, <1>13 DEF SearchOK

(* The triangles are taken from the top down.                               *)
LEMMA NextTriangleIsFirst ==
  ASSUME input \in Inputs, cch.up \subseteq Pairs, sweep.left \subseteq TrianglesOfArcs, sweep.left # {}
  PROVE  NextTriangle \in sweep.left /\ \A s \in sweep.left : s = NextTriangle \/ SearchedFirst(NextTriangle, s)
<1>1. PICK left : left = sweep.left
  OBVIOUS
<1>2. PICK n : n = input.n
  OBVIOUS
<1>3. \A t \in left : t[1] \in Nodes /\ t[2] \in Nodes /\ t[3] \in Nodes /\ t = <<t[1], t[2], t[3]>>
  BY <1>1, TriangleArcs
<1>4. n \in Nat /\ Nodes = 0 .. n - 1
  BY <1>2, NodesAreNumbers DEF Nodes
<1>5. left # {} /\ n \in Nat /\ \A t \in left : /\ t[1] \in 0 .. n - 1 /\ t[2] \in 0 .. n - 1 /\ t[3] \in 0 .. n - 1 /\ t = <<t[1], t[2], t[3]>>
                                               /\ n - t[1] \in Nat /\ n - t[2] \in Nat /\ t[3] \in Nat
  BY <1>1, <1>3, <1>4
<1> DEFINE A == {n - t[1] : t \in left}
<1>6. PICK a : a \in A /\ \A b \in A : a <= b
  <2>1. A \in SUBSET Nat /\ A # {}
    BY <1>5
  <2> HIDE DEF A
  <2> QED BY <2>1, MinIsLeast
<1> DEFINE B == {n - t[2] : t \in {s \in left : n - s[1] = a}}
<1>7. PICK b : b \in B /\ \A c \in B : b <= c
  <2>1. B \in SUBSET Nat /\ B # {}
    BY <1>5, <1>6
  <2> HIDE DEF A, B
  <2> QED BY <2>1, MinIsLeast
<1> DEFINE C == {t[3] : t \in {s \in left : n - s[1] = a /\ n - s[2] = b}}
<1>8. PICK c : c \in C /\ \A e \in C : c <= e
  <2>1. C \in SUBSET Nat /\ C # {}
    BY <1>5, <1>7
  <2> HIDE DEF A, B, C
  <2> QED BY <2>1, MinIsLeast
<1>9. PICK t \in left : n - t[1] = a /\ n - t[2] = b /\ t[3] = c
  BY <1>8
<1>10. ASSUME NEW s \in left, s # t PROVE SearchedFirst(t, s)
  <2>1. a <= n - s[1] /\ (n - s[1] = a => b <= n - s[2]) /\ (n - s[1] = a /\ n - s[2] = b => c <= s[3])
    BY <1>6, <1>7, <1>8
  <2>2. s[1] <= t[1] /\ (s[1] = t[1] => s[2] <= t[2]) /\ (s[1] = t[1] /\ s[2] = t[2] => t[3] <= s[3])
    BY <2>1, <1>5, <1>9
  <2>3. ~(s[1] = t[1] /\ s[2] = t[2] /\ s[3] = t[3])
    BY <1>5, <1>10
  <2>4. /\ s[1] \in Nat /\ s[2] \in Nat /\ s[3] \in Nat /\ t[1] \in Nat /\ t[2] \in Nat /\ t[3] \in Nat
    BY <1>5
  <2> QED BY <2>2, <2>3, <2>4 DEF SearchedFirst, Before
<1>11. \E u \in left : \A s \in left : s = u \/ SearchedFirst(u, s)
  BY <1>10
<1> QED BY <1>1, <1>11 DEF NextTriangle

(* One triangle further: its upper arc has the distance already.            *)
LEMMA WitnessStepKeeps == ASSUME IInv, SearchOK, WitnessStep PROVE SearchOK'
<1>1. /\ GraphOK /\ PossibleOK /\ Built /\ UNCHANGED <<input, order, filtered, cch, weight>> /\ pc = "search" /\ pc' = "search" /\ sweep.left # {}
      /\ input \in Inputs /\ weight \in input.weights /\ cch.up \subseteq Pairs
  BY DEF IInv, SupergraphOK, WitnessStep, Built, graphVars, GraphOK
<1>2. /\ ExactOK /\ Lowered(metric) /\ sweep = [left |-> sweep.left, keep |-> Kept(metric)] /\ sweep.left \subseteq TrianglesOfArcs
      /\ ~filtered => \A t \in TrianglesOfArcs \ sweep.left : Searched(metric, t)
  BY <1>1 DEF SearchOK, LeftToSearch
<1>3. PICK left : left = sweep.left
  OBVIOUS
<1>4. PICK m : m = metric
  OBVIOUS
<1>5. PICK s : s = [m |-> m, keep |-> sweep.keep]
  OBVIOUS
<1>6. PICK t : t = NextTriangle
  OBVIOUS
<1>7. t \in left /\ t \in TrianglesOfArcs /\ \A u \in left : u = t \/ SearchedFirst(t, u)
  BY <1>1, <1>2, <1>3, <1>6, NextTriangleIsFirst
<1>8. PICK bottom, mid, top : bottom = <<t[1], t[2]>> /\ mid = <<t[1], t[3]>> /\ top = <<t[2], t[3]>>
  OBVIOUS
<1>9. PICK r : r = WitnessArc(s, bottom, mid, top)
  OBVIOUS
<1>10. metric' = r.m /\ sweep' = [left |-> left \ {t}, keep |-> r.keep]
  BY <1>3, <1>4, <1>5, <1>6, <1>8, <1>9 DEF WitnessStep
<1>11. Search(s) /\ s.m = m /\ Lowered(m)
  BY <1>2, <1>4, <1>5 DEF Search
<1>12. /\ Search(r) /\ NoMore(r.m, m)
       /\ \A d \in Dirs : r.m[d][bottom] <= m[d][mid] + m[Opposite(d)][top] /\ r.m[d][mid] <= m[d][bottom] + m[d][top]
  <2>1. /\ Search(r) /\ NoMore(r.m, s.m)
        /\ \A d \in Dirs : /\ r.m[d][bottom] <= s.m[d][mid] + s.m[Opposite(d)][top]
                           /\ r.m[d][mid] <= s.m[d][bottom] + s.m[d][top]
    BY <1>1, <1>7, <1>8, <1>9, <1>11, WitnessArcKeeps
  <2> QED BY <2>1, <1>11
<1>13. Lowered(r.m) /\ r.keep = Kept(r.m)
  BY <1>12 DEF Search
<1>14. ASSUME ~filtered, NEW u \in TrianglesOfArcs \ (left \ {t}) PROVE Searched(r.m, u)
  <2>1. PICK x, y, z : x = u[1] /\ y = u[2] /\ z = u[3]
    OBVIOUS
  <2>2. /\ x \in Nodes /\ y \in Nodes /\ z \in Nodes /\ x < y /\ y < z
        /\ <<x, y>> \in cch.up /\ <<x, z>> \in cch.up /\ <<y, z>> \in cch.up
    BY <1>1, <2>1, TriangleArcs
  <2> SUFFICES ASSUME NEW d \in Dirs
               PROVE  /\ r.m[d][<<x, y>>] <= ExactWeight(d, <<x, z>>) + Toward(d, TrueDistance, z, y)
                      /\ r.m[d][<<x, z>>] <= ExactWeight(d, <<x, y>>) + Toward(d, TrueDistance, y, z)
    BY <2>1 DEF Searched
  <2>3. PICK xz, xy, zy, yz : /\ xz = ExactWeight(d, <<x, z>>) /\ xy = ExactWeight(d, <<x, y>>)
                              /\ zy = Toward(d, TrueDistance, z, y) /\ yz = Toward(d, TrueDistance, y, z)
    OBVIOUS
  <2>4. xz \in Nat /\ xy \in Nat /\ zy \in Nat /\ yz \in Nat /\ zy = Shortest(d, z, y) /\ yz = Shortest(d, y, z)
    BY <1>1, <2>2, <2>3, WeightsAreNear
  <2>5. Opposite(d) \in Dirs /\ Opposite(Opposite(d)) = d
    BY DEF Opposite, Dirs
  <2>6. \A e \in Dirs, p \in cch.up : m[e][p] \in Nat /\ r.m[e][p] \in Nat /\ r.m[e][p] <= m[e][p] /\ m[e][p] <= ExactWeight(e, p)
    BY <1>11, <1>12, <1>13 DEF Lowered, Metrics, NoMore
  <2>7. /\ m[d][<<x, y>>] \in Nat /\ m[d][<<x, z>>] \in Nat /\ m[d][<<y, z>>] \in Nat /\ m[Opposite(d)][<<y, z>>] \in Nat
        /\ r.m[d][<<x, y>>] \in Nat /\ r.m[d][<<x, z>>] \in Nat
        /\ r.m[d][<<x, y>>] <= m[d][<<x, y>>] /\ r.m[d][<<x, z>>] <= m[d][<<x, z>>]
        /\ m[d][<<x, y>>] <= xy /\ m[d][<<x, z>>] <= xz
    BY <2>2, <2>3, <2>5, <2>6
  <2>8. CASE u # t
    <3>1. Searched(m, u)
      BY <1>2, <1>3, <1>4, <1>14, <2>8
    <3>2. m[d][<<x, y>>] <= xz + zy /\ m[d][<<x, z>>] <= xy + yz
      BY <3>1, <2>1, <2>3 DEF Searched
    <3> QED BY <3>2, <2>3, <2>4, <2>7
  <2>9. CASE u = t
    <3>1. ASSUME NEW v \in TrianglesOfArcs, v[1] = y PROVE Searched(m, v)
      <4>1. v[1] \in Int /\ x \in Int /\ x < v[1] /\ v # t
        BY <1>1, <2>1, <2>2, <2>9, <3>1, NodesAreNumbers
      <4>2. ~SearchedFirst(t, v)
        BY <4>1, <2>1, <2>9 DEF SearchedFirst, Before
      <4>3. v \notin left
        BY <4>1, <4>2, <1>7
      <4> QED BY <4>3, <1>2, <1>3, <1>4, <1>14
    <3>2. \A e \in Dirs : \A w \in Up(y) : m[e][<<y, w>>] = Shortest(e, y, w)
      BY <3>1, <1>1, <1>2, <1>11, <1>14, <2>2, SearchedIsTrue
    <3>3. z \in Up(y)
      BY <2>2 DEF Up
    <3>4. m[d][<<y, z>>] = yz /\ m[Opposite(d)][<<y, z>>] = Shortest(Opposite(d), y, z)
      BY <3>2, <3>3, <2>4, <2>5
    <3>5. Shortest(Opposite(d), y, z) = Shortest(d, z, y)
      BY <1>1, <2>2, BelowIsNear
    <3>6. bottom = <<x, y>> /\ mid = <<x, z>> /\ top = <<y, z>>
      BY <1>8, <2>1, <2>9
    <3>7. r.m[d][<<x, y>>] <= m[d][<<x, z>>] + m[Opposite(d)][<<y, z>>] /\ r.m[d][<<x, z>>] <= m[d][<<x, y>>] + m[d][<<y, z>>]
      BY <1>12, <3>6
    <3> QED BY <3>4, <3>5, <3>7, <2>3, <2>4, <2>7
  <2> QED BY <2>8, <2>9
<1>15. /\ ExactOK' /\ TrianglesOfArcs' = TrianglesOfArcs /\ Lowered(r.m)' /\ Kept(r.m)' = Kept(r.m)
  <2>1. PICK m1 : m1 = r.m
    OBVIOUS
  <2>2. Lowered(m1)' /\ Kept(m1)' = Kept(m1)
    BY <2>1, <1>1, <1>13, SearchFrame
  <2> QED BY <2>1, <2>2, <1>1, <1>2, SearchFrame
<1>16. Lowered(metric)' /\ Kept(metric)' = r.keep
  BY <1>10, <1>13, <1>15 DEF Lowered, Kept
<1>17. ASSUME ~filtered, NEW u \in TrianglesOfArcs \ (left \ {t}) PROVE Searched(metric, u)'
  <2>1. PICK m1 : m1 = r.m
    OBVIOUS
  <2>2. Searched(m1, u)'
    BY <2>1, <1>1, <1>14, <1>17, SearchFrame
  <2> QED BY <2>1, <2>2, <1>10 DEF Searched
<1>18. LeftToSearch' = left \ {t}
  BY <1>1, <1>10 DEF LeftToSearch
<1>19. left \ {t} \subseteq TrianglesOfArcs /\ sweep' = [left |-> sweep'.left, keep |-> Kept(metric)'] /\ sweep'.left = left \ {t}
  BY <1>2, <1>3, <1>10, <1>16
<1> QED BY <1>1, <1>15, <1>16, <1>17, <1>18, <1>19 DEF SearchOK

(* The search has ended: without the filter every arc has the distance      *)
(* between its ends, and one it keeps that no input arc explains is over a   *)
(* lower triangle of two others it keeps.                                   *)
SearchEnds ==
  /\ GraphOK /\ PossibleOK /\ Built /\ ExactOK /\ Lowered(metric)
  /\ ~filtered => \A t \in TrianglesOfArcs : Searched(metric, t)
LEMMA SearchedArcs ==
  ASSUME SearchEnds, NEW d \in Dirs, NEW p \in cch.up
  PROVE  /\ p = <<p[1], p[2]>> /\ p[1] \in Nodes /\ p[2] \in Nodes /\ p[1] < p[2]
         /\ metric[d][p] \in Nat /\ ExactWeight(d, p) \in Nat /\ ExactWeight(d, p) <= Inf
         /\ Shortest(d, p[1], p[2]) <= metric[d][p] /\ metric[d][p] <= ExactWeight(d, p)
         /\ ~filtered => metric[d][p] = Shortest(d, p[1], p[2])
<1>1. /\ input \in Inputs /\ weight \in input.weights /\ cch.up \subseteq Pairs /\ Lowered(metric)
      /\ GraphOK /\ PossibleOK /\ Built /\ ExactOK
  BY DEF SearchEnds, GraphOK
<1>2. p = <<p[1], p[2]>> /\ p[1] \in Nodes /\ p[2] \in Nodes /\ p[1] < p[2]
  BY <1>1, Triangles
<1> PICK x, y : x = p[1] /\ y = p[2]
  OBVIOUS
<1>3. x \in Nodes /\ y \in Nodes /\ p = <<x, y>>
  BY <1>2
<1>4. ExactWeight(d, p) \in Nat /\ ExactWeight(d, p) <= Inf /\ TrueWeight(d, p) = Shortest(d, x, y)
  BY <1>1, <1>3, WeightsAreNear
<1>5. metric[d][p] \in Nat /\ TrueWeight(d, p) <= metric[d][p] /\ metric[d][p] <= ExactWeight(d, p)
  BY <1>1 DEF Lowered, Metrics
<1>6. ASSUME ~filtered PROVE metric[d][p] = Shortest(d, x, y)
  <2>1. \A t \in TrianglesOfArcs : t[1] = x => Searched(metric, t)
    BY <1>6 DEF SearchEnds
  <2>2. PICK m : m = metric
    OBVIOUS
  <2>3. \A e \in Dirs : \A z \in Up(x) : m[e][<<x, z>>] = Shortest(e, x, z)
    BY <1>1, <1>3, <1>6, <2>1, <2>2, SearchedIsTrue
  <2>4. y \in Up(x)
    BY <1>3 DEF Up
  <2> QED BY <1>3, <2>2, <2>3, <2>4
<1> QED BY <1>2, <1>4, <1>5, <1>6

KeptHalves(d, p, x) ==
  /\ x \in LowerTriangles(p) /\ <<x, p[1]>> \in Kept(metric)[Opposite(d)] /\ <<x, p[2]>> \in Kept(metric)[d]
  /\ OverLower(metric, d, <<x, p[1]>>, <<x, p[2]>>) = metric[d][p]
LEMMA KeptOverLower ==
  ASSUME SearchEnds, ~filtered, NEW d \in Dirs, NEW p \in Kept(metric)[d], metric[d][p] # Extract(d, p)
  PROVE  \E x : KeptHalves(d, p, x)
<1>1. /\ input \in Inputs /\ weight \in input.weights /\ cch.up \subseteq Pairs /\ ExactOK /\ Opposite(d) \in Dirs
      /\ p \in cch.up /\ metric[d][p] = ExactWeight(d, p) /\ metric[d][p] # Inf
  BY DEF SearchEnds, GraphOK, Kept, Opposite, Dirs
<1>2. PICK E : E = ExactMetric
  OBVIOUS
<1>3. \A e \in Dirs, r \in cch.up : E[e][r] = ExactWeight(e, r)
  BY <1>2 DEF ExactMetric
<1>4. E \in Metrics
  <2>1. \A e \in Dirs, r \in cch.up : ExactWeight(e, r) \in Nat
    BY SearchedArcs
  <2> QED BY <1>2, <2>1 DEF ExactMetric, Metrics
<1>5. E[d][p] = Least(E, d, p)
  BY <1>1, <1>2 DEF ExactOK, Solves
<1>6. PICK x \in LowerTriangles(p) : E[d][p] = Over(E, d, p, x)
  BY <1>1, <1>3, <1>4, <1>5, LeastIsLeast
<1>7. x \in Nodes /\ <<x, p[1]>> \in cch.up /\ <<x, p[2]>> \in cch.up
  BY <1>1, Triangles
<1> PICK u, v : u = p[1] /\ v = p[2]
  OBVIOUS
<1>8. PICK m1, m2, e1, e2 : /\ m1 = metric[Opposite(d)][<<x, u>>] /\ m2 = metric[d][<<x, v>>]
                            /\ e1 = ExactWeight(Opposite(d), <<x, u>>) /\ e2 = ExactWeight(d, <<x, v>>)
  OBVIOUS
<1>9. metric[d][p] = e1 + e2
  BY <1>1, <1>3, <1>6, <1>7, <1>8 DEF Over, OverLower
<1>10. m1 \in Nat /\ e1 \in Nat /\ m1 <= e1 /\ m1 = Shortest(Opposite(d), x, u)
  BY <1>1, <1>7, <1>8, SearchedArcs
<1>11. m2 \in Nat /\ e2 \in Nat /\ m2 <= e2 /\ m2 = Shortest(d, x, v)
  BY <1>1, <1>7, <1>8, SearchedArcs
<1>12. metric[d][p] \in Nat /\ ExactWeight(d, p) <= Inf /\ metric[d][p] = Shortest(d, u, v) /\ u \in Nodes /\ v \in Nodes
  BY <1>1, SearchedArcs
<1>13. Shortest(Opposite(d), x, u) = Shortest(d, u, x)
  BY <1>1, <1>7, <1>12, BelowIsNear
<1>14. Shortest(d, u, v) <= Shortest(d, u, x) + Shortest(d, x, v)
  BY <1>1, <1>7, <1>12, NearIsNear
<1>15. m1 = e1 /\ m2 = e2 /\ m1 # Inf /\ m2 # Inf
  <2>1. metric[d][p] <= m1 + m2 /\ metric[d][p] < Inf
    BY <1>1, <1>10, <1>11, <1>12, <1>13, <1>14, InfAssumption
  <2> QED BY <2>1, <1>9, <1>10, <1>11, <1>12, InfAssumption
<1>16. <<x, u>> \in Kept(metric)[Opposite(d)] /\ <<x, v>> \in Kept(metric)[d]
  BY <1>1, <1>7, <1>8, <1>15 DEF Kept
<1>17. KeptHalves(d, p, x)
  BY <1>6, <1>8, <1>9, <1>15, <1>16 DEF KeptHalves, OverLower
<1> QED BY <1>17

(* An input arc of the weight is found if there is one, the least.          *)
Found(a, d, p) == a \in InputArcs /\ InputArcToCchArc(a) = p /\ InputArcDir(a) = d /\ weight[a] = metric[d][p]
LEMMA OriginalIsFound ==
  ASSUME SearchEnds, NEW d \in Dirs, NEW p \in cch.up, metric[d][p] # Inf, NEW a, a = UnpackOriginalArc(metric, d, p)
  PROVE  IF a = NoId THEN metric[d][p] # Extract(d, p) ELSE Found(a, d, p)
<1>1. PICK fits : fits = {b \in InputArcsOfCch(d, p) : weight[b] = metric[d][p]}
  OBVIOUS
<1>2. a = IF fits = {} THEN NoId ELSE Min(fits)
  BY <1>1 DEF UnpackOriginalArc
<1>3. input \in Inputs /\ weight \in input.weights
  BY DEF SearchEnds, GraphOK
<1>4. InputArcs \subseteq Nat /\ weight \in [InputArcs -> Nat]
  <2>1. input.arcs \in Seq((0 .. input.n - 1) \X (0 .. input.n - 1)) /\ weight \in [DOMAIN input.arcs -> Nat]
    BY <1>3, InputsAssumption
  <2> QED BY <2>1 DEF InputArcs
<1>5. CASE fits # {}
  <2>1. fits \in SUBSET Nat
    BY <1>1, <1>4 DEF InputArcsOfCch
  <2>2. Min(fits) \in fits
    BY <2>1, <1>5, MinIsLeast
  <2>3. a \in fits /\ a \in Nat
    BY <2>1, <2>2, <1>2, <1>5
  <2>4. a # NoId
    BY <2>3, NoIdAssumption
  <2> QED BY <2>3, <2>4, <1>1 DEF InputArcsOfCch, Found
<1>6. CASE fits = {}
  <2>1. a = NoId
    BY <1>2, <1>6
  <2>2. PICK S : S = {Inf} \cup {weight[b] : b \in InputArcsOfCch(d, p)}
    OBVIOUS
  <2>3. S \in SUBSET Nat /\ S # {}
    BY <2>2, <1>4, InfAssumption DEF InputArcsOfCch
  <2>4. Min(S) \in S
    BY <2>3, MinIsLeast
  <2>5. metric[d][p] \notin S
    BY <2>2, <1>1, <1>6
  <2>6. Extract(d, p) = Min(S)
    BY <2>2 DEF Extract
  <2> QED BY <2>1, <2>4, <2>5, <2>6
<1> QED BY <1>5, <1>6

LEMMA FoundArcLeads ==
  ASSUME GraphOK, NEW d \in Dirs, NEW p \in cch.up, NEW a, Found(a, d, p)
  PROVE  input.arcs[a][2] = order[1 + IF d = "f" THEN p[2] ELSE p[1]]
<1>1. input \in Inputs /\ order \in input.orders /\ a \in InputArcs /\ cch.up \subseteq Pairs
  BY DEF GraphOK, Found
<1>2. TailOf(a) \in Nodes /\ HeadOf(a) \in Nodes /\ TailOf(a) \in Nat /\ HeadOf(a) \in Nat
  BY <1>1, RanksAreNodes, NodesAreNumbers
<1>3. p # NoId
  BY <1>1, CchArcsLeadUp
<1>4. HeadOf(a) = IF d = "f" THEN p[2] ELSE p[1]
  BY <1>2, <1>3 DEF Found, InputArcToCchArc, InputArcDir
<1>5. input.arcs[a][2] \in Nodes
  <2>1. input.arcs \in Seq(Nodes \X Nodes)
    BY <1>1, InputsAssumption DEF Nodes
  <2> QED BY <2>1, <1>1 DEF InputArcs
<1>6. order[Rank(input.arcs[a][2]) + 1] = input.arcs[a][2]
  BY <1>1, <1>5, OrderAndRank
<1>7. HeadOf(a) = Rank(input.arcs[a][2])
  BY DEF HeadOf
<1>8. PICK h : h = HeadOf(a)
  OBVIOUS
<1>9. h + 1 = 1 + h
  BY <1>2, <1>8
<1> QED BY <1>4, <1>6, <1>7, <1>8, <1>9

(* An arc of the hierarchy it returns.                                      *)
HalvesOf(a, d, p, x) == KeptHalves(d, p, x) /\ <<a.first, a.second>> = Halves(d, p, x)
BuiltArc(a, d, p) ==
  /\ a.weight = metric[d][p] /\ a.original \in BOOLEAN
  /\ a.original => weight[a.first] = a.weight /\ input.arcs[a.first][2] = a.second
  /\ ~filtered /\ ~a.original => \E x : HalvesOf(a, d, p, x)
LEMMA ArcsAreBuilt ==
  ASSUME SearchEnds, sweep.keep = Kept(metric), NEW d \in Dirs, NEW p \in Kept(metric)[d], NEW a, a = ChArc(d, p)
  PROVE  BuiltArc(a, d, p)
<1>1. PICK i : i = UnpackOriginalArc(metric, d, p)
  OBVIOUS
<1>2. PICK arcs : arcs = ShortcutArcs(d, p)
  OBVIOUS
<1>3. p \in cch.up /\ metric[d][p] # Inf /\ GraphOK /\ input \in Inputs /\ cch.up \subseteq Pairs
  BY DEF Kept, SearchEnds, GraphOK
<1>4. CASE i # NoId
  <2>1. Found(i, d, p)
    BY <1>1, <1>3, <1>4, OriginalIsFound
  <2>2. input.arcs[i][2] = order[1 + IF d = "f" THEN p[2] ELSE p[1]]
    BY <1>3, <2>1, FoundArcLeads
  <2>3. /\ a.weight = metric[d][p] /\ a.original = TRUE /\ a.first = i
        /\ a.second = order[1 + IF d = "f" THEN p[2] ELSE p[1]]
    BY <1>1, <1>4 DEF ChArc
  <2> QED BY <2>1, <2>2, <2>3 DEF BuiltArc, Found
<1>5. CASE i = NoId
  <2>1. a.weight = metric[d][p] /\ a.original = FALSE /\ a.first = arcs[1] /\ a.second = arcs[2]
    BY <1>1, <1>2, <1>5 DEF ChArc
  <2>2. ASSUME ~filtered PROVE \E x : HalvesOf(a, d, p, x)
    <3>1. metric[d][p] # Extract(d, p)
      BY <1>1, <1>3, <1>5, OriginalIsFound
    <3>2. PICK x : KeptHalves(d, p, x)
      BY <2>2, <3>1, KeptOverLower
    <3>3. PICK L : L = KeptLower(d, p)
      OBVIOUS
    <3>4. \A y : y \in L <=> KeptHalves(d, p, y)
      BY <3>3 DEF KeptLower, KeptHalves
    <3>5. L \in SUBSET Nat /\ L # {}
      <4>1. \A y \in LowerTriangles(p) : y \in Nat
        BY <1>3, Triangles, NodesAreNumbers
      <4> QED BY <3>2, <3>4, <4>1 DEF KeptHalves
    <3>6. Min(L) \in L
      BY <3>5, MinIsLeast
    <3>7. PICK y : y = Min(L)
      OBVIOUS
    <3>8. KeptHalves(d, p, y)
      BY <3>4, <3>6, <3>7
    <3>9. arcs = Halves(d, p, y)
      BY <1>2, <3>3, <3>5, <3>7 DEF ShortcutArcs
    <3>10. <<a.first, a.second>> = Halves(d, p, y)
      BY <2>1, <3>9 DEF Halves
    <3>11. HalvesOf(a, d, p, y)
      BY <3>8, <3>10 DEF HalvesOf
    <3> QED BY <3>11
  <2> QED BY <2>1, <2>2 DEF BuiltArc
<1> QED BY <1>4, <1>5

LEMMA HalvesAreKept ==
  ASSUME SearchEnds, NEW d \in Dirs, NEW p \in cch.up, NEW x, NEW a, HalvesOf(a, d, p, x)
  PROVE  /\ a.first \in Kept(metric)["b"] /\ a.second \in Kept(metric)["f"]
         /\ Before(IF d = "f" THEN a.second ELSE a.first, p)
         /\ metric["b"][a.first] + metric["f"][a.second] = metric[d][p]
<1>1. x \in LowerTriangles(p) /\ cch.up \subseteq Pairs /\ input \in Inputs
  BY DEF HalvesOf, KeptHalves, SearchEnds, GraphOK
<1>2. x \in Nat /\ x < p[1]
  BY <1>1, Triangles, NodesAreNumbers
<1>3. PICK r1, r2 : r1 = <<x, p[1]>> /\ r2 = <<x, p[2]>>
  OBVIOUS
<1>4. r1 \in Kept(metric)[Opposite(d)] /\ r2 \in Kept(metric)[d] /\ metric[Opposite(d)][r1] + metric[d][r2] = metric[d][p]
  BY <1>3 DEF HalvesOf, KeptHalves, OverLower
<1>5. r1 \in cch.up /\ r2 \in cch.up /\ Opposite(d) \in Dirs
  BY <1>4 DEF Kept, Opposite, Dirs
<1>6. metric[Opposite(d)][r1] \in Nat /\ metric[d][r2] \in Nat
  BY <1>5, SearchedArcs
<1>7. Before(r1, p) /\ Before(r2, p)
  BY <1>2, <1>3 DEF Before
<1>8. CASE d = "f"
  <2>1. a.first = r1 /\ a.second = r2 /\ Opposite(d) = "b"
    BY <1>3, <1>8 DEF HalvesOf, Halves, Opposite
  <2> QED BY <2>1, <1>4, <1>7, <1>8
<1>9. CASE d = "b"
  <2>1. a.first = r2 /\ a.second = r1 /\ Opposite(d) = "f"
    BY <1>3, <1>9 DEF HalvesOf, Halves, Opposite
  <2> QED BY <2>1, <1>4, <1>6, <1>7, <1>9
<1> QED BY <1>8, <1>9 DEF Dirs

LEMMA BuildPerfectWitnessStep == ASSUME IInv, SearchOK, BuildPerfectWitness PROVE SearchOK'
<1>1. /\ GraphOK /\ PossibleOK /\ Built /\ UNCHANGED <<input, order, filtered, cch, weight, metric>> /\ pc = "search"
      /\ pc' \in {"perfect", "invalid"} /\ sweep.left = {}
  BY DEF IInv, SupergraphOK, BuildPerfectWitness, Built, graphVars
<1>2. /\ ExactOK /\ Lowered(metric) /\ sweep = [left |-> sweep.left, keep |-> Kept(metric)]
      /\ ~filtered => \A t \in TrianglesOfArcs : Searched(metric, t)
  BY <1>1 DEF SearchOK, LeftToSearch
<1>3. SearchEnds
  BY <1>1, <1>2 DEF SearchEnds
<1>4. PICK keep : keep = Kept(metric)
  OBVIOUS
<1>5. sweep.keep = keep
  BY <1>2, <1>4
<1>6. PICK g : g = ch'
  OBVIOUS
<1>7. /\ g = [d \in Dirs |-> [p \in keep[d] |-> ChArc(d, p)]]
      /\ pc' = IF IsValid(g) THEN "perfect" ELSE "invalid"
  BY <1>5, <1>6 DEF BuildPerfectWitness
<1>8. \A d \in Dirs : DOMAIN g[d] = keep[d] /\ \A p \in keep[d] : BuiltArc(g[d][p], d, p)
  <2> SUFFICES ASSUME NEW d \in Dirs PROVE DOMAIN g[d] = keep[d] /\ \A p \in keep[d] : BuiltArc(g[d][p], d, p)
    OBVIOUS
  <2>1. g[d] = [p \in keep[d] |-> ChArc(d, p)]
    BY <1>7
  <2>2. ASSUME NEW p \in keep[d] PROVE BuiltArc(g[d][p], d, p)
    <3>1. PICK a : a = g[d][p]
      OBVIOUS
    <3>2. a = ChArc(d, p)
      BY <2>1, <2>2, <3>1
    <3>3. BuiltArc(a, d, p)
      BY <1>3, <1>4, <1>5, <2>2, <3>2, ArcsAreBuilt
    <3> QED BY <3>1, <3>3
  <2> QED BY <2>1, <2>2
<1>9. \A d \in Dirs : keep[d] \subseteq cch.up
  BY <1>4 DEF Kept
<1>10. "f" \in Dirs /\ "b" \in Dirs
  BY DEF Dirs
<1>11. ASSUME ~filtered PROVE IsValid(g)
  <2> SUFFICES ASSUME NEW d \in Dirs, NEW p \in keep[d], ~g[d][p].original
               PROVE  /\ g[d][p].first \in DOMAIN g["b"] /\ g[d][p].second \in DOMAIN g["f"]
                      /\ Before(IF d = "f" THEN g[d][p].second ELSE g[d][p].first, p)
                      /\ g[d][p].weight = g["b"][g[d][p].first].weight + g["f"][g[d][p].second].weight
    BY <1>8 DEF IsValid
  <2>1. PICK a : a = g[d][p]
    OBVIOUS
  <2>2. BuiltArc(a, d, p) /\ ~a.original /\ p \in cch.up
    BY <1>8, <1>9, <2>1
  <2>3. PICK x : HalvesOf(a, d, p, x)
    BY <1>11, <2>2 DEF BuiltArc
  <2>4. /\ a.first \in keep["b"] /\ a.second \in keep["f"] /\ Before(IF d = "f" THEN a.second ELSE a.first, p)
        /\ metric["b"][a.first] + metric["f"][a.second] = metric[d][p]
    BY <1>3, <1>4, <2>2, <2>3, HalvesAreKept
  <2>5. g["b"][a.first].weight = metric["b"][a.first] /\ g["f"][a.second].weight = metric["f"][a.second] /\ a.weight = metric[d][p]
    BY <1>8, <1>10, <2>2, <2>4 DEF BuiltArc
  <2> QED BY <1>8, <1>10, <2>1, <2>4, <2>5
<1>12. ExactOK' /\ Lowered(metric)' /\ Kept(metric)' = keep /\ TrianglesOfArcs' = TrianglesOfArcs
  <2>1. PICK m : m = metric
    OBVIOUS
  <2>2. (Lowered(m)' <=> Lowered(m)) /\ Kept(m)' = Kept(m) /\ (ExactOK' <=> ExactOK) /\ TrianglesOfArcs' = TrianglesOfArcs
    BY <1>1, SearchFrame
  <2>3. metric' = m
    BY <1>1, <2>1
  <2>4. Lowered(metric)' <=> Lowered(m)'
    BY <2>3 DEF Lowered
  <2>5. Kept(metric)' = Kept(m)'
    BY <2>3 DEF Kept
  <2> QED BY <1>2, <1>4, <2>1, <2>2, <2>4, <2>5
<1>13. ~filtered => \A t \in TrianglesOfArcs' : Searched(metric, t)'
  <2> SUFFICES ASSUME ~filtered, NEW t \in TrianglesOfArcs PROVE Searched(metric, t)'
    BY <1>12
  <2>1. PICK m : m = metric
    OBVIOUS
  <2>2. Searched(m, t)'
    BY <1>1, <1>2, <2>1, SearchFrame
  <2> QED BY <1>1, <2>1, <2>2 DEF Searched
<1>14. ASSUME NEW d \in Dirs, NEW p \in keep[d] PROVE ChArcOK(d, p)'
  <2>1. PICK a : a = g[d][p]
    OBVIOUS
  <2>2. BuiltArc(a, d, p) /\ p \in cch.up /\ a = ch'[d][p]
    BY <1>6, <1>8, <1>9, <2>1, <1>14
  <2>3. ASSUME ~filtered, ~a.original PROVE Unpacks(d, p)' /\ ch'["b"][a.first].weight + ch'["f"][a.second].weight = a.weight
    <3>1. PICK x : HalvesOf(a, d, p, x)
      BY <2>2, <2>3 DEF BuiltArc
    <3>2. x \in LowerTriangles(p) /\ <<a.first, a.second>> = Halves(d, p, x)
      BY <3>1 DEF HalvesOf, KeptHalves
    <3>3. LowerTriangles(p)' = LowerTriangles(p)
      BY <1>1, GraphFrame
    <3>4. Unpacks(d, p)'
      BY <2>2, <3>2, <3>3 DEF Unpacks, Halves
    <3>5. a.first \in keep["b"] /\ a.second \in keep["f"] /\ metric["b"][a.first] + metric["f"][a.second] = metric[d][p]
      BY <1>3, <1>4, <2>2, <3>1, HalvesAreKept
    <3>6. g["b"][a.first].weight = metric["b"][a.first] /\ g["f"][a.second].weight = metric["f"][a.second] /\ a.weight = metric[d][p]
      BY <1>8, <1>10, <2>2, <3>5 DEF BuiltArc
    <3> QED BY <1>6, <3>4, <3>5, <3>6
  <2>4. ChArcOK(d, p)' <=> /\ a.weight = metric[d][p] /\ a.original \in BOOLEAN
                           /\ a.original => weight[a.first] = a.weight /\ input.arcs[a.first][2] = a.second
                           /\ ~filtered /\ ~a.original => Unpacks(d, p)' /\ ch'["b"][a.first].weight + ch'["f"][a.second].weight = a.weight
    BY <1>1, <2>2 DEF ChArcOK
  <2> QED BY <2>2, <2>3, <2>4 DEF BuiltArc
<1>15. ChOK'
  <2>1. \A d \in Dirs : DOMAIN ch'[d] = Kept(metric)'[d] /\ DOMAIN ch'[d] = keep[d]
    BY <1>6, <1>8, <1>12
  <2>2. ~filtered' => pc' = "perfect"
    BY <1>1, <1>7, <1>11
  <2> QED BY <1>14, <2>1, <2>2 DEF ChOK
<1>16. pc' # "search" /\ LeftToSearch' = {}
  BY <1>1 DEF LeftToSearch
<1> QED BY <1>1, <1>12, <1>13, <1>15, <1>16 DEF SearchOK

(* What it returned is not touched again.                                   *)
LEMMA SearchStutters == ASSUME SearchOK, UNCHANGED cchVars PROVE SearchOK'
<1>1. UNCHANGED <<input, order, filtered, cch, weight, metric, pc, sweep, ch>>
  BY DEF cchVars, graphVars
<1>2. SUFFICES ASSUME pc \in {"search", "perfect", "invalid"} PROVE SearchOK'
  BY <1>1 DEF SearchOK
<1>3. PICK m : m = metric
  OBVIOUS
<1>4. /\ Lowered(m)' <=> Lowered(m)
      /\ Kept(m)' = Kept(m) /\ (ExactOK' <=> ExactOK) /\ TrianglesOfArcs' = TrianglesOfArcs
      /\ \A t : Searched(m, t)' <=> Searched(m, t)
  BY <1>1, SearchFrame
<1>5. metric' = m
  BY <1>1, <1>3
<1>6. (Lowered(metric)' <=> Lowered(m)') /\ Kept(metric)' = Kept(m)'
  BY <1>5 DEF Lowered, Kept
<1>7. \A t : Searched(metric, t)' <=> Searched(m, t)'
  BY <1>5 DEF Searched
<1>8. LeftToSearch' = LeftToSearch
  BY <1>1 DEF LeftToSearch
<1>9. ExactOK' /\ Lowered(metric)' /\ (~filtered' => \A t \in TrianglesOfArcs' \ LeftToSearch' : Searched(metric, t)')
  BY <1>1, <1>2, <1>3, <1>4, <1>6, <1>7, <1>8 DEF SearchOK
<1>10. Kept(metric)' = Kept(metric)
  BY <1>3, <1>4, <1>6
<1>11. CASE pc = "search"
  BY <1>1, <1>4, <1>9, <1>10, <1>11 DEF SearchOK
<1>12. CASE pc # "search"
  <2>1. ChOK
    BY <1>2, <1>12 DEF SearchOK
  <2>2. \A d, p : Unpacks(d, p)' <=> Unpacks(d, p)
    BY <1>1, GraphFrame DEF Unpacks, Halves
  <2>3. \A d, p : ChArcOK(d, p)' <=> ChArcOK(d, p)
    BY <1>1, <2>2 DEF ChArcOK
  <2>4. ChOK'
    BY <1>1, <1>10, <2>1, <2>3 DEF ChOK
  <2> QED BY <1>1, <1>9, <1>12, <2>4 DEF SearchOK
<1> QED BY <1>11, <1>12

LEMMA NextKeepsSearch == IInv /\ SearchOK /\ [Next]_vars => SearchOK'
<1> SUFFICES ASSUME IInv, SearchOK, [Next]_vars PROVE SearchOK'
  OBVIOUS
<1>1. CASE Customizing
  <2>1. CASE StartWitnessSearch
    BY <2>1, StartWitnessSearchStep
  <2>2. CASE WitnessStep
    BY <2>2, WitnessStepKeeps
  <2>3. CASE BuildPerfectWitness
    BY <2>3, BuildPerfectWitnessStep
  <2>4. CASE ContractNode \/ BuildTree \/ FilterNode \/ KeepArcs
    BY <2>4 DEF SearchOK, ContractNode, BuildTree, FilterNode, KeepArcs
  <2>5. CASE Customize \/ RelaxPair \/ NextNode
    BY <2>5 DEF SearchOK, Customize, RelaxPair, NextNode
  <2>6. CASE StartParallel \/ Barrier \/ PartialStep \/ CustomizeAnew
    BY <2>6 DEF SearchOK, StartParallel, Barrier, NextLevel, PartialStep, CustomizeAnew
  <2>7. ASSUME NEW t \in Threads, TakeArc(t) \/ ReadTop(t) \/ AtomicMinTo(t) PROVE SearchOK'
    <3>1. pc = "parallel"
      BY <2>7 DEF IInv, TypeOK, TakeArc, ReadTop, AtomicMinTo
    <3>2. pc' = pc
      BY <2>7 DEF TakeArc, ReadTop, AtomicMinTo
    <3> QED BY <3>1, <3>2 DEF SearchOK
  <2> QED BY <1>1, <2>1, <2>2, <2>3, <2>4, <2>5, <2>6, <2>7 DEF Customizing
<1>2. CASE \E w \in input.weights : Reweigh(w)
  BY <1>2 DEF Reweigh, SearchOK
<1>3. CASE UNCHANGED cchVars
  BY <1>3, SearchStutters
<1> QED BY <1>1, <1>2, <1>3 DEF Next, vars

-----------------------------------------------------------------------------
(* The distances over the arcs that are kept.                               *)
SearchDone == SearchEnds /\ ChOK
ArcsUp(d, x) == {p[2] : p \in {e \in DOMAIN ch[d] : e[1] = x}}
LeastUp(d, f, x, z) == Min({Inf} \cup {Plus(ch[d][<<x, y>>].weight, f[y][z]) : y \in ArcsUp(d, x)})
UpTables == [Nodes -> [Nodes -> Numbers]]

LEMMA ArcsUpLead ==
  ASSUME SearchDone, NEW d \in Dirs, NEW x \in Nodes
  PROVE  \A y : /\ y \in ArcsUp(d, x) <=> <<x, y>> \in Kept(metric)[d]
                /\ y \in ArcsUp(d, x) => /\ y \in Nodes /\ x < y /\ ch[d][<<x, y>>].weight = metric[d][<<x, y>>]
                                        /\ metric[d][<<x, y>>] \in Numbers /\ Shortest(d, x, y) <= metric[d][<<x, y>>]
<1> SUFFICES ASSUME NEW y
             PROVE  /\ y \in ArcsUp(d, x) <=> <<x, y>> \in Kept(metric)[d]
                    /\ y \in ArcsUp(d, x) => /\ y \in Nodes /\ x < y /\ ch[d][<<x, y>>].weight = metric[d][<<x, y>>]
                                            /\ metric[d][<<x, y>>] \in Numbers /\ Shortest(d, x, y) <= metric[d][<<x, y>>]
  OBVIOUS
<1>1. SearchEnds /\ DOMAIN ch[d] = Kept(metric)[d] /\ Kept(metric)[d] \subseteq cch.up /\ cch.up \subseteq Pairs
  BY DEF SearchDone, ChOK, Kept, SearchEnds, GraphOK
<1>2. \A p \in cch.up : p = <<p[1], p[2]>>
  BY <1>1 DEF Pairs
<1>3. y \in ArcsUp(d, x) <=> <<x, y>> \in Kept(metric)[d]
  BY <1>1, <1>2 DEF ArcsUp
<1>4. ASSUME y \in ArcsUp(d, x)
      PROVE  /\ y \in Nodes /\ x < y /\ ch[d][<<x, y>>].weight = metric[d][<<x, y>>]
             /\ metric[d][<<x, y>>] \in Numbers /\ Shortest(d, x, y) <= metric[d][<<x, y>>]
  <2>1. PICK p : p = <<x, y>>
    OBVIOUS
  <2>2. p \in cch.up /\ p \in DOMAIN ch[d] /\ p[1] = x /\ p[2] = y
    BY <1>1, <1>3, <1>4, <2>1
  <2>3. ch[d][p].weight = metric[d][p]
    BY <2>2 DEF SearchDone, ChOK, ChArcOK
  <2>4. /\ y \in Nodes /\ x < y /\ metric[d][p] \in Nat /\ Shortest(d, x, y) <= metric[d][p]
        /\ ExactWeight(d, p) \in Nat /\ ExactWeight(d, p) <= Inf /\ metric[d][p] <= ExactWeight(d, p)
    BY <1>1, <2>2, SearchedArcs
  <2>5. metric[d][p] <= Inf
    BY <2>4, InfAssumption
  <2> QED BY <2>1, <2>3, <2>4, <2>5 DEF Numbers
<1> QED BY <1>3, <1>4

LEMMA LeastUpIsLeast ==
  ASSUME SearchDone, NEW d \in Dirs, NEW x \in Nodes, NEW f \in UpTables, NEW z \in Nodes
  PROVE  /\ LeastUp(d, f, x, z) \in Numbers
         /\ \A y \in ArcsUp(d, x) : f[y][z] \in Nat /\ LeastUp(d, f, x, z) <= metric[d][<<x, y>>] + f[y][z]
         /\ \/ LeastUp(d, f, x, z) = Inf
            \/ \E y \in ArcsUp(d, x) : LeastUp(d, f, x, z) = metric[d][<<x, y>>] + f[y][z]
<1>1. PICK S : S = {Inf} \cup {Plus(metric[d][<<x, y>>], f[y][z]) : y \in ArcsUp(d, x)}
  OBVIOUS
<1>2. LeastUp(d, f, x, z) = Min(S)
  <2>1. {Plus(ch[d][<<x, y>>].weight, f[y][z]) : y \in ArcsUp(d, x)} = {Plus(metric[d][<<x, y>>], f[y][z]) : y \in ArcsUp(d, x)}
    BY ArcsUpLead
  <2> QED BY <1>1, <2>1 DEF LeastUp
<1>3. ASSUME NEW y \in ArcsUp(d, x)
      PROVE  /\ Plus(metric[d][<<x, y>>], f[y][z]) \in Numbers /\ Plus(metric[d][<<x, y>>], f[y][z]) <= metric[d][<<x, y>>] + f[y][z]
             /\ Plus(metric[d][<<x, y>>], f[y][z]) = Inf \/ Plus(metric[d][<<x, y>>], f[y][z]) = metric[d][<<x, y>>] + f[y][z]
             /\ f[y][z] \in Nat /\ metric[d][<<x, y>>] \in Nat
  <2>1. y \in Nodes /\ metric[d][<<x, y>>] \in Numbers
    BY ArcsUpLead
  <2>2. f[y][z] \in Numbers
    BY <2>1 DEF UpTables
  <2> PICK a, b : a = metric[d][<<x, y>>] /\ b = f[y][z]
    OBVIOUS
  <2>3. Plus(a, b) \in Numbers /\ Plus(a, b) <= a + b /\ (Plus(a, b) = Inf \/ Plus(a, b) = a + b)
    BY <2>1, <2>2, PlusOfNumbers
  <2> QED BY <2>1, <2>2, <2>3 DEF Numbers
<1>4. Inf \in Numbers /\ S \subseteq Numbers /\ S # {} /\ S \in SUBSET Nat
  <2>1. Inf \in Numbers
    BY InfAssumption DEF Numbers
  <2>2. S \subseteq Numbers
    BY <1>1, <1>3, <2>1
  <2> QED BY <1>1, <2>1, <2>2 DEF Numbers
<1>5. Min(S) \in S /\ \A v \in S : Min(S) <= v
  BY <1>4, MinIsLeast
<1>6. PICK l : l = Min(S)
  OBVIOUS
<1>7. l \in S /\ l \in Numbers /\ l \in Nat /\ \A v \in S : l <= v
  BY <1>4, <1>5, <1>6 DEF Numbers
<1>8. ASSUME NEW y \in ArcsUp(d, x) PROVE f[y][z] \in Nat /\ l <= metric[d][<<x, y>>] + f[y][z]
  <2>1. l <= Plus(metric[d][<<x, y>>], f[y][z])
    BY <1>1, <1>7
  <2>2. Plus(metric[d][<<x, y>>], f[y][z]) \in Nat
    BY <1>3 DEF Numbers
  <2> QED BY <2>1, <2>2, <1>3, <1>7
<1>9. l = Inf \/ \E y \in ArcsUp(d, x) : l = metric[d][<<x, y>>] + f[y][z]
  BY <1>1, <1>3, <1>7
<1> QED BY <1>2, <1>6, <1>7, <1>8, <1>9

UpRank == [x \in Nodes |-> input.n - 1 - x]
UpStep(d) == [x \in Nodes |-> [f \in UpTables |-> [z \in Nodes |-> IF z = x THEN 0 ELSE LeastUp(d, f, x, z)]]]
UpDistanceBy(U, d) == U = [x \in Nodes |-> [z \in Nodes |-> IF z = x THEN 0 ELSE Min({Inf} \cup {Plus(ch[d][<<x, y>>].weight, U[y][z]) : y \in {p[2] : p \in {e \in DOMAIN ch[d] : e[1] = x}}})]]
LEMMA UpIsStepwise ==
  ASSUME SearchDone, NEW d \in Dirs
  PROVE  /\ RankedBelow(Nodes, UpRank, input.n)
         /\ Stepwise(Nodes, [Nodes -> Numbers], UpStep(d)) /\ Local(Nodes, [Nodes -> Numbers], UpRank, UpStep(d))
<1>1. input \in Inputs /\ weight \in input.weights /\ input.n \in Nat /\ Nodes = 0 .. input.n - 1
  BY InputIsGraph DEF SearchDone, SearchEnds, GraphOK
<1>2. RankedBelow(Nodes, UpRank, input.n)
  BY <1>1 DEF RankedBelow, UpRank
<1>3. ASSUME NEW x \in Nodes, NEW f \in UpTables
      PROVE  UpStep(d)[x][f] = [z \in Nodes |-> IF z = x THEN 0 ELSE LeastUp(d, f, x, z)]
  BY DEF UpStep
<1>4. Stepwise(Nodes, [Nodes -> Numbers], UpStep(d))
  <2> SUFFICES ASSUME NEW x \in Nodes, NEW f \in UpTables PROVE UpStep(d)[x][f] \in [Nodes -> Numbers]
    BY DEF Stepwise, UpTables
  <2>1. \A z \in Nodes : (IF z = x THEN 0 ELSE LeastUp(d, f, x, z)) \in Numbers
    <3>1. 0 \in Numbers
      BY InfAssumption DEF Numbers
    <3> QED BY <3>1, LeastUpIsLeast
  <2>2. [z \in Nodes |-> IF z = x THEN 0 ELSE LeastUp(d, f, x, z)] \in [Nodes -> Numbers]
    BY <2>1
  <2>3. UpStep(d)[x][f] = [z \in Nodes |-> IF z = x THEN 0 ELSE LeastUp(d, f, x, z)]
    BY <1>3
  <2> QED BY <2>2, <2>3
<1>5. Local(Nodes, [Nodes -> Numbers], UpRank, UpStep(d))
  <2> SUFFICES ASSUME NEW x \in Nodes, NEW f \in UpTables, NEW g \in UpTables, \A e \in Lower(Nodes, UpRank, x) : f[e] = g[e]
               PROVE  UpStep(d)[x][f] = UpStep(d)[x][g]
    BY DEF Local, UpTables
  <2>1. \A y \in ArcsUp(d, x) : f[y] = g[y]
    <3> SUFFICES ASSUME NEW y \in ArcsUp(d, x) PROVE y \in Lower(Nodes, UpRank, x)
      OBVIOUS
    <3>1. y \in Nodes /\ x < y
      BY ArcsUpLead
    <3> QED BY <1>1, <3>1 DEF Lower, UpRank
  <2>2. \A z : LeastUp(d, f, x, z) = LeastUp(d, g, x, z)
    <3> SUFFICES ASSUME NEW z PROVE LeastUp(d, f, x, z) = LeastUp(d, g, x, z)
      OBVIOUS
    <3>1. {Plus(ch[d][<<x, y>>].weight, f[y][z]) : y \in ArcsUp(d, x)} = {Plus(ch[d][<<x, y>>].weight, g[y][z]) : y \in ArcsUp(d, x)}
      BY <2>1
    <3> QED BY <3>1 DEF LeastUp
  <2>3. [z \in Nodes |-> IF z = x THEN 0 ELSE LeastUp(d, f, x, z)] = [z \in Nodes |-> IF z = x THEN 0 ELSE LeastUp(d, g, x, z)]
    BY <2>2
  <2>4. /\ UpStep(d)[x][f] = [z \in Nodes |-> IF z = x THEN 0 ELSE LeastUp(d, f, x, z)]
        /\ UpStep(d)[x][g] = [z \in Nodes |-> IF z = x THEN 0 ELSE LeastUp(d, g, x, z)]
    BY <1>3
  <2> QED BY <2>3, <2>4
<1> QED BY <1>2, <1>4, <1>5

LEMMA DownInduction ==
  ASSUME input \in Inputs, NEW S, \A x \in Nodes : (\A y \in Nodes : x < y => y \in S) => x \in S
  PROVE  Nodes \subseteq S
<1> DEFINE T == {j \in Nat : \A x \in Nodes : input.n - x <= j => x \in S}
<1>1. input.n \in Nat /\ Nodes = 0 .. input.n - 1
  BY NodesAreNumbers DEF Nodes
<1>2. 0 \in T
  BY <1>1
<1>3. ASSUME NEW j \in Nat, j \in T PROVE j + 1 \in T
  <2> SUFFICES ASSUME NEW x \in Nodes, input.n - x <= j + 1 PROVE x \in S
    OBVIOUS
  <2>1. \A y \in Nodes : x < y => y \in S
    BY <1>1, <1>3
  <2> QED BY <2>1
<1>4. Nat \subseteq T
  <2> HIDE DEF T
  <2> QED BY <1>2, <1>3, InductionOnNat
<1>5. input.n \in T
  BY <1>1, <1>4
<1> QED BY <1>1, <1>5

LEMMA UpDistanceRecurs ==
  ASSUME SearchDone, NEW d \in Dirs, NEW U, U = UpDistance(d)
  PROVE  U \in UpTables /\ \A x, z \in Nodes : U[x][z] = IF z = x THEN 0 ELSE LeastUp(d, U, x, z)
<1>1. input \in Inputs /\ input.n \in Nat
  BY InputIsGraph DEF SearchDone, SearchEnds, GraphOK
<1>2. PICK F : F \in UpTables /\ F = [x \in Nodes |-> [z \in Nodes |-> IF z = x THEN 0 ELSE LeastUp(d, F, x, z)]]
  <2>1. PICK V : V = [Nodes -> Numbers]
    OBVIOUS
  <2>2. V # {}
    <3>1. [x \in Nodes |-> 0] \in V
      BY <2>1, InfAssumption DEF Numbers
    <3> QED BY <3>1
  <2>3. PICK step : step = UpStep(d)
    OBVIOUS
  <2>4. RankedBelow(Nodes, UpRank, input.n) /\ Stepwise(Nodes, V, step) /\ Local(Nodes, V, UpRank, step)
    BY <2>1, <2>3, UpIsStepwise
  <2>5. PICK n : n = input.n
    OBVIOUS
  <2>6. PICK rank : rank = UpRank
    OBVIOUS
  <2>7. Recurses(Nodes, V, step)
    BY <1>1, <2>2, <2>4, <2>5, <2>6, Recursing
  <2>8. PICK F \in [Nodes -> V] : \A x \in Nodes : F[x] = step[x][F]
    BY <2>7 DEF Recurses
  <2>9. F \in UpTables
    BY <2>1, <2>8 DEF UpTables
  <2>10. \A x \in Nodes : F[x] = [z \in Nodes |-> IF z = x THEN 0 ELSE LeastUp(d, F, x, z)]
    BY <2>3, <2>8, <2>9 DEF UpStep
  <2>11. F = [x \in Nodes |-> F[x]]
    BY <2>8
  <2>12. F = [x \in Nodes |-> [z \in Nodes |-> IF z = x THEN 0 ELSE LeastUp(d, F, x, z)]]
    BY <2>10, <2>11
  <2> QED BY <2>9, <2>12
<1>3. UpDistanceBy(F, d)
  BY <1>2 DEF UpDistanceBy, LeastUp, ArcsUp
<1>4. PICK O : O = CHOOSE W : UpDistanceBy(W, d)
  OBVIOUS
<1>5. UpDistanceBy(O, d)
  BY <1>3, <1>4
<1>6. U = O
  BY <1>4 DEF UpDistance, UpDistanceBy
<1>7. U = [x \in Nodes |-> [z \in Nodes |-> IF z = x THEN 0 ELSE LeastUp(d, U, x, z)]]
  <2>1. UpDistanceBy(U, d)
    BY <1>5, <1>6
  <2> QED BY <2>1 DEF UpDistanceBy, LeastUp, ArcsUp
<1>8. \A x \in Nodes : U[x] = F[x]
  <2> DEFINE S == {x \in Nodes : U[x] = F[x]}
  <2>1. ASSUME NEW x \in Nodes, \A y \in Nodes : x < y => y \in S PROVE x \in S
    <3>1. \A y \in ArcsUp(d, x) : U[y] = F[y]
      BY <2>1, ArcsUpLead
    <3>2. ASSUME NEW z \in Nodes PROVE LeastUp(d, U, x, z) = LeastUp(d, F, x, z)
      <4>1. {Plus(ch[d][<<x, y>>].weight, U[y][z]) : y \in ArcsUp(d, x)} = {Plus(ch[d][<<x, y>>].weight, F[y][z]) : y \in ArcsUp(d, x)}
        BY <3>1
      <4> QED BY <4>1 DEF LeastUp
    <3>3. /\ U[x] = [z \in Nodes |-> IF z = x THEN 0 ELSE LeastUp(d, U, x, z)]
          /\ F[x] = [z \in Nodes |-> IF z = x THEN 0 ELSE LeastUp(d, F, x, z)]
      BY <1>2, <1>7
    <3>4. [z \in Nodes |-> IF z = x THEN 0 ELSE LeastUp(d, U, x, z)] = [z \in Nodes |-> IF z = x THEN 0 ELSE LeastUp(d, F, x, z)]
      BY <3>2
    <3>5. U[x] = F[x]
      BY <3>3, <3>4
    <3> QED BY <3>5
  <2>2. Nodes \subseteq S
    <3> HIDE DEF S
    <3> QED BY <1>1, <2>1, DownInduction
  <2> QED BY <2>2
<1>9. U = F
  <2>1. U = [x \in Nodes |-> U[x]]
    BY <1>7
  <2>2. F = [x \in Nodes |-> F[x]]
    BY <1>2
  <2> QED BY <1>8, <2>1, <2>2
<1>10. \A x, z \in Nodes : F[x][z] = IF z = x THEN 0 ELSE LeastUp(d, F, x, z)
  BY <1>2
<1> QED BY <1>2, <1>9, <1>10

(* An exact arc of the length of a shortest way has not been lowered.       *)
LEMMA ShortestArcIsKept ==
  ASSUME SearchDone, NEW d \in Dirs, NEW x \in Nodes, NEW w \in Nodes, x < w,
         Near(d, x, x, w) = Shortest(d, x, w), Shortest(d, x, w) < Inf
  PROVE  w \in ArcsUp(d, x) /\ metric[d][<<x, w>>] = Shortest(d, x, w)
<1>1. /\ input \in Inputs /\ weight \in input.weights /\ ExactOK /\ SearchEnds
  BY DEF SearchDone, SearchEnds, GraphOK
<1>2. PICK p : p = <<x, w>>
  OBVIOUS
<1>3. ExactWeight(d, p) = Near(d, x, x, w) /\ Shortest(d, x, w) \in Nat
  BY <1>1, <1>2, WeightsAreNear
<1>4. p \in cch.up
  <2>1. p \in Pairs /\ ExactWeight(d, p) # Inf
    BY <1>2, <1>3, InfAssumption DEF Pairs
  <2> QED BY <2>1, <1>1 DEF ExactOK
<1>5. metric[d][p] \in Nat /\ Shortest(d, x, w) <= metric[d][p] /\ metric[d][p] <= ExactWeight(d, p)
  BY <1>1, <1>2, <1>4, SearchedArcs
<1>6. metric[d][p] = ExactWeight(d, p) /\ metric[d][p] # Inf /\ metric[d][p] = Shortest(d, x, w)
  BY <1>3, <1>5, InfAssumption
<1>7. p \in Kept(metric)[d]
  BY <1>4, <1>6 DEF Kept
<1> QED BY <1>2, <1>6, <1>7, ArcsUpLead

(* No way up is shorter than the distance, and to the top of a shortest way *)
(* that rises over lower nodes one has it.                                  *)
Rise(d, U, x, z) ==
  /\ U[x][z] \in Numbers /\ Shortest(d, x, z) <= U[x][z]
  /\ x <= z /\ Below(d, x, z) = Shortest(d, x, z) /\ Shortest(d, x, z) < Inf => U[x][z] = Shortest(d, x, z)
LEMMA UpDistanceRises ==
  ASSUME SearchDone, NEW d \in Dirs, NEW U, U = UpDistance(d)
  PROVE  \A x, z \in Nodes : Rise(d, U, x, z)
<1> DEFINE S == {x \in Nodes : \A z \in Nodes : Rise(d, U, x, z)}
<1>1. input \in Inputs /\ weight \in input.weights /\ input.n \in Nat /\ Nodes = 0 .. input.n - 1
  BY InputIsGraph DEF SearchDone, SearchEnds, GraphOK
<1>2. U \in UpTables /\ \A x, z \in Nodes : U[x][z] = IF z = x THEN 0 ELSE LeastUp(d, U, x, z)
  BY UpDistanceRecurs
<1>3. ASSUME NEW x \in Nodes, \A y \in Nodes : x < y => y \in S PROVE x \in S
  <2> SUFFICES ASSUME NEW z \in Nodes PROVE Rise(d, U, x, z)
    OBVIOUS
  <2>1. \A u, v \in Nodes : /\ Shortest(d, u, v) \in Nat /\ Shortest(d, u, v) <= Inf /\ Shortest(d, u, u) = 0
                            /\ Below(d, u, v) \in Nat /\ Below(d, u, v) = Near(d, v, u, v) /\ Shortest(d, u, v) <= Below(d, u, v)
    <3> SUFFICES ASSUME NEW u \in Nodes, NEW v \in Nodes
                 PROVE  /\ Shortest(d, u, v) \in Nat /\ Shortest(d, u, v) <= Inf /\ Shortest(d, u, u) = 0
                        /\ Below(d, u, v) \in Nat /\ Below(d, u, v) = Near(d, v, u, v) /\ Shortest(d, u, v) <= Below(d, u, v)
      OBVIOUS
    <3>1. Shortest(d, u, v) \in Nat /\ Shortest(d, u, v) <= Inf /\ Shortest(d, u, u) = 0
      BY <1>1, WeightsAreNear
    <3>2. Below(d, u, v) \in Nat /\ Below(d, u, v) = Near(d, v, u, v) /\ Shortest(d, u, v) <= Below(d, u, v)
      BY <1>1, BelowIsNear
    <3> QED BY <3>1, <3>2
  <2>2. \A u, v, w \in Nodes : Shortest(d, u, w) <= Shortest(d, u, v) + Shortest(d, v, w)
    BY <1>1, NearIsNear
  <2>3. CASE z = x
    <3>1. U[x][z] = 0 /\ Shortest(d, x, z) = 0
      BY <1>2, <2>1, <2>3
    <3> QED BY <3>1, InfAssumption DEF Rise, Numbers
  <2>4. CASE z # x
    <3>1. PICK l : l = LeastUp(d, U, x, z)
      OBVIOUS
    <3>2. U[x][z] = l
      BY <1>2, <2>4, <3>1
    <3>3. /\ l \in Numbers /\ \A y \in ArcsUp(d, x) : U[y][z] \in Nat /\ l <= metric[d][<<x, y>>] + U[y][z]
          /\ l = Inf \/ \E y \in ArcsUp(d, x) : l = metric[d][<<x, y>>] + U[y][z]
      BY <1>2, <3>1, LeastUpIsLeast
    <3>4. \A y \in ArcsUp(d, x) : /\ y \in Nodes /\ x < y /\ metric[d][<<x, y>>] \in Numbers
                                 /\ Shortest(d, x, y) <= metric[d][<<x, y>>]
      BY ArcsUpLead
    <3>5. l \in Nat
      BY <3>3 DEF Numbers
    <3>6. Shortest(d, x, z) <= l
      <4>1. CASE l = Inf
        BY <4>1, <2>1
      <4>2. ASSUME NEW y \in ArcsUp(d, x), l = metric[d][<<x, y>>] + U[y][z] PROVE Shortest(d, x, z) <= l
        <5>1. PICK m, u : m = metric[d][<<x, y>>] /\ u = U[y][z]
          OBVIOUS
        <5>2. y \in Nodes /\ x < y /\ m \in Nat /\ u \in Nat /\ Shortest(d, x, y) <= m
          BY <3>3, <3>4, <5>1 DEF Numbers
        <5>3. Shortest(d, y, z) <= u
          BY <1>3, <5>1, <5>2 DEF Rise
        <5>4. Shortest(d, x, z) <= Shortest(d, x, y) + Shortest(d, y, z)
          BY <2>2, <5>2
        <5>5. Shortest(d, x, z) \in Nat /\ Shortest(d, x, y) \in Nat /\ Shortest(d, y, z) \in Nat
          BY <2>1, <5>2
        <5> QED BY <4>2, <5>1, <5>2, <5>3, <5>4, <5>5
      <4> QED BY <3>3, <4>1, <4>2
    <3>7. ASSUME x <= z, Below(d, x, z) = Shortest(d, x, z), Shortest(d, x, z) < Inf PROVE l <= Shortest(d, x, z)
      <4>1. x < z /\ z \in x .. input.n
        BY <1>1, <2>4, <3>7
      <4>2. PICK w : FirstRise(d, z, x, z, w)
        BY <1>1, <4>1, RisesFirst
      <4>3. w \in Nodes /\ x < w /\ w <= z /\ Near(d, x, x, w) + Near(d, z, w, z) <= Near(d, z, x, z)
        BY <4>2, <1>1 DEF FirstRise
      <4>4. PICK e, b : e = Near(d, x, x, w) /\ b = Below(d, w, z)
        OBVIOUS
      <4>5. e \in Nat /\ b \in Nat /\ b = Near(d, z, w, z) /\ Shortest(d, x, w) <= e /\ Shortest(d, w, z) <= b
        BY <1>1, <2>1, <4>3, <4>4, WeightsAreNear
      <4>6. e + b <= Shortest(d, x, z)
        BY <2>1, <3>7, <4>3, <4>4, <4>5
      <4>7. PICK s, s1, s2 : s = Shortest(d, x, z) /\ s1 = Shortest(d, x, w) /\ s2 = Shortest(d, w, z)
        OBVIOUS
      <4>8. s \in Nat /\ s1 \in Nat /\ s2 \in Nat /\ s <= s1 + s2
        BY <2>1, <2>2, <4>3, <4>7
      <4>9. e = s1 /\ b = s2 /\ s1 < Inf /\ s2 < Inf /\ s = s1 + s2
        BY <3>7, <4>5, <4>6, <4>7, <4>8, InfAssumption
      <4>10. w \in ArcsUp(d, x) /\ metric[d][<<x, w>>] = s1
        BY <4>3, <4>4, <4>7, <4>9, ShortestArcIsKept
      <4>11. Rise(d, U, w, z)
        BY <1>3, <4>3
      <4>12. U[w][z] = s2
        BY <4>3, <4>4, <4>7, <4>9, <4>11 DEF Rise
      <4>13. l <= metric[d][<<x, w>>] + U[w][z]
        BY <3>3, <4>10
      <4> QED BY <4>7, <4>9, <4>10, <4>12, <4>13
    <3>8. x <= z /\ Below(d, x, z) = Shortest(d, x, z) /\ Shortest(d, x, z) < Inf => l = Shortest(d, x, z)
      BY <2>1, <3>5, <3>6, <3>7
    <3> QED BY <3>2, <3>3, <3>6, <3>8 DEF Rise
  <2> QED BY <2>3, <2>4
<1>4. Nodes \subseteq S
  <2> HIDE DEF S
  <2> QED BY <1>1, <1>3, DownInduction
<1> QED BY <1>4

LEMMA KeptArcsKeepDistances == ASSUME SearchDone PROVE KeepsDistances(TrueDistance)
<1>1. input \in Inputs /\ weight \in input.weights /\ "f" \in Dirs /\ "b" \in Dirs /\ Opposite("f") = "b"
  BY DEF SearchDone, SearchEnds, GraphOK, Dirs, Opposite
<1>2. PICK F : F = UpDistance("f")
  OBVIOUS
<1>3. PICK B : B = UpDistance("b")
  OBVIOUS
<1>4. \A x, z \in Nodes : Rise("f", F, x, z) /\ Rise("b", B, x, z)
  BY <1>1, <1>2, <1>3, UpDistanceRises
<1>5. ASSUME NEW x \in Nodes, NEW y \in Nodes
      PROVE  TrueDistance[<<x, y>>] = Min({Inf} \cup {Plus(F[x][z], B[y][z]) : z \in Nodes})
  <2>1. PICK S : S = {Inf} \cup {Plus(F[x][z], B[y][z]) : z \in Nodes}
    OBVIOUS
  <2>2. PICK s : s = Shortest("f", x, y)
    OBVIOUS
  <2>3. s = TrueDistance[<<x, y>>] /\ s \in Nat /\ s <= Inf
    <3>1. Toward("f", TrueDistance, x, y) = s /\ s \in Nat /\ s <= Inf
      BY <1>1, <2>2, WeightsAreNear
    <3> QED BY <3>1 DEF Toward
  <2>4. ASSUME NEW z \in Nodes
        PROVE  /\ Plus(F[x][z], B[y][z]) \in Nat /\ s <= Plus(F[x][z], B[y][z])
               /\ Plus(F[x][z], B[y][z]) <= F[x][z] + B[y][z] /\ F[x][z] \in Nat /\ B[y][z] \in Nat
    <3>1. PICK a, b : a = F[x][z] /\ b = B[y][z]
      OBVIOUS
    <3>2. a \in Numbers /\ b \in Numbers /\ Shortest("f", x, z) <= a /\ Shortest("b", y, z) <= b
      BY <1>4, <3>1 DEF Rise
    <3>3. Plus(a, b) \in Numbers /\ Plus(a, b) <= a + b /\ (Plus(a, b) = Inf \/ Plus(a, b) = a + b) /\ a \in Nat /\ b \in Nat
      BY <3>2, PlusOfNumbers DEF Numbers
    <3>4. Shortest("b", y, z) = Shortest("f", z, y)
      BY <1>1, BelowIsNear
    <3>5. s <= Shortest("f", x, z) + Shortest("f", z, y)
      BY <1>1, <2>2, NearIsNear
    <3>6. Shortest("f", x, z) \in Nat /\ Shortest("f", z, y) \in Nat
      BY <1>1, WeightsAreNear
    <3>7. s <= a + b
      BY <3>2, <3>3, <3>4, <3>5, <3>6, <2>3
    <3>8. s <= Plus(a, b) /\ Plus(a, b) \in Nat
      BY <3>3, <3>7, <2>3 DEF Numbers
    <3> QED BY <3>1, <3>3, <3>8
  <2>5. S \in SUBSET Nat /\ S # {} /\ \A v \in S : s <= v
    BY <2>1, <2>3, <2>4, InfAssumption
  <2>6. Min(S) \in S /\ \A v \in S : Min(S) <= v
    BY <2>5, MinIsLeast
  <2>7. PICK l : l = Min(S)
    OBVIOUS
  <2>8. l \in S /\ l \in Nat /\ s <= l /\ \A v \in S : l <= v
    BY <2>5, <2>6, <2>7
  <2>9. l <= s
    <3>1. CASE s = Inf
      BY <2>1, <2>8, <3>1
    <3>2. CASE s < Inf
      <4>1. PICK z : Peak("f", x, y, z, s)
        BY <1>1, <2>2, <3>2, HighestNode
      <4>2. z \in Nodes /\ x <= z /\ y <= z /\ Below("f", x, z) + Below("b", y, z) <= s
        BY <4>1, <1>1 DEF Peak
      <4>3. PICK a, b, a1, b1 : a = Shortest("f", x, z) /\ b = Shortest("b", y, z) /\ a1 = Below("f", x, z) /\ b1 = Below("b", y, z)
        OBVIOUS
      <4>4. a \in Nat /\ b \in Nat /\ a1 \in Nat /\ b1 \in Nat /\ a <= a1 /\ b <= b1
        BY <1>1, <4>2, <4>3, BelowIsNear
      <4>5. b = Shortest("f", z, y)
        BY <1>1, <4>2, <4>3, BelowIsNear
      <4>6. s <= a + b
        BY <1>1, <2>2, <4>2, <4>3, <4>5, NearIsNear
      <4>7. a = a1 /\ b = b1 /\ a < Inf /\ b < Inf /\ s = a + b
        BY <2>3, <3>2, <4>2, <4>3, <4>4, <4>6, InfAssumption
      <4>8. F[x][z] = a
        BY <1>4, <4>2, <4>3, <4>7 DEF Rise
      <4>9. B[y][z] = b
        BY <1>4, <4>2, <4>3, <4>7 DEF Rise
      <4>10. Plus(F[x][z], B[y][z]) \in S
        BY <2>1, <4>2
      <4>11. l <= Plus(F[x][z], B[y][z]) /\ Plus(F[x][z], B[y][z]) <= F[x][z] + B[y][z] /\ Plus(F[x][z], B[y][z]) \in Nat
        BY <2>4, <2>8, <4>2, <4>10
      <4> QED BY <2>3, <2>8, <4>4, <4>7, <4>8, <4>9, <4>11
    <3> QED BY <2>3, <3>1, <3>2, InfAssumption
  <2> QED BY <2>1, <2>3, <2>7, <2>8, <2>9
<1>6. \A x, y \in Nodes : TrueDistance[<<x, y>>] = Min({Inf} \cup {Plus(UpDistance("f")[x][z], UpDistance("b")[y][z]) : z \in Nodes})
  <2> HIDE DEF UpDistance
  <2> SUFFICES ASSUME NEW x \in Nodes, NEW y \in Nodes
               PROVE  TrueDistance[<<x, y>>] = Min({Inf} \cup {Plus(UpDistance("f")[x][z], UpDistance("b")[y][z]) : z \in Nodes})
    OBVIOUS
  <2>1. {Plus(F[x][z], B[y][z]) : z \in Nodes} = {Plus(UpDistance("f")[x][z], UpDistance("b")[y][z]) : z \in Nodes}
    BY <1>2, <1>3
  <2>2. TrueDistance[<<x, y>>] = Min({Inf} \cup {Plus(F[x][z], B[y][z]) : z \in Nodes})
    BY <1>5
  <2> QED BY <2>1, <2>2
<1> QED BY <1>6 DEF KeepsDistances

LEMMA SearchIsPerfect == IInv /\ SearchOK => WitnessSearchIsPerfect
<1> SUFFICES ASSUME IInv, SearchOK, pc \in {"perfect", "invalid"}
             PROVE  /\ KeepsDistances(TrueDistance)
                    /\ ~filtered => pc = "perfect" /\ \A d \in Dirs : \A p \in DOMAIN ch[d] : ArcIsPerfect(TrueDistance, d, p)
  BY DEF WitnessSearchIsPerfect
<1>1. /\ ExactOK /\ Lowered(metric) /\ ChOK
      /\ ~filtered => \A t \in TrianglesOfArcs : Searched(metric, t)
  BY DEF SearchOK, LeftToSearch
<1>2. SearchDone
  BY <1>1 DEF IInv, SupergraphOK, Built, SearchEnds, SearchDone
<1>3. KeepsDistances(TrueDistance)
  BY <1>2, KeptArcsKeepDistances
<1>4. ASSUME ~filtered, NEW d \in Dirs, NEW p \in DOMAIN ch[d] PROVE ArcIsPerfect(TrueDistance, d, p)
  <2>1. ChArcOK(d, p) /\ p \in Kept(metric)[d] /\ p \in cch.up
    BY <1>1 DEF ChOK, Kept
  <2>2. metric[d][p] = Shortest(d, p[1], p[2]) /\ p = <<p[1], p[2]>> /\ p[1] \in Nodes /\ p[2] \in Nodes
    BY <1>2, <1>4, <2>1, SearchedArcs DEF SearchDone
  <2>3. input \in Inputs /\ weight \in input.weights
    BY DEF IInv, GraphOK
  <2>4. Toward(d, TrueDistance, p[1], p[2]) = Shortest(d, p[1], p[2])
    BY <2>2, <2>3, WeightsAreNear
  <2>5. PICK a : a = ch[d][p]
    OBVIOUS
  <2>6. a.weight = TrueDistance[IF d = "f" THEN p ELSE <<p[2], p[1]>>]
    BY <2>1, <2>2, <2>4, <2>5 DEF Toward, ChArcOK
  <2> QED BY <1>4, <2>1, <2>5, <2>6 DEF ChArcOK, ArcIsPerfect
<1>5. ~filtered => pc = "perfect"
  BY <1>1 DEF ChOK
<1> QED BY <1>3, <1>4, <1>5

(* The inductive invariant of the perfect witness search holds of every      *)
(* behaviour: no arc it lowers gets below the true distance, it keeps those  *)
(* it did not lower, and going from the top down no triangle is left that    *)
(* could lower one of its arcs again.                                        *)
THEOREM WitnessSearchInvariant == Spec => []WInv
<1>1. Start => WInv
  <2> SUFFICES ASSUME Start PROVE WInv
    OBVIOUS
  <2>1. IInv
    BY InitOK DEF Start
  <2>2. SearchOK
    BY DEF Start, Init, SearchOK
  <2> QED BY <2>1, <2>2 DEF WInv
<1>2. WInv /\ [Next]_vars => WInv'
  <2> SUFFICES ASSUME WInv, [Next]_vars PROVE WInv'
    OBVIOUS
  <2>1. IInv /\ SearchOK
    BY DEF WInv
  <2>2. IInv' /\ SearchOK'
    BY <2>1, NextOK, NextKeepsSearch
  <2> QED BY <2>2 DEF WInv
<1> QED BY <1>1, <1>2, PTL DEF Spec

(* A perfect witness search keeps all distances whatever the order and the   *)
(* weights, with and without the filter; without it the hierarchy it returns *)
(* passes its check, and every arc has the distance between its ends and     *)
(* unpacks into arcs that are kept.                                          *)
THEOREM WitnessSearches == Spec => []WitnessSearchIsPerfect
<1>1. WInv => WitnessSearchIsPerfect
  BY SearchIsPerfect DEF WInv
<1> QED BY <1>1, WitnessSearchInvariant, PTL
=============================================================================
