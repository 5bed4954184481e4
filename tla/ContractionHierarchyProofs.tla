---------------------- MODULE ContractionHierarchyProofs ----------------------
(***************************************************************************)
(* Contracting nodes keeps every distance between the remaining ones: for  *)
(* every road graph, whatever order the nodes are taken in, however early  *)
(* the witness searches give up, whichever of several nearest nodes they   *)
(* settle, and although all targets of an in-arc share its forward search. *)
(* What is left behind is a hierarchy, renumbered, written and read back;  *)
(* and what a query finds by searching upward only is the true distance    *)
(* and a road of that length.                                              *)
(***************************************************************************)
EXTENDS ContractionHierarchyInv, ShortestDistancesProofs

-----------------------------------------------------------------------------
(* A node is cut off. *)
LEMMA CutIsSound ==
  ASSUME NEW n, NEW g, NEW v, Sound(n, g), NEW h, h = RemoveAllIncidentArcs(g, v)
  PROVE  /\ Sound(n, h) /\ \A p \in DOMAIN h : h[p] = g[p]
         /\ \A p : p \in DOMAIN h <=> p \in DOMAIN g /\ v # p[1] /\ v # p[2]
BY DEF RemoveAllIncidentArcs, Restrict, Sound

LEMMA ShortcutIsSound ==
  ASSUME NEW n \in Nat, NEW g, Sound(n, g), NEW s \in 0 .. n - 1, NEW t \in 0 .. n - 1, s # t,
         NEW v, NEW way \in Nat, NEW h, h = AddArcOrReduceArcWeight(g, s, v, t, way)
  PROVE  Shortened(n, g, h, s, t, way)
<1>1. <<s, t>> \in Between(n) /\ <<s, t>>[1] # <<s, t>>[2]
  BY DEF Between
<1>2. CASE <<s, t>> \in DOMAIN g /\ g[<<s, t>>].weight <= way
  <2>1. h = g
    BY <1>2 DEF AddArcOrReduceArcWeight
  <2>2. g[<<s, t>>].weight \in Nat
    BY <1>2 DEF Sound
  <2>3. Sound(n, h) /\ DOMAIN h = DOMAIN g \cup {<<s, t>>}
    BY <1>2, <2>1
  <2> QED BY <1>2, <2>1, <2>2, <2>3 DEF Shortened
<1>3. CASE ~(<<s, t>> \in DOMAIN g /\ g[<<s, t>>].weight <= way)
  <2>1. h = Overlaid(Just(<<s, t>>, [weight |-> way, mid |-> v]), g)
    BY <1>3 DEF AddArcOrReduceArcWeight
  <2>2. DOMAIN h = DOMAIN g \cup {<<s, t>>}
    BY <2>1 DEF Overlaid, Just
  <2>3. h[<<s, t>>] = [weight |-> way, mid |-> v]
    BY <2>1 DEF Overlaid, Just
  <2>4. \A p \in DOMAIN g : p # <<s, t>> => h[p] = g[p]
    BY <2>1 DEF Overlaid, Just
  <2>5. h[<<s, t>>].weight = way
    BY <2>3
  <2>6. <<s, t>> \in DOMAIN g => g[<<s, t>>].weight \in Nat
    BY DEF Sound
  <2>7. Sound(n, h)
    BY <1>1, <2>2, <2>4, <2>5 DEF Sound
  <2> QED BY <1>3, <2>2, <2>4, <2>5, <2>6, <2>7 DEF Shortened
<1> QED BY <1>2, <1>3

(* The way over v from u to t: the detour contract_node has a shortcut for.  *)
(* It is needless when there is one as short around v.                       *)
Detouring(g, v, u, t) == g[<<u, v>>].weight + g[<<v, t>>].weight
Near(n, g, v) == Far(n, RemoveAllIncidentArcs(g, v))
Spare(n, g, v, u, t) == Near(n, g, v)[<<u, t>>] <= Detouring(g, v, u, t)

(* As far apart as before, of all nodes but v.                              *)
AsFarWithout(n, g, v) == \A x, y \in (0 .. n - 1) \ {v} : Near(n, g, v)[<<x, y>>] = Far(n, g)[<<x, y>>]
NoFarther(n, g, h, v) == \A x, y \in 0 .. n - 1 : Near(n, h, v)[<<x, y>>] <= Near(n, g, v)[<<x, y>>]

(* Around v the shortcut makes nothing longer, and is itself a way.          *)
LEMMA ShortcutShortens ==
  ASSUME NEW n, NEW g, NEW h, NEW s, NEW t, NEW way, Shortened(n, g, h, s, t, way), NEW v, v # s, v # t
  PROVE  NoFarther(n, g, h, v) /\ Near(n, h, v)[<<s, t>>] <= way
<1> PICK g1 : g1 = RemoveAllIncidentArcs(g, v)
  OBVIOUS
<1> PICK h1 : h1 = RemoveAllIncidentArcs(h, v)
  OBVIOUS
<1>1. /\ n \in Nat /\ Sound(n, g) /\ s \in 0 .. n - 1 /\ t \in 0 .. n - 1 /\ s # t /\ way \in Nat
      /\ Sound(n, h) /\ DOMAIN h = DOMAIN g \cup {<<s, t>>}
      /\ \A p \in DOMAIN g : p # <<s, t>> => h[p] = g[p]
      /\ h[<<s, t>>].weight <= way
      /\ <<s, t>> \in DOMAIN g => h[<<s, t>>].weight <= g[<<s, t>>].weight
  BY DEF Shortened
<1>2. /\ Sound(n, g1) /\ \A p : p \in DOMAIN g1 <=> p \in DOMAIN g /\ v # p[1] /\ v # p[2]
      /\ \A p \in DOMAIN g1 : g1[p] = g[p]
  BY <1>1, CutIsSound
<1>3. /\ Sound(n, h1) /\ \A p : p \in DOMAIN h1 <=> p \in DOMAIN h /\ v # p[1] /\ v # p[2]
      /\ \A p \in DOMAIN h1 : h1[p] = h[p]
  BY <1>1, CutIsSound
<1>4. ASSUME NEW x \in 0 .. n - 1, NEW y \in 0 .. n - 1
      PROVE  Arcs(n, h1)[<<x, y>>] <= Arcs(n, g1)[<<x, y>>] \/ Inf <= Arcs(n, g1)[<<x, y>>]
  <2>1. /\ Arcs(n, g1)[<<x, y>>] = IF <<x, y>> \in DOMAIN g1 THEN g1[<<x, y>>].weight ELSE Inf
        /\ Arcs(n, h1)[<<x, y>>] = IF <<x, y>> \in DOMAIN h1 THEN h1[<<x, y>>].weight ELSE Inf
    BY <1>1, <1>2, <1>3, ArcsAreGraph
  <2>2. CASE <<x, y>> \notin DOMAIN g1
    BY <2>1, <2>2, InfAssumption
  <2>3. CASE <<x, y>> \in DOMAIN g1
    <3>1. <<x, y>> \in DOMAIN h1 /\ h1[<<x, y>>] = h[<<x, y>>] /\ g1[<<x, y>>] = g[<<x, y>>] /\ <<x, y>> \in DOMAIN g
      BY <1>1, <1>2, <1>3, <2>3
    <3>2. g[<<x, y>>].weight \in Nat
      BY <1>1, <3>1 DEF Sound
    <3>3. h[<<x, y>>].weight <= g[<<x, y>>].weight
      BY <1>1, <3>1, <3>2
    <3> QED BY <2>1, <2>3, <3>1, <3>3
  <2> QED BY <2>2, <2>3
<1>5. Arcs(n, g1) \in Graphs(n) /\ Arcs(n, h1) \in Graphs(n)
  BY <1>1, <1>2, <1>3, ArcsAreGraph
<1>6. \A x, y \in 0 .. n - 1 : Near(n, h, v)[<<x, y>>] <= Near(n, g, v)[<<x, y>>]
  BY <1>1, <1>4, <1>5, LighterIsNearer DEF Far, Near
<1>7. Near(n, h, v)[<<s, t>>] <= way
  <2>1. <<s, t>> \in DOMAIN h1 /\ h1[<<s, t>>] = h[<<s, t>>]
    BY <1>1, <1>3
  <2>2. Far(n, h1)[<<s, t>>] <= h1[<<s, t>>].weight /\ Far(n, h1)[<<s, t>>] \in Nat
    BY <1>1, <1>3, <2>1, FarIsMetric
  <2>3. h1[<<s, t>>].weight \in Nat
    BY <1>3, <2>1 DEF Sound
  <2> QED BY <1>1, <2>1, <2>2, <2>3 DEF Near
<1> QED BY <1>6, <1>7 DEF NoFarther

(* Once every detour over v is needless, v can go.                           *)
Dispensable(n, g, v) ==
  \A u, t \in 0 .. n - 1 : <<u, v>> \in DOMAIN g /\ <<v, t>> \in DOMAIN g /\ u # t => Spare(n, g, v, u, t)

LEMMA NodeCanGo ==
  ASSUME NEW n, NEW g, NEW v, n \in Nat, Sound(n, g), Dispensable(n, g, v)
  PROVE  AsFarWithout(n, g, v)
<1> PICK g1 : g1 = RemoveAllIncidentArcs(g, v)
  OBVIOUS
<1>1. /\ Sound(n, g1) /\ \A p : p \in DOMAIN g1 <=> p \in DOMAIN g /\ v # p[1] /\ v # p[2]
      /\ \A p \in DOMAIN g1 : g1[p] = g[p]
  BY CutIsSound
<1>2. Arcs(n, g) \in Graphs(n) /\ Arcs(n, g1) \in Graphs(n)
  BY <1>1, ArcsAreGraph
<1>3. ASSUME NEW x \in 0 .. n - 1, NEW y \in 0 .. n - 1
      PROVE  Arcs(n, g1)[<<x, y>>] = IF v \in {x, y} THEN Inf ELSE Arcs(n, g)[<<x, y>>]
  <2>1. /\ Arcs(n, g)[<<x, y>>] = IF <<x, y>> \in DOMAIN g THEN g[<<x, y>>].weight ELSE Inf
        /\ Arcs(n, g1)[<<x, y>>] = IF <<x, y>> \in DOMAIN g1 THEN g1[<<x, y>>].weight ELSE Inf
    BY <1>1, ArcsAreGraph
  <2> QED BY <1>1, <2>1
<1>4. CASE v \in 0 .. n - 1
  <2>1. Avoids(n, Arcs(n, g), Distances(n, Arcs(n, g1)), v)
    <3> SUFFICES ASSUME NEW a \in (0 .. n - 1) \ {v}, NEW b \in (0 .. n - 1) \ {v}, a # b
                 PROVE  Far(n, g1)[<<a, b>>] <= Arcs(n, g)[<<a, v>>] + Arcs(n, g)[<<v, b>>]
      BY DEF Avoids, Others, Far
    <3>1. Far(n, g1)[<<a, b>>] \in Nat /\ Far(n, g1)[<<a, b>>] <= Inf
      BY <1>1, FarIsMetric
    <3>2. /\ Arcs(n, g)[<<a, v>>] = IF <<a, v>> \in DOMAIN g THEN g[<<a, v>>].weight ELSE Inf
          /\ Arcs(n, g)[<<v, b>>] = IF <<v, b>> \in DOMAIN g THEN g[<<v, b>>].weight ELSE Inf
      BY <1>4, ArcsAreGraph
    <3>3. /\ <<a, v>> \in DOMAIN g => g[<<a, v>>].weight \in Nat
          /\ <<v, b>> \in DOMAIN g => g[<<v, b>>].weight \in Nat
      BY DEF Sound
    <3>4. CASE <<a, v>> \in DOMAIN g /\ <<v, b>> \in DOMAIN g
      <4>1. Spare(n, g, v, a, b)
        BY <3>4 DEF Dispensable
      <4> QED BY <3>2, <3>4, <4>1 DEF Spare, Near, Detouring
    <3>5. CASE ~(<<a, v>> \in DOMAIN g /\ <<v, b>> \in DOMAIN g)
      BY <3>1, <3>2, <3>3, <3>5, InfAssumption
    <3> QED BY <3>4, <3>5
  <2>2. \A x, y \in Others(n, v) : Distances(n, Arcs(n, g1))[<<x, y>>] = Distances(n, Arcs(n, g))[<<x, y>>]
    <3>1. TakenOut(n, Arcs(n, g), Arcs(n, g1), v)
      BY <1>3 DEF TakenOut
    <3> QED BY <1>2, <1>4, <2>1, <3>1, TakenOutKeepsDistances
  <2> QED BY <2>2 DEF AsFarWithout, Near, Far, Others
<1>5. CASE v \notin 0 .. n - 1
  <2>1. \A p \in Between(n) : p[1] \in 0 .. n - 1 /\ p[2] \in 0 .. n - 1 /\ p = <<p[1], p[2]>>
    BY DEF Between
  <2>2. \A p \in Between(n) : (IF p \in DOMAIN g1 THEN g1[p].weight ELSE Inf) = (IF p \in DOMAIN g THEN g[p].weight ELSE Inf)
    BY <1>1, <1>5, <2>1
  <2>3. Arcs(n, g1) = Arcs(n, g)
    BY <2>2 DEF Arcs
  <2> QED BY <2>3 DEF AsFarWithout, Near, Far
<1> QED BY <1>4, <1>5

(* What a shortcut leaves needless.                                          *)
LEMMA ShortcutSpares ==
  ASSUME NEW n, NEW g, NEW h, NEW s, NEW t, NEW way, Shortened(n, g, h, s, t, way),
         NEW v, v # s, v # t, <<s, v>> \in DOMAIN g, <<v, t>> \in DOMAIN g, way = Detouring(g, v, s, t)
  PROVE  /\ Spare(n, h, v, s, t)
         /\ \A u, x \in 0 .. n - 1 :
              <<u, v>> \in DOMAIN g /\ <<v, x>> \in DOMAIN g /\ Spare(n, g, v, u, x) => Spare(n, h, v, u, x)
         /\ \A x : (<<x, v>> \in DOMAIN h <=> <<x, v>> \in DOMAIN g) /\ (<<v, x>> \in DOMAIN h <=> <<v, x>> \in DOMAIN g)
<1>1. /\ Shortened(n, g, h, s, t, way) /\ n \in Nat /\ Sound(n, g) /\ Sound(n, h)
      /\ s \in 0 .. n - 1 /\ t \in 0 .. n - 1 /\ s # t /\ way \in Nat
  BY DEF Shortened
<1>2. \A x, y \in 0 .. n - 1 : Near(n, h, v)[<<x, y>>] <= Near(n, g, v)[<<x, y>>]
  BY <1>1, ShortcutShortens DEF NoFarther
<1>3. Near(n, h, v)[<<s, t>>] <= way
  BY <1>1, ShortcutShortens
<1>4. \A x : <<x, v>> # <<s, t>> /\ <<v, x>> # <<s, t>>
  OBVIOUS
<1>5. \A x : (<<x, v>> \in DOMAIN h <=> <<x, v>> \in DOMAIN g) /\ (<<v, x>> \in DOMAIN h <=> <<v, x>> \in DOMAIN g)
  BY <1>1, <1>4 DEF Shortened
<1>6. ASSUME NEW u, NEW x, <<u, v>> \in DOMAIN g, <<v, x>> \in DOMAIN g
      PROVE  Detouring(h, v, u, x) = Detouring(g, v, u, x) /\ Detouring(g, v, u, x) \in Nat
  <2>1. h[<<u, v>>] = g[<<u, v>>] /\ h[<<v, x>>] = g[<<v, x>>]
    BY <1>1, <1>4, <1>6 DEF Shortened
  <2>2. g[<<u, v>>].weight \in Nat /\ g[<<v, x>>].weight \in Nat
    BY <1>1, <1>6 DEF Sound
  <2> QED BY <2>1, <2>2 DEF Detouring
<1>7. \A k \in {g, h} : \A x, y \in 0 .. n - 1 : Near(n, k, v)[<<x, y>>] \in Nat
  <2>1. Sound(n, RemoveAllIncidentArcs(g, v)) /\ Sound(n, RemoveAllIncidentArcs(h, v))
    BY <1>1, CutIsSound
  <2> QED BY <1>1, <2>1, FarIsMetric DEF Near
<1>8. Spare(n, h, v, s, t)
  BY <1>3, <1>6 DEF Spare
<1>9. ASSUME NEW u \in 0 .. n - 1, NEW x \in 0 .. n - 1,
             <<u, v>> \in DOMAIN g, <<v, x>> \in DOMAIN g, Spare(n, g, v, u, x)
      PROVE  Spare(n, h, v, u, x)
  <2>1. /\ Near(n, h, v)[<<u, x>>] <= Near(n, g, v)[<<u, x>>] /\ Near(n, g, v)[<<u, x>>] <= Detouring(g, v, u, x)
        /\ Near(n, h, v)[<<u, x>>] \in Nat /\ Near(n, g, v)[<<u, x>>] \in Nat
    BY <1>2, <1>7, <1>9 DEF Spare
  <2>2. Detouring(h, v, u, x) = Detouring(g, v, u, x) /\ Detouring(g, v, u, x) \in Nat
    BY <1>6, <1>9
  <2> QED BY <2>1, <2>2 DEF Spare
<1> QED BY <1>5, <1>8, <1>9

-----------------------------------------------------------------------------
(* The clean graph: of parallel arcs there is a first lightest one.          *)
LEMMA CleanGraphIsSound ==
  ASSUME input \in Inputs
  PROVE  input.n \in Nat /\ Sound(input.n, CleanGraph)
<1>1. input.n \in Nat /\ input.arcs \in Seq([tail : 0 .. input.n - 1, head : 0 .. input.n - 1, weight : Nat])
  BY InputsAssumption
<1>2. DOMAIN input.arcs \subseteq Nat
  BY <1>1
<1>3. \A i \in DOMAIN input.arcs : /\ input.arcs[i].tail \in Nodes /\ input.arcs[i].head \in Nodes
                                  /\ input.arcs[i].weight \in Nat
  <2>1. \A S, list : list \in Seq(S) => \A i \in DOMAIN list : list[i] \in S
    OBVIOUS
  <2>2. \A i \in DOMAIN input.arcs : input.arcs[i] \in [tail : 0 .. input.n - 1, head : 0 .. input.n - 1, weight : Nat]
    BY <1>1, <2>1
  <2> QED BY <2>2 DEF Nodes
<1>4. ASSUME NEW p \in DOMAIN InputArcId
      PROVE  p \in Between(input.n) /\ p[1] # p[2] /\ input.arcs[InputArcId[p]].weight \in Nat
  <2>1. PICK i \in DOMAIN input.arcs : p = <<input.arcs[i].tail, input.arcs[i].head>>
    BY <1>4 DEF InputArcId
  <2>2. p \notin {<<x, x>> : x \in Nodes}
    BY <1>4 DEF InputArcId
  <2>3. p \in Between(input.n) /\ p[1] # p[2]
    BY <1>3, <2>1, <2>2 DEF Between, Nodes
  <2>4. i \in Joining(p) /\ Joining(p) \subseteq DOMAIN input.arcs
    BY <2>1 DEF Joining
  <2> DEFINE Lightest == {k \in Joining(p) : \A j \in Joining(p) : input.arcs[k].weight <= input.arcs[j].weight}
             W == {input.arcs[k].weight : k \in Joining(p)}
  <2>5. W \in SUBSET Nat /\ W # {}
    BY <1>3, <2>4
  <2>6. PICK m \in W : \A k \in W : m <= k
    <3> HIDE DEF W
    <3> QED BY <2>5, NatHasLeast
  <2>7. Lightest # {} /\ Lightest \in SUBSET Nat
    BY <1>2, <2>4, <2>6
  <2>8. Min(Lightest) \in Lightest
    <3> HIDE DEF Lightest
    <3> QED BY <2>7, MinIsLeast
  <2>9. InputArcId[p] = Min(Lightest)
    BY <1>4 DEF InputArcId
  <2>10. InputArcId[p] \in DOMAIN input.arcs
    BY <2>4, <2>8, <2>9
  <2> QED BY <1>3, <2>3, <2>10
<1>5. DOMAIN CleanGraph = DOMAIN InputArcId /\ \A p \in DOMAIN InputArcId : CleanGraph[p].weight = input.arcs[InputArcId[p]].weight
  BY DEF CleanGraph
<1> QED BY <1>1, <1>4, <1>5 DEF Sound

-----------------------------------------------------------------------------
(* What a search has noted of y is the length of a way around v.             *)
Close(n, g, v, s, t, d, y, way) ==
  /\ y \in 0 .. n - 1 /\ y # v /\ way \in Nat
  /\ way >= IF d = "f" THEN Near(n, g, v)[<<s, y>>] ELSE Near(n, g, v)[<<y, t>>]
Notes(n, g, v, s, t, sr, d) ==
  /\ \A y \in DOMAIN sr.dist[d] : Close(n, g, v, s, t, d, y, sr.dist[d][y])
  /\ \A y \in DOMAIN sr.q[d] : Close(n, g, v, s, t, d, y, sr.q[d][y])
Shape(sr) == DOMAIN sr = {"q", "dist", "pops"} /\ DOMAIN sr.q = Dirs /\ DOMAIN sr.dist = Dirs

LEMMA MeetingIsAWay ==
  ASSUME NEW n \in Nat, NEW g, Sound(n, g), NEW v, NEW s \in 0 .. n - 1, NEW t \in 0 .. n - 1,
         NEW d \in Dirs, NEW y, NEW near, NEW rest,
         Close(n, g, v, s, t, d, y, near), Close(n, g, v, s, t, Opposite(d), y, rest)
  PROVE  Near(n, g, v)[<<s, t>>] <= near + rest
<1>1. Sound(n, RemoveAllIncidentArcs(g, v))
  BY CutIsSound
<1>2. y \in 0 .. n - 1 /\ near \in Nat /\ rest \in Nat
  BY DEF Close
<1>3. /\ Near(n, g, v)[<<s, t>>] <= Near(n, g, v)[<<s, y>>] + Near(n, g, v)[<<y, t>>]
      /\ Near(n, g, v)[<<s, t>>] \in Nat /\ Near(n, g, v)[<<s, y>>] \in Nat /\ Near(n, g, v)[<<y, t>>] \in Nat
  BY <1>1, <1>2, FarIsMetric DEF Near
<1>4. CASE d = "f"
  BY <1>2, <1>3, <1>4 DEF Close, Opposite
<1>5. CASE d = "b"
  BY <1>2, <1>3, <1>5 DEF Close, Opposite
<1> QED BY <1>4, <1>5 DEF Dirs

(* An arc that does not touch v takes a way around v further.                *)
LEMMA ArcGoesOn ==
  ASSUME NEW n \in Nat, NEW g, Sound(n, g), NEW v, NEW s \in 0 .. n - 1, NEW t \in 0 .. n - 1,
         NEW d \in Dirs, NEW x, NEW near, Close(n, g, v, s, t, d, x, near),
         NEW y \in 0 .. n - 1, y # v, SearchArc(d, x, y) \in DOMAIN g
  PROVE  Close(n, g, v, s, t, d, y, near + g[SearchArc(d, x, y)].weight)
<1> PICK e : e = SearchArc(d, x, y)
  OBVIOUS
<1> PICK g1 : g1 = RemoveAllIncidentArcs(g, v)
  OBVIOUS
<1>1. /\ Sound(n, g1) /\ \A p \in DOMAIN g1 : g1[p] = g[p]
      /\ \A p : p \in DOMAIN g1 <=> p \in DOMAIN g /\ v # p[1] /\ v # p[2]
  BY CutIsSound
<1>2. x \in 0 .. n - 1 /\ x # v /\ near \in Nat
  BY DEF Close
<1>3. e = <<x, y>> \/ e = <<y, x>>
  BY DEF SearchArc
<1>4. e \in DOMAIN g1 /\ g1[e] = g[e] /\ g[e].weight \in Nat
  BY <1>1, <1>2, <1>3 DEF Sound
<1>5. \A a, b, c \in 0 .. n - 1 : /\ Near(n, g, v)[<<a, c>>] <= Near(n, g, v)[<<a, b>>] + Near(n, g, v)[<<b, c>>]
                                  /\ Near(n, g, v)[<<a, b>>] \in Nat
  BY <1>1, FarIsMetric DEF Near
<1>6. \A a, b \in 0 .. n - 1 : <<a, b>> \in DOMAIN g1 => Near(n, g, v)[<<a, b>>] <= g1[<<a, b>>].weight
  BY <1>1, FarIsMetric DEF Near
<1>7. CASE d = "f"
  <2>1. e = <<x, y>> /\ near >= Near(n, g, v)[<<s, x>>]
    BY <1>7 DEF SearchArc, Close
  <2>2. /\ Near(n, g, v)[<<s, y>>] <= Near(n, g, v)[<<s, x>>] + Near(n, g, v)[<<x, y>>]
        /\ Near(n, g, v)[<<x, y>>] <= g[e].weight
        /\ Near(n, g, v)[<<s, y>>] \in Nat /\ Near(n, g, v)[<<s, x>>] \in Nat /\ Near(n, g, v)[<<x, y>>] \in Nat
    BY <1>2, <1>4, <1>5, <1>6, <2>1
  <2>3. near + g[e].weight >= Near(n, g, v)[<<s, y>>] /\ near + g[e].weight \in Nat
    BY <1>2, <1>4, <2>1, <2>2
  <2> QED BY <1>7, <2>3 DEF Close
<1>8. CASE d = "b"
  <2>1. e = <<y, x>> /\ near >= Near(n, g, v)[<<x, t>>]
    BY <1>8 DEF SearchArc, Close
  <2>2. /\ Near(n, g, v)[<<y, t>>] <= Near(n, g, v)[<<y, x>>] + Near(n, g, v)[<<x, t>>]
        /\ Near(n, g, v)[<<y, x>>] <= g[e].weight
        /\ Near(n, g, v)[<<y, t>>] \in Nat /\ Near(n, g, v)[<<y, x>>] \in Nat /\ Near(n, g, v)[<<x, t>>] \in Nat
    BY <1>2, <1>4, <1>5, <1>6, <2>1
  <2>3. near + g[e].weight >= Near(n, g, v)[<<y, t>>] /\ near + g[e].weight \in Nat
    BY <1>2, <1>4, <2>1, <2>2
  <2> QED BY <1>8, <2>3 DEF Close
<1> QED BY <1>7, <1>8 DEF Dirs

(* A settle notes ways around v only, and what it finds is one.              *)
LEMMA SettleNotes ==
  ASSUME NEW n, n = input.n, n \in Nat, Sound(n, graph), NEW v, NEW s \in 0 .. n - 1, NEW t \in 0 .. n - 1,
         NEW sr, Shape(sr), \A e \in Dirs : Notes(n, graph, v, s, t, sr, e),
         NEW d \in Dirs, NEW x \in DOMAIN sr.q[d], NEW way \in Nat
  PROVE  LET r == ForwardSettle(sr, d, x, v, way) IN
         /\ Shape(r.sr) /\ \A e \in Dirs : Notes(n, graph, v, s, t, r.sr, e)
         /\ r.found => Near(n, graph, v)[<<s, t>>] <= way
<1> PICK key : key = sr.q[d][x]
  OBVIOUS
<1> PICK new : new = [y \in Improved(sr, d, x, key, v) |-> NextDistance(d, x, key, y)]
  OBVIOUS
<1> PICK popped : popped = Restrict(sr.q[d], DOMAIN sr.q[d] \ {x})
  OBVIOUS
<1>1. Opposite(d) \in Dirs /\ Opposite(d) # d
  BY DEF Opposite, Dirs
<1>2. Close(n, graph, v, s, t, d, x, key)
  BY DEF Notes
<1>3. ASSUME NEW y \in Improved(sr, d, x, key, v)
      PROVE  Close(n, graph, v, s, t, d, y, NextDistance(d, x, key, y))
  <2>1. y \in 0 .. n - 1 /\ y # v /\ SearchArc(d, x, y) \in DOMAIN graph
    BY <1>3 DEF Improved, Nodes
  <2> QED BY <1>2, <2>1, ArcGoesOn DEF NextDistance
<1>4. \A y \in DOMAIN new : Close(n, graph, v, s, t, d, y, new[y])
  BY <1>3
<1>5. ASSUME NEW y, NEW k, Close(n, graph, v, s, t, d, y, k), Meets(sr, d, y, k, way)
      PROVE  Near(n, graph, v)[<<s, t>>] <= way
  <2>1. y \in DOMAIN sr.dist[Opposite(d)] /\ k + sr.dist[Opposite(d)][y] <= way
    BY <1>5 DEF Meets
  <2>2. Close(n, graph, v, s, t, Opposite(d), y, sr.dist[Opposite(d)][y])
    BY <1>1, <2>1 DEF Notes
  <2>3. Near(n, graph, v)[<<s, t>>] <= k + sr.dist[Opposite(d)][y]
    BY <1>5, <2>2, MeetingIsAWay
  <2>4. k \in Nat /\ sr.dist[Opposite(d)][y] \in Nat
    BY <1>5, <2>2 DEF Close
  <2>5. Near(n, graph, v)[<<s, t>>] \in Nat
    BY CutIsSound, FarIsMetric DEF Near
  <2> QED BY <2>1, <2>3, <2>4, <2>5
<1>6. \A y \in DOMAIN popped : y \in DOMAIN sr.q[d] /\ popped[y] = sr.q[d][y]
  BY DEF Restrict
<1>7. \A y \in DOMAIN popped : Close(n, graph, v, s, t, d, y, popped[y])
  BY <1>6 DEF Notes
<1>8. CASE Meets(sr, d, x, key, way)
  <2> PICK sr1 : sr1 = [sr EXCEPT !.q[d] = popped]
    OBVIOUS
  <2>1. ForwardSettle(sr, d, x, v, way) = [found |-> TRUE, sr |-> sr1]
    BY <1>8 DEF ForwardSettle
  <2>2. Shape(sr1) /\ sr1.dist = sr.dist /\ sr1.q = [sr.q EXCEPT ![d] = popped]
    BY DEF Shape
  <2>3. \A e \in Dirs : sr1.q[e] = IF e = d THEN popped ELSE sr.q[e]
    BY <2>2 DEF Shape
  <2>4. ASSUME NEW e \in Dirs PROVE Notes(n, graph, v, s, t, sr1, e)
    BY <1>7, <2>2, <2>3 DEF Notes
  <2>5. Near(n, graph, v)[<<s, t>>] <= way
    BY <1>2, <1>5, <1>8
  <2> QED BY <2>1, <2>2, <2>4, <2>5
<1>9. CASE ~Meets(sr, d, x, key, way)
  <2> PICK half : half = [sr EXCEPT !.q[d] = Overlaid(new, popped)]
    OBVIOUS
  <2> PICK sr1 : sr1 = [half EXCEPT !.dist[d] = Overlaid(new, half.dist[d])]
    OBVIOUS
  <2>1. Expanded(sr, d, x, key, v) = sr1
    BY Zenon DEF Expanded
  <2>2. ForwardSettle(sr, d, x, v, way) =
          [found |-> \E y \in Improved(sr, d, x, key, v) : Meets(sr, d, y, NextDistance(d, x, key, y), way),
           sr |-> sr1]
    BY <1>9, <2>1 DEF ForwardSettle
  <2>3. Shape(half) /\ half.dist = sr.dist /\ half.q = [sr.q EXCEPT ![d] = Overlaid(new, popped)]
    BY DEF Shape
  <2>4. Shape(sr1) /\ sr1.q = half.q /\ sr1.dist = [sr.dist EXCEPT ![d] = Overlaid(new, sr.dist[d])]
    BY <2>3 DEF Shape
  <2>5. \A e \in Dirs : /\ sr1.q[e] = IF e = d THEN Overlaid(new, popped) ELSE sr.q[e]
                        /\ sr1.dist[e] = IF e = d THEN Overlaid(new, sr.dist[d]) ELSE sr.dist[e]
    BY <2>3, <2>4 DEF Shape
  <2>6. \A y \in DOMAIN Overlaid(new, popped) : Close(n, graph, v, s, t, d, y, Overlaid(new, popped)[y])
    BY <1>4, <1>7 DEF Overlaid
  <2>7. \A y \in DOMAIN Overlaid(new, sr.dist[d]) : Close(n, graph, v, s, t, d, y, Overlaid(new, sr.dist[d])[y])
    <3>1. \A y \in DOMAIN sr.dist[d] : Close(n, graph, v, s, t, d, y, sr.dist[d][y])
      BY DEF Notes
    <3> QED BY <1>4, <3>1 DEF Overlaid
  <2>8. ASSUME NEW e \in Dirs PROVE Notes(n, graph, v, s, t, sr1, e)
    <3>1. CASE e = d
      BY <2>5, <2>6, <2>7, <3>1 DEF Notes
    <3>2. CASE e # d
      <4>1. sr1.q[e] = sr.q[e] /\ sr1.dist[e] = sr.dist[e] /\ Notes(n, graph, v, s, t, sr, e)
        BY <2>5, <3>2
      <4> QED BY <4>1 DEF Notes
    <3> QED BY <3>1, <3>2
  <2>9. ASSUME NEW y \in Improved(sr, d, x, key, v), Meets(sr, d, y, NextDistance(d, x, key, y), way)
        PROVE  Near(n, graph, v)[<<s, t>>] <= way
    BY <1>3, <1>5, <2>9
  <2> PICK r : r = ForwardSettle(sr, d, x, v, way)
    OBVIOUS
  <2>10. r.sr = sr1 /\ (r.found => \E y \in Improved(sr, d, x, key, v) : Meets(sr, d, y, NextDistance(d, x, key, y), way))
    BY <2>2
  <2>11. r.found => Near(n, graph, v)[<<s, t>>] <= way
    BY <2>9, <2>10
  <2>12. Shape(r.sr) /\ \A e \in Dirs : Notes(n, graph, v, s, t, r.sr, e)
    BY <2>4, <2>8, <2>10
  <2> QED BY <2>11, <2>12
<1> QED BY <1>8, <1>9

-----------------------------------------------------------------------------
(* The invariant, now and after a step, in these terms.                      *)
LEMMA InTheseTerms ==
  /\ \A g : DistancesIn(g) = Far(input.n, g)
  /\ \A u, t : Needless(u, t) <=> Spare(input.n, graph, cur.node, u, t)
  /\ \A d, y, way : Real(d, y, way) <=> Close(input.n, graph, cur.node, cur.source, cur.target, d, y, way)
  /\ \A d : Noted(d) <=> Notes(input.n, graph, cur.node, cur.source, cur.target, search, d)
  /\ GraphOK /\ Working => input.n \in Nat /\ Sound(input.n, graph)
<1>1. \A g : DistancesIn(g) = Far(input.n, g)
  BY DEF DistancesIn, Far, Weights, Arcs, Between, Nodes
<1>2. \A u, t : Needless(u, t) <=> Spare(input.n, graph, cur.node, u, t)
  BY <1>1 DEF Needless, Around, Spare, Near, Detouring
<1>3. \A d, y, way : Real(d, y, way) <=> Close(input.n, graph, cur.node, cur.source, cur.target, d, y, way)
  BY <1>1 DEF Real, Around, Close, Near, Nodes
<1>4. \A d : Noted(d) <=> Notes(input.n, graph, cur.node, cur.source, cur.target, search, d)
  BY <1>3 DEF Noted, Notes
<1>5. GraphOK /\ Working => input.n \in Nat /\ Sound(input.n, graph)
  BY CleanGraphIsSound DEF GraphOK, Sound, Links, Between, Nodes
<1> QED BY <1>1, <1>2, <1>3, <1>4, <1>5

(* The same after a step.                                                   *)
LEMMA InTheseTermsNext ==
  /\ \A g : DistancesIn(g)' = Far(input'.n, g)
  /\ \A u, t : Needless(u, t)' <=> Spare(input'.n, graph', cur'.node, u, t)
  /\ \A d, y, way : Real(d, y, way)' <=> Close(input'.n, graph', cur'.node, cur'.source, cur'.target, d, y, way)
  /\ \A d : Noted(d)' <=> Notes(input'.n, graph', cur'.node, cur'.source, cur'.target, search', d)
<1>1. \A g : DistancesIn(g)' = Far(input'.n, g)
  BY DEF DistancesIn, Far, Weights, Arcs, Between, Nodes
<1>2. Around' = Near(input'.n, graph', cur'.node)
  BY DEF Around, DistancesIn, Near, Far, Weights, Arcs, Between, Nodes
<1>3. \A u, t : Needless(u, t)' <=> Spare(input'.n, graph', cur'.node, u, t)
  BY <1>2 DEF Needless, Spare, Detouring
<1>4. \A d, y, way : Real(d, y, way)' <=> Close(input'.n, graph', cur'.node, cur'.source, cur'.target, d, y, way)
  BY <1>2 DEF Real, Close, Nodes
<1>5. \A d : Noted(d)' <=> Notes(input'.n, graph', cur'.node, cur'.source, cur'.target, search', d)
  BY <1>4 DEF Noted, Notes
<1> QED BY <1>1, <1>3, <1>4, <1>5

(* What a step that takes no other input leaves as it is.                    *)
LEMMA InputStays ==
  ASSUME input' = input
  PROVE  /\ Nodes' = Nodes /\ Links' = Links /\ TrueDistance' = TrueDistance
         /\ \A g, x : In(g, x)' = In(g, x) /\ Out(g, x)' = Out(g, x)
<1>1. Nodes' = Nodes
  BY DEF Nodes
<1>2. InputArcId' = InputArcId
  BY DEF InputArcId, Joining, Nodes
<1>3. CleanGraph' = CleanGraph
  BY <1>2 DEF CleanGraph
<1>4. TrueDistance' = TrueDistance
  BY <1>1, <1>3 DEF TrueDistance, DistancesIn, Weights
<1> QED BY <1>1, <1>4 DEF Links, In, Out

(* Distances are kept if a step changes none between the nodes that remain. *)
LEMMA KeepsStays ==
  ASSUME input' = input, KeepsOK, Working, Remaining' \subseteq Remaining,
         \A x, y \in Remaining' : Far(input.n, graph')[<<x, y>>] = Far(input.n, graph)[<<x, y>>]
  PROVE  KeepsOK'
<1>1. TrueDistance' = TrueDistance
  BY InputStays
<1>2. \A g : DistancesIn(g)' = Far(input.n, g)
  BY InTheseTermsNext
<1>3. \A p \in Remaining \X Remaining : Far(input.n, graph)[p] = TrueDistance[p]
  BY InTheseTerms DEF KeepsOK
<1>4. ASSUME NEW p \in (Remaining \X Remaining)' PROVE Far(input.n, graph')[p] = TrueDistance'[p]
  <2>1. PICK x \in Remaining', y \in Remaining' : p = <<x, y>>
    OBVIOUS
  <2>2. p \in Remaining \X Remaining
    BY <2>1
  <2> QED BY <1>1, <1>3, <2>1, <2>2
<1>5. DistancesIn(graph)' = Far(input.n, graph')
  BY DEF DistancesIn, Far, Weights, Arcs, Between, Nodes
<1> QED BY <1>4, <1>5 DEF KeepsOK

(* One lemma per action: each keeps the invariant.                          *)
LEMMA InitOK == Init => IInv
<1> SUFFICES ASSUME Init PROVE IInv
  OBVIOUS
<1>1. pc = "pick" /\ graph = CleanGraph /\ input \in Inputs
  BY DEF Init
<1>2. input.n \in Nat /\ Sound(input.n, graph)
  BY <1>1, CleanGraphIsSound
<1>3. GraphOK
  <2>1. \A p \in DOMAIN graph : p \in Nodes \X Nodes /\ p[1] # p[2] /\ graph[p].weight \in Nat
    BY <1>2 DEF Sound, Between, Nodes
  <2> QED BY <1>1, <2>1 DEF GraphOK, Links, Contracting
<1>4. KeepsOK
  BY <1>1 DEF KeepsOK, TrueDistance
<1> QED BY <1>1, <1>3, <1>4 DEF IInv, SourcesOK, TargetsOK, SearchOK, Contracting, Searching

LEMMA StartContractionOK ==
  ASSUME IInv, pc = "pick", NEW v, StartContraction(v) PROVE IInv'
<1>1. /\ input' = input /\ graph' = graph /\ pc' = "pin" /\ cur' = [node |-> v, ins |-> In(graph, v)]
      /\ rank' = Overlaid(Just(v, Cardinality(DOMAIN rank)), rank)
  BY DEF StartContraction
<1>2. DOMAIN rank' = {v} \cup DOMAIN rank
  BY <1>1 DEF Overlaid, Just
<1>3. cur'.node = v /\ cur'.ins = In(graph, v) /\ DOMAIN cur' = {"node", "ins"}
  BY <1>1
<1>4. Nodes' = Nodes /\ Links' = Links
  BY <1>1, InputStays
<1>5. Sources' = In(graph, v)
  BY <1>1, <1>3, <1>4 DEF Sources, In
<1>6. GraphOK'
  BY <1>1, <1>2, <1>3, <1>4 DEF IInv, GraphOK, Working
<1>7. KeepsOK'
  <2>1. Remaining' \subseteq Remaining /\ Working
    BY <1>2, <1>4 DEF Remaining, Working
  <2> QED BY <1>1, <2>1, KeepsStays DEF IInv
<1>8. SourcesOK'
  BY <1>1, <1>3, <1>5 DEF SourcesOK, Searching
<1>9. TargetsOK' /\ SearchOK'
  BY <1>1 DEF TargetsOK, SearchOK, Searching
<1> QED BY <1>6, <1>7, <1>8, <1>9 DEF IInv

(* While the remaining graph stays as it is, so does what is needless.       *)
LEMMA AroundStays ==
  ASSUME input' = input, graph' = graph, cur'.node = cur.node
  PROVE  /\ Sources' = Sources
         /\ \A u : Targets(u)' = Targets(u) /\ (Done(u)' <=> Done(u))
         /\ \A u, t : Needless(u, t)' <=> Needless(u, t)
<1>1. Nodes' = Nodes
  BY InputStays
<1>2. \A u, t : Needless(u, t)' <=> Needless(u, t)
  BY InTheseTerms, InTheseTermsNext
<1>3. Sources' = Sources /\ \A u : Targets(u)' = Targets(u)
  BY <1>1 DEF Sources, Targets, In, Out
<1>4. \A u : Done(u)' <=> Done(u)
  BY <1>2, <1>3 DEF Done
<1> QED BY <1>2, <1>3, <1>4

(* While a node is contracted its in-arcs and out-arcs are arcs of the      *)
(* graph to and from other nodes.                                           *)
LEMMA AtWork ==
  ASSUME IInv, Contracting
  PROVE  /\ input.n \in Nat /\ Sound(input.n, graph)
         /\ \A u \in Sources : u \in 0 .. input.n - 1 /\ u # cur.node /\ <<u, cur.node>> \in DOMAIN graph
                               /\ cur.node \in 0 .. input.n - 1
         /\ \A u : \A t \in Targets(u) : t \in 0 .. input.n - 1 /\ t # cur.node /\ t # u /\ <<cur.node, t>> \in DOMAIN graph
<1>1. input.n \in Nat /\ Sound(input.n, graph)
  BY InTheseTerms DEF IInv, Working
<1>2. \A x, y : <<x, y>> \in DOMAIN graph => x \in 0 .. input.n - 1 /\ y \in 0 .. input.n - 1 /\ x # y
  BY <1>1 DEF Sound, Between
<1> QED BY <1>1, <1>2 DEF Sources, Targets, In, Out

LEMMA NextSourceOK ==
  ASSUME IInv, NEW u \in Nodes, NextSource(u) PROVE IInv'
<1>1. /\ input' = input /\ graph' = graph /\ pc = "pin" /\ pc' = "target" /\ rank' = rank
      /\ u \in cur.ins /\ search' = PinSource(u)
      /\ cur' = [node |-> cur.node, ins |-> cur.ins \ {u}, source |-> u, outs |-> Out(graph, cur.node) \ {u}]
  BY DEF NextSource
<1>2. /\ cur'.node = cur.node /\ cur'.ins = cur.ins \ {u} /\ cur'.source = u /\ cur'.outs = Targets(u)
      /\ DOMAIN cur' = {"node", "ins", "source", "outs"}
  BY <1>1 DEF Targets
<1>3. Contracting /\ Working /\ u \in Sources /\ cur.ins \subseteq Sources
  BY <1>1 DEF IInv, SourcesOK, Contracting, Working
<1>4. /\ Sources' = Sources /\ \A x : Targets(x)' = Targets(x) /\ (Done(x)' <=> Done(x))
  BY <1>1, <1>2, AroundStays
<1>5. GraphOK'
  BY <1>1, <1>2, <1>3, InputStays DEF IInv, GraphOK, Working, Contracting
<1>6. KeepsOK'
  <2>1. Remaining' \subseteq Remaining
    BY <1>1, InputStays DEF Remaining
  <2> QED BY <1>1, <1>3, <2>1, KeepsStays DEF IInv
<1>7. SourcesOK'
  <2>1. \A x \in Sources \ cur.ins : Done(x)
    BY <1>1 DEF IInv, SourcesOK
  <2> QED BY <1>1, <1>2, <1>3, <1>4, <2>1 DEF SourcesOK, Contracting
<1>8. TargetsOK'
  BY <1>1, <1>2, <1>3, <1>4 DEF TargetsOK
<1>9. SearchOK'
  <2>1. DOMAIN search' = {"q", "dist", "pops"} /\ DOMAIN search'.q = Dirs /\ DOMAIN search'.dist = Dirs
    BY <1>1 DEF PinSource
  <2>2. search'.q["f"] = Just(u, 0) /\ search'.dist["f"] = Just(u, 0)
    BY <1>1 DEF PinSource, Dirs
  <2>3. Close(input.n, graph, cur.node, u, cur'.target, "f", u, 0)
    <3>1. u \in 0 .. input.n - 1 /\ u # cur.node
      BY <1>3, AtWork
    <3>2. Sound(input.n, RemoveAllIncidentArcs(graph, cur.node)) /\ input.n \in Nat
      BY <1>3, AtWork, CutIsSound
    <3>3. Near(input.n, graph, cur.node)[<<u, u>>] = 0
      BY <3>1, <3>2, FarIsMetric DEF Near
    <3> QED BY <3>1, <3>3 DEF Close
  <2>4. Notes(input.n, graph, cur.node, u, cur'.target, search', "f")
    BY <2>2, <2>3 DEF Notes, Just
  <2>5. Noted("f")'
    BY <1>1, <1>2, <2>4, InTheseTermsNext
  <2> QED BY <1>1, <2>1, <2>5 DEF SearchOK
<1> QED BY <1>5, <1>6, <1>7, <1>8, <1>9 DEF IInv

LEMMA LastTargetOK ==
  ASSUME IInv, LastTarget PROVE IInv'
<1>1. /\ input' = input /\ graph' = graph /\ pc = "target" /\ pc' = "pin" /\ rank' = rank
      /\ cur.outs = {} /\ cur' = [node |-> cur.node, ins |-> cur.ins]
  BY DEF LastTarget
<1>2. cur'.node = cur.node /\ cur'.ins = cur.ins /\ DOMAIN cur' = {"node", "ins"}
  BY <1>1
<1>3. Contracting /\ Working
  BY <1>1 DEF Contracting, Working
<1>4. Sources' = Sources /\ \A x : Done(x)' <=> Done(x)
  BY <1>1, <1>2, AroundStays
<1>5. GraphOK'
  BY <1>1, <1>2, <1>3, InputStays DEF IInv, GraphOK, Working, Contracting
<1>6. KeepsOK'
  <2>1. Remaining' \subseteq Remaining
    BY <1>1, InputStays DEF Remaining
  <2> QED BY <1>1, <1>3, <2>1, KeepsStays DEF IInv
<1>7. SourcesOK'
  <2>1. \A x \in Sources \ cur.ins : x = cur.source \/ Done(x)
    BY <1>1 DEF IInv, SourcesOK, Searching
  <2>2. Done(cur.source)
    BY <1>1 DEF IInv, TargetsOK, Done
  <2>3. cur.ins \subseteq Sources
    BY <1>3 DEF IInv, SourcesOK
  <2> QED BY <1>1, <1>2, <1>4, <2>1, <2>2, <2>3 DEF SourcesOK, Searching
<1>8. TargetsOK' /\ SearchOK'
  BY <1>1 DEF TargetsOK, SearchOK, Searching
<1> QED BY <1>5, <1>6, <1>7, <1>8 DEF IInv

LEMMA NextTargetOK ==
  ASSUME IInv, NEW t \in Nodes, NextTarget(t) PROVE IInv'
<1>1. /\ input' = input /\ graph' = graph /\ pc = "target" /\ rank' = rank
      /\ t \in cur.outs /\ search' = PinTarget(search, t)
      /\ cur' = [node |-> cur.node, ins |-> cur.ins, source |-> cur.source, outs |-> cur.outs \ {t}, target |-> t]
      /\ pc' = IF t \in DOMAIN search.dist["f"] /\ search.dist["f"][t] <= Detour(t) THEN "target" ELSE "search"
  BY DEF NextTarget
<1>2. /\ cur'.node = cur.node /\ cur'.ins = cur.ins /\ cur'.source = cur.source /\ cur'.outs = cur.outs \ {t}
      /\ cur'.target = t /\ DOMAIN cur' = {"node", "ins", "source", "outs", "target"}
  BY <1>1
<1>3. Contracting /\ Working /\ Searching
  BY <1>1 DEF Contracting, Working, Searching
<1>4. /\ Sources' = Sources /\ \A x : Targets(x)' = Targets(x) /\ (Done(x)' <=> Done(x))
      /\ \A x, y : Needless(x, y)' <=> Needless(x, y)
  BY <1>1, <1>2, AroundStays
<1>5. GraphOK'
  BY <1>1, <1>2, <1>3, InputStays DEF IInv, GraphOK, Working, Contracting
<1>6. KeepsOK'
  <2>1. Remaining' \subseteq Remaining
    BY <1>1, InputStays DEF Remaining
  <2> QED BY <1>1, <1>3, <2>1, KeepsStays DEF IInv
<1>7. SourcesOK'
  <2>1. (\A x \in Sources \ cur.ins : x = cur.source \/ Done(x)) /\ cur.ins \subseteq Sources
    BY <1>3 DEF IInv, SourcesOK
  <2> QED BY <1>1, <1>2, <1>4, <2>1 DEF SourcesOK, Contracting
<1>8. /\ cur.source \in Sources /\ cur.outs \subseteq Targets(cur.source)
      /\ \A x \in Targets(cur.source) \ cur.outs : Needless(cur.source, x)
  BY <1>1, <1>3 DEF IInv, TargetsOK
<1>9. /\ input.n \in Nat /\ Sound(input.n, graph) /\ Sound(input.n, RemoveAllIncidentArcs(graph, cur.node))
      /\ t \in 0 .. input.n - 1 /\ t # cur.node
  BY <1>1, <1>3, <1>8, AtWork, CutIsSound
<1>10. Shape(search) /\ Notes(input.n, graph, cur.node, cur.source, cur.target, search, "f")
  BY <1>3, InTheseTerms DEF IInv, SearchOK, Shape
<1>11. TargetsOK'
  <2>1. ASSUME t \in DOMAIN search.dist["f"], search.dist["f"][t] <= Detour(t) PROVE Needless(cur.source, t)
    <3>1. Close(input.n, graph, cur.node, cur.source, cur.target, "f", t, search.dist["f"][t])
      BY <1>10, <2>1 DEF Notes
    <3>2. Near(input.n, graph, cur.node)[<<cur.source, t>>] \in Nat
      BY <1>3, <1>8, <1>9, AtWork, FarIsMetric DEF Near
    <3>3. Detour(t) \in Nat /\ Detour(t) = Detouring(graph, cur.node, cur.source, t)
      <4>1. <<cur.source, cur.node>> \in DOMAIN graph /\ <<cur.node, t>> \in DOMAIN graph
        BY <1>1, <1>3, <1>8, AtWork
      <4> QED BY <1>9, <4>1 DEF Detour, Detouring, Sound
    <3>4. Spare(input.n, graph, cur.node, cur.source, t)
      BY <2>1, <3>1, <3>2, <3>3 DEF Close, Spare
    <3> QED BY <3>4, InTheseTerms
  <2>2. t \in Targets(cur.source)
    BY <1>1, <1>8
  <2>3. CASE pc' = "target"
    <3>1. Needless(cur.source, t)
      BY <1>1, <2>1, <2>3
    <3> QED BY <1>2, <1>4, <1>8, <2>3, <3>1 DEF TargetsOK
  <2>4. CASE pc' = "search"
    BY <1>2, <1>4, <1>8, <2>2, <2>4 DEF TargetsOK
  <2> QED BY <1>1, <2>3, <2>4
<1>12. SearchOK'
  <2>1. search' = [q |-> [search.q EXCEPT !["b"] = Just(t, 0)], dist |-> [search.dist EXCEPT !["b"] = Just(t, 0)], pops |-> 0]
    BY <1>1 DEF PinTarget
  <2>2. /\ search'.q["f"] = search.q["f"] /\ search'.dist["f"] = search.dist["f"]
        /\ search'.q["b"] = Just(t, 0) /\ search'.dist["b"] = Just(t, 0)
    BY <1>10, <2>1 DEF Shape, Dirs
  <2>3. DOMAIN search' = {"q", "dist", "pops"} /\ DOMAIN search'.q = Dirs /\ DOMAIN search'.dist = Dirs
    BY <1>10, <2>1 DEF Shape
  <2>4. Notes(input.n, graph, cur.node, cur.source, t, search', "f")
    BY <1>10, <2>2 DEF Notes, Close
  <2>5. Close(input.n, graph, cur.node, cur.source, t, "b", t, 0)
    <3>1. Near(input.n, graph, cur.node)[<<t, t>>] = 0
      BY <1>9, FarIsMetric DEF Near
    <3> QED BY <1>9, <3>1 DEF Close
  <2>6. Notes(input.n, graph, cur.node, cur.source, t, search', "b")
    BY <2>2, <2>5 DEF Notes, Just
  <2>7. Noted("f")' /\ Noted("b")'
    BY <1>1, <1>2, <2>4, <2>6, InTheseTermsNext
  <2> QED BY <2>3, <2>7 DEF SearchOK
<1> QED BY <1>5, <1>6, <1>7, <1>11, <1>12 DEF IInv

(* A search ends with a witness, goes on, or ends with a shortcut.           *)
LEMMA NoShortcutOK ==
  ASSUME IInv, pc = "search", pc' \in {"target", "search"},
         input' = input, graph' = graph, rank' = rank, cur' = cur, Shape(search'),
         \A e \in Dirs : Notes(input.n, graph, cur.node, cur.source, cur.target, search', e),
         pc' = "target" => Needless(cur.source, cur.target)
  PROVE  IInv'
<1>1. Contracting /\ Working /\ Searching /\ Contracting' /\ Searching' /\ cur'.node = cur.node
  BY DEF Contracting, Working, Searching
<1>2. /\ Sources' = Sources /\ \A x : Targets(x)' = Targets(x) /\ (Done(x)' <=> Done(x))
      /\ \A x, y : Needless(x, y)' <=> Needless(x, y)
  BY <1>1, AroundStays
<1>3. GraphOK'
  BY <1>1, InputStays DEF IInv, GraphOK
<1>4. KeepsOK'
  <2>1. Remaining' \subseteq Remaining
    BY InputStays DEF Remaining
  <2> QED BY <1>1, <2>1, KeepsStays DEF IInv
<1>5. SourcesOK'
  BY <1>1, <1>2 DEF IInv, SourcesOK
<1>6. TargetsOK'
  BY <1>1, <1>2 DEF IInv, TargetsOK
<1>7. SearchOK'
  <2>1. Noted("f")' /\ Noted("b")'
    BY InTheseTermsNext DEF Dirs
  <2> QED BY <2>1 DEF SearchOK, Shape
<1> QED BY <1>3, <1>4, <1>5, <1>6, <1>7 DEF IInv

(* A target without a witness gets its shortcut, and then a way around the  *)
(* node.                                                                    *)
LEMMA ShortcutOK ==
  ASSUME IInv, pc = "search", pc' = "target", AddShortcut,
         input' = input, rank' = rank, cur' = cur, Shape(search'),
         Notes(input.n, graph, cur.node, cur.source, cur.target, search', "f")
  PROVE  IInv'
<1> PICK n : n = input.n
  OBVIOUS
<1> PICK v : v = cur.node
  OBVIOUS
<1> PICK s : s = cur.source
  OBVIOUS
<1> PICK t : t = cur.target
  OBVIOUS
<1> PICK h : h = graph'
  OBVIOUS
<1>1. Contracting /\ Working /\ Searching
  BY DEF Contracting, Working, Searching
<1>2. /\ s \in Sources /\ t \in Targets(s) /\ cur.outs \subseteq Targets(s) /\ {"source", "outs"} \subseteq DOMAIN cur
      /\ \A x \in Targets(s) \ cur.outs : x = t \/ Needless(s, x)
  BY <1>1 DEF IInv, TargetsOK
<1>3. /\ n \in Nat /\ Sound(n, graph)
      /\ \A u \in Sources : u \in 0 .. n - 1 /\ u # v /\ <<u, v>> \in DOMAIN graph /\ v \in 0 .. n - 1
      /\ \A u : \A x \in Targets(u) : x \in 0 .. n - 1 /\ x # v /\ x # u /\ <<v, x>> \in DOMAIN graph
  BY <1>1, AtWork
<1>4. /\ s \in 0 .. n - 1 /\ t \in 0 .. n - 1 /\ s # t /\ v # s /\ v # t /\ v \in 0 .. n - 1
      /\ <<s, v>> \in DOMAIN graph /\ <<v, t>> \in DOMAIN graph
  BY <1>2, <1>3
<1> PICK way : way = Detouring(graph, v, s, t)
  OBVIOUS
<1>5. way \in Nat /\ graph[<<s, v>>].weight \in Nat /\ graph[<<v, t>>].weight \in Nat
  BY <1>3, <1>4 DEF Sound, Detouring
<1>6. h = AddArcOrReduceArcWeight(graph, s, v, t, way)
  BY DEF AddShortcut, Detour, Detouring
<1>7. Shortened(n, graph, h, s, t, way)
  BY <1>3, <1>4, <1>5, <1>6, ShortcutIsSound
<1>8. Far(n, graph)[<<s, t>>] <= way
  <2>1. /\ Far(n, graph)[<<s, t>>] <= Far(n, graph)[<<s, v>>] + Far(n, graph)[<<v, t>>]
        /\ Far(n, graph)[<<s, v>>] <= graph[<<s, v>>].weight /\ Far(n, graph)[<<v, t>>] <= graph[<<v, t>>].weight
        /\ Far(n, graph)[<<s, t>>] \in Nat /\ Far(n, graph)[<<s, v>>] \in Nat /\ Far(n, graph)[<<v, t>>] \in Nat
    BY <1>3, <1>4, FarIsMetric
  <2> QED BY <1>5, <2>1 DEF Detouring
<1>9. \A x, y \in 0 .. n - 1 : Far(n, h)[<<x, y>>] = Far(n, graph)[<<x, y>>]
  <2>1. AsFar(n, graph, h)
    BY <1>7, <1>8, ShortcutKeepsDistances
  <2> QED BY <2>1 DEF AsFar
<1>10. /\ Spare(n, h, v, s, t)
       /\ \A u, x \in 0 .. n - 1 : <<u, v>> \in DOMAIN graph /\ <<v, x>> \in DOMAIN graph /\ Spare(n, graph, v, u, x)
                                   => Spare(n, h, v, u, x)
       /\ \A x : (<<x, v>> \in DOMAIN h <=> <<x, v>> \in DOMAIN graph) /\ (<<v, x>> \in DOMAIN h <=> <<v, x>> \in DOMAIN graph)
  BY <1>3, <1>4, <1>7, ShortcutSpares
<1>11. Sources' = Sources /\ \A u : Targets(u)' = Targets(u)
  BY <1>10, InputStays DEF Sources, Targets, In, Out
<1>12. \A u \in Sources : \A x \in Targets(u) : Needless(u, x) => Needless(u, x)'
  BY <1>3, <1>10, InTheseTerms, InTheseTermsNext
<1>13. \A u \in Sources : Done(u) => Done(u)'
  BY <1>11, <1>12 DEF Done
<1>14. Needless(s, t)'
  BY <1>10, InTheseTermsNext
<1>15. GraphOK'
  <2>1. \A p \in DOMAIN h : p \in Nodes \X Nodes /\ p[1] # p[2] /\ h[p].weight \in Nat
    BY <1>7 DEF Shortened, Sound, Between, Nodes
  <2>2. DOMAIN h \subseteq Links'
    BY <2>1, InputStays DEF Links
  <2> QED BY <1>1, <2>1, <2>2 DEF IInv, GraphOK
<1>16. KeepsOK'
  <2>1. Remaining' \subseteq Remaining /\ Remaining' \subseteq 0 .. n - 1
    BY InputStays DEF Remaining, Nodes
  <2> QED BY <1>1, <1>9, <2>1, KeepsStays DEF IInv
<1>17. SourcesOK'
  <2>1. /\ DOMAIN cur \in SUBSET {"node", "ins", "source", "outs", "target"} /\ {"node", "ins"} \subseteq DOMAIN cur
        /\ cur.ins \subseteq Sources /\ \A u \in Sources \ cur.ins : u = cur.source \/ Done(u)
    BY <1>1 DEF IInv, SourcesOK
  <2> QED BY <1>11, <1>13, <2>1 DEF SourcesOK
<1>18. TargetsOK'
  <2>1. \A x \in Targets(s) \ cur.outs : Needless(s, x)'
    BY <1>2, <1>12, <1>14
  <2> QED BY <1>2, <1>11, <2>1 DEF TargetsOK
<1>19. SearchOK'
  <2>1. \A x, y \in 0 .. n - 1 : Near(n, h, v)[<<x, y>>] <= Near(n, graph, v)[<<x, y>>]
    <3>1. NoFarther(n, graph, h, v)
      BY <1>4, <1>7, ShortcutShortens
    <3> QED BY <3>1 DEF NoFarther
  <2>2. \A x, y \in 0 .. n - 1 : Near(n, h, v)[<<x, y>>] \in Nat /\ Near(n, graph, v)[<<x, y>>] \in Nat
    <3>1. Sound(n, h)
      BY <1>7 DEF Shortened
    <3>2. Sound(n, RemoveAllIncidentArcs(h, v)) /\ Sound(n, RemoveAllIncidentArcs(graph, v))
      BY <1>3, <3>1, CutIsSound
    <3> QED BY <1>3, <3>2, FarIsMetric DEF Near
  <2>3. ASSUME NEW y, NEW k, Close(n, graph, v, s, t, "f", y, k) PROVE Close(n, h, v, s, t, "f", y, k)
    BY <1>4, <2>1, <2>2, <2>3 DEF Close
  <2>4. Notes(n, graph, v, s, t, search', "f")
    OBVIOUS
  <2>5. Notes(n, h, v, s, t, search', "f")
    BY <2>3, <2>4 DEF Notes
  <2>6. Noted("f")'
    BY <2>5, InTheseTermsNext
  <2> QED BY <2>6 DEF SearchOK, Shape
<1> QED BY <1>15, <1>16, <1>17, <1>18, <1>19 DEF IInv

LEMMA NoWitnessOK ==
  ASSUME IInv, NoWitness PROVE IInv'
<1>1. pc = "search" /\ pc' = "target" /\ AddShortcut /\ input' = input /\ rank' = rank /\ cur' = cur /\ search' = search
  BY DEF NoWitness
<1>2. Shape(search) /\ Notes(input.n, graph, cur.node, cur.source, cur.target, search, "f")
  BY <1>1, InTheseTerms DEF IInv, SearchOK, Shape, Searching
<1> QED BY <1>1, <1>2, ShortcutOK

LEMMA SettleOK ==
  ASSUME IInv, Settle PROVE IInv'
<1> PICK way : way = Detour(cur.target)
  OBVIOUS
<1> PICK d : d = SearchSide(search)
  OBVIOUS
<1>1. PICK x \in DOMAIN search.q[d] :
        LET r == ForwardSettle(search, d, x, cur.node, way) IN
        /\ search' = [r.sr EXCEPT !.pops = @ + 1]
        /\ pc' = IF r.found \/ search.pops + 1 > maxPop THEN "target" ELSE "search"
        /\ IF ~r.found /\ search.pops + 1 > maxPop THEN AddShortcut ELSE graph' = graph
  BY DEF Settle
<1> PICK r : r = ForwardSettle(search, d, x, cur.node, way)
  OBVIOUS
<1>2. /\ search' = [r.sr EXCEPT !.pops = r.sr.pops + 1]
      /\ pc' = IF r.found \/ search.pops + 1 > maxPop THEN "target" ELSE "search"
      /\ IF ~r.found /\ search.pops + 1 > maxPop THEN AddShortcut ELSE graph' = graph
  BY <1>1
<1>3. pc = "search" /\ cur' = cur /\ input' = input /\ rank' = rank
  BY DEF Settle
<1>4. d \in Dirs
  BY DEF SearchSide, Dirs
<1>5. /\ Shape(search)
      /\ \A e \in Dirs : Notes(input.n, graph, cur.node, cur.source, cur.target, search, e)
  BY <1>3, InTheseTerms DEF IInv, SearchOK, Shape, Searching, Dirs
<1>6. /\ cur.source \in Sources /\ cur.target \in Targets(cur.source) /\ Contracting
  BY <1>3 DEF IInv, TargetsOK, Searching, Contracting
<1>7. /\ input.n \in Nat /\ Sound(input.n, graph)
      /\ cur.source \in 0 .. input.n - 1 /\ cur.target \in 0 .. input.n - 1
      /\ <<cur.source, cur.node>> \in DOMAIN graph /\ <<cur.node, cur.target>> \in DOMAIN graph
  BY <1>6, AtWork
<1>8. way \in Nat /\ way = Detouring(graph, cur.node, cur.source, cur.target)
  BY <1>7 DEF Detour, Detouring, Sound
<1>9. /\ Shape(r.sr) /\ \A e \in Dirs : Notes(input.n, graph, cur.node, cur.source, cur.target, r.sr, e)
      /\ r.found => Near(input.n, graph, cur.node)[<<cur.source, cur.target>>] <= way
  BY <1>4, <1>5, <1>7, <1>8, SettleNotes
<1>10. Shape(search') /\ search'.q = r.sr.q /\ search'.dist = r.sr.dist
  BY <1>2, <1>9 DEF Shape
<1>11. \A e \in Dirs : Notes(input.n, graph, cur.node, cur.source, cur.target, search', e)
  BY <1>9, <1>10 DEF Notes
<1>12. CASE ~r.found /\ search.pops + 1 > maxPop
  <2>1. pc' = "target" /\ AddShortcut
    BY <1>2, <1>12
  <2>2. Notes(input.n, graph, cur.node, cur.source, cur.target, search', "f")
    BY <1>11 DEF Dirs
  <2> QED BY <1>3, <1>10, <2>1, <2>2, ShortcutOK
<1>13. CASE ~(~r.found /\ search.pops + 1 > maxPop)
  <2>1. graph' = graph /\ pc' \in {"target", "search"} /\ (pc' = "target" => r.found)
    BY <1>2, <1>13
  <2>2. r.found => Needless(cur.source, cur.target)
    BY <1>8, <1>9, InTheseTerms DEF Spare
  <2> QED BY <1>3, <1>10, <1>11, <2>1, <2>2, NoShortcutOK
<1> QED BY <1>12, <1>13

LEMMA FinishContractionOK ==
  ASSUME IInv, FinishContraction PROVE IInv'
<1> PICK n : n = input.n
  OBVIOUS
<1> PICK v : v = cur.node
  OBVIOUS
<1>1. /\ pc = "pin" /\ cur.ins = {} /\ graph' = RemoveAllIncidentArcs(graph, v) /\ input' = input /\ rank' = rank
      /\ pc' \in {"order", "pick"}
  BY DEF FinishContraction
<1>2. Contracting /\ Working /\ v \in DOMAIN rank
  BY <1>1 DEF IInv, GraphOK, Contracting, Working
<1>3. n \in Nat /\ Sound(n, graph)
  BY <1>2, AtWork
<1>4. Dispensable(n, graph, v)
  <2> SUFFICES ASSUME NEW u \in 0 .. n - 1, NEW t \in 0 .. n - 1, <<u, v>> \in DOMAIN graph, <<v, t>> \in DOMAIN graph, u # t
               PROVE  Spare(n, graph, v, u, t)
    BY DEF Dispensable
  <2>1. u \in Sources /\ t \in Targets(u)
    BY DEF Sources, Targets, In, Out, Nodes
  <2>2. Done(u)
    BY <1>1, <2>1 DEF IInv, SourcesOK
  <2> QED BY <2>1, <2>2, InTheseTerms DEF Done
<1>5. \A x, y \in (0 .. n - 1) \ {v} : Far(n, graph')[<<x, y>>] = Far(n, graph)[<<x, y>>]
  <2> SUFFICES ASSUME NEW x \in (0 .. n - 1) \ {v}, NEW y \in (0 .. n - 1) \ {v}
               PROVE  Far(n, graph')[<<x, y>>] = Far(n, graph)[<<x, y>>]
    OBVIOUS
  <2>1. AsFarWithout(n, graph, v)
    BY <1>3, <1>4, NodeCanGo
  <2>2. Near(n, graph, v)[<<x, y>>] = Far(n, graph)[<<x, y>>]
    BY <2>1 DEF AsFarWithout
  <2>3. Far(n, graph') = Near(n, graph, v)
    BY <1>1 DEF Near
  <2> QED BY <2>2, <2>3
<1>6. GraphOK'
  <2>1. Sound(n, graph')
    BY <1>1, <1>3, CutIsSound
  <2>2. DOMAIN graph' \subseteq Links' /\ \A p \in DOMAIN graph' : graph'[p].weight \in Nat
    BY <1>1, <2>1, InputStays DEF Sound, Links, Between, Nodes
  <2> QED BY <1>1, <2>2 DEF IInv, GraphOK, Contracting
<1>7. KeepsOK'
  <2>1. Remaining' \subseteq Remaining /\ Remaining' \subseteq (0 .. n - 1) \ {v}
    BY <1>1, <1>2, InputStays DEF Remaining, Nodes
  <2> QED BY <1>1, <1>2, <1>5, <2>1, KeepsStays DEF IInv
<1> QED BY <1>1, <1>6, <1>7 DEF IInv, SourcesOK, TargetsOK, SearchOK, Contracting, Searching

-----------------------------------------------------------------------------
(* The constructor is the only one that changes anything here: once the      *)
(* hierarchy is built, and between its steps, nothing of this moves.         *)
LEMMA NothingMoves ==
  ASSUME IInv, UNCHANGED buildVars PROVE IInv'
<1> USE DEF buildVars
<1>1. \/ pc = "pick" \/ Contracting \/ ~Working
  BY DEF Working
<1>2. GraphOK'
  BY InputStays DEF IInv, GraphOK, Working, Contracting
<1>3. KeepsOK'
  <2>1. Remaining' \subseteq Remaining
    BY InputStays DEF Remaining
  <2>2. CASE Working
    BY <2>1, <2>2, KeepsStays DEF IInv
  <2>3. CASE ~Working
    BY <2>3 DEF KeepsOK, Working, Contracting
  <2> QED BY <2>2, <2>3
<1>4. /\ Sources' = Sources /\ \A x : Targets(x)' = Targets(x) /\ (Done(x)' <=> Done(x))
      /\ \A x, y : Needless(x, y)' <=> Needless(x, y)
  BY AroundStays
<1>5. \A d : Noted(d)' <=> Noted(d)
  BY InTheseTerms, InTheseTermsNext
<1>6. SourcesOK'
  BY <1>4 DEF IInv, SourcesOK, Contracting, Searching
<1>7. TargetsOK'
  BY <1>4 DEF IInv, TargetsOK, Searching
<1>8. SearchOK'
  BY <1>5 DEF IInv, SearchOK, Searching
<1> QED BY <1>2, <1>3, <1>6, <1>7, <1>8 DEF IInv

LEMMA FinishOK ==
  ASSUME IInv, Finish PROVE IInv'
<1>1. pc' = "built" /\ input' = input
  BY DEF Finish
<1> QED BY <1>1 DEF IInv, GraphOK, KeepsOK, SourcesOK, TargetsOK, SearchOK, Working, Contracting, Searching

(* The invariant of contraction, and with it the distances of the core.      *)
THEOREM ContractionInvariant == Spec => []IInv
<1>1. Start => IInv
  BY InitOK DEF Start
<1>2. ASSUME IInv, [Next]_vars PROVE IInv'
  <2>1. CASE Building
    <3>1. CASE PickByImportance
      <4>1. pc = "pick" /\ \E v \in MayBeLeastImportant : StartContraction(v)
        BY <3>1 DEF PickByImportance
      <4> QED BY <1>2, <4>1, StartContractionOK
    <3>2. CASE PickByRank
      <4>1. pc = "pick" /\ StartContraction(given[Cardinality(DOMAIN rank) + 1])
        BY <3>2 DEF PickByRank
      <4> QED BY <1>2, <4>1, StartContractionOK
    <3>3. CASE \E u \in Nodes : NextSource(u)
      BY <1>2, <3>3, NextSourceOK
    <3>4. CASE \E t \in Nodes : NextTarget(t)
      BY <1>2, <3>4, NextTargetOK
    <3> QED BY <1>2, <2>1, <3>1, <3>2, <3>3, <3>4, SettleOK, NoWitnessOK, LastTargetOK, FinishContractionOK, FinishOK
         DEF Building
  <2>2. CASE UNCHANGED buildVars
    BY <1>2, <2>2, NothingMoves
  <2>3. UNCHANGED vars => UNCHANGED buildVars
    BY DEF vars
  <2> QED BY <1>2, <2>1, <2>2, <2>3 DEF Next
<1> QED BY <1>1, <1>2, PTL DEF Spec

(* Whatever is contracted, the distances between the nodes that remain are  *)
(* those of the road graph.                                                 *)
THEOREM ContractionKeepsDistances == Spec => []CoreKeepsDistances
<1>1. IInv => CoreKeepsDistances
  BY DEF IInv, KeepsOK, Working, CoreKeepsDistances
<1> QED BY <1>1, ContractionInvariant, PTL

(* The distances of the road graph.                                          *)
LEMMA TrueIsMetric ==
  ASSUME input \in Inputs
  PROVE  /\ input.n \in Nat /\ Nodes = 0 .. input.n - 1 /\ IsFiniteSet(Nodes)
         /\ \A x, y \in Nodes : TrueDistance[<<x, y>>] \in Nat /\ TrueDistance[<<x, y>>] <= Inf
         /\ \A x \in Nodes : TrueDistance[<<x, x>>] = 0
         /\ \A x, y, z \in Nodes : TrueDistance[<<x, z>>] <= TrueDistance[<<x, y>>] + TrueDistance[<<y, z>>]
         /\ \A e \in DOMAIN CleanGraph : /\ e \in Links /\ CleanGraph[e].weight \in Nat /\ CleanGraph[e].mid = NoId
                                         /\ TrueDistance[e] <= CleanGraph[e].weight
<1>1. input.n \in Nat /\ Sound(input.n, CleanGraph)
  BY CleanGraphIsSound
<1>2. TrueDistance = Far(input.n, CleanGraph)
  BY InTheseTerms DEF TrueDistance
<1>3. Nodes = 0 .. input.n - 1 /\ IsFiniteSet(Nodes)
  BY <1>1, FS_Interval DEF Nodes
<1>4. \A e \in DOMAIN CleanGraph : e \in Links /\ CleanGraph[e].weight \in Nat
  BY <1>1, <1>3 DEF Sound, Links, Between
<1>5. \A e \in DOMAIN CleanGraph : CleanGraph[e].mid = NoId
  BY DEF CleanGraph
<1>6. \A e \in DOMAIN CleanGraph : TrueDistance[e] <= CleanGraph[e].weight
  <2> SUFFICES ASSUME NEW e \in DOMAIN CleanGraph PROVE TrueDistance[e] <= CleanGraph[e].weight
    OBVIOUS
  <2>1. PICK x \in Nodes, y \in Nodes : e = <<x, y>>
    BY <1>4 DEF Links
  <2> QED BY <1>1, <1>2, <1>3, <2>1, FarIsMetric
<1> QED BY <1>1, <1>2, <1>3, <1>4, <1>5, <1>6, FarIsMetric

(* A side that has at least the arcs another one has.                       *)
Keeps(s, s1) == \A d \in Dirs : /\ DOMAIN s[d] \subseteq DOMAIN s1[d]
                                /\ \A p \in DOMAIN s[d] : s1[d][p] = s[d][p]
LEMMA StandsStill ==
  ASSUME NEW clean, NEW D, NEW s, NEW s1, Keeps(s, s1), NEW a, NEW e, Stands(clean, D, s, a, e)
  PROVE  Stands(clean, D, s1, a, e)
BY DEF Stands, Keeps, Dirs

(* A way up is still there when arcs are only added.                        *)
LEMMA HopStays ==
  ASSUME NEW D, NEW s, NEW s1, Keeps(s, s1), NEW d \in Dirs, NEW x, NEW y, Hop(D, s, d, x, y)
  PROVE  Hop(D, s1, d, x, y)
<1>1. PICK p \in DOMAIN s[d] : p[1] = x /\ s[d][p].weight + D[SearchArc(d, p[2], y)] = D[SearchArc(d, x, y)]
  BY DEF Hop
<1>2. p \in DOMAIN s1[d] /\ s1[d][p] = s[d][p]
  BY DEF Keeps
<1> QED BY <1>1, <1>2 DEF Hop

(* The next node gets the next rank.                                         *)
GrownBy(nodes, r, v, r1) ==
  /\ RankIs(nodes, r1) /\ DOMAIN r1 = DOMAIN r \cup {v} /\ r1[v] = Cardinality(DOMAIN r)
  /\ \A x \in DOMAIN r : r1[x] = r[x]
  /\ Cardinality(DOMAIN r) \in Nat /\ Cardinality(DOMAIN r1) = Cardinality(DOMAIN r) + 1
  /\ \A x \in DOMAIN r, y \in nodes : Later(r1, x, y) <=> Later(r, x, y)
  /\ \A y \in nodes : y # v /\ Later(r1, v, y) <=> y \notin DOMAIN r1
LEMMA RankGrows ==
  ASSUME NEW nodes, IsFiniteSet(nodes), NEW r, RankIs(nodes, r), NEW v \in nodes, v \notin DOMAIN r,
         NEW r1, r1 = Overlaid(Just(v, Cardinality(DOMAIN r)), r)
  PROVE  GrownBy(nodes, r, v, r1)
<1>1. DOMAIN r \subseteq nodes /\ IsFiniteSet(DOMAIN r)
  BY FS_Subset DEF RankIs
<1>2. DOMAIN r1 = DOMAIN r \cup {v} /\ r1[v] = Cardinality(DOMAIN r) /\ \A x \in DOMAIN r : r1[x] = r[x]
  BY DEF Overlaid, Just
<1>3. Cardinality(DOMAIN r) \in Nat /\ Cardinality(DOMAIN r1) = Cardinality(DOMAIN r) + 1
  BY <1>1, <1>2, FS_CardinalityType, FS_AddElement
<1> PICK c : c = Cardinality(DOMAIN r)
  OBVIOUS
<1>4. \A x \in DOMAIN r : r[x] \in Nat /\ r[x] < c
  BY DEF RankIs
<1>5. RankIs(nodes, r1)
  <2>1. \A x \in DOMAIN r1 : r1[x] \in Nat /\ r1[x] < Cardinality(DOMAIN r1)
    BY <1>2, <1>3, <1>4
  <2>2. \A x, y \in DOMAIN r1 : r1[x] = r1[y] => x = y
    <3>1. \A x, y \in DOMAIN r : r[x] = r[y] => x = y
      BY DEF RankIs
    <3> QED BY <1>2, <1>3, <1>4, <3>1
  <2> QED BY <1>1, <1>2, <2>1, <2>2 DEF RankIs
<1>6. ASSUME NEW x \in DOMAIN r, NEW y \in nodes PROVE Later(r1, x, y) <=> Later(r, x, y)
  BY <1>2, <1>3, <1>4 DEF Later
<1>7. ASSUME NEW y \in nodes PROVE y # v /\ Later(r1, v, y) <=> y \notin DOMAIN r1
  BY <1>2, <1>3, <1>4 DEF Later
<1> QED BY <1>2, <1>3, <1>5, <1>6, <1>7 DEF GrownBy

-----------------------------------------------------------------------------
(* One lemma per action again, now for the arcs that are kept.              *)
LEMMA HInvInit == Init => HInv
<1> SUFFICES ASSUME Init PROVE HInv
  OBVIOUS
<1>1. /\ input \in Inputs /\ graph = CleanGraph /\ rank = NoFn /\ side = [d \in Dirs |-> NoFn] /\ pc = "pick"
      /\ mode = "rank" => given \in GivenOrders /\ Range(given) = Nodes
  BY DEF Init
<1>2. DOMAIN rank = {} /\ Cardinality(DOMAIN rank) = 0
  BY <1>1, FS_EmptySet DEF NoFn
<1>3. DOMAIN side = Dirs /\ \A d \in Dirs : DOMAIN side[d] = {}
  BY <1>1 DEF NoFn
<1>4. RanksOK
  <2>1. mode = "rank" => InOrder(given, Nodes, rank)
    <3> SUFFICES ASSUME mode = "rank" PROVE InOrder(given, Nodes, rank)
      OBVIOUS
    <3>1. given \in Seq(Nat)
      BY <1>1, GivenOrdersAssumption
    <3>2. Len(given) \in Nat
      BY <3>1
    <3> QED BY <1>1, <1>2, <3>2 DEF InOrder
  <2>2. RankIs(Nodes, rank)
    BY <1>2 DEF RankIs
  <2> QED BY <1>1, <2>1, <2>2 DEF RanksOK
<1>5. SideOK
  BY <1>2, <1>3 DEF SideOK, SideIs, HopsIn
<1>6. CoreOK
  <2>1. \A e \in DOMAIN graph : e[1] \in InPlay /\ e[2] \in InPlay
    BY <1>1, <1>2, TrueIsMetric DEF InPlay, Remaining, Contracting, Links
  <2>2. \A e \in DOMAIN graph : Stands(CleanGraph, TrueDistance, side, graph[e], e)
    BY <1>1, TrueIsMetric DEF Stands
  <2> QED BY <1>1, <2>1, <2>2 DEF CoreOK, Contracting
<1>7. HierarchyOK
  BY <1>1 DEF HierarchyOK
<1> QED BY <1>4, <1>5, <1>6, <1>7 DEF HInv

(* What the input alone determines stays while it does.                      *)
LEMMA InputAloneStays ==
  ASSUME input' = input
  PROVE  /\ Nodes' = Nodes /\ CleanGraph' = CleanGraph /\ TrueDistance' = TrueDistance /\ InputArcId' = InputArcId
<1>1. InputArcId' = InputArcId
  BY DEF InputArcId, Joining, Nodes
<1>2. CleanGraph' = CleanGraph
  BY <1>1 DEF CleanGraph
<1> QED BY <1>1, <1>2, InputStays

(* Steps within the contraction of a node leave what is kept alone.          *)
LEMMA WithinContraction ==
  ASSUME HInv, IInv, Contracting, Contracting', input' = input, mode' = mode, given' = given,
         graph' = graph, rank' = rank, side' = side, cur'.node = cur.node
  PROVE  HInv'
<1>1. Working /\ Working' /\ Unfinished /\ Unfinished' /\ pc' # "order" /\ pc' # "built" /\ pc # "order"
  BY DEF Working, Unfinished, Contracting
<1>2. RanksOK'
  <2>1. RankIs(Nodes, rank) /\ (mode = "rank" => InOrder(given, Nodes, rank))
    BY <1>1 DEF HInv, RanksOK
  <2> QED BY <1>1, <2>1, InputAloneStays DEF RanksOK
<1>3. SideOK'
  BY <1>1, InputAloneStays DEF HInv, SideOK
<1>4. InPlay' = InPlay
  BY InputAloneStays DEF InPlay, Remaining
<1>5. CoreOK'
  BY <1>1, <1>4, InputAloneStays DEF HInv, CoreOK
<1>6. HierarchyOK'
  BY <1>1 DEF HierarchyOK
<1> QED BY <1>2, <1>3, <1>5, <1>6 DEF HInv

(* In the graph between the remaining nodes, a shortest way from (or to) v   *)
(* begins (ends) with an arc.                                               *)
LEMMA GraphHop ==
  ASSUME NEW n \in Nat, NEW g, Sound(n, g), NEW d \in Dirs, NEW v \in 0 .. n - 1, NEW y \in 0 .. n - 1, v # y,
         Far(n, g)[SearchArc(d, v, y)] < Inf
  PROVE  \E u \in 0 .. n - 1 : /\ SearchArc(d, v, u) \in DOMAIN g
                              /\ g[SearchArc(d, v, u)].weight + Far(n, g)[SearchArc(d, u, y)] = Far(n, g)[SearchArc(d, v, y)]
<1> PICK w : w = Arcs(n, g)
  OBVIOUS
<1>1. /\ w \in Graphs(n) /\ Far(n, g) = Distances(n, w)
      /\ \A a, b \in 0 .. n - 1 : w[<<a, b>>] = IF <<a, b>> \in DOMAIN g THEN g[<<a, b>>].weight ELSE Inf
  BY ArcsAreGraph DEF Far
<1>2. \A a, b \in 0 .. n - 1 : Far(n, g)[<<a, b>>] \in Nat /\ Far(n, g)[<<a, b>>] <= Inf /\ w[<<a, b>>] \in Nat
  BY <1>1, DistanceIsNumber
<1>3. CASE d = "f"
  <2>1. \A a, b : SearchArc(d, a, b) = <<a, b>>
    BY <1>3 DEF SearchArc
  <2>2. PICK u \in Others(n, v) : w[<<v, u>>] + Far(n, g)[<<u, y>>] = Far(n, g)[<<v, y>>]
    BY <1>1, <2>1, WayBegins
  <2>3. u \in 0 .. n - 1
    BY DEF Others
  <2>4. w[<<v, u>>] < Inf
    BY <1>2, <2>1, <2>2, <2>3, InfAssumption
  <2>5. <<v, u>> \in DOMAIN g /\ w[<<v, u>>] = g[<<v, u>>].weight
    BY <1>1, <2>3, <2>4, InfAssumption
  <2> QED BY <2>1, <2>2, <2>3, <2>5
<1>4. CASE d = "b"
  <2>1. \A a, b : SearchArc(d, a, b) = <<b, a>>
    BY <1>4 DEF SearchArc
  <2>2. PICK u \in Others(n, v) : Far(n, g)[<<y, u>>] + w[<<u, v>>] = Far(n, g)[<<y, v>>]
    BY <1>1, <2>1, WayEnds
  <2>3. u \in 0 .. n - 1
    BY DEF Others
  <2>4. w[<<u, v>>] < Inf
    BY <1>2, <2>1, <2>2, <2>3, InfAssumption
  <2>5. <<u, v>> \in DOMAIN g /\ w[<<u, v>>] = g[<<u, v>>].weight
    BY <1>1, <2>3, <2>4, InfAssumption
  <2>6. Far(n, g)[<<y, u>>] \in Nat /\ w[<<u, v>>] \in Nat
    BY <1>2, <2>3
  <2>7. g[SearchArc(d, v, u)].weight + Far(n, g)[SearchArc(d, u, y)] = Far(n, g)[SearchArc(d, v, y)]
    BY <2>1, <2>2, <2>5, <2>6
  <2> QED BY <2>1, <2>3, <2>5, <2>7
<1> QED BY <1>3, <1>4 DEF Dirs

(* The node picked by the given order remains.                              *)
LEMMA NextInOrder ==
  ASSUME NEW o, NEW nodes, NEW r, InOrder(o, nodes, r), Cardinality(DOMAIN r) \in Nat, nodes \ DOMAIN r # {},
         NEW v, v = o[Cardinality(DOMAIN r) + 1]
  PROVE  /\ v \in nodes \ DOMAIN r
         /\ \A r1 : DOMAIN r1 = DOMAIN r \cup {v} /\ Cardinality(DOMAIN r1) = Cardinality(DOMAIN r) + 1 => InOrder(o, nodes, r1)
<1> PICK c : c = Cardinality(DOMAIN r)
  OBVIOUS
<1> PICK h : h = c + 1
  OBVIOUS
<1>0. c \in Nat /\ h \in Nat /\ v = o[h]
  OBVIOUS
<1>1. /\ o \in Seq(Nat) /\ (\A i, j \in DOMAIN o : o[i] = o[j] => i = j) /\ nodes = {o[i] : i \in DOMAIN o}
      /\ DOMAIN r = {o[i] : i \in 1 .. c} /\ c <= Len(o) /\ c \in Nat
  BY GivenOrdersAssumption DEF InOrder, IsInjective, Range
<1>2. DOMAIN o = 1 .. Len(o) /\ Len(o) \in Nat
  BY <1>1
<1>3. c # Len(o)
  BY <1>1, <1>2
<1>4. h \in DOMAIN o
  BY <1>0, <1>1, <1>2, <1>3
<1>5. v \in nodes
  BY <1>0, <1>1, <1>4
<1>6. v \notin DOMAIN r
  <2> SUFFICES ASSUME NEW i \in 1 .. c, v = o[i] PROVE FALSE
    BY <1>1
  <2>1. i \in DOMAIN o
    BY <1>1, <1>2
  <2>2. i = h
    BY <1>0, <1>1, <1>4, <2>1
  <2> QED BY <1>0, <2>2
<1>7. ASSUME NEW r1, DOMAIN r1 = DOMAIN r \cup {v}, Cardinality(DOMAIN r1) = c + 1 PROVE InOrder(o, nodes, r1)
  <2>1. h <= Len(o)
    BY <1>2, <1>4
  <2>2. 1 .. h = (1 .. c) \cup {h}
    BY <1>0
  <2>3. {o[i] : i \in 1 .. h} = {o[i] : i \in 1 .. c} \cup {v}
    BY <1>0, <2>2
  <2> QED BY <1>1, <1>7, <2>1, <2>3 DEF InOrder
<1> QED BY <1>5, <1>6, <1>7

LEMMA StartContractionKeeps ==
  ASSUME HInv, IInv, pc = "pick", NEW v \in Remaining, StartContraction(v),
         mode = "rank" => v = given[Cardinality(DOMAIN rank) + 1]
  PROVE  HInv'
<1> PICK n : n = input.n
  OBVIOUS
<1> PICK D : D = TrueDistance
  OBVIOUS
<1> PICK clean : clean = CleanGraph
  OBVIOUS
<1> PICK nodes : nodes = Nodes
  OBVIOUS
<1> PICK r : r = rank
  OBVIOUS
<1> PICK r1 : r1 = rank'
  OBVIOUS
<1>1. /\ side' = [d \in Dirs |-> Overlaid(SearchGraphArcs(v, d), side[d])]
      /\ rank' = Overlaid(Just(v, Cardinality(DOMAIN rank)), rank)
      /\ cur' = [node |-> v, ins |-> In(graph, v)] /\ pc' = "pin"
      /\ input' = input /\ mode' = mode /\ given' = given /\ graph' = graph
  BY DEF StartContraction
<1>2. Working /\ Working' /\ Unfinished /\ Unfinished' /\ Contracting' /\ ~Contracting
  BY <1>1 DEF Working, Unfinished, Contracting
<1>3. input \in Inputs /\ n \in Nat /\ Sound(n, graph)
  BY <1>2, InTheseTerms DEF IInv, GraphOK
<1>4. /\ RankIs(nodes, rank) /\ (mode = "rank" => InOrder(given, nodes, rank)) /\ DOMAIN side = Dirs
      /\ SideIs(clean, D, nodes, rank, side) /\ HopsIn(D, nodes, rank, side)
  BY <1>2 DEF HInv, RanksOK, SideOK
<1>5. /\ nodes = 0 .. n - 1 /\ IsFiniteSet(nodes) /\ v \in nodes /\ v \notin DOMAIN rank
      /\ \A x, y \in nodes : D[<<x, y>>] \in Nat
  BY <1>3, TrueIsMetric DEF Remaining
<1>6. /\ RankIs(nodes, rank') /\ DOMAIN rank' = DOMAIN rank \cup {v} /\ rank'[v] = Cardinality(DOMAIN rank)
      /\ \A x \in DOMAIN rank : rank'[x] = rank[x]
      /\ Cardinality(DOMAIN rank) \in Nat /\ Cardinality(DOMAIN rank') = Cardinality(DOMAIN rank) + 1
      /\ \A x \in DOMAIN rank, y \in nodes : Later(rank', x, y) <=> Later(rank, x, y)
      /\ \A y \in nodes : y # v /\ Later(rank', v, y) <=> y \notin DOMAIN rank'
  <2>1. r1 = Overlaid(Just(v, Cardinality(DOMAIN r)), r) /\ RankIs(nodes, r) /\ v \notin DOMAIN r
    BY <1>1, <1>4, <1>5
  <2>2. GrownBy(nodes, r, v, r1)
    BY <1>5, <2>1, RankGrows
  <2> QED BY <2>2 DEF GrownBy
<1>7. nodes' = nodes /\ clean' = clean /\ D' = D
  OBVIOUS
<1>8. Nodes' = nodes /\ CleanGraph' = clean /\ TrueDistance' = D
  BY <1>1, InputAloneStays
<1>9. \A e \in DOMAIN graph : e[1] \in Remaining /\ e[2] \in Remaining /\ Stands(clean, D, side, graph[e], e)
  BY <1>2 DEF HInv, CoreOK, InPlay
\* the new arcs
<1>10. ASSUME NEW d \in Dirs
       PROVE  /\ \A p : p \in DOMAIN SearchGraphArcs(v, d) <=> \E y \in nodes : p = <<v, y>> /\ SearchArc(d, v, y) \in DOMAIN graph
              /\ \A y \in nodes : SearchArc(d, v, y) \in DOMAIN graph =>
                   SearchGraphArcs(v, d)[<<v, y>>] = graph[SearchArc(d, v, y)]
  <2>1. (IF d = "f" THEN Out(graph, v) ELSE In(graph, v)) = {y \in nodes : SearchArc(d, v, y) \in DOMAIN graph}
    BY DEF Out, In, SearchArc
  <2> QED BY <2>1 DEF SearchGraphArcs
<1>11. ASSUME NEW d \in Dirs, NEW p \in DOMAIN side[d] PROVE p[1] \in DOMAIN rank /\ p[1] # v
  BY <1>4, <1>5 DEF SideIs, LeadsUp
<1>12. ASSUME NEW d \in Dirs
       PROVE  /\ \A p : p \in DOMAIN side'[d] <=> p \in DOMAIN side[d] \/ \E y \in nodes : p = <<v, y>> /\ SearchArc(d, v, y) \in DOMAIN graph
              /\ \A p \in DOMAIN side[d] : side'[d][p] = side[d][p]
              /\ \A y \in nodes : SearchArc(d, v, y) \in DOMAIN graph =>
                   <<v, y>> \in DOMAIN side'[d] /\ side'[d][<<v, y>>] = graph[SearchArc(d, v, y)]
  <2>1. side'[d] = Overlaid(SearchGraphArcs(v, d), side[d])
    BY <1>1
  <2>2. \A p \in DOMAIN SearchGraphArcs(v, d) : p[1] = v
    BY <1>10
  <2>3. \A p \in DOMAIN side[d] : p \notin DOMAIN SearchGraphArcs(v, d)
    BY <1>11, <2>2
  <2>4. DOMAIN side'[d] = DOMAIN SearchGraphArcs(v, d) \cup DOMAIN side[d]
    BY <2>1 DEF Overlaid
  <2>5. \A p \in DOMAIN side[d] : side'[d][p] = side[d][p]
    BY <2>1, <2>3 DEF Overlaid
  <2>6. ASSUME NEW y \in nodes, SearchArc(d, v, y) \in DOMAIN graph
        PROVE  <<v, y>> \in DOMAIN SearchGraphArcs(v, d) /\ side'[d][<<v, y>>] = graph[SearchArc(d, v, y)]
    <3>1. <<v, y>> \in DOMAIN SearchGraphArcs(v, d) /\ SearchGraphArcs(v, d)[<<v, y>>] = graph[SearchArc(d, v, y)]
      BY <1>10, <2>6
    <3> QED BY <2>1, <3>1 DEF Overlaid
  <2> QED BY <1>10, <2>4, <2>5, <2>6
<1>13. Keeps(side, side')
  BY <1>12 DEF Keeps
<1>14. DOMAIN side' = Dirs
  BY <1>1
<1>15. RanksOK'
  <2>1. mode = "rank" => InOrder(given, nodes, rank')
    <3> SUFFICES ASSUME mode = "rank" PROVE InOrder(given, nodes, rank')
      OBVIOUS
    <3>1. nodes \ DOMAIN rank # {} /\ v = given[Cardinality(DOMAIN rank) + 1] /\ InOrder(given, nodes, rank)
      BY <1>4, <1>5
    <3> QED BY <1>6, <3>1, NextInOrder
  <2> QED BY <1>1, <1>6, <1>8, <2>1 DEF RanksOK
<1>16. SideIs(clean, D, nodes, rank', side')
  <2> SUFFICES ASSUME NEW d \in Dirs, NEW p \in DOMAIN side'[d]
               PROVE  LeadsUp(nodes, rank', p) /\ Stands(clean, D, side', side'[d][p], SearchArc(d, p[1], p[2]))
    BY DEF SideIs
  <2>1. CASE p \in DOMAIN side[d]
    <3>1. LeadsUp(nodes, rank, p) /\ Stands(clean, D, side, side[d][p], SearchArc(d, p[1], p[2]))
      BY <1>4, <2>1 DEF SideIs
    <3>2. LeadsUp(nodes, rank', p)
      BY <1>6, <3>1 DEF LeadsUp
    <3>3. side'[d][p] = side[d][p]
      BY <1>12, <2>1
    <3> QED BY <1>13, <3>1, <3>2, <3>3, StandsStill
  <2>2. CASE p \notin DOMAIN side[d]
    <3>1. PICK y \in nodes : p = <<v, y>> /\ SearchArc(d, v, y) \in DOMAIN graph
      BY <1>12, <2>2
    <3> PICK e : e = SearchArc(d, v, y)
      OBVIOUS
    <3>2. e \in DOMAIN graph /\ (e = <<v, y>> \/ e = <<y, v>>) /\ e[1] # e[2] /\ e[1] \in Remaining /\ e[2] \in Remaining
      BY <1>3, <1>9, <3>1 DEF SearchArc, Sound
    <3>3. y # v /\ y \in Remaining
      BY <3>2
    <3>4. LeadsUp(nodes, rank', p)
      <4>1. y \notin DOMAIN rank'
        BY <1>6, <3>3 DEF Remaining
      <4> QED BY <1>6, <3>1, <3>3, <4>1 DEF LeadsUp, Later
    <3>5. side'[d][p] = graph[e] /\ Stands(clean, D, side, graph[e], e)
      BY <1>9, <1>12, <3>1, <3>2
    <3>6. p[1] = v /\ p[2] = y
      BY <3>1
    <3> QED BY <1>13, <3>4, <3>5, <3>6, StandsStill
  <2> QED BY <2>1, <2>2
<1>17. HopsIn(D, nodes, rank', side')
  <2> SUFFICES ASSUME NEW d \in Dirs, NEW x \in DOMAIN rank', NEW y \in nodes,
                      x # y, Later(rank', x, y), D[SearchArc(d, x, y)] < Inf
               PROVE  Hop(D, side', d, x, y)
    BY DEF HopsIn
  <2>1. CASE x \in DOMAIN rank
    <3>1. Later(rank, x, y)
      BY <1>6, <2>1
    <3>2. Hop(D, side, d, x, y)
      BY <1>4, <2>1, <3>1 DEF HopsIn
    <3> QED BY <1>13, <3>2, HopStays
  <2>2. CASE x = v
    <3>1. y \in Remaining /\ v \in Remaining /\ y # v
      BY <1>6, <2>2 DEF Remaining
    <3>2. \A a, b \in Remaining : Far(n, graph)[<<a, b>>] = D[<<a, b>>]
      BY <1>2, InTheseTerms DEF IInv, KeepsOK
    <3>3. \A a, b \in Remaining : Far(n, graph)[SearchArc(d, a, b)] = D[SearchArc(d, a, b)]
      BY <3>2 DEF SearchArc
    <3>4. Far(n, graph)[SearchArc(d, v, y)] < Inf
      BY <2>2, <3>1, <3>3
    <3>5. PICK u \in 0 .. n - 1 : /\ SearchArc(d, v, u) \in DOMAIN graph
                                  /\ graph[SearchArc(d, v, u)].weight + Far(n, graph)[SearchArc(d, u, y)]
                                       = Far(n, graph)[SearchArc(d, v, y)]
      BY <1>3, <1>5, <3>1, <3>4, GraphHop
    <3>6. u \in Remaining
      BY <1>9, <3>5 DEF SearchArc
    <3>7. graph[SearchArc(d, v, u)].weight + D[SearchArc(d, u, y)] = D[SearchArc(d, v, y)]
      BY <3>1, <3>3, <3>5, <3>6
    <3>8. <<v, u>> \in DOMAIN side'[d] /\ side'[d][<<v, u>>] = graph[SearchArc(d, v, u)]
      BY <1>5, <1>12, <3>5
    <3>9. <<v, u>>[1] = v /\ <<v, u>>[2] = u
      OBVIOUS
    <3> QED BY <2>2, <3>7, <3>8, <3>9 DEF Hop
  <2> QED BY <1>6, <2>1, <2>2
<1>18. SideOK'
  BY <1>8, <1>14, <1>16, <1>17 DEF SideOK
<1>19. CoreOK'
  <2>1. InPlay' = Remaining
    <3>1. InPlay' = Remaining' \cup {v}
      BY <1>1, <1>2 DEF InPlay
    <3>2. Remaining' = Remaining \ {v}
      BY <1>6, <1>8 DEF Remaining
    <3> QED BY <3>1, <3>2
  <2>2. \A e \in DOMAIN graph : Stands(clean, D, side', graph[e], e)
    BY <1>9, <1>13, StandsStill
  <2>3. \A d \in Dirs, y \in nodes : SearchArc(d, v, y) \in DOMAIN graph =>
          /\ <<v, y>> \in DOMAIN side'[d]
          /\ side'[d][<<v, y>>].weight = graph[SearchArc(d, v, y)].weight
    BY <1>12
  <2>4. cur'.node = v
    BY <1>1
  <2> QED BY <1>1, <1>8, <1>9, <2>1, <2>2, <2>3, <2>4 DEF CoreOK
<1>20. HierarchyOK'
  BY <1>1 DEF HierarchyOK
<1> QED BY <1>15, <1>18, <1>19, <1>20 DEF HInv

(* A shortcut stands for the two arcs of the node being contracted.         *)
LEMMA ShortcutKeeps ==
  ASSUME HInv, IInv, pc = "search", pc' = "target", AddShortcut,
         input' = input, mode' = mode, given' = given, rank' = rank, side' = side, cur' = cur
  PROVE  HInv'
<1> PICK v : v = cur.node
  OBVIOUS
<1> PICK s : s = cur.source
  OBVIOUS
<1> PICK t : t = cur.target
  OBVIOUS
<1> PICK way : way = Detour(t)
  OBVIOUS
<1> PICK D : D = TrueDistance
  OBVIOUS
<1>1. Contracting /\ Contracting' /\ Working /\ Working' /\ Searching /\ Unfinished /\ Unfinished' /\ pc' # "order" /\ pc' # "built"
  BY DEF Contracting, Working, Searching, Unfinished
<1>2. s \in Sources /\ t \in Targets(s) /\ input \in Inputs /\ v \in DOMAIN rank
  BY <1>1 DEF IInv, TargetsOK, GraphOK
<1>3. /\ s \in Nodes /\ t \in Nodes /\ v \in Nodes /\ s # t /\ s # v /\ t # v
      /\ <<s, v>> \in DOMAIN graph /\ <<v, t>> \in DOMAIN graph
  BY <1>1, <1>2, AtWork DEF Nodes
<1>4. graph' = AddArcOrReduceArcWeight(graph, s, v, t, way)
  BY DEF AddShortcut
<1>5. way = graph[<<s, v>>].weight + graph[<<v, t>>].weight
  BY DEF Detour
<1>6. \A e \in DOMAIN graph : e[1] \in InPlay /\ e[2] \in InPlay /\ Stands(CleanGraph, D, side, graph[e], e)
  BY <1>1 DEF HInv, CoreOK
<1>7. \A d \in Dirs, y \in Nodes : SearchArc(d, v, y) \in DOMAIN graph =>
        /\ <<v, y>> \in DOMAIN side[d] /\ side[d][<<v, y>>].weight = graph[SearchArc(d, v, y)].weight
  BY <1>1 DEF HInv, CoreOK
<1>8. /\ <<v, s>> \in DOMAIN side["b"] /\ side["b"][<<v, s>>].weight = graph[<<s, v>>].weight
      /\ <<v, t>> \in DOMAIN side["f"] /\ side["f"][<<v, t>>].weight = graph[<<v, t>>].weight
  <2>1. SearchArc("b", v, s) = <<s, v>> /\ SearchArc("f", v, t) = <<v, t>> /\ "b" \in Dirs /\ "f" \in Dirs
    BY DEF SearchArc, Dirs
  <2> QED BY <1>3, <1>7, <2>1
<1> PICK new : new = [weight |-> way, mid |-> v]
  OBVIOUS
<1>9. Stands(CleanGraph, D, side, new, <<s, t>>)
  <2>1. /\ D[<<s, v>>] <= graph[<<s, v>>].weight /\ graph[<<s, v>>].weight \in Nat
        /\ D[<<v, t>>] <= graph[<<v, t>>].weight /\ graph[<<v, t>>].weight \in Nat
    BY <1>3, <1>6 DEF Stands
  <2>2. /\ D[<<s, t>>] <= D[<<s, v>>] + D[<<v, t>>] /\ D[<<s, t>>] \in Nat /\ D[<<s, v>>] \in Nat /\ D[<<v, t>>] \in Nat
        /\ v \in Nat
    BY <1>2, <1>3, TrueIsMetric
  <2>3. way \in Nat /\ D[<<s, t>>] <= way
    BY <1>5, <2>1, <2>2
  <2>4. v # NoId
    BY <2>2, NoIdAssumption
  <2>5. new.weight = way /\ new.mid = v /\ <<s, t>>[1] = s /\ <<s, t>>[2] = t
    OBVIOUS
  <2> QED BY <1>5, <1>8, <2>3, <2>4, <2>5 DEF Stands
<1>10. /\ \A e \in DOMAIN graph' : e \in DOMAIN graph \/ e = <<s, t>>
       /\ \A e \in DOMAIN graph' : e # <<s, t>> => graph'[e] = graph[e]
       /\ \A e \in DOMAIN graph' : e = <<s, t>> => graph'[e] = new \/ (e \in DOMAIN graph /\ graph'[e] = graph[e])
  BY <1>4 DEF AddArcOrReduceArcWeight, Overlaid, Just
<1>11. RanksOK'
  BY <1>1, InputAloneStays DEF HInv, RanksOK
<1>12. SideOK'
  BY <1>1, InputAloneStays DEF HInv, SideOK
<1>13. CoreOK'
  <2>1. InPlay' = InPlay
    BY <1>1, InputAloneStays DEF InPlay, Remaining
  <2>2. ASSUME NEW e \in DOMAIN graph' PROVE e[1] \in InPlay /\ e[2] \in InPlay /\ Stands(CleanGraph, D, side, graph'[e], e)
    <3>1. CASE e \in DOMAIN graph /\ graph'[e] = graph[e]
      BY <1>6, <3>1
    <3>2. CASE e = <<s, t>> /\ graph'[e] = new
      <4>1. s \in InPlay /\ t \in InPlay
        BY <1>3, <1>6
      <4> QED BY <1>9, <3>2, <4>1
    <3> QED BY <1>10, <3>1, <3>2
  <2>3. ASSUME NEW d \in Dirs, NEW y \in Nodes, SearchArc(d, v, y) \in DOMAIN graph'
        PROVE  <<v, y>> \in DOMAIN side[d] /\ side[d][<<v, y>>].weight = graph'[SearchArc(d, v, y)].weight
    <3>1. SearchArc(d, v, y) # <<s, t>>
      BY <1>3 DEF SearchArc
    <3>2. SearchArc(d, v, y) \in DOMAIN graph /\ graph'[SearchArc(d, v, y)] = graph[SearchArc(d, v, y)]
      BY <1>10, <2>3, <3>1
    <3> QED BY <1>7, <3>2
  <2> QED BY <1>1, <2>1, <2>2, <2>3, InputAloneStays DEF CoreOK
<1>14. HierarchyOK'
  BY <1>1 DEF HierarchyOK
<1> QED BY <1>11, <1>12, <1>13, <1>14 DEF HInv

LEMMA FinishContractionKeeps ==
  ASSUME HInv, IInv, FinishContraction PROVE HInv'
<1> PICK v : v = cur.node
  OBVIOUS
<1>1. /\ pc = "pin" /\ graph' = RemoveAllIncidentArcs(graph, v) /\ pc' = (IF Remaining = {} THEN "order" ELSE "pick")
      /\ input' = input /\ mode' = mode /\ given' = given /\ rank' = rank /\ side' = side
  BY DEF FinishContraction
<1>2. Contracting /\ ~Contracting' /\ Working /\ Unfinished /\ Unfinished' /\ pc' # "built" /\ (Working' => pc' = "pick")
  BY <1>1 DEF Contracting, Working, Unfinished
<1>3. RankIs(Nodes, rank) /\ (mode = "rank" => InOrder(given, Nodes, rank))
  BY <1>2 DEF HInv, RanksOK
<1>4. pc' = "order" => DOMAIN rank = Nodes
  BY <1>1, <1>3 DEF Remaining, RankIs
<1>5. RanksOK'
  BY <1>1, <1>3, <1>4, InputAloneStays DEF RanksOK
<1>6. SideOK'
  BY <1>1, <1>2, InputAloneStays DEF HInv, SideOK
<1>7. CoreOK'
  <2>1. InPlay' = Remaining /\ InPlay = Remaining \cup {v}
    BY <1>1, <1>2, InputAloneStays DEF InPlay, Remaining
  <2>2. \A e \in DOMAIN graph' : e \in DOMAIN graph /\ graph'[e] = graph[e] /\ v # e[1] /\ v # e[2]
    BY <1>1 DEF RemoveAllIncidentArcs, Restrict
  <2>3. \A e \in DOMAIN graph : e[1] \in InPlay /\ e[2] \in InPlay /\ Stands(CleanGraph, TrueDistance, side, graph[e], e)
    BY <1>2 DEF HInv, CoreOK
  <2> QED BY <1>1, <1>2, <2>1, <2>2, <2>3, InputAloneStays DEF CoreOK
<1>8. HierarchyOK'
  BY <1>2 DEF HierarchyOK
<1> QED BY <1>5, <1>6, <1>7, <1>8 DEF HInv

(* What a hierarchy is to the road graph, it stays.                          *)
LEMMA HierarchyStays ==
  ASSUME input' = input, NEW h, ch' = h, OrderIs(Nodes, h), DOMAIN h.side = Dirs,
         Levelled(Nodes, h, CleanGraph, TrueDistance)
  PROVE  HierarchyOK'
<1>1. /\ Nodes' = Nodes /\ CleanGraph' = CleanGraph /\ TrueDistance' = TrueDistance /\ InputArcId' = InputArcId
  BY InputAloneStays
<1> PICK nodes : nodes = Nodes
  OBVIOUS
<1> PICK clean : clean = CleanGraph
  OBVIOUS
<1> PICK D : D = TrueDistance
  OBVIOUS
<1>2. h = ch' /\ nodes = Nodes' /\ clean = CleanGraph' /\ D = TrueDistance'
  BY <1>1
<1>3. OrderIs(nodes, h) /\ Levelled(nodes, h, clean, D)
  OBVIOUS
<1>4. OrderIs(nodes, h)'
  BY <1>3 DEF OrderIs
<1>5. \A a, e : UnpacksTo(h, clean, a, e)' <=> UnpacksTo(h, clean, a, e)
  BY <1>1 DEF UnpacksTo
<1>6. \A level : UpwardIs(nodes, h, clean, D, level)' <=> UpwardIs(nodes, h, clean, D, level)
  BY <1>5 DEF UpwardIs, Named
<1>7. \A level : HopsUp(nodes, h, D, level)' <=> HopsUp(nodes, h, D, level)
  BY DEF HopsUp, Named
<1>8. Levelled(nodes, h, clean, D)'
  BY <1>3, <1>6, <1>7 DEF Levelled, IsLevels
<1> QED BY <1>2, <1>4, <1>8 DEF HierarchyOK

LEMMA StandingStill ==
  ASSUME HInv, UNCHANGED buildVars PROVE HInv'
<1> USE DEF buildVars
<1>1. /\ Nodes' = Nodes /\ CleanGraph' = CleanGraph /\ TrueDistance' = TrueDistance /\ InputArcId' = InputArcId
      /\ (Working' <=> Working) /\ (Unfinished' <=> Unfinished) /\ (Contracting' <=> Contracting)
  BY InputAloneStays DEF Working, Unfinished, Contracting
<1>2. InPlay' = InPlay
  BY <1>1 DEF InPlay, Remaining
<1>3. RanksOK' /\ SideOK' /\ CoreOK'
  BY <1>1, <1>2 DEF HInv, RanksOK, SideOK, CoreOK
<1>4. HierarchyOK'
  <2> SUFFICES ASSUME pc = "built" PROVE HierarchyOK'
    BY DEF HierarchyOK
  <2> PICK h : h = ch
    OBVIOUS
  <2>1. OrderIs(Nodes, h) /\ DOMAIN h.side = Dirs /\ Levelled(Nodes, h, CleanGraph, TrueDistance)
    BY DEF HInv, HierarchyOK
  <2>2. input' = input /\ ch' = h
    OBVIOUS
  <2> QED BY <2>1, <2>2, HierarchyStays
<1> QED BY <1>3, <1>4 DEF HInv

(* The steps of a contraction.                                              *)
LEMMA ContractingKeeps ==
  ASSUME HInv, IInv, IInv', Building, ~Finish PROVE HInv'
<1>1. CASE PickByImportance
  <2>1. pc = "pick" /\ \E v \in Remaining : StartContraction(v)
    BY <1>1 DEF PickByImportance, MayBeLeastImportant
  <2>2. mode # "rank"
    BY <1>1 DEF PickByImportance
  <2> QED BY <2>1, <2>2, StartContractionKeeps
<1>2. CASE PickByRank
  <2> PICK v : v = given[Cardinality(DOMAIN rank) + 1]
    OBVIOUS
  <2>1. pc = "pick" /\ mode = "rank" /\ Remaining # {} /\ StartContraction(v)
    BY <1>2 DEF PickByRank
  <2>2. RankIs(Nodes, rank) /\ InOrder(given, Nodes, rank) /\ input \in Inputs
    BY <2>1 DEF HInv, RanksOK, Unfinished, Working, IInv, GraphOK
  <2>3. Cardinality(DOMAIN rank) \in Nat
    BY <2>2, TrueIsMetric, FS_Subset, FS_CardinalityType DEF RankIs
  <2> PICK r : r = rank
    OBVIOUS
  <2> PICK o : o = given
    OBVIOUS
  <2> PICK nodes : nodes = Nodes
    OBVIOUS
  <2>5. InOrder(o, nodes, r) /\ Cardinality(DOMAIN r) \in Nat /\ nodes \ DOMAIN r # {} /\ v = o[Cardinality(DOMAIN r) + 1]
    BY <2>1, <2>2, <2>3 DEF Remaining
  <2>4. v \in Remaining
    BY <2>5, NextInOrder DEF Remaining
  <2> QED BY <2>1, <2>4, StartContractionKeeps
<1>3. CASE \E u \in Nodes : NextSource(u)
  <2>1. PICK u \in Nodes : NextSource(u)
    BY <1>3
  <2>2. /\ Contracting /\ Contracting' /\ input' = input /\ mode' = mode /\ given' = given
        /\ graph' = graph /\ rank' = rank /\ side' = side /\ cur'.node = cur.node
    BY <2>1 DEF NextSource, Contracting
  <2> QED BY <2>2, WithinContraction
<1>4. CASE \E t \in Nodes : NextTarget(t)
  <2>1. PICK t \in Nodes : NextTarget(t)
    BY <1>4
  <2>2. pc = "target" /\ pc' \in {"target", "search"}
    BY <2>1 DEF NextTarget
  <2>3. /\ Contracting /\ Contracting' /\ input' = input /\ mode' = mode /\ given' = given
        /\ graph' = graph /\ rank' = rank /\ side' = side /\ cur'.node = cur.node
    BY <2>1, <2>2 DEF NextTarget, Contracting
  <2> QED BY <2>3, WithinContraction
<1>5. CASE LastTarget
  <2>1. /\ Contracting /\ Contracting' /\ input' = input /\ mode' = mode /\ given' = given
        /\ graph' = graph /\ rank' = rank /\ side' = side /\ cur'.node = cur.node
    BY <1>5 DEF LastTarget, Contracting
  <2> QED BY <2>1, WithinContraction
<1>6. CASE NoWitness
  <2>1. /\ pc = "search" /\ pc' = "target" /\ AddShortcut /\ input' = input /\ mode' = mode /\ given' = given
        /\ rank' = rank /\ side' = side /\ cur' = cur
    BY <1>6 DEF NoWitness
  <2> QED BY <2>1, ShortcutKeeps
<1>7. CASE Settle
  <2>1. /\ pc = "search" /\ input' = input /\ mode' = mode /\ given' = given /\ rank' = rank /\ side' = side /\ cur' = cur
    BY <1>7 DEF Settle
  <2>2. \/ pc' = "target" /\ AddShortcut
        \/ pc' \in {"target", "search"} /\ graph' = graph
    BY <1>7 DEF Settle
  <2>3. CASE pc' = "target" /\ AddShortcut
    BY <2>1, <2>3, ShortcutKeeps
  <2>4. CASE pc' \in {"target", "search"} /\ graph' = graph
    <3>1. Contracting /\ Contracting'
      BY <2>1, <2>4 DEF Contracting
    <3> QED BY <2>1, <2>4, <3>1, WithinContraction
  <2> QED BY <2>2, <2>3, <2>4
<1>8. CASE FinishContraction
  BY <1>8, FinishContractionKeeps
<1> QED BY <1>1, <1>2, <1>3, <1>4, <1>5, <1>6, <1>7, <1>8 DEF Building

\* s is S in order
Lists(key, S, s) ==
  /\ s \in Seq(S) /\ Len(s) = Cardinality(S) /\ Len(s) \in Nat /\ KeysRise(key, Len(s), s)
  /\ \A i, j \in 1 .. Len(s) : s[i] = s[j] => i = j
  /\ \A x \in S : \E i \in 1 .. Len(s) : s[i] = x
(* Sorting by a key lists every member once, by rising key.                 *)
LEMMA SortedByLists ==
  ASSUME NEW b \in Nat, NEW key, NEW S, IsFiniteSet(S), KeyFor(key, S, b)
  PROVE  Lists(key, S, SortedBy(key, S))
<1> PICK k : k = Cardinality(S)
  OBVIOUS
<1> PICK s : s = SortedBy(key, S)
  OBVIOUS
<1>1. k \in Nat
  BY FS_CardinalityType
<1>2. \E t \in [1 .. k -> S] : KeysRise(key, k, t)
  BY <1>1, Sortable
<1>3. s = CHOOSE t \in [1 .. k -> S] : KeysRise(key, k, t)
  BY DEF SortedBy, KeysRise
<1>4. s \in [1 .. k -> S] /\ KeysRise(key, k, s)
  BY <1>2, <1>3
<1>5. s \in Seq(S) /\ Len(s) = k
  BY <1>1, <1>4, SeqDef
<1>6. \A i, j \in 1 .. k : s[i] = s[j] => i = j
  <2> SUFFICES ASSUME NEW i \in 1 .. k, NEW j \in 1 .. k, i # j PROVE s[i] # s[j]
    OBVIOUS
  <2>1. i < j \/ j < i
    OBVIOUS
  <2>2. key[s[i]] \in Nat /\ key[s[j]] \in Nat
    BY <1>4 DEF KeyFor
  <2>3. key[s[i]] < key[s[j]] \/ key[s[j]] < key[s[i]]
    BY <1>4, <2>1 DEF KeysRise
  <2> QED BY <2>2, <2>3
<1>7. s \in Injection(1 .. k, S)
  BY <1>4, <1>6 DEF Injection, IsInjective
<1>8. Cardinality(1 .. k) = k
  BY <1>1, FS_Interval
<1>9. s \in Surjection(1 .. k, S)
  BY <1>7, <1>8, FS_Injection
<1>10. \A x \in S : \E i \in 1 .. k : s[i] = x
  BY <1>9 DEF Surjection
<1> QED BY <1>1, <1>4, <1>5, <1>6, <1>10 DEF Lists

(* The order for the cache.  What is placed is closed upwards, and every arc *)
(* between two placed nodes leads to a later position.                      *)
Members(s) == {s[i] : i \in 1 .. Len(s)}
Placed(nodes, up, s) ==
  /\ s \in Seq(nodes) /\ Len(s) \in Nat
  /\ \A i, j \in 1 .. Len(s) : s[i] = s[j] => i = j
  /\ \A i \in 1 .. Len(s) : up[s[i]] \subseteq Members(s)
  /\ \A i, j \in 1 .. Len(s) : s[j] \in up[s[i]] => i < j
RisesIn(nodes, up, r) == \A x \in nodes : \A y \in up[x] : y \in nodes /\ r[x] < r[y]
ClosedUp(up, R) == \A x \in R : up[x] \subseteq R

LEMMA RangeIsMembers == ASSUME NEW T, NEW s \in Seq(T) PROVE Range(s) = Members(s)
<1>1. DOMAIN s = 1 .. Len(s)
  OBVIOUS
<1> QED BY <1>1 DEF Range, Members

(* A member of a sequence is of its kind.                                   *)
LEMMA SeqAt == ASSUME NEW T, NEW s \in Seq(T), NEW i \in 1 .. Len(s) PROVE s[i] \in T
OBVIOUS

(* A batch put in front of the order so far, sorted by rank, leaves every   *)
(* node before those above it.                                              *)
LEMMA BatchInFront ==
  ASSUME NEW nodes, IsFiniteSet(nodes), NEW N \in Nat, NEW r, KeyFor(r, nodes, N),
         NEW up, RisesIn(nodes, up, r), NEW s, Placed(nodes, up, s),
         NEW R \in SUBSET nodes, ClosedUp(up, R),
         NEW b, b = SortedBy(r, R \ Members(s))
  PROVE  Placed(nodes, up, b \o s) /\ Members(b \o s) = R \cup Members(s)
<1>b. PICK B : B = R \ Members(s)
  OBVIOUS
<1>m. PICK m : m = Len(b)
  OBVIOUS
<1>k. PICK k : k = Len(s)
  OBVIOUS
<1>t. PICK t : t = b \o s
  OBVIOUS
<1>1. IsFiniteSet(B) /\ B \subseteq nodes
  BY <1>b, FS_Subset
<1>2. KeyFor(r, B, N)
  BY <1>1 DEF KeyFor
<1>3. Lists(r, B, b)
  BY <1>b, <1>1, <1>2, SortedByLists
<1>4. /\ b \in Seq(B) /\ m \in Nat /\ KeysRise(r, m, b) /\ (\A i, j \in 1 .. m : b[i] = b[j] => i = j)
      /\ \A x \in B : \E i \in 1 .. m : b[i] = x
  BY <1>m, <1>3 DEF Lists
<1>5. /\ s \in Seq(nodes) /\ k \in Nat /\ (\A i, j \in 1 .. k : s[i] = s[j] => i = j)
      /\ (\A i \in 1 .. k : up[s[i]] \subseteq Members(s))
      /\ \A i, j \in 1 .. k : s[j] \in up[s[i]] => i < j
  BY <1>k DEF Placed
<1>6. b \in Seq(nodes)
  BY <1>1, <1>4
<1>7. t \in Seq(nodes) /\ Len(t) = m + k /\ \A i \in 1 .. m + k : t[i] = IF i <= m THEN b[i] ELSE s[i - m]
  <2>1. b \o s \in Seq(nodes) /\ Len(b \o s) = Len(b) + Len(s)
    BY <1>5, <1>6, ConcatLen
  <2>2. \A i \in 1 .. Len(b) + Len(s) : (b \o s)[i] = IF i <= Len(b) THEN b[i] ELSE s[i - Len(b)]
    BY <1>5, <1>6, ConcatAt
  <2> QED BY <1>m, <1>k, <1>t, <2>1, <2>2
<1>8. /\ \A i \in 1 .. m : t[i] = b[i] /\ b[i] \in B
      /\ \A i \in 1 .. k : s[i] \in Members(s) /\ s[i] \in nodes
      /\ \A x \in Members(s) : \E i \in 1 .. k : s[i] = x
  <2>1. \A i \in 1 .. m : i \in 1 .. m + k /\ i <= m
    BY <1>4, <1>5
  <2>2. \A i \in 1 .. m : b[i] \in B
    BY <1>m, <1>4, SeqAt
  <2>3. \A i \in 1 .. k : s[i] \in nodes
    BY <1>k, <1>5, SeqAt
  <2> QED BY <1>k, <1>7, <2>1, <2>2, <2>3 DEF Members
<1>9. ASSUME NEW i \in 1 .. m + k
      PROVE  \/ i \in 1 .. m /\ t[i] = b[i] /\ t[i] \in B
             \/ \E a \in 1 .. k : i = m + a /\ t[i] = s[a] /\ t[i] \in Members(s)
  <2>1. CASE i <= m
    <3>1. i \in 1 .. m
      BY <1>4, <1>5, <2>1
    <3> QED BY <1>8, <3>1
  <2>2. CASE ~(i <= m)
    <3>a. PICK a : a = i - m
      OBVIOUS
    <3>1. a \in 1 .. k /\ i = m + a
      BY <3>a, <1>4, <1>5, <2>2
    <3> QED BY <3>a, <1>7, <1>8, <2>2, <3>1
  <2> QED BY <2>1, <2>2
<1>10. \A a \in 1 .. k : t[m + a] = s[a] /\ m + a \in 1 .. m + k
  <2> SUFFICES ASSUME NEW a \in 1 .. k PROVE t[m + a] = s[a] /\ m + a \in 1 .. m + k
    OBVIOUS
  <2>i. PICK i : i = m + a
    OBVIOUS
  <2>1. i \in 1 .. m + k /\ ~(i <= m) /\ i - m = a
    BY <2>i, <1>4, <1>5
  <2> QED BY <2>i, <1>7, <2>1
<1>11. Members(t) = R \cup Members(s)
  <2>1. ASSUME NEW i \in 1 .. m + k PROVE t[i] \in R \cup Members(s)
    BY <1>b, <1>9
  <2>2. ASSUME NEW x \in R \cup Members(s) PROVE \E i \in 1 .. m + k : t[i] = x
    <3>1. CASE x \in Members(s)
      BY <1>8, <1>10, <3>1
    <3>2. CASE x \notin Members(s)
      <4>1. PICK i \in 1 .. m : b[i] = x
        BY <1>b, <1>4, <3>2
      <4>2. i \in 1 .. m + k
        BY <1>4, <1>5
      <4> QED BY <1>8, <4>1, <4>2
    <3> QED BY <3>1, <3>2
  <2> QED BY <1>7, <2>1, <2>2 DEF Members
<1>12. ASSUME NEW i \in 1 .. m + k, NEW j \in 1 .. m + k, t[i] = t[j] PROVE i = j
  <2>1. CASE i \in 1 .. m /\ t[i] = b[i] /\ t[i] \in B
    <3>1. j \in 1 .. m /\ t[j] = b[j]
      <4>1. t[j] \notin Members(s)
        BY <1>b, <1>12, <2>1
      <4> QED BY <1>9, <4>1
    <3> QED BY <1>4, <1>12, <2>1, <3>1
  <2>2. CASE \E a \in 1 .. k : i = m + a /\ t[i] = s[a] /\ t[i] \in Members(s)
    <3>1. PICK a \in 1 .. k : i = m + a /\ t[i] = s[a] /\ t[i] \in Members(s)
      BY <2>2
    <3>3. t[j] \notin B
      BY <1>b, <1>12, <3>1
    <3>2. PICK c \in 1 .. k : j = m + c /\ t[j] = s[c]
      BY <1>9, <3>3
    <3> QED BY <1>5, <1>12, <3>1, <3>2
  <2> QED BY <1>9, <2>1, <2>2
<1>13. ASSUME NEW i \in 1 .. m + k PROVE up[t[i]] \subseteq Members(t)
  <2>1. CASE t[i] \in B
    BY <1>b, <1>11, <2>1 DEF ClosedUp
  <2>2. CASE \E a \in 1 .. k : t[i] = s[a]
    BY <1>5, <1>11, <2>2
  <2> QED BY <1>9, <2>1, <2>2
<1>14. ASSUME NEW i \in 1 .. m + k, NEW j \in 1 .. m + k, t[j] \in up[t[i]] PROVE i < j
  <2>1. CASE i \in 1 .. m /\ t[i] = b[i] /\ t[i] \in B
    <3>1. CASE j \in 1 .. m /\ t[j] = b[j]
      <4>1. r[t[i]] < r[t[j]] /\ t[i] \in nodes /\ t[j] \in nodes
        BY <1>1, <1>14, <2>1 DEF RisesIn
      <4>2. r[t[i]] \in Nat /\ r[t[j]] \in Nat
        BY <4>1 DEF KeyFor
      <4>3. j < i => r[t[j]] < r[t[i]]
        BY <1>4, <2>1, <3>1 DEF KeysRise
      <4> PICK x : x = r[t[i]]
        OBVIOUS
      <4> PICK y : y = r[t[j]]
        OBVIOUS
      <4>4. x < y /\ x \in Nat /\ y \in Nat /\ (j < i => y < x) /\ (i = j => x = y)
        BY <4>1, <4>2, <4>3
      <4>5. i \in Nat /\ j \in Nat
        BY <1>4, <2>1, <3>1
      <4> QED BY <4>4, <4>5
    <3>2. CASE \E a \in 1 .. k : j = m + a
      BY <1>4, <2>1, <3>2
    <3> QED BY <1>9, <3>1, <3>2
  <2>2. CASE \E a \in 1 .. k : i = m + a /\ t[i] = s[a] /\ t[i] \in Members(s)
    <3>1. PICK a \in 1 .. k : i = m + a /\ t[i] = s[a] /\ t[i] \in Members(s)
      BY <2>2
    <3>2. t[j] \in Members(s)
      BY <1>5, <1>14, <3>1
    <3>5. t[j] \notin B
      BY <1>b, <3>2
    <3>3. PICK c \in 1 .. k : j = m + c /\ t[j] = s[c]
      BY <1>9, <3>5
    <3>4. a < c
      BY <1>5, <1>14, <3>1, <3>3
    <3> QED BY <1>4, <3>1, <3>3, <3>4
  <2> QED BY <1>9, <2>1, <2>2
<1>15. m + k \in Nat
  BY <1>4, <1>5
<1> QED BY <1>t, <1>7, <1>11, <1>12, <1>13, <1>14, <1>15 DEF Placed

(* What is reached.                                                          *)
LEMMA ReachedIsClosed ==
  ASSUME NEW nodes, NEW up, DOMAIN up = nodes, \A x \in nodes : up[x] \subseteq nodes, NEW x \in nodes
  PROVE  /\ ReachedBy(up, {x}) \subseteq nodes /\ x \in ReachedBy(up, {x})
         /\ \A y \in ReachedBy(up, {x}) : up[y] \subseteq ReachedBy(up, {x})
<1>1. ReachedBy(up, {x}) = {y \in nodes : \A S \in SUBSET nodes : {x} \subseteq S /\ (\A z \in S : up[z] \subseteq S) => y \in S}
  BY DEF ReachedBy
<1> QED BY <1>1

(* The order for the cache, step by step over the nodes.                     *)
CacheStep(bottom, space, r, i, before) ==
  IF i \notin bottom THEN before ELSE SortedBy(r, space[i] \ Range(before)) \o before
CacheBy(O) == O = [i \in -1 .. input.n - 1 |->
                    IF i = -1 THEN <<>>
                    ELSE IF i \notin BottomLevel THEN O[i - 1]
                    ELSE SortedBy(rank, SearchSpace(i) \ Range(O[i - 1])) \o O[i - 1]]
ReachesUp(nodes, up, space) ==
  /\ space \in [nodes -> SUBSET nodes]
  /\ \A x \in nodes : x \in space[x] /\ \A y \in space[x] : up[y] \subseteq space[x]

\* all that the steps go by
CacheRun(nodes, N, r, up, space, bottom) ==
  /\ IsFiniteSet(nodes) /\ N \in Nat /\ KeyFor(r, nodes, N) /\ RisesIn(nodes, up, r)
  /\ ReachesUp(nodes, up, space) /\ bottom \subseteq nodes
LEMMA CacheStepPlaces ==
  ASSUME NEW nodes, NEW N, NEW r, NEW up, NEW space, NEW bottom, CacheRun(nodes, N, r, up, space, bottom),
         NEW i, NEW s, Placed(nodes, up, s), NEW t, t = CacheStep(bottom, space, r, i, s)
  PROVE  Placed(nodes, up, t) /\ Members(s) \subseteq Members(t) /\ (i \in bottom => space[i] \subseteq Members(t))
<1>1. CASE i \notin bottom
  BY <1>1 DEF CacheStep
<1>2. CASE i \in bottom
  <2>r. PICK R : R = space[i]
    OBVIOUS
  <2>1. PICK b : b = SortedBy(r, R \ Members(s))
    OBVIOUS
  <2>2. s \in Seq(nodes)
    BY DEF Placed
  <2>3. Range(s) = Members(s)
    BY <2>2, RangeIsMembers
  <2>4. t = b \o s
    BY <1>2, <2>r, <2>1, <2>3 DEF CacheStep
  <2>5. R \in SUBSET nodes /\ ClosedUp(up, R)
    BY <1>2, <2>r DEF ReachesUp, CacheRun, ClosedUp
  <2>6. IsFiniteSet(nodes) /\ N \in Nat /\ KeyFor(r, nodes, N) /\ RisesIn(nodes, up, r)
    BY DEF CacheRun
  <2>7. Placed(nodes, up, b \o s) /\ Members(b \o s) = R \cup Members(s)
    BY <2>1, <2>5, <2>6, BatchInFront
  <2> QED BY <2>r, <2>4, <2>7
<1> QED BY <1>1, <1>2

(* The cache order begins empty, and every step of it keeps what is above a *)
(* node behind it.                                                          *)
LEMMA EmptyIsPlaced == ASSUME NEW nodes, NEW up PROVE Placed(nodes, up, <<>>)
BY DEF Placed

\* what is at i after all steps up to i
PlacedBy(nodes, up, bottom, space, i, s) ==
  Placed(nodes, up, s) /\ \A b \in bottom : b <= i => space[b] \subseteq Members(s)
LEMMA CacheStepsPlace ==
  ASSUME NEW n \in Nat, NEW nodes, nodes = 0 .. n - 1,
         NEW N, NEW r, NEW up, NEW space, NEW bottom, CacheRun(nodes, N, r, up, space, bottom), NEW F, F[-1] = <<>>, \A i \in nodes : F[i] = CacheStep(bottom, space, r, i, F[i - 1])
  PROVE  PlacedBy(nodes, up, bottom, space, n - 1, F[n - 1])
<1>0. bottom \subseteq nodes
  BY DEF CacheRun
<1> DEFINE S == {k \in Nat : k <= n => PlacedBy(nodes, up, bottom, space, k - 1, F[k - 1])}
<1>1. 0 \in S
  <2>1. 0 - 1 = -1 /\ \A b \in bottom : ~(b <= 0 - 1)
    BY <1>0
  <2>2. Placed(nodes, up, F[0 - 1])
    BY <2>1, EmptyIsPlaced
  <2> QED BY <2>1, <2>2 DEF PlacedBy
<1>2. ASSUME NEW k \in Nat, k \in S PROVE k + 1 \in S
  <2> SUFFICES ASSUME k + 1 <= n PROVE PlacedBy(nodes, up, bottom, space, (k + 1) - 1, F[(k + 1) - 1])
    OBVIOUS
  <2>1. (k + 1) - 1 = k /\ k <= n /\ k \in nodes
    OBVIOUS
  <2>2. PICK s : s = F[k - 1]
    OBVIOUS
  <2>3. PICK t : t = F[k]
    OBVIOUS
  <2>4. t = CacheStep(bottom, space, r, k, s)
    BY <2>1, <2>2, <2>3
  <2>5. Placed(nodes, up, s) /\ \A b \in bottom : b <= k - 1 => space[b] \subseteq Members(s)
    BY <1>2, <2>1, <2>2 DEF PlacedBy
  <2>6. Placed(nodes, up, t) /\ Members(s) \subseteq Members(t) /\ (k \in bottom => space[k] \subseteq Members(t))
    BY <2>4, <2>5, CacheStepPlaces
  <2>7. \A b \in bottom : b <= k => b = k \/ b <= k - 1
    BY <1>0
  <2>8. PlacedBy(nodes, up, bottom, space, k, t)
    BY <2>5, <2>6, <2>7 DEF PlacedBy
  <2> QED BY <2>1, <2>3, <2>8
<1> HIDE DEF S
<1>3. n \in S
  BY <1>1, <1>2, InductionOnNat
<1> QED BY <1>3 DEF S

(* Every node is in the search space of one no arc leads up to.              *)
LEMMA SpacesCover ==
  ASSUME NEW nodes, NEW N \in Nat, NEW r, KeyFor(r, nodes, N), NEW up, RisesIn(nodes, up, r),
         NEW space, ReachesUp(nodes, up, space), NEW y \in nodes
  PROVE  \E b \in nodes : (\A z \in nodes : b \notin up[z]) /\ y \in space[b]
<1> DEFINE Bottom == {b \in nodes : \A z \in nodes : b \notin up[z]}
<1> DEFINE Lost == {z \in nodes : \A b \in Bottom : z \notin space[b]}
<1> SUFFICES ASSUME Lost # {} PROVE FALSE
  OBVIOUS
<1> DEFINE K == {r[z] : z \in Lost}
<1>1. K \subseteq Nat /\ K # {}
  BY DEF KeyFor
<1> HIDE DEF K
<1>2. PICK l \in K : \A k \in K : l <= k
  BY <1>1, NatHasLeast
<1>3. PICK z \in Lost : l = r[z]
  BY <1>2 DEF K
<1>4. \A x \in Lost : r[z] <= r[x]
  BY <1>2, <1>3 DEF K
<1>5. z \notin Bottom
  BY DEF ReachesUp
<1>6. PICK x \in nodes : z \in up[x]
  BY <1>5
<1>7. r[x] < r[z] /\ r[x] \in Nat /\ r[z] \in Nat
  BY <1>6 DEF RisesIn, KeyFor
<1>8. x \notin Lost
  BY <1>4, <1>7
<1>9. PICK b \in Bottom : x \in space[b]
  BY <1>8
<1>10. z \in space[b]
  BY <1>6, <1>9 DEF ReachesUp
<1> QED BY <1>9, <1>10

(* Sequences over a part are sequences over the whole.                      *)
LEMMA SeqWithin == ASSUME NEW S, NEW T, S \subseteq T PROVE Seq(S) \subseteq Seq(T)
OBVIOUS

CacheSteps(n, bottom, space, r, F) ==
  F = [i \in -1 .. n - 1 |-> IF i = -1 THEN <<>> ELSE CacheStep(bottom, space, r, i, F[i - 1])]
(* The recursion over the nodes is one.                                     *)
LEMMA CacheRecurs ==
  ASSUME NEW n \in Nat, NEW nodes, nodes = 0 .. n - 1, NEW N \in Nat, NEW r, KeyFor(r, nodes, N),
         NEW space, space \in [nodes -> SUBSET nodes], NEW bottom \in SUBSET nodes
  PROVE  \E F : CacheSteps(n, bottom, space, r, F)
<1>d. PICK D : D = -1 .. n - 1
  OBVIOUS
<1>v. PICK V : V = Seq(nodes)
  OBVIOUS
<1>k. PICK key : key = [i \in D |-> i + 1]
  OBVIOUS
<1>s. PICK step : step = [c \in D |-> [f \in [D -> V] |-> IF c = -1 THEN <<>> ELSE CacheStep(bottom, space, r, c, f[c - 1])]]
  OBVIOUS
<1>0. IsFiniteSet(nodes)
  BY FS_Interval
<1>1. <<>> \in V /\ V # {}
  <2>1. <<>> \in Seq(nodes)
    OBVIOUS
  <2> QED BY <1>v, <2>1
<1>2. \A c \in D : c # -1 => c - 1 \in D /\ key[c - 1] < key[c]
  <2>1. \A c \in D : c # -1 => c - 1 \in D /\ c \in Int /\ (c - 1) + 1 < c + 1
    BY <1>d
  <2> QED BY <1>k, <2>1
<1>3. RankedBelow(D, key, n + 1)
  <2>1. \A c \in D : c + 1 \in Nat /\ c + 1 < n + 1
    BY <1>d
  <2> QED BY <1>k, <2>1 DEF RankedBelow
<1>4. \A c \in D : \A f \in [D -> V] : step[c][f] = IF c = -1 THEN <<>> ELSE CacheStep(bottom, space, r, c, f[c - 1])
  BY <1>s
<1>5. ASSUME NEW i, NEW s \in V PROVE CacheStep(bottom, space, r, i, s) \in V
  <2>1. CASE i \notin bottom
    BY <2>1 DEF CacheStep
  <2>2. CASE i \in bottom
    <3>1. PICK T : T = space[i] \ Range(s)
      OBVIOUS
    <3>2. T \subseteq nodes /\ IsFiniteSet(T)
      BY <1>0, <2>2, <3>1, FS_Subset
    <3>3. KeyFor(r, T, N)
      BY <3>2 DEF KeyFor
    <3>4. PICK b : b = SortedBy(r, T)
      OBVIOUS
    <3>5. b \in Seq(T)
      BY <3>2, <3>3, <3>4, SortedByLists DEF Lists
    <3>6. b \in Seq(nodes) /\ s \in Seq(nodes)
      <4>1. Seq(T) \subseteq Seq(nodes)
        BY <3>2, SeqWithin
      <4> QED BY <1>v, <3>5, <4>1
    <3>7. b \o s \in Seq(nodes)
      BY <3>6, ConcatLen
    <3>8. CacheStep(bottom, space, r, i, s) = b \o s
      BY <2>2, <3>1, <3>4 DEF CacheStep
    <3> QED BY <1>v, <3>7, <3>8
  <2> QED BY <2>1, <2>2
<1>6. Stepwise(D, V, step)
  <2> SUFFICES ASSUME NEW c \in D, NEW f \in [D -> V] PROVE step[c][f] \in V
    BY DEF Stepwise
  <2>1. c # -1 => f[c - 1] \in V
    BY <1>2
  <2> QED BY <1>1, <1>4, <1>5, <2>1
<1>7. Local(D, V, key, step)
  <2> SUFFICES ASSUME NEW c \in D, NEW f \in [D -> V], NEW g \in [D -> V], \A e \in Lower(D, key, c) : f[e] = g[e]
               PROVE  step[c][f] = step[c][g]
    BY DEF Local
  <2>1. c # -1 => f[c - 1] = g[c - 1]
    BY <1>2 DEF Lower
  <2> QED BY <1>4, <2>1
<1>8. n + 1 \in Nat
  OBVIOUS
<1>9. Recurses(D, V, step)
  BY <1>1, <1>3, <1>6, <1>7, <1>8, Recursing
<1>10. PICK F \in [D -> V] : \A c \in D : F[c] = step[c][F]
  BY <1>9 DEF Recurses
<1>11. \A c \in D : F[c] = IF c = -1 THEN <<>> ELSE CacheStep(bottom, space, r, c, F[c - 1])
  BY <1>4, <1>10
<1>12. F = [i \in D |-> IF i = -1 THEN <<>> ELSE CacheStep(bottom, space, r, i, F[i - 1])]
  BY <1>10, <1>11
<1> QED BY <1>d, <1>12 DEF CacheSteps

(* An order of all nodes in which every arc leads to a later position.       *)
Complete(n, nodes, up, s) ==
  /\ s \in [1 .. n -> nodes] /\ Len(s) = n
  /\ \A i, j \in 1 .. n : s[i] = s[j] => i = j
  /\ \A x \in nodes : \E i \in 1 .. n : s[i] = x
  /\ \A i, j \in 1 .. n : s[j] \in up[s[i]] => i < j

LEMMA PlacedIsComplete ==
  ASSUME NEW n \in Nat, NEW nodes, nodes = 0 .. n - 1, NEW up, NEW s, Placed(nodes, up, s), Members(s) = nodes
  PROVE  Complete(n, nodes, up, s)
<1>k. PICK k : k = Len(s)
  OBVIOUS
<1>1. /\ s \in Seq(nodes) /\ k \in Nat /\ (\A i, j \in 1 .. k : s[i] = s[j] => i = j)
      /\ \A i, j \in 1 .. k : s[j] \in up[s[i]] => i < j
  BY <1>k DEF Placed
<1>2. s \in [1 .. k -> nodes]
  BY <1>k, <1>1, LenProperties
<1>3. \A x \in nodes : \E i \in 1 .. k : s[i] = x
  BY <1>k DEF Members
<1>4. s \in Bijection(1 .. k, nodes)
  BY <1>1, <1>2, <1>3 DEF Bijection, Injection, Surjection, IsInjective
<1>5. ExistsBijection(1 .. k, nodes)
  BY <1>4 DEF ExistsBijection
<1>6. IsFiniteSet(1 .. k) /\ Cardinality(1 .. k) = k
  BY <1>1, FS_Interval
<1>7. Cardinality(nodes) = k
  BY <1>5, <1>6, FS_Bijection
<1>8. Cardinality(0 .. n - 1) = n
  BY FS_Interval
<1>9. k = n
  BY <1>7, <1>8
<1> QED BY <1>k, <1>1, <1>2, <1>3, <1>9 DEF Complete

(* Sorting all nodes by rank is a complete order too, and so is whatever    *)
(* order the code chooses.                                                  *)
LEMMA CompleteByRank ==
  ASSUME NEW n \in Nat, NEW nodes, nodes = 0 .. n - 1, NEW N \in Nat, NEW r, KeyFor(r, nodes, N),
         NEW up, RisesIn(nodes, up, r), NEW s, s = SortedBy(r, nodes)
  PROVE  Complete(n, nodes, up, s)
<1>1. IsFiniteSet(nodes)
  BY FS_Interval
<1>2. Lists(r, nodes, s)
  BY <1>1, SortedByLists
<1>k. PICK k : k = Len(s)
  OBVIOUS
<1>3. /\ s \in Seq(nodes) /\ k \in Nat /\ KeysRise(r, k, s) /\ (\A i, j \in 1 .. k : s[i] = s[j] => i = j)
      /\ \A x \in nodes : \E i \in 1 .. k : s[i] = x
  BY <1>k, <1>2 DEF Lists
<1>4. s \in [1 .. k -> nodes]
  BY <1>k, <1>3, LenProperties
<1>5. Members(s) = nodes
  <2>1. \A i \in 1 .. k : s[i] \in nodes
    BY <1>4
  <2>2. Members(s) = {s[i] : i \in 1 .. k}
    BY <1>k DEF Members
  <2>3. Members(s) \subseteq nodes
    BY <2>1, <2>2
  <2>4. ASSUME NEW x \in nodes PROVE x \in Members(s)
    <3>1. PICK i \in 1 .. k : s[i] = x
      BY <1>3
    <3> QED BY <2>2, <3>1
  <2> QED BY <2>3, <2>4
<1>6. \A i \in 1 .. Len(s) : up[s[i]] \subseteq Members(s)
  BY <1>k, <1>4, <1>5 DEF RisesIn
<1>7. ASSUME NEW i \in 1 .. k, NEW j \in 1 .. k, s[j] \in up[s[i]] PROVE i < j
  <2>x. PICK x : x = r[s[i]]
    OBVIOUS
  <2>y. PICK y : y = r[s[j]]
    OBVIOUS
  <2>1. s[i] \in nodes /\ s[j] \in nodes
    BY <1>4
  <2>2. x < y /\ x \in Nat /\ y \in Nat
    BY <1>7, <2>1, <2>x, <2>y DEF RisesIn, KeyFor
  <2>3. (j < i => y < x) /\ (i = j => x = y)
    BY <1>3, <2>x, <2>y DEF KeysRise
  <2>4. i \in Nat /\ j \in Nat
    BY <1>3
  <2> QED BY <2>2, <2>3, <2>4
<1>8. Placed(nodes, up, s)
  <2>1. \A i, j \in 1 .. k : s[j] \in up[s[i]] => i < j
    BY <1>7
  <2>2. s \in Seq(nodes) /\ k \in Nat /\ \A i, j \in 1 .. k : s[i] = s[j] => i = j
    BY <1>3
  <2>3. \A i \in 1 .. k : up[s[i]] \subseteq Members(s)
    BY <1>k, <1>6
  <2> QED BY <1>k, <2>1, <2>2, <2>3 DEF Placed
<1> QED BY <1>5, <1>8, PlacedIsComplete

-----------------------------------------------------------------------------
(* At the end of the contraction.                                            *)
UpsOf == [y \in Nodes |-> Ups(y)]
LEMMA UpsRise ==
  ASSUME HInv, IInv, pc = "order"
  PROVE  /\ input.n \in Nat /\ Nodes = 0 .. input.n - 1 /\ IsFiniteSet(Nodes)
         /\ KeyFor(rank, Nodes, Cardinality(Nodes)) /\ Cardinality(Nodes) \in Nat /\ RisesIn(Nodes, UpsOf, rank)
         /\ \A d \in Dirs : \A p \in DOMAIN side[d] : p \in Nodes \X Nodes /\ p[2] \in UpsOf[p[1]] /\ rank[p[1]] < rank[p[2]]
<1>1. input \in Inputs /\ Unfinished
  BY DEF IInv, GraphOK, Unfinished
<1>2. input.n \in Nat /\ Nodes = 0 .. input.n - 1 /\ IsFiniteSet(Nodes)
  BY <1>1, TrueIsMetric
<1>3. RankIs(Nodes, rank) /\ DOMAIN rank = Nodes /\ SideIs(CleanGraph, TrueDistance, Nodes, rank, side)
  BY <1>1 DEF HInv, RanksOK, SideOK
<1>4. Cardinality(Nodes) \in Nat
  BY <1>2, FS_CardinalityType
<1>5. KeyFor(rank, Nodes, Cardinality(Nodes))
  <2>1. \A x \in Nodes : rank[x] \in Nat /\ rank[x] < Cardinality(Nodes)
    BY <1>3 DEF RankIs
  <2>2. \A x \in Nodes : rank[x] <= Cardinality(Nodes)
    BY <1>4, <2>1
  <2>3. \A x, y \in Nodes : rank[x] = rank[y] => x = y
    BY <1>3 DEF RankIs
  <2> QED BY <2>1, <2>2, <2>3 DEF KeyFor
<1>6. \A d \in Dirs : \A p \in DOMAIN side[d] : p \in Nodes \X Nodes /\ rank[p[1]] < rank[p[2]]
  <2> SUFFICES ASSUME NEW d \in Dirs, NEW p \in DOMAIN side[d] PROVE p \in Nodes \X Nodes /\ rank[p[1]] < rank[p[2]]
    OBVIOUS
  <2>1. LeadsUp(Nodes, rank, p)
    BY <1>3 DEF SideIs
  <2>2. p \in Nodes \X Nodes /\ Later(rank, p[1], p[2])
    BY <1>3, <2>1 DEF LeadsUp
  <2>3. p[2] \in DOMAIN rank
    BY <1>3, <2>2
  <2> QED BY <2>2, <2>3 DEF Later
<1>7. \A x, y : y \in Ups(x) <=> \E d \in Dirs : \E p \in DOMAIN side[d] : p[1] = x /\ p[2] = y
  BY DEF Ups, Dirs
<1>8. RisesIn(Nodes, UpsOf, rank)
  <2> SUFFICES ASSUME NEW x \in Nodes, NEW y \in UpsOf[x] PROVE y \in Nodes /\ rank[x] < rank[y]
    BY DEF RisesIn
  <2>1. y \in Ups(x)
    BY DEF UpsOf
  <2>2. PICK d \in Dirs : \E p \in DOMAIN side[d] : p[1] = x /\ p[2] = y
    BY <1>7, <2>1
  <2>3. PICK p \in DOMAIN side[d] : p[1] = x /\ p[2] = y
    BY <2>2
  <2> QED BY <1>6, <2>3
<1>9. \A d \in Dirs : \A p \in DOMAIN side[d] : p[2] \in UpsOf[p[1]]
  BY <1>6, <1>7 DEF UpsOf
<1> QED BY <1>2, <1>4, <1>5, <1>6, <1>8, <1>9

LEMMA CacheOrderIsComplete ==
  ASSUME HInv, IInv, pc = "order"
  PROVE  Complete(input.n, Nodes, UpsOf, CacheOrder)
<1>n. PICK n : n = input.n
  OBVIOUS
<1>d. PICK nodes : nodes = Nodes
  OBVIOUS
<1>r. PICK r : r = rank
  OBVIOUS
<1>u. PICK up : up = UpsOf
  OBVIOUS
<1>b. PICK bottom : bottom = BottomLevel
  OBVIOUS
<1>s. PICK space : space = [x \in Nodes |-> SearchSpace(x)]
  OBVIOUS
<1>N. PICK N : N = Cardinality(Nodes)
  OBVIOUS
<1>1. n \in Nat /\ nodes = 0 .. n - 1 /\ IsFiniteSet(nodes) /\ KeyFor(r, nodes, N) /\ N \in Nat /\ RisesIn(nodes, up, r)
  BY <1>n, <1>d, <1>r, <1>u, <1>N, UpsRise
<1>2. ReachesUp(nodes, up, space)
  <2>1. DOMAIN up = nodes /\ \A x \in nodes : up[x] \subseteq nodes
    BY <1>d, <1>u, <1>1 DEF RisesIn, UpsOf
  <2>2. \A x \in nodes : space[x] = ReachedBy(up, {x})
    BY <1>d, <1>s, <1>u DEF SearchSpace, UpsOf
  <2>3. \A x \in nodes : /\ ReachedBy(up, {x}) \subseteq nodes /\ x \in ReachedBy(up, {x})
                         /\ \A y \in ReachedBy(up, {x}) : up[y] \subseteq ReachedBy(up, {x})
    BY <2>1, ReachedIsClosed
  <2>4. space \in [nodes -> SUBSET nodes]
    BY <1>d, <1>s, <2>2, <2>3
  <2> QED BY <2>2, <2>3, <2>4 DEF ReachesUp
<1>3. bottom \subseteq nodes /\ \A b \in nodes : (\A z \in nodes : b \notin up[z]) => b \in bottom
  BY <1>b, <1>d, <1>u DEF BottomLevel, UpsOf
<1>4. CacheRun(nodes, N, r, up, space, bottom)
  BY <1>1, <1>2, <1>3 DEF CacheRun
<1>5. \A O : CacheBy(O) <=> O = [i \in -1 .. n - 1 |-> IF i = -1 THEN <<>> ELSE CacheStep(bottom, space, r, i, O[i - 1])]
  <2>1. \A i \in -1 .. n - 1 : i # -1 => SearchSpace(i) = space[i]
    BY <1>d, <1>s, <1>1
  <2> SUFFICES ASSUME NEW O PROVE CacheBy(O) <=> O = [i \in -1 .. n - 1 |-> IF i = -1 THEN <<>> ELSE CacheStep(bottom, space, r, i, O[i - 1])]
    OBVIOUS
  <2>2. \A i \in -1 .. n - 1 : i # -1 =>
          CacheStep(bottom, space, r, i, O[i - 1])
            = IF i \notin BottomLevel THEN O[i - 1] ELSE SortedBy(rank, SearchSpace(i) \ Range(O[i - 1])) \o O[i - 1]
    BY <1>b, <1>r, <2>1 DEF CacheStep
  <2> QED BY <1>n, <2>2 DEF CacheBy
<1>6. \E O : CacheBy(O)
  <2>1. space \in [nodes -> SUBSET nodes]
    BY <1>2 DEF ReachesUp
  <2>2. \E F : CacheSteps(n, bottom, space, r, F)
    BY <1>1, <1>3, <2>1, CacheRecurs
  <2> QED BY <1>5, <2>2 DEF CacheSteps
<1>7. PICK F : F = CHOOSE O : CacheBy(O)
  OBVIOUS
<1>8. CacheBy(F)
  BY <1>6, <1>7
<1>9. CacheOrder = F[n - 1]
  BY <1>7, <1>n DEF CacheOrder, CacheBy
<1>10. F = [i \in -1 .. n - 1 |-> IF i = -1 THEN <<>> ELSE CacheStep(bottom, space, r, i, F[i - 1])]
  BY <1>5, <1>8
<1>11. F[-1] = <<>> /\ \A i \in nodes : F[i] = CacheStep(bottom, space, r, i, F[i - 1])
  <2>1. -1 \in -1 .. n - 1 /\ \A i \in nodes : i \in -1 .. n - 1 /\ i # -1
    BY <1>1
  <2> QED BY <1>10, <2>1
<1>s2. PICK s : s = F[n - 1]
  OBVIOUS
<1>12. PlacedBy(nodes, up, bottom, space, n - 1, F[n - 1])
  BY <1>1, <1>4, <1>11, CacheStepsPlace
<1>13. Placed(nodes, up, s) /\ \A b \in bottom : space[b] \subseteq Members(s)
  <2>1. \A b \in bottom : b <= n - 1
    BY <1>1, <1>3
  <2> QED BY <1>s2, <1>12, <2>1 DEF PlacedBy
<1>14. Members(s) = nodes
  <2>1. ASSUME NEW y \in nodes PROVE y \in Members(s)
    <3>1. \E b \in nodes : (\A z \in nodes : b \notin up[z]) /\ y \in space[b]
      BY <1>1, <1>2, SpacesCover
    <3> QED BY <1>3, <1>13, <3>1
  <2>2. s \in Seq(nodes)
    BY <1>13 DEF Placed
  <2>3. \A i \in 1 .. Len(s) : s[i] \in nodes
    BY <2>2, SeqAt
  <2> QED BY <2>1, <2>3 DEF Members
<1>15. Complete(n, nodes, up, s)
  BY <1>1, <1>13, <1>14, PlacedIsComplete
<1> QED BY <1>n, <1>d, <1>u, <1>9, <1>s2, <1>15

(* Renaming the nodes to their positions in a complete order.                *)
PositionsOf(n, nodes, s, pos) ==
  /\ pos \in [nodes -> nodes] /\ \A x \in nodes : s[pos[x] + 1] = x
  /\ \A x \in nodes : x + 1 \in 1 .. n /\ s[x + 1] \in nodes /\ pos[s[x + 1]] = x
LEMMA PositionsAre ==
  ASSUME NEW n \in Nat, NEW nodes, nodes = 0 .. n - 1, NEW up, NEW s, Complete(n, nodes, up, s),
         NEW pos, pos = [x \in nodes |-> (CHOOSE i \in DOMAIN s : s[i] = x) - 1]
  PROVE  PositionsOf(n, nodes, s, pos)
<1>1. s \in [1 .. n -> nodes] /\ DOMAIN s = 1 .. n /\ (\A i, j \in 1 .. n : s[i] = s[j] => i = j)
      /\ \A x \in nodes : \E i \in 1 .. n : s[i] = x
  BY DEF Complete
<1>2. ASSUME NEW x \in nodes PROVE pos[x] \in nodes /\ s[pos[x] + 1] = x
  <2>1. PICK i : i = CHOOSE j \in DOMAIN s : s[j] = x
    OBVIOUS
  <2>2. i \in 1 .. n /\ s[i] = x
    BY <1>1, <2>1
  <2>3. pos[x] = i - 1
    BY <2>1
  <2>4. i - 1 \in nodes /\ (i - 1) + 1 = i
    BY <2>2
  <2> QED BY <2>2, <2>3, <2>4
<1>3. ASSUME NEW x \in nodes PROVE x + 1 \in 1 .. n /\ s[x + 1] \in nodes /\ pos[s[x + 1]] = x
  <2>1. PICK i : i = x + 1
    OBVIOUS
  <2>2. i \in 1 .. n
    BY <2>1
  <2>3. PICK y : y = s[i]
    OBVIOUS
  <2>4. y \in nodes
    BY <1>1, <2>2, <2>3
  <2>5. PICK j : j = pos[y] + 1
    OBVIOUS
  <2>6. pos[y] \in nodes /\ s[j] = y
    BY <1>2, <2>4, <2>5
  <2>7. j \in 1 .. n
    BY <2>5, <2>6
  <2>8. j = i
    BY <1>1, <2>2, <2>3, <2>6, <2>7
  <2>9. pos[y] = x
    BY <2>1, <2>5, <2>6, <2>8
  <2> QED BY <2>1, <2>2, <2>3, <2>4, <2>9
<1> QED BY <1>2, <1>3 DEF PositionsOf

At(pos, e) == <<pos[e[1]], pos[e[2]]>>
(* The arcs after renaming the nodes to their positions.                    *)
LEMMA RenamedArcs ==
  ASSUME NEW n, NEW nodes, NEW s, NEW pos, PositionsOf(n, nodes, s, pos), NEW d \in Dirs,
         \A e \in DOMAIN side[d] : e \in nodes \X nodes
  PROVE  /\ \A p : p \in DOMAIN Ranked(pos, d) <=> \E e \in DOMAIN side[d] : p = At(pos, e)
         /\ \A e \in DOMAIN side[d] : /\ Ranked(pos, d)[At(pos, e)].weight = side[d][e].weight
                                      /\ Ranked(pos, d)[At(pos, e)].mid = Renamed(pos, side[d][e].mid)
<1>1. ASSUME NEW e \in DOMAIN side[d], NEW c \in DOMAIN side[d], At(pos, e) = At(pos, c) PROVE e = c
  <2>1. pos[e[1]] = pos[c[1]] /\ pos[e[2]] = pos[c[2]]
    BY <1>1 DEF At
  <2>2. e[1] \in nodes /\ e[2] \in nodes /\ c[1] \in nodes /\ c[2] \in nodes /\ e = <<e[1], e[2]>> /\ c = <<c[1], c[2]>>
    OBVIOUS
  <2>3. e[1] = c[1] /\ e[2] = c[2]
    BY <2>1, <2>2 DEF PositionsOf
  <2> QED BY <2>2, <2>3
<1>2. \A p : p \in DOMAIN Ranked(pos, d) <=> \E e \in DOMAIN side[d] : p = At(pos, e)
  BY DEF Ranked, At
<1>3. ASSUME NEW e \in DOMAIN side[d]
      PROVE  /\ Ranked(pos, d)[At(pos, e)].weight = side[d][e].weight
             /\ Ranked(pos, d)[At(pos, e)].mid = Renamed(pos, side[d][e].mid)
  <2>1. PICK c : c = CHOOSE o \in DOMAIN side[d] : <<pos[o[1]], pos[o[2]]>> = At(pos, e)
    OBVIOUS
  <2>2. c \in DOMAIN side[d] /\ At(pos, c) = At(pos, e)
    BY <2>1 DEF At
  <2>3. c = e
    BY <1>1, <2>2
  <2>4. At(pos, e) \in DOMAIN Ranked(pos, d)
    BY <1>2
  <2>5. Ranked(pos, d)[At(pos, e)] = [weight |-> side[d][c].weight, mid |-> Renamed(pos, side[d][c].mid)]
    BY <2>1, <2>4 DEF Ranked
  <2> QED BY <2>3, <2>5
<1> QED BY <1>2, <1>3

(* What becomes of an arc that is kept.                                     *)
Becomes(pos, s, h, d, e) ==
  LET a == h.side[d][At(pos, e)]
      g == SearchArc(d, e[1], e[2])
      m == s[d][e].mid
  IN  /\ At(pos, e) \in DOMAIN h.side[d] /\ a.weight = s[d][e].weight
      /\ m = NoId => a.original /\ a.first = InputArcId[g] /\ a.second = g[2]
      /\ m # NoId => ~a.original /\ a.first = At(pos, <<m, g[1]>>) /\ a.second = At(pos, <<m, g[2]>>)
AllBecome(pos, s, h, d) ==
  /\ \A p : p \in DOMAIN h.side[d] <=> \E e \in DOMAIN s[d] : p = At(pos, e)
  /\ \A e \in DOMAIN s[d] : Becomes(pos, s, h, d, e)
ArcsWithin(nodes, arcs) == \A e \in DOMAIN arcs : e \in nodes \X nodes /\ (arcs[e].mid # NoId => arcs[e].mid \in nodes)
LEMMA ArcsBecome ==
  ASSUME NEW n, NEW nodes, nodes = Nodes, NEW s, NEW pos, pos = PositionIn(s), PositionsOf(n, nodes, s, pos), nodes \subseteq Nat,
         NEW d \in Dirs, ArcsWithin(nodes, side[d]), NEW h, h = Hierarchy(s)
  PROVE  AllBecome(pos, side, h, d)
<1>0. \A e \in DOMAIN side[d] : e \in nodes \X nodes /\ (side[d][e].mid # NoId => side[d][e].mid \in nodes)
  BY DEF ArcsWithin
<1>1. h.side[d] = [p \in DOMAIN Ranked(pos, d) |-> Unpacking(s, d, p, Ranked(pos, d)[p])]
  BY DEF Hierarchy
<1>2. /\ \A p : p \in DOMAIN Ranked(pos, d) <=> \E e \in DOMAIN side[d] : p = At(pos, e)
      /\ \A e \in DOMAIN side[d] : /\ Ranked(pos, d)[At(pos, e)].weight = side[d][e].weight
                                   /\ Ranked(pos, d)[At(pos, e)].mid = Renamed(pos, side[d][e].mid)
  BY <1>0, RenamedArcs
<1>3. ASSUME NEW e \in DOMAIN side[d] PROVE Becomes(pos, side, h, d, e)
  <2>p. PICK p : p = At(pos, e)
    OBVIOUS
  <2>k. PICK k : k = Ranked(pos, d)[p]
    OBVIOUS
  <2>g. PICK g : g = SearchArc(d, e[1], e[2])
    OBVIOUS
  <2>m. PICK m : m = side[d][e].mid
    OBVIOUS
  <2>1. p \in DOMAIN h.side[d] /\ h.side[d][p] = Unpacking(s, d, p, k) /\ k.weight = side[d][e].weight /\ k.mid = Renamed(pos, m)
    BY <1>1, <1>2, <2>p, <2>k, <2>m
  <2>2. k.mid = NoId <=> m = NoId
    <3>1. m # NoId => m \in nodes /\ pos[m] \in Nat
      BY <1>0, <2>m DEF PositionsOf
    <3> QED BY <2>1, <3>1, NoIdAssumption DEF Renamed
  <2>3. m # NoId => k.mid = pos[m]
    BY <2>1 DEF Renamed
  <2>4. e[1] \in nodes /\ e[2] \in nodes /\ s[pos[e[1]] + 1] = e[1] /\ s[pos[e[2]] + 1] = e[2]
    BY <1>0 DEF PositionsOf
  <2>5. p[1] = pos[e[1]] /\ p[2] = pos[e[2]]
    BY <2>p DEF At
  <2>6. CASE d = "f"
    <3>2. g = <<e[1], e[2]>> /\ g[1] = e[1] /\ g[2] = e[2]
      BY <2>g, <2>6 DEF SearchArc
    <3>3. CASE m = NoId
      <4>1. h.side[d][p] = [weight |-> k.weight, original |-> TRUE, first |-> InputArcId[g], second |-> g[2]]
        BY <2>1, <2>2, <2>4, <2>5, <2>6, <3>2, <3>3 DEF Unpacking
      <4> QED BY <2>1, <2>p, <2>g, <2>m, <3>3, <4>1 DEF Becomes
    <3>4. CASE m # NoId
      <4>1. h.side[d][p] = [weight |-> k.weight, original |-> FALSE, first |-> <<pos[m], p[1]>>, second |-> <<pos[m], p[2]>>]
        BY <2>1, <2>2, <2>3, <2>6, <3>4 DEF Unpacking
      <4>2. At(pos, <<m, g[1]>>) = <<pos[m], p[1]>> /\ At(pos, <<m, g[2]>>) = <<pos[m], p[2]>>
        BY <2>5, <3>2 DEF At
      <4> QED BY <2>1, <2>p, <2>g, <2>m, <3>4, <4>1, <4>2 DEF Becomes
    <3> QED BY <3>3, <3>4
  <2>7. CASE d # "f"
    <3>2. g = <<e[2], e[1]>> /\ g[1] = e[2] /\ g[2] = e[1]
      BY <2>g, <2>7 DEF SearchArc
    <3>3. CASE m = NoId
      <4>1. h.side[d][p] = [weight |-> k.weight, original |-> TRUE, first |-> InputArcId[g], second |-> g[2]]
        BY <2>1, <2>2, <2>4, <2>5, <2>7, <3>2, <3>3 DEF Unpacking
      <4> QED BY <2>1, <2>p, <2>g, <2>m, <3>3, <4>1 DEF Becomes
    <3>4. CASE m # NoId
      <4>1. h.side[d][p] = [weight |-> k.weight, original |-> FALSE, first |-> <<pos[m], p[2]>>, second |-> <<pos[m], p[1]>>]
        BY <2>1, <2>2, <2>3, <2>7, <3>4 DEF Unpacking
      <4>2. At(pos, <<m, g[1]>>) = <<pos[m], p[2]>> /\ At(pos, <<m, g[2]>>) = <<pos[m], p[1]>>
        BY <2>5, <3>2 DEF At
      <4> QED BY <2>1, <2>p, <2>g, <2>m, <3>4, <4>1, <4>2 DEF Becomes
    <3> QED BY <3>3, <3>4
  <2> QED BY <2>6, <2>7
<1> QED BY <1>1, <1>2, <1>3 DEF AllBecome

(* A complete order makes a hierarchy: its arcs lead up by position, and    *)
(* its levels are the ranks.                                                *)
LEMMA HierarchyIsLevelled ==
  ASSUME HInv, IInv, pc = "order", NEW s, Complete(input.n, Nodes, UpsOf, s), NEW h, h = Hierarchy(s)
  PROVE  OrderIs(Nodes, h) /\ DOMAIN h.side = Dirs /\ Levelled(Nodes, h, CleanGraph, TrueDistance)
<1>n. PICK n : n = input.n
  OBVIOUS
<1>d. PICK nodes : nodes = Nodes
  OBVIOUS
<1>r. PICK r : r = rank
  OBVIOUS
<1>t. PICK t : t = side
  OBVIOUS
<1>D. PICK D : D = TrueDistance
  OBVIOUS
<1>c. PICK clean : clean = CleanGraph
  OBVIOUS
<1>p. PICK pos : pos = PositionIn(s)
  OBVIOUS
<1>u. PICK up : up = UpsOf
  OBVIOUS
<1>1. /\ n \in Nat /\ nodes = 0 .. n - 1 /\ IsFiniteSet(nodes) /\ KeyFor(r, nodes, Cardinality(nodes))
      /\ \A d \in Dirs : \A e \in DOMAIN t[d] : e \in nodes \X nodes /\ e[2] \in up[e[1]] /\ r[e[1]] < r[e[2]]
  BY <1>n, <1>d, <1>r, <1>t, <1>u, UpsRise
<1>2. /\ SideIs(clean, D, nodes, r, t) /\ HopsIn(D, nodes, r, t) /\ RankIs(nodes, r) /\ DOMAIN r = nodes
  BY <1>d, <1>r, <1>t, <1>D, <1>c DEF HInv, RanksOK, SideOK, Unfinished
<1>3. Complete(n, nodes, up, s)
  BY <1>n, <1>d, <1>u
<1>4. PositionsOf(n, nodes, s, pos)
  <2>1. s \in [1 .. n -> nodes]
    BY <1>3 DEF Complete
  <2>2. pos = [x \in nodes |-> (CHOOSE i \in DOMAIN s : s[i] = x) - 1]
    BY <1>d, <1>p DEF PositionIn
  <2> QED BY <1>1, <1>3, <2>2, PositionsAre
<1>5. s \in [1 .. n -> nodes] /\ \A i, j \in 1 .. n : s[j] \in up[s[i]] => i < j
  BY <1>3 DEF Complete
<1>6. /\ pos \in [nodes -> nodes] /\ (\A x \in nodes : s[pos[x] + 1] = x)
      /\ \A x \in nodes : x + 1 \in 1 .. n /\ s[x + 1] \in nodes /\ pos[s[x + 1]] = x
  BY <1>4 DEF PositionsOf
<1>7. h.order = s /\ h.rank = pos /\ DOMAIN h.side = Dirs
  BY <1>p DEF Hierarchy
<1>8. OrderIs(Nodes, h)
  BY <1>n, <1>d, <1>5, <1>6, <1>7 DEF OrderIs
\* the arcs
<1>9. ASSUME NEW d \in Dirs, NEW e \in DOMAIN t[d]
      PROVE  /\ Stands(clean, D, t, t[d][e], SearchArc(d, e[1], e[2]))
             /\ t[d][e].mid # NoId => t[d][e].mid \in nodes
  <2>1. Stands(clean, D, t, t[d][e], SearchArc(d, e[1], e[2]))
    BY <1>2, <1>9 DEF SideIs
  <2>m. PICK m : m = t[d][e].mid
    OBVIOUS
  <2>2. ASSUME m # NoId PROVE m \in nodes
    <3>1. PICK y : <<m, y>> \in DOMAIN t["b"]
      BY <2>1, <2>2, <2>m DEF Stands
    <3>2. <<m, y>> \in nodes \X nodes
      BY <1>1, <3>1 DEF Dirs
    <3> QED BY <3>2
  <2> QED BY <2>1, <2>2, <2>m
<1>10. ASSUME NEW d \in Dirs
       PROVE  /\ \A p : p \in DOMAIN h.side[d] <=> \E e \in DOMAIN t[d] : p = At(pos, e)
              /\ \A e \in DOMAIN t[d] : Becomes(pos, t, h, d, e)
  <2>1. nodes \subseteq Nat
    BY <1>1
  <2>2. ArcsWithin(nodes, side[d])
    BY <1>1, <1>9, <1>t DEF ArcsWithin
  <2>3. AllBecome(pos, side, h, d)
    BY <1>d, <1>p, <1>4, <2>1, <2>2, ArcsBecome
  <2> QED BY <1>t, <2>3 DEF AllBecome
<1> PICK level : level = [x \in nodes |-> r[s[x + 1]]]
  OBVIOUS
<1>11. level \in [nodes -> nodes] /\ \A x, y \in nodes : level[x] = level[y] => x = y
  <2>1. Cardinality(nodes) = n
    BY <1>1, FS_Interval
  <2>2. \A x \in nodes : r[x] \in nodes
    BY <1>1, <1>2, <2>1 DEF RankIs
  <2>3. \A x \in nodes : level[x] \in nodes
    BY <1>6, <2>2
  <2>4. ASSUME NEW x \in nodes, NEW y \in nodes, level[x] = level[y] PROVE x = y
    <3>1. r[s[x + 1]] = r[s[y + 1]]
      BY <2>4
    <3>2. s[x + 1] = s[y + 1]
      BY <1>2, <1>6, <3>1 DEF RankIs
    <3> QED BY <1>6, <3>2
  <2> QED BY <2>3, <2>4
\* an arc and what it is called
<1>12. ASSUME NEW d \in Dirs, NEW e \in DOMAIN t[d], NEW p, p = At(pos, e)
       PROVE  /\ p \in nodes \X nodes /\ p[1] = pos[e[1]] /\ p[2] = pos[e[2]] /\ p[1] < p[2] /\ level[p[1]] < level[p[2]]
              /\ h.order[p[1] + 1] = e[1] /\ h.order[p[2] + 1] = e[2] /\ e = <<e[1], e[2]>>
  <2>1. e[1] \in nodes /\ e[2] \in nodes /\ e = <<e[1], e[2]>> /\ e[2] \in up[e[1]] /\ r[e[1]] < r[e[2]]
    BY <1>1
  <2>2. p[1] = pos[e[1]] /\ p[2] = pos[e[2]] /\ p \in nodes \X nodes
    BY <1>6, <1>12, <2>1 DEF At
  <2>3. h.order[p[1] + 1] = e[1] /\ h.order[p[2] + 1] = e[2]
    BY <1>6, <1>7, <2>1, <2>2
  <2>i. PICK i : i = p[1] + 1
    OBVIOUS
  <2>j. PICK j : j = p[2] + 1
    OBVIOUS
  <2>4. i \in 1 .. n /\ j \in 1 .. n /\ s[i] = e[1] /\ s[j] = e[2]
    BY <1>6, <1>7, <2>2, <2>3, <2>i, <2>j
  <2>5. i < j
    BY <1>5, <2>1, <2>4
  <2>6. p[1] < p[2]
    BY <1>1, <2>2, <2>5, <2>i, <2>j
  <2>7. level[p[1]] < level[p[2]]
    BY <1>7, <2>1, <2>2, <2>3
  <2> QED BY <2>1, <2>2, <2>3, <2>6, <2>7
<1>13. UpwardIs(nodes, h, clean, D, level)
  <2> SUFFICES ASSUME NEW d \in Dirs, NEW p \in DOMAIN h.side[d]
               PROVE  /\ p \in nodes \X nodes /\ p[1] < p[2] /\ level[p[1]] < level[p[2]]
                      /\ h.side[d][p].weight \in Nat /\ Named(h, D, d, p[1], p[2]) <= h.side[d][p].weight
                      /\ UnpacksTo(h, clean, h.side[d][p], SearchArc(d, p[1], p[2]))
    BY DEF UpwardIs
  <2>1. PICK e \in DOMAIN t[d] : p = At(pos, e)
    BY <1>10
  <2>2. /\ p \in nodes \X nodes /\ p[1] = pos[e[1]] /\ p[2] = pos[e[2]] /\ p[1] < p[2] /\ level[p[1]] < level[p[2]]
        /\ h.order[p[1] + 1] = e[1] /\ h.order[p[2] + 1] = e[2] /\ e = <<e[1], e[2]>>
    BY <1>12, <2>1
  <2>g. PICK g : g = SearchArc(d, e[1], e[2])
    OBVIOUS
  <2>o. PICK o : o = SearchArc(d, p[1], p[2])
    OBVIOUS
  <2>m. PICK m : m = t[d][e].mid
    OBVIOUS
  <2>a. PICK a : a = h.side[d][p]
    OBVIOUS
  <2>3. Stands(clean, D, t, t[d][e], g) /\ Becomes(pos, t, h, d, e)
    BY <1>9, <1>10, <2>g
  <2>4. /\ a.weight = t[d][e].weight /\ a.weight \in Nat /\ D[g] <= a.weight
        /\ m = NoId => /\ g \in DOMAIN clean /\ a.weight = clean[g].weight
                       /\ a.original /\ a.first = InputArcId[g] /\ a.second = g[2]
        /\ m # NoId => /\ <<m, g[1]>> \in DOMAIN t["b"] /\ <<m, g[2]>> \in DOMAIN t["f"]
                       /\ a.weight = t["b"][<<m, g[1]>>].weight + t["f"][<<m, g[2]>>].weight
                       /\ ~a.original /\ a.first = At(pos, <<m, g[1]>>) /\ a.second = At(pos, <<m, g[2]>>)
    BY <2>1, <2>3, <2>g, <2>m, <2>a DEF Stands, Becomes
  <2>5. Named(h, D, d, p[1], p[2]) = D[g]
    BY <2>2, <2>g DEF Named
  <2>6. h.order[o[1] + 1] = g[1] /\ h.order[o[2] + 1] = g[2] /\ g = <<g[1], g[2]>> /\ o[1] = pos[g[1]] /\ o[2] = pos[g[2]]
    BY <2>2, <2>g, <2>o DEF SearchArc
  <2>7. UnpacksTo(h, clean, a, o)
    <3>1. CASE m = NoId
      <4>1. <<h.order[o[1] + 1], h.order[o[2] + 1]>> = g
        BY <2>6
      <4> QED BY <2>4, <2>6, <3>1, <4>1 DEF UnpacksTo
    <3>2. CASE m # NoId
      <4>b. PICK b : b = <<m, g[1]>>
        OBVIOUS
      <4>f. PICK f : f = <<m, g[2]>>
        OBVIOUS
      <4>1. b \in DOMAIN t["b"] /\ f \in DOMAIN t["f"] /\ "b" \in Dirs /\ "f" \in Dirs /\ b[1] = m /\ b[2] = g[1] /\ f[1] = m /\ f[2] = g[2]
        BY <2>4, <3>2, <4>b, <4>f DEF Dirs
      <4>2. Becomes(pos, t, h, "b", b) /\ Becomes(pos, t, h, "f", f)
        BY <1>10, <4>1
      <4>3. /\ a.first = At(pos, b) /\ a.second = At(pos, f) /\ ~a.original
            /\ a.weight = t["b"][b].weight + t["f"][f].weight
        BY <2>4, <3>2, <4>b, <4>f
      <4>4. /\ a.first \in DOMAIN h.side["b"] /\ h.side["b"][a.first].weight = t["b"][b].weight
            /\ a.second \in DOMAIN h.side["f"] /\ h.side["f"][a.second].weight = t["f"][f].weight
        BY <4>2, <4>3 DEF Becomes
      <4>5. a.first[1] = pos[m] /\ a.first[2] = pos[g[1]] /\ a.second[1] = pos[m] /\ a.second[2] = pos[g[2]]
        BY <4>1, <4>3 DEF At
      <4> QED BY <2>6, <4>3, <4>4, <4>5 DEF UnpacksTo
    <3> QED BY <3>1, <3>2
  <2> QED BY <2>2, <2>4, <2>5, <2>7, <2>a, <2>o
<1>14. HopsUp(nodes, h, D, level)
  <2> SUFFICES ASSUME NEW d \in Dirs, NEW x \in nodes, NEW y \in nodes, level[x] < level[y], Named(h, D, d, x, y) < Inf
               PROVE  \E p \in DOMAIN h.side[d] :
                        p[1] = x /\ h.side[d][p].weight + Named(h, D, d, p[2], y) = Named(h, D, d, x, y)
    BY DEF HopsUp
  <2>v. PICK v : v = s[x + 1]
    OBVIOUS
  <2>w. PICK w : w = s[y + 1]
    OBVIOUS
  <2>1. v \in nodes /\ w \in nodes /\ pos[v] = x /\ pos[w] = y /\ r[v] < r[w] /\ h.order[x + 1] = v /\ h.order[y + 1] = w
    BY <1>6, <1>7, <2>v, <2>w
  <2>2. Named(h, D, d, x, y) = D[SearchArc(d, v, w)]
    BY <2>1 DEF Named
  <2>3. v # w
    <3>1. r[v] \in Nat /\ r[w] \in Nat
      BY <1>1, <2>1 DEF KeyFor
    <3> QED BY <2>1, <3>1
  <2>4. Hop(D, t, d, v, w)
    <3>1. Later(r, v, w) /\ v \in DOMAIN r
      BY <1>2, <2>1 DEF Later
    <3> QED BY <1>2, <2>1, <2>2, <2>3, <3>1 DEF HopsIn
  <2>5. PICK e \in DOMAIN t[d] : e[1] = v /\ t[d][e].weight + D[SearchArc(d, e[2], w)] = D[SearchArc(d, v, w)]
    BY <2>4 DEF Hop
  <2>p. PICK p : p = At(pos, e)
    OBVIOUS
  <2>6. p[1] = pos[e[1]] /\ h.order[p[2] + 1] = e[2]
    BY <1>12, <2>p
  <2>7. p \in DOMAIN h.side[d] /\ h.side[d][p].weight = t[d][e].weight
    <3>1. Becomes(pos, t, h, d, e)
      BY <1>10
    <3> QED BY <2>p, <3>1 DEF Becomes
  <2>8. Named(h, D, d, p[2], y) = D[SearchArc(d, e[2], w)]
    BY <2>1, <2>6 DEF Named
  <2> QED BY <2>1, <2>2, <2>5, <2>6, <2>7, <2>8
<1>15. Levelled(nodes, h, clean, D)
  BY <1>11, <1>13, <1>14 DEF Levelled, IsLevels
<1> QED BY <1>d, <1>c, <1>D, <1>7, <1>8, <1>15

(* Finishing establishes what is said of the finished hierarchy.            *)
LEMMA FinishKeeps ==
  ASSUME HInv, IInv, Finish PROVE HInv'
<1>s. PICK s : s = IF mode = "importance" THEN CacheOrder ELSE SortedBy(rank, Nodes)
  OBVIOUS
<1>h. PICK h : h = Hierarchy(s)
  OBVIOUS
<1>1. pc = "order" /\ pc' = "built" /\ input' = input /\ ch' = h
  BY <1>s, <1>h DEF Finish
<1>2. Complete(input.n, Nodes, UpsOf, s)
  <2>1. CASE mode = "importance"
    BY <1>1, <1>s, <2>1, CacheOrderIsComplete
  <2>2. CASE mode # "importance"
    <3>1. /\ input.n \in Nat /\ Nodes = 0 .. input.n - 1 /\ KeyFor(rank, Nodes, Cardinality(Nodes))
          /\ Cardinality(Nodes) \in Nat /\ RisesIn(Nodes, UpsOf, rank)
      BY <1>1, UpsRise
    <3>2. s = SortedBy(rank, Nodes)
      BY <1>s, <2>2
    <3> QED BY <3>1, <3>2, CompleteByRank
  <2> QED BY <2>1, <2>2
<1>3. OrderIs(Nodes, h) /\ DOMAIN h.side = Dirs /\ Levelled(Nodes, h, CleanGraph, TrueDistance)
  BY <1>1, <1>2, <1>h, HierarchyIsLevelled
<1>4. HierarchyOK'
  BY <1>1, <1>3, HierarchyStays
<1>5. ~Working' /\ ~Contracting' /\ ~Unfinished' /\ pc' # "order"
  BY <1>1 DEF Working, Contracting, Unfinished
<1> QED BY <1>4, <1>5 DEF HInv, RanksOK, SideOK, CoreOK

(* The sections of the file.                                                 *)
Parts(g, a, b, c) == \A i \in 1 .. 12 : g[i] = IF i <= 2 THEN a[i] ELSE IF i <= 7 THEN b[i - 2] ELSE c[i - 7]
LEMMA PartsAt ==
  ASSUME NEW S, NEW a \in Seq(S), NEW b \in Seq(S), NEW c \in Seq(S), Len(a) = 2, Len(b) = 5, Len(c) = 5
  PROVE  Parts(a \o b \o c, a, b, c)
<1>1. PICK g : g = a \o b
  OBVIOUS
<1>2. g \in Seq(S) /\ Len(g) = Len(a) + Len(b)
  BY <1>1, ConcatLen
<1>3. \A i \in 1 .. Len(a) + Len(b) : g[i] = IF i <= Len(a) THEN a[i] ELSE b[i - Len(a)]
  BY <1>1, ConcatAt
<1>4. \A i \in 1 .. Len(g) + Len(c) : (g \o c)[i] = IF i <= Len(g) THEN g[i] ELSE c[i - Len(g)]
  BY <1>2, ConcatAt
<1>5. Len(g) = 7
  BY <1>2
<1>h. PICK h : h = g \o c
  OBVIOUS
<1>6. \A i \in 1 .. 12 : h[i] = IF i <= 7 THEN g[i] ELSE c[i - 7]
  <2>m. PICK m : m = Len(g)
    OBVIOUS
  <2>k. PICK k : k = Len(c)
    OBVIOUS
  <2>1. \A i \in 1 .. m + k : h[i] = IF i <= m THEN g[i] ELSE c[i - m]
    BY <1>4, <1>h, <2>m, <2>k
  <2>2. m = 7 /\ k = 5 /\ m + k = 12
    BY <1>5, <2>m, <2>k
  <2> QED BY <2>1, <2>2
<1>7. \A i \in 1 .. 7 : g[i] = IF i <= 2 THEN a[i] ELSE b[i - 2]
  BY <1>3
<1>8. \A i \in 1 .. 12 : i <= 7 => i \in 1 .. 7
  OBVIOUS
<1>9. \A i \in 1 .. 12 : i <= 2 => i <= 7
  OBVIOUS
<1>10. \A i \in 1 .. 12 : h[i] = IF i <= 2 THEN a[i] ELSE IF i <= 7 THEN b[i - 2] ELSE c[i - 7]
  BY <1>6, <1>7, <1>8, <1>9
<1> QED BY <1>1, <1>h, <1>10 DEF Parts

(* What stands where in the file.                                           *)
LEMMA FileAt ==
  ASSUME NEW a1, NEW a2, NEW b1, NEW b2, NEW b3, NEW b4, NEW b5, NEW c1, NEW c2, NEW c3, NEW c4, NEW c5
  PROVE  LET f == <<a1, a2>> \o <<b1, b2, b3, b4, b5>> \o <<c1, c2, c3, c4, c5>>
         IN  /\ f[1] = a1 /\ f[2] = a2
             /\ f[3] = b1 /\ f[4] = b2 /\ f[5] = b3 /\ f[6] = b4 /\ f[7] = b5
             /\ f[8] = c1 /\ f[9] = c2 /\ f[10] = c3 /\ f[11] = c4 /\ f[12] = c5
<1>s. PICK S : S = {a1, a2, b1, b2, b3, b4, b5, c1, c2, c3, c4, c5}
  OBVIOUS
<1>a. PICK a : a = <<a1, a2>>
  OBVIOUS
<1>b. PICK b : b = <<b1, b2, b3, b4, b5>>
  OBVIOUS
<1>c. PICK c : c = <<c1, c2, c3, c4, c5>>
  OBVIOUS
<1>f. PICK f : f = a \o b \o c
  OBVIOUS
<1>1. a \in Seq(S) /\ Len(a) = 2 /\ a[1] = a1 /\ a[2] = a2
  BY <1>s, <1>a
<1>2. b \in Seq(S) /\ Len(b) = 5 /\ b[1] = b1 /\ b[2] = b2 /\ b[3] = b3 /\ b[4] = b4 /\ b[5] = b5
  BY <1>s, <1>b
<1>3. c \in Seq(S) /\ Len(c) = 5 /\ c[1] = c1 /\ c[2] = c2 /\ c[3] = c3 /\ c[4] = c4 /\ c[5] = c5
  BY <1>s, <1>c
<1>4. \A i \in 1 .. 12 : f[i] = IF i <= 2 THEN a[i] ELSE IF i <= 7 THEN b[i - 2] ELSE c[i - 7]
  <2>1. Parts(a \o b \o c, a, b, c)
    BY <1>1, <1>2, <1>3, PartsAt
  <2>2. Parts(f, a, b, c)
    BY <1>f, <2>1
  <2> QED BY <2>2 DEF Parts
<1>5. f[1] = a[1] /\ f[2] = a[2] /\ f[3] = b[3 - 2] /\ f[4] = b[4 - 2] /\ f[5] = b[5 - 2] /\ f[6] = b[6 - 2] /\ f[7] = b[7 - 2]
  BY <1>4
<1>6. f[8] = c[8 - 7] /\ f[9] = c[9 - 7] /\ f[10] = c[10 - 7] /\ f[11] = c[11 - 7] /\ f[12] = c[12 - 7]
  BY <1>4
<1>7. /\ 3 - 2 = 1 /\ 4 - 2 = 2 /\ 5 - 2 = 3 /\ 6 - 2 = 4 /\ 7 - 2 = 5
      /\ 8 - 7 = 1 /\ 9 - 7 = 2 /\ 10 - 7 = 3 /\ 11 - 7 = 4 /\ 12 - 7 = 5
  OBVIOUS
<1>8. /\ f[1] = a1 /\ f[2] = a2
      /\ f[3] = b1 /\ f[4] = b2 /\ f[5] = b3 /\ f[6] = b4 /\ f[7] = b5
      /\ f[8] = c1 /\ f[9] = c2 /\ f[10] = c3 /\ f[11] = c4 /\ f[12] = c5
  BY <1>1, <1>2, <1>3, <1>5, <1>6, <1>7
<1> QED BY <1>a, <1>b, <1>c, <1>f, <1>8

(* What is read back is what was written.                                   *)
SameHierarchy(n, h, g) ==
  /\ g.rank = h.rank /\ \A i \in 1 .. n : g.order[i] = h.order[i]
  /\ \A d \in Dirs : /\ DOMAIN g.side[d] = DOMAIN h.side[d]
                     /\ \A p \in DOMAIN h.side[d] :
                          /\ g.side[d][p].weight = h.side[d][p].weight /\ g.side[d][p].original = h.side[d][p].original
                          /\ g.side[d][p].first = h.side[d][p].first /\ g.side[d][p].second = h.side[d][p].second
LEMMA WrittenIsRead ==
  ASSUME input.n \in Nat, Nodes = 0 .. input.n - 1, NEW h, OrderIs(Nodes, h)
  PROVE  SameHierarchy(input.n, h, ReadBack(Written(h)))
<1>f. PICK f : f = Written(h)
  OBVIOUS
<1>g. PICK g : g = ReadBack(f)
  OBVIOUS
<1>n. PICK n : n = input.n
  OBVIOUS
<1>a. PICK a1 : a1 = [magic |-> "ch", nodes |-> Len(h.order)]
  OBVIOUS
<1>1. n \in Nat /\ h.order \in [1 .. n -> Nodes] /\ h.rank \in [Nodes -> Nodes] /\ Nodes = 0 .. n - 1
      /\ \A x \in Nodes : h.order[h.rank[x] + 1] = x /\ h.rank[h.order[x + 1]] = x
  BY <1>n DEF OrderIs
<1>2. Len(h.order) = n
  <2>1. h.order \in Seq(Nodes) /\ Len(h.order) = n
    BY <1>1, SeqDef
  <2> QED BY <2>1
<1> DEFINE S(d, i) == CASE i = 1 -> DOMAIN h.side[d]
                        [] i = 2 -> [p \in DOMAIN h.side[d] |-> h.side[d][p].weight]
                        [] i = 3 -> [p \in DOMAIN h.side[d] |-> h.side[d][p].original]
                        [] i = 4 -> [p \in DOMAIN h.side[d] |-> h.side[d][p].first]
                        [] i = 5 -> [p \in DOMAIN h.side[d] |-> h.side[d][p].second]
<1>3. \A d : Sections(h.side[d]) = <<S(d, 1), S(d, 2), S(d, 3), S(d, 4), S(d, 5)>>
  BY DEF Sections
<1>4. \A d : /\ S(d, 1) = DOMAIN h.side[d]
             /\ \A p \in DOMAIN h.side[d] : /\ S(d, 2)[p] = h.side[d][p].weight /\ S(d, 3)[p] = h.side[d][p].original
                                            /\ S(d, 4)[p] = h.side[d][p].first /\ S(d, 5)[p] = h.side[d][p].second
  OBVIOUS
<1> HIDE DEF S
<1>t. PICK tf : tf = <<S("f", 1), S("f", 2), S("f", 3), S("f", 4), S("f", 5)>>
  OBVIOUS
<1>u. PICK tb : tb = <<S("b", 1), S("b", 2), S("b", 3), S("b", 4), S("b", 5)>>
  OBVIOUS
<1>x. PICK ta : ta = <<a1, h.rank>>
  OBVIOUS
<1>y. f = ta \o tf \o tb
  <2>1. Sections(h.side["f"]) = tf /\ Sections(h.side["b"]) = tb
    BY <1>3, <1>t, <1>u
  <2>2. f = ta \o Sections(h.side["f"]) \o Sections(h.side["b"])
    BY <1>f, <1>a, <1>x DEF Written
  <2> QED BY <2>1, <2>2
<1>5. f = <<a1, h.rank>> \o <<S("f", 1), S("f", 2), S("f", 3), S("f", 4), S("f", 5)>>
               \o <<S("b", 1), S("b", 2), S("b", 3), S("b", 4), S("b", 5)>>
  BY <1>t, <1>u, <1>x, <1>y
<1>6. /\ f[1] = a1 /\ f[2] = h.rank
      /\ f[3] = S("f", 1) /\ f[4] = S("f", 2) /\ f[5] = S("f", 3) /\ f[6] = S("f", 4) /\ f[7] = S("f", 5)
      /\ f[8] = S("b", 1) /\ f[9] = S("b", 2) /\ f[10] = S("b", 3) /\ f[11] = S("b", 4) /\ f[12] = S("b", 5)
  BY <1>5, FileAt
<1>7. g.rank = h.rank /\ g.order = [i \in 1 .. n |-> CHOOSE x \in Nodes : h.rank[x] = i - 1]
      /\ g.side = [d \in Dirs |-> ReadSide(f, IF d = "f" THEN 3 ELSE 8)]
  <2>1. f[1].nodes = n
    BY <1>2, <1>6, <1>a
  <2> QED BY <1>6, <1>g, <2>1 DEF ReadBack
<1>8. ASSUME NEW i \in 1 .. n PROVE g.order[i] = h.order[i]
  <2>y. PICK y : y = h.order[i]
    OBVIOUS
  <2>x. PICK x : x = CHOOSE o \in Nodes : h.rank[o] = i - 1
    OBVIOUS
  <2>j. PICK j : j = i - 1
    OBVIOUS
  <2>1. j \in Nodes /\ j + 1 = i
    BY <1>1, <2>j
  <2>2. y \in Nodes /\ h.rank[y] = j
    BY <1>1, <2>1, <2>y
  <2>3. x \in Nodes /\ h.rank[x] = j
    BY <2>2, <2>x, <2>j
  <2>4. h.order[j + 1] = x
    BY <1>1, <2>3
  <2> QED BY <1>7, <2>1, <2>4, <2>x
<1>9. ASSUME NEW d \in Dirs
      PROVE  /\ DOMAIN g.side[d] = DOMAIN h.side[d]
             /\ \A p \in DOMAIN h.side[d] :
                  /\ g.side[d][p].weight = h.side[d][p].weight /\ g.side[d][p].original = h.side[d][p].original
                  /\ g.side[d][p].first = h.side[d][p].first /\ g.side[d][p].second = h.side[d][p].second
  <2>1. 3 + 1 = 4 /\ 3 + 2 = 5 /\ 3 + 3 = 6 /\ 3 + 4 = 7 /\ 8 + 1 = 9 /\ 8 + 2 = 10 /\ 8 + 3 = 11 /\ 8 + 4 = 12
    OBVIOUS
  <2>2. CASE d = "f"
    <3>1. g.side[d] = ReadSide(f, 3)
      BY <1>7, <2>2 DEF Dirs
    <3>2. g.side[d] = [p \in f[3] |-> [weight |-> f[4][p], original |-> f[5][p], first |-> f[6][p], second |-> f[7][p]]]
      BY <2>1, <3>1 DEF ReadSide
    <3>3. g.side[d] = [p \in S(d, 1) |-> [weight |-> S(d, 2)[p], original |-> S(d, 3)[p], first |-> S(d, 4)[p], second |-> S(d, 5)[p]]]
      BY <1>6, <2>2, <3>2
    <3> QED BY <1>4, <3>3
  <2>3. CASE d = "b"
    <3>1. g.side[d] = ReadSide(f, 8)
      BY <1>7, <2>3 DEF Dirs
    <3>2. g.side[d] = [p \in f[8] |-> [weight |-> f[9][p], original |-> f[10][p], first |-> f[11][p], second |-> f[12][p]]]
      BY <2>1, <3>1 DEF ReadSide
    <3>3. g.side[d] = [p \in S(d, 1) |-> [weight |-> S(d, 2)[p], original |-> S(d, 3)[p], first |-> S(d, 4)[p], second |-> S(d, 5)[p]]]
      BY <1>6, <2>3, <3>2
    <3> QED BY <1>4, <3>3
  <2> QED BY <2>2, <2>3 DEF Dirs
<1> QED BY <1>f, <1>g, <1>n, <1>7, <1>8, <1>9 DEF SameHierarchy

(* The test of a hierarchy looks at nothing that writing and reading        *)
(* changes.                                                                 *)
LEMMA SamePasses ==
  ASSUME NEW n \in Nat, Nodes = 0 .. n - 1, NEW h, NEW g, Passes(h), SameHierarchy(n, h, g), h.rank \in [Nodes -> Nodes]
  PROVE  Passes(g)
<1>1. \A x \in Nodes : g.order[g.rank[x] + 1] = x
  <2> SUFFICES ASSUME NEW x \in Nodes PROVE g.order[g.rank[x] + 1] = x
    OBVIOUS
  <2>1. PICK i : i = h.rank[x] + 1
    OBVIOUS
  <2>2. i \in 1 .. n
    <3>1. h.rank[x] \in Nodes
      OBVIOUS
    <3> QED BY <2>1, <3>1
  <2>3. h.order[i] = x
    BY <2>1 DEF Passes
  <2> QED BY <2>1, <2>2, <2>3 DEF SameHierarchy
<1>2. ASSUME NEW d \in Dirs, NEW p \in DOMAIN g.side[d]
      PROVE  /\ p[1] \in Nodes /\ p[2] \in Nodes /\ p[1] < p[2]
             /\ ~g.side[d][p].original =>
                  LET a == g.side[d][p] IN
                  /\ a.first \in DOMAIN g.side["b"] /\ a.second \in DOMAIN g.side["f"]
                  /\ a.weight = g.side["b"][a.first].weight + g.side["f"][a.second].weight
             /\ g.side[d][p].original => g.side[d][p].second \in Nodes
  <2>1. p \in DOMAIN h.side[d] /\ g.side[d][p].weight = h.side[d][p].weight /\ g.side[d][p].original = h.side[d][p].original
        /\ g.side[d][p].first = h.side[d][p].first /\ g.side[d][p].second = h.side[d][p].second
    BY DEF SameHierarchy
  <2>2. /\ p[1] \in Nodes /\ p[2] \in Nodes /\ p[1] < p[2]
        /\ ~h.side[d][p].original =>
             /\ h.side[d][p].first \in DOMAIN h.side["b"] /\ h.side[d][p].second \in DOMAIN h.side["f"]
             /\ h.side[d][p].weight = h.side["b"][h.side[d][p].first].weight + h.side["f"][h.side[d][p].second].weight
        /\ h.side[d][p].original => h.side[d][p].second \in Nodes
    BY <2>1 DEF Passes
  <2>3. \A e \in Dirs : DOMAIN g.side[e] = DOMAIN h.side[e] /\ \A c \in DOMAIN h.side[e] : g.side[e][c].weight = h.side[e][c].weight
    BY DEF SameHierarchy
  <2>4. "b" \in Dirs /\ "f" \in Dirs
    BY DEF Dirs
  <2> QED BY <2>1, <2>2, <2>3, <2>4
<1> QED BY <1>1, <1>2 DEF Passes

(* A hierarchy that was built passes the test, and so does what is read     *)
(* back from its file.                                                      *)
LEMMA BuiltPasses ==
  ASSUME HInv, IInv, pc = "built"
  PROVE  Passes(ch) /\ Passes(ReadBack(Written(ch)))
<1>h. PICK h : h = ch
  OBVIOUS
<1>1. input \in Inputs
  BY DEF IInv, GraphOK
<1>2. input.n \in Nat /\ Nodes = 0 .. input.n - 1
  BY <1>1, TrueIsMetric
<1>3. OrderIs(Nodes, h) /\ Levelled(Nodes, h, CleanGraph, TrueDistance)
  BY <1>h DEF HInv, HierarchyOK
<1>4. PICK level : UpwardIs(Nodes, h, CleanGraph, TrueDistance, level)
  BY <1>3 DEF Levelled, IsLevels
<1>5. h.order \in [1 .. input.n -> Nodes] /\ h.rank \in [Nodes -> Nodes] /\ \A x \in Nodes : h.order[h.rank[x] + 1] = x
  BY <1>3 DEF OrderIs
<1>6. Passes(h)
  <2> SUFFICES ASSUME NEW d \in Dirs, NEW p \in DOMAIN h.side[d]
               PROVE  /\ p[1] \in Nodes /\ p[2] \in Nodes /\ p[1] < p[2]
                      /\ ~h.side[d][p].original =>
                           /\ h.side[d][p].first \in DOMAIN h.side["b"] /\ h.side[d][p].second \in DOMAIN h.side["f"]
                           /\ h.side[d][p].weight = h.side["b"][h.side[d][p].first].weight + h.side["f"][h.side[d][p].second].weight
                      /\ h.side[d][p].original => h.side[d][p].second \in Nodes
    BY <1>5 DEF Passes
  <2>o. PICK o : o = SearchArc(d, p[1], p[2])
    OBVIOUS
  <2>1. p[1] \in Nodes /\ p[2] \in Nodes /\ p[1] < p[2] /\ UnpacksTo(h, CleanGraph, h.side[d][p], o)
    BY <1>4, <2>o DEF UpwardIs
  <2>2. o[2] + 1 \in 1 .. input.n
    BY <1>2, <2>1, <2>o DEF SearchArc
  <2>3. h.order[o[2] + 1] \in Nodes
    BY <1>5, <2>2
  <2> QED BY <2>1, <2>3 DEF UnpacksTo
<1>7. SameHierarchy(input.n, h, ReadBack(Written(h)))
  BY <1>2, <1>3, WrittenIsRead
<1>8. Passes(ReadBack(Written(h)))
  BY <1>2, <1>5, <1>6, <1>7, SamePasses
<1> QED BY <1>6, <1>8, <1>h

(* The arcs that are kept make a hierarchy over the road graph.              *)
THEOREM HierarchyInvariant == Spec => []HInv
<1>1. Start => HInv
  BY HInvInit DEF Start
<1>2. ASSUME HInv, IInv, IInv', [Next]_vars PROVE HInv'
  <2>1. CASE Building
    <3>1. CASE Finish
      BY <1>2, <3>1, FinishKeeps
    <3> QED BY <1>2, <2>1, <3>1, ContractingKeeps
  <2>2. CASE UNCHANGED buildVars
    BY <1>2, <2>2, StandingStill
  <2>3. UNCHANGED vars => UNCHANGED buildVars
    BY DEF vars
  <2> QED BY <1>2, <2>1, <2>2, <2>3 DEF Next
<1> QED BY <1>1, <1>2, ContractionInvariant, PTL DEF Spec

(* A finished hierarchy passes check_if_contraction_hierarchy_is_valid, and *)
(* so does what load_file reads back.                                       *)
THEOREM FinishedHierarchyIsConsistent == Spec => []HierarchyIsConsistent
<1>1. HInv /\ IInv => HierarchyIsConsistent
  BY BuiltPasses DEF HierarchyIsConsistent
<1> QED BY <1>1, HierarchyInvariant, ContractionInvariant, PTL

-----------------------------------------------------------------------------
(***************************************************************************)
(* One side of a query, for any hierarchy: nodes by level, the distances    *)
(* gap between them, the weights up of the arcs it looks along and down of  *)
(* those it stalls by.                                                      *)
(***************************************************************************)
GapIs(nodes, gap) ==
  /\ \A x, y \in nodes : gap[<<x, y>>] \in Nat /\ gap[<<x, y>>] <= Inf
  /\ \A x \in nodes : gap[<<x, x>>] = 0
  /\ \A x, y, z \in nodes : gap[<<x, z>>] <= gap[<<x, y>>] + gap[<<y, z>>]
RisingArc(nodes, level, p) == p \in nodes \X nodes /\ level[p[1]] < level[p[2]]
UpIs(nodes, level, gap, up) ==
  /\ \A p \in DOMAIN up : RisingArc(nodes, level, p) /\ up[p] \in Nat /\ gap[<<p[1], p[2]>>] <= up[p]
  /\ \A x, y \in nodes : level[x] < level[y] /\ gap[<<x, y>>] < Inf =>
       \E h \in nodes : <<x, h>> \in DOMAIN up /\ up[<<x, h>>] + gap[<<h, y>>] = gap[<<x, y>>]
DownIs(nodes, level, gap, down) ==
  /\ \A p \in DOMAIN down : RisingArc(nodes, level, p) /\ down[p] \in Nat /\ gap[<<p[2], p[1]>>] <= down[p]
  /\ \A x, y \in nodes : level[x] < level[y] /\ gap[<<y, x>>] < Inf =>
       \E h \in nodes : <<x, h>> \in DOMAIN down /\ down[<<x, h>>] + gap[<<y, h>>] = gap[<<y, x>>]
HalfOf(nodes, level, gap, up, down) ==
  /\ LevelIs(nodes, level) /\ GapIs(nodes, gap) /\ UpIs(nodes, level, gap, up) /\ DownIs(nodes, level, gap, down)
StartIs(nodes, start) == DOMAIN start \subseteq nodes /\ \A s \in DOMAIN start : start[s] \in Nat /\ start[s] <= Inf
BestIs(nodes, gap, start, best) ==
  /\ StartIs(nodes, start)
  /\ \A x \in nodes : /\ best[x] \in Nat /\ best[x] <= Inf
                      /\ \A s \in DOMAIN start : best[x] <= start[s] + gap[<<s, x>>]
                      /\ best[x] < Inf => \E s \in DOMAIN start : best[x] = start[s] + gap[<<s, x>>]
  /\ \A x, y \in nodes : best[y] <= best[x] + gap[<<x, y>>]

(* The labels of a side and its queue, and the next right label.            *)
IsLive(nodes, level, gap, up, start, best, qu, fl, tent, pn, pa) ==
  /\ IsLabelled(nodes, up, start, best, qu, fl, tent, pn, pa)
  /\ Progresses(nodes, level, gap, best, qu, fl, tent)

(* What was only added is live: a best way to z starts at an added node.     *)
LEMMA FreshIsLive ==
  ASSUME NEW nodes, NEW level, NEW gap, NEW up, NEW down, HalfOf(nodes, level, gap, up, down),
         NEW start, NEW best, BestIs(nodes, gap, start, best),
         NEW qu, NEW fl, NEW tent, NEW pn, NEW pa, IsFresh(start, qu, fl, tent, pn)
  PROVE  IsLive(nodes, level, gap, up, start, best, qu, fl, tent, pn, pa)
<1>1. \A x \in DOMAIN start : x \in nodes /\ start[x] \in Nat /\ start[x] <= Inf /\ best[x] <= start[x]
  <2> SUFFICES ASSUME NEW x \in DOMAIN start
               PROVE  x \in nodes /\ start[x] \in Nat /\ start[x] <= Inf /\ best[x] <= start[x]
    OBVIOUS
  <2>1. x \in nodes /\ start[x] \in Nat /\ start[x] <= Inf
    BY DEF BestIs, StartIs
  <2>2. best[x] <= start[x] + gap[<<x, x>>] /\ gap[<<x, x>>] = 0
    BY <2>1 DEF BestIs, HalfOf, GapIs
  <2> QED BY <2>1, <2>2
<1>2. IsLabelled(nodes, up, start, best, qu, fl, tent, pn, pa)
  BY <1>1 DEF IsLabelled, IsFresh
<1>3. ASSUME NEW z \in nodes, IsTop(nodes, level, gap, best, z)
      PROVE  \E x \in Tights(gap, best, fl, tent, z) :
               x \in DOMAIN qu /\ \A y \in Tights(gap, best, fl, tent, z) : level[y] <= level[x]
  <2>1. best[z] < Inf
    BY <1>3 DEF IsTop
  <2>2. PICK s \in DOMAIN start : best[z] = start[s] + gap[<<s, z>>]
    BY <2>1 DEF BestIs
  <2>3. best[s] \in Nat /\ best[z] \in Nat /\ gap[<<s, z>>] \in Nat /\ best[z] <= best[s] + gap[<<s, z>>]
    BY <1>1 DEF BestIs, HalfOf, GapIs
  <2>4. start[s] = best[s] /\ best[s] + gap[<<s, z>>] = best[z]
    BY <1>1, <2>2, <2>3
  <2>5. s \in Tights(gap, best, fl, tent, z)
    BY <2>4 DEF Tights, IsFresh
  <2>6. Tights(gap, best, fl, tent, z) \in SUBSET nodes /\ Tights(gap, best, fl, tent, z) \subseteq DOMAIN qu
    BY <1>1 DEF Tights, IsFresh
  <2>7. \E x \in Tights(gap, best, fl, tent, z) : \A y \in Tights(gap, best, fl, tent, z) : level[y] <= level[x]
    BY <2>5, <2>6, HighestExists DEF HalfOf
  <2> QED BY <2>6, <2>7
<1> QED BY <1>2, <1>3 DEF IsLive, Progresses

(* A node that is not expanded because a higher one is on as good a way to   *)
(* it is not the highest one on a best way.                                 *)
LEMMA StallKeepsLive ==
  ASSUME NEW nodes, NEW level, NEW gap, NEW up, NEW down, HalfOf(nodes, level, gap, up, down),
         NEW start, NEW best, BestIs(nodes, gap, start, best),
         NEW qu, NEW fl, NEW tent, NEW pn, NEW pa, IsLive(nodes, level, gap, up, start, best, qu, fl, tent, pn, pa),
         NEW x \in DOMAIN qu, NEW y \in fl, <<x, y>> \in DOMAIN down, tent[y] + down[<<x, y>>] <= tent[x],
         NEW q1, q1 = Restrict(qu, DOMAIN qu \ {x})
  PROVE  IsLive(nodes, level, gap, up, start, best, q1, fl, tent, pn, pa)
<1>1. DOMAIN q1 = DOMAIN qu \ {x} /\ \A v \in DOMAIN q1 : q1[v] = qu[v]
  BY DEF Restrict
<1>2. IsLabelled(nodes, up, start, best, q1, fl, tent, pn, pa)
  BY <1>1 DEF IsLive, IsLabelled
<1>3. x \in fl /\ x \in nodes /\ y \in nodes /\ tent[x] \in Nat /\ tent[y] \in Nat /\ best[x] <= tent[x] /\ best[y] <= tent[y]
  BY DEF IsLive, IsLabelled
<1>4. down[<<x, y>>] \in Nat /\ gap[<<y, x>>] <= down[<<x, y>>] /\ level[x] < level[y] /\ level[x] \in Nat /\ level[y] \in Nat
  BY <1>3 DEF HalfOf, DownIs, RisingArc, LevelIs
<1>5. ASSUME NEW z \in nodes, x \in Tights(gap, best, fl, tent, z) PROVE y \in Tights(gap, best, fl, tent, z)
  <2>1. tent[x] = best[x] /\ best[x] + gap[<<x, z>>] = best[z]
    BY <1>5 DEF Tights
  <2>2. /\ gap[<<y, x>>] \in Nat /\ gap[<<x, z>>] \in Nat /\ gap[<<y, z>>] \in Nat
        /\ gap[<<y, z>>] <= gap[<<y, x>>] + gap[<<x, z>>]
    BY <1>3 DEF HalfOf, GapIs
  <2>3. /\ best[x] \in Nat /\ best[y] \in Nat /\ best[z] \in Nat
        /\ best[x] <= best[y] + gap[<<y, x>>] /\ best[z] <= best[y] + gap[<<y, z>>]
    BY <1>3 DEF BestIs
  <2>4. tent[y] = best[y] /\ best[y] + gap[<<y, z>>] = best[z]
    BY <1>3, <1>4, <2>1, <2>2, <2>3
  <2> QED BY <2>4 DEF Tights
<1>6. Progresses(nodes, level, gap, best, q1, fl, tent)
  <2> SUFFICES ASSUME NEW z \in nodes, IsTop(nodes, level, gap, best, z), z \notin Tights(gap, best, fl, tent, z)
               PROVE  \E v \in Tights(gap, best, fl, tent, z) :
                        v \in DOMAIN q1 /\ \A u \in Tights(gap, best, fl, tent, z) : level[u] <= level[v]
    BY DEF Progresses
  <2>1. PICK v \in Tights(gap, best, fl, tent, z) :
               v \in DOMAIN qu /\ \A u \in Tights(gap, best, fl, tent, z) : level[u] <= level[v]
    BY DEF IsLive, Progresses
  <2>2. v # x
    BY <1>4, <1>5, <2>1
  <2> QED BY <1>1, <2>1, <2>2
<1> QED BY <1>2, <1>6 DEF IsLive

(* Expanding a node: what is relaxed, and what changes.                      *)
IsExpanded(up, x, key, rel, qu, fl, tent, pn, pa, q1, f1, t1, n1, a1) ==
  /\ DOMAIN q1 = rel \cup (DOMAIN qu \ {x}) /\ f1 = fl \cup rel
  /\ \A h \in rel : /\ q1[h] = key + up[<<x, h>>] /\ t1[h] = key + up[<<x, h>>]
                    /\ n1[h] = x /\ a1[h] = <<x, h>>
  /\ \A v : v \notin rel => /\ v \in DOMAIN qu \ {x} => q1[v] = qu[v]
                            /\ v \in fl => t1[v] = tent[v] /\ n1[v] = pn[v] /\ a1[v] = pa[v]
IsEased(up, fl, tent, x, key, rel) ==
  \A h : h \in rel <=> /\ <<x, h>> \in DOMAIN up
                       /\ IF h \in fl THEN key + up[<<x, h>>] < tent[h] ELSE key + up[<<x, h>>] < Inf

LEMMA ExpandKeepsLive ==
  ASSUME NEW nodes, NEW level, NEW gap, NEW up, NEW down, HalfOf(nodes, level, gap, up, down),
         NEW start, NEW best, BestIs(nodes, gap, start, best),
         NEW qu, NEW fl, NEW tent, NEW pn, NEW pa, IsLive(nodes, level, gap, up, start, best, qu, fl, tent, pn, pa),
         NEW x \in DOMAIN qu, NEW key, key = qu[x], NEW rel, IsEased(up, fl, tent, x, key, rel),
         NEW q1, NEW f1, NEW t1, NEW n1, NEW a1, IsExpanded(up, x, key, rel, qu, fl, tent, pn, pa, q1, f1, t1, n1, a1)
  PROVE  /\ IsLive(nodes, level, gap, up, start, best, q1, f1, t1, n1, a1)
         /\ x \notin rel /\ \A v \in fl : t1[v] <= tent[v]
<1>1. x \in fl /\ x \in nodes /\ key = tent[x] /\ key \in Nat /\ best[x] <= key /\ x # NoId
  BY NoIdAssumption DEF IsLive, IsLabelled, HalfOf, LevelIs
<1>2. \A h \in rel : /\ h \in nodes /\ up[<<x, h>>] \in Nat /\ gap[<<x, h>>] <= up[<<x, h>>] /\ level[x] < level[h]
                     /\ <<x, h>> \in DOMAIN up
  BY DEF IsEased, HalfOf, UpIs, RisingArc
<1>3. \A v \in fl : v \in nodes /\ tent[v] \in Nat /\ tent[v] <= Inf /\ best[v] <= tent[v]
  BY DEF IsLive, IsLabelled
<1>4. \A v \in nodes : level[v] \in Nat /\ best[v] \in Nat
  BY DEF HalfOf, LevelIs, BestIs
<1>5. x \notin rel
  <2>1. level[x] \in Nat /\ ~(level[x] < level[x])
    BY <1>1, <1>4
  <2> QED BY <1>2, <2>1
<1>6. ASSUME NEW h \in rel
      PROVE  /\ t1[h] \in Nat /\ t1[h] < Inf /\ best[h] <= t1[h] /\ t1[h] = key + up[<<x, h>>]
             /\ h \in fl => t1[h] < tent[h]
  <2>1. t1[h] = key + up[<<x, h>>] /\ t1[h] \in Nat
    BY <1>1, <1>2 DEF IsExpanded
  <2>2. h \in fl => t1[h] < tent[h]
    BY <2>1 DEF IsEased
  <2>3. t1[h] < Inf
    <3>1. CASE h \in fl
      BY <1>3, <2>1, <2>2, <3>1, InfAssumption
    <3>2. CASE h \notin fl
      BY <2>1, <3>2 DEF IsEased
    <3> QED BY <3>1, <3>2
  <2>4. best[h] <= best[x] + gap[<<x, h>>] /\ gap[<<x, h>>] \in Nat
    BY <1>1, <1>2 DEF BestIs, HalfOf, GapIs
  <2> QED BY <1>1, <1>2, <1>4, <2>1, <2>2, <2>3, <2>4
<1>7. \A v \in fl : v \notin rel => t1[v] = tent[v] /\ n1[v] = pn[v] /\ a1[v] = pa[v]
  BY DEF IsExpanded
<1>8. \A v \in fl : t1[v] \in Nat /\ t1[v] <= tent[v]
  <2> SUFFICES ASSUME NEW v \in fl PROVE t1[v] \in Nat /\ t1[v] <= tent[v]
    OBVIOUS
  <2>1. tent[v] \in Nat
    BY <1>3
  <2>2. CASE v \in rel
    <3>1. t1[v] \in Nat /\ t1[v] < tent[v]
      BY <1>6, <2>2
    <3> QED BY <2>1, <3>1
  <2>3. CASE v \notin rel
    <3>1. t1[v] = tent[v]
      BY <1>7, <2>3
    <3> QED BY <2>1, <3>1
  <2> QED BY <2>2, <2>3
<1>9. DOMAIN q1 \subseteq f1 /\ f1 \subseteq nodes /\ fl \subseteq f1 /\ f1 = fl \cup rel
  BY <1>2 DEF IsExpanded, IsLive, IsLabelled
<1>10. \A v \in DOMAIN q1 : q1[v] = t1[v]
  <2> SUFFICES ASSUME NEW v \in DOMAIN q1 PROVE q1[v] = t1[v]
    OBVIOUS
  <2>1. CASE v \in rel
    BY <2>1 DEF IsExpanded
  <2>2. CASE v \notin rel
    <3>1. v \in DOMAIN qu \ {x} /\ q1[v] = qu[v]
      BY <2>2 DEF IsExpanded
    <3>2. v \in fl /\ qu[v] = tent[v]
      BY <3>1 DEF IsLive, IsLabelled
    <3> QED BY <1>7, <2>2, <3>1, <3>2
  <2> QED BY <2>1, <2>2
<1>11. ASSUME NEW v \in f1
       PROVE  /\ t1[v] \in Nat /\ t1[v] <= Inf /\ best[v] <= t1[v]
              /\ n1[v] = NoId => v \in DOMAIN start /\ t1[v] = start[v]
              /\ n1[v] # NoId => /\ n1[v] \in f1 /\ a1[v] = <<n1[v], v>> /\ a1[v] \in DOMAIN up
                                 /\ t1[n1[v]] + up[a1[v]] <= t1[v] /\ t1[v] < Inf
  <2>1. CASE v \in rel
    <3>1. n1[v] = x /\ a1[v] = <<x, v>> /\ n1[v] # NoId /\ x \in f1
      BY <1>1, <1>9, <2>1 DEF IsExpanded
    <3>2. t1[x] = key
      BY <1>1, <1>5, <1>7
    <3>3. t1[v] \in Nat /\ t1[v] < Inf /\ best[v] <= t1[v] /\ t1[v] = key + up[<<x, v>>]
      BY <1>6, <2>1
    <3>4. t1[v] <= Inf
      BY <3>3, InfAssumption
    <3>5. a1[v] \in DOMAIN up
      BY <1>2, <2>1, <3>1 DEF IsEased
    <3>6. t1[n1[v]] + up[a1[v]] <= t1[v]
      BY <1>1, <3>1, <3>2, <3>3
    <3> QED BY <3>1, <3>3, <3>4, <3>5, <3>6
  <2>2. CASE v \notin rel
    <3>1. v \in fl /\ t1[v] = tent[v] /\ n1[v] = pn[v] /\ a1[v] = pa[v]
      BY <1>7, <1>9, <2>2
    <3>2. /\ tent[v] \in Nat /\ tent[v] <= Inf /\ best[v] <= tent[v]
          /\ pn[v] = NoId => v \in DOMAIN start /\ tent[v] = start[v]
          /\ pn[v] # NoId => /\ pn[v] \in fl /\ pa[v] = <<pn[v], v>> /\ pa[v] \in DOMAIN up
                             /\ tent[pn[v]] + up[pa[v]] <= tent[v] /\ tent[v] < Inf
      BY <3>1 DEF IsLive, IsLabelled
    <3>3. ASSUME pn[v] # NoId PROVE t1[pn[v]] + up[pa[v]] <= tent[v]
      <4>1. t1[pn[v]] <= tent[pn[v]] /\ t1[pn[v]] \in Nat /\ tent[pn[v]] \in Nat
        BY <1>3, <1>8, <3>2, <3>3
      <4>2. up[pa[v]] \in Nat
        BY <3>2, <3>3 DEF HalfOf, UpIs
      <4> QED BY <3>2, <3>3, <4>1, <4>2
    <3> QED BY <1>9, <3>1, <3>2, <3>3
  <2> QED BY <2>1, <2>2
<1>12. IsLabelled(nodes, up, start, best, q1, f1, t1, n1, a1)
  BY <1>9, <1>10, <1>11 DEF IsLabelled
<1>13. ASSUME NEW z \in nodes, NEW v \in Tights(gap, best, fl, tent, z)
       PROVE  v \in Tights(gap, best, f1, t1, z) /\ v \notin rel /\ v \in nodes
  <2>1. v \in fl /\ tent[v] = best[v] /\ best[v] + gap[<<v, z>>] = best[z]
    BY DEF Tights
  <2>2. v \notin rel
    <3>1. SUFFICES ASSUME v \in rel PROVE FALSE
      OBVIOUS
    <3>2. t1[v] \in Nat /\ best[v] <= t1[v] /\ t1[v] < tent[v]
      BY <1>6, <2>1, <3>1
    <3>3. best[v] \in Nat /\ v \in nodes
      BY <1>3, <1>4, <2>1
    <3> QED BY <2>1, <3>2, <3>3
  <2> QED BY <1>3, <1>7, <1>9, <2>1, <2>2 DEF Tights
<1>14. ASSUME NEW z \in nodes, NEW v \in Tights(gap, best, f1, t1, z)
       PROVE  v \in nodes /\ (v \in rel \/ v \in Tights(gap, best, fl, tent, z))
  BY <1>7, <1>9 DEF Tights
<1>15. Progresses(nodes, level, gap, best, q1, f1, t1)
  <2> SUFFICES ASSUME NEW z \in nodes, IsTop(nodes, level, gap, best, z), z \notin Tights(gap, best, f1, t1, z)
               PROVE  \E v \in Tights(gap, best, f1, t1, z) :
                        v \in DOMAIN q1 /\ \A u \in Tights(gap, best, f1, t1, z) : level[u] <= level[v]
    BY DEF Progresses
  <2>1. z \notin Tights(gap, best, fl, tent, z)
    BY <1>13
  <2>2. PICK v \in Tights(gap, best, fl, tent, z) :
               v \in DOMAIN qu /\ \A u \in Tights(gap, best, fl, tent, z) : level[u] <= level[v]
    BY <2>1 DEF IsLive, Progresses
  <2>3. v \in Tights(gap, best, f1, t1, z) /\ v \in nodes
    BY <1>13, <2>2
  <2>4. PICK top \in Tights(gap, best, f1, t1, z) : \A u \in Tights(gap, best, f1, t1, z) : level[u] <= level[top]
    <3>1. Tights(gap, best, f1, t1, z) \in SUBSET nodes
      BY <1>14
    <3> QED BY <2>3, <3>1, HighestExists DEF HalfOf
  <2>5. top \in nodes
    BY <1>14
  <2>6. CASE v # x
    <3>1. CASE top \in rel
      BY <2>4, <3>1 DEF IsExpanded
    <3>2. CASE top \notin rel
      <4>1. top \in Tights(gap, best, fl, tent, z)
        BY <1>14, <3>2
      <4>2. level[top] <= level[v] /\ level[v] <= level[top]
        BY <2>2, <2>3, <2>4, <4>1
      <4>3. top = v
        BY <1>4, <2>3, <2>5, <4>2 DEF HalfOf, LevelIs
      <4> QED BY <2>2, <2>4, <2>6, <4>3 DEF IsExpanded
    <3> QED BY <3>1, <3>2
  <2>7. CASE v = x
    <3>1. x \in fl /\ tent[x] = best[x] /\ best[x] + gap[<<x, z>>] = best[z]
      BY <2>2, <2>7 DEF Tights
    <3>2. level[x] < level[z] /\ best[z] < Inf
      <4>1. x # z
        BY <2>1, <2>2, <2>7
      <4>2. level[x] <= level[z] /\ best[z] < Inf
        BY <1>1, <3>1 DEF IsTop
      <4>3. level[x] # level[z] /\ level[x] \in Nat /\ level[z] \in Nat
        BY <1>1, <1>4, <4>1 DEF HalfOf, LevelIs
      <4> QED BY <4>2, <4>3
    <3>3. gap[<<x, z>>] \in Nat /\ gap[<<x, z>>] < Inf
      <4>1. gap[<<x, z>>] \in Nat
        BY <1>1 DEF HalfOf, GapIs
      <4> QED BY <1>1, <1>4, <3>1, <3>2, <4>1, InfAssumption
    <3>4. PICK h \in nodes : <<x, h>> \in DOMAIN up /\ up[<<x, h>>] + gap[<<h, z>>] = gap[<<x, z>>]
      BY <1>1, <3>2, <3>3 DEF HalfOf, UpIs
    <3>5. /\ up[<<x, h>>] \in Nat /\ gap[<<x, h>>] <= up[<<x, h>>] /\ level[x] < level[h]
      BY <3>4 DEF HalfOf, UpIs, RisingArc
    <3>6. gap[<<h, z>>] \in Nat /\ gap[<<x, h>>] \in Nat
      BY <1>1 DEF HalfOf, GapIs
    <3>7. best[h] <= best[x] + gap[<<x, h>>] /\ best[z] <= best[h] + gap[<<h, z>>]
      BY <1>1 DEF BestIs
    <3>8. best[h] = key + up[<<x, h>>] /\ best[h] + gap[<<h, z>>] = best[z] /\ best[h] < Inf
      <4>1. key = best[x] /\ best[x] \in Nat /\ best[z] \in Nat /\ best[h] \in Nat
        BY <1>1, <1>4, <3>1
      <4> QED BY <3>1, <3>2, <3>4, <3>5, <3>6, <3>7, <4>1, InfAssumption
    <3>9. h \notin Tights(gap, best, fl, tent, z)
      BY <1>1, <1>4, <2>2, <2>7, <3>5
    <3>10. h \in rel
      <4>1. SUFFICES ASSUME h \notin rel PROVE FALSE
        OBVIOUS
      <4>2. h \in fl /\ ~(key + up[<<x, h>>] < tent[h])
        BY <3>4, <3>8, <4>1 DEF IsEased
      <4>3. tent[h] = best[h]
        BY <1>3, <1>4, <3>8, <4>2
      <4> QED BY <3>8, <3>9, <4>2, <4>3 DEF Tights
    <3>11. h \in Tights(gap, best, f1, t1, z)
      BY <1>6, <1>9, <3>8, <3>10 DEF Tights
    <3>12. level[x] < level[top]
      BY <1>1, <1>4, <2>4, <2>5, <3>5, <3>11
    <3>13. top \in rel
      BY <1>1, <1>4, <1>14, <2>2, <2>5, <2>7, <3>12
    <3> QED BY <2>4, <3>13 DEF IsExpanded
  <2> QED BY <2>6, <2>7
<1> QED BY <1>5, <1>8, <1>12, <1>15 DEF IsLive

-----------------------------------------------------------------------------
(* The finished hierarchy is one for the lemmas above, on either side, and   *)
(* what callers added has its best distances.                               *)
DistanceIs(nodes, D) ==
  /\ DOMAIN D = nodes \X nodes
  /\ \A x, y \in nodes : D[<<x, y>>] \in Nat /\ D[<<x, y>>] <= Inf
  /\ \A x \in nodes : D[<<x, x>>] = 0
  /\ \A x, y, z \in nodes : D[<<x, z>>] <= D[<<x, y>>] + D[<<y, z>>]
LEMMA TrueDistanceIs == ASSUME input \in Inputs PROVE DistanceIs(Nodes, TrueDistance)
<1>1. input.n \in Nat /\ Sound(input.n, CleanGraph)
  BY CleanGraphIsSound
<1>2. Arcs(input.n, CleanGraph) \in Graphs(input.n)
  BY <1>1, ArcsAreGraph
<1>3. TrueDistance \in Table(input.n)
  <2>1. TrueDistance = Distances(input.n, Arcs(input.n, CleanGraph))
    BY InTheseTerms DEF TrueDistance, Far
  <2> QED BY <1>1, <1>2, <2>1, DistancesAreGreatest DEF Metric
<1>4. DOMAIN TrueDistance = Nodes \X Nodes
  BY <1>3 DEF Table, Between, Nodes
<1> QED BY <1>4, TrueIsMetric DEF DistanceIs

OrderOf(nodes, h) ==
  /\ \A x \in nodes : h.order[x + 1] \in nodes /\ h.rank[x] \in nodes
  /\ \A x \in nodes : h.order[h.rank[x] + 1] = x /\ h.rank[h.order[x + 1]] = x
(* The order of a finished hierarchy is a numbering of its nodes.           *)
LEMMA OrderIsOrder ==
  ASSUME input \in Inputs, NEW h, OrderIs(Nodes, h) PROVE OrderOf(Nodes, h)
<1>1. input.n \in Nat /\ Nodes = 0 .. input.n - 1
  BY TrueIsMetric
<1>2. \A x \in Nodes : x + 1 \in 1 .. input.n
  BY <1>1
<1> QED BY <1>2 DEF OrderIs, OrderOf

GapsMean(nodes, h, D, d, gap) ==
  /\ \A x, y \in nodes : gap[<<x, y>>] = Named(h, D, d, x, y) /\ gap[<<y, x>>] = Named(h, D, Opposite(d), x, y)
  /\ GapIs(nodes, gap)
(* Distances by position are a metric.                                      *)
LEMMA GapsAre ==
  ASSUME NEW nodes, NEW h, OrderOf(nodes, h), NEW D, DistanceIs(nodes, D), NEW d \in Dirs
  PROVE  GapsMean(nodes, h, D, d, Gaps(nodes, h, D, d))
<1>1. \A x, y \in nodes : Gaps(nodes, h, D, d)[<<x, y>>] = Named(h, D, d, x, y)
  BY DEF Gaps
<1>2. \A x, y \in nodes : Named(h, D, Opposite(d), x, y) = Named(h, D, d, y, x)
  BY DEF Named, SearchArc, Opposite, Dirs
<1>3. \A x \in nodes : h.order[x + 1] \in nodes
  BY DEF OrderOf
<1>4. \A x, y \in nodes : Named(h, D, d, x, y) \in Nat /\ Named(h, D, d, x, y) <= Inf
  BY <1>3 DEF Named, SearchArc, DistanceIs
<1>5. \A x \in nodes : Named(h, D, d, x, x) = 0
  BY <1>3 DEF Named, SearchArc, DistanceIs
<1>6. ASSUME NEW x \in nodes, NEW y \in nodes, NEW z \in nodes
      PROVE  Named(h, D, d, x, z) <= Named(h, D, d, x, y) + Named(h, D, d, y, z)
  <2>1. PICK a : a = h.order[x + 1]
    OBVIOUS
  <2>2. PICK b : b = h.order[y + 1]
    OBVIOUS
  <2>3. PICK c : c = h.order[z + 1]
    OBVIOUS
  <2>4. a \in nodes /\ b \in nodes /\ c \in nodes
    BY <1>3, <2>1, <2>2, <2>3
  <2>5. /\ D[<<a, c>>] <= D[<<a, b>>] + D[<<b, c>>]
        /\ D[<<c, a>>] <= D[<<c, b>>] + D[<<b, a>>]
    BY <2>4 DEF DistanceIs
  <2>6. \A u, v \in nodes : D[<<u, v>>] \in Nat
    BY DEF DistanceIs
  <2>7. CASE d = "f"
    <3>1. /\ Named(h, D, d, x, z) = D[<<a, c>>] /\ Named(h, D, d, x, y) = D[<<a, b>>] /\ Named(h, D, d, y, z) = D[<<b, c>>]
      BY <2>1, <2>2, <2>3, <2>7 DEF Named, SearchArc
    <3> QED BY <2>5, <3>1
  <2>8. CASE d # "f"
    <3>1. /\ Named(h, D, d, x, z) = D[<<c, a>>] /\ Named(h, D, d, x, y) = D[<<b, a>>] /\ Named(h, D, d, y, z) = D[<<c, b>>]
      BY <2>1, <2>2, <2>3, <2>8 DEF Named, SearchArc
    <3>2. D[<<c, b>>] \in Nat /\ D[<<b, a>>] \in Nat /\ D[<<c, a>>] \in Nat
      BY <2>4, <2>6
    <3> QED BY <2>5, <3>1, <3>2
  <2> QED BY <2>7, <2>8
<1>7. \A x, y, z \in nodes : Named(h, D, d, x, z) <= Named(h, D, d, x, y) + Named(h, D, d, y, z)
  BY <1>6
<1>8. PICK gap : gap = Gaps(nodes, h, D, d)
  OBVIOUS
<1>9. \A x, y \in nodes : gap[<<x, y>>] = Named(h, D, d, x, y)
  BY <1>1, <1>8
<1>10. \A x, y \in nodes : gap[<<y, x>>] = Named(h, D, Opposite(d), x, y)
  BY <1>2, <1>9
<1>11. \A x, y, z \in nodes : gap[<<x, z>>] <= gap[<<x, y>>] + gap[<<y, z>>]
  BY <1>7, <1>9
<1>12. GapIs(nodes, gap)
  BY <1>4, <1>5, <1>9, <1>11 DEF GapIs
<1>13. GapsMean(nodes, h, D, d, gap)
  BY <1>9, <1>10, <1>12 DEF GapsMean
<1> QED BY <1>8, <1>13

(* The arcs of one side serve the upward search, those of the other the way *)
(* down to a node.                                                          *)
LEMMA HierarchyIsHalf ==
  ASSUME NEW nodes, IsFiniteSet(nodes), nodes \subseteq Nat, NEW h, OrderOf(nodes, h),
         NEW D, DistanceIs(nodes, D), NEW clean, NEW level, IsLevels(nodes, h, clean, D, level), NEW d \in Dirs
  PROVE  HalfOf(nodes, level, Gaps(nodes, h, D, d), ArcWeights(h, d), ArcWeights(h, Opposite(d)))
<1>1. PICK gap : gap = Gaps(nodes, h, D, d)
  OBVIOUS
<1>2. GapsMean(nodes, h, D, d, gap)
  BY <1>1, GapsAre
<1>3. GapIs(nodes, gap)
  BY <1>2 DEF GapsMean
<1>4. LevelIs(nodes, level)
  BY DEF IsLevels, LevelIs
<1>5. Opposite(d) \in Dirs
  BY DEF Opposite, Dirs
<1>6. ASSUME NEW o \in Dirs
      PROVE  /\ DOMAIN ArcWeights(h, o) = DOMAIN h.side[o]
             /\ \A p \in DOMAIN ArcWeights(h, o) :
                  RisingArc(nodes, level, p) /\ ArcWeights(h, o)[p] \in Nat /\ Named(h, D, o, p[1], p[2]) <= ArcWeights(h, o)[p]
             /\ \A x, y \in nodes : level[x] < level[y] /\ Named(h, D, o, x, y) < Inf =>
                  \E v \in nodes : <<x, v>> \in DOMAIN ArcWeights(h, o)
                                   /\ ArcWeights(h, o)[<<x, v>>] + Named(h, D, o, v, y) = Named(h, D, o, x, y)
  <2>1. DOMAIN ArcWeights(h, o) = DOMAIN h.side[o] /\ \A p \in DOMAIN h.side[o] : ArcWeights(h, o)[p] = h.side[o][p].weight
    BY DEF ArcWeights
  <2>2. \A p \in DOMAIN h.side[o] : RisingArc(nodes, level, p) /\ h.side[o][p].weight \in Nat
                                    /\ Named(h, D, o, p[1], p[2]) <= h.side[o][p].weight
    BY DEF IsLevels, UpwardIs, RisingArc
  <2>3. ASSUME NEW x \in nodes, NEW y \in nodes, level[x] < level[y], Named(h, D, o, x, y) < Inf
        PROVE  \E v \in nodes : <<x, v>> \in DOMAIN ArcWeights(h, o)
                                /\ ArcWeights(h, o)[<<x, v>>] + Named(h, D, o, v, y) = Named(h, D, o, x, y)
    <3>1. PICK p \in DOMAIN h.side[o] : p[1] = x /\ h.side[o][p].weight + Named(h, D, o, p[2], y) = Named(h, D, o, x, y)
      BY <2>3 DEF IsLevels, HopsUp
    <3>2. p \in nodes \X nodes
      BY <2>2 DEF RisingArc
    <3>3. p = <<x, p[2]>> /\ p[2] \in nodes
      BY <3>1, <3>2
    <3>4. ArcWeights(h, o)[p] = h.side[o][p].weight
      BY <2>1
    <3> QED BY <2>1, <3>1, <3>3, <3>4
  <2> QED BY <2>1, <2>2, <2>3
<1>7. UpIs(nodes, level, gap, ArcWeights(h, d))
  <2>1. PICK up : up = ArcWeights(h, d)
    OBVIOUS
  <2>2. /\ \A p \in DOMAIN up : RisingArc(nodes, level, p) /\ up[p] \in Nat /\ Named(h, D, d, p[1], p[2]) <= up[p]
        /\ \A x, y \in nodes : level[x] < level[y] /\ Named(h, D, d, x, y) < Inf =>
             \E v \in nodes : <<x, v>> \in DOMAIN up /\ up[<<x, v>>] + Named(h, D, d, v, y) = Named(h, D, d, x, y)
    BY <1>6, <2>1
  <2>3. \A p \in DOMAIN up : gap[<<p[1], p[2]>>] <= up[p]
    BY <1>2, <2>2 DEF RisingArc, GapsMean
  <2>4. \A x, y \in nodes : level[x] < level[y] /\ gap[<<x, y>>] < Inf =>
          \E v \in nodes : <<x, v>> \in DOMAIN up /\ up[<<x, v>>] + gap[<<v, y>>] = gap[<<x, y>>]
    <3> SUFFICES ASSUME NEW x \in nodes, NEW y \in nodes, level[x] < level[y], gap[<<x, y>>] < Inf
                 PROVE  \E v \in nodes : <<x, v>> \in DOMAIN up /\ up[<<x, v>>] + gap[<<v, y>>] = gap[<<x, y>>]
      OBVIOUS
    <3>1. PICK v \in nodes : <<x, v>> \in DOMAIN up /\ up[<<x, v>>] + Named(h, D, d, v, y) = Named(h, D, d, x, y)
      BY <1>2, <2>2 DEF GapsMean
    <3> QED BY <1>2, <3>1 DEF GapsMean
  <2>5. UpIs(nodes, level, gap, up)
    BY <2>2, <2>3, <2>4 DEF UpIs
  <2> QED BY <2>1, <2>5
<1>8. DownIs(nodes, level, gap, ArcWeights(h, Opposite(d)))
  <2>1. PICK o : o = Opposite(d)
    OBVIOUS
  <2>2. PICK down : down = ArcWeights(h, o)
    OBVIOUS
  <2>3. /\ \A p \in DOMAIN down : RisingArc(nodes, level, p) /\ down[p] \in Nat /\ Named(h, D, o, p[1], p[2]) <= down[p]
        /\ \A x, y \in nodes : level[x] < level[y] /\ Named(h, D, o, x, y) < Inf =>
             \E v \in nodes : <<x, v>> \in DOMAIN down /\ down[<<x, v>>] + Named(h, D, o, v, y) = Named(h, D, o, x, y)
    BY <1>5, <1>6, <2>1, <2>2
  <2>4. \A x, y \in nodes : gap[<<y, x>>] = Named(h, D, o, x, y)
    BY <1>2, <2>1 DEF GapsMean
  <2>5. \A p \in DOMAIN down : gap[<<p[2], p[1]>>] <= down[p]
    BY <2>3, <2>4 DEF RisingArc
  <2>6. \A x, y \in nodes : level[x] < level[y] /\ gap[<<y, x>>] < Inf =>
          \E v \in nodes : <<x, v>> \in DOMAIN down /\ down[<<x, v>>] + gap[<<y, v>>] = gap[<<y, x>>]
    <3> SUFFICES ASSUME NEW x \in nodes, NEW y \in nodes, level[x] < level[y], gap[<<y, x>>] < Inf
                 PROVE  \E v \in nodes : <<x, v>> \in DOMAIN down /\ down[<<x, v>>] + gap[<<y, v>>] = gap[<<y, x>>]
      OBVIOUS
    <3>1. PICK v \in nodes : <<x, v>> \in DOMAIN down /\ down[<<x, v>>] + Named(h, D, o, v, y) = Named(h, D, o, x, y)
      BY <2>3, <2>4
    <3> QED BY <2>4, <3>1
  <2>7. DownIs(nodes, level, gap, down)
    BY <2>3, <2>5, <2>6 DEF DownIs
  <2> QED BY <2>1, <2>2, <2>7
<1> QED BY <1>1, <1>3, <1>4, <1>7, <1>8 DEF HalfOf

(* What BestFrom says.                                                       *)
NumbersBetween(nodes, D) == \A x, y \in nodes : D[<<x, y>>] \in Nat /\ D[<<x, y>>] <= Inf
LEMMA BestFromIs ==
  ASSUME NEW nodes, NEW src, SourcesAre(nodes, src), NEW to \in nodes,
         NEW D, NumbersBetween(nodes, D)
  PROVE  /\ BestFrom(src, to, D) \in Nat /\ BestFrom(src, to, D) <= Inf
         /\ \A s \in DOMAIN src : BestFrom(src, to, D) <= src[s] + D[<<s, to>>]
         /\ BestFrom(src, to, D) < Inf => \E s \in DOMAIN src : BestFrom(src, to, D) = src[s] + D[<<s, to>>]
<1>1. PICK S : S = {Inf} \cup {src[s] + D[<<s, to>>] : s \in {x \in DOMAIN src : D[<<x, to>>] < Inf}}
  OBVIOUS
<1>2. \A s \in DOMAIN src : s \in nodes /\ src[s] \in Nat /\ D[<<s, to>>] \in Nat /\ D[<<s, to>>] <= Inf /\ src[s] + D[<<s, to>>] \in Nat
  BY DEF SourcesAre, NumbersBetween
<1>3. S \in SUBSET Nat /\ S # {} /\ Inf \in S
  BY <1>1, <1>2, InfAssumption
<1>4. BestFrom(src, to, D) \in S /\ \A m \in S : BestFrom(src, to, D) <= m
  <2>1. Min(S) \in S /\ \A m \in S : Min(S) <= m
    BY <1>3, MinIsLeast
  <2> QED BY <1>1, <2>1 DEF BestFrom
<1>5. PICK b : b = BestFrom(src, to, D)
  OBVIOUS
<1>6. b \in Nat /\ b <= Inf
  BY <1>3, <1>4, <1>5
<1>7. ASSUME NEW s \in DOMAIN src PROVE b <= src[s] + D[<<s, to>>]
  <2>1. CASE D[<<s, to>>] < Inf
    BY <1>1, <1>4, <1>5, <2>1
  <2>2. CASE ~(D[<<s, to>>] < Inf)
    BY <1>2, <1>6, <2>2, InfAssumption
  <2> QED BY <2>1, <2>2
<1>8. ASSUME b < Inf PROVE \E s \in DOMAIN src : b = src[s] + D[<<s, to>>]
  <2>1. b # Inf
    BY <1>6, <1>8, InfAssumption
  <2> QED BY <1>1, <1>4, <1>5, <2>1
<1> QED BY <1>5, <1>6, <1>7, <1>8

(* What was added, by position.                                             *)
LEMMA StartsAre ==
  ASSUME NEW nodes, NEW h, OrderOf(nodes, h), NEW src, SourcesAre(nodes, src)
  PROVE  /\ StartIs(nodes, Starts(h, src))
         /\ \A x : x \in DOMAIN Starts(h, src) <=> x \in nodes /\ h.order[x + 1] \in DOMAIN src
         /\ \A x \in DOMAIN Starts(h, src) : Starts(h, src)[x] = src[h.order[x + 1]]
         /\ \A s \in DOMAIN src : /\ h.rank[s] \in DOMAIN Starts(h, src) /\ h.rank[s] \in nodes
                                  /\ h.order[h.rank[s] + 1] = s /\ Starts(h, src)[h.rank[s]] = src[s]
<1>1. PICK T : T = Starts(h, src)
  OBVIOUS
<1>2. /\ \A x : x \in DOMAIN T <=> \E s \in DOMAIN src : x = h.rank[s]
      /\ \A x \in DOMAIN T : T[x] = src[h.order[x + 1]]
  BY <1>1 DEF Starts
<1>3. \A s \in DOMAIN src : s \in nodes /\ h.rank[s] \in nodes /\ h.order[h.rank[s] + 1] = s /\ src[s] \in Nat /\ src[s] <= Inf
  BY DEF OrderOf, SourcesAre
<1>4. \A x : x \in DOMAIN T <=> x \in nodes /\ h.order[x + 1] \in DOMAIN src
  <2>1. ASSUME NEW x \in DOMAIN T PROVE x \in nodes /\ h.order[x + 1] \in DOMAIN src
    BY <1>2, <1>3
  <2>2. ASSUME NEW x \in nodes, h.order[x + 1] \in DOMAIN src PROVE x \in DOMAIN T
    <3>1. h.rank[h.order[x + 1]] = x
      BY DEF OrderOf
    <3> QED BY <1>2, <2>2, <3>1
  <2> QED BY <2>1, <2>2
<1>5. \A s \in DOMAIN src : h.rank[s] \in DOMAIN T /\ T[h.rank[s]] = src[s]
  BY <1>2, <1>3
<1>6. StartIs(nodes, T)
  BY <1>2, <1>3, <1>4 DEF StartIs
<1> QED BY <1>1, <1>2, <1>3, <1>4, <1>5, <1>6

(* The best distance from what was added is what no road undercuts and some *)
(* road attains.                                                            *)
LEMMA BestsAre ==
  ASSUME NEW nodes, NEW h, OrderOf(nodes, h), NEW D, DistanceIs(nodes, D), NEW d \in Dirs,
         NEW src, SourcesAre(nodes, src)
  PROVE  BestIs(nodes, Gaps(nodes, h, D, d), Starts(h, src), Bests(nodes, h, D, d, src))
<1>1. PICK E : E = IF d = "f" THEN D ELSE Turned(D)
  OBVIOUS
<1>2. \A x, y \in nodes : E[<<x, y>>] = D[SearchArc(d, x, y)]
  <2>1. \A x, y \in nodes : Turned(D)[<<x, y>>] = D[<<y, x>>]
    BY DEF Turned, Flip, DistanceIs
  <2> QED BY <1>1, <2>1 DEF SearchArc
<1>3. NumbersBetween(nodes, E)
  BY <1>2 DEF SearchArc, DistanceIs, NumbersBetween
<1>4. PICK best : best = Bests(nodes, h, D, d, src)
  OBVIOUS
<1>5. PICK T : T = Starts(h, src)
  OBVIOUS
<1>6. PICK gap : gap = Gaps(nodes, h, D, d)
  OBVIOUS
<1>7. \A x \in nodes : h.order[x + 1] \in nodes /\ best[x] = BestFrom(src, h.order[x + 1], E)
  BY <1>1, <1>4 DEF Bests, OrderOf
<1>8. \A x, y \in nodes : gap[<<x, y>>] = E[<<h.order[x + 1], h.order[y + 1]>>]
  BY <1>2, <1>6, <1>7 DEF Gaps, Named
<1>9. /\ StartIs(nodes, T)
      /\ \A x \in DOMAIN T : x \in nodes /\ h.order[x + 1] \in DOMAIN src /\ T[x] = src[h.order[x + 1]]
      /\ \A s \in DOMAIN src : h.rank[s] \in DOMAIN T /\ h.rank[s] \in nodes /\ h.order[h.rank[s] + 1] = s /\ T[h.rank[s]] = src[s]
  BY <1>5, StartsAre
<1>10. ASSUME NEW x \in nodes
       PROVE  /\ best[x] \in Nat /\ best[x] <= Inf
              /\ \A s \in DOMAIN T : best[x] <= T[s] + gap[<<s, x>>]
              /\ best[x] < Inf => \E s \in DOMAIN T : best[x] = T[s] + gap[<<s, x>>]
  <2>1. PICK to \in nodes : to = h.order[x + 1]
    BY <1>7
  <2>2. best[x] = BestFrom(src, to, E)
    BY <1>7, <2>1
  <2>3. /\ best[x] \in Nat /\ best[x] <= Inf
        /\ \A s \in DOMAIN src : best[x] <= src[s] + E[<<s, to>>]
        /\ best[x] < Inf => \E s \in DOMAIN src : best[x] = src[s] + E[<<s, to>>]
    <3>1. /\ BestFrom(src, to, E) \in Nat /\ BestFrom(src, to, E) <= Inf
          /\ \A s \in DOMAIN src : BestFrom(src, to, E) <= src[s] + E[<<s, to>>]
          /\ BestFrom(src, to, E) < Inf => \E s \in DOMAIN src : BestFrom(src, to, E) = src[s] + E[<<s, to>>]
      BY <1>3, BestFromIs
    <3> QED BY <2>2, <3>1
  <2>4. ASSUME NEW s \in DOMAIN T PROVE best[x] <= T[s] + gap[<<s, x>>]
    <3>1. s \in nodes /\ h.order[s + 1] \in DOMAIN src /\ T[s] = src[h.order[s + 1]]
      BY <1>9
    <3>2. gap[<<s, x>>] = E[<<h.order[s + 1], to>>]
      BY <1>8, <2>1, <3>1
    <3> QED BY <2>3, <3>1, <3>2
  <2>5. ASSUME best[x] < Inf PROVE \E s \in DOMAIN T : best[x] = T[s] + gap[<<s, x>>]
    <3>1. PICK s \in DOMAIN src : best[x] = src[s] + E[<<s, to>>]
      BY <2>3, <2>5
    <3>2. h.rank[s] \in DOMAIN T /\ h.rank[s] \in nodes /\ T[h.rank[s]] = src[s] /\ h.order[h.rank[s] + 1] = s
      BY <1>9
    <3>3. gap[<<h.rank[s], x>>] = E[<<s, to>>]
      BY <1>8, <2>1, <3>2
    <3> QED BY <3>1, <3>2, <3>3
  <2> QED BY <2>3, <2>4, <2>5
<1>11. ASSUME NEW x \in nodes, NEW y \in nodes PROVE best[y] <= best[x] + gap[<<x, y>>]
  <2>1. best[x] \in Nat /\ best[y] \in Nat /\ best[y] <= Inf /\ best[x] <= Inf
    BY <1>10
  <2>2. GapIs(nodes, gap)
    BY <1>6, GapsAre DEF GapsMean
  <2>3. gap[<<x, y>>] \in Nat
    BY <2>2 DEF GapIs
  <2>4. CASE best[x] < Inf
    <3>1. PICK s \in DOMAIN T : best[x] = T[s] + gap[<<s, x>>]
      BY <1>10, <2>4
    <3>2. s \in nodes /\ T[s] \in Nat
      BY <1>9 DEF StartIs
    <3>3. best[y] <= T[s] + gap[<<s, y>>]
      BY <1>10
    <3>4. gap[<<s, y>>] <= gap[<<s, x>>] + gap[<<x, y>>] /\ gap[<<s, y>>] \in Nat /\ gap[<<s, x>>] \in Nat
      BY <2>2, <3>2 DEF GapIs
    <3> QED BY <2>1, <2>3, <3>1, <3>2, <3>3, <3>4
  <2>5. CASE ~(best[x] < Inf)
    BY <2>1, <2>3, <2>5, InfAssumption
  <2> QED BY <2>4, <2>5
<1>12. BestIs(nodes, gap, T, best)
  BY <1>9, <1>10, <1>11 DEF BestIs
<1> QED BY <1>4, <1>5, <1>6, <1>12

-----------------------------------------------------------------------------
(* What a side of a query goes by.                                           *)
Given(nodes, h, clean, D, d, src) ==
  /\ nodes \subseteq Nat /\ OrderOf(nodes, h) /\ SourcesAre(nodes, src) /\ DistanceIs(nodes, D)
  /\ BestIs(nodes, Gaps(nodes, h, D, d), Starts(h, src), Bests(nodes, h, D, d, src))
  /\ \E level \in [nodes -> nodes] : IsLevels(nodes, h, clean, D, level)
  /\ \A level \in [nodes -> nodes] : IsLevels(nodes, h, clean, D, level) =>
       HalfOf(nodes, level, Gaps(nodes, h, D, d), ArcWeights(h, d), ArcWeights(h, Opposite(d)))

LEMMA SideIsGiven ==
  ASSUME HInv, IInv, QueryTypes, pc = "built", NEW d \in Dirs
  PROVE  Given(Nodes, ch, CleanGraph, TrueDistance, d, asked.src[d])
<1>1. input \in Inputs
  BY DEF IInv, GraphOK
<1>2. OrderIs(Nodes, ch) /\ Levelled(Nodes, ch, CleanGraph, TrueDistance)
  BY DEF HInv, HierarchyOK
<1>3. OrderOf(Nodes, ch)
  BY <1>1, <1>2, OrderIsOrder
<1>4. DistanceIs(Nodes, TrueDistance)
  BY <1>1, TrueDistanceIs
<1>5. IsFiniteSet(Nodes) /\ Nodes \subseteq Nat
  BY <1>1, TrueIsMetric
<1>6. SourcesAre(Nodes, asked.src[d])
  BY DEF QueryTypes, AskedIs
<1>7. BestIs(Nodes, Gaps(Nodes, ch, TrueDistance, d), Starts(ch, asked.src[d]), Bests(Nodes, ch, TrueDistance, d, asked.src[d]))
  BY <1>3, <1>4, <1>6, BestsAre
<1>8. \E level \in [Nodes -> Nodes] : IsLevels(Nodes, ch, CleanGraph, TrueDistance, level)
  BY <1>2 DEF Levelled
<1>9. ASSUME NEW level, IsLevels(Nodes, ch, CleanGraph, TrueDistance, level)
      PROVE  HalfOf(Nodes, level, Gaps(Nodes, ch, TrueDistance, d), ArcWeights(ch, d), ArcWeights(ch, Opposite(d)))
  BY <1>3, <1>4, <1>5, <1>9, HierarchyIsHalf
<1> QED BY <1>3, <1>4, <1>5, <1>6, <1>7, <1>8, <1>9 DEF Given

(* A side that was only added to, one that stalls at a node and one that    *)
(* expands a node are live.                                                 *)
LEMMA FreshSideIsLive ==
  ASSUME NEW nodes, NEW h, NEW clean, NEW D, NEW d, NEW src, Given(nodes, h, clean, D, d, src),
         NEW qu, NEW fl, NEW tent, NEW pn, NEW pa, IsFresh(Starts(h, src), qu, fl, tent, pn)
  PROVE  IsLiveAt(nodes, h, clean, D, d, src, qu, fl, tent, pn, pa)
<1>1. PICK gap : gap = Gaps(nodes, h, D, d)
  OBVIOUS
<1>2. PICK best : best = Bests(nodes, h, D, d, src)
  OBVIOUS
<1>3. PICK start : start = Starts(h, src)
  OBVIOUS
<1>4. PICK up : up = ArcWeights(h, d)
  OBVIOUS
<1>5. PICK down : down = ArcWeights(h, Opposite(d))
  OBVIOUS
<1>6. BestIs(nodes, gap, start, best) /\ IsFresh(start, qu, fl, tent, pn)
  BY <1>1, <1>2, <1>3 DEF Given
<1>7. ASSUME NEW level \in [nodes -> nodes], IsLevels(nodes, h, clean, D, level)
      PROVE  IsLive(nodes, level, gap, up, start, best, qu, fl, tent, pn, pa)
  <2>1. HalfOf(nodes, level, gap, up, down)
    BY <1>1, <1>4, <1>5, <1>7 DEF Given
  <2> QED BY <1>6, <2>1, FreshIsLive
<1>8. PICK level \in [nodes -> nodes] : IsLevels(nodes, h, clean, D, level)
  BY DEF Given
<1>9. IsLabelled(nodes, up, start, best, qu, fl, tent, pn, pa)
  BY <1>7, <1>8 DEF IsLive
<1>10. \A lv \in [nodes -> nodes] : IsLevels(nodes, h, clean, D, lv) => Progresses(nodes, lv, gap, best, qu, fl, tent)
  BY <1>7 DEF IsLive
<1> QED BY <1>1, <1>2, <1>3, <1>4, <1>9, <1>10 DEF IsLiveAt

LEMMA StallLeavesLive ==
  ASSUME NEW nodes, NEW h, NEW clean, NEW D, NEW d, NEW src, Given(nodes, h, clean, D, d, src),
         NEW qu, NEW fl, NEW tent, NEW pn, NEW pa, IsLiveAt(nodes, h, clean, D, d, src, qu, fl, tent, pn, pa),
         NEW x \in DOMAIN qu, NEW y \in fl, <<x, y>> \in DOMAIN ArcWeights(h, Opposite(d)),
         tent[y] + ArcWeights(h, Opposite(d))[<<x, y>>] <= tent[x],
         NEW q1, q1 = Restrict(qu, DOMAIN qu \ {x})
  PROVE  IsLiveAt(nodes, h, clean, D, d, src, q1, fl, tent, pn, pa)
<1>1. PICK gap : gap = Gaps(nodes, h, D, d)
  OBVIOUS
<1>2. PICK best : best = Bests(nodes, h, D, d, src)
  OBVIOUS
<1>3. PICK start : start = Starts(h, src)
  OBVIOUS
<1>4. PICK up : up = ArcWeights(h, d)
  OBVIOUS
<1>5. PICK down : down = ArcWeights(h, Opposite(d))
  OBVIOUS
<1>6. BestIs(nodes, gap, start, best)
  BY <1>1, <1>2, <1>3 DEF Given
<1>7. <<x, y>> \in DOMAIN down /\ tent[y] + down[<<x, y>>] <= tent[x]
  BY <1>5
<1>8. ASSUME NEW level \in [nodes -> nodes], IsLevels(nodes, h, clean, D, level)
      PROVE  IsLive(nodes, level, gap, up, start, best, q1, fl, tent, pn, pa)
  <2>1. HalfOf(nodes, level, gap, up, down)
    BY <1>1, <1>4, <1>5, <1>8 DEF Given
  <2>2. IsLive(nodes, level, gap, up, start, best, qu, fl, tent, pn, pa)
    BY <1>1, <1>2, <1>3, <1>4, <1>8 DEF IsLiveAt, IsLive
  <2> QED BY <1>6, <1>7, <2>1, <2>2, StallKeepsLive
<1>9. PICK level \in [nodes -> nodes] : IsLevels(nodes, h, clean, D, level)
  BY DEF Given
<1>10. IsLabelled(nodes, up, start, best, q1, fl, tent, pn, pa)
  BY <1>8, <1>9 DEF IsLive
<1>11. \A lv \in [nodes -> nodes] : IsLevels(nodes, h, clean, D, lv) => Progresses(nodes, lv, gap, best, q1, fl, tent)
  BY <1>8 DEF IsLive
<1> QED BY <1>1, <1>2, <1>3, <1>4, <1>10, <1>11 DEF IsLiveAt

LEMMA ExpandLeavesLive ==
  ASSUME NEW nodes, NEW h, NEW clean, NEW D, NEW d, NEW src, Given(nodes, h, clean, D, d, src),
         NEW qu, NEW fl, NEW tent, NEW pn, NEW pa, IsLiveAt(nodes, h, clean, D, d, src, qu, fl, tent, pn, pa),
         NEW x \in DOMAIN qu, NEW key, key = qu[x], NEW rel, IsEased(ArcWeights(h, d), fl, tent, x, key, rel),
         NEW q1, NEW f1, NEW t1, NEW n1, NEW a1,
         IsExpanded(ArcWeights(h, d), x, key, rel, qu, fl, tent, pn, pa, q1, f1, t1, n1, a1)
  PROVE  /\ IsLiveAt(nodes, h, clean, D, d, src, q1, f1, t1, n1, a1)
         /\ x \notin rel /\ \A v \in fl : t1[v] <= tent[v]
<1>1. PICK gap : gap = Gaps(nodes, h, D, d)
  OBVIOUS
<1>2. PICK best : best = Bests(nodes, h, D, d, src)
  OBVIOUS
<1>3. PICK start : start = Starts(h, src)
  OBVIOUS
<1>4. PICK up : up = ArcWeights(h, d)
  OBVIOUS
<1>5. PICK down : down = ArcWeights(h, Opposite(d))
  OBVIOUS
<1>6. BestIs(nodes, gap, start, best)
  BY <1>1, <1>2, <1>3 DEF Given
<1>7. IsEased(up, fl, tent, x, key, rel) /\ IsExpanded(up, x, key, rel, qu, fl, tent, pn, pa, q1, f1, t1, n1, a1)
  BY <1>4
<1>8. ASSUME NEW level \in [nodes -> nodes], IsLevels(nodes, h, clean, D, level)
      PROVE  /\ IsLive(nodes, level, gap, up, start, best, q1, f1, t1, n1, a1)
             /\ x \notin rel /\ \A v \in fl : t1[v] <= tent[v]
  <2>1. HalfOf(nodes, level, gap, up, down)
    BY <1>1, <1>4, <1>5, <1>8 DEF Given
  <2>2. IsLive(nodes, level, gap, up, start, best, qu, fl, tent, pn, pa)
    BY <1>1, <1>2, <1>3, <1>4, <1>8 DEF IsLiveAt, IsLive
  <2> QED BY <1>6, <1>7, <2>1, <2>2, ExpandKeepsLive
<1>9. PICK level \in [nodes -> nodes] : IsLevels(nodes, h, clean, D, level)
  BY DEF Given
<1>10. IsLabelled(nodes, up, start, best, q1, f1, t1, n1, a1)
  BY <1>8, <1>9 DEF IsLive
<1>11. \A lv \in [nodes -> nodes] : IsLevels(nodes, h, clean, D, lv) => Progresses(nodes, lv, gap, best, q1, f1, t1)
  BY <1>8 DEF IsLive
<1>12. IsLiveAt(nodes, h, clean, D, d, src, q1, f1, t1, n1, a1)
  BY <1>1, <1>2, <1>3, <1>4, <1>10, <1>11 DEF IsLiveAt
<1> QED BY <1>8, <1>9, <1>12

OverlaidBy(new, old, f) ==
  /\ DOMAIN f = DOMAIN new \cup DOMAIN old
  /\ \A v \in DOMAIN new : f[v] = new[v]
  /\ \A v \in DOMAIN old : v \notin DOMAIN new => f[v] = old[v]
(* What an overlay holds where.                                             *)
LEMMA OverlaidIs == ASSUME NEW new, NEW old PROVE OverlaidBy(new, old, Overlaid(new, old))
BY DEF Overlaid, OverlaidBy

-----------------------------------------------------------------------------
(* Expanding a node in the arrays of one side leaves those of the other.     *)
SameBut(d, a, b) == DOMAIN b = DOMAIN a /\ \A o \in Dirs : o # d => b[o] = a[o]
OtherSideStays(d, qu, fl, tent, pn, pa, q1, f1, t1, n1, a1) ==
  SameBut(d, qu, q1) /\ SameBut(d, fl, f1) /\ SameBut(d, tent, t1) /\ SameBut(d, pn, n1) /\ SameBut(d, pa, a1)
LEMMA ExceptIs ==
  ASSUME NEW a, NEW d \in DOMAIN a, NEW v, NEW b, b = [a EXCEPT ![d] = v]
  PROVE  b[d] = v /\ SameBut(d, a, b)
BY DEF SameBut

(* A step on one side keeps the shape of the state.                         *)
LEMMA ShapesStay ==
  ASSUME NEW nodes, NEW qu, NEW fl, NEW tent, NEW pn, NEW pa, Shaped(nodes, qu, fl, tent, pn, pa),
         NEW d \in Dirs, NEW q1, NEW f1, NEW t1, NEW n1, NEW a1,
         OtherSideStays(d, qu, fl, tent, pn, pa, q1, f1, t1, n1, a1),
         DOMAIN t1[d] = nodes, DOMAIN n1[d] = nodes, DOMAIN a1[d] = nodes
  PROVE  Shaped(nodes, q1, f1, t1, n1, a1)
<1>1. DOMAIN q1 = Dirs /\ DOMAIN f1 = Dirs /\ DOMAIN t1 = Dirs /\ DOMAIN n1 = Dirs /\ DOMAIN a1 = Dirs
  BY DEF Shaped, OtherSideStays, SameBut
<1>2. ASSUME NEW o \in Dirs PROVE DOMAIN t1[o] = nodes /\ DOMAIN n1[o] = nodes /\ DOMAIN a1[o] = nodes
  BY DEF Shaped, OtherSideStays, SameBut
<1> QED BY <1>1, <1>2 DEF Shaped

(* What forward_expand_upward_ch_arcs_of_node changes, in the terms of the  *)
(* search.                                                                  *)
LEMMA Expands ==
  ASSUME QueryTypes, NEW d \in Dirs, NEW x, NEW key, ExpandUpward(d, x, key),
         flag[d] \subseteq Nodes, \A p \in DOMAIN ArcWeights(ch, d) : p[2] \in Nodes
  PROVE  /\ IsEased(ArcWeights(ch, d), flag[d], dist[d], x, key, Relaxed(d, x, key))
         /\ IsExpanded(ArcWeights(ch, d), x, key, Relaxed(d, x, key), q[d], flag[d], dist[d], pnode[d], parc[d],
                       q'[d], flag'[d], dist'[d], pnode'[d], parc'[d])
         /\ OtherSideStays(d, q, flag, dist, pnode, parc, q', flag', dist', pnode', parc')
         /\ Shaped(Nodes, q', flag', dist', pnode', parc')
<1>1. PICK rel : rel = Relaxed(d, x, key)
  OBVIOUS
<1>2. PICK up : up = ArcWeights(ch, d)
  OBVIOUS
<1>3. \A h : <<x, h>> \in DOMAIN up => h \in Nodes
  BY <1>2
<1>4. DOMAIN up = DOMAIN ch.side[d] /\ \A p \in DOMAIN up : up[p] = ch.side[d][p].weight
  BY <1>2 DEF ArcWeights
<1>5. IsEased(up, flag[d], dist[d], x, key, rel)
  BY <1>1, <1>3, <1>4 DEF IsEased, Relaxed, Heads
<1>6. \A h \in rel : <<x, h>> \in DOMAIN up /\ h \in Nodes
  BY <1>3, <1>5 DEF IsEased
<1>7. PICK new : new = [h \in rel |-> key + ch.side[d][<<x, h>>].weight]
  OBVIOUS
<1>8. DOMAIN new = rel /\ \A h \in rel : new[h] = key + up[<<x, h>>]
  BY <1>4, <1>6, <1>7
<1>9. Shaped(Nodes, q, flag, dist, pnode, parc)
  BY DEF QueryTypes
<1>10. /\ q'[d] = Overlaid(new, Restrict(q[d], DOMAIN q[d] \ {x})) /\ SameBut(d, q, q')
       /\ dist'[d] = Overlaid(new, dist[d]) /\ SameBut(d, dist, dist')
       /\ flag'[d] = flag[d] \cup rel /\ SameBut(d, flag, flag')
       /\ pnode'[d] = Overlaid([h \in rel |-> x], pnode[d]) /\ SameBut(d, pnode, pnode')
       /\ parc'[d] = Overlaid([h \in rel |-> <<x, h>>], parc[d]) /\ SameBut(d, parc, parc')
  <2>1. /\ q' = [q EXCEPT ![d] = Overlaid(new, Restrict(q[d], DOMAIN q[d] \ {x}))]
        /\ dist' = [dist EXCEPT ![d] = Overlaid(new, dist[d])]
        /\ flag' = [flag EXCEPT ![d] = flag[d] \cup rel]
        /\ pnode' = [pnode EXCEPT ![d] = Overlaid([h \in rel |-> x], pnode[d])]
        /\ parc' = [parc EXCEPT ![d] = Overlaid([h \in rel |-> <<x, h>>], parc[d])]
    BY <1>1, <1>7 DEF ExpandUpward
  <2>2. d \in DOMAIN q /\ d \in DOMAIN dist /\ d \in DOMAIN flag /\ d \in DOMAIN pnode /\ d \in DOMAIN parc
    BY <1>9 DEF Shaped
  <2> QED BY <2>1, <2>2, ExceptIs
<1>11. OtherSideStays(d, q, flag, dist, pnode, parc, q', flag', dist', pnode', parc')
  BY <1>10 DEF OtherSideStays
<1>12. PICK t1, n1, a1, q0, q1 :
         /\ t1 = Overlaid(new, dist[d]) /\ n1 = Overlaid([h \in rel |-> x], pnode[d])
         /\ a1 = Overlaid([h \in rel |-> <<x, h>>], parc[d])
         /\ q0 = Restrict(q[d], DOMAIN q[d] \ {x}) /\ q1 = Overlaid(new, q0)
  OBVIOUS
<1>13. DOMAIN q0 = DOMAIN q[d] \ {x} /\ \A v \in DOMAIN q0 : q0[v] = q[d][v]
  BY <1>12 DEF Restrict
<1>14. DOMAIN q1 = rel \cup (DOMAIN q[d] \ {x}) /\ (\A v \in rel : q1[v] = new[v])
       /\ \A v \in DOMAIN q[d] \ {x} : v \notin rel => q1[v] = q[d][v]
  <2>1. OverlaidBy(new, q0, q1)
    BY <1>12, OverlaidIs
  <2> QED BY <1>8, <1>13, <2>1 DEF OverlaidBy
<1>15. DOMAIN dist[d] = Nodes /\ DOMAIN pnode[d] = Nodes /\ DOMAIN parc[d] = Nodes
  BY <1>9 DEF Shaped
<1>16. DOMAIN t1 = Nodes /\ (\A v \in rel : t1[v] = new[v]) /\ \A v \in Nodes : v \notin rel => t1[v] = dist[d][v]
  <2>1. OverlaidBy(new, dist[d], t1)
    BY <1>12, OverlaidIs
  <2> QED BY <1>6, <1>8, <1>15, <2>1 DEF OverlaidBy
<1>17. DOMAIN n1 = Nodes /\ (\A v \in rel : n1[v] = x) /\ \A v \in Nodes : v \notin rel => n1[v] = pnode[d][v]
  BY <1>6, <1>12, <1>15 DEF Overlaid
<1>18. DOMAIN a1 = Nodes /\ (\A v \in rel : a1[v] = <<x, v>>) /\ \A v \in Nodes : v \notin rel => a1[v] = parc[d][v]
  BY <1>6, <1>12, <1>15 DEF Overlaid
<1>19. q'[d] = q1 /\ dist'[d] = t1 /\ pnode'[d] = n1 /\ parc'[d] = a1 /\ flag'[d] = flag[d] \cup rel
  BY <1>10, <1>12
<1>20. IsExpanded(up, x, key, rel, q[d], flag[d], dist[d], pnode[d], parc[d], q1, flag[d] \cup rel, t1, n1, a1)
  BY <1>8, <1>14, <1>16, <1>17, <1>18 DEF IsExpanded
<1>21. Shaped(Nodes, q', flag', dist', pnode', parc')
  BY <1>9, <1>11, <1>16, <1>17, <1>18, <1>19, ShapesStay
<1> QED BY <1>1, <1>2, <1>5, <1>11, <1>19, <1>20, <1>21

(* The levels of a hierarchy do not change while it is queried.             *)
LEMMA LevelsStay ==
  ASSUME input' = input, NEW nodes, NEW h, NEW clean, NEW D, NEW level
  PROVE  IsLevels(nodes, h, clean, D, level)' <=> IsLevels(nodes, h, clean, D, level)
<1>1. InputArcId' = InputArcId
  BY InputAloneStays
<1>2. \A a, e : UnpacksTo(h, clean, a, e)' <=> UnpacksTo(h, clean, a, e)
  BY <1>1 DEF UnpacksTo
<1>3. UpwardIs(nodes, h, clean, D, level)' <=> UpwardIs(nodes, h, clean, D, level)
  BY <1>2 DEF UpwardIs, Named
<1>4. HopsUp(nodes, h, D, level)' <=> HopsUp(nodes, h, D, level)
  BY DEF HopsUp, Named
<1> QED BY <1>3, <1>4 DEF IsLevels

(* The primed invariants in terms of the unprimed hierarchy.                 *)
LEMMA QueryTermsNext ==
  ASSUME UNCHANGED buildVars
  PROVE  /\ \A d : LiveSide(d)' <=> IsLiveAt(Nodes, ch, CleanGraph, TrueDistance, d, asked'.src[d],
                                             q'[d], flag'[d], dist'[d], pnode'[d], parc'[d])
         /\ \A d : FreshSide(d)' <=> IsFresh(Starts(ch, asked'.src[d]), q'[d], flag'[d], dist'[d], pnode'[d])
         /\ Joined' <=> IsJoined(q', flag', dist', len', meet')
         /\ \A p : PinsOK(p)' <=> ArePins(Nodes, ch, p, asked'.pins, pnode'[p], count', dist'[p], meet')
         /\ \A d : SweptOK(d)' <=> IsSweptAt(Nodes, ch, TrueDistance, d, asked'.src[d], dist'[Opposite(d)], meet',
                                               flag'[d], dist'[d], pnode'[d], parc'[d])
         /\ QueryTypes' <=> Shaped(Nodes, q', flag', dist', pnode', parc') /\ AskedIs(Nodes, asked')
<1>1. input' = input /\ ch' = ch
  BY DEF buildVars
<1>2. Nodes' = Nodes /\ CleanGraph' = CleanGraph /\ TrueDistance' = TrueDistance
  BY <1>1, InputAloneStays
<1>3. \A d : LiveSide(d)' <=> IsLiveAt(Nodes, ch, CleanGraph, TrueDistance, d, asked'.src[d],
                                       q'[d], flag'[d], dist'[d], pnode'[d], parc'[d])
  <2> PICK nodes : nodes = Nodes
    OBVIOUS
  <2> PICK h : h = ch
    OBVIOUS
  <2> PICK clean : clean = CleanGraph
    OBVIOUS
  <2> PICK D : D = TrueDistance
    OBVIOUS
  <2>1. h = ch' /\ nodes = Nodes' /\ clean = CleanGraph' /\ D = TrueDistance'
    BY <1>1, <1>2
  <2>2. \A d, src, qu, fl, tent, pn, pa :
          IsLiveAt(nodes, h, clean, D, d, src, qu, fl, tent, pn, pa)' <=>
          IsLiveAt(nodes, h, clean, D, d, src, qu, fl, tent, pn, pa)
    <3>1. \A level : IsLevels(nodes, h, clean, D, level)' <=> IsLevels(nodes, h, clean, D, level)
      BY <1>1, LevelsStay
    <3> QED BY <3>1 DEF IsLiveAt
  <2> QED BY <2>1, <2>2 DEF LiveSide
<1>4. \A d : FreshSide(d)' <=> IsFresh(Starts(ch, asked'.src[d]), q'[d], flag'[d], dist'[d], pnode'[d])
  BY <1>1 DEF FreshSide
<1>5. \A p : PinsOK(p)' <=> ArePins(Nodes, ch, p, asked'.pins, pnode'[p], count', dist'[p], meet')
  BY <1>1, <1>2 DEF PinsOK
<1>6. \A d : SweptOK(d)' <=> IsSweptAt(Nodes, ch, TrueDistance, d, asked'.src[d], dist'[Opposite(d)], meet',
                                               flag'[d], dist'[d], pnode'[d], parc'[d])
  BY <1>1, <1>2 DEF SweptOK
<1>7. QueryTypes' <=> Shaped(Nodes, q', flag', dist', pnode', parc') /\ AskedIs(Nodes, asked')
  BY <1>2 DEF QueryTypes
<1>8. Joined' <=> IsJoined(q', flag', dist', len', meet')
  BY DEF Joined
<1> QED BY <1>3, <1>4, <1>5, <1>6, <1>7, <1>8

-----------------------------------------------------------------------------
(* What there is to show in each state.                                      *)
LEMMA InFresh == ASSUME st' = "initialized", \A d \in Dirs : FreshSide(d)' PROVE QueryOK'
BY DEF QueryOK, PinnedState, SearchState, RunState, Opposite, Dirs
(* In each state of the object one part of the invariant speaks.            *)
LEMMA InRunning == ASSUME st' = "running", LiveSide("f")', LiveSide("b")', Joined' PROVE QueryOK'
BY DEF QueryOK, PinnedState, SearchState, RunState, Opposite, Dirs
LEMMA InRun ==
  ASSUME st' = "run", LiveSide("f")', LiveSide("b")', Joined', Finished("f")', Finished("b")' PROVE QueryOK'
BY DEF QueryOK, PinnedState, SearchState, RunState, Opposite, Dirs
LEMMA InPinned ==
  ASSUME NEW d \in Dirs, st' = PinnedState(Opposite(d)), FreshSide(d)', PinsOK(Opposite(d))' PROVE QueryOK'
<1> SUFFICES ASSUME NEW o \in Dirs, st' = PinnedState(Opposite(o)) PROVE o = d
  BY DEF QueryOK, PinnedState, SearchState, RunState, Opposite, Dirs
<1> QED BY DEF PinnedState, Opposite, Dirs
LEMMA InSearch ==
  ASSUME NEW d \in Dirs, st' = SearchState(Opposite(d)), LiveSide(d)', PinsOK(Opposite(d))' PROVE QueryOK'
<1> SUFFICES ASSUME NEW o \in Dirs, st' = SearchState(Opposite(o)) PROVE o = d
  BY DEF QueryOK, PinnedState, SearchState, RunState, Opposite, Dirs
<1> QED BY DEF SearchState, Opposite, Dirs
LEMMA InPinnedRun ==
  ASSUME NEW d \in Dirs, st' = RunState(Opposite(d)), SweptOK(d)', PinsOK(Opposite(d))' PROVE QueryOK'
<1> SUFFICES ASSUME NEW o \in Dirs, st' = RunState(Opposite(o)) PROVE o = d
  BY DEF QueryOK, PinnedState, SearchState, RunState, Opposite, Dirs
<1> QED BY DEF RunState, Opposite, Dirs

(* Adding a source, or the same one again with another distance.             *)
Adds(h, src, qu, tent, pn, node, d0, x, q1, t1, n1, s1) ==
  LET better == x \notin DOMAIN qu \/ d0 < tent[x] IN
  /\ x = h.rank[node]
  /\ q1 = IF better THEN Overlaid(Just(x, d0), qu) ELSE qu
  /\ t1 = IF better THEN [tent EXCEPT ![x] = d0] ELSE tent
  /\ n1 = IF x \notin DOMAIN qu THEN [pn EXCEPT ![x] = NoId] ELSE pn
  /\ s1 = Overlaid(Just(node, IF node \in DOMAIN src THEN Least(src[node], d0) ELSE d0), src)
Sized(nodes, tent, pn) == DOMAIN tent = nodes /\ DOMAIN pn = nodes
LEMMA AddKeepsFresh ==
  ASSUME NEW nodes, NEW h, OrderOf(nodes, h), NEW src, SourcesAre(nodes, src),
         NEW qu, NEW fl, NEW tent, NEW pn, IsFresh(Starts(h, src), qu, fl, tent, pn),
         Sized(nodes, tent, pn),
         NEW node \in nodes, NEW d0 \in Nat, d0 <= Inf, NEW x, NEW q1, NEW t1, NEW n1, NEW s1,
         Adds(h, src, qu, tent, pn, node, d0, x, q1, t1, n1, s1)
  PROVE  /\ IsFresh(Starts(h, s1), q1, fl \cup {x}, t1, n1) /\ SourcesAre(nodes, s1)
         /\ Sized(nodes, t1, n1)
<1>a. PICK better \in BOOLEAN : better <=> (x \notin DOMAIN qu \/ d0 < tent[x])
  <2>1. (x \notin DOMAIN qu \/ d0 < tent[x]) \in BOOLEAN
    OBVIOUS
  <2> QED BY <2>1
<1>0. /\ x = h.rank[node]
      /\ q1 = IF better THEN Overlaid(Just(x, d0), qu) ELSE qu
      /\ t1 = IF better THEN [tent EXCEPT ![x] = d0] ELSE tent
      /\ n1 = IF x \notin DOMAIN qu THEN [pn EXCEPT ![x] = NoId] ELSE pn
      /\ s1 = Overlaid(Just(node, IF node \in DOMAIN src THEN Least(src[node], d0) ELSE d0), src)
  BY <1>a DEF Adds
<1>1. x \in nodes /\ h.order[x + 1] = node
  BY <1>0 DEF OrderOf
<1>2. PICK v : v = IF node \in DOMAIN src THEN Least(src[node], d0) ELSE d0
  OBVIOUS
<1>3. v \in Nat /\ v <= Inf
  BY <1>2 DEF SourcesAre, Least
<1>4. /\ DOMAIN s1 = DOMAIN src \cup {node} /\ s1[node] = v
      /\ \A s \in DOMAIN src : s # node => s1[s] = src[s]
  BY <1>0, <1>2 DEF Overlaid, Just
<1>5. SourcesAre(nodes, s1)
  BY <1>3, <1>4 DEF SourcesAre
<1>6. PICK S, T : S = Starts(h, src) /\ T = Starts(h, s1)
  OBVIOUS
<1>7. /\ \A y : y \in DOMAIN S <=> y \in nodes /\ h.order[y + 1] \in DOMAIN src
      /\ \A y \in DOMAIN S : S[y] = src[h.order[y + 1]]
  BY <1>6, StartsAre
<1>8. /\ \A y : y \in DOMAIN T <=> y \in nodes /\ h.order[y + 1] \in DOMAIN s1
      /\ \A y \in DOMAIN T : T[y] = s1[h.order[y + 1]]
  BY <1>5, <1>6, StartsAre
<1>9. \A y \in nodes : h.order[y + 1] = node => y = x
  BY <1>1 DEF OrderOf
<1>10. /\ \A y : y \in DOMAIN T <=> y \in DOMAIN S \/ y = x
       /\ T[x] = v /\ \A y \in DOMAIN S : y # x => T[y] = S[y]
  BY <1>1, <1>4, <1>7, <1>8, <1>9
<1>11. x \in DOMAIN S <=> node \in DOMAIN src
  BY <1>1, <1>7
<1>12. IsFresh(S, qu, fl, tent, pn)
  BY <1>6
<1>13. Sized(nodes, t1, n1)
  BY <1>0 DEF Sized
<1>14. \A y \in nodes : y # x => t1[y] = tent[y] /\ n1[y] = pn[y]
  BY <1>0 DEF Sized
<1>15. \A y : y \in DOMAIN q1 <=> y \in DOMAIN qu \/ y = x
  BY <1>0, <1>a DEF Overlaid, Just
<1>16. \A y \in DOMAIN qu : y # x => q1[y] = qu[y]
  BY <1>0 DEF Overlaid, Just
<1>17. q1[x] = v /\ t1[x] = v /\ n1[x] = NoId
  <2>1. CASE x \notin DOMAIN qu
    <3>1. better /\ node \notin DOMAIN src
      BY <1>a, <1>11, <1>12, <2>1 DEF IsFresh
    <3>2. v = d0
      BY <1>2, <3>1
    <3>3. q1[x] = d0 /\ t1[x] = d0 /\ n1[x] = NoId
      BY <1>0, <1>1, <2>1, <3>1 DEF Sized, Overlaid, Just
    <3> QED BY <3>2, <3>3
  <2>2. CASE x \in DOMAIN qu
    <3>1. x \in DOMAIN S /\ node \in DOMAIN src /\ qu[x] = S[x] /\ tent[x] = S[x] /\ pn[x] = NoId
      BY <1>11, <1>12, <2>2 DEF IsFresh
    <3>2. S[x] = src[node] /\ src[node] \in Nat
      BY <1>1, <1>7, <3>1 DEF SourcesAre
    <3>3. CASE better
      <4>1. d0 < tent[x] /\ v = d0
        <5>1. d0 < tent[x]
          BY <1>a, <2>2, <3>3
        <5> QED BY <1>2, <3>1, <3>2, <5>1 DEF Least
      <4>2. q1[x] = d0 /\ t1[x] = d0 /\ n1[x] = pn[x]
        BY <1>0, <1>1, <2>2, <3>3 DEF Sized, Overlaid, Just
      <4> QED BY <3>1, <4>1, <4>2
    <3>4. CASE ~better
      <4>1. ~(d0 < tent[x])
        BY <1>a, <2>2, <3>4
      <4>2. v = src[node]
        BY <1>2, <3>1, <3>2, <4>1 DEF Least
      <4> QED BY <1>0, <2>2, <3>1, <3>2, <3>4, <4>2
    <3> QED BY <3>3, <3>4
  <2> QED BY <2>1, <2>2
<1>18. fl \cup {x} = DOMAIN T /\ DOMAIN q1 = DOMAIN T
  BY <1>10, <1>12, <1>15 DEF IsFresh
<1>19. \A y \in DOMAIN T : q1[y] = T[y] /\ t1[y] = T[y] /\ n1[y] = NoId
  <2> SUFFICES ASSUME NEW y \in DOMAIN T, y # x PROVE q1[y] = T[y] /\ t1[y] = T[y] /\ n1[y] = NoId
    BY <1>10, <1>17
  <2>1. y \in DOMAIN S /\ y \in nodes /\ T[y] = S[y]
    BY <1>7, <1>10
  <2>2. qu[y] = S[y] /\ tent[y] = S[y] /\ pn[y] = NoId /\ y \in DOMAIN qu
    BY <1>12, <2>1 DEF IsFresh
  <2> QED BY <1>14, <1>16, <2>1, <2>2
<1>20. IsFresh(T, q1, fl \cup {x}, t1, n1)
  BY <1>18, <1>19 DEF IsFresh
<1> QED BY <1>5, <1>6, <1>13, <1>20

-----------------------------------------------------------------------------
(* The other side, and the pinned lists, of a step that does not touch them. *)
FreshAt(o, h, what, qu, fl, tent, pn) == IsFresh(Starts(h, what.src[o]), qu[o], fl[o], tent[o], pn[o])
LEMMA FreshElsewhere ==
  ASSUME NEW d \in Dirs, NEW o \in Dirs, o # d, NEW h, NEW what, NEW w1, w1.src[o] = what.src[o],
         NEW qu, NEW fl, NEW tent, NEW pn, FreshAt(o, h, what, qu, fl, tent, pn),
         NEW q1, NEW f1, NEW t1, NEW n1,
         SameBut(d, qu, q1), SameBut(d, fl, f1), SameBut(d, tent, t1), SameBut(d, pn, n1)
  PROVE  FreshAt(o, h, w1, q1, f1, t1, n1)
BY DEF FreshAt, SameBut

AskedMore(d, node, d0) ==
  Overlaid(Just(node, IF node \in DOMAIN asked.src[d] THEN Least(asked.src[d][node], d0) ELSE d0), asked.src[d])
(* What add_source and add_target change.                                   *)
LEMMA AddChanges ==
  ASSUME QueryTypes, NEW d \in Dirs, NEW node, NEW d0, Add(d, node, d0), NEW x, x = ch.rank[node],
         NEW better \in BOOLEAN, better <=> (x \notin DOMAIN q[d] \/ d0 < dist[d][x])
  PROVE  /\ q'[d] = (IF better THEN Overlaid(Just(x, d0), q[d]) ELSE q[d]) /\ SameBut(d, q, q')
         /\ dist'[d] = (IF better THEN [dist[d] EXCEPT ![x] = d0] ELSE dist[d]) /\ SameBut(d, dist, dist')
         /\ pnode'[d] = (IF x \notin DOMAIN q[d] THEN [pnode[d] EXCEPT ![x] = NoId] ELSE pnode[d]) /\ SameBut(d, pnode, pnode')
         /\ flag'[d] = flag[d] \cup {x} /\ SameBut(d, flag, flag') /\ parc' = parc
         /\ asked'.src[d] = AskedMore(d, node, d0) /\ SameBut(d, asked.src, asked'.src) /\ asked'.pins = asked.pins
         /\ DOMAIN asked' = DOMAIN asked
<1>1. d \in DOMAIN q /\ d \in DOMAIN dist /\ d \in DOMAIN flag /\ d \in DOMAIN pnode /\ d \in DOMAIN asked.src
      /\ DOMAIN asked = {"src", "pins"}
  BY DEF QueryTypes, Shaped, AskedIs
<1>2. q'[d] = (IF better THEN Overlaid(Just(x, d0), q[d]) ELSE q[d]) /\ SameBut(d, q, q')
  <2>1. q' = IF better THEN [q EXCEPT ![d] = Overlaid(Just(x, d0), q[d])] ELSE q
    BY DEF Add
  <2>2. CASE better
    BY <1>1, <2>1, <2>2, ExceptIs
  <2>3. CASE ~better
    BY <1>1, <2>1, <2>3 DEF SameBut
  <2> QED BY <2>2, <2>3
<1>3. dist'[d] = (IF better THEN [dist[d] EXCEPT ![x] = d0] ELSE dist[d]) /\ SameBut(d, dist, dist')
  <2>1. dist' = IF better THEN [dist EXCEPT ![d] = [dist[d] EXCEPT ![x] = d0]] ELSE dist
    BY DEF Add
  <2>2. CASE better
    BY <1>1, <2>1, <2>2, ExceptIs
  <2>3. CASE ~better
    BY <1>1, <2>1, <2>3 DEF SameBut
  <2> QED BY <2>2, <2>3
<1>4. pnode'[d] = (IF x \notin DOMAIN q[d] THEN [pnode[d] EXCEPT ![x] = NoId] ELSE pnode[d]) /\ SameBut(d, pnode, pnode')
  <2>1. pnode' = IF x \notin DOMAIN q[d] THEN [pnode EXCEPT ![d] = [pnode[d] EXCEPT ![x] = NoId]] ELSE pnode
    BY DEF Add
  <2>2. CASE x \notin DOMAIN q[d]
    BY <1>1, <2>1, <2>2, ExceptIs
  <2>3. CASE x \in DOMAIN q[d]
    BY <1>1, <2>1, <2>3 DEF SameBut
  <2> QED BY <2>2, <2>3
<1>5. flag'[d] = flag[d] \cup {x} /\ SameBut(d, flag, flag')
  <2>1. flag' = [flag EXCEPT ![d] = flag[d] \cup {x}]
    BY DEF Add
  <2> QED BY <1>1, <2>1, ExceptIs
<1>6. /\ asked'.src[d] = AskedMore(d, node, d0) /\ SameBut(d, asked.src, asked'.src) /\ asked'.pins = asked.pins
      /\ DOMAIN asked' = DOMAIN asked
  <2>1. asked' = [asked EXCEPT !.src = [asked.src EXCEPT ![d] = AskedMore(d, node, d0)]]
    BY DEF Add, AskedMore
  <2>2. asked'.src = [asked.src EXCEPT ![d] = AskedMore(d, node, d0)] /\ asked'.pins = asked.pins /\ DOMAIN asked' = DOMAIN asked
    BY <1>1, <2>1
  <2> QED BY <1>1, <2>2, ExceptIs
<1>7. parc' = parc
  BY DEF Add
<1> QED BY <1>2, <1>3, <1>4, <1>5, <1>6, <1>7

(* What was asked stays well-formed when one side of it changes.            *)
LEMMA AskedStays ==
  ASSUME NEW nodes, NEW what, NEW d \in Dirs, NEW w1, AskedIs(nodes, what), DOMAIN w1 = DOMAIN what,
         SameBut(d, what.src, w1.src), SourcesAre(nodes, w1.src[d])
  PROVE  AskedIs(nodes, w1)
<1>1. \A o \in Dirs : SourcesAre(nodes, w1.src[o])
  BY DEF AskedIs, SameBut
<1> QED BY <1>1 DEF AskedIs, SameBut

(* Adding keeps the invariant of the query.                                 *)
LEMMA AddOK ==
  ASSUME HInv, IInv, QInv, pc = "built", UNCHANGED buildVars,
         NEW d \in Dirs, NEW node \in Nodes, NEW d0 \in StartDistances[input.n], Add(d, node, d0)
  PROVE  QueryTypes' /\ QueryOK'
<1>1. QueryTypes /\ QueryOK
  BY DEF QInv
<1>2. Given(Nodes, ch, CleanGraph, TrueDistance, d, asked.src[d])
  BY <1>1, SideIsGiven
<1>3. d0 \in Nat /\ d0 <= Inf
  BY CallsAssumption, InfAssumption DEF IInv, GraphOK
<1>4. PICK x : x = ch.rank[node]
  OBVIOUS
<1>5. PICK better \in BOOLEAN : better <=> (x \notin DOMAIN q[d] \/ d0 < dist[d][x])
  <2>1. (x \notin DOMAIN q[d] \/ d0 < dist[d][x]) \in BOOLEAN
    OBVIOUS
  <2> QED BY <2>1
<1>6. /\ q'[d] = (IF better THEN Overlaid(Just(x, d0), q[d]) ELSE q[d]) /\ SameBut(d, q, q')
      /\ dist'[d] = (IF better THEN [dist[d] EXCEPT ![x] = d0] ELSE dist[d]) /\ SameBut(d, dist, dist')
      /\ pnode'[d] = (IF x \notin DOMAIN q[d] THEN [pnode[d] EXCEPT ![x] = NoId] ELSE pnode[d]) /\ SameBut(d, pnode, pnode')
      /\ flag'[d] = flag[d] \cup {x} /\ SameBut(d, flag, flag') /\ parc' = parc
      /\ asked'.src[d] = AskedMore(d, node, d0) /\ SameBut(d, asked.src, asked'.src) /\ asked'.pins = asked.pins
      /\ DOMAIN asked' = DOMAIN asked
  BY <1>1, <1>4, <1>5, AddChanges
<1>7. st \in {"initialized", PinnedState(Opposite(d))} /\ st' = st /\ meet' = meet /\ count' = count
  BY DEF Add
<1>8. IsFresh(Starts(ch, asked.src[d]), q[d], flag[d], dist[d], pnode[d])
  BY <1>1, <1>7 DEF QueryOK, FreshSide
<1>9. /\ IsFresh(Starts(ch, asked'.src[d]), q'[d], flag'[d], dist'[d], pnode'[d]) /\ SourcesAre(Nodes, asked'.src[d])
      /\ DOMAIN dist'[d] = Nodes /\ DOMAIN pnode'[d] = Nodes
  <2>1. Sized(Nodes, dist[d], pnode[d])
    BY <1>1 DEF QueryTypes, Shaped, Sized
  <2>2. OrderOf(Nodes, ch) /\ SourcesAre(Nodes, asked.src[d])
    BY <1>2 DEF Given
  <2>3. PICK q1, t1, n1, s1 :
          /\ q1 = IF better THEN Overlaid(Just(x, d0), q[d]) ELSE q[d]
          /\ t1 = IF better THEN [dist[d] EXCEPT ![x] = d0] ELSE dist[d]
          /\ n1 = IF x \notin DOMAIN q[d] THEN [pnode[d] EXCEPT ![x] = NoId] ELSE pnode[d]
          /\ s1 = AskedMore(d, node, d0)
    OBVIOUS
  <2>4. IsFresh(Starts(ch, s1), q1, flag[d] \cup {x}, t1, n1) /\ SourcesAre(Nodes, s1) /\ Sized(Nodes, t1, n1)
    <3>1. Adds(ch, asked.src[d], q[d], dist[d], pnode[d], node, d0, x, q1, t1, n1, s1)
      BY <1>4, <1>5, <2>3 DEF Adds, AskedMore
    <3> QED BY <1>3, <1>8, <2>1, <2>2, <3>1, AddKeepsFresh
  <2> QED BY <1>6, <2>3, <2>4 DEF Sized
<1>10. Shaped(Nodes, q', flag', dist', pnode', parc')
  <2>1. Shaped(Nodes, q, flag, dist, pnode, parc)
    BY <1>1 DEF QueryTypes
  <2>2. OtherSideStays(d, q, flag, dist, pnode, parc, q', flag', dist', pnode', parc')
    BY <1>6 DEF OtherSideStays, SameBut
  <2>3. DOMAIN parc'[d] = Nodes
    BY <1>6, <2>1 DEF Shaped
  <2> QED BY <1>9, <2>1, <2>2, <2>3, ShapesStay
<1>11. AskedIs(Nodes, asked')
  BY <1>1, <1>6, <1>9, AskedStays DEF QueryTypes
<1>12. QueryTypes'
  BY <1>10, <1>11, QueryTermsNext
<1>13. FreshSide(d)'
  BY <1>9, QueryTermsNext
<1>14. CASE st = "initialized"
  <2>1. ASSUME NEW o \in Dirs, o # d PROVE FreshSide(o)'
    <3>1. FreshAt(o, ch, asked, q, flag, dist, pnode)
      BY <1>1, <1>14 DEF QueryOK, FreshSide, FreshAt
    <3>2. asked'.src[o] = asked.src[o]
      BY <1>6, <2>1 DEF SameBut
    <3>3. FreshAt(o, ch, asked', q', flag', dist', pnode')
      BY <1>6, <2>1, <3>1, <3>2, FreshElsewhere
    <3> QED BY <3>3, QueryTermsNext DEF FreshAt
  <2> QED BY <1>7, <1>12, <1>13, <1>14, <2>1, InFresh
<1>15. CASE st = PinnedState(Opposite(d))
  <2>1. Opposite(d) \in Dirs /\ Opposite(d) # d
    BY DEF Opposite, Dirs
  <2>2. PinsOK(Opposite(d))
    BY <1>1, <1>15 DEF QueryOK
  <2>3. pnode'[Opposite(d)] = pnode[Opposite(d)] /\ dist'[Opposite(d)] = dist[Opposite(d)]
    BY <1>6, <2>1 DEF SameBut
  <2>4. PinsOK(Opposite(d))'
    BY <1>6, <1>7, <2>2, <2>3, QueryTermsNext DEF PinsOK
  <2> QED BY <1>7, <1>12, <1>13, <1>15, <2>4, InPinned
<1> QED BY <1>7, <1>14, <1>15

-----------------------------------------------------------------------------
(* The resets: a side with nothing added is fresh whatever its arrays hold.  *)
LEMMA NothingIsFresh ==
  ASSUME NEW h, NEW tent, NEW pn PROVE IsFresh(Starts(h, NoFn), NoFn, {}, tent, pn)
<1>1. DOMAIN Starts(h, NoFn) = {} /\ DOMAIN NoFn = {}
  BY DEF Starts, NoFn
<1> QED BY <1>1 DEF IsFresh
(* Resetting forgets all that was asked and leaves both sides, or the free  *)
(* one, fresh.                                                              *)
LEMMA NothingIsAsked ==
  ASSUME NEW nodes
  PROVE  /\ SourcesAre(nodes, NoFn) /\ AskedIs(nodes, NotAsked)
         /\ DOMAIN NotAsked = {"src", "pins"} /\ DOMAIN NotAsked.src = Dirs /\ \A d \in Dirs : NotAsked.src[d] = NoFn
<1>1. SourcesAre(nodes, NoFn)
  BY DEF SourcesAre, NoFn
<1>2. DOMAIN NotAsked = {"src", "pins"} /\ DOMAIN NotAsked.src = Dirs /\ \A d \in Dirs : NotAsked.src[d] = NoFn
  BY DEF NotAsked
<1> QED BY <1>1, <1>2 DEF AskedIs

LEMMA ResetOK ==
  ASSUME QInv, pc = "built", UNCHANGED buildVars, Reset PROVE QueryTypes' /\ QueryOK'
<1>1. QueryTypes
  BY DEF QInv
<1>2. /\ q' = BothSides(NoFn) /\ flag' = BothSides({}) /\ st' = "initialized" /\ asked' = NotAsked
      /\ dist' = dist /\ pnode' = pnode /\ parc' = parc
  BY DEF Reset
<1>3. \A d \in Dirs : q'[d] = NoFn /\ flag'[d] = {} /\ asked'.src[d] = NoFn
  BY <1>2, NothingIsAsked DEF BothSides
<1>4. DOMAIN q' = Dirs /\ DOMAIN flag' = Dirs
  BY <1>2 DEF BothSides
<1>5. Shaped(Nodes, q', flag', dist', pnode', parc')
  BY <1>1, <1>2, <1>4 DEF QueryTypes, Shaped
<1>6. AskedIs(Nodes, asked')
  BY <1>2, NothingIsAsked
<1>7. QueryTypes'
  BY <1>5, <1>6, QueryTermsNext
<1>8. ASSUME NEW d \in Dirs PROVE FreshSide(d)'
  <2>1. IsFresh(Starts(ch, NoFn), NoFn, {}, dist'[d], pnode'[d])
    BY NothingIsFresh
  <2> QED BY <1>3, <2>1, QueryTermsNext
<1> QED BY <1>2, <1>7, <1>8, InFresh

LEMMA ResetOneOK ==
  ASSUME QInv, pc = "built", UNCHANGED buildVars, NEW d \in Dirs, ResetOne(d) PROVE QueryTypes' /\ QueryOK'
<1>1. QueryTypes /\ QueryOK
  BY DEF QInv
<1>2. /\ st \in {PinnedState(Opposite(d)), RunState(Opposite(d))} /\ st' = PinnedState(Opposite(d))
      /\ dist' = dist /\ pnode' = pnode /\ parc' = parc /\ meet' = meet /\ count' = count
  BY DEF ResetOne
<1>3. /\ q'[d] = NoFn /\ SameBut(d, q, q') /\ flag'[d] = {} /\ SameBut(d, flag, flag')
      /\ asked'.src[d] = NoFn /\ SameBut(d, asked.src, asked'.src) /\ asked'.pins = asked.pins /\ DOMAIN asked' = DOMAIN asked
  <2>1. d \in DOMAIN q /\ d \in DOMAIN flag /\ d \in DOMAIN asked.src /\ DOMAIN asked = {"src", "pins"}
    BY <1>1 DEF QueryTypes, Shaped, AskedIs
  <2>2. q' = [q EXCEPT ![d] = NoFn] /\ flag' = [flag EXCEPT ![d] = {}]
        /\ asked' = [asked EXCEPT !.src = [asked.src EXCEPT ![d] = NoFn]]
    BY DEF ResetOne
  <2>3. asked'.src = [asked.src EXCEPT ![d] = NoFn] /\ asked'.pins = asked.pins /\ DOMAIN asked' = DOMAIN asked
    BY <2>1, <2>2
  <2> QED BY <2>1, <2>2, <2>3, ExceptIs
<1>4. Shaped(Nodes, q', flag', dist', pnode', parc')
  BY <1>1, <1>2, <1>3 DEF QueryTypes, Shaped, SameBut
<1>5. AskedIs(Nodes, asked')
  BY <1>1, <1>3, NothingIsAsked, AskedStays DEF QueryTypes
<1>6. QueryTypes'
  BY <1>4, <1>5, QueryTermsNext
<1>7. FreshSide(d)'
  <2>1. IsFresh(Starts(ch, NoFn), NoFn, {}, dist'[d], pnode'[d])
    BY NothingIsFresh
  <2> QED BY <1>3, <2>1, QueryTermsNext
<1>8. PinsOK(Opposite(d))'
  <2>1. PinsOK(Opposite(d))
    BY <1>1, <1>2 DEF QueryOK
  <2> QED BY <1>2, <1>3, <2>1, QueryTermsNext DEF PinsOK
<1> QED BY <1>2, <1>6, <1>7, <1>8, InPinned

(* What does not change.                                                     *)
LEMMA AllElseStays ==
  ASSUME UNCHANGED buildVars, UNCHANGED <<q, dist, flag, pnode, parc, asked>>
  PROVE  /\ QueryTypes => QueryTypes'
         /\ \A d : LiveSide(d)' <=> LiveSide(d)
         /\ \A d : FreshSide(d)' <=> FreshSide(d)
         /\ meet' = meet /\ count' = count => \A p : PinsOK(p)' <=> PinsOK(p)
         /\ meet' = meet /\ len' = len => (Joined' <=> Joined)
<1>1. QueryTypes => QueryTypes'
  BY QueryTermsNext DEF QueryTypes
<1>2. \A d : LiveSide(d)' <=> LiveSide(d)
  BY QueryTermsNext DEF LiveSide
<1>3. \A d : FreshSide(d)' <=> FreshSide(d)
  BY QueryTermsNext DEF FreshSide
<1>4. meet' = meet /\ count' = count => \A p : PinsOK(p)' <=> PinsOK(p)
  BY QueryTermsNext DEF PinsOK
<1>5. meet' = meet /\ len' = len => (Joined' <=> Joined)
  BY QueryTermsNext DEF Joined
<1> QED BY <1>1, <1>2, <1>3, <1>4, <1>5

(* Starting a run makes fresh sides live ones; the other steps between      *)
(* searches change no label.                                                *)
LEMMA FreshIsLiveSide ==
  ASSUME HInv, IInv, QueryTypes, pc = "built", NEW d \in Dirs, FreshSide(d) PROVE LiveSide(d)
<1>1. Given(Nodes, ch, CleanGraph, TrueDistance, d, asked.src[d])
  BY SideIsGiven
<1> QED BY <1>1, FreshSideIsLive DEF FreshSide, LiveSide

LEMMA StartRunOK ==
  ASSUME HInv, IInv, QInv, pc = "built", UNCHANGED buildVars, StartRun PROVE QueryTypes' /\ QueryOK'
<1>1. QueryTypes /\ QueryOK
  BY DEF QInv
<1>2. /\ st = "initialized" /\ st' = "running" /\ len' = Inf /\ meet' = NoId
      /\ UNCHANGED <<q, dist, flag, pnode, parc, asked>>
  BY DEF StartRun
<1>3. FreshSide("f") /\ FreshSide("b")
  BY <1>1, <1>2 DEF QueryOK, Dirs
<1>4. LiveSide("f") /\ LiveSide("b")
  BY <1>1, <1>3, FreshIsLiveSide DEF Dirs
<1>5. IsJoined(q, flag, dist, Inf, NoId)
  <2>1. \A x \in flag["f"] : x \in DOMAIN q["f"]
    BY <1>3 DEF FreshSide, IsFresh
  <2> QED BY <2>1, InfAssumption DEF IsJoined
<1>6. Joined'
  BY <1>2, <1>5, QueryTermsNext
<1> QED BY <1>1, <1>2, <1>4, <1>6, AllElseStays, InRunning

LEMMA EndRunOK ==
  ASSUME QInv, pc = "built", UNCHANGED buildVars, EndRun PROVE QueryTypes' /\ QueryOK'
<1>1. QueryTypes /\ QueryOK
  BY DEF QInv
<1>2. /\ st = "running" /\ Finished("f") /\ Finished("b") /\ st' = "run"
      /\ q' = q /\ len' = len /\ meet' = meet /\ UNCHANGED <<q, dist, flag, pnode, parc, asked>>
  BY DEF EndRun
<1>3. LiveSide("f") /\ LiveSide("b") /\ Joined
  BY <1>1, <1>2 DEF QueryOK
<1>4. Finished("f")' /\ Finished("b")'
  BY <1>2 DEF Finished
<1> QED BY <1>1, <1>2, <1>3, <1>4, AllElseStays, InRun

LEMMA StartPinnedRunOK ==
  ASSUME HInv, IInv, QInv, pc = "built", UNCHANGED buildVars, NEW d \in Dirs, StartPinnedRun(d)
  PROVE  QueryTypes' /\ QueryOK'
<1>1. QueryTypes /\ QueryOK
  BY DEF QInv
<1>2. /\ st = PinnedState(Opposite(d)) /\ st' = SearchState(Opposite(d))
      /\ meet' = meet /\ count' = count /\ UNCHANGED <<q, dist, flag, pnode, parc, asked>>
  BY DEF StartPinnedRun
<1>3. FreshSide(d) /\ PinsOK(Opposite(d))
  BY <1>1, <1>2 DEF QueryOK
<1>4. LiveSide(d)
  BY <1>1, <1>3, FreshIsLiveSide
<1> QED BY <1>1, <1>2, <1>3, <1>4, AllElseStays, InSearch

LEMMA ExtraDistancesOK ==
  ASSUME QInv, pc = "built", UNCHANGED buildVars, NEW d \in Dirs, ExtraDistances(d) PROVE QueryTypes' /\ QueryOK'
<1>1. QueryTypes /\ QueryOK
  BY DEF QInv
<1>2. /\ st = RunState(Opposite(d)) /\ st' = st /\ q' = q /\ dist' = dist /\ pnode' = pnode /\ meet' = meet /\ count' = count
      /\ asked' = asked
  BY DEF ExtraDistances
<1>3. DOMAIN flag' = DOMAIN flag /\ DOMAIN parc' = DOMAIN parc /\ \A o \in Dirs : DOMAIN parc'[o] = Nodes
  BY <1>1 DEF ExtraDistances, QueryTypes, Shaped
<1>4. QueryTypes'
  <2>1. Shaped(Nodes, q', flag', dist', pnode', parc')
    BY <1>1, <1>2, <1>3 DEF QueryTypes, Shaped
  <2> QED BY <1>1, <1>2, <2>1, QueryTermsNext DEF QueryTypes
<1>5. SweptOK(d) /\ PinsOK(Opposite(d))
  BY <1>1, <1>2 DEF QueryOK
<1>6. flag'[d] = flag[d] /\ parc'[d] = parc[d]
  <2>1. d # Opposite(d)
    BY DEF Opposite, Dirs
  <2> QED BY <1>1, <2>1 DEF ExtraDistances, QueryTypes, Shaped
<1>7. SweptOK(d)'
  BY <1>2, <1>5, <1>6, QueryTermsNext DEF SweptOK
<1>8. PinsOK(Opposite(d))'
  BY <1>2, <1>5, QueryTermsNext DEF PinsOK
<1> QED BY <1>2, <1>4, <1>7, <1>8, InPinnedRun

-----------------------------------------------------------------------------
(* Settling a node of side d: rel gets new labels and is queued.             *)
Moves(d, x, rel, qu, fl, tent, q1, f1, t1) ==
  /\ SameBut(d, qu, q1) /\ SameBut(d, fl, f1) /\ SameBut(d, tent, t1)
  /\ x \in DOMAIN qu[d] /\ x \in fl[d] /\ x \notin rel
  /\ DOMAIN q1[d] = rel \cup (DOMAIN qu[d] \ {x}) /\ f1[d] = fl[d] \cup rel
  /\ \A v \in f1[d] : t1[d][v] \in Nat
  /\ \A v \in fl[d] : t1[d][v] <= tent[d][v] /\ (v \notin rel => t1[d][v] = tent[d][v])
SumIs(d, x, fl, tent, ln, at, l1, m1) ==
  LET sum == tent[d][x] + tent[Opposite(d)][x]
      joins == x \in fl[Opposite(d)] /\ ln > sum
  IN  l1 = (IF joins THEN sum ELSE ln) /\ m1 = (IF joins THEN x ELSE at)
LEMMA JoinStep ==
  ASSUME NEW d \in Dirs, NEW qu, NEW fl, NEW tent, NEW ln, NEW at, IsJoined(qu, fl, tent, ln, at),
         \A o \in Dirs : \A v \in fl[o] : v # NoId /\ tent[o][v] \in Nat,
         NEW x, NEW rel, NEW q1, NEW f1, NEW t1, Moves(d, x, rel, qu, fl, tent, q1, f1, t1),
         NEW l1, NEW m1, SumIs(d, x, fl, tent, ln, at, l1, m1)
  PROVE  IsJoined(q1, f1, t1, l1, m1)
<1>1. PICK o \in Dirs : o = Opposite(d)
  BY DEF Opposite, Dirs
<1>2. o # d /\ {o, d} = {"f", "b"}
  BY <1>1 DEF Opposite, Dirs
<1>3. q1[o] = qu[o] /\ f1[o] = fl[o] /\ t1[o] = tent[o]
  BY <1>2 DEF Moves, SameBut
<1>4. \A v \in fl[o] : tent[o][v] \in Nat
  OBVIOUS
<1>5. x \in fl[d] /\ x # NoId /\ tent[d][x] \in Nat /\ t1[d][x] = tent[d][x]
  BY DEF Moves
<1>6. ln \in Nat /\ ln <= Inf
  BY DEF IsJoined
<1>7. /\ at = NoId => ln = Inf
      /\ at # NoId => at \in fl[d] /\ at \in fl[o] /\ tent[d][at] + tent[o][at] <= ln /\ ln < Inf
      /\ \A v : v \in fl[d] /\ v \in fl[o] =>
           v \in DOMAIN qu[d] \/ v \in DOMAIN qu[o] \/ ln <= tent[d][v] + tent[o][v]
  <2>1. /\ at = NoId => ln = Inf
        /\ at # NoId => at \in fl["f"] /\ at \in fl["b"] /\ tent["f"][at] + tent["b"][at] <= ln /\ ln < Inf
        /\ \A v : v \in fl["f"] /\ v \in fl["b"] =>
             v \in DOMAIN qu["f"] \/ v \in DOMAIN qu["b"] \/ ln <= tent["f"][v] + tent["b"][v]
    BY DEF IsJoined
  <2>2. \A p \in Dirs : \A v \in fl[p] : tent[p][v] \in Nat
    OBVIOUS
  <2>3. CASE d = "f"
    <3>1. o = "b"
      BY <1>2, <2>3
    <3> QED BY <2>1, <2>3, <3>1
  <2>4. CASE d = "b"
    <3>1. o = "f"
      BY <1>2, <2>4
    <3>2. \A v : v \in fl["f"] /\ v \in fl["b"] => tent["f"][v] + tent["b"][v] = tent["b"][v] + tent["f"][v]
      BY <2>2 DEF Dirs
    <3> QED BY <2>1, <2>4, <3>1, <3>2
  <2> QED BY <2>3, <2>4 DEF Dirs
<1>8. l1 = (IF x \in fl[o] /\ ln > tent[d][x] + tent[o][x] THEN tent[d][x] + tent[o][x] ELSE ln)
      /\ m1 = (IF x \in fl[o] /\ ln > tent[d][x] + tent[o][x] THEN x ELSE at)
  BY <1>1 DEF SumIs
<1>9. l1 \in Nat /\ l1 <= ln /\ l1 <= Inf /\ (x \in fl[o] => l1 <= tent[d][x] + tent[o][x])
  <2>1. CASE x \in fl[o] /\ ln > tent[d][x] + tent[o][x]
    <3>1. tent[o][x] \in Nat
      BY <1>4, <2>1
    <3>2. l1 = tent[d][x] + tent[o][x]
      BY <1>8, <2>1
    <3> QED BY <1>5, <1>6, <2>1, <3>1, <3>2, InfAssumption
  <2>2. CASE ~(x \in fl[o] /\ ln > tent[d][x] + tent[o][x])
    <3>1. l1 = ln
      BY <1>8, <2>2
    <3>2. x \in fl[o] => tent[o][x] \in Nat
      BY <1>4
    <3> QED BY <1>5, <1>6, <2>2, <3>1, <3>2
  <2> QED BY <2>1, <2>2
<1>10. /\ m1 = NoId => l1 = Inf
       /\ m1 # NoId => m1 \in f1[d] /\ m1 \in f1[o] /\ t1[d][m1] + t1[o][m1] <= l1 /\ l1 < Inf
  <2>1. CASE x \in fl[o] /\ ln > tent[d][x] + tent[o][x]
    <3>1. l1 = tent[d][x] + tent[o][x] /\ m1 = x /\ tent[o][x] \in Nat
      BY <1>4, <1>8, <2>1
    <3>2. l1 < Inf
      BY <1>5, <1>6, <2>1, <3>1, InfAssumption
    <3>3. x \in f1[d] /\ x \in f1[o]
      BY <1>3, <1>5, <2>1 DEF Moves
    <3> QED BY <1>3, <1>5, <3>1, <3>2, <3>3
  <2>2. CASE ~(x \in fl[o] /\ ln > tent[d][x] + tent[o][x])
    <3>1. l1 = ln /\ m1 = at
      BY <1>8, <2>2
    <3>2. CASE at = NoId
      BY <1>7, <3>1, <3>2
    <3>3. CASE at # NoId
      <4>1. at \in fl[d] /\ at \in fl[o] /\ tent[d][at] + tent[o][at] <= ln /\ ln < Inf
        BY <1>7, <3>3
      <4>2. t1[d][at] <= tent[d][at] /\ t1[d][at] \in Nat /\ at \in f1[d]
        BY <4>1 DEF Moves
      <4>3. tent[d][at] \in Nat /\ tent[o][at] \in Nat
        BY <4>1
      <4>4. t1[d][at] + t1[o][at] <= ln
        BY <1>3, <1>6, <4>1, <4>2, <4>3
      <4> QED BY <1>3, <3>1, <3>3, <4>1, <4>2, <4>4
    <3> QED BY <3>2, <3>3
  <2> QED BY <2>1, <2>2
<1>11. ASSUME NEW v, v \in f1[d], v \in f1[o], v \notin DOMAIN q1[d], v \notin DOMAIN q1[o]
       PROVE  l1 <= t1[d][v] + t1[o][v]
  <2>1. v \notin rel /\ v \in fl[d] /\ v \in fl[o] /\ v \notin DOMAIN qu[o] /\ (v = x \/ v \notin DOMAIN qu[d])
    BY <1>3, <1>11 DEF Moves
  <2>2. t1[d][v] = tent[d][v] /\ tent[d][v] \in Nat /\ tent[o][v] \in Nat
    BY <2>1 DEF Moves
  <2>3. CASE v = x
    BY <1>3, <1>9, <2>1, <2>2, <2>3
  <2>4. CASE v # x
    <3>1. ln <= tent[d][v] + tent[o][v]
      BY <1>7, <2>1, <2>4
    <3> QED BY <1>3, <1>6, <1>9, <2>2, <3>1
  <2> QED BY <2>3, <2>4
<1>12. \A v \in f1[d] \cap f1[o] : t1[d][v] \in Nat /\ t1[o][v] \in Nat
  BY <1>3, <1>4 DEF Moves
<1>13. CASE d = "f"
  <2>1. o = "b"
    BY <1>2, <1>13
  <2> QED BY <1>9, <1>10, <1>11, <1>13, <2>1 DEF IsJoined
<1>14. CASE d = "b"
  <2>1. o = "f"
    BY <1>2, <1>14
  <2>2. \A v \in f1["f"] \cap f1["b"] : t1["f"][v] + t1["b"][v] = t1["b"][v] + t1["f"][v]
    BY <1>12, <1>14, <2>1
  <2>3. /\ m1 = NoId => l1 = Inf
        /\ m1 # NoId => m1 \in f1["f"] \cap f1["b"] /\ t1["f"][m1] + t1["b"][m1] <= l1 /\ l1 < Inf
    BY <1>10, <1>14, <2>1, <2>2
  <2>4. \A v \in f1["f"] \cap f1["b"] : v \in DOMAIN q1["f"] \/ v \in DOMAIN q1["b"] \/ l1 <= t1["f"][v] + t1["b"][v]
    BY <1>11, <1>14, <2>1, <2>2
  <2> QED BY <1>9, <2>3, <2>4 DEF IsJoined
<1> QED BY <1>13, <1>14 DEF Dirs

(* Facts about a live side.                                                  *)
LEMMA LiveSideHas ==
  ASSUME HInv, IInv, QueryTypes, pc = "built", NEW d \in Dirs, LiveSide(d)
  PROVE  /\ DOMAIN q[d] \subseteq flag[d] /\ flag[d] \subseteq Nodes /\ Nodes \subseteq Nat
         /\ \A x \in DOMAIN q[d] : q[d][x] = dist[d][x]
         /\ \A x \in flag[d] : dist[d][x] \in Nat /\ dist[d][x] <= Inf /\ x # NoId
         /\ \A o \in Dirs : DOMAIN ArcWeights(ch, o) = DOMAIN ch.side[o]
                            /\ \A p \in DOMAIN ArcWeights(ch, o) : p[2] \in Nodes /\ ArcWeights(ch, o)[p] = ch.side[o][p].weight
<1>1. Given(Nodes, ch, CleanGraph, TrueDistance, d, asked.src[d])
  BY SideIsGiven
<1>2. PICK level \in [Nodes -> Nodes] : IsLevels(Nodes, ch, CleanGraph, TrueDistance, level)
  BY <1>1 DEF Given
<1>3. \A o \in Dirs : \A p \in DOMAIN ch.side[o] : p[2] \in Nodes
  BY <1>2 DEF IsLevels, UpwardIs
<1>4. \A o \in Dirs : DOMAIN ArcWeights(ch, o) = DOMAIN ch.side[o]
                      /\ \A p \in DOMAIN ArcWeights(ch, o) : p[2] \in Nodes /\ ArcWeights(ch, o)[p] = ch.side[o][p].weight
  BY <1>3 DEF ArcWeights
<1>5. Nodes \subseteq Nat
  BY <1>1 DEF Given
<1>6. /\ DOMAIN q[d] \subseteq flag[d] /\ flag[d] \subseteq Nodes
      /\ \A x \in DOMAIN q[d] : q[d][x] = dist[d][x]
      /\ \A x \in flag[d] : dist[d][x] \in Nat /\ dist[d][x] <= Inf
  BY DEF LiveSide, IsLiveAt, IsLabelled
<1> QED BY <1>4, <1>5, <1>6, NoIdAssumption

(* One settled node, in a full upward search and in one of the two of a     *)
(* run.                                                                     *)
LEMMA ExpandUpwardOK ==
  ASSUME HInv, IInv, QueryTypes, pc = "built", UNCHANGED buildVars, asked' = asked,
         NEW d \in Dirs, LiveSide(d), NEW x \in DOMAIN q[d], ExpandUpward(d, x, q[d][x])
  PROVE  /\ LiveSide(d)' /\ QueryTypes'
         /\ OtherSideStays(d, q, flag, dist, pnode, parc, q', flag', dist', pnode', parc')
         /\ \E rel : Moves(d, x, rel, q, flag, dist, q', flag', dist')
<1>1. PICK rel, up : rel = Relaxed(d, x, q[d][x]) /\ up = ArcWeights(ch, d)
  OBVIOUS
<1>2. /\ DOMAIN q[d] \subseteq flag[d] /\ flag[d] \subseteq Nodes /\ Nodes \subseteq Nat
      /\ \A v \in DOMAIN q[d] : q[d][v] = dist[d][v]
      /\ \A v \in flag[d] : dist[d][v] \in Nat /\ dist[d][v] <= Inf /\ v # NoId
      /\ \A p \in DOMAIN ArcWeights(ch, d) : p[2] \in Nodes
  BY LiveSideHas
<1>3. /\ IsEased(up, flag[d], dist[d], x, q[d][x], rel)
      /\ IsExpanded(up, x, q[d][x], rel, q[d], flag[d], dist[d], pnode[d], parc[d], q'[d], flag'[d], dist'[d], pnode'[d], parc'[d])
      /\ OtherSideStays(d, q, flag, dist, pnode, parc, q', flag', dist', pnode', parc')
      /\ Shaped(Nodes, q', flag', dist', pnode', parc')
  BY <1>1, <1>2, Expands
<1>4. QueryTypes'
  BY <1>3, QueryTermsNext DEF QueryTypes
<1>5. Given(Nodes, ch, CleanGraph, TrueDistance, d, asked.src[d])
  BY SideIsGiven
<1>6. /\ IsLiveAt(Nodes, ch, CleanGraph, TrueDistance, d, asked.src[d], q'[d], flag'[d], dist'[d], pnode'[d], parc'[d])
      /\ x \notin rel /\ \A v \in flag[d] : dist'[d][v] <= dist[d][v]
  <2>1. IsLiveAt(Nodes, ch, CleanGraph, TrueDistance, d, asked.src[d], q[d], flag[d], dist[d], pnode[d], parc[d])
    BY DEF LiveSide
  <2>2. IsEased(ArcWeights(ch, d), flag[d], dist[d], x, q[d][x], rel)
        /\ IsExpanded(ArcWeights(ch, d), x, q[d][x], rel, q[d], flag[d], dist[d], pnode[d], parc[d],
                      q'[d], flag'[d], dist'[d], pnode'[d], parc'[d])
    BY <1>1, <1>3
  <2> QED BY <1>5, <2>1, <2>2, ExpandLeavesLive
<1>7. LiveSide(d)'
  BY <1>6, QueryTermsNext
<1>8. \A v \in flag'[d] : dist'[d][v] \in Nat
  BY <1>6 DEF IsLiveAt, IsLabelled
<1>9. /\ DOMAIN q'[d] = rel \cup (DOMAIN q[d] \ {x}) /\ flag'[d] = flag[d] \cup rel
      /\ \A v \in flag[d] : v \notin rel => dist'[d][v] = dist[d][v]
  BY <1>3 DEF IsExpanded
<1>10. SameBut(d, q, q') /\ SameBut(d, flag, flag') /\ SameBut(d, dist, dist')
  BY <1>3 DEF OtherSideStays
<1>11. Moves(d, x, rel, q, flag, dist, q', flag', dist')
  BY <1>2, <1>6, <1>8, <1>9, <1>10 DEF Moves
<1> QED BY <1>3, <1>4, <1>7, <1>11

LEMMA FullForwardSearchOK ==
  ASSUME HInv, IInv, QInv, pc = "built", UNCHANGED buildVars, NEW d \in Dirs, FullForwardSearch(d)
  PROVE  QueryTypes' /\ QueryOK'
<1>1. QueryTypes /\ QueryOK
  BY DEF QInv
<1>2. st = SearchState(Opposite(d)) /\ st' = st /\ meet' = meet /\ count' = count /\ asked' = asked
  BY DEF FullForwardSearch
<1>3. LiveSide(d) /\ PinsOK(Opposite(d))
  BY <1>1, <1>2 DEF QueryOK
<1>4. PICK x \in Nearest(d) : ExpandUpward(d, x, q[d][x])
  BY DEF FullForwardSearch
<1>5. x \in DOMAIN q[d]
  BY DEF Nearest
<1>6. /\ LiveSide(d)' /\ QueryTypes'
      /\ OtherSideStays(d, q, flag, dist, pnode, parc, q', flag', dist', pnode', parc')
  BY <1>1, <1>2, <1>3, <1>4, <1>5, ExpandUpwardOK
<1>7. dist'[Opposite(d)] = dist[Opposite(d)] /\ pnode'[Opposite(d)] = pnode[Opposite(d)]
  BY <1>6 DEF OtherSideStays, SameBut, Opposite, Dirs
<1>8. PinsOK(Opposite(d))'
  BY <1>2, <1>3, <1>7, QueryTermsNext DEF PinsOK
<1> QED BY <1>2, <1>6, <1>8, InSearch

LEMMA RunSettleOK ==
  ASSUME HInv, IInv, QInv, pc = "built", UNCHANGED buildVars, RunSettle
  PROVE  QueryTypes' /\ QueryOK'
<1>1. QueryTypes /\ QueryOK
  BY DEF QInv
<1>2. st = "running" /\ st' = st /\ asked' = asked
  BY DEF RunSettle
<1>3. LiveSide("f") /\ LiveSide("b") /\ Joined
  BY <1>1, <1>2 DEF QueryOK
<1>a. PICK d \in Dirs : \E x \in Nearest(d) : SettleNode(d, x)
  BY DEF RunSettle, Dirs
<1>4. PICK x \in Nearest(d) : SettleNode(d, x)
  BY <1>a
<1>5. x \in DOMAIN q[d] /\ LiveSide(d) /\ LiveSide(Opposite(d)) /\ Opposite(d) \in Dirs /\ Opposite(d) # d
  BY <1>3 DEF Nearest, Dirs, Opposite
<1>6. \A o \in Dirs : \A v \in flag[o] : v # NoId /\ dist[o][v] \in Nat
  BY <1>1, <1>3, LiveSideHas DEF Dirs
<1>7. /\ DOMAIN q[d] \subseteq flag[d] /\ q[d][x] = dist[d][x]
      /\ \A o \in Dirs : DOMAIN ArcWeights(ch, o) = DOMAIN ch.side[o]
                         /\ \A p \in DOMAIN ArcWeights(ch, o) : ArcWeights(ch, o)[p] = ch.side[o][p].weight
  BY <1>1, <1>5, LiveSideHas
<1>8. SumIs(d, x, flag, dist, len, meet, len', meet')
  BY <1>4, <1>7 DEF SettleNode, SumIs
<1>9. /\ LiveSide(d)' /\ QueryTypes'
      /\ OtherSideStays(d, q, flag, dist, pnode, parc, q', flag', dist', pnode', parc')
      /\ \E rel : Moves(d, x, rel, q, flag, dist, q', flag', dist')
  <2>1. CASE CanStall(d, x)
    <3>1. q' = [q EXCEPT ![d] = Restrict(q[d], DOMAIN q[d] \ {x})] /\ UNCHANGED <<dist, flag, pnode, parc>>
      BY <1>4, <2>1 DEF SettleNode
    <3>2. q'[d] = Restrict(q[d], DOMAIN q[d] \ {x}) /\ SameBut(d, q, q')
      <4>1. d \in DOMAIN q
        BY <1>1 DEF QueryTypes, Shaped
      <4> QED BY <3>1, <4>1, ExceptIs
    <3>3. OtherSideStays(d, q, flag, dist, pnode, parc, q', flag', dist', pnode', parc')
      BY <3>1, <3>2 DEF OtherSideStays, SameBut
    <3>4. QueryTypes'
      <4>1. Shaped(Nodes, q', flag', dist', pnode', parc')
        BY <1>1, <3>1, <3>2 DEF QueryTypes, Shaped, SameBut
      <4> QED BY <1>1, <1>2, <4>1, QueryTermsNext DEF QueryTypes
    <3>5. PICK y \in Heads(Opposite(d), x) \cap flag[d] :
            dist[d][y] + ch.side[Opposite(d)][<<x, y>>].weight <= dist[d][x]
      BY <2>1 DEF CanStall
    <3>6. <<x, y>> \in DOMAIN ArcWeights(ch, Opposite(d))
          /\ dist[d][y] + ArcWeights(ch, Opposite(d))[<<x, y>>] <= dist[d][x] /\ y \in flag[d]
      BY <1>5, <1>7, <3>5 DEF Heads
    <3>7. Given(Nodes, ch, CleanGraph, TrueDistance, d, asked.src[d])
      BY <1>1, SideIsGiven
    <3>8. IsLiveAt(Nodes, ch, CleanGraph, TrueDistance, d, asked.src[d], q'[d], flag[d], dist[d], pnode[d], parc[d])
      <4>1. IsLiveAt(Nodes, ch, CleanGraph, TrueDistance, d, asked.src[d], q[d], flag[d], dist[d], pnode[d], parc[d])
        BY <1>5 DEF LiveSide
      <4> QED BY <1>5, <3>2, <3>6, <3>7, <4>1, StallLeavesLive
    <3>9. LiveSide(d)'
      BY <1>2, <3>1, <3>8, QueryTermsNext
    <3>10. Moves(d, x, {}, q, flag, dist, q', flag', dist')
      <4>1. DOMAIN q'[d] = DOMAIN q[d] \ {x}
        BY <3>2 DEF Restrict
      <4>2. SameBut(d, q, q') /\ SameBut(d, flag, flag') /\ SameBut(d, dist, dist')
        BY <3>1, <3>2 DEF SameBut
      <4>3. flag'[d] = flag[d] /\ dist'[d] = dist[d] /\ x \in flag[d]
        BY <1>5, <1>7, <3>1
      <4>4. \A v \in flag[d] : dist[d][v] \in Nat /\ dist[d][v] <= dist[d][v]
        BY <1>6
      <4> QED BY <1>5, <4>1, <4>2, <4>3, <4>4 DEF Moves
    <3> QED BY <3>3, <3>4, <3>9, <3>10
  <2>2. CASE ~CanStall(d, x)
    <3>1. ExpandUpward(d, x, q[d][x])
      BY <1>4, <2>2 DEF SettleNode
    <3> QED BY <1>1, <1>2, <1>5, <3>1, ExpandUpwardOK
  <2> QED BY <2>1, <2>2
<1>10. Joined'
  <2>1. IsJoined(q, flag, dist, len, meet)
    BY <1>3 DEF Joined
  <2>2. PICK rel : Moves(d, x, rel, q, flag, dist, q', flag', dist')
    BY <1>9
  <2>3. IsJoined(q', flag', dist', len', meet')
    BY <1>6, <1>8, <2>1, <2>2, JoinStep
  <2> QED BY <2>3, QueryTermsNext
<1>11. LiveSide(Opposite(d))'
  <2>1. PICK o \in Dirs : o = Opposite(d) /\ o # d
    BY <1>5
  <2>2. q'[o] = q[o] /\ flag'[o] = flag[o] /\ dist'[o] = dist[o] /\ pnode'[o] = pnode[o] /\ parc'[o] = parc[o]
    BY <1>9, <2>1 DEF OtherSideStays, SameBut
  <2>3. LiveSide(o)
    BY <1>5, <2>1
  <2> QED BY <1>2, <2>1, <2>2, <2>3, QueryTermsNext DEF LiveSide
<1>12. LiveSide("f")' /\ LiveSide("b")'
  BY <1>9, <1>11 DEF Opposite, Dirs
<1> QED BY <1>2, <1>9, <1>10, <1>12, InRunning

-----------------------------------------------------------------------------
(* Pinning: what the lists hold.                                             *)
LEMMA ReachedFromIsClosed ==
  ASSUME NEW nodes, NEW up, DOMAIN up = nodes, \A x \in nodes : up[x] \subseteq nodes, NEW xs \in SUBSET nodes
  PROVE  /\ ReachedBy(up, xs) \subseteq nodes /\ xs \subseteq ReachedBy(up, xs)
         /\ \A y \in ReachedBy(up, xs) : up[y] \subseteq ReachedBy(up, xs)
<1>1. ReachedBy(up, xs) = {y \in nodes : \A S \in SUBSET nodes : xs \subseteq S /\ (\A z \in S : up[z] \subseteq S) => y \in S}
  BY DEF ReachedBy
<1> QED BY <1>1

ArcsRise(nodes, arcs) == \A e \in arcs : e \in nodes \X nodes /\ e[1] < e[2]
ClosedOver(nodes, arcs, R) == \A x \in R, y \in nodes : <<x, y>> \in arcs => y \in R
Copies(number, s, arr) == \A i \in 0 .. number - 1 : arr[i] = s[i + 1]
FromTop(n, R, key) == \A x \in R : key[x] = n - x
(* The nodes to sweep are listed from the top, with all that is above them. *)
LEMMA PinsAreListed ==
  ASSUME NEW n \in Nat, NEW nodes, nodes \subseteq 0 .. n - 1, NEW h, OrderOf(nodes, h),
         NEW p, ArcsRise(nodes, DOMAIN h.side[p]), NEW list \in Seq(nodes),
         NEW ids, \A i \in 1 .. Len(list) : ids[i] = h.rank[list[i]],
         NEW R \in SUBSET nodes, ClosedOver(nodes, DOMAIN h.side[p], R), \A i \in 1 .. Len(list) : ids[i] \in R,
         NEW key, FromTop(n, R, key), NEW s, Lists(key, R, s),
         NEW sel, Copies(Len(s), s, sel), NEW pn, Copies(Len(list), ids, pn)
  PROVE  ArePins(nodes, h, p, list, pn, Len(list), sel, Len(s))
<1>1. Len(s) \in Nat /\ s \in Seq(R) /\ Len(list) \in Nat
  BY LenProperties DEF Lists
<1>2. ASSUME NEW i \in 0 .. Len(s) - 1 PROVE sel[i] = s[i + 1] /\ i + 1 \in 1 .. Len(s) /\ s[i + 1] \in R /\ i \in Nat
  <2>1. i + 1 \in 1 .. Len(s) /\ i \in Nat
    BY <1>1
  <2> QED BY <1>1, <2>1, SeqAt DEF Copies
<1>3. \A x \in R : \E j \in 0 .. Len(s) - 1 : sel[j] = x
  <2> SUFFICES ASSUME NEW x \in R PROVE \E j \in 0 .. Len(s) - 1 : sel[j] = x
    OBVIOUS
  <2>1. PICK i \in 1 .. Len(s) : s[i] = x
    BY DEF Lists
  <2>2. PICK j : j = i - 1
    OBVIOUS
  <2>3. j \in 0 .. Len(s) - 1 /\ j + 1 = i
    BY <1>1, <2>2
  <2>4. sel[j] = s[i]
    BY <1>2, <2>3
  <2> QED BY <2>1, <2>3, <2>4
<1>4. ASSUME NEW i \in 0 .. Len(s) - 1, NEW y \in nodes, <<sel[i], y>> \in DOMAIN h.side[p]
      PROVE  \E j \in 0 .. i - 1 : sel[j] = y
  <2>1. sel[i] \in R /\ sel[i] = s[i + 1] /\ i + 1 \in 1 .. Len(s) /\ i \in Nat
    BY <1>2
  <2>2. y \in R
    BY <1>4, <2>1 DEF ClosedOver
  <2>3. PICK x : x = sel[i]
    OBVIOUS
  <2>4. x < y /\ x \in nodes
    <3>1. <<x, y>> \in DOMAIN h.side[p]
      BY <1>4, <2>3
    <3>2. <<x, y>>[1] < <<x, y>>[2]
      BY <3>1 DEF ArcsRise
    <3> QED BY <2>1, <2>3, <3>2
  <2>5. PICK j \in 0 .. Len(s) - 1 : sel[j] = y
    BY <1>3, <2>2
  <2>6. sel[j] = s[j + 1] /\ j + 1 \in 1 .. Len(s) /\ j \in Nat
    BY <1>2
  <2>7. key[y] = n - y /\ key[x] = n - x /\ x \in Int /\ y \in Int
    BY <2>1, <2>2, <2>3, <2>4 DEF FromTop
  <2>8. key[y] < key[x]
    BY <2>4, <2>7
  <2>9. PICK a, b : a = i + 1 /\ b = j + 1
    OBVIOUS
  <2>10. s[a] = x /\ s[b] = y /\ a \in 1 .. Len(s) /\ b \in 1 .. Len(s)
    BY <2>1, <2>3, <2>5, <2>6, <2>9
  <2>11. ~(a < b) /\ a # b
    <3>1. a < b => key[s[a]] < key[s[b]]
      BY <1>1, <2>10 DEF Lists, KeysRise
    <3>2. key[x] \in Int /\ key[y] \in Int
      BY <2>7
    <3> QED BY <2>8, <2>10, <3>1, <3>2
  <2>12. j < i
    BY <2>1, <2>6, <2>9, <2>11
  <2> QED BY <2>5, <2>12
<1>5. ASSUME NEW i \in 0 .. Len(s) - 1, NEW j \in 0 .. Len(s) - 1, sel[i] = sel[j] PROVE i = j
  <2>1. s[i + 1] = s[j + 1] /\ i + 1 \in 1 .. Len(s) /\ j + 1 \in 1 .. Len(s)
    BY <1>2, <1>5
  <2>2. i + 1 = j + 1
    BY <2>1 DEF Lists
  <2> QED BY <2>2
<1>6. ASSUME NEW i \in 1 .. Len(list)
      PROVE  list[i] \in nodes /\ pn[i - 1] = h.rank[list[i]] /\ \E j \in 0 .. Len(s) - 1 : sel[j] = pn[i - 1]
  <2>1. PICK k : k = i - 1
    OBVIOUS
  <2>2. k \in 0 .. Len(list) - 1 /\ k + 1 = i
    BY <1>1, <2>1
  <2>3. pn[k] = ids[i]
    BY <2>2 DEF Copies
  <2>4. list[i] \in nodes
    BY SeqAt
  <2> QED BY <1>3, <2>1, <2>3, <2>4
<1>7. \A i \in 0 .. Len(s) - 1 : sel[i] \in nodes
  BY <1>2
<1> QED BY <1>1, <1>4, <1>5, <1>6, <1>7 DEF ArePins

LEMMA PinAllOK ==
  ASSUME HInv, IInv, QInv, pc = "built", UNCHANGED buildVars, NEW d \in Dirs, NEW list \in PinLists[input.n], PinAll(d, list)
  PROVE  QueryTypes' /\ QueryOK'
<1>1. QueryTypes /\ QueryOK /\ input \in Inputs
  BY DEF QInv, IInv, GraphOK
<1>2. PICK ids, R, s :
        /\ ids = [i \in DOMAIN list |-> ch.rank[list[i]]]
        /\ R = Above(d, Range(ids) \cup DOMAIN q[d])
        /\ s = SortedBy([x \in Nodes |-> input.n - x], R)
  OBVIOUS
<1>3. /\ st = "initialized" /\ DOMAIN asked.src[d] = {}
      /\ pnode' = [pnode EXCEPT ![d] = AtFront(pnode[d], ids)]
      /\ dist' = [dist EXCEPT ![d] = AtFront(dist[d], s)]
      /\ meet' = Len(s) /\ count' = Len(list)
      /\ q' = [q EXCEPT ![d] = NoFn]
      /\ st' = PinnedState(d)
      /\ asked' = [asked EXCEPT !.pins = list]
      /\ flag' = flag /\ parc' = parc
  BY <1>2 DEF PinAll
<1>4. /\ pnode'[d] = AtFront(pnode[d], ids) /\ SameBut(d, pnode, pnode')
      /\ dist'[d] = AtFront(dist[d], s) /\ SameBut(d, dist, dist')
      /\ q'[d] = NoFn /\ SameBut(d, q, q')
  <2>1. d \in DOMAIN q /\ d \in DOMAIN dist /\ d \in DOMAIN pnode
    BY <1>1 DEF QueryTypes, Shaped
  <2> QED BY <1>3, <2>1, ExceptIs
<1>5. asked'.src = asked.src /\ asked'.pins = list /\ DOMAIN asked' = DOMAIN asked
  <2>1. DOMAIN asked = {"src", "pins"}
    BY <1>1 DEF QueryTypes, AskedIs
  <2> QED BY <1>3, <2>1
<1>6. input.n \in Nat /\ Nodes = 0 .. input.n - 1 /\ IsFiniteSet(Nodes)
  BY <1>1, TrueIsMetric
<1>7. list \in Seq(0 .. input.n - 1) /\ Len(list) <= input.n /\ list \in Seq(Nodes) /\ Len(list) \in Nat
  <2>1. list \in Seq(0 .. input.n - 1) /\ Len(list) <= input.n
    BY <1>1, CallsAssumption
  <2> QED BY <1>6, <2>1, LenProperties
<1>8. OrderOf(Nodes, ch)
  BY <1>1, SideIsGiven DEF Given
<1>9. ArcsRise(Nodes, DOMAIN ch.side[d])
  <2>1. Given(Nodes, ch, CleanGraph, TrueDistance, d, asked.src[d])
    BY <1>1, SideIsGiven
  <2>2. PICK level \in [Nodes -> Nodes] : IsLevels(Nodes, ch, CleanGraph, TrueDistance, level)
    BY <2>1 DEF Given
  <2> QED BY <2>2 DEF ArcsRise, IsLevels, UpwardIs
<1>10. DOMAIN list = 1 .. Len(list) /\ \A i \in 1 .. Len(list) : list[i] \in Nodes
  BY <1>7, LenProperties, SeqAt
<1>11. DOMAIN ids = 1 .. Len(list) /\ (\A i \in 1 .. Len(list) : ids[i] = ch.rank[list[i]] /\ ids[i] \in Nodes) /\ Len(ids) = Len(list)
  <2>1. DOMAIN ids = 1 .. Len(list) /\ \A i \in 1 .. Len(list) : ids[i] = ch.rank[list[i]] /\ ids[i] \in Nodes
    BY <1>2, <1>8, <1>10 DEF OrderOf
  <2>2. ids \in Seq(Nodes)
    <3>1. ids = [i \in 1 .. Len(list) |-> ch.rank[list[i]]]
      BY <1>2, <1>10
    <3> QED BY <1>7, <2>1, <3>1, IsASeq
  <2> QED BY <1>7, <2>1, <2>2, LenProperties
<1>12. DOMAIN q[d] = {}
  <2>1. FreshSide(d)
    BY <1>1, <1>3 DEF QueryOK
  <2>2. DOMAIN Starts(ch, asked.src[d]) = {}
    BY <1>3 DEF Starts
  <2> QED BY <2>1, <2>2 DEF FreshSide, IsFresh
<1>13. Range(ids) \in SUBSET Nodes /\ \A i \in 1 .. Len(list) : ids[i] \in Range(ids)
  BY <1>11 DEF Range
<1>14. /\ R \in SUBSET Nodes /\ Range(ids) \subseteq R /\ ClosedOver(Nodes, DOMAIN ch.side[d], R)
  <2>1. PICK up : up = [x \in Nodes |-> Heads(d, x)]
    OBVIOUS
  <2>2. DOMAIN up = Nodes /\ (\A x \in Nodes : up[x] \subseteq Nodes) /\ \A x, y \in Nodes : <<x, y>> \in DOMAIN ch.side[d] => y \in up[x]
    BY <2>1 DEF Heads
  <2>3. PICK xs \in SUBSET Nodes : xs = Range(ids) \cup DOMAIN q[d]
    BY <1>12, <1>13
  <2>4. R = ReachedBy(up, xs)
    BY <1>2, <2>1, <2>3 DEF Above
  <2>5. R \subseteq Nodes /\ xs \subseteq R /\ \A y \in R : up[y] \subseteq R
    BY <2>2, <2>4, ReachedFromIsClosed
  <2> QED BY <2>2, <2>3, <2>5 DEF ClosedOver
<1>15. PICK key : key = [x \in Nodes |-> input.n - x]
  OBVIOUS
<1>16. KeyFor(key, R, input.n) /\ FromTop(input.n, R, key)
  <2>1. \A x \in R : x \in 0 .. input.n - 1 /\ key[x] = input.n - x
    BY <1>6, <1>14, <1>15
  <2> QED BY <1>6, <2>1 DEF KeyFor, FromTop
<1>17. IsFiniteSet(R) /\ Cardinality(R) <= input.n
  <2>1. Cardinality(0 .. input.n - 1) = input.n
    BY <1>6, FS_Interval
  <2>2. Cardinality(Nodes) = input.n
    BY <1>6, <2>1
  <2> QED BY <1>6, <1>14, <2>2, FS_Subset
<1>18. Lists(key, R, s)
  BY <1>2, <1>6, <1>15, <1>16, <1>17, SortedByLists
<1>19. Len(s) \in Nat /\ Len(s) <= input.n
  BY <1>17, <1>18 DEF Lists
<1>20. ASSUME NEW arr, DOMAIN arr = Nodes, NEW l, Len(l) \in Nat, Len(l) <= input.n
       PROVE  Copies(Len(l), l, AtFront(arr, l)) /\ DOMAIN AtFront(arr, l) = Nodes
  <2>1. \A i \in 0 .. Len(l) - 1 : i \in Nodes /\ i < Len(l)
    BY <1>6, <1>20
  <2> QED BY <1>20, <2>1 DEF Copies, AtFront
<1>21. DOMAIN dist[d] = Nodes /\ DOMAIN pnode[d] = Nodes
  BY <1>1 DEF QueryTypes, Shaped
<1>22. /\ Copies(Len(s), s, dist'[d]) /\ DOMAIN dist'[d] = Nodes
       /\ Copies(Len(list), ids, pnode'[d]) /\ DOMAIN pnode'[d] = Nodes
  BY <1>4, <1>7, <1>11, <1>19, <1>20, <1>21
<1>23. ArePins(Nodes, ch, d, list, pnode'[d], Len(list), dist'[d], Len(s))
  <2>1. \A i \in 1 .. Len(list) : ids[i] \in R /\ ids[i] = ch.rank[list[i]]
    BY <1>11, <1>13, <1>14
  <2>2. Nodes \subseteq 0 .. input.n - 1
    BY <1>6
  <2> QED BY <1>6, <1>7, <1>8, <1>9, <1>14, <1>16, <1>18, <1>22, <2>1, <2>2, PinsAreListed
<1>24. PinsOK(d)'
  BY <1>3, <1>5, <1>23, QueryTermsNext
<1>25. PICK o \in Dirs : o = Opposite(d) /\ o # d /\ Opposite(o) = d
  BY DEF Opposite, Dirs
<1>26. FreshSide(o)'
  <2>1. FreshSide(o)
    BY <1>1, <1>3 DEF QueryOK
  <2>2. q'[o] = q[o] /\ flag'[o] = flag[o] /\ dist'[o] = dist[o] /\ pnode'[o] = pnode[o] /\ asked'.src[o] = asked.src[o]
    BY <1>3, <1>4, <1>5, <1>25 DEF SameBut
  <2> QED BY <2>1, <2>2, QueryTermsNext DEF FreshSide
<1>27. QueryTypes'
  <2>1. Shaped(Nodes, q, flag, dist, pnode, parc)
    BY <1>1 DEF QueryTypes
  <2>2. OtherSideStays(d, q, flag, dist, pnode, parc, q', flag', dist', pnode', parc')
    BY <1>3, <1>4 DEF OtherSideStays, SameBut
  <2>3. DOMAIN parc'[d] = Nodes
    BY <1>3, <2>1 DEF Shaped
  <2>4. Shaped(Nodes, q', flag', dist', pnode', parc')
    BY <1>22, <2>1, <2>2, <2>3, ShapesStay
  <2>5. AskedIs(Nodes, asked')
    BY <1>1, <1>5 DEF QueryTypes, AskedIs
  <2> QED BY <2>4, <2>5, QueryTermsNext
<1> QED BY <1>3, <1>24, <1>25, <1>26, <1>27, InPinned

-----------------------------------------------------------------------------
(* The sweep down the selected nodes.  What one step makes of the labels.    *)
Own(a, x) == IF x \in a.flag THEN a.dist[x] ELSE Inf
IsSweeper(nodes, a) == DOMAIN a = {"dist", "parc", "flag"} /\ DOMAIN a.dist = nodes /\ DOMAIN a.parc = nodes
Chosen(nodes, down, x, a, b) ==
  /\ IsSweeper(nodes, b)
  /\ \A v \in nodes : v # x => b.dist[v] = a.dist[v] /\ (v \in b.flag <=> v \in a.flag)
  /\ \A y \in nodes : <<x, y>> \in DOMAIN down => b.dist[x] <= a.dist[y] + down[<<x, y>>]
  /\ b.dist[x] \in Nat /\ b.dist[x] <= Own(a, x)
  /\ \/ b.dist[x] = Own(a, x)
     \/ \E y \in nodes : <<x, y>> \in DOMAIN down /\ b.dist[x] = a.dist[y] + down[<<x, y>>]
(* What it makes of the marks: a node keeps its flag if no arc down to it is *)
(* better than its label, else it remembers the arc, or that there is none.  *)
Marked(nodes, down, x, a, b) ==
  /\ b.flag \subseteq a.flag /\ \A v \in nodes : v # x => b.parc[v] = a.parc[v]
  /\ x \in b.flag => x \in a.flag /\ b.dist[x] = Own(a, x) /\ (b.parc[x] = a.parc[x] \/ Own(a, x) = Inf)
  /\ x \notin b.flag =>
       \/ x \notin a.flag /\ b.parc[x] = NoId /\ b.dist[x] = Inf
       \/ \E y \in nodes : /\ b.parc[x] = <<x, y>> /\ <<x, y>> \in DOMAIN down
                          /\ b.dist[x] = a.dist[y] + down[<<x, y>>] /\ b.dist[x] < Own(a, x)
ViasAre(nodes, down, x, a) ==
  /\ Own(a, x) \in Nat
  /\ \A y \in nodes : <<x, y>> \in DOMAIN down => a.dist[y] \in Nat /\ down[<<x, y>>] \in Nat
LEMMA SweepStepChooses ==
  ASSUME NEW d \in Dirs, Nodes \subseteq Nat, NEW x \in Nodes, NEW a, IsSweeper(Nodes, a),
         ViasAre(Nodes, ArcWeights(ch, Opposite(d)), x, a)
  PROVE  /\ Chosen(Nodes, ArcWeights(ch, Opposite(d)), x, a, SweepStep(d, a, x))
         /\ Marked(Nodes, ArcWeights(ch, Opposite(d)), x, a, SweepStep(d, a, x))
<1>1. PICK nodes : nodes = Nodes
  OBVIOUS
<1>2. PICK down : down = ArcWeights(ch, Opposite(d))
  OBVIOUS
<1>3. PICK heads : heads = Heads(Opposite(d), x)
  OBVIOUS
<1>4. heads \subseteq nodes /\ nodes \subseteq Nat /\ \A y \in nodes : y \in heads <=> <<x, y>> \in DOMAIN down
  BY <1>1, <1>2, <1>3 DEF Heads, ArcWeights
<1>5. PICK via : via = [y \in heads |-> a.dist[y] + ch.side[Opposite(d)][<<x, y>>].weight]
  OBVIOUS
<1>6. DOMAIN via = heads /\ \A y \in heads : via[y] = a.dist[y] + down[<<x, y>>] /\ via[y] \in Nat
  <2>1. \A y \in heads : <<x, y>> \in DOMAIN ch.side[Opposite(d)]
    BY <1>3 DEF Heads
  <2>2. \A y \in heads : down[<<x, y>>] = ch.side[Opposite(d)][<<x, y>>].weight
    BY <1>2, <2>1 DEF ArcWeights
  <2>3. \A y \in heads : a.dist[y] \in Nat /\ down[<<x, y>>] \in Nat
    BY <1>1, <1>2, <1>4 DEF ViasAre
  <2> QED BY <1>5, <2>2, <2>3
<1>7. PICK own : own = Own(a, x)
  OBVIOUS
<1>8. own \in Nat /\ (x \in a.flag => own = a.dist[x]) /\ (x \notin a.flag => own = Inf)
  BY <1>7 DEF ViasAre, Own
<1>9. PICK best : best = {y \in heads : via[y] < own /\ \A z \in heads : via[y] <= via[z]}
  OBVIOUS
<1>10. PICK b : b = SweepStep(d, a, x)
  OBVIOUS
<1>11. b = IF best # {}
           THEN [dist |-> [a.dist EXCEPT ![x] = a.dist[Min(best)] + ch.side[Opposite(d)][<<x, Min(best)>>].weight],
                 parc |-> [a.parc EXCEPT ![x] = <<x, Min(best)>>], flag |-> a.flag \ {x}]
           ELSE IF own = Inf THEN [a EXCEPT !.dist[x] = Inf, !.parc[x] = NoId] ELSE a
  <2>1. best = {y \in heads : /\ a.dist[y] + ch.side[Opposite(d)][<<x, y>>].weight < own
                              /\ \A z \in heads : a.dist[y] + ch.side[Opposite(d)][<<x, y>>].weight
                                                  <= a.dist[z] + ch.side[Opposite(d)][<<x, z>>].weight}
    BY <1>5, <1>9
  <2> QED BY <1>3, <1>7, <1>10, <2>1 DEF SweepStep, Own
<1>12. IsSweeper(nodes, a) /\ x \in nodes
  BY <1>1
<1>13. CASE best # {}
  <2>1. PICK y : y = Min(best)
    OBVIOUS
  <2>2. y \in best
    <3>1. best \in SUBSET Nat
      BY <1>4, <1>9
    <3> QED BY <1>13, <2>1, <3>1, MinIsLeast
  <2>3. y \in heads /\ y \in nodes /\ via[y] < own /\ \A z \in heads : via[y] <= via[z]
    BY <1>4, <1>9, <2>2
  <2>4. b = [dist |-> [a.dist EXCEPT ![x] = via[y]], parc |-> [a.parc EXCEPT ![x] = <<x, y>>], flag |-> a.flag \ {x}]
    BY <1>5, <1>11, <1>13, <2>1, <2>3
  <2>5. /\ b.dist = [a.dist EXCEPT ![x] = via[y]] /\ b.parc = [a.parc EXCEPT ![x] = <<x, y>>]
        /\ b.flag = a.flag \ {x} /\ DOMAIN b = {"dist", "parc", "flag"}
    BY <2>4
  <2>6. IsSweeper(nodes, b) /\ b.dist[x] = via[y] /\ \A v \in nodes : v # x => b.dist[v] = a.dist[v]
    BY <1>12, <2>5 DEF IsSweeper
  <2>7. via[y] \in Nat /\ b.dist[x] = a.dist[y] + down[<<x, y>>] /\ <<x, y>> \in DOMAIN down /\ b.dist[x] <= own
    BY <1>4, <1>6, <1>8, <2>3, <2>6
  <2>8. \A z \in nodes : <<x, z>> \in DOMAIN down => b.dist[x] <= a.dist[z] + down[<<x, z>>]
    BY <1>4, <1>6, <2>3, <2>6
  <2>9. \A v \in nodes : v # x => b.dist[v] = a.dist[v] /\ (v \in b.flag <=> v \in a.flag)
    BY <2>5, <2>6
  <2>10. Chosen(nodes, down, x, a, b)
    BY <1>7, <2>3, <2>6, <2>7, <2>8, <2>9 DEF Chosen
  <2>11. b.flag \subseteq a.flag /\ x \notin b.flag /\ b.parc[x] = <<x, y>> /\ \A v \in nodes : v # x => b.parc[v] = a.parc[v]
    BY <1>12, <2>5 DEF IsSweeper
  <2>12. b.dist[x] < Own(a, x)
    BY <1>7, <2>3, <2>6
  <2>13. Marked(nodes, down, x, a, b)
    BY <2>3, <2>7, <2>11, <2>12 DEF Marked
  <2> QED BY <1>1, <1>2, <1>10, <2>10, <2>13
<1>14. CASE best = {}
  <2>1. \A y \in heads : own <= via[y]
    <3>1. SUFFICES ASSUME NEW z \in heads, ~(own <= via[z]) PROVE FALSE
      OBVIOUS
    <3>2. PICK W : W = {via[u] : u \in heads}
      OBVIOUS
    <3>3. W \in SUBSET Nat /\ W # {} /\ via[z] \in W
      BY <1>6, <3>2
    <3>4. PICK m \in W : \A w \in W : m <= w
      BY <3>3, NatHasLeast
    <3>5. PICK y \in heads : m = via[y]
      BY <3>2, <3>4
    <3>6. via[y] <= via[z] /\ via[y] \in Nat /\ via[z] \in Nat
      BY <1>6, <3>3, <3>4, <3>5
    <3>7. via[y] < own
      BY <1>8, <3>1, <3>6
    <3>8. \A u \in heads : via[y] <= via[u]
      BY <3>2, <3>4, <3>5
    <3> QED BY <1>9, <1>14, <3>7, <3>8
  <2>2. /\ IsSweeper(nodes, b) /\ b.dist[x] = own /\ b.flag = a.flag
        /\ \A v \in nodes : v # x => b.dist[v] = a.dist[v] /\ b.parc[v] = a.parc[v]
        /\ (own = Inf /\ b.parc[x] = NoId) \/ (own # Inf /\ b.parc[x] = a.parc[x])
    <3>1. CASE own = Inf
      <4>1. b = [a EXCEPT !.dist[x] = Inf, !.parc[x] = NoId]
        BY <1>11, <1>14, <3>1
      <4>2. /\ b.dist = [a.dist EXCEPT ![x] = Inf] /\ b.parc = [a.parc EXCEPT ![x] = NoId]
            /\ b.flag = a.flag /\ DOMAIN b = DOMAIN a
        BY <1>12, <4>1 DEF IsSweeper
      <4> QED BY <1>12, <3>1, <4>2 DEF IsSweeper
    <3>2. CASE own # Inf
      <4>1. b = a
        BY <1>11, <1>14, <3>2
      <4> QED BY <1>8, <1>12, <3>2, <4>1
    <3> QED BY <3>1, <3>2
  <2>3. Chosen(nodes, down, x, a, b)
    BY <1>4, <1>6, <1>7, <1>8, <2>1, <2>2 DEF Chosen
  <2>4. Marked(nodes, down, x, a, b)
    <3>1. b.flag \subseteq a.flag /\ \A v \in nodes : v # x => b.parc[v] = a.parc[v]
      BY <2>2
    <3>2. x \in b.flag => x \in a.flag /\ b.dist[x] = Own(a, x) /\ (b.parc[x] = a.parc[x] \/ Own(a, x) = Inf)
      BY <1>7, <2>2
    <3>3. x \notin b.flag => x \notin a.flag /\ b.parc[x] = NoId /\ b.dist[x] = Inf
      BY <1>8, <2>2
    <3> QED BY <3>1, <3>2, <3>3 DEF Marked
  <2> QED BY <1>1, <1>2, <1>10, <2>3, <2>4
<1> QED BY <1>13, <1>14

(* After the upward search a node has its right label or an arc down to it   *)
(* from a node that has, if it is reached at all.                           *)
LEMMA SweepFinds ==
  ASSUME NEW nodes, NEW level, NEW gap, NEW up, NEW down, HalfOf(nodes, level, gap, up, down),
         NEW start, NEW best, BestIs(nodes, gap, start, best),
         NEW qu, NEW fl, NEW tent, NEW pn, NEW pa, IsLive(nodes, level, gap, up, start, best, qu, fl, tent, pn, pa),
         DOMAIN qu = {}, NEW x \in nodes, best[x] < Inf
  PROVE  \/ x \in fl /\ tent[x] = best[x]
         \/ \E y \in nodes : <<x, y>> \in DOMAIN down /\ best[y] + down[<<x, y>>] = best[x]
<1>1. PICK Z : Z = {z \in nodes : best[z] + gap[<<z, x>>] = best[x]}
  OBVIOUS
<1>2. best[x] \in Nat /\ gap[<<x, x>>] = 0 /\ x \in Z
  <2>1. best[x] \in Nat /\ gap[<<x, x>>] = 0
    BY DEF HalfOf, GapIs, BestIs
  <2> QED BY <1>1, <2>1
<1>3. PICK z \in Z : \A y \in Z : level[y] <= level[z]
  BY <1>1, <1>2, HighestExists DEF HalfOf
<1>4. z \in nodes /\ best[z] + gap[<<z, x>>] = best[x]
  BY <1>1
<1>5. CASE z = x
  <2>1. IsTop(nodes, level, gap, best, x)
    BY <1>1, <1>3, <1>5 DEF IsTop
  <2>2. x \in Tights(gap, best, fl, tent, x)
    BY <2>1 DEF IsLive, Progresses
  <2> QED BY <2>2 DEF Tights
<1>6. CASE z # x
  <2>1. level[x] < level[z]
    <3>1. level[x] <= level[z] /\ level[x] \in Nat /\ level[z] \in Nat
      BY <1>2, <1>3, <1>4 DEF HalfOf, LevelIs
    <3>2. level[x] # level[z]
      BY <1>4, <1>6 DEF HalfOf, LevelIs
    <3> QED BY <3>1, <3>2
  <2>2. best[z] \in Nat /\ gap[<<z, x>>] \in Nat
    BY <1>4 DEF BestIs, HalfOf, GapIs
  <2>3. gap[<<z, x>>] < Inf
    BY <1>2, <1>4, <2>2, InfAssumption
  <2>4. PICK y \in nodes : <<x, y>> \in DOMAIN down /\ down[<<x, y>>] + gap[<<z, y>>] = gap[<<z, x>>]
    BY <1>4, <2>1, <2>3 DEF HalfOf, DownIs
  <2>5. down[<<x, y>>] \in Nat /\ gap[<<y, x>>] <= down[<<x, y>>]
    BY <2>4 DEF HalfOf, DownIs
  <2>6. gap[<<z, y>>] \in Nat /\ gap[<<y, x>>] \in Nat
    BY <1>4 DEF HalfOf, GapIs
  <2>7. best[y] \in Nat /\ best[y] <= best[z] + gap[<<z, y>>] /\ best[x] <= best[y] + gap[<<y, x>>]
    BY <1>4 DEF BestIs
  <2>8. best[y] + down[<<x, y>>] = best[x]
    <3>1. PICK a, b, c, e, f, g, k : /\ a = best[z] /\ b = gap[<<z, x>>] /\ c = best[x] /\ e = down[<<x, y>>]
                                     /\ f = gap[<<z, y>>] /\ g = gap[<<y, x>>] /\ k = best[y]
      OBVIOUS
    <3>2. a + b = c /\ e + f = b /\ k <= a + f /\ c <= k + g /\ g <= e
      BY <1>4, <2>4, <2>5, <2>7, <3>1
    <3>3. a \in Nat /\ b \in Nat /\ c \in Nat /\ e \in Nat /\ f \in Nat /\ g \in Nat /\ k \in Nat
      BY <1>2, <2>2, <2>5, <2>6, <2>7, <3>1
    <3>4. k + e = c
      BY <3>2, <3>3
    <3> QED BY <3>1, <3>4
  <2> QED BY <2>4, <2>8
<1> QED BY <1>5, <1>6

(* What a side holds that the sweep is to turn into distances.               *)
IsReady(nodes, down, best, fl, tent) ==
  \A x \in nodes :
    /\ best[x] \in Nat /\ best[x] <= Inf
    /\ \A y \in nodes : <<x, y>> \in DOMAIN down => down[<<x, y>>] \in Nat /\ best[x] <= best[y] + down[<<x, y>>]
    /\ x \in fl => tent[x] \in Nat /\ best[x] <= tent[x] /\ tent[x] <= Inf
    /\ best[x] < Inf => \/ x \in fl /\ tent[x] = best[x]
                        \/ \E y \in nodes : <<x, y>> \in DOMAIN down /\ best[y] + down[<<x, y>>] = best[x]
LEMMA LiveIsReady ==
  ASSUME NEW nodes, NEW h, NEW clean, NEW D, NEW d, NEW src, Given(nodes, h, clean, D, d, src),
         NEW qu, NEW fl, NEW tent, NEW pn, NEW pa, IsLiveAt(nodes, h, clean, D, d, src, qu, fl, tent, pn, pa),
         DOMAIN qu = {}
  PROVE  IsReady(nodes, ArcWeights(h, Opposite(d)), Bests(nodes, h, D, d, src), fl, tent)
<1>1. PICK gap : gap = Gaps(nodes, h, D, d)
  OBVIOUS
<1>2. PICK best : best = Bests(nodes, h, D, d, src)
  OBVIOUS
<1>3. PICK start : start = Starts(h, src)
  OBVIOUS
<1>4. PICK up : up = ArcWeights(h, d)
  OBVIOUS
<1>5. PICK down : down = ArcWeights(h, Opposite(d))
  OBVIOUS
<1>6. BestIs(nodes, gap, start, best)
  BY <1>1, <1>2, <1>3 DEF Given
<1>7. PICK level \in [nodes -> nodes] : IsLevels(nodes, h, clean, D, level)
  BY DEF Given
<1>8. HalfOf(nodes, level, gap, up, down)
  BY <1>1, <1>4, <1>5, <1>7 DEF Given
<1>9. IsLive(nodes, level, gap, up, start, best, qu, fl, tent, pn, pa)
  BY <1>1, <1>2, <1>3, <1>4, <1>7 DEF IsLiveAt, IsLive
<1>10. ASSUME NEW x \in nodes
       PROVE  /\ best[x] \in Nat /\ best[x] <= Inf
              /\ x \in fl => tent[x] \in Nat /\ best[x] <= tent[x] /\ tent[x] <= Inf
  <2>1. best[x] \in Nat /\ best[x] <= Inf
    BY <1>6 DEF BestIs
  <2>2. x \in fl => tent[x] \in Nat /\ best[x] <= tent[x] /\ tent[x] <= Inf
    BY <1>9 DEF IsLive, IsLabelled
  <2> QED BY <2>1, <2>2
<1>11. ASSUME NEW x \in nodes, NEW y \in nodes, <<x, y>> \in DOMAIN down
       PROVE  down[<<x, y>>] \in Nat /\ best[x] <= best[y] + down[<<x, y>>]
  <2>1. down[<<x, y>>] \in Nat /\ gap[<<y, x>>] <= down[<<x, y>>]
    BY <1>8, <1>11 DEF HalfOf, DownIs
  <2>2. gap[<<y, x>>] \in Nat
    BY <1>8 DEF HalfOf, GapIs
  <2>3. best[x] <= best[y] + gap[<<y, x>>] /\ best[x] \in Nat /\ best[y] \in Nat
    BY <1>6 DEF BestIs
  <2> QED BY <2>1, <2>2, <2>3
<1>12. ASSUME NEW x \in nodes, best[x] < Inf
       PROVE  \/ x \in fl /\ tent[x] = best[x]
              \/ \E y \in nodes : <<x, y>> \in DOMAIN down /\ best[y] + down[<<x, y>>] = best[x]
  BY <1>6, <1>8, <1>9, <1>12, SweepFinds
<1> QED BY <1>2, <1>5, <1>10, <1>11, <1>12 DEF IsReady

-----------------------------------------------------------------------------
(* The selected nodes come from the highest down: what has an arc down to a  *)
(* node is swept before it.                                                 *)
Downward(nodes, down, sel, number) ==
  /\ number \in Nat
  /\ \A i \in 0 .. number - 1 :
       /\ sel[i] \in nodes
       /\ \A y \in nodes : <<sel[i], y>> \in DOMAIN down => \E j \in 0 .. i - 1 : sel[j] = y
  /\ \A i, j \in 0 .. number - 1 : sel[i] = sel[j] => i = j
SweptSoFar(nodes, best, fl, tent, sel, i, a) ==
  /\ IsSweeper(nodes, a)
  /\ \A j \in 0 .. i - 1 : a.dist[sel[j]] = best[sel[j]]
  /\ \A v \in nodes : (\A j \in 0 .. i - 1 : sel[j] # v) => a.dist[v] = tent[v] /\ (v \in a.flag <=> v \in fl)
LEMMA BeforeStep ==
  ASSUME NEW nodes, NEW down, NEW best, NEW fl, NEW tent, IsReady(nodes, down, best, fl, tent),
         NEW sel, NEW number, Downward(nodes, down, sel, number), NEW i \in 0 .. number - 1,
         NEW a, SweptSoFar(nodes, best, fl, tent, sel, i, a), NEW x, x = sel[i]
  PROVE  /\ x \in nodes /\ \A j \in 0 .. i - 1 : sel[j] # x
         /\ Own(a, x) = IF x \in fl THEN tent[x] ELSE Inf
         /\ \A y \in nodes : <<x, y>> \in DOMAIN down => a.dist[y] = best[y]
         /\ ViasAre(nodes, down, x, a) /\ best[x] <= Own(a, x)
<1>1. x \in nodes /\ \A y \in nodes : <<x, y>> \in DOMAIN down => \E j \in 0 .. i - 1 : sel[j] = y
  BY DEF Downward
<1>2. \A j \in 0 .. i - 1 : sel[j] # x
  <2> SUFFICES ASSUME NEW j \in 0 .. i - 1, sel[j] = x PROVE FALSE
    OBVIOUS
  <2>1. number \in Nat
    BY DEF Downward
  <2>2. j \in 0 .. number - 1 /\ j # i
    BY <2>1
  <2> QED BY <2>2 DEF Downward
<1>3. a.dist[x] = tent[x] /\ (x \in a.flag <=> x \in fl)
  BY <1>1, <1>2 DEF SweptSoFar
<1>4. \A y \in nodes : <<x, y>> \in DOMAIN down => a.dist[y] = best[y]
  BY <1>1 DEF SweptSoFar
<1>5. Own(a, x) = IF x \in fl THEN tent[x] ELSE Inf
  BY <1>3 DEF Own
<1>6. Own(a, x) \in Nat /\ best[x] <= Own(a, x)
  BY <1>1, <1>5, InfAssumption DEF IsReady
<1>7. ViasAre(nodes, down, x, a)
  <2>1. \A y \in nodes : <<x, y>> \in DOMAIN down => best[y] \in Nat /\ down[<<x, y>>] \in Nat
    BY <1>1 DEF IsReady
  <2> QED BY <1>4, <1>6, <2>1 DEF ViasAre
<1> QED BY <1>1, <1>2, <1>4, <1>5, <1>6, <1>7

(* One step of the sweep gives the next selected node its best distance.    *)
LEMMA AfterStep ==
  ASSUME NEW nodes, NEW down, NEW best, NEW fl, NEW tent, IsReady(nodes, down, best, fl, tent),
         NEW sel, NEW number, Downward(nodes, down, sel, number), NEW i \in 0 .. number - 1,
         NEW a, SweptSoFar(nodes, best, fl, tent, sel, i, a), NEW b, Chosen(nodes, down, sel[i], a, b)
  PROVE  SweptSoFar(nodes, best, fl, tent, sel, i + 1, b)
<1>1. PICK x : x = sel[i]
  OBVIOUS
<1>2. /\ x \in nodes /\ \A j \in 0 .. i - 1 : sel[j] # x
      /\ Own(a, x) = IF x \in fl THEN tent[x] ELSE Inf
      /\ \A y \in nodes : <<x, y>> \in DOMAIN down => a.dist[y] = best[y]
      /\ ViasAre(nodes, down, x, a) /\ best[x] <= Own(a, x)
  BY <1>1, BeforeStep
<1>3. Chosen(nodes, down, x, a, b)
  BY <1>1
<1>4. best[x] \in Nat /\ best[x] <= Inf /\ Own(a, x) \in Nat
  BY <1>2 DEF IsReady, ViasAre
<1>5. b.dist[x] \in Nat /\ b.dist[x] <= Own(a, x)
  BY <1>3 DEF Chosen
<1>6. best[x] <= b.dist[x]
  <2>1. CASE b.dist[x] = Own(a, x)
    BY <1>2, <2>1
  <2>2. CASE \E y \in nodes : <<x, y>> \in DOMAIN down /\ b.dist[x] = a.dist[y] + down[<<x, y>>]
    BY <1>2, <2>2 DEF IsReady
  <2> QED BY <1>3, <2>1, <2>2 DEF Chosen
<1>7. b.dist[x] <= best[x]
  <2>1. CASE best[x] < Inf
    <3>1. CASE x \in fl /\ tent[x] = best[x]
      BY <1>2, <1>5, <3>1
    <3>2. CASE \E y \in nodes : <<x, y>> \in DOMAIN down /\ best[y] + down[<<x, y>>] = best[x]
      <4>1. PICK y \in nodes : <<x, y>> \in DOMAIN down /\ best[y] + down[<<x, y>>] = best[x]
        BY <3>2
      <4>2. b.dist[x] <= a.dist[y] + down[<<x, y>>] /\ a.dist[y] = best[y]
        BY <1>2, <1>3, <4>1 DEF Chosen
      <4> QED BY <4>1, <4>2
    <3> QED BY <1>2, <2>1, <3>1, <3>2 DEF IsReady
  <2>2. CASE ~(best[x] < Inf)
    <3>1. Own(a, x) <= Inf
      BY <1>2, InfAssumption DEF IsReady
    <3> QED BY <1>4, <1>5, <2>2, <3>1, InfAssumption
  <2> QED BY <2>1, <2>2
<1>8. b.dist[x] = best[x]
  BY <1>4, <1>5, <1>6, <1>7
<1>9. i \in Nat /\ \A j : j \in 0 .. (i + 1) - 1 <=> j \in 0 .. i - 1 \/ j = i
  <2>1. number \in Nat
    BY DEF Downward
  <2> QED BY <2>1
<1>10. ASSUME NEW j \in 0 .. i - 1 PROVE b.dist[sel[j]] = best[sel[j]]
  <2>1. sel[j] \in nodes /\ sel[j] # x
    <3>1. number \in Nat
      BY DEF Downward
    <3>2. j \in 0 .. number - 1
      BY <3>1
    <3> QED BY <1>2, <3>2 DEF Downward
  <2> QED BY <1>3, <2>1 DEF Chosen, SweptSoFar
<1>11. ASSUME NEW v \in nodes, \A j \in 0 .. (i + 1) - 1 : sel[j] # v
       PROVE  b.dist[v] = tent[v] /\ (v \in b.flag <=> v \in fl)
  <2>1. v # x /\ \A j \in 0 .. i - 1 : sel[j] # v
    BY <1>1, <1>9, <1>11
  <2> QED BY <1>3, <2>1 DEF Chosen, SweptSoFar
<1>12. IsSweeper(nodes, b)
  BY <1>3 DEF Chosen
<1> QED BY <1>1, <1>8, <1>9, <1>10, <1>11, <1>12 DEF SweptSoFar

(* A node that was swept either has its label or the arc it was improved     *)
(* over; the others are as the search left them.                            *)
Settled(nodes, down, best, fl, tent, pa, a, x) ==
  /\ x \in a.flag => x \in fl /\ tent[x] = best[x] /\ (a.parc[x] = pa[x] \/ tent[x] = Inf)
  /\ x \notin a.flag =>
       /\ x \in fl => best[x] < tent[x]
       /\ \/ a.parc[x] = NoId /\ best[x] = Inf
          \/ \E y \in nodes : /\ a.parc[x] = <<x, y>> /\ <<x, y>> \in DOMAIN down
                             /\ best[y] + down[<<x, y>>] = best[x] /\ best[x] < Inf
MarkedSoFar(nodes, down, best, fl, tent, pa, sel, i, a) ==
  /\ \A j \in 0 .. i - 1 : Settled(nodes, down, best, fl, tent, pa, a, sel[j])
  /\ a.flag \subseteq fl /\ \A v \in nodes : (\A j \in 0 .. i - 1 : sel[j] # v) => a.parc[v] = pa[v]
LEMMA AfterMarking ==
  ASSUME NEW nodes, NEW down, NEW best, NEW fl, NEW tent, IsReady(nodes, down, best, fl, tent),
         NEW sel, NEW number, Downward(nodes, down, sel, number), NEW i \in 0 .. number - 1,
         NEW a, SweptSoFar(nodes, best, fl, tent, sel, i, a), NEW b, Chosen(nodes, down, sel[i], a, b),
         NEW pa, MarkedSoFar(nodes, down, best, fl, tent, pa, sel, i, a), Marked(nodes, down, sel[i], a, b)
  PROVE  MarkedSoFar(nodes, down, best, fl, tent, pa, sel, i + 1, b)
<1>1. PICK x : x = sel[i]
  OBVIOUS
<1>2. /\ x \in nodes /\ \A j \in 0 .. i - 1 : sel[j] # x
      /\ Own(a, x) = IF x \in fl THEN tent[x] ELSE Inf
      /\ \A y \in nodes : <<x, y>> \in DOMAIN down => a.dist[y] = best[y]
  BY <1>1, BeforeStep
<1>3. Chosen(nodes, down, x, a, b) /\ Marked(nodes, down, x, a, b)
  BY <1>1
<1>4. i \in Nat /\ i \in 0 .. (i + 1) - 1 /\ \A j : j \in 0 .. (i + 1) - 1 <=> j \in 0 .. i - 1 \/ j = i
  <2>1. number \in Nat
    BY DEF Downward
  <2> QED BY <2>1
<1>5. b.dist[x] = best[x]
  <2>1. SweptSoFar(nodes, best, fl, tent, sel, i + 1, b)
    BY AfterStep
  <2> QED BY <1>1, <1>4, <2>1 DEF SweptSoFar
<1>6. best[x] \in Nat /\ best[x] <= Inf /\ (x \in fl => tent[x] \in Nat /\ tent[x] <= Inf) /\ Inf \in Nat
  BY <1>2, InfAssumption DEF IsReady
<1>7. x \in a.flag <=> x \in fl
  BY <1>2 DEF SweptSoFar
<1>8. a.parc[x] = pa[x]
  BY <1>2 DEF MarkedSoFar
<1>9. Settled(nodes, down, best, fl, tent, pa, b, x)
  <2>1. CASE x \in b.flag
    <3>1. x \in fl /\ b.dist[x] = Own(a, x) /\ (b.parc[x] = a.parc[x] \/ Own(a, x) = Inf)
      BY <1>3, <1>7, <2>1 DEF Marked
    <3>2. Own(a, x) = tent[x]
      BY <1>2, <3>1
    <3>3. tent[x] = best[x] /\ (b.parc[x] = pa[x] \/ tent[x] = Inf)
      BY <1>5, <1>8, <3>1, <3>2
    <3> QED BY <2>1, <3>1, <3>3 DEF Settled
  <2>2. CASE x \notin b.flag /\ x \notin a.flag /\ b.parc[x] = NoId /\ b.dist[x] = Inf
    <3>1. x \notin fl /\ best[x] = Inf
      BY <1>5, <1>7, <2>2
    <3> QED BY <2>2, <3>1 DEF Settled
  <2>3. ASSUME x \notin b.flag, NEW y \in nodes, b.parc[x] = <<x, y>>, <<x, y>> \in DOMAIN down,
               b.dist[x] = a.dist[y] + down[<<x, y>>], b.dist[x] < Own(a, x)
        PROVE  Settled(nodes, down, best, fl, tent, pa, b, x)
    <3>1. best[y] + down[<<x, y>>] = best[x]
      BY <1>2, <1>5, <2>3
    <3>2. best[x] < Own(a, x)
      BY <1>5, <2>3
    <3>3. best[x] < Inf /\ (x \in fl => best[x] < tent[x])
      <4>1. CASE x \in fl
        <5>1. Own(a, x) = tent[x]
          BY <1>2, <4>1
        <5> QED BY <1>6, <3>2, <4>1, <5>1
      <4>2. CASE x \notin fl
        <5>1. Own(a, x) = Inf
          BY <1>2, <4>2
        <5> QED BY <3>2, <4>2, <5>1
      <4> QED BY <4>1, <4>2
    <3> QED BY <2>3, <3>1, <3>3 DEF Settled
  <2>4. CASE x \notin b.flag
    <3>1. \/ x \notin a.flag /\ b.parc[x] = NoId /\ b.dist[x] = Inf
          \/ \E y \in nodes : /\ b.parc[x] = <<x, y>> /\ <<x, y>> \in DOMAIN down
                             /\ b.dist[x] = a.dist[y] + down[<<x, y>>] /\ b.dist[x] < Own(a, x)
      BY <1>3, <2>4 DEF Marked
    <3> QED BY <2>2, <2>3, <2>4, <3>1
  <2> QED BY <2>1, <2>4
<1>10. ASSUME NEW j \in 0 .. i - 1 PROVE Settled(nodes, down, best, fl, tent, pa, b, sel[j])
  <2>1. sel[j] \in nodes /\ sel[j] # x
    <3>1. number \in Nat
      BY DEF Downward
    <3>2. j \in 0 .. number - 1
      BY <3>1
    <3> QED BY <1>2, <3>2 DEF Downward
  <2>2. PICK v : v = sel[j]
    OBVIOUS
  <2>3. Settled(nodes, down, best, fl, tent, pa, a, v)
    BY <2>2 DEF MarkedSoFar
  <2>4. b.parc[v] = a.parc[v]
    BY <1>3, <2>1, <2>2 DEF Marked
  <2>5. v \in b.flag <=> v \in a.flag
    BY <1>3, <2>1, <2>2 DEF Chosen
  <2>6. Settled(nodes, down, best, fl, tent, pa, b, v)
    BY <2>3, <2>4, <2>5 DEF Settled
  <2> QED BY <2>2, <2>6
<1>11. ASSUME NEW v \in nodes, \A j \in 0 .. (i + 1) - 1 : sel[j] # v PROVE b.parc[v] = pa[v]
  <2>1. v # x /\ \A j \in 0 .. i - 1 : sel[j] # v
    BY <1>1, <1>4, <1>11
  <2>2. a.parc[v] = pa[v] /\ b.parc[v] = a.parc[v]
    BY <1>3, <2>1 DEF Marked, MarkedSoFar
  <2> QED BY <2>2
<1>12. b.flag \subseteq fl
  BY <1>3 DEF Marked, MarkedSoFar
<1> QED BY <1>1, <1>4, <1>9, <1>10, <1>11, <1>12 DEF MarkedSoFar

(* The sweep as a recursion over the steps.                                  *)
Sweeps(d, a, sel, n, F) == F = [i \in 0 .. n |-> IF i = 0 THEN a ELSE SweepStep(d, F[i - 1], sel[i - 1])]
LEMMA SweepRecurs ==
  ASSUME NEW d, NEW a, NEW sel PROVE \A n \in Nat : \E F : Sweeps(d, a, sel, n, F)
<1>1. PICK S : S = {n \in Nat : \E F : Sweeps(d, a, sel, n, F)}
  OBVIOUS
<1>2. 0 \in S
  <2>1. PICK F : F = [i \in 0 .. 0 |-> a]
    OBVIOUS
  <2>2. \A i \in 0 .. 0 : i = 0
    OBVIOUS
  <2>3. [i \in 0 .. 0 |-> IF i = 0 THEN a ELSE SweepStep(d, F[i - 1], sel[i - 1])] = [i \in 0 .. 0 |-> a]
    BY <2>2
  <2> QED BY <1>1, <2>1, <2>3 DEF Sweeps
<1>3. ASSUME NEW n \in Nat, n \in S PROVE n + 1 \in S
  <2>1. PICK F : Sweeps(d, a, sel, n, F)
    BY <1>1, <1>3
  <2>2. PICK G : G = [i \in 0 .. n + 1 |-> IF i <= n THEN F[i] ELSE SweepStep(d, F[n], sel[n])]
    OBVIOUS
  <2>3. ASSUME NEW i \in 0 .. n + 1 PROVE G[i] = IF i = 0 THEN a ELSE SweepStep(d, G[i - 1], sel[i - 1])
    <3>1. CASE i = 0
      <4>1. G[0] = F[0] /\ F[0] = a
        BY <2>1, <2>2 DEF Sweeps
      <4> QED BY <3>1, <4>1
    <3>2. CASE i # 0
      <4>1. PICK j : j = i - 1
        OBVIOUS
      <4>2. j \in 0 .. n /\ j <= n /\ j \in 0 .. n + 1
        BY <3>2, <4>1
      <4>3. G[j] = F[j]
        BY <2>2, <4>2
      <4>4. CASE i <= n
        <5>1. i \in 0 .. n /\ G[i] = F[i]
          BY <2>2, <4>4
        <5>2. F[i] = SweepStep(d, F[i - 1], sel[i - 1])
          BY <2>1, <3>2, <5>1 DEF Sweeps
        <5> QED BY <3>2, <4>1, <4>3, <5>1, <5>2
      <4>5. CASE ~(i <= n)
        <5>1. j = n
          BY <4>1, <4>2, <4>5
        <5>2. G[i] = SweepStep(d, F[n], sel[n])
          BY <2>2, <4>5
        <5> QED BY <3>2, <4>1, <4>3, <5>1, <5>2
      <4> QED BY <4>4, <4>5
    <3> QED BY <3>1, <3>2
  <2>4. G = [i \in 0 .. n + 1 |-> IF i = 0 THEN a ELSE SweepStep(d, G[i - 1], sel[i - 1])]
    <3>1. DOMAIN G = 0 .. n + 1 /\ G = [i \in 0 .. n + 1 |-> G[i]]
      BY <2>2
    <3> QED BY <2>3, <3>1
  <2>5. Sweeps(d, a, sel, n + 1, G)
    BY <2>4 DEF Sweeps
  <2> QED BY <1>1, <2>5
<1>4. Nat \subseteq S
  BY <1>2, <1>3, InductionOnNat
<1> QED BY <1>1, <1>4

-----------------------------------------------------------------------------
(* All selected nodes are swept in the end.                                  *)
SoFar(nodes, down, best, fl, tent, pa, sel, i, a) ==
  SweptSoFar(nodes, best, fl, tent, sel, i, a) /\ MarkedSoFar(nodes, down, best, fl, tent, pa, sel, i, a)
LEMMA AllSwept ==
  ASSUME NEW d \in Dirs, Nodes \subseteq Nat, NEW best, NEW fl, NEW tent, NEW pa,
         IsReady(Nodes, ArcWeights(ch, Opposite(d)), best, fl, tent),
         NEW sel, NEW number, Downward(Nodes, ArcWeights(ch, Opposite(d)), sel, number),
         NEW a, SoFar(Nodes, ArcWeights(ch, Opposite(d)), best, fl, tent, pa, sel, 0, a), NEW F, Sweeps(d, a, sel, number, F)
  PROVE  SoFar(Nodes, ArcWeights(ch, Opposite(d)), best, fl, tent, pa, sel, number, F[number])
<1>a. PICK down : down = ArcWeights(ch, Opposite(d))
  OBVIOUS
<1>b. PICK nodes : nodes = Nodes
  OBVIOUS
<1>1. PICK S : S = {i \in Nat : i <= number => SoFar(nodes, down, best, fl, tent, pa, sel, i, F[i])}
  OBVIOUS
<1>2. number \in Nat
  BY DEF Downward
<1>3. 0 \in S
  <2>1. F[0] = a
    BY <1>2 DEF Sweeps
  <2> QED BY <1>1, <1>a, <1>b, <2>1
<1>4. ASSUME NEW i \in Nat, i \in S PROVE i + 1 \in S
  <2> SUFFICES ASSUME i + 1 <= number PROVE SoFar(nodes, down, best, fl, tent, pa, sel, i + 1, F[i + 1])
    BY <1>1
  <2>1. i \in 0 .. number - 1 /\ i + 1 \in 0 .. number /\ i + 1 # 0 /\ (i + 1) - 1 = i
    BY <1>2
  <2>2. SoFar(nodes, down, best, fl, tent, pa, sel, i, F[i])
    BY <1>1, <1>2, <1>4, <2>1
  <2>3. F[i + 1] = SweepStep(d, F[i], sel[i])
    <3>1. PICK k : k = i + 1
      OBVIOUS
    <3>2. k \in 0 .. number /\ k # 0 /\ k - 1 = i
      BY <2>1, <3>1
    <3>3. F[k] = SweepStep(d, F[k - 1], sel[k - 1])
      BY <3>2 DEF Sweeps
    <3> QED BY <3>1, <3>2, <3>3
  <2>4. PICK x : x = sel[i]
    OBVIOUS
  <2>5. /\ IsReady(nodes, down, best, fl, tent) /\ Downward(nodes, down, sel, number)
        /\ SweptSoFar(nodes, best, fl, tent, sel, i, F[i]) /\ MarkedSoFar(nodes, down, best, fl, tent, pa, sel, i, F[i])
    BY <1>a, <1>b, <2>2 DEF SoFar
  <2>6. x \in nodes /\ ViasAre(nodes, down, x, F[i])
    BY <2>1, <2>4, <2>5, BeforeStep
  <2>7. IsSweeper(nodes, F[i])
    BY <2>5 DEF SweptSoFar
  <2>8. /\ Chosen(Nodes, ArcWeights(ch, Opposite(d)), x, F[i], SweepStep(d, F[i], x))
        /\ Marked(Nodes, ArcWeights(ch, Opposite(d)), x, F[i], SweepStep(d, F[i], x))
    BY <1>a, <1>b, <2>6, <2>7, SweepStepChooses
  <2>9. Chosen(nodes, down, sel[i], F[i], F[i + 1]) /\ Marked(nodes, down, sel[i], F[i], F[i + 1])
    BY <1>a, <1>b, <2>3, <2>4, <2>8
  <2>10. SweptSoFar(nodes, best, fl, tent, sel, i + 1, F[i + 1])
    BY <2>1, <2>5, <2>9, AfterStep
  <2>11. MarkedSoFar(nodes, down, best, fl, tent, pa, sel, i + 1, F[i + 1])
    BY <2>1, <2>5, <2>9, AfterMarking
  <2> QED BY <2>10, <2>11 DEF SoFar
<1>5. Nat \subseteq S
  BY <1>3, <1>4, InductionOnNat
<1>6. number \in S
  BY <1>2, <1>5
<1> QED BY <1>1, <1>2, <1>6, <1>a, <1>b

(* What a side is left with explains every distance it found.                *)
LEMMA MarksTrace ==
  ASSUME NEW nodes, NEW h, NEW clean, NEW D, NEW d \in Dirs, NEW src, Given(nodes, h, clean, D, d, src),
         NEW qu, NEW fl, NEW tent, NEW pn, NEW pa, IsLiveAt(nodes, h, clean, D, d, src, qu, fl, tent, pn, pa),
         DOMAIN qu = {}, NEW sel, NEW number, Downward(nodes, ArcWeights(h, Opposite(d)), sel, number), NEW r,
         SoFar(nodes, ArcWeights(h, Opposite(d)), Bests(nodes, h, D, d, src), fl, tent, pa, sel, number, r)
  PROVE  IsSweptAt(nodes, h, D, d, src, sel, number, r.flag, r.dist, pn, r.parc)
<1>1. PICK gap : gap = Gaps(nodes, h, D, d)
  OBVIOUS
<1>2. PICK best : best = Bests(nodes, h, D, d, src)
  OBVIOUS
<1>3. PICK start : start = Starts(h, src)
  OBVIOUS
<1>4. PICK up : up = ArcWeights(h, d)
  OBVIOUS
<1>5. PICK down : down = ArcWeights(h, Opposite(d))
  OBVIOUS
<1>6. BestIs(nodes, gap, start, best)
  BY <1>1, <1>2, <1>3 DEF Given
<1>7. PICK level \in [nodes -> nodes] : IsLevels(nodes, h, clean, D, level)
  BY DEF Given
<1>8. HalfOf(nodes, level, gap, up, down)
  BY <1>1, <1>4, <1>5, <1>7 DEF Given
<1>9. IsLabelled(nodes, up, start, best, qu, fl, tent, pn, pa)
  BY <1>2, <1>3, <1>4 DEF IsLiveAt
<1>10. IsReady(nodes, down, best, fl, tent)
  BY <1>2, <1>5, LiveIsReady
<1>11. SweptSoFar(nodes, best, fl, tent, sel, number, r) /\ MarkedSoFar(nodes, down, best, fl, tent, pa, sel, number, r)
  BY <1>2, <1>5 DEF SoFar
<1>12. PICK C : C = {sel[j] : j \in 0 .. number - 1}
  OBVIOUS
<1>13. ASSUME NEW x \in nodes
       PROVE  /\ x \in C => r.dist[x] = best[x] /\ Settled(nodes, down, best, fl, tent, pa, r, x)
              /\ x \notin C => r.dist[x] = tent[x] /\ r.parc[x] = pa[x] /\ (x \in r.flag <=> x \in fl)
  <2>1. CASE x \in C
    <3>1. PICK j \in 0 .. number - 1 : x = sel[j]
      BY <1>12, <2>1
    <3> QED BY <1>11, <2>1, <3>1 DEF SweptSoFar, MarkedSoFar
  <2>2. CASE x \notin C
    <3>1. \A j \in 0 .. number - 1 : sel[j] # x
      BY <1>12, <2>2
    <3> QED BY <1>11, <2>2, <3>1 DEF SweptSoFar, MarkedSoFar
  <2> QED BY <2>1, <2>2
<1>14. ASSUME NEW x \in nodes
       PROVE  /\ best[x] \in Nat /\ best[x] <= Inf
              /\ x \in fl => tent[x] \in Nat /\ tent[x] <= Inf /\ best[x] <= tent[x]
  BY <1>10 DEF IsReady
<1>a. ASSUME NEW x \in fl, pn[x] = NoId PROVE x \in DOMAIN start /\ tent[x] = start[x]
  BY <1>9, <1>a DEF IsLabelled
<1>b. ASSUME NEW x \in fl, pn[x] # NoId
      PROVE  pn[x] \in fl /\ pa[x] = <<pn[x], x>> /\ pa[x] \in DOMAIN up /\ tent[pn[x]] + up[pa[x]] <= tent[x] /\ tent[x] < Inf
  BY <1>9, <1>b DEF IsLabelled
<1>15. r.flag \subseteq fl /\ fl \subseteq nodes
  BY <1>9, <1>11 DEF MarkedSoFar, IsLabelled
<1>16. ASSUME NEW y \in r.flag
       PROVE  y \in fl /\ y \in nodes /\ r.dist[y] = tent[y] /\ (pn[y] # NoId => r.parc[y] = pa[y])
  <2>1. y \in fl /\ y \in nodes
    BY <1>15
  <2>2. r.dist[y] = tent[y] /\ (r.parc[y] = pa[y] \/ tent[y] = Inf)
    <3>1. CASE y \in C
      BY <1>13, <2>1, <3>1 DEF Settled
    <3>2. CASE y \notin C
      BY <1>13, <2>1, <3>2
    <3> QED BY <3>1, <3>2
  <2>3. ASSUME pn[y] # NoId PROVE tent[y] # Inf
    <3>1. tent[y] \in Nat /\ tent[y] < Inf /\ Inf \in Nat
      BY <1>14, <1>b, <2>1, <2>3, InfAssumption
    <3> QED BY <3>1
  <2> QED BY <2>1, <2>2, <2>3
<1>17. ASSUME NEW y \in r.flag
       PROVE  /\ r.dist[y] \in Nat
              /\ pn[y] # NoId => pn[y] \in nodes /\ r.parc[y] = <<pn[y], y>> /\ r.parc[y] \in DOMAIN up
  <2>1. y \in fl /\ y \in nodes /\ r.dist[y] = tent[y] /\ (pn[y] # NoId => r.parc[y] = pa[y])
    BY <1>16
  <2>2. tent[y] \in Nat
    BY <1>14, <2>1
  <2>3. ASSUME pn[y] # NoId PROVE pn[y] \in nodes /\ pa[y] = <<pn[y], y>> /\ pa[y] \in DOMAIN up
    BY <1>b, <1>15, <2>1, <2>3
  <2>4. ASSUME pn[y] # NoId PROVE pn[y] \in nodes /\ r.parc[y] = <<pn[y], y>> /\ r.parc[y] \in DOMAIN up
    <3>1. r.parc[y] = pa[y]
      BY <2>1, <2>4
    <3> QED BY <2>3, <2>4, <3>1
  <2> QED BY <2>1, <2>2, <2>4
<1>18. ASSUME NEW y \in r.flag, r.dist[y] = best[y]
       PROVE  IF pn[y] = NoId THEN y \in DOMAIN start /\ r.dist[y] = start[y]
              ELSE /\ pn[y] \in r.flag /\ r.dist[pn[y]] = best[pn[y]]
                   /\ r.dist[pn[y]] + up[r.parc[y]] <= r.dist[y]
  <2>1. y \in fl /\ y \in nodes /\ r.dist[y] = tent[y] /\ tent[y] = best[y] /\ (pn[y] # NoId => r.parc[y] = pa[y])
    BY <1>16, <1>18
  <2>2. CASE pn[y] = NoId
    <3>1. y \in DOMAIN start /\ tent[y] = start[y]
      BY <1>a, <2>1, <2>2
    <3> QED BY <2>1, <2>2, <3>1
  <2>3. CASE pn[y] # NoId
    <3>1. PICK p : p = pn[y]
      OBVIOUS
    <3>2. p \in fl /\ p \in nodes /\ pa[y] = <<p, y>> /\ <<p, y>> \in DOMAIN up /\ tent[p] + up[<<p, y>>] <= tent[y]
      <4>1. pn[y] \in fl /\ pa[y] = <<pn[y], y>> /\ pa[y] \in DOMAIN up /\ tent[pn[y]] + up[pa[y]] <= tent[y]
        BY <1>b, <2>1, <2>3
      <4>2. pa[y] = <<p, y>>
        BY <3>1, <4>1
      <4> QED BY <1>15, <3>1, <4>1, <4>2
    <3>3. up[<<p, y>>] \in Nat /\ gap[<<p, y>>] <= up[<<p, y>>]
      BY <1>8, <3>2 DEF HalfOf, UpIs
    <3>4. gap[<<p, y>>] \in Nat
      BY <1>8, <2>1, <3>2 DEF HalfOf, GapIs
    <3>5. best[y] <= best[p] + gap[<<p, y>>]
      BY <1>6, <2>1, <3>2 DEF BestIs
    <3>6. best[p] \in Nat /\ best[y] \in Nat /\ tent[p] \in Nat /\ best[p] <= tent[p]
      BY <1>14, <2>1, <3>2
    <3>7. tent[p] = best[p]
      <4>1. PICK k, l, m, n, e : k = up[<<p, y>>] /\ l = gap[<<p, y>>] /\ m = best[p] /\ n = best[y] /\ e = tent[p]
        OBVIOUS
      <4>2. k \in Nat /\ l \in Nat /\ m \in Nat /\ n \in Nat /\ e \in Nat
        BY <3>3, <3>4, <3>6, <4>1
      <4>3. e + k <= n /\ n <= m + l /\ l <= k /\ m <= e
        BY <2>1, <3>2, <3>3, <3>5, <3>6, <4>1
      <4>4. e = m
        BY <4>2, <4>3
      <4> QED BY <4>1, <4>4
    <3>8. p \in r.flag
      <4>1. CASE p \in C
        <5>1. Settled(nodes, down, best, fl, tent, pa, r, p)
          BY <1>13, <3>2, <4>1
        <5>2. ~(best[p] < tent[p])
          BY <3>6, <3>7
        <5> QED BY <3>2, <5>1, <5>2 DEF Settled
      <4>2. CASE p \notin C
        BY <1>13, <3>2, <4>2
      <4> QED BY <4>1, <4>2
    <3>9. r.dist[p] = tent[p]
      BY <1>16, <3>8
    <3>10. r.parc[y] = <<p, y>>
      BY <2>1, <2>3, <3>2
    <3> QED BY <2>1, <2>3, <3>1, <3>2, <3>7, <3>8, <3>9, <3>10
  <2> QED BY <2>2, <2>3
<1>19. ASSUME NEW i \in 0 .. number - 1, sel[i] \notin r.flag
       PROVE  IF r.parc[sel[i]] = NoId THEN r.dist[sel[i]] = Inf
              ELSE \E y \in nodes : /\ r.parc[sel[i]] = <<sel[i], y>> /\ <<sel[i], y>> \in DOMAIN down
                                    /\ r.dist[y] + down[<<sel[i], y>>] = r.dist[sel[i]] /\ r.dist[sel[i]] < Inf
  <2>1. PICK x : x = sel[i]
    OBVIOUS
  <2>2. x \in nodes /\ x \in C /\ \A y \in nodes : <<x, y>> \in DOMAIN down => \E j \in 0 .. i - 1 : sel[j] = y
    <3>1. sel[i] \in nodes /\ \A y \in nodes : <<sel[i], y>> \in DOMAIN down => \E j \in 0 .. i - 1 : sel[j] = y
      <4>1. Downward(nodes, down, sel, number)
        BY <1>5
      <4> QED BY <4>1 DEF Downward
    <3>2. x \in C
      BY <1>12, <2>1
    <3> QED BY <2>1, <3>1, <3>2
  <2>3. r.dist[x] = best[x] /\ Settled(nodes, down, best, fl, tent, pa, r, x)
    BY <1>13, <2>2
  <2>4. CASE r.parc[x] = NoId /\ best[x] = Inf
    BY <2>1, <2>3, <2>4
  <2>5. ASSUME NEW y \in nodes, r.parc[x] = <<x, y>>, <<x, y>> \in DOMAIN down,
               best[y] + down[<<x, y>>] = best[x], best[x] < Inf
        PROVE  /\ r.parc[x] # NoId
               /\ r.dist[y] + down[<<x, y>>] = r.dist[x] /\ r.dist[x] < Inf
    <3>1. y \in C
      <4>1. number \in Nat
        BY DEF Downward
      <4>2. PICK j \in 0 .. i - 1 : sel[j] = y
        BY <2>2, <2>5
      <4>3. j \in 0 .. number - 1
        BY <4>1
      <4> QED BY <1>12, <4>2, <4>3
    <3>2. r.dist[y] = best[y]
      BY <1>13, <3>1
    <3>3. <<x, y>> \in Nat \X Nat
      <4>1. nodes \subseteq Nat
        BY DEF Given
      <4> QED BY <2>2, <4>1
    <3> QED BY <2>3, <2>5, <3>2, <3>3, NoIdAssumption
  <2>6. \/ r.parc[x] = NoId /\ best[x] = Inf
        \/ \E y \in nodes : /\ r.parc[x] = <<x, y>> /\ <<x, y>> \in DOMAIN down
                           /\ best[y] + down[<<x, y>>] = best[x] /\ best[x] < Inf
    BY <1>19, <2>1, <2>3 DEF Settled
  <2> QED BY <2>1, <2>4, <2>5, <2>6
<1>20. IsTraced(nodes, up, down, start, best, sel, number, r.flag, r.dist, pn, r.parc)
  <2>1. r.flag \subseteq nodes
    BY <1>15
  <2> QED BY <1>17, <1>18, <1>19, <2>1 DEF IsTraced
<1>21. IsSwept(best, sel, number, r.dist)
  BY <1>11 DEF SweptSoFar, IsSwept
<1> QED BY <1>2, <1>3, <1>4, <1>5, <1>20, <1>21 DEF IsSweptAt

(* The sweep keeps the invariant of the query.                              *)
LEMMA SweepOK ==
  ASSUME HInv, IInv, QInv, pc = "built", UNCHANGED buildVars, NEW d \in Dirs, Sweep(d)
  PROVE  QueryTypes' /\ QueryOK'
<1>1. QueryTypes /\ QueryOK
  BY DEF QInv
<1>2. PICK o \in Dirs : o = Opposite(d) /\ o # d
  BY DEF Opposite, Dirs
<1>3. PICK a, sel, number : /\ a = [dist |-> dist[d], parc |-> parc[d], flag |-> flag[d]]
                            /\ sel = dist[o] /\ number = meet
  OBVIOUS
<1>4. PICK F : F = CHOOSE G : Sweeps(d, a, sel, number, G)
  OBVIOUS
<1>5. /\ st = SearchState(o) /\ DOMAIN q[d] = {} /\ st' = RunState(o)
      /\ dist' = [dist EXCEPT ![d] = F[number].dist] /\ parc' = [parc EXCEPT ![d] = F[number].parc]
      /\ flag' = [flag EXCEPT ![d] = F[number].flag]
      /\ q' = q /\ pnode' = pnode /\ meet' = meet /\ count' = count /\ asked' = asked
  BY <1>2, <1>3, <1>4 DEF Sweep, Sweeps
<1>6. LiveSide(d) /\ PinsOK(o)
  BY <1>1, <1>2, <1>5 DEF QueryOK
<1>7. Given(Nodes, ch, CleanGraph, TrueDistance, d, asked.src[d])
  BY <1>1, SideIsGiven
<1>8. Nodes \subseteq Nat
  BY <1>7 DEF Given
<1>9. PICK best : best = Bests(Nodes, ch, TrueDistance, d, asked.src[d])
  OBVIOUS
<1>10. IsReady(Nodes, ArcWeights(ch, Opposite(d)), best, flag[d], dist[d])
  BY <1>5, <1>6, <1>7, <1>9, LiveIsReady DEF LiveSide
<1>11. Downward(Nodes, ArcWeights(ch, Opposite(d)), sel, number)
  <2>1. DOMAIN ArcWeights(ch, o) = DOMAIN ch.side[o]
    BY DEF ArcWeights
  <2> QED BY <1>2, <1>3, <1>6, <2>1 DEF PinsOK, ArePins, Downward
<1>12. number \in Nat
  BY <1>11 DEF Downward
<1>13. Sweeps(d, a, sel, number, F)
  <2>1. \E G : Sweeps(d, a, sel, number, G)
    BY <1>12, SweepRecurs
  <2> QED BY <1>4, <2>1
<1>14. DOMAIN dist[d] = Nodes /\ DOMAIN parc[d] = Nodes
  BY <1>1 DEF QueryTypes, Shaped
<1>15. SoFar(Nodes, ArcWeights(ch, Opposite(d)), best, flag[d], dist[d], parc[d], sel, 0, a)
  <2>1. a.dist = dist[d] /\ a.parc = parc[d] /\ a.flag = flag[d] /\ DOMAIN a = {"dist", "parc", "flag"}
    BY <1>3
  <2>2. \A j : j \notin 0 .. 0 - 1
    OBVIOUS
  <2>3. SweptSoFar(Nodes, best, flag[d], dist[d], sel, 0, a)
    BY <1>14, <2>1, <2>2 DEF SweptSoFar, IsSweeper
  <2>4. MarkedSoFar(Nodes, ArcWeights(ch, Opposite(d)), best, flag[d], dist[d], parc[d], sel, 0, a)
    BY <2>1, <2>2 DEF MarkedSoFar
  <2> QED BY <2>3, <2>4 DEF SoFar
<1>16. SoFar(Nodes, ArcWeights(ch, Opposite(d)), best, flag[d], dist[d], parc[d], sel, number, F[number])
  BY <1>8, <1>10, <1>11, <1>13, <1>15, AllSwept
<1>17. PICK r : r = F[number]
  OBVIOUS
<1>18. /\ dist'[d] = r.dist /\ SameBut(d, dist, dist') /\ parc'[d] = r.parc /\ SameBut(d, parc, parc')
       /\ flag'[d] = r.flag /\ SameBut(d, flag, flag')
  <2>1. d \in DOMAIN dist /\ d \in DOMAIN parc /\ d \in DOMAIN flag
    BY <1>1 DEF QueryTypes, Shaped
  <2> QED BY <1>5, <1>17, <2>1, ExceptIs
<1>19. DOMAIN r.dist = Nodes /\ DOMAIN r.parc = Nodes
  BY <1>16, <1>17 DEF SoFar, SweptSoFar, IsSweeper
<1>20. QueryTypes'
  <2>1. Shaped(Nodes, q, flag, dist, pnode, parc)
    BY <1>1 DEF QueryTypes
  <2>2. OtherSideStays(d, q, flag, dist, pnode, parc, q', flag', dist', pnode', parc')
    BY <1>5, <1>18 DEF OtherSideStays, SameBut
  <2>3. DOMAIN dist'[d] = Nodes /\ DOMAIN pnode'[d] = Nodes /\ DOMAIN parc'[d] = Nodes
    BY <1>5, <1>18, <1>19, <2>1 DEF Shaped
  <2>4. Shaped(Nodes, q', flag', dist', pnode', parc')
    BY <2>1, <2>2, <2>3, ShapesStay
  <2> QED BY <1>1, <1>5, <2>4, QueryTermsNext DEF QueryTypes
<1>21. dist'[o] = dist[o] /\ pnode'[o] = pnode[o]
  BY <1>2, <1>5, <1>18 DEF SameBut
<1>22. PinsOK(o)'
  BY <1>5, <1>6, <1>21, QueryTermsNext DEF PinsOK
<1>23. SweptOK(d)'
  <2>1. IsSweptAt(Nodes, ch, TrueDistance, d, asked.src[d], sel, number, r.flag, r.dist, pnode[d], r.parc)
    BY <1>5, <1>6, <1>7, <1>9, <1>11, <1>16, <1>17, MarksTrace DEF LiveSide
  <2> QED BY <1>2, <1>3, <1>5, <1>18, <1>21, <2>1, QueryTermsNext
<1> QED BY <1>2, <1>5, <1>20, <1>22, <1>23, InPinnedRun

-----------------------------------------------------------------------------
(* A query object nobody used yet fits any hierarchy.                        *)
LEMMA UnusedIsFresh ==
  ASSUME QueryInit
  PROVE  QueryTypes /\ st = "initialized" /\ \A d \in Dirs : FreshSide(d)
<1>1. /\ st = "initialized" /\ q = BothSides(NoFn) /\ flag = BothSides({})
      /\ dist = BothSides([x \in Nodes |-> 0]) /\ pnode = BothSides([x \in Nodes |-> 0])
      /\ parc = BothSides([x \in Nodes |-> NoId]) /\ asked = NotAsked
  BY DEF QueryInit
<1>2. Shaped(Nodes, q, flag, dist, pnode, parc)
  BY <1>1 DEF Shaped, BothSides
<1>3. AskedIs(Nodes, asked)
  BY <1>1, NothingIsAsked
<1>4. \A d \in Dirs : q[d] = NoFn /\ flag[d] = {} /\ asked.src[d] = NoFn
  BY <1>1, NothingIsAsked DEF BothSides
<1>5. \A d \in Dirs : FreshSide(d)
  <2> SUFFICES ASSUME NEW d \in Dirs PROVE IsFresh(Starts(ch, NoFn), NoFn, {}, dist[d], pnode[d])
    BY <1>4 DEF FreshSide
  <2> QED BY NothingIsFresh
<1> QED BY <1>1, <1>2, <1>3, <1>5 DEF QueryTypes

(* Before the hierarchy is built nothing was asked; then every call keeps   *)
(* the invariant.                                                           *)
LEMMA UnusedIsOK == ASSUME QueryInit PROVE QInv
<1>1. QueryTypes /\ st = "initialized" /\ \A d \in Dirs : FreshSide(d)
  BY UnusedIsFresh
<1>2. QueryOK
  BY <1>1 DEF QueryOK, PinnedState, SearchState, RunState, Opposite, Dirs
<1> QED BY <1>1, <1>2 DEF QInv

LEMMA BuildingLeavesQuery ==
  ASSUME QInv, pc # "built", Building, UNCHANGED queryVars PROVE QInv'
<1>1. QueryInit
  BY DEF QInv
<1>2. input' = input
  BY DEF Building, PickByImportance, PickByRank, StartContraction, NextSource, NextTarget, Settle, NoWitness,
         LastTarget, FinishContraction, Finish
<1>3. Nodes' = Nodes
  BY <1>2, InputAloneStays
<1>4. QueryInit'
  BY <1>1, <1>3 DEF QueryInit, queryVars
<1>5. QueryInit => QInv
  BY UnusedIsOK
<1>6. QueryInit' => QInv'
  BY <1>5, UnusedIsOK, PTL
<1> QED BY <1>4, <1>6

LEMMA AskingKeepsQuery ==
  ASSUME HInv, IInv, QInv, pc = "built", UNCHANGED buildVars, Asking PROVE QInv'
<1>1. input \in Inputs
  BY DEF IInv, GraphOK
<1>2. QueryTypes' /\ QueryOK'
  <2>1. ASSUME NEW d \in Dirs, NEW x \in Nodes, NEW d0 \in StartDistances[input.n], Add(d, x, d0)
        PROVE  QueryTypes' /\ QueryOK'
    BY <2>1, AddOK
  <2>2. CASE Reset
    BY <2>2, ResetOK
  <2>3. CASE StartRun
    BY <2>3, StartRunOK
  <2>4. CASE RunSettle
    BY <2>4, RunSettleOK
  <2>5. CASE EndRun
    BY <2>5, EndRunOK
  <2>6. ASSUME NEW d \in Dirs, ResetOne(d) PROVE QueryTypes' /\ QueryOK'
    BY <2>6, ResetOneOK
  <2>7. ASSUME NEW d \in Dirs, StartPinnedRun(d) PROVE QueryTypes' /\ QueryOK'
    BY <2>7, StartPinnedRunOK
  <2>8. ASSUME NEW d \in Dirs, FullForwardSearch(d) PROVE QueryTypes' /\ QueryOK'
    BY <2>8, FullForwardSearchOK
  <2>9. ASSUME NEW d \in Dirs, Sweep(d) PROVE QueryTypes' /\ QueryOK'
    BY <2>9, SweepOK
  <2>10. ASSUME NEW d \in Dirs, ExtraDistances(d) PROVE QueryTypes' /\ QueryOK'
    BY <2>10, ExtraDistancesOK
  <2>11. ASSUME NEW d \in Dirs, NEW list \in PinLists[input.n], PinAll(d, list) PROVE QueryTypes' /\ QueryOK'
    BY <2>11, PinAllOK
  <2> QED BY <2>1, <2>2, <2>3, <2>4, <2>5, <2>6, <2>7, <2>8, <2>9, <2>10, <2>11 DEF Asking
<1>3. pc' = "built"
  BY DEF buildVars
<1> QED BY <1>2, <1>3 DEF QInv

LEMMA NothingAsked ==
  ASSUME QInv, UNCHANGED buildVars, UNCHANGED queryVars PROVE QInv'
<1>1. st' = st /\ q' = q /\ dist' = dist /\ flag' = flag /\ pnode' = pnode /\ parc' = parc /\ meet' = meet
      /\ count' = count /\ len' = len /\ fnext' = fnext /\ asked' = asked /\ rounds' = rounds /\ pc' = pc /\ input' = input
  BY DEF queryVars, buildVars
<1>2. Nodes' = Nodes
  BY <1>1, InputAloneStays
<1>3. QueryTypes' /\ QueryTypes
  BY <1>1, AllElseStays DEF QInv
<1>4. CASE pc # "built"
  BY <1>1, <1>2, <1>3, <1>4 DEF QInv, QueryInit
<1>5. CASE pc = "built"
  <2>1. /\ \A d : LiveSide(d)' <=> LiveSide(d)
        /\ \A d : FreshSide(d)' <=> FreshSide(d)
        /\ \A p : PinsOK(p)' <=> PinsOK(p)
        /\ Joined' <=> Joined
    BY <1>1, AllElseStays
  <2>2. \A d : SweptOK(d)' <=> SweptOK(d)
    BY <1>1, QueryTermsNext DEF SweptOK
  <2>3. \A d : Finished(d)' <=> Finished(d)
    BY <1>1 DEF Finished
  <2>4. QueryOK
    BY <1>5 DEF QInv
  <2>5. QueryOK'
    BY <1>1, <2>1, <2>2, <2>3, <2>4 DEF QueryOK
  <2> QED BY <1>1, <1>3, <1>5, <2>5 DEF QInv
<1> QED BY <1>4, <1>5

(* A query object always is what the invariant of its state says.            *)
THEOREM QueryInvariant == Spec => []QInv
<1>1. Start => QInv
  BY UnusedIsOK DEF Start
<1>2. ASSUME HInv, IInv, QInv, [Next]_vars PROVE QInv'
  <2>1. CASE pc # "built" /\ Building /\ UNCHANGED queryVars
    BY <1>2, <2>1, BuildingLeavesQuery
  <2>2. CASE pc = "built" /\ Asking /\ UNCHANGED buildVars
    BY <1>2, <2>2, AskingKeepsQuery
  <2>3. CASE UNCHANGED vars
    <3>1. UNCHANGED buildVars /\ UNCHANGED queryVars
      BY <2>3 DEF vars
    <3> QED BY <1>2, <3>1, NothingAsked
  <2> QED BY <1>2, <2>1, <2>2, <2>3 DEF Next
<1> QED BY <1>1, <1>2, HierarchyInvariant, ContractionInvariant, PTL DEF Spec

-----------------------------------------------------------------------------
(* What the invariant says of a pinned run.                                 *)
LEMMA PinnedRunMeans ==
  ASSUME HInv, IInv, QInv PROVE PinnedRunIsShortest
<1> SUFFICES ASSUME NEW d \in Dirs, st = RunState(Opposite(d)), NEW i \in 1 .. count
             PROVE  dist[d][PinnedId(d, i)] =
                      BestFrom(asked.src[d], asked.pins[i], IF d = "f" THEN TrueDistance ELSE Turned(TrueDistance))
  BY DEF PinnedRunIsShortest
<1>1. pc = "built" /\ QueryTypes /\ QueryOK
  <2>1. CASE pc # "built"
    BY <2>1 DEF QInv, QueryInit, RunState, Opposite
  <2> QED BY <2>1 DEF QInv
<1>2. SweptOK(d) /\ PinsOK(Opposite(d))
  BY <1>1 DEF QueryOK
<1>3. OrderOf(Nodes, ch)
  BY <1>1, SideIsGiven DEF Given
<1>4. PICK x : x = PinnedId(d, i)
  OBVIOUS
<1>5. /\ asked.pins[i] \in Nodes /\ x = ch.rank[asked.pins[i]]
      /\ \E j \in 0 .. meet - 1 : dist[Opposite(d)][j] = x
  BY <1>2, <1>4 DEF PinsOK, ArePins, PinnedId
<1>6. x \in Nodes /\ ch.order[x + 1] = asked.pins[i]
  BY <1>3, <1>5 DEF OrderOf
<1>7. PICK best : best = Bests(Nodes, ch, TrueDistance, d, asked.src[d])
  OBVIOUS
<1>8. dist[d][x] = best[x]
  <2>1. IsSwept(best, dist[Opposite(d)], meet, dist[d])
    BY <1>2, <1>7 DEF SweptOK, IsSweptAt
  <2> QED BY <1>5, <2>1 DEF IsSwept
<1>9. best[x] = BestFrom(asked.src[d], asked.pins[i], IF d = "f" THEN TrueDistance ELSE Turned(TrueDistance))
  BY <1>6, <1>7 DEF Bests
<1> QED BY <1>4, <1>8, <1>9

(* After a pinned run every pinned node has its distance.                    *)
THEOREM PinnedRunDistances == Spec => []PinnedRunIsShortest
<1>1. HInv /\ IInv /\ QInv => PinnedRunIsShortest
  BY PinnedRunMeans
<1> QED BY <1>1, HierarchyInvariant, ContractionInvariant, QueryInvariant, PTL

-----------------------------------------------------------------------------
(* Where the searches meet.  One side: a highest best node z between the     *)
(* sides has its right label, or what is left in the queue is too far.      *)
Against(nodes, gap, mine, theirs) ==
  \A x, z \in nodes : /\ mine[x] \in Nat /\ theirs[x] \in Nat /\ gap[<<x, z>>] \in Nat
                      /\ theirs[x] <= theirs[z] + gap[<<x, z>>]
BestBetween(nodes, mine, theirs, best) ==
  /\ best \in Nat /\ best <= Inf /\ \A x \in nodes : best <= mine[x] + theirs[x]
  /\ best < Inf => \E x \in nodes : mine[x] + theirs[x] = best
IsMiddle(nodes, level, mine, theirs, best, z) ==
  /\ z \in nodes /\ mine[z] + theirs[z] = best
  /\ \A x \in nodes : mine[x] + theirs[x] = best => level[x] <= level[z]
TooFar(qu, tent, ln) == \A x \in DOMAIN qu : qu[x] = tent[x] /\ ln <= qu[x]
LEMMA SideMeets ==
  ASSUME NEW nodes, NEW level, NEW gap, NEW mine, NEW theirs, Against(nodes, gap, mine, theirs),
         NEW best, BestBetween(nodes, mine, theirs, best), best < Inf,
         NEW z, IsMiddle(nodes, level, mine, theirs, best, z),
         NEW qu, NEW fl, fl \subseteq nodes, NEW tent, Progresses(nodes, level, gap, mine, qu, fl, tent), NEW ln \in Nat, TooFar(qu, tent, ln)
  PROVE  ln <= best \/ (z \in fl /\ tent[z] = mine[z] /\ z \notin DOMAIN qu)
<1>1. z \in nodes /\ mine[z] \in Nat /\ theirs[z] \in Nat /\ best \in Nat /\ mine[z] <= best
  <2>1. z \in nodes /\ mine[z] + theirs[z] = best /\ best \in Nat
    BY DEF IsMiddle, BestBetween
  <2>2. mine[z] \in Nat /\ theirs[z] \in Nat /\ gap[<<z, z>>] \in Nat
    BY <2>1 DEF Against
  <2> QED BY <2>1, <2>2
<1>2. IsTop(nodes, level, gap, mine, z)
  <2>1. ASSUME NEW x \in nodes, mine[x] + gap[<<x, z>>] = mine[z] PROVE level[x] <= level[z]
    <3>1. /\ mine[x] \in Nat /\ theirs[x] \in Nat /\ gap[<<x, z>>] \in Nat
          /\ theirs[x] <= theirs[z] + gap[<<x, z>>] /\ best <= mine[x] + theirs[x]
      BY <1>1 DEF Against, BestBetween
    <3>2. mine[z] + theirs[z] = best
      BY DEF IsMiddle
    <3>3. mine[x] + theirs[x] = best
      BY <1>1, <2>1, <3>1, <3>2
    <3> QED BY <3>3 DEF IsMiddle
  <2>2. mine[z] < Inf
    BY <1>1, InfAssumption
  <2> QED BY <2>1, <2>2 DEF IsTop
<1>3. ASSUME NEW x \in DOMAIN qu, x \in Tights(gap, mine, fl, tent, z), x \in nodes PROVE ln <= best
  <2>1. ln <= mine[x]
    BY <1>3 DEF TooFar, Tights
  <2>2. mine[x] + gap[<<x, z>>] = mine[z] /\ mine[x] \in Nat /\ gap[<<x, z>>] \in Nat
    BY <1>1, <1>3 DEF Tights, Against
  <2> QED BY <1>1, <2>1, <2>2
<1>4. CASE z \in Tights(gap, mine, fl, tent, z)
  <2>1. z \in fl /\ tent[z] = mine[z]
    BY <1>4 DEF Tights
  <2> QED BY <1>1, <1>3, <1>4, <2>1
<1>5. CASE \E x \in Tights(gap, mine, fl, tent, z) : x \in DOMAIN qu
  <2>1. PICK x \in Tights(gap, mine, fl, tent, z) : x \in DOMAIN qu
    BY <1>5
  <2>2. x \in nodes
    BY DEF Tights
  <2> QED BY <1>3, <2>1, <2>2
<1> QED BY <1>1, <1>2, <1>4, <1>5 DEF Progresses

(* Both sides: the shortest path length is that of the best pair.            *)
MeetAt(tent, ln, at) == IF at = NoId THEN Inf ELSE tent["f"][at] + tent["b"][at]
BothLive(nodes, level, gap, best, qu, fl, tent, ln) ==
  /\ \A d \in Dirs : /\ fl[d] \subseteq nodes /\ Progresses(nodes, level, gap[d], best[d], qu[d], fl[d], tent[d])
                      /\ TooFar(qu[d], tent[d], ln)
                      /\ \A x \in fl[d] : tent[d][x] \in Nat /\ best[d][x] <= tent[d][x]
  /\ Against(nodes, gap["f"], best["f"], best["b"]) /\ Against(nodes, gap["b"], best["b"], best["f"])
LEMMA MeetIsBest ==
  ASSUME NEW nodes, NEW level, LevelIs(nodes, level), NEW gap, NEW best, NEW qu, NEW fl, NEW tent, NEW ln, NEW at,
         BothLive(nodes, level, gap, best, qu, fl, tent, ln), IsJoined(qu, fl, tent, ln, at),
         NEW least, BestBetween(nodes, best["f"], best["b"], least)
  PROVE  MeetAt(tent, ln, at) = least
<1>1. ln \in Nat /\ ln <= Inf /\ least \in Nat /\ least <= Inf
  BY DEF IsJoined, BestBetween
<1>2. ASSUME least < Inf PROVE ln <= least
  <2>1. PICK Z : Z = {x \in nodes : best["f"][x] + best["b"][x] = least}
    OBVIOUS
  <2>2. Z # {} /\ Z \in SUBSET nodes
    BY <1>2, <2>1 DEF BestBetween
  <2>3. PICK z \in Z : \A y \in Z : level[y] <= level[z]
    BY <2>2, HighestExists
  <2>4. IsMiddle(nodes, level, best["f"], best["b"], least, z)
    BY <2>1, <2>3 DEF IsMiddle
  <2>5. \A x, y \in nodes : best["f"][x] \in Nat /\ best["b"][x] \in Nat
    BY DEF BothLive, Against
  <2>6. \A x \in nodes : best["b"][x] + best["f"][x] = best["f"][x] + best["b"][x]
    BY <2>5
  <2>7. BestBetween(nodes, best["b"], best["f"], least) /\ IsMiddle(nodes, level, best["b"], best["f"], least, z)
    BY <2>4, <2>6 DEF BestBetween, IsMiddle
  <2>8. ln <= least \/ (z \in fl["f"] /\ tent["f"][z] = best["f"][z] /\ z \notin DOMAIN qu["f"])
    <3>1. /\ fl["f"] \subseteq nodes /\ Progresses(nodes, level, gap["f"], best["f"], qu["f"], fl["f"], tent["f"])
          /\ TooFar(qu["f"], tent["f"], ln) /\ Against(nodes, gap["f"], best["f"], best["b"])
      BY DEF BothLive, Dirs
    <3> QED BY <1>1, <1>2, <2>4, <3>1, SideMeets
  <2>9. ln <= least \/ (z \in fl["b"] /\ tent["b"][z] = best["b"][z] /\ z \notin DOMAIN qu["b"])
    <3>1. /\ fl["b"] \subseteq nodes /\ Progresses(nodes, level, gap["b"], best["b"], qu["b"], fl["b"], tent["b"])
          /\ TooFar(qu["b"], tent["b"], ln) /\ Against(nodes, gap["b"], best["b"], best["f"])
      BY DEF BothLive, Dirs
    <3> QED BY <1>1, <1>2, <2>7, <3>1, SideMeets
  <2>10. best["f"][z] + best["b"][z] = least
    BY <2>1
  <2> QED BY <2>8, <2>9, <2>10 DEF IsJoined
<1>3. CASE at = NoId
  BY <1>1, <1>2, <1>3 DEF IsJoined, MeetAt
<1>4. CASE at # NoId
  <2>1. at \in fl["f"] /\ at \in fl["b"] /\ tent["f"][at] + tent["b"][at] <= ln /\ ln < Inf
    BY <1>4 DEF IsJoined
  <2>2. /\ at \in nodes /\ tent["f"][at] \in Nat /\ tent["b"][at] \in Nat
        /\ best["f"][at] <= tent["f"][at] /\ best["b"][at] <= tent["b"][at]
    BY <2>1 DEF BothLive, Dirs
  <2>3. best["f"][at] \in Nat /\ best["b"][at] \in Nat /\ least <= best["f"][at] + best["b"][at]
    BY <2>2 DEF BothLive, Against, BestBetween
  <2>4. tent["f"][at] + tent["b"][at] = least
    BY <1>1, <1>2, <2>1, <2>2, <2>3, InfAssumption
  <2> QED BY <1>4, <2>4 DEF MeetAt
<1> QED BY <1>3, <1>4

-----------------------------------------------------------------------------
BestPair(f, b, D) == Min({Inf} \cup {BestFrom(f, t, D) + b[t] : t \in {x \in DOMAIN b : BestFrom(f, x, D) < Inf}})
GapsTurned(nodes, f, b) == \A x, y \in nodes : b[<<x, y>>] = f[<<y, x>>]
(* Distances backward are the distances forward, turned round.              *)
LEMMA GapsAreTurned ==
  ASSUME NEW nodes, NEW h, OrderOf(nodes, h), NEW D, DistanceIs(nodes, D)
  PROVE  GapsTurned(nodes, Gaps(nodes, h, D, "f"), Gaps(nodes, h, D, "b"))
<1>1. PICK f, b : f = Gaps(nodes, h, D, "f") /\ b = Gaps(nodes, h, D, "b")
  OBVIOUS
<1>2. "f" \in Dirs /\ "b" \in Dirs /\ Opposite("f") = "b"
  BY DEF Dirs, Opposite
<1>3. GapsMean(nodes, h, D, "f", f) /\ GapsMean(nodes, h, D, "b", b)
  BY <1>1, <1>2, GapsAre
<1>4. \A x, y \in nodes : f[<<y, x>>] = Named(h, D, "b", x, y) /\ b[<<x, y>>] = Named(h, D, "b", x, y)
  BY <1>2, <1>3 DEF GapsMean
<1> QED BY <1>1, <1>4 DEF GapsTurned

(* The best pair of a source and a target, by the nodes their roads meet    *)
(* at.                                                                      *)
LEMMA BestPairIs ==
  ASSUME NEW nodes, NEW h, OrderOf(nodes, h), NEW D, DistanceIs(nodes, D),
         NEW f, SourcesAre(nodes, f), NEW b, SourcesAre(nodes, b)
  PROVE  BestBetween(nodes, Bests(nodes, h, D, "f", f), Bests(nodes, h, D, "b", b), BestPair(f, b, D))
<1>1. PICK bf, bb, gf, gb, sb : /\ bf = Bests(nodes, h, D, "f", f) /\ bb = Bests(nodes, h, D, "b", b)
                                /\ gf = Gaps(nodes, h, D, "f") /\ gb = Gaps(nodes, h, D, "b") /\ sb = Starts(h, b)
  OBVIOUS
<1>2. "f" \in Dirs /\ "b" \in Dirs
  BY DEF Dirs
<1>3. BestIs(nodes, gf, Starts(h, f), bf) /\ BestIs(nodes, gb, sb, bb)
  <2>1. BestIs(nodes, Gaps(nodes, h, D, "f"), Starts(h, f), Bests(nodes, h, D, "f", f))
    BY <1>2, BestsAre
  <2>2. BestIs(nodes, Gaps(nodes, h, D, "b"), Starts(h, b), Bests(nodes, h, D, "b", b))
    BY <1>2, BestsAre
  <2> QED BY <1>1, <2>1, <2>2
<1>4. GapsTurned(nodes, gf, gb) /\ GapIs(nodes, gf)
  <2>1. GapIs(nodes, gf)
    BY <1>1, <1>2, GapsAre DEF GapsMean
  <2> QED BY <1>1, <2>1, GapsAreTurned
<1>5. PICK B : B = [t \in nodes |-> BestFrom(f, t, D)]
  OBVIOUS
<1>6. \A x \in nodes : h.order[x + 1] \in nodes /\ bf[x] = B[h.order[x + 1]]
  BY <1>1, <1>5 DEF Bests, OrderOf
<1>7. /\ \A s \in DOMAIN sb : s \in nodes /\ h.order[s + 1] \in DOMAIN b /\ sb[s] = b[h.order[s + 1]]
      /\ \A t \in DOMAIN b : h.rank[t] \in DOMAIN sb /\ h.rank[t] \in nodes /\ h.order[h.rank[t] + 1] = t /\ sb[h.rank[t]] = b[t]
  BY <1>1, StartsAre
<1>8. \A t \in DOMAIN b : t \in nodes /\ b[t] \in Nat /\ b[t] <= Inf
  BY DEF SourcesAre
<1>9. \A x \in nodes : bf[x] \in Nat /\ bf[x] <= Inf /\ bb[x] \in Nat /\ bb[x] <= Inf
  BY <1>3 DEF BestIs
<1>10. \A t \in nodes : B[t] \in Nat
  <2> SUFFICES ASSUME NEW t \in nodes PROVE B[t] \in Nat
    OBVIOUS
  <2>1. PICK x \in nodes : x = h.rank[t] /\ h.order[x + 1] = t
    BY DEF OrderOf
  <2>2. bf[x] = B[t]
    BY <1>6, <2>1
  <2> QED BY <1>9, <2>2
<1>11. PICK S, least : /\ S = {Inf} \cup {B[t] + b[t] : t \in {x \in DOMAIN b : B[x] < Inf}}
                       /\ least = BestPair(f, b, D)
  OBVIOUS
<1>12. S \in SUBSET Nat /\ Inf \in S
  BY <1>8, <1>10, <1>11, InfAssumption
<1>13. least \in S /\ \A m \in S : least <= m
  <2>1. S = {Inf} \cup {BestFrom(f, t, D) + b[t] : t \in {x \in DOMAIN b : BestFrom(f, x, D) < Inf}}
    BY <1>5, <1>8, <1>11
  <2>2. least = Min(S)
    BY <1>11, <2>1 DEF BestPair
  <2> QED BY <1>12, <2>2, MinIsLeast
<1>14. least \in Nat /\ least <= Inf
  BY <1>12, <1>13
<1>15. ASSUME NEW x \in nodes PROVE least <= bf[x] + bb[x]
  <2>1. CASE bb[x] < Inf
    <3>1. PICK s \in DOMAIN sb : bb[x] = sb[s] + gb[<<s, x>>]
      BY <1>3, <2>1 DEF BestIs
    <3>2. s \in nodes /\ h.order[s + 1] \in DOMAIN b /\ sb[s] = b[h.order[s + 1]] /\ gb[<<s, x>>] = gf[<<x, s>>]
      BY <1>4, <1>7 DEF GapsTurned
    <3>3. bf[s] <= bf[x] + gf[<<x, s>>] /\ gf[<<x, s>>] \in Nat
      BY <1>3, <1>4, <3>2 DEF BestIs, GapIs
    <3>4. PICK t \in DOMAIN b : t = h.order[s + 1]
      BY <3>2
    <3>5. bf[s] = B[t] /\ B[t] \in Nat /\ b[t] \in Nat /\ sb[s] = b[t]
      BY <1>6, <1>8, <1>10, <3>2, <3>4
    <3>6. least <= B[t] + b[t]
      <4>1. CASE B[t] < Inf
        BY <1>11, <1>13, <4>1
      <4>2. CASE ~(B[t] < Inf)
        BY <1>14, <3>5, <4>2, InfAssumption
      <4> QED BY <4>1, <4>2
    <3> QED BY <1>9, <1>14, <3>1, <3>2, <3>3, <3>5, <3>6
  <2>2. CASE ~(bb[x] < Inf)
    BY <1>9, <1>14, <2>2, InfAssumption
  <2> QED BY <2>1, <2>2
<1>16. ASSUME least < Inf PROVE \E x \in nodes : bf[x] + bb[x] = least
  <2>1. PICK t \in DOMAIN b : least = B[t] + b[t]
    <3>1. least # Inf
      BY <1>14, <1>16, InfAssumption
    <3> QED BY <1>11, <1>13, <3>1
  <2>2. PICK x \in nodes : x = h.rank[t]
    BY <1>7
  <2>3. x \in DOMAIN sb /\ h.order[x + 1] = t /\ sb[x] = b[t]
    BY <1>7, <2>2
  <2>4. bf[x] = B[t]
    BY <1>6, <2>3
  <2>5. bb[x] <= sb[x] + gb[<<x, x>>] /\ gb[<<x, x>>] = 0
    BY <1>3, <1>4, <2>3 DEF BestIs, GapsTurned, GapIs
  <2>6. bb[x] <= b[t]
    BY <1>8, <2>3, <2>5
  <2>7. least <= bf[x] + bb[x]
    BY <1>15
  <2>8. bf[x] + bb[x] = least
    BY <1>8, <1>9, <1>14, <2>1, <2>4, <2>6, <2>7
  <2> QED BY <2>8
<1>17. BestBetween(nodes, bf, bb, least)
  BY <1>14, <1>15, <1>16 DEF BestBetween
<1> QED BY <1>1, <1>11, <1>17

(* Neither side is closer to a node than the distances between the nodes    *)
(* allow.                                                                   *)
LEMMA BestsAgainst ==
  ASSUME NEW nodes, NEW h, OrderOf(nodes, h), NEW D, DistanceIs(nodes, D),
         NEW f, SourcesAre(nodes, f), NEW b, SourcesAre(nodes, b)
  PROVE  /\ Against(nodes, Gaps(nodes, h, D, "f"), Bests(nodes, h, D, "f", f), Bests(nodes, h, D, "b", b))
         /\ Against(nodes, Gaps(nodes, h, D, "b"), Bests(nodes, h, D, "b", b), Bests(nodes, h, D, "f", f))
<1>1. PICK bf, bb, gf, gb : /\ bf = Bests(nodes, h, D, "f", f) /\ bb = Bests(nodes, h, D, "b", b)
                            /\ gf = Gaps(nodes, h, D, "f") /\ gb = Gaps(nodes, h, D, "b")
  OBVIOUS
<1>2. "f" \in Dirs /\ "b" \in Dirs
  BY DEF Dirs
<1>3. BestIs(nodes, gf, Starts(h, f), bf) /\ BestIs(nodes, gb, Starts(h, b), bb)
  <2>1. BestIs(nodes, Gaps(nodes, h, D, "f"), Starts(h, f), Bests(nodes, h, D, "f", f))
    BY <1>2, BestsAre
  <2>2. BestIs(nodes, Gaps(nodes, h, D, "b"), Starts(h, b), Bests(nodes, h, D, "b", b))
    BY <1>2, BestsAre
  <2> QED BY <1>1, <2>1, <2>2
<1>4. GapsTurned(nodes, gf, gb) /\ GapIs(nodes, gf)
  <2>1. GapIs(nodes, gf)
    BY <1>1, <1>2, GapsAre DEF GapsMean
  <2> QED BY <1>1, <2>1, GapsAreTurned
<1>5. \A x \in nodes : bf[x] \in Nat /\ bb[x] \in Nat
  BY <1>3 DEF BestIs
<1>6. \A x, z \in nodes : gf[<<x, z>>] \in Nat /\ gb[<<x, z>>] = gf[<<z, x>>] /\ gb[<<z, x>>] = gf[<<x, z>>]
  BY <1>4 DEF GapsTurned, GapIs
<1>7. \A x, z \in nodes : bf[x] <= bf[z] + gf[<<z, x>>] /\ bb[x] <= bb[z] + gb[<<z, x>>]
  BY <1>3 DEF BestIs
<1>8. Against(nodes, gf, bf, bb)
  BY <1>5, <1>6, <1>7 DEF Against
<1>9. Against(nodes, gb, bb, bf)
  BY <1>5, <1>6, <1>7 DEF Against
<1> QED BY <1>1, <1>8, <1>9

(* A finished side has nothing left in its queue that is closer than the    *)
(* best meeting.                                                            *)
LEMMA FinishedMeans ==
  ASSUME NEW d, Finished(d), \A x \in DOMAIN q[d] : q[d][x] = dist[d][x] /\ dist[d][x] \in Nat, len \in Nat
  PROVE  TooFar(q[d], dist[d], len)
<1> SUFFICES ASSUME NEW x \in DOMAIN q[d] PROVE len <= q[d][x]
  BY DEF TooFar
<1>1. PICK R : R = Range(q[d])
  OBVIOUS
<1>2. R \in SUBSET Nat /\ q[d][x] \in R
  BY <1>1 DEF Range
<1>3. Min(R) <= q[d][x] /\ Min(R) \in Nat
  BY <1>2, MinIsLeast
<1>4. Min(R) >= len
  BY <1>1 DEF Finished, MinKey
<1> QED BY <1>2, <1>3, <1>4

(* After run the distance is that of the best pair.                          *)
RunDistanceIsShortest == st = "run" => GetDistance = BestPair(asked.src["f"], asked.src["b"], TrueDistance)
LEMMA RunDistanceMeans ==
  ASSUME HInv, IInv, QInv PROVE RunDistanceIsShortest
<1> SUFFICES ASSUME st = "run" PROVE GetDistance = BestPair(asked.src["f"], asked.src["b"], TrueDistance)
  BY DEF RunDistanceIsShortest
<1>1. pc = "built" /\ QueryTypes /\ QueryOK
  <2>1. CASE pc # "built"
    BY <2>1 DEF QInv, QueryInit
  <2> QED BY <2>1 DEF QInv
<1>2. LiveSide("f") /\ LiveSide("b") /\ Joined /\ Finished("f") /\ Finished("b")
  BY <1>1 DEF QueryOK
<1>3. "f" \in Dirs /\ "b" \in Dirs
  BY DEF Dirs
<1>4. PICK nodes, h, D, f, b : nodes = Nodes /\ h = ch /\ D = TrueDistance /\ f = asked.src["f"] /\ b = asked.src["b"]
  OBVIOUS
<1>5. \A d \in Dirs : Given(Nodes, ch, CleanGraph, TrueDistance, d, asked.src[d])
  BY <1>1, SideIsGiven
<1>6. OrderOf(nodes, h) /\ DistanceIs(nodes, D) /\ SourcesAre(nodes, f) /\ SourcesAre(nodes, b) /\ nodes \subseteq Nat
  BY <1>3, <1>4, <1>5 DEF Given
<1>7. PICK level \in [Nodes -> Nodes] : IsLevels(Nodes, ch, CleanGraph, TrueDistance, level)
  BY <1>3, <1>5 DEF Given
<1>8. LevelIs(nodes, level)
  BY <1>3, <1>4, <1>5, <1>7 DEF Given, HalfOf
<1>9. PICK gap, best : /\ gap = [d \in Dirs |-> Gaps(Nodes, ch, TrueDistance, d)]
                       /\ best = [d \in Dirs |-> Bests(Nodes, ch, TrueDistance, d, asked.src[d])]
  OBVIOUS
<1>10. /\ gap["f"] = Gaps(nodes, h, D, "f") /\ gap["b"] = Gaps(nodes, h, D, "b")
       /\ best["f"] = Bests(nodes, h, D, "f", f) /\ best["b"] = Bests(nodes, h, D, "b", b)
  BY <1>3, <1>4, <1>9
<1>11. BestBetween(nodes, best["f"], best["b"], BestPair(f, b, D))
  BY <1>6, <1>10, BestPairIs
<1>12. Against(nodes, gap["f"], best["f"], best["b"]) /\ Against(nodes, gap["b"], best["b"], best["f"])
  BY <1>6, <1>10, BestsAgainst
<1>13. ASSUME NEW d \in Dirs
       PROVE  /\ flag[d] \subseteq nodes /\ Progresses(nodes, level, gap[d], best[d], q[d], flag[d], dist[d])
              /\ TooFar(q[d], dist[d], len)
              /\ \A x \in flag[d] : dist[d][x] \in Nat /\ best[d][x] <= dist[d][x]
  <2>1. IsLiveAt(Nodes, ch, CleanGraph, TrueDistance, d, asked.src[d], q[d], flag[d], dist[d], pnode[d], parc[d]) /\ Finished(d)
    BY <1>2 DEF LiveSide, Dirs
  <2>2. IsLabelled(Nodes, ArcWeights(ch, d), Starts(ch, asked.src[d]), best[d], q[d], flag[d], dist[d], pnode[d], parc[d])
    BY <1>9, <2>1 DEF IsLiveAt
  <2>3. Progresses(nodes, level, gap[d], best[d], q[d], flag[d], dist[d])
    BY <1>4, <1>7, <1>9, <2>1 DEF IsLiveAt
  <2>4. /\ flag[d] \subseteq nodes /\ \A x \in DOMAIN q[d] : q[d][x] = dist[d][x] /\ dist[d][x] \in Nat
        /\ \A x \in flag[d] : dist[d][x] \in Nat /\ best[d][x] <= dist[d][x]
    BY <1>4, <2>2 DEF IsLabelled
  <2>5. len \in Nat
    BY <1>2 DEF Joined, IsJoined
  <2>6. TooFar(q[d], dist[d], len)
    BY <2>1, <2>4, <2>5, FinishedMeans
  <2> QED BY <2>3, <2>4, <2>6
<1>14. BothLive(nodes, level, gap, best, q, flag, dist, len)
  BY <1>12, <1>13 DEF BothLive
<1>15. IsJoined(q, flag, dist, len, meet)
  BY <1>2 DEF Joined
<1>16. MeetAt(dist, len, meet) = BestPair(f, b, D)
  BY <1>8, <1>11, <1>14, <1>15, MeetIsBest
<1> QED BY <1>4, <1>16 DEF MeetAt, GetDistance

-----------------------------------------------------------------------------
(* The length of a path adds up arc by arc.                                 *)
AddsUp(path, n, W) == W[0] = 0 /\ \A i \in 1 .. n : W[i] = W[i - 1] + input.arcs[path[i]].weight
WeighedBy(W, path) == W = [i \in 0 .. Len(path) |-> IF i = 0 THEN 0 ELSE W[i - 1] + input.arcs[path[i]].weight]
LEMMA PathWeightIs ==
  ASSUME NEW path, NEW n \in Nat, Len(path) = n, NEW W, W = [i \in 0 .. n |-> W[i]], AddsUp(path, n, W)
  PROVE  PathWeight(path) = W[n]
<1>1. WeighedBy(W, path)
  <2>1. \A i \in 0 .. n : i = 0 \/ i \in 1 .. n
    OBVIOUS
  <2>2. \A i \in 0 .. n : W[i] = IF i = 0 THEN 0 ELSE W[i - 1] + input.arcs[path[i]].weight
    BY <2>1 DEF AddsUp
  <2> QED BY <2>2 DEF WeighedBy
<1> PICK V : V = CHOOSE B : WeighedBy(B, path)
  OBVIOUS
<1>2. WeighedBy(V, path)
  BY <1>1
<1>3. AddsUp(path, n, V)
  <2>1. 0 \in 0 .. n /\ \A i \in 1 .. n : i \in 0 .. n /\ i # 0
    OBVIOUS
  <2> QED BY <1>2, <2>1 DEF WeighedBy, AddsUp
<1> DEFINE T == {k \in Nat : k <= n => V[k] = W[k]}
<1>4. 0 \in T
  BY <1>3 DEF AddsUp
<1>5. ASSUME NEW k \in Nat, k \in T PROVE k + 1 \in T
  <2> SUFFICES ASSUME k + 1 <= n PROVE V[k + 1] = W[k + 1]
    OBVIOUS
  <2> PICK l : l = k + 1
    OBVIOUS
  <2>1. l \in 1 .. n /\ l - 1 = k /\ V[k] = W[k]
    BY <1>5
  <2>2. V[l] = V[k] + input.arcs[path[l]].weight /\ W[l] = W[k] + input.arcs[path[l]].weight
    BY <1>3, <2>1 DEF AddsUp
  <2> QED BY <2>1, <2>2
<1> HIDE DEF T
<1>6. n \in T
  BY <1>4, <1>5, InductionOnNat
<1>7. PathWeight(path) = V[n]
  BY DEF PathWeight, WeighedBy
<1> QED BY <1>6, <1>7 DEF T

(* A road is a path of its length.                                          *)
LEMMA RoadIsPath ==
  ASSUME NEW nodes, NEW u, NEW s, NEW t, NEW l, Route(nodes, input.arcs, u, s, t, l)
  PROVE  IsPath(u, s, t) /\ PathWeight(u) = l
<1> PICK arcs : arcs = input.arcs
  OBVIOUS
<1> PICK n : n = Len(u)
  OBVIOUS
<1>1. PICK P, W : Milestones(nodes, arcs, u, P, W) /\ P[0] = s /\ P[n] = t /\ W[n] = l /\ u \in Seq(DOMAIN arcs)
  BY DEF Route
<1>2. n \in Nat /\ Len(u) = n /\ DOMAIN u = 1 .. n
  BY <1>1
<1>3. W \in [0 .. n -> Nat] /\ W[0] = 0
      /\ \A i \in 1 .. n : Stretch(arcs, u[i], P[i - 1], P[i]) /\ W[i] = W[i - 1] + arcs[u[i]].weight
  BY <1>1 DEF Milestones
<1>4. \A i \in 1 .. n : arcs[u[i]].tail = P[i - 1] /\ arcs[u[i]].head = P[i]
  BY <1>3 DEF Stretch
<1>5. ASSUME u = <<>> PROVE s = t
  <2>1. n = 0
    BY <1>2, <1>5
  <2> QED BY <1>1, <2>1
<1>6. ASSUME u # <<>> PROVE arcs[u[1]].tail = s /\ arcs[Last(u)].head = t
  <2>1. n # 0
    BY <1>1, <1>2, <1>6, EmptySeq
  <2>2. 1 \in 1 .. n /\ n \in 1 .. n /\ 1 - 1 = 0
    BY <1>2, <2>1
  <2>3. Last(u) = u[n]
    BY <1>2 DEF Last
  <2> QED BY <1>1, <1>4, <2>2, <2>3
<1>7. ASSUME NEW i \in 1 .. n - 1 PROVE arcs[u[i]].head = arcs[u[i + 1]].tail
  <2> PICK j : j = i + 1
    OBVIOUS
  <2>1. i \in 1 .. n /\ j \in 1 .. n /\ j - 1 = i
    BY <1>2
  <2> QED BY <1>4, <2>1
<1>8. IsPath(u, s, t)
  BY <1>2, <1>5, <1>6, <1>7 DEF IsPath
<1>9. AddsUp(u, n, W)
  BY <1>3 DEF AddsUp
<1>10. W = [i \in 0 .. n |-> W[i]]
  BY <1>3
<1> QED BY <1>1, <1>2, <1>8, <1>9, <1>10, PathWeightIs

(* The same, driven in direction d: a part that is appended on a forward    *)
(* way comes first on a backward one.                                       *)
RouteOn(nodes, arcs, d, u, x, y, l) == IF d = "f" THEN Route(nodes, arcs, u, x, y, l) ELSE Route(nodes, arcs, u, y, x, l)
LEMMA RoadsLink ==
  ASSUME NEW nodes, NEW arcs, NEW d, NEW u, NEW v, NEW x, NEW y, NEW z, NEW k, NEW l,
         RouteOn(nodes, arcs, d, u, x, y, k), RouteOn(nodes, arcs, d, v, y, z, l)
  PROVE  RouteOn(nodes, arcs, d, Link(d, u, v), x, z, k + l)
<1>1. CASE d = "f"
  <2>1. Route(nodes, arcs, u \o v, x, z, k + l)
    BY <1>1, RoutesJoin DEF RouteOn
  <2> QED BY <1>1, <2>1 DEF RouteOn, Link
<1>2. CASE d # "f"
  <2>1. Route(nodes, arcs, v, z, y, l) /\ Route(nodes, arcs, u, y, x, k)
    BY <1>2 DEF RouteOn
  <2>2. Route(nodes, arcs, v \o u, z, x, l + k)
    BY <2>1, RoutesJoin
  <2>3. k \in Nat /\ l \in Nat
    BY <2>1, RouteWeighs
  <2>4. l + k = k + l
    BY <2>3
  <2> QED BY <1>2, <2>2, <2>4 DEF RouteOn, Link
<1> QED BY <1>1, <1>2

-----------------------------------------------------------------------------
(* The input arc that is kept is one of the arcs it stands for.             *)
LEMMA KeptArcJoins ==
  ASSUME input \in Inputs, NEW p \in DOMAIN CleanGraph
  PROVE  /\ Stretch(input.arcs, InputArcId[p], p[1], p[2])
         /\ CleanGraph[p].weight = input.arcs[InputArcId[p]].weight
<1>1. p \in DOMAIN InputArcId /\ CleanGraph[p].weight = input.arcs[InputArcId[p]].weight
  BY DEF CleanGraph
<1>2. input.arcs \in Seq([tail : 0 .. input.n - 1, head : 0 .. input.n - 1, weight : Nat])
  BY InputsAssumption
<1>3. DOMAIN input.arcs \subseteq Nat /\ \A i \in DOMAIN input.arcs : input.arcs[i].weight \in Nat
  <2>1. \A S, list : list \in Seq(S) => DOMAIN list \subseteq Nat /\ \A i \in DOMAIN list : list[i] \in S
    OBVIOUS
  <2>2. DOMAIN input.arcs \subseteq Nat
        /\ \A i \in DOMAIN input.arcs : input.arcs[i] \in [tail : 0 .. input.n - 1, head : 0 .. input.n - 1, weight : Nat]
    BY <1>2, <2>1
  <2> QED BY <2>2
<1>4. PICK i \in DOMAIN input.arcs : p = <<input.arcs[i].tail, input.arcs[i].head>>
  BY <1>1 DEF InputArcId
<1>5. i \in Joining(p) /\ Joining(p) \subseteq DOMAIN input.arcs
  BY <1>4 DEF Joining
<1> DEFINE Lightest == {k \in Joining(p) : \A j \in Joining(p) : input.arcs[k].weight <= input.arcs[j].weight}
           W == {input.arcs[k].weight : k \in Joining(p)}
<1>6. W \in SUBSET Nat /\ W # {}
  BY <1>3, <1>5
<1>7. PICK m \in W : \A k \in W : m <= k
  <2> HIDE DEF W
  <2> QED BY <1>6, NatHasLeast
<1>8. Lightest # {} /\ Lightest \in SUBSET Nat
  BY <1>3, <1>5, <1>7
<1>9. Min(Lightest) \in Lightest
  <2> HIDE DEF Lightest
  <2> QED BY <1>8, MinIsLeast
<1>10. InputArcId[p] = Min(Lightest)
  BY <1>1 DEF InputArcId
<1>11. InputArcId[p] \in Joining(p)
  BY <1>9, <1>10
<1> QED BY <1>1, <1>3, <1>5, <1>11 DEF Stretch, Joining

(* What an arc stands for: one input arc between its ends, or two lower arcs *)
(* over a node between them.                                                 *)
ArcAt(e) == ch.side[e[1]][e[2]]
EndAt(e, i) == ch.order[SearchArc(e[1], e[2][1], e[2][2])[i] + 1]
Inner(e) == <<"b", ArcAt(e).first>>
Outer(e) == <<"f", ArcAt(e).second>>
Single(e) == Stretch(input.arcs, ArcAt(e).first, EndAt(e, 1), EndAt(e, 2)) /\ input.arcs[ArcAt(e).first].weight = ArcAt(e).weight
Double(level, e) ==
  /\ Inner(e) \in SideArcs /\ level[Inner(e)[2][1]] < level[e[2][1]]
  /\ Outer(e) \in SideArcs /\ level[Outer(e)[2][1]] < level[e[2][1]]
  /\ EndAt(Inner(e), 1) = EndAt(e, 1) /\ EndAt(Inner(e), 2) = EndAt(Outer(e), 1) /\ EndAt(Outer(e), 2) = EndAt(e, 2)
  /\ ArcAt(e).weight = ArcAt(Inner(e)).weight + ArcAt(Outer(e)).weight
OnSide(level, e) ==
  /\ e[2] \in Nodes \X Nodes /\ EndAt(e, 1) \in Nodes /\ EndAt(e, 2) \in Nodes /\ ArcAt(e).weight \in Nat
  /\ level[e[2][1]] \in Nat /\ level[e[2][1]] < input.n
  /\ ArcAt(e).original => Single(e)
  /\ ~ArcAt(e).original => Double(level, e)
UnpacksUp(level) == \A e \in SideArcs : OnSide(level, e)
LEMMA ArcsUnpackUp ==
  ASSUME input \in Inputs, OrderOf(Nodes, ch), DOMAIN ch.side = Dirs, NEW D,
         NEW level \in [Nodes -> Nodes], UpwardIs(Nodes, ch, CleanGraph, D, level)
  PROVE  UnpacksUp(level)
<1> SUFFICES ASSUME NEW e \in SideArcs PROVE OnSide(level, e)
  BY DEF UnpacksUp
<1>1. PICK d, p : d = e[1] /\ p = e[2]
  OBVIOUS
<1>2. d \in Dirs /\ p \in DOMAIN ch.side[d] /\ p \in Nodes \X Nodes /\ e = <<d, p>>
  BY <1>1 DEF SideArcs
<1>3. PICK a : a = ch.side[d][p]
  OBVIOUS
<1>4. PICK g : g = SearchArc(d, p[1], p[2])
  OBVIOUS
<1>5. /\ level[p[1]] < level[p[2]] /\ a.weight \in Nat /\ UnpacksTo(ch, CleanGraph, a, g)
      /\ p[1] \in Nodes /\ p[2] \in Nodes
  BY <1>2, <1>3, <1>4 DEF UpwardIs
<1>6. g \in Nodes \X Nodes /\ (g[1] = p[1] \/ g[2] = p[1]) /\ g[1] \in {p[1], p[2]} /\ g[2] \in {p[1], p[2]}
  BY <1>4, <1>5 DEF SearchArc
<1>7. ArcAt(e) = a /\ EndAt(e, 1) = ch.order[g[1] + 1] /\ EndAt(e, 2) = ch.order[g[2] + 1]
  BY <1>1, <1>3, <1>4 DEF ArcAt, EndAt
<1>8. EndAt(e, 1) \in Nodes /\ EndAt(e, 2) \in Nodes
  BY <1>6, <1>7 DEF OrderOf
<1>9. level[p[1]] \in Nat /\ level[p[1]] < input.n
  <2>1. input.n \in Nat /\ Nodes = 0 .. input.n - 1 /\ level[p[1]] \in Nodes
    BY <1>5, TrueIsMetric
  <2> QED BY <2>1
<1>10. ASSUME a.original PROVE Single(e)
  <2>1. PICK r : r = <<ch.order[g[1] + 1], ch.order[g[2] + 1]>>
    OBVIOUS
  <2>2. r \in DOMAIN CleanGraph /\ a.first = InputArcId[r] /\ a.weight = CleanGraph[r].weight
    BY <1>5, <1>10, <2>1 DEF UnpacksTo
  <2>3. Stretch(input.arcs, InputArcId[r], r[1], r[2]) /\ CleanGraph[r].weight = input.arcs[InputArcId[r]].weight
    BY <2>2, KeptArcJoins
  <2>4. r[1] = EndAt(e, 1) /\ r[2] = EndAt(e, 2)
    BY <1>7, <2>1
  <2> QED BY <1>7, <2>2, <2>3, <2>4 DEF Single
<1>11. ASSUME ~a.original PROVE Double(level, e)
  <2>1. PICK i, o : i = a.first /\ o = a.second
    OBVIOUS
  <2>2. /\ i \in DOMAIN ch.side["b"] /\ o \in DOMAIN ch.side["f"]
        /\ i[2] = g[1] /\ o[2] = g[2] /\ i[1] = o[1]
        /\ a.weight = ch.side["b"][i].weight + ch.side["f"][o].weight
    BY <1>5, <1>11, <2>1 DEF UnpacksTo
  <2>3. "b" \in Dirs /\ "f" \in Dirs
    BY DEF Dirs
  <2>4. i \in Nodes \X Nodes /\ o \in Nodes \X Nodes /\ level[i[1]] < level[i[2]] /\ level[o[1]] < level[o[2]]
    BY <2>2, <2>3 DEF UpwardIs
  <2>5. Inner(e) = <<"b", i>> /\ Outer(e) = <<"f", o>>
    BY <1>7, <2>1 DEF Inner, Outer
  <2>6. <<"b", i>> \in SideArcs /\ <<"f", o>> \in SideArcs
    BY <2>2, <2>3, <2>4 DEF SideArcs
  <2>7. SearchArc("b", i[1], i[2]) = <<i[2], i[1]>> /\ SearchArc("f", o[1], o[2]) = <<o[1], o[2]>>
    BY DEF SearchArc
  <2>8. /\ EndAt(<<"b", i>>, 1) = ch.order[i[2] + 1] /\ EndAt(<<"b", i>>, 2) = ch.order[i[1] + 1]
        /\ EndAt(<<"f", o>>, 1) = ch.order[o[1] + 1] /\ EndAt(<<"f", o>>, 2) = ch.order[o[2] + 1]
    BY <2>7 DEF EndAt
  <2>9. level[i[1]] < level[p[1]] /\ level[o[1]] < level[p[1]]
    <3>1. g[1] = p[1] \/ g[2] = p[1]
      BY <1>6
    <3>2. i[1] = o[1]
      BY <2>2
    <3> QED BY <2>2, <2>4, <3>1, <3>2
  <2>10. ArcAt(<<"b", i>>) = ch.side["b"][i] /\ ArcAt(<<"f", o>>) = ch.side["f"][o]
    BY DEF ArcAt
  <2>11. Inner(e)[2] = i /\ Outer(e)[2] = o /\ e[2] = p
    BY <1>1, <2>5
  <2>12. Inner(e) \in SideArcs /\ Outer(e) \in SideArcs /\ level[Inner(e)[2][1]] < level[e[2][1]] /\ level[Outer(e)[2][1]] < level[e[2][1]]
    BY <2>5, <2>6, <2>9, <2>11
  <2>13. EndAt(Inner(e), 1) = EndAt(e, 1) /\ EndAt(Inner(e), 2) = EndAt(Outer(e), 1) /\ EndAt(Outer(e), 2) = EndAt(e, 2)
    BY <1>7, <2>2, <2>5, <2>8
  <2>14. ArcAt(e).weight = ArcAt(Inner(e)).weight + ArcAt(Outer(e)).weight
    BY <1>7, <2>2, <2>5, <2>10
  <2> QED BY <2>12, <2>13, <2>14 DEF Double
<1> QED BY <1>1, <1>2, <1>5, <1>7, <1>8, <1>9, <1>10, <1>11 DEF OnSide

(* So the arcs it unpacks into are a road from its one end to the other.    *)
UnpackStep(roads) ==
  [c \in SideArcs |-> [f \in [SideArcs -> roads] |->
     IF ArcAt(c).original THEN <<ArcAt(c).first>> ELSE f[Inner(c)] \o f[Outer(c)]]]
ArcLevels(level) == [c \in SideArcs |-> level[c[2][1]]]
LEMMA UnpackStepwise ==
  ASSUME NEW level, UnpacksUp(level), NEW roads, roads = Seq(DOMAIN input.arcs)
  PROVE  Stepwise(SideArcs, roads, UnpackStep(roads)) /\ Local(SideArcs, roads, ArcLevels(level), UnpackStep(roads))
<1>1. PICK step : step = UnpackStep(roads)
  OBVIOUS
<1>2. ASSUME NEW c \in SideArcs, NEW f \in [SideArcs -> roads]
      PROVE  step[c][f] = IF ArcAt(c).original THEN <<ArcAt(c).first>> ELSE f[Inner(c)] \o f[Outer(c)]
  BY <1>1 DEF UnpackStep
<1>3. PICK depth : depth = ArcLevels(level)
  OBVIOUS
<1>4. ASSUME NEW c \in SideArcs, ~ArcAt(c).original
      PROVE  /\ Inner(c) \in SideArcs /\ Outer(c) \in SideArcs
             /\ Inner(c) \in Lower(SideArcs, depth, c) /\ Outer(c) \in Lower(SideArcs, depth, c)
  <2>1. Double(level, c)
    BY <1>4 DEF UnpacksUp, OnSide
  <2>2. PICK i, o : i = Inner(c) /\ o = Outer(c)
    OBVIOUS
  <2>3. i \in SideArcs /\ o \in SideArcs /\ level[i[2][1]] < level[c[2][1]] /\ level[o[2][1]] < level[c[2][1]]
    BY <2>1, <2>2 DEF Double
  <2>4. depth[i] = level[i[2][1]] /\ depth[o] = level[o[2][1]] /\ depth[c] = level[c[2][1]]
    BY <1>3, <2>3 DEF ArcLevels
  <2> QED BY <2>2, <2>3, <2>4 DEF Lower
<1>5. Stepwise(SideArcs, roads, step)
  <2> SUFFICES ASSUME NEW c \in SideArcs, NEW f \in [SideArcs -> roads] PROVE step[c][f] \in roads
    BY DEF Stepwise
  <2>1. CASE ArcAt(c).original
    <3>1. PICK s, ids : s = ArcAt(c).first /\ ids = DOMAIN input.arcs
      OBVIOUS
    <3>2. s \in ids
      BY <2>1, <3>1 DEF UnpacksUp, OnSide, Single, Stretch
    <3>3. <<s>> \in Seq(ids)
      BY <3>2
    <3> QED BY <1>2, <2>1, <3>1, <3>3
  <2>2. CASE ~ArcAt(c).original
    <3>1. f[Inner(c)] \in roads /\ f[Outer(c)] \in roads
      BY <1>4, <2>2
    <3>2. f[Inner(c)] \o f[Outer(c)] \in roads
      BY <3>1, ConcatLen
    <3> QED BY <1>2, <2>2, <3>2
  <2> QED BY <2>1, <2>2
<1>6. Local(SideArcs, roads, depth, step)
  <2> SUFFICES ASSUME NEW c \in SideArcs, NEW f \in [SideArcs -> roads], NEW g \in [SideArcs -> roads],
                      \A e \in Lower(SideArcs, depth, c) : f[e] = g[e]
               PROVE  step[c][f] = step[c][g]
    BY DEF Local
  <2>1. CASE ArcAt(c).original
    BY <1>2, <2>1
  <2>2. CASE ~ArcAt(c).original
    <3>1. f[Inner(c)] = g[Inner(c)] /\ f[Outer(c)] = g[Outer(c)]
      BY <1>4, <2>2
    <3> QED BY <1>2, <2>2, <3>1
  <2> QED BY <2>1, <2>2
<1> QED BY <1>1, <1>3, <1>5, <1>6

UnpackBy(U) == U = [e \in SideArcs |->
                      LET a == ch.side[e[1]][e[2]] IN
                      IF a.original THEN <<a.first>> ELSE U[<<"b", a.first>>] \o U[<<"f", a.second>>]]
(* Unpacking an arc gives its input arc or the unpacked arcs it stands for. *)
LEMMA UnpackArcRecurs ==
  ASSUME input \in Inputs, NEW level, UnpacksUp(level)
  PROVE  \A e \in SideArcs : UnpackArc[e] = IF ArcAt(e).original THEN <<ArcAt(e).first>> ELSE UnpackArc[Inner(e)] \o UnpackArc[Outer(e)]
<1>1. PICK roads : roads = Seq(DOMAIN input.arcs)
  OBVIOUS
<1>2. PICK pairs, step, depth, N : pairs = SideArcs /\ step = UnpackStep(roads) /\ depth = ArcLevels(level) /\ N = input.n
  OBVIOUS
<1>3. Stepwise(pairs, roads, step) /\ Local(pairs, roads, depth, step)
  BY <1>1, <1>2, UnpackStepwise
<1>4. RankedBelow(pairs, depth, N) /\ N \in Nat
  BY <1>2, InputsAssumption DEF RankedBelow, ArcLevels, UnpacksUp, OnSide
<1>5. roads # {}
  BY <1>1, EmptySeq
<1>6. Recurses(pairs, roads, step)
  BY <1>3, <1>4, <1>5, Recursing
<1>7. PICK U \in [pairs -> roads] : \A c \in pairs : U[c] = step[c][U]
  BY <1>6 DEF Recurses
<1>8. UnpackBy(U)
  <2>1. PICK X : X = [e \in SideArcs |->
                      LET a == ch.side[e[1]][e[2]] IN
                      IF a.original THEN <<a.first>> ELSE U[<<"b", a.first>>] \o U[<<"f", a.second>>]]
    OBVIOUS
  <2>2. ASSUME NEW e \in pairs PROVE U[e] = X[e]
    <3>1. U[e] = step[e][U]
      BY <1>7
    <3>2. step[e][U] = IF ArcAt(e).original THEN <<ArcAt(e).first>> ELSE U[Inner(e)] \o U[Outer(e)]
      BY <1>2, <1>7 DEF UnpackStep
    <3>3. X[e] = IF ArcAt(e).original THEN <<ArcAt(e).first>> ELSE U[Inner(e)] \o U[Outer(e)]
      BY <1>2, <2>1 DEF ArcAt, Inner, Outer
    <3> QED BY <3>1, <3>2, <3>3
  <2>3. DOMAIN X = pairs /\ X = [e \in pairs |-> X[e]]
    BY <1>2, <2>1
  <2>4. U = X
    BY <1>7, <2>2, <2>3
  <2> QED BY <2>1, <2>4 DEF UnpackBy
<1>9. UnpackBy(UnpackArc)
  <2>1. PICK F : F = CHOOSE O : UnpackBy(O)
    OBVIOUS
  <2>2. UnpackBy(F)
    BY <1>8, <2>1
  <2>3. UnpackArc = F
    BY <2>1 DEF UnpackArc, UnpackBy
  <2> QED BY <2>2, <2>3
<1> QED BY <1>9 DEF UnpackBy, ArcAt, Inner, Outer

Unpacks(e) == Route(Nodes, input.arcs, UnpackArc[e], EndAt(e, 1), EndAt(e, 2), ArcAt(e).weight)
(* So every arc unpacks to a road of its weight.                            *)
LEMMA ArcsUnpack ==
  ASSUME input \in Inputs, NEW level, UnpacksUp(level)
  PROVE  \A e \in SideArcs : Unpacks(e)
<1>1. PICK S : S = {k \in Nat : \A e \in SideArcs : level[e[2][1]] < k => Unpacks(e)}
  OBVIOUS
<1>2. \A e \in SideArcs : level[e[2][1]] \in Nat /\ level[e[2][1]] < input.n
  BY DEF UnpacksUp, OnSide
<1>3. 0 \in S
  BY <1>1, <1>2
<1>4. ASSUME NEW k \in Nat, k \in S PROVE k + 1 \in S
  <2> SUFFICES ASSUME NEW e \in SideArcs, level[e[2][1]] < k + 1 PROVE Unpacks(e)
    BY <1>1
  <2>1. OnSide(level, e)
    BY DEF UnpacksUp
  <2>2. CASE ArcAt(e).original
    <3>1. PICK s, x, y : s = ArcAt(e).first /\ x = EndAt(e, 1) /\ y = EndAt(e, 2)
      OBVIOUS
    <3>2. Stretch(input.arcs, s, x, y) /\ x \in Nodes /\ y \in Nodes /\ input.arcs[s].weight = ArcAt(e).weight
      BY <2>1, <2>2, <3>1 DEF OnSide, Single
    <3>3. UnpackArc[e] = <<s>>
      BY <2>2, <3>1, UnpackArcRecurs
    <3>4. Route(Nodes, input.arcs, UnpackArc[e], x, y, input.arcs[s].weight)
      BY <3>2, <3>3, OneArcRoute
    <3> QED BY <3>1, <3>2, <3>4 DEF Unpacks
  <2>3. CASE ~ArcAt(e).original
    <3>1. PICK i, o : i = Inner(e) /\ o = Outer(e)
      OBVIOUS
    <3>2. Double(level, e)
      BY <2>1, <2>3 DEF OnSide
    <3>3. /\ i \in SideArcs /\ o \in SideArcs /\ level[i[2][1]] < level[e[2][1]] /\ level[o[2][1]] < level[e[2][1]]
          /\ EndAt(i, 1) = EndAt(e, 1) /\ EndAt(i, 2) = EndAt(o, 1) /\ EndAt(o, 2) = EndAt(e, 2)
          /\ ArcAt(e).weight = ArcAt(i).weight + ArcAt(o).weight
      BY <3>1, <3>2 DEF Double
    <3>4. level[i[2][1]] < k /\ level[o[2][1]] < k
      BY <1>2, <3>3
    <3>5. Unpacks(i) /\ Unpacks(o)
      BY <1>1, <1>4, <3>3, <3>4
    <3>6. PICK x, m, y, u, v : /\ x = EndAt(e, 1) /\ m = EndAt(o, 1) /\ y = EndAt(e, 2)
                               /\ u = ArcAt(i).weight /\ v = ArcAt(o).weight
      OBVIOUS
    <3>7. Route(Nodes, input.arcs, UnpackArc[i], x, m, u) /\ Route(Nodes, input.arcs, UnpackArc[o], m, y, v)
      BY <3>3, <3>5, <3>6 DEF Unpacks
    <3>8. Route(Nodes, input.arcs, UnpackArc[i] \o UnpackArc[o], x, y, u + v)
      BY <3>7, RoutesJoin
    <3>9. UnpackArc[e] = UnpackArc[i] \o UnpackArc[o]
      BY <2>3, <3>1, UnpackArcRecurs
    <3>10. ArcAt(e).weight = u + v
      BY <3>3, <3>6
    <3> QED BY <3>6, <3>8, <3>9, <3>10 DEF Unpacks
  <2> QED BY <2>2, <2>3
<1>5. input.n \in Nat
  BY InputsAssumption
<1>6. input.n \in S
  BY <1>3, <1>4, <1>5, InductionOnNat
<1> QED BY <1>1, <1>2, <1>6

-----------------------------------------------------------------------------
(* Walking down the predecessors: whatever is computed along them is there.  *)
Climbs(n, level, fl, pn) ==
  \A y \in fl : /\ level[y] \in Nat /\ level[y] < n
                /\ pn[y] # NoId => pn[y] \in fl /\ level[pn[y]] < level[y]
Along(fl, pn, base, over, F) == \A y \in fl : F[y] = IF pn[y] = NoId THEN base[y] ELSE over[y][F[pn[y]]]
IsAlong(fl, V, pn, base, over) == \E F \in [fl -> V] : Along(fl, pn, base, over, F)
LEMMA WalkIsThere ==
  ASSUME NEW n \in Nat, NEW level, NEW fl, NEW pn, Climbs(n, level, fl, pn),
         NEW V, V # {}, NEW base \in [fl -> V], NEW over \in [fl -> [V -> V]]
  PROVE  IsAlong(fl, V, pn, base, over)
<1>1. PICK step : step = [y \in fl |-> [f \in [fl -> V] |-> IF pn[y] = NoId THEN base[y] ELSE over[y][f[pn[y]]]]]
  OBVIOUS
<1>2. PICK depth : depth = [y \in fl |-> level[y]]
  OBVIOUS
<1>3. ASSUME NEW y \in fl, NEW f \in [fl -> V] PROVE step[y][f] = IF pn[y] = NoId THEN base[y] ELSE over[y][f[pn[y]]]
  BY <1>1
<1>4. ASSUME NEW y \in fl, pn[y] # NoId PROVE pn[y] \in fl /\ pn[y] \in Lower(fl, depth, y)
  BY <1>2, <1>4 DEF Climbs, Lower
<1>5. Stepwise(fl, V, step)
  <2> SUFFICES ASSUME NEW y \in fl, NEW f \in [fl -> V] PROVE step[y][f] \in V
    BY DEF Stepwise
  <2>1. CASE pn[y] = NoId
    BY <1>3, <2>1
  <2>2. CASE pn[y] # NoId
    <3>1. f[pn[y]] \in V /\ over[y] \in [V -> V]
      BY <1>4, <2>2
    <3>2. over[y][f[pn[y]]] \in V
      BY <3>1
    <3> QED BY <1>3, <2>2, <3>2
  <2> QED BY <2>1, <2>2
<1>6. Local(fl, V, depth, step)
  <2> SUFFICES ASSUME NEW y \in fl, NEW f \in [fl -> V], NEW g \in [fl -> V], \A e \in Lower(fl, depth, y) : f[e] = g[e]
               PROVE  step[y][f] = step[y][g]
    BY DEF Local
  <2>1. CASE pn[y] = NoId
    BY <1>3, <2>1
  <2>2. CASE pn[y] # NoId
    <3>1. f[pn[y]] = g[pn[y]]
      BY <1>4, <2>2
    <3> QED BY <1>3, <2>2, <3>1
  <2> QED BY <2>1, <2>2
<1>7. RankedBelow(fl, depth, n)
  BY <1>2 DEF Climbs, RankedBelow
<1>8. Recurses(fl, V, step)
  BY <1>5, <1>6, <1>7, Recursing
<1>9. PICK F \in [fl -> V] : \A y \in fl : F[y] = step[y][F]
  BY <1>8 DEF Recurses
<1>10. Along(fl, pn, base, over, F)
  BY <1>3, <1>9 DEF Along
<1> QED BY <1>9, <1>10 DEF IsAlong

(* Over which node the way to a node comes, if it does not end there.       *)
Past(d) == [y \in Nodes |-> IF Ends(d, y) THEN NoId ELSE pnode[d][y]]
LEMMA PastIs ==
  ASSUME NEW n \in Nat, NEW level, NEW d, Climbs(n, level, Nodes, Past(d))
  PROVE  /\ \A y \in Nodes : Past(d)[y] = NoId <=> Ends(d, y)
         /\ \A y \in Nodes : ~Ends(d, y) => Past(d)[y] = pnode[d][y] /\ pnode[d][y] \in Nodes /\ level[pnode[d][y]] < level[y]
<1>1. \A y \in Nodes : Ends(d, y) => Past(d)[y] = NoId
  BY DEF Past
<1>2. \A y \in Nodes : ~Ends(d, y) => Past(d)[y] = pnode[d][y] /\ pnode[d][y] # NoId
  BY DEF Past, Ends
<1>3. \A y \in Nodes : Past(d)[y] = NoId <=> Ends(d, y)
  BY <1>1, <1>2
<1>4. PICK pn : pn = Past(d)
  OBVIOUS
<1>5. \A y \in Nodes : pn[y] # NoId => pn[y] \in Nodes /\ level[pn[y]] < level[y]
  BY <1>4 DEF Climbs
<1>6. ASSUME NEW y \in Nodes, ~Ends(d, y) PROVE pnode[d][y] \in Nodes /\ level[pnode[d][y]] < level[y]
  <2>1. pn[y] = pnode[d][y] /\ pn[y] # NoId
    BY <1>2, <1>4, <1>6
  <2> QED BY <1>5, <2>1
<1> QED BY <1>2, <1>3, <1>6

(* get_used_source: where the predecessors end.                             *)
StartsBy(d, S) == S = [y \in Nodes |-> IF Ends(d, y) THEN y ELSE S[pnode[d][y]]]
StartRecurs(d, S) == \A y \in Nodes : S[y] = IF Ends(d, y) THEN y ELSE S[pnode[d][y]]
LEMMA StartOfRecurs ==
  ASSUME NEW n \in Nat, NEW level, NEW d, Climbs(n, level, Nodes, Past(d))
  PROVE  StartRecurs(d, StartOf(d))
<1>1. PICK fl, pn : fl = Nodes /\ pn = Past(d)
  OBVIOUS
<1>2. PICK V : V = fl \cup {0}
  OBVIOUS
<1>3. PICK base : base = [y \in fl |-> y]
  OBVIOUS
<1>4. PICK over : over = [y \in fl |-> [v \in V |-> v]]
  OBVIOUS
<1>5. V # {} /\ base \in [fl -> V] /\ over \in [fl -> [V -> V]]
  BY <1>2, <1>3, <1>4
<1>6. IsAlong(fl, V, pn, base, over)
  BY <1>1, <1>5, WalkIsThere
<1>7. PICK F \in [fl -> V] : Along(fl, pn, base, over, F)
  BY <1>6 DEF IsAlong
<1>8. \A y \in fl : F[y] = IF Ends(d, y) THEN y ELSE F[pnode[d][y]]
  <2> SUFFICES ASSUME NEW y \in fl PROVE F[y] = IF Ends(d, y) THEN y ELSE F[pnode[d][y]]
    OBVIOUS
  <2>1. F[y] = IF pn[y] = NoId THEN base[y] ELSE over[y][F[pn[y]]]
    BY <1>7 DEF Along
  <2>2. CASE Ends(d, y)
    <3>1. pn[y] = NoId
      BY <1>1, <2>2, PastIs
    <3> QED BY <1>3, <2>1, <2>2, <3>1
  <2>3. CASE ~Ends(d, y)
    <3>1. pn[y] # NoId /\ pn[y] = pnode[d][y] /\ pn[y] \in fl
      BY <1>1, <2>3, PastIs
    <3>2. F[pn[y]] \in V
      BY <3>1
    <3> QED BY <1>4, <2>1, <2>3, <3>1, <3>2
  <2> QED BY <2>2, <2>3
<1>9. StartsBy(d, F)
  <2>1. F = [y \in fl |-> F[y]]
    BY <1>7
  <2>2. F = [y \in fl |-> IF Ends(d, y) THEN y ELSE F[pnode[d][y]]]
    BY <1>8, <2>1
  <2> QED BY <1>1, <2>2 DEF StartsBy
<1>10. PICK G : G = CHOOSE O : StartsBy(d, O)
  OBVIOUS
<1>11. StartsBy(d, G)
  BY <1>9, <1>10
<1>12. StartOf(d) = G
  BY <1>10 DEF StartOf, StartsBy
<1> QED BY <1>11, <1>12 DEF StartsBy, StartRecurs

(* The roads of the arcs on the way, linked.                                *)
WayBy(d, W) == W = [y \in Nodes |-> IF Ends(d, y) THEN <<>> ELSE Link(d, W[pnode[d][y]], UnpackArc[<<d, parc[d][y]>>])]
RoadsOn(d) == \A y \in Nodes : ~Ends(d, y) => UnpackArc[<<d, parc[d][y]>>] \in Seq(DOMAIN input.arcs)
LEMMA LinkIsSeq == ASSUME NEW S, NEW d, NEW s \in Seq(S), NEW t \in Seq(S) PROVE Link(d, s, t) \in Seq(S)
BY ConcatLen DEF Link
WayRecurs(d, W) ==
  \A y \in Nodes : /\ W[y] \in Seq(DOMAIN input.arcs)
                   /\ W[y] = IF Ends(d, y) THEN <<>> ELSE Link(d, W[pnode[d][y]], UnpackArc[<<d, parc[d][y]>>])
(* The way to every node exists, is made of input arcs and is the one the   *)
(* code unpacks.                                                            *)
LEMMA WayIsThere ==
  ASSUME NEW n \in Nat, NEW level, NEW d, Climbs(n, level, Nodes, Past(d)), RoadsOn(d)
  PROVE  \E W : WayBy(d, W)
<1>1. PICK fl, pn, ids : fl = Nodes /\ pn = Past(d) /\ ids = DOMAIN input.arcs
  OBVIOUS
<1>2. PICK own : own = [y \in fl |-> IF Ends(d, y) THEN <<>> ELSE UnpackArc[<<d, parc[d][y]>>]]
  OBVIOUS
<1>3. PICK V : V = Seq(ids)
  OBVIOUS
<1>4. \A y \in fl : own[y] \in V
  BY <1>1, <1>2, <1>3, EmptySeq DEF RoadsOn
<1>5. PICK base : base = [y \in fl |-> <<>>]
  OBVIOUS
<1>6. PICK over : over = [y \in fl |-> [v \in V |-> Link(d, v, own[y])]]
  OBVIOUS
<1>7. \A v \in V, y \in fl : Link(d, v, own[y]) \in V
  BY <1>3, <1>4, LinkIsSeq
<1>8. V # {} /\ base \in [fl -> V] /\ over \in [fl -> [V -> V]]
  BY <1>3, <1>5, <1>6, <1>7, EmptySeq
<1>9. IsAlong(fl, V, pn, base, over)
  BY <1>1, <1>8, WalkIsThere
<1>10. PICK F \in [fl -> V] : Along(fl, pn, base, over, F)
  BY <1>9 DEF IsAlong
<1>11. \A y \in fl : F[y] = IF Ends(d, y) THEN <<>> ELSE Link(d, F[pnode[d][y]], own[y])
  <2> SUFFICES ASSUME NEW y \in fl PROVE F[y] = IF Ends(d, y) THEN <<>> ELSE Link(d, F[pnode[d][y]], own[y])
    OBVIOUS
  <2>1. F[y] = IF pn[y] = NoId THEN base[y] ELSE over[y][F[pn[y]]]
    BY <1>10 DEF Along
  <2>2. CASE Ends(d, y)
    <3>1. pn[y] = NoId
      BY <1>1, <2>2, PastIs
    <3> QED BY <1>5, <2>1, <2>2, <3>1
  <2>3. CASE ~Ends(d, y)
    <3>1. pn[y] # NoId /\ pn[y] = pnode[d][y] /\ pn[y] \in fl
      BY <1>1, <2>3, PastIs
    <3>2. F[pn[y]] \in V
      BY <3>1
    <3> QED BY <1>6, <2>1, <2>3, <3>1, <3>2
  <2> QED BY <2>2, <2>3
<1> SUFFICES WayBy(d, F)
  OBVIOUS
<1>12. F = [y \in fl |-> F[y]]
  BY <1>10
<1>13. \A y \in fl : F[y] = IF Ends(d, y) THEN <<>> ELSE Link(d, F[pnode[d][y]], UnpackArc[<<d, parc[d][y]>>])
  BY <1>2, <1>11
<1>14. F = [y \in fl |-> IF Ends(d, y) THEN <<>> ELSE Link(d, F[pnode[d][y]], UnpackArc[<<d, parc[d][y]>>])]
  BY <1>12, <1>13
<1> QED BY <1>1, <1>14 DEF WayBy

LEMMA WayIsSeq ==
  ASSUME NEW n \in Nat, NEW level, NEW d, Climbs(n, level, Nodes, Past(d)), RoadsOn(d), NEW G, WayBy(d, G)
  PROVE  WayRecurs(d, G)
<1>1. PICK fl, ids, V : fl = Nodes /\ ids = DOMAIN input.arcs /\ V = Seq(ids)
  <2>1. PICK ids : ids = DOMAIN input.arcs
    OBVIOUS
  <2> QED BY <2>1
<1>2. PICK own : own = [y \in fl |-> IF Ends(d, y) THEN <<>> ELSE UnpackArc[<<d, parc[d][y]>>]]
  OBVIOUS
<1>3. \A y \in fl : own[y] \in V
  BY <1>1, <1>2, EmptySeq DEF RoadsOn
<1>4. \A v \in V, y \in fl : Link(d, v, own[y]) \in V
  BY <1>1, <1>3, LinkIsSeq
<1>5. \A y \in fl : G[y] = IF Ends(d, y) THEN <<>> ELSE Link(d, G[pnode[d][y]], own[y])
  BY <1>1, <1>2 DEF WayBy
<1>6. PICK S : S = {k \in Nat : \A y \in fl : level[y] < k => G[y] \in V}
  OBVIOUS
<1>7. \A y \in fl : level[y] \in Nat /\ level[y] < n
  BY <1>1 DEF Climbs
<1>8. 0 \in S
  BY <1>6, <1>7
<1>9. ASSUME NEW k \in Nat, k \in S PROVE k + 1 \in S
  <2> SUFFICES ASSUME NEW y \in fl, level[y] < k + 1 PROVE G[y] \in V
    BY <1>6
  <2>1. CASE Ends(d, y)
    BY <1>1, <1>5, <2>1, EmptySeq
  <2>2. CASE ~Ends(d, y)
    <3>1. PICK x : x = pnode[d][y]
      OBVIOUS
    <3>2. x \in fl /\ level[x] < level[y]
      BY <1>1, <2>2, <3>1, PastIs
    <3>3. level[x] < k
      BY <1>7, <3>2
    <3>4. G[x] \in V
      BY <1>6, <1>9, <3>2, <3>3
    <3> QED BY <1>4, <1>5, <2>2, <3>1, <3>4
  <2> QED BY <2>1, <2>2
<1>10. n \in S
  BY <1>8, <1>9, InductionOnNat
<1>11. \A y \in fl : G[y] \in V
  BY <1>6, <1>7, <1>10
<1> QED BY <1>1, <1>11 DEF WayBy, WayRecurs

LEMMA UnpackedWayRecurs ==
  ASSUME NEW n \in Nat, NEW level, NEW d, Climbs(n, level, Nodes, Past(d)), RoadsOn(d)
  PROVE  WayRecurs(d, UnpackedWay(d))
<1>1. PICK G : G = CHOOSE O : WayBy(d, O)
  OBVIOUS
<1>2. WayBy(d, G)
  BY <1>1, WayIsThere
<1>3. UnpackedWay(d) = G
  BY <1>1 DEF UnpackedWay, WayBy
<1>4. WayRecurs(d, G)
  BY <1>2, WayIsSeq
<1> QED BY <1>3, <1>4

-----------------------------------------------------------------------------
(* Up to every node but a start the extra weight runs over the arcs of the  *)
(* way, although its first part is no neutral element.                      *)
Pushed(d) == {x \in Nodes : ~Ends(d, x)}
ExtraBy(d, E) == E = [y \in {x \in Nodes : ~Ends(d, x)} |->
                        LET near == UnpackArc[<<d, parc[d][y]>>] IN
                        IF Ends(d, pnode[d][y]) THEN near ELSE Link(d, E[pnode[d][y]], near)]
LEMMA LinkToEmpty == ASSUME NEW S, NEW d, NEW s \in Seq(S) PROVE Link(d, <<>>, s) = s /\ Link(d, s, <<>>) = s
BY ConcatEmptySeq DEF Link
(* The same for the extra weight.                                           *)
LEMMA UpExtraIsWay ==
  ASSUME NEW n \in Nat, NEW level, NEW d, Climbs(n, level, Nodes, Past(d)), RoadsOn(d)
  PROVE  \A y \in Pushed(d) : UpExtra(d)[y] = UnpackedWay(d)[y]
<1>1. PICK fl, pn, ids, W : fl = Nodes /\ pn = pnode[d] /\ ids = DOMAIN input.arcs /\ W = UnpackedWay(d)
  OBVIOUS
<1>2. PICK own : own = [y \in fl |-> IF Ends(d, y) THEN <<>> ELSE UnpackArc[<<d, parc[d][y]>>]]
  OBVIOUS
<1>3. \A y \in fl : own[y] \in Seq(ids)
  BY <1>1, <1>2, EmptySeq DEF RoadsOn
<1>4. \A y \in fl : W[y] \in Seq(ids) /\ W[y] = IF Ends(d, y) THEN <<>> ELSE Link(d, W[pn[y]], own[y])
  BY <1>1, <1>2, UnpackedWayRecurs DEF WayRecurs
<1>5. PICK P : P = Pushed(d)
  OBVIOUS
<1>6. P = {x \in fl : ~Ends(d, x)} /\ \A y \in P : pn[y] \in fl /\ level[pn[y]] < level[y]
  BY <1>1, <1>5, PastIs DEF Pushed
<1>7. ASSUME NEW y \in P
      PROVE  W[y] = IF Ends(d, pn[y]) THEN own[y] ELSE Link(d, W[pn[y]], own[y])
  <2>1. W[y] = Link(d, W[pn[y]], own[y])
    BY <1>4, <1>6
  <2>2. CASE Ends(d, pn[y])
    <3>1. W[pn[y]] = <<>>
      BY <1>4, <1>6, <2>2
    <3>2. Link(d, <<>>, own[y]) = own[y]
      BY <1>3, <1>6, LinkToEmpty
    <3> QED BY <2>1, <2>2, <3>1, <3>2
  <2> QED BY <2>1, <2>2
<1>8. \A y \in P : own[y] = UnpackArc[<<d, parc[d][y]>>]
  BY <1>2, <1>6
<1>9. PICK F : F = [y \in P |-> W[y]]
  OBVIOUS
<1>10. ExtraBy(d, F)
  <2>1. \A y \in P : F[y] = IF Ends(d, pn[y]) THEN UnpackArc[<<d, parc[d][y]>>] ELSE Link(d, F[pn[y]], UnpackArc[<<d, parc[d][y]>>])
    <3> SUFFICES ASSUME NEW y \in P
                 PROVE  F[y] = IF Ends(d, pn[y]) THEN UnpackArc[<<d, parc[d][y]>>] ELSE Link(d, F[pn[y]], UnpackArc[<<d, parc[d][y]>>])
      OBVIOUS
    <3>1. CASE Ends(d, pn[y])
      BY <1>7, <1>8, <1>9, <3>1
    <3>2. CASE ~Ends(d, pn[y])
      <4>1. pn[y] \in P
        BY <1>6, <3>2
      <4> QED BY <1>7, <1>8, <1>9, <3>2, <4>1
    <3> QED BY <3>1, <3>2
  <2>2. F = [y \in P |-> F[y]]
    BY <1>9
  <2>3. F = [y \in P |-> IF Ends(d, pn[y]) THEN UnpackArc[<<d, parc[d][y]>>] ELSE Link(d, F[pn[y]], UnpackArc[<<d, parc[d][y]>>])]
    BY <2>1, <2>2
  <2> QED BY <1>1, <1>6, <2>3 DEF ExtraBy
<1>11. PICK G : G = CHOOSE O : ExtraBy(d, O)
  OBVIOUS
<1>12. ExtraBy(d, G)
  BY <1>10, <1>11
<1>13. UpExtra(d) = G
  BY <1>11 DEF UpExtra, ExtraBy
<1>14. \A y \in P : G[y] = IF Ends(d, pn[y]) THEN own[y] ELSE Link(d, G[pn[y]], own[y])
  BY <1>1, <1>6, <1>8, <1>12 DEF ExtraBy
<1>15. PICK S : S = {k \in Nat : \A y \in P : level[y] < k => G[y] = W[y]}
  OBVIOUS
<1>16. \A y \in fl : level[y] \in Nat /\ level[y] < n
  BY <1>1 DEF Climbs
<1>17. 0 \in S
  BY <1>6, <1>15, <1>16
<1>18. ASSUME NEW k \in Nat, k \in S PROVE k + 1 \in S
  <2> SUFFICES ASSUME NEW y \in P, level[y] < k + 1 PROVE G[y] = W[y]
    BY <1>15
  <2>1. CASE Ends(d, pn[y])
    BY <1>7, <1>14, <2>1
  <2>2. CASE ~Ends(d, pn[y])
    <3>1. pn[y] \in P /\ level[pn[y]] < level[y]
      BY <1>6, <2>2
    <3>2. level[pn[y]] < k
      BY <1>6, <1>16, <3>1
    <3>3. G[pn[y]] = W[pn[y]]
      BY <1>15, <1>18, <3>1, <3>2
    <3> QED BY <1>7, <1>14, <2>2, <3>3
  <2> QED BY <2>1, <2>2
<1>19. n \in S
  BY <1>17, <1>18, InductionOnNat
<1>20. \A y \in P : G[y] = W[y]
  BY <1>6, <1>15, <1>16, <1>19
<1> QED BY <1>1, <1>5, <1>13, <1>20

(* The road of a label is no longer than the label.                         *)
Labels(d, level, fl, start, gap) ==
  /\ Climbs(input.n, level, Nodes, Past(d)) /\ fl \subseteq flag[d] /\ fl \subseteq Nodes
  /\ \A y \in fl : /\ dist[d][y] \in Nat
                   /\ pnode[d][y] = NoId => y \in DOMAIN start /\ start[y] \in Nat /\ dist[d][y] = start[y]
                   /\ pnode[d][y] # NoId => /\ pnode[d][y] \in fl
                                            /\ parc[d][y] = <<pnode[d][y], y>> /\ <<d, parc[d][y]>> \in SideArcs
                                            /\ dist[d][pnode[d][y]] + ArcAt(<<d, parc[d][y]>>).weight <= dist[d][y]
                                            /\ ArcAt(<<d, parc[d][y]>>).weight \in Nat
                                            /\ gap[<<pnode[d][y], y>>] <= ArcAt(<<d, parc[d][y]>>).weight
(* u is a road to y from a start s.                                         *)
LeadsTo(d, u, s, y, start, gap, l) ==
  /\ s \in DOMAIN start /\ s \in Nodes /\ l \in Nat /\ start[s] \in Nat
  /\ RouteOn(Nodes, input.arcs, d, u, ch.order[s + 1], ch.order[y + 1], l)
  /\ start[s] + l <= dist[d][y] /\ gap[<<s, y>>] <= l
Explained(d, W, F, y, start, gap) == \E l : LeadsTo(d, W[y], F[y], y, start, gap, l)
LEMMA ArcRoad ==
  ASSUME NEW d \in Dirs, NEW p, <<d, p>> \in SideArcs, Unpacks(<<d, p>>)
  PROVE  /\ RouteOn(Nodes, input.arcs, d, UnpackArc[<<d, p>>], ch.order[p[1] + 1], ch.order[p[2] + 1], ArcAt(<<d, p>>).weight)
         /\ UnpackArc[<<d, p>>] \in Seq(DOMAIN input.arcs)
<1>1. PICK e, u, w, a, b : e = <<d, p>> /\ u = UnpackArc[<<d, p>>] /\ w = ArcAt(<<d, p>>).weight /\ a = EndAt(e, 1) /\ b = EndAt(e, 2)
  OBVIOUS
<1>2. Route(Nodes, input.arcs, u, a, b, w)
  BY <1>1 DEF Unpacks
<1>3. e[1] = d /\ e[2] = p
  BY <1>1
<1>4. u \in Seq(DOMAIN input.arcs)
  BY <1>2, RouteWeighs
<1>5. CASE d = "f"
  <2>1. a = ch.order[p[1] + 1] /\ b = ch.order[p[2] + 1]
    BY <1>1, <1>3, <1>5 DEF EndAt, SearchArc
  <2> QED BY <1>1, <1>2, <1>4, <1>5, <2>1 DEF RouteOn
<1>6. CASE d # "f"
  <2>1. a = ch.order[p[2] + 1] /\ b = ch.order[p[1] + 1]
    BY <1>1, <1>3, <1>6 DEF EndAt, SearchArc
  <2> QED BY <1>1, <1>2, <1>4, <1>6, <2>1 DEF RouteOn
<1> QED BY <1>5, <1>6

(* A road that leads to x leads on over an arc from x.                      *)
LEMMA LeadsOn ==
  ASSUME NEW d \in Dirs, NEW start, NEW gap, GapIs(Nodes, gap), NEW x \in Nodes, NEW y \in Nodes,
         NEW u, NEW s, NEW l, LeadsTo(d, u, s, x, start, gap, l),
         NEW v, NEW w \in Nat, RouteOn(Nodes, input.arcs, d, v, ch.order[x + 1], ch.order[y + 1], w), gap[<<x, y>>] <= w,
         dist[d][x] \in Nat, dist[d][y] \in Nat, dist[d][x] + w <= dist[d][y]
  PROVE  LeadsTo(d, Link(d, u, v), s, y, start, gap, l + w)
<1>1. PICK arcs, tent, a, b, c : arcs = input.arcs /\ tent = dist[d] /\ a = ch.order[s + 1] /\ b = ch.order[x + 1] /\ c = ch.order[y + 1]
  OBVIOUS
<1>2. /\ s \in DOMAIN start /\ s \in Nodes /\ l \in Nat /\ start[s] \in Nat
      /\ RouteOn(Nodes, arcs, d, u, a, b, l) /\ start[s] + l <= tent[x] /\ gap[<<s, x>>] <= l
  BY <1>1 DEF LeadsTo
<1>3. RouteOn(Nodes, arcs, d, v, b, c, w)
  BY <1>1
<1>4. RouteOn(Nodes, arcs, d, Link(d, u, v), a, c, l + w)
  BY <1>2, <1>3, RoadsLink
<1>5. start[s] + (l + w) <= tent[y] /\ l + w \in Nat
  <2>1. tent[x] \in Nat /\ tent[y] \in Nat /\ tent[x] + w <= tent[y]
    BY <1>1
  <2> QED BY <1>2, <2>1
<1>6. gap[<<s, y>>] <= l + w
  <2>1. gap[<<s, y>>] <= gap[<<s, x>>] + gap[<<x, y>>] /\ gap[<<s, y>>] \in Nat /\ gap[<<s, x>>] \in Nat /\ gap[<<x, y>>] \in Nat
    BY <1>2 DEF GapIs
  <2> QED BY <1>2, <2>1
<1>7. PICK k : k = l + w
  OBVIOUS
<1>8. LeadsTo(d, Link(d, u, v), s, y, start, gap, k)
  BY <1>1, <1>2, <1>4, <1>5, <1>6, <1>7 DEF LeadsTo
<1> QED BY <1>7, <1>8

(* Walking predecessors, every label is explained by the road that is       *)
(* walked.                                                                  *)
LEMMA LabelsAreExplained ==
  ASSUME input \in Inputs, OrderOf(Nodes, ch), NEW d \in Dirs, NEW level, NEW fl, NEW start, NEW gap, GapIs(Nodes, gap),
         Labels(d, level, fl, start, gap), \A e \in SideArcs : Unpacks(e),
         NEW W, WayRecurs(d, W), NEW F, StartRecurs(d, F)
  PROVE  \A y \in fl : Explained(d, W, F, y, start, gap)
<1>2. PICK pn, arcs, tent : pn = pnode[d] /\ arcs = input.arcs /\ tent = dist[d]
  OBVIOUS
<1>3. PICK n \in Nat : n = input.n
  BY InputsAssumption
<1>4. Climbs(n, level, Nodes, Past(d)) /\ fl \subseteq Nodes
  BY <1>2, <1>3 DEF Labels
<1>a. ASSUME NEW y \in fl, pn[y] # NoId PROVE pn[y] \in fl /\ level[pn[y]] < level[y]
  <2>1. pn[y] \in fl /\ ~Ends(d, y)
    BY <1>2, <1>a DEF Labels, Ends
  <2> QED BY <1>2, <1>4, <2>1, PastIs
<1>b. \A y \in fl : Ends(d, y) <=> pn[y] = NoId
  BY <1>2 DEF Labels, Ends
<1>5. \A y \in fl : F[y] = IF pn[y] = NoId THEN y ELSE F[pn[y]]
  BY <1>2, <1>4, <1>b DEF StartRecurs
<1>6. \A y \in fl : W[y] = IF pn[y] = NoId THEN <<>> ELSE Link(d, W[pn[y]], UnpackArc[<<d, parc[d][y]>>])
  BY <1>2, <1>4, <1>b DEF WayRecurs
<1>7. PICK Good : Good = {y \in fl : Explained(d, W, F, y, start, gap)}
  OBVIOUS
<1>8. PICK S : S = {k \in Nat : \A y \in fl : level[y] < k => y \in Good}
  OBVIOUS
<1>9. \A y \in fl : level[y] \in Nat /\ level[y] < n
  BY <1>4 DEF Climbs
<1>10. 0 \in S
  BY <1>8, <1>9
<1>11. ASSUME NEW y \in fl, pn[y] = NoId PROVE y \in Good
  <2>1. y \in DOMAIN start /\ start[y] \in Nat /\ tent[y] = start[y] /\ y \in Nodes
    BY <1>2, <1>4, <1>11 DEF Labels
  <2>2. F[y] = y /\ W[y] = <<>>
    BY <1>5, <1>6, <1>11
  <2>3. PICK o : o = ch.order[y + 1]
    OBVIOUS
  <2>4. o \in Nodes
    BY <2>1, <2>3 DEF OrderOf
  <2>5. Route(Nodes, arcs, <<>>, o, o, 0)
    BY <2>4, NoRoute
  <2>6. RouteOn(Nodes, arcs, d, <<>>, o, o, 0)
    BY <2>5 DEF RouteOn
  <2>7. gap[<<y, y>>] = 0
    BY <2>1 DEF GapIs
  <2>8. LeadsTo(d, <<>>, y, y, start, gap, 0)
    BY <1>2, <2>1, <2>3, <2>6, <2>7 DEF LeadsTo
  <2> QED BY <1>2, <1>7, <2>2, <2>8 DEF Explained
<1>12. ASSUME NEW y \in fl, pn[y] # NoId, pn[y] \in Good PROVE y \in Good
  <2>1. PICK x, e, w : x = pn[y] /\ e = <<d, <<x, y>>>> /\ w = ArcAt(e).weight
    OBVIOUS
  <2>2. x \in fl /\ x \in Nodes /\ y \in Nodes
    BY <1>4, <1>12, <1>a, <2>1
  <2>3. /\ parc[d][y] = <<x, y>> /\ <<d, <<x, y>>>> \in SideArcs /\ w \in Nat /\ tent[x] + w <= tent[y] /\ gap[<<x, y>>] <= w
        /\ tent[x] \in Nat /\ tent[y] \in Nat
    BY <1>2, <1>12, <2>1, <2>2 DEF Labels
  <2>4. Unpacks(<<d, <<x, y>>>>)
    BY <2>3
  <2>5. PICK a, b, c, s, u, v : /\ a = ch.order[s + 1] /\ b = ch.order[x + 1] /\ c = ch.order[y + 1] /\ s = F[x]
                                /\ u = W[x] /\ v = UnpackArc[<<d, <<x, y>>>>]
    <3>1. PICK s : s = F[x]
      OBVIOUS
    <3> QED BY <3>1
  <2>6. RouteOn(Nodes, arcs, d, v, b, c, w)
    <3>1. PICK p : p = <<x, y>>
      OBVIOUS
    <3>2. RouteOn(Nodes, input.arcs, d, UnpackArc[<<d, p>>], ch.order[p[1] + 1], ch.order[p[2] + 1], ArcAt(<<d, p>>).weight)
      BY <2>3, <2>4, <3>1, ArcRoad
    <3> QED BY <1>2, <2>1, <2>5, <3>1, <3>2
  <2>7. Explained(d, W, F, x, start, gap)
    BY <1>7, <1>12, <2>1
  <2>8. PICK l : LeadsTo(d, u, s, x, start, gap, l)
    BY <1>2, <2>5, <2>7 DEF Explained
  <2>9. LeadsTo(d, Link(d, u, v), s, y, start, gap, l + w)
    <3>1. RouteOn(Nodes, input.arcs, d, v, ch.order[x + 1], ch.order[y + 1], w)
      BY <1>2, <2>5, <2>6
    <3>2. dist[d][x] \in Nat /\ dist[d][y] \in Nat /\ dist[d][x] + w <= dist[d][y]
      BY <1>2, <2>3
    <3> QED BY <2>2, <2>3, <2>8, <3>1, <3>2, LeadsOn
  <2>10. F[y] = s /\ W[y] = Link(d, u, v)
    BY <1>5, <1>6, <1>12, <2>1, <2>3, <2>5
  <2>11. Explained(d, W, F, y, start, gap)
    BY <2>9, <2>10 DEF Explained
  <2> QED BY <1>7, <2>11
<1>13. ASSUME NEW k \in Nat, k \in S PROVE k + 1 \in S
  <2> SUFFICES ASSUME NEW y \in fl, level[y] < k + 1 PROVE y \in Good
    BY <1>8
  <2>1. CASE pn[y] # NoId
    <3>1. pn[y] \in fl /\ level[pn[y]] < level[y]
      BY <1>a, <2>1
    <3>2. level[pn[y]] < k
      BY <1>9, <3>1
    <3> QED BY <1>8, <1>12, <1>13, <2>1, <3>1, <3>2
  <2> QED BY <1>11, <2>1
<1>14. n \in S
  BY <1>10, <1>13, InductionOnNat
<1>15. \A y \in fl : y \in Good
  BY <1>8, <1>9, <1>14
<1> QED BY <1>7, <1>15

-----------------------------------------------------------------------------
(* A finished run: every label is explained by a road.                      *)
StartsOf(d) == Starts(ch, asked.src[d])
GapsOf(d) == Gaps(Nodes, ch, TrueDistance, d)
LEMMA LivesAreLabels ==
  ASSUME input \in Inputs, QueryTypes, NEW level \in [Nodes -> Nodes], IsLevels(Nodes, ch, CleanGraph, TrueDistance, level),
         UnpacksUp(level), NEW d \in Dirs, Given(Nodes, ch, CleanGraph, TrueDistance, d, asked.src[d]),
         LiveSide(d)
  PROVE  Labels(d, level, flag[d], StartsOf(d), GapsOf(d))
<1>1. PICK fl, tent, pn, pa, start, gap, up : /\ fl = flag[d] /\ tent = dist[d] /\ pn = pnode[d] /\ pa = parc[d]
                                              /\ start = StartsOf(d) /\ gap = GapsOf(d) /\ up = ArcWeights(ch, d)
  OBVIOUS
<1>2. PICK best, qu : best = Bests(Nodes, ch, TrueDistance, d, asked.src[d]) /\ qu = q[d]
  OBVIOUS
<1>3. IsLabelled(Nodes, up, start, best, qu, fl, tent, pn, pa)
  BY <1>1, <1>2 DEF LiveSide, IsLiveAt, StartsOf
<1>4. UpwardIs(Nodes, ch, CleanGraph, TrueDistance, level)
  BY DEF IsLevels
<1>5. GapsMean(Nodes, ch, TrueDistance, d, gap)
  BY <1>1, GapsAre DEF Given, GapsOf
<1>6. input.n \in Nat /\ Nodes = 0 .. input.n - 1
  BY TrueIsMetric
<1>7. fl \subseteq Nodes
  BY <1>3 DEF IsLabelled
<1>8. \A y \in fl : level[y] \in Nat /\ level[y] < input.n
  <2>1. \A y \in fl : level[y] \in Nodes
    BY <1>7
  <2> QED BY <1>6, <2>1
<1>9. ASSUME NEW y \in fl
      PROVE  tent[y] \in Nat /\ (pn[y] = NoId => y \in DOMAIN start /\ start[y] \in Nat /\ tent[y] = start[y])
  <2>1. tent[y] \in Nat /\ (pn[y] = NoId => y \in DOMAIN start /\ tent[y] = start[y])
    BY <1>3 DEF IsLabelled
  <2> QED BY <2>1
<1>10. ASSUME NEW y \in fl, pn[y] # NoId
       PROVE  /\ pn[y] \in fl /\ level[pn[y]] < level[y] /\ pa[y] = <<pn[y], y>> /\ <<d, pa[y]>> \in SideArcs
              /\ tent[pn[y]] + ArcAt(<<d, pa[y]>>).weight <= tent[y]
              /\ ArcAt(<<d, pa[y]>>).weight \in Nat
              /\ gap[<<pn[y], y>>] <= ArcAt(<<d, pa[y]>>).weight
  <2>1. PICK x, p : x = pn[y] /\ p = <<x, y>>
    <3>1. PICK x : x = pn[y]
      OBVIOUS
    <3> QED BY <3>1
  <2>2. x \in fl /\ pa[y] = p /\ p \in DOMAIN up /\ tent[x] + up[p] <= tent[y]
    BY <1>3, <1>10, <2>1 DEF IsLabelled
  <2>3. p \in DOMAIN ch.side[d] /\ up[p] = ch.side[d][p].weight
    BY <1>1, <2>2 DEF ArcWeights
  <2>4. p[1] = x /\ p[2] = y /\ x \in Nodes /\ y \in Nodes /\ p \in Nodes \X Nodes
    BY <1>7, <2>1, <2>2
  <2>5. level[x] < level[y] /\ ch.side[d][p].weight \in Nat /\ Named(ch, TrueDistance, d, x, y) <= ch.side[d][p].weight
    BY <1>4, <2>3, <2>4 DEF UpwardIs
  <2>6. <<d, p>> \in SideArcs /\ ArcAt(<<d, p>>) = ch.side[d][p]
    BY <2>3, <2>4 DEF SideArcs, ArcAt
  <2>7. gap[<<x, y>>] = Named(ch, TrueDistance, d, x, y)
    BY <1>5, <2>4 DEF GapsMean
  <2> QED BY <2>1, <2>2, <2>3, <2>5, <2>6, <2>7
<1>11. Climbs(input.n, level, Nodes, Past(d))
  <2>1. \A y \in Nodes : level[y] \in Nat /\ level[y] < input.n
    <3>1. \A y \in Nodes : level[y] \in Nodes
      OBVIOUS
    <3> QED BY <1>6, <3>1
  <2>2. ASSUME NEW y \in Nodes, Past(d)[y] # NoId PROVE Past(d)[y] \in Nodes /\ level[Past(d)[y]] < level[y]
    <3>1. ~Ends(d, y) /\ Past(d)[y] = pn[y]
      BY <1>1, <2>2 DEF Past
    <3>2. y \in fl /\ pn[y] # NoId
      BY <1>1, <3>1 DEF Ends
    <3>3. pn[y] \in fl /\ level[pn[y]] < level[y]
      BY <1>10, <3>2
    <3> QED BY <1>7, <3>1, <3>3
  <2> QED BY <2>1, <2>2 DEF Climbs
<1>12. ASSUME NEW y \in flag[d]
       PROVE  /\ dist[d][y] \in Nat
              /\ pnode[d][y] = NoId => y \in DOMAIN StartsOf(d) /\ StartsOf(d)[y] \in Nat /\ dist[d][y] = StartsOf(d)[y]
              /\ pnode[d][y] # NoId => /\ pnode[d][y] \in flag[d]
                                       /\ parc[d][y] = <<pnode[d][y], y>> /\ <<d, parc[d][y]>> \in SideArcs
                                       /\ dist[d][pnode[d][y]] + ArcAt(<<d, parc[d][y]>>).weight <= dist[d][y]
                                       /\ ArcAt(<<d, parc[d][y]>>).weight \in Nat
                                       /\ GapsOf(d)[<<pnode[d][y], y>>] <= ArcAt(<<d, parc[d][y]>>).weight
  <2>1. y \in fl
    BY <1>1
  <2> QED BY <1>1, <1>9, <1>10, <2>1
<1> QED BY <1>1, <1>7, <1>11, <1>12 DEF Labels

Built(level) ==
  /\ input \in Inputs /\ OrderOf(Nodes, ch) /\ level \in [Nodes -> Nodes]
  /\ IsLevels(Nodes, ch, CleanGraph, TrueDistance, level) /\ UnpacksUp(level)
(* What is known of a hierarchy that was built.                             *)
LEMMA BuiltHierarchy == ASSUME HInv, IInv, pc = "built" PROVE \E level : Built(level)
<1>1. input \in Inputs
  BY DEF IInv, GraphOK
<1>2. OrderIs(Nodes, ch) /\ DOMAIN ch.side = Dirs /\ Levelled(Nodes, ch, CleanGraph, TrueDistance)
  BY DEF HInv, HierarchyOK
<1>3. OrderOf(Nodes, ch)
  BY <1>1, <1>2, OrderIsOrder
<1>4. PICK level \in [Nodes -> Nodes] : IsLevels(Nodes, ch, CleanGraph, TrueDistance, level)
  BY <1>2 DEF Levelled
<1>5. UnpacksUp(level)
  <2>1. UpwardIs(Nodes, ch, CleanGraph, TrueDistance, level)
    BY <1>4 DEF IsLevels
  <2> QED BY <1>1, <1>2, <1>3, <2>1, ArcsUnpackUp
<1> QED BY <1>1, <1>3, <1>4, <1>5 DEF Built

EveryWayIsRoad(level) ==
  \A d \in Dirs :
    /\ RoadsOn(d) /\ Climbs(input.n, level, Nodes, Past(d)) /\ input.n \in Nat /\ flag[d] \subseteq Nodes
    /\ \A y \in flag[d] : Explained(d, UnpackedWay(d), StartOf(d), y, StartsOf(d), GapsOf(d)) /\ dist[d][y] \in Nat
(* In a finished run every label of either side is explained.               *)
LEMMA RunIsExplained ==
  ASSUME HInv, IInv, QueryTypes, pc = "built", LiveSide("f"), LiveSide("b") PROVE \E level : EveryWayIsRoad(level)
<1>1. PICK level : Built(level)
  BY BuiltHierarchy
<1>2. ASSUME NEW d \in Dirs
      PROVE  /\ RoadsOn(d) /\ Climbs(input.n, level, Nodes, Past(d)) /\ input.n \in Nat /\ flag[d] \subseteq Nodes
             /\ \A y \in flag[d] : Explained(d, UnpackedWay(d), StartOf(d), y, StartsOf(d), GapsOf(d)) /\ dist[d][y] \in Nat
  <2>1. Given(Nodes, ch, CleanGraph, TrueDistance, d, asked.src[d]) /\ LiveSide(d)
    BY SideIsGiven DEF Dirs
  <2>2. Labels(d, level, flag[d], StartsOf(d), GapsOf(d))
    BY <1>1, <2>1, LivesAreLabels DEF Built
  <2>3. PICK gap, start, fl, n : gap = GapsOf(d) /\ start = StartsOf(d) /\ fl = flag[d] /\ n = input.n
    OBVIOUS
  <2>4. GapIs(Nodes, gap)
    BY <2>1, <2>3, GapsAre DEF Given, GapsOf, GapsMean
  <2>5. \A e \in SideArcs : Unpacks(e)
    BY <1>1, ArcsUnpack DEF Built
  <2>6. n \in Nat
    BY <1>1, <2>3, InputsAssumption DEF Built
  <2>7. Labels(d, level, fl, start, gap) /\ Climbs(n, level, Nodes, Past(d))
    BY <2>2, <2>3 DEF Labels
  <2>8. RoadsOn(d)
    <3>1. \A y \in Nodes : ~Ends(d, y) => <<d, parc[d][y]>> \in SideArcs
      BY <2>2 DEF Labels, Ends
    <3> QED BY <2>5, <3>1, ArcRoad DEF RoadsOn
  <2>9. PICK W, F : W = UnpackedWay(d) /\ F = StartOf(d)
    OBVIOUS
  <2>10. WayRecurs(d, W) /\ StartRecurs(d, F)
    BY <2>6, <2>7, <2>8, <2>9, UnpackedWayRecurs, StartOfRecurs
  <2>11. \A y \in fl : Explained(d, W, F, y, start, gap)
    BY <1>1, <2>4, <2>5, <2>7, <2>10, LabelsAreExplained DEF Built
  <2> QED BY <2>2, <2>3, <2>6, <2>8, <2>9, <2>11 DEF Labels
<1> QED BY <1>2 DEF EveryWayIsRoad

(* The extra weight of a run runs over the arcs of its path.                *)
LEMMA ExtraIsPath ==
  ASSUME NEW level, EveryWayIsRoad(level), meet # NoId => meet \in flag["f"] \cap flag["b"]
  PROVE  ExtraDistance = GetArcPath
<1>1. CASE meet = NoId
  BY <1>1 DEF ExtraDistance, GetArcPath
<1>2. CASE meet # NoId
  <2>1. PICK ids : ids = DOMAIN input.arcs
    OBVIOUS
  <2>2. ASSUME NEW d \in Dirs
        PROVE  /\ UnpackedWay(d)[meet] \in Seq(ids)
               /\ pnode[d][meet] = NoId => UnpackedWay(d)[meet] = <<>>
               /\ pnode[d][meet] # NoId => UpExtra(d)[meet] = UnpackedWay(d)[meet]
    <3>1. /\ RoadsOn(d) /\ Climbs(input.n, level, Nodes, Past(d)) /\ input.n \in Nat
          /\ meet \in flag[d] /\ meet \in Nodes
      BY <1>2 DEF EveryWayIsRoad, Dirs
    <3>2. PICK W, X : W = UnpackedWay(d) /\ X = UpExtra(d)
      OBVIOUS
    <3>3. /\ W[meet] \in Seq(ids)
          /\ W[meet] = IF Ends(d, meet) THEN <<>> ELSE Link(d, W[pnode[d][meet]], UnpackArc[<<d, parc[d][meet]>>])
      <4>1. WayRecurs(d, UnpackedWay(d))
        BY <3>1, UnpackedWayRecurs
      <4> QED BY <2>1, <3>1, <3>2, <4>1 DEF WayRecurs
    <3>4. \A y \in Pushed(d) : X[y] = W[y]
      BY <3>1, <3>2, UpExtraIsWay
    <3>5. Ends(d, meet) <=> pnode[d][meet] = NoId
      BY <3>1 DEF Ends
    <3>6. pnode[d][meet] # NoId => meet \in Pushed(d)
      BY <3>1, <3>5 DEF Pushed
    <3> QED BY <3>2, <3>3, <3>4, <3>5, <3>6
  <2>3. PICK u, v : u = UnpackedWay("f")[meet] /\ v = UnpackedWay("b")[meet]
    OBVIOUS
  <2>4. u \in Seq(ids) /\ v \in Seq(ids)
    BY <2>2, <2>3 DEF Dirs
  <2>5. /\ pnode["f"][meet] = NoId => u = <<>>
        /\ pnode["f"][meet] # NoId => UpExtra("f")[meet] = u
    BY <2>2, <2>3 DEF Dirs
  <2>6. /\ pnode["b"][meet] = NoId => v = <<>>
        /\ pnode["b"][meet] # NoId => UpExtra("b")[meet] = v
    BY <2>2, <2>3 DEF Dirs
  <2>7. GetArcPath = u \o v
    BY <1>2, <2>3 DEF GetArcPath
  <2>8. u \o <<>> = u /\ <<>> \o v = v /\ <<>> \o <<>> = <<>>
    <3>1. <<>> \in Seq(ids)
      BY EmptySeq
    <3> QED BY <2>4, <3>1, ConcatEmptySeq
  <2>9. PICK a, b \in BOOLEAN : (a <=> pnode["f"][meet] = NoId) /\ (b <=> pnode["b"][meet] = NoId)
    OBVIOUS
  <2>10. ExtraDistance = CASE a /\ b -> <<>> [] ~a /\ ~b -> UpExtra("f")[meet] \o UpExtra("b")[meet]
                           [] ~a /\ b -> UpExtra("f")[meet] [] OTHER -> UpExtra("b")[meet]
    BY <1>2, <2>9 DEF ExtraDistance
  <2>11. CASE a /\ b
    <3>1. ExtraDistance = <<>>
      BY <2>10, <2>11
    <3> QED BY <2>5, <2>6, <2>7, <2>8, <2>9, <2>11, <3>1
  <2>12. CASE ~a /\ ~b
    <3>1. ExtraDistance = UpExtra("f")[meet] \o UpExtra("b")[meet]
      BY <2>10, <2>12
    <3> QED BY <2>5, <2>6, <2>7, <2>9, <2>12, <3>1
  <2>13. CASE ~a /\ b
    <3>1. ExtraDistance = UpExtra("f")[meet]
      BY <2>10, <2>13
    <3> QED BY <2>5, <2>6, <2>7, <2>8, <2>9, <2>13, <3>1
  <2>14. CASE a /\ ~b
    <3>1. ExtraDistance = UpExtra("b")[meet]
      BY <2>10, <2>14
    <3> QED BY <2>5, <2>6, <2>7, <2>8, <2>9, <2>14, <3>1
  <2> QED BY <2>11, <2>12, <2>13, <2>14
<1> QED BY <1>1, <1>2

(* The path of a run is a road from the source it names to the target it    *)
(* names, and both with it are as far as the best pair.                     *)
Shown(best) ==
  /\ IsPath(GetArcPath, UsedEnd("f"), UsedEnd("b"))
  /\ asked.src["f"][UsedEnd("f")] + PathWeight(GetArcPath) + asked.src["b"][UsedEnd("b")] = best
LEMMA PathIsBest ==
  ASSUME NEW level, EveryWayIsRoad(level), meet # NoId, meet \in flag["f"] \cap flag["b"], meet \in Nodes,
         OrderOf(Nodes, ch), \A d \in Dirs : GapIs(Nodes, GapsOf(d)), \A d \in Dirs : SourcesAre(Nodes, asked.src[d]),
         NEW far, \A d \in Dirs : BestIs(Nodes, GapsOf(d), StartsOf(d), far[d]),
         NEW best, BestBetween(Nodes, far["f"], far["b"], best), GetDistance = best
  PROVE  Shown(best)
<1>1. PICK x, o : x = meet /\ o = ch.order[meet + 1]
  OBVIOUS
<1>2. \A d \in Dirs : Explained(d, UnpackedWay(d), StartOf(d), x, StartsOf(d), GapsOf(d)) /\ dist[d][x] \in Nat
  BY <1>1 DEF EveryWayIsRoad, Dirs
<1>3. ASSUME NEW d \in Dirs, NEW l, LeadsTo(d, UnpackedWay(d)[x], StartOf(d)[x], x, StartsOf(d), GapsOf(d), l)
      PROVE  /\ l \in Nat /\ RouteOn(Nodes, input.arcs, d, UnpackedWay(d)[x], UsedEnd(d), o, l)
             /\ asked.src[d][UsedEnd(d)] \in Nat
             /\ far[d][x] <= asked.src[d][UsedEnd(d)] + l /\ asked.src[d][UsedEnd(d)] + l <= dist[d][x] /\ far[d][x] \in Nat
  <2>1. PICK s, start, gap, src : s = StartOf(d)[x] /\ start = StartsOf(d) /\ gap = GapsOf(d) /\ src = asked.src[d]
    OBVIOUS
  <2>2. /\ s \in DOMAIN start /\ s \in Nodes /\ l \in Nat /\ start[s] \in Nat
        /\ RouteOn(Nodes, input.arcs, d, UnpackedWay(d)[x], ch.order[s + 1], ch.order[x + 1], l)
        /\ start[s] + l <= dist[d][x] /\ gap[<<s, x>>] <= l
    BY <1>3, <2>1 DEF LeadsTo
  <2>3. UsedEnd(d) = ch.order[s + 1]
    BY <1>1, <2>1 DEF UsedEnd
  <2>4. start[s] = src[ch.order[s + 1]]
    <3>1. start = Starts(ch, src) /\ SourcesAre(Nodes, src)
      BY <2>1 DEF StartsOf
    <3> QED BY <2>2, <3>1, StartsAre
  <2>5. BestIs(Nodes, gap, start, far[d])
    BY <2>1
  <2>6. far[d][x] \in Nat /\ far[d][x] <= start[s] + gap[<<s, x>>]
    BY <1>1, <2>2, <2>5 DEF BestIs
  <2>8. gap[<<s, x>>] \in Nat
    <3>1. GapIs(Nodes, gap)
      BY <2>1
    <3> QED BY <1>1, <2>2, <3>1 DEF GapIs
  <2>9. far[d][x] <= start[s] + l
    BY <2>2, <2>6, <2>8
  <2> QED BY <1>1, <2>1, <2>2, <2>3, <2>4, <2>6, <2>9
<1>4. "f" \in Dirs /\ "b" \in Dirs
  BY DEF Dirs
<1>5. PICK k : LeadsTo("f", UnpackedWay("f")[x], StartOf("f")[x], x, StartsOf("f"), GapsOf("f"), k)
  BY <1>2, <1>4 DEF Explained
<1>6. PICK l : LeadsTo("b", UnpackedWay("b")[x], StartOf("b")[x], x, StartsOf("b"), GapsOf("b"), l)
  BY <1>2, <1>4 DEF Explained
<1>7. PICK s, t, u, v, a, b : /\ s = UsedEnd("f") /\ t = UsedEnd("b") /\ u = UnpackedWay("f")[x] /\ v = UnpackedWay("b")[x]
                              /\ a = asked.src["f"][s] /\ b = asked.src["b"][t]
  <2>1. PICK s, t : s = UsedEnd("f") /\ t = UsedEnd("b")
    OBVIOUS
  <2> QED BY <2>1
<1>8. PICK c, e, g, h : c = far["f"][x] /\ e = far["b"][x] /\ g = dist["f"][x] /\ h = dist["b"][x]
  OBVIOUS
<1>9. /\ k \in Nat /\ RouteOn(Nodes, input.arcs, "f", u, s, o, k)
      /\ a \in Nat /\ c <= a + k /\ a + k <= g /\ c \in Nat
  BY <1>3, <1>4, <1>5, <1>7, <1>8
<1>10. /\ l \in Nat /\ RouteOn(Nodes, input.arcs, "b", v, t, o, l)
       /\ b \in Nat /\ e <= b + l /\ b + l <= h /\ e \in Nat
  BY <1>3, <1>4, <1>6, <1>7, <1>8
<1>11. Route(Nodes, input.arcs, u, s, o, k) /\ Route(Nodes, input.arcs, v, o, t, l)
  BY <1>9, <1>10 DEF RouteOn
<1>12. PICK m : m = k + l
  OBVIOUS
<1>13. Route(Nodes, input.arcs, u \o v, s, t, m)
  BY <1>11, <1>12, RoutesJoin
<1>14. GetArcPath = u \o v
  BY <1>1, <1>7 DEF GetArcPath
<1>15. IsPath(GetArcPath, s, t) /\ PathWeight(GetArcPath) = m
  BY <1>13, <1>14, RoadIsPath
<1>16. g + h = best /\ best <= c + e /\ g \in Nat /\ h \in Nat
  <2>1. GetDistance = g + h
    BY <1>1, <1>8 DEF GetDistance
  <2>2. best <= c + e
    BY <1>1, <1>8 DEF BestBetween
  <2> QED BY <1>2, <1>4, <1>8, <2>1, <2>2
<1>17. a + m + b = best
  BY <1>9, <1>10, <1>12, <1>16
<1> QED BY <1>7, <1>15, <1>17 DEF Shown

-----------------------------------------------------------------------------
(* What the invariant says of a finished run.                               *)
LEMMA RunMeans ==
  ASSUME HInv, IInv, QInv PROVE RunIsShortest
<1> SUFFICES ASSUME st = "run" PROVE RunIsShortest
  BY DEF RunIsShortest
<1>1. pc = "built" /\ QueryTypes /\ QueryOK
  <2>1. CASE pc # "built"
    BY <2>1 DEF QInv, QueryInit
  <2> QED BY <2>1 DEF QInv
<1>2. LiveSide("f") /\ LiveSide("b") /\ Joined
  BY <1>1 DEF QueryOK
<1>3. PICK level : EveryWayIsRoad(level)
  BY <1>1, <1>2, RunIsExplained
<1>4. meet # NoId => meet \in flag["f"] \cap flag["b"]
  BY <1>2 DEF Joined, IsJoined
<1>5. ExtraDistance = GetArcPath
  BY <1>3, <1>4, ExtraIsPath
<1>6. PICK f, b, D, best : f = asked.src["f"] /\ b = asked.src["b"] /\ D = TrueDistance /\ best = BestPair(f, b, D)
  <2>1. PICK f, b, D : f = asked.src["f"] /\ b = asked.src["b"] /\ D = TrueDistance
    OBVIOUS
  <2> QED BY <2>1
<1>7. GetDistance = best
  BY <1>6, RunDistanceMeans DEF RunDistanceIsShortest
<1>8. ASSUME meet # NoId PROVE Shown(best)
  <2>1. PICK far : far = [d \in Dirs |-> Bests(Nodes, ch, TrueDistance, d, asked.src[d])]
    OBVIOUS
  <2>2. ASSUME NEW d \in Dirs
        PROVE  GapIs(Nodes, GapsOf(d)) /\ SourcesAre(Nodes, asked.src[d]) /\ BestIs(Nodes, GapsOf(d), StartsOf(d), far[d])
    <3>1. Given(Nodes, ch, CleanGraph, TrueDistance, d, asked.src[d])
      BY <1>1, SideIsGiven
    <3>2. PICK gap : gap = GapsOf(d)
      OBVIOUS
    <3>3. GapIs(Nodes, gap)
      BY <3>1, <3>2, GapsAre DEF Given, GapsOf, GapsMean
    <3>4. BestIs(Nodes, GapsOf(d), StartsOf(d), far[d])
      BY <2>1, <3>1 DEF Given, GapsOf, StartsOf
    <3> QED BY <3>1, <3>2, <3>3, <3>4 DEF Given
  <2>3. "f" \in Dirs /\ "b" \in Dirs
    BY DEF Dirs
  <2>4. OrderOf(Nodes, ch) /\ DistanceIs(Nodes, D)
    BY <1>1, <1>6, <2>3, SideIsGiven DEF Given
  <2>5. BestBetween(Nodes, far["f"], far["b"], best)
    <3>1. far["f"] = Bests(Nodes, ch, D, "f", f) /\ far["b"] = Bests(Nodes, ch, D, "b", b)
      BY <1>6, <2>1, <2>3
    <3>2. SourcesAre(Nodes, f) /\ SourcesAre(Nodes, b)
      BY <1>6, <2>2, <2>3
    <3> QED BY <1>6, <2>4, <3>1, <3>2, BestPairIs
  <2>6. meet \in Nodes
    BY <1>2, <1>4, <1>8 DEF LiveSide, IsLiveAt, IsLabelled
  <2> QED BY <1>3, <1>4, <1>7, <1>8, <2>2, <2>4, <2>5, <2>6, PathIsBest
<1>9. best = Min({Inf} \cup {BestFrom(asked.src["f"], t, TrueDistance) + asked.src["b"][t] :
                               t \in {x \in DOMAIN asked.src["b"] : BestFrom(asked.src["f"], x, TrueDistance) < Inf}})
  BY <1>6 DEF BestPair
<1> QED BY <1>5, <1>7, <1>8, <1>9 DEF RunIsShortest, Shown

(* After run the distance is that of the best pair of a source and a target, *)
(* and the unpacked arcs, and those the extra weight runs over, are a road   *)
(* of that length from the source the query names to the target it names,   *)
(* although nodes were stalled and each search stopped early.                *)
THEOREM RunsAreShortest == Spec => []RunIsShortest
BY HierarchyInvariant, ContractionInvariant, QueryInvariant, RunMeans, PTL

-----------------------------------------------------------------------------
(* The extra weights of the arcs are computed node by node: those an arc     *)
(* stands for leave a node with a smaller number.                           *)
TakeOf(w, a) == IF a.original THEN <<a.first>> ELSE w["b"][a.first] \o w["f"][a.second]
ArcsOf(d, x) == {e \in DOMAIN ch.side[d] : e[1] = x}
AtOf(w, d, x) == [w EXCEPT ![d] = Overlaid([p \in ArcsOf(d, x) |-> TakeOf(w, ch.side[d][p])], w[d])]
AtNode(w, x) == AtOf(AtOf(w, "f", x), "b", x)
Weighs(n, W) == W = [x \in -1 .. n - 1 |-> IF x = -1 THEN BothSides(NoFn) ELSE AtNode(W[x - 1], x)]
WeighedTo(w, d, k) == \A p \in DOMAIN ch.side[d] : p[1] < k => p \in DOMAIN w[d] /\ w[d][p] = UnpackArc[<<d, p>>]
WeighedBelow(w, k) == DOMAIN w = Dirs /\ WeighedTo(w, "f", k) /\ WeighedTo(w, "b", k)
NumberedUp ==
  \A d \in Dirs : \A p \in DOMAIN ch.side[d] :
    /\ <<d, p>> \in SideArcs /\ p[1] \in Nat /\ p[1] < input.n
    /\ UnpackArc[<<d, p>>] = IF ch.side[d][p].original THEN <<ch.side[d][p].first>>
                             ELSE UnpackArc[<<"b", ch.side[d][p].first>>] \o UnpackArc[<<"f", ch.side[d][p].second>>]
    /\ ~ch.side[d][p].original => /\ ch.side[d][p].first \in DOMAIN ch.side["b"] /\ ch.side[d][p].first[1] < p[1]
                                  /\ ch.side[d][p].second \in DOMAIN ch.side["f"] /\ ch.side[d][p].second[1] < p[1]
LEMMA ArcsAreNumberedUp ==
  ASSUME NEW level, Built(level) PROVE NumberedUp
<1>1. input \in Inputs /\ UnpacksUp(level) /\ UpwardIs(Nodes, ch, CleanGraph, TrueDistance, level)
  BY DEF Built, IsLevels
<1>2. ASSUME NEW d \in Dirs, NEW p \in DOMAIN ch.side[d]
      PROVE  /\ <<d, p>> \in SideArcs /\ p[1] \in Nat /\ p[1] < input.n
             /\ UnpackArc[<<d, p>>] = IF ch.side[d][p].original THEN <<ch.side[d][p].first>>
                                      ELSE UnpackArc[<<"b", ch.side[d][p].first>>] \o UnpackArc[<<"f", ch.side[d][p].second>>]
             /\ ~ch.side[d][p].original => /\ ch.side[d][p].first \in DOMAIN ch.side["b"] /\ ch.side[d][p].first[1] < p[1]
                                           /\ ch.side[d][p].second \in DOMAIN ch.side["f"] /\ ch.side[d][p].second[1] < p[1]
  <2>1. PICK a, g, e : a = ch.side[d][p] /\ g = SearchArc(d, p[1], p[2]) /\ e = <<d, p>>
    OBVIOUS
  <2>2. p \in Nodes \X Nodes /\ p[1] < p[2] /\ UnpacksTo(ch, CleanGraph, a, g)
    BY <1>1, <2>1 DEF UpwardIs
  <2>3. e \in SideArcs /\ e[1] = d /\ e[2] = p
    BY <2>1, <2>2 DEF SideArcs
  <2>4. ArcAt(e) = a /\ Inner(e) = <<"b", a.first>> /\ Outer(e) = <<"f", a.second>>
    <3>1. ArcAt(e) = a
      BY <2>1, <2>3 DEF ArcAt
    <3> QED BY <3>1 DEF Inner, Outer
  <2>5. UnpackArc[e] = IF a.original THEN <<a.first>> ELSE UnpackArc[<<"b", a.first>>] \o UnpackArc[<<"f", a.second>>]
    BY <1>1, <2>3, <2>4, UnpackArcRecurs
  <2>6. p[1] \in Nat /\ p[2] \in Nat /\ p[1] < input.n
    <3>1. input.n \in Nat /\ Nodes = 0 .. input.n - 1
      BY <1>1, TrueIsMetric
    <3>2. p[1] \in Nodes /\ p[2] \in Nodes
      BY <2>2
    <3> QED BY <3>1, <3>2
  <2>7. ASSUME ~a.original
        PROVE  /\ a.first \in DOMAIN ch.side["b"] /\ a.first[1] < p[1]
               /\ a.second \in DOMAIN ch.side["f"] /\ a.second[1] < p[1]
    <3>1. PICK i, o : i = a.first /\ o = a.second
      OBVIOUS
    <3>2. i \in DOMAIN ch.side["b"] /\ o \in DOMAIN ch.side["f"] /\ i[2] = g[1] /\ o[2] = g[2] /\ i[1] = o[1]
      BY <2>7, <2>2, <3>1 DEF UnpacksTo
    <3>3. i[1] < i[2] /\ o[1] < o[2]
      BY <1>1, <3>2 DEF UpwardIs, Dirs
    <3>4. g[1] = p[1] \/ g[2] = p[1]
      BY <2>1 DEF SearchArc
    <3>5. i[1] < p[1] /\ o[1] < p[1]
      BY <3>2, <3>3, <3>4
    <3> QED BY <3>1, <3>2, <3>5
  <2> QED BY <2>1, <2>3, <2>5, <2>6, <2>7
<1> QED BY <1>2 DEF NumberedUp

(* Taking the nodes by number, the extra weights an arc is made of are      *)
(* there when it is weighed.                                                *)
LEMMA SideWeighed ==
  ASSUME NumberedUp, NEW d \in Dirs, NEW k \in Nat, NEW w, WeighedBelow(w, k), NEW v, v = AtOf(w, d, k)
  PROVE  WeighedBelow(v, k) /\ WeighedTo(v, d, k + 1) /\ \A o \in Dirs : o # d => v[o] = w[o]
<1>1. DOMAIN w = Dirs
  BY DEF WeighedBelow
<1>2. PICK new, r : new = [p \in ArcsOf(d, k) |-> TakeOf(w, ch.side[d][p])] /\ r = Overlaid(new, w[d])
  <2>1. PICK new : new = [p \in ArcsOf(d, k) |-> TakeOf(w, ch.side[d][p])]
    OBVIOUS
  <2> QED BY <2>1
<1>3. v = [w EXCEPT ![d] = r]
  BY <1>2 DEF AtOf
<1>4. DOMAIN v = Dirs /\ v[d] = r /\ \A o \in Dirs : o # d => v[o] = w[o]
  BY <1>1, <1>3
<1>5. OverlaidBy(new, w[d], r)
  BY <1>2, OverlaidIs
<1>6. DOMAIN new = ArcsOf(d, k)
  BY <1>2
<1>7. ASSUME NEW p \in DOMAIN ch.side[d], p[1] = k
      PROVE  p \in DOMAIN r /\ r[p] = UnpackArc[<<d, p>>]
  <2>1. p \in ArcsOf(d, k)
    BY <1>7 DEF ArcsOf
  <2>2. p \in DOMAIN r /\ r[p] = new[p]
    BY <1>5, <1>6, <2>1 DEF OverlaidBy
  <2>3. PICK a : a = ch.side[d][p]
    OBVIOUS
  <2>4. new[p] = TakeOf(w, a)
    BY <1>2, <2>1, <2>3
  <2>5. TakeOf(w, a) = UnpackArc[<<d, p>>]
    <3>1. UnpackArc[<<d, p>>] = IF a.original THEN <<a.first>> ELSE UnpackArc[<<"b", a.first>>] \o UnpackArc[<<"f", a.second>>]
      BY <2>3 DEF NumberedUp
    <3>2. CASE a.original
      BY <3>1, <3>2 DEF TakeOf
    <3>3. CASE ~a.original
      <4>1. /\ a.first \in DOMAIN ch.side["b"] /\ a.first[1] < k
            /\ a.second \in DOMAIN ch.side["f"] /\ a.second[1] < k
        BY <1>7, <2>3, <3>3 DEF NumberedUp
      <4>2. w["b"][a.first] = UnpackArc[<<"b", a.first>>] /\ w["f"][a.second] = UnpackArc[<<"f", a.second>>]
        BY <4>1 DEF WeighedBelow, WeighedTo
      <4> QED BY <3>1, <3>3, <4>2 DEF TakeOf
    <3> QED BY <3>2, <3>3
  <2> QED BY <2>2, <2>4, <2>5
<1>8. ASSUME NEW p \in DOMAIN ch.side[d], p[1] < k
      PROVE  p \in DOMAIN r /\ r[p] = UnpackArc[<<d, p>>]
  <2>1. p \notin ArcsOf(d, k)
    <3>1. p[1] \in Nat
      BY DEF NumberedUp
    <3> QED BY <1>8, <3>1 DEF ArcsOf
  <2>2. p \in DOMAIN w[d] /\ w[d][p] = UnpackArc[<<d, p>>]
    <3>1. WeighedTo(w, d, k)
      BY DEF WeighedBelow, Dirs
    <3> QED BY <1>8, <3>1 DEF WeighedTo
  <2> QED BY <1>5, <1>6, <2>1, <2>2 DEF OverlaidBy
<1>9. WeighedTo(v, d, k + 1) /\ WeighedTo(v, d, k)
  <2>1. \A p \in DOMAIN ch.side[d] : p[1] < k + 1 => p[1] < k \/ p[1] = k
    <3>1. \A p \in DOMAIN ch.side[d] : p[1] \in Nat
      BY DEF NumberedUp
    <3> QED BY <3>1
  <2> QED BY <1>4, <1>7, <1>8, <2>1 DEF WeighedTo
<1>10. \A o \in Dirs : WeighedTo(v, o, k)
  <2> SUFFICES ASSUME NEW o \in Dirs PROVE WeighedTo(v, o, k)
    OBVIOUS
  <2>1. CASE o = d
    BY <1>9, <2>1
  <2>2. CASE o # d
    <3>1. WeighedTo(w, o, k) /\ v[o] = w[o]
      BY <1>4, <2>2 DEF WeighedBelow, Dirs
    <3> QED BY <3>1 DEF WeighedTo
  <2> QED BY <2>1, <2>2
<1> QED BY <1>4, <1>9, <1>10 DEF WeighedBelow, Dirs

LEMMA NodeWeighed ==
  ASSUME NumberedUp, NEW k \in Nat, NEW w, WeighedBelow(w, k)
  PROVE  WeighedBelow(AtNode(w, k), k + 1)
<1>1. PICK u, v : u = AtOf(w, "f", k) /\ v = AtOf(u, "b", k)
  <2>1. PICK u : u = AtOf(w, "f", k)
    OBVIOUS
  <2> QED BY <2>1
<1>2. "f" \in Dirs /\ "b" \in Dirs /\ "f" # "b"
  BY DEF Dirs
<1>3. WeighedBelow(u, k) /\ WeighedTo(u, "f", k + 1)
  BY <1>1, <1>2, SideWeighed
<1>4. WeighedBelow(v, k) /\ WeighedTo(v, "b", k + 1) /\ v["f"] = u["f"]
  BY <1>1, <1>2, <1>3, SideWeighed
<1>5. WeighedTo(v, "f", k + 1)
  BY <1>3, <1>4 DEF WeighedTo
<1>6. WeighedBelow(v, k + 1)
  BY <1>4, <1>5 DEF WeighedBelow
<1> QED BY <1>1, <1>6 DEF AtNode

(* The weighing of all nodes is there.                                      *)
LEMMA WeighingRecurs == \A n \in Nat : \E W : Weighs(n, W)
<1>1. PICK S : S = {n \in Nat : \E F : Weighs(n, F)}
  OBVIOUS
<1>2. 0 \in S
  <2>1. PICK F : F = [x \in -1 .. 0 - 1 |-> BothSides(NoFn)]
    OBVIOUS
  <2>2. \A x \in -1 .. 0 - 1 : x = -1
    OBVIOUS
  <2>3. F = [x \in -1 .. 0 - 1 |-> IF x = -1 THEN BothSides(NoFn) ELSE AtNode(F[x - 1], x)]
    BY <2>1, <2>2
  <2> QED BY <1>1, <2>3 DEF Weighs
<1>3. ASSUME NEW n \in Nat, n \in S PROVE n + 1 \in S
  <2>1. PICK F : Weighs(n, F)
    BY <1>1, <1>3
  <2>2. PICK m : m = n - 1
    OBVIOUS
  <2>3. m \in Int /\ -1 <= m /\ n = m + 1 /\ (n + 1) - 1 = n
    BY <2>2
  <2>4. PICK G : G = [x \in -1 .. n |-> IF x <= m THEN F[x] ELSE AtNode(F[m], n)]
    OBVIOUS
  <2>5. \A x \in -1 .. m : F[x] = IF x = -1 THEN BothSides(NoFn) ELSE AtNode(F[x - 1], x)
    BY <2>1, <2>2 DEF Weighs
  <2>6. ASSUME NEW x \in -1 .. n PROVE G[x] = IF x = -1 THEN BothSides(NoFn) ELSE AtNode(G[x - 1], x)
    <3>1. CASE x = -1
      <4>1. x \in -1 .. m /\ x <= m
        BY <2>3, <3>1
      <4>2. G[x] = F[x]
        BY <2>4, <4>1
      <4> QED BY <2>5, <3>1, <4>1, <4>2
    <3>2. CASE x # -1
      <4>1. PICK j : j = x - 1
        OBVIOUS
      <4>2. j \in -1 .. m /\ j <= m /\ j \in -1 .. n
        BY <2>3, <3>2, <4>1
      <4>3. G[j] = F[j]
        BY <2>4, <4>2
      <4>4. CASE x <= m
        <5>1. x \in -1 .. m /\ G[x] = F[x]
          BY <2>4, <4>4
        <5>2. F[x] = AtNode(F[x - 1], x)
          BY <2>5, <3>2, <5>1
        <5> QED BY <3>2, <4>1, <4>3, <5>1, <5>2
      <4>5. CASE ~(x <= m)
        <5>1. j = m /\ x = n
          BY <2>3, <4>1, <4>2, <4>5
        <5>2. G[x] = AtNode(F[m], n)
          BY <2>4, <4>5
        <5> QED BY <3>2, <4>1, <4>3, <5>1, <5>2
      <4> QED BY <4>4, <4>5
    <3> QED BY <3>1, <3>2
  <2>7. G = [x \in -1 .. (n + 1) - 1 |-> IF x = -1 THEN BothSides(NoFn) ELSE AtNode(G[x - 1], x)]
    <3>1. G = [x \in -1 .. n |-> G[x]]
      BY <2>4
    <3>2. G = [x \in -1 .. n |-> IF x = -1 THEN BothSides(NoFn) ELSE AtNode(G[x - 1], x)]
      BY <2>6, <3>1
    <3> QED BY <2>3, <3>2
  <2>8. Weighs(n + 1, G)
    BY <2>7 DEF Weighs
  <2> QED BY <1>1, <2>8
<1>4. Nat \subseteq S
  BY <1>2, <1>3, InductionOnNat
<1> QED BY <1>1, <1>4

(* What an arc weighs is what it unpacks into.                              *)
LEMMA WeightsUnpack ==
  ASSUME NEW level, Built(level), DOMAIN ch.side = Dirs
  PROVE  \A d \in Dirs : \A p \in DOMAIN ch.side[d] : ExtraWeight[d][p] = UnpackArc[<<d, p>>]
<1>1. NumberedUp
  BY ArcsAreNumberedUp
<1>2. PICK n \in Nat : n = input.n
  BY InputsAssumption DEF Built
<1>3. PICK W : W = CHOOSE F : Weighs(n, F)
  OBVIOUS
<1>4. Weighs(n, W)
  BY <1>3, WeighingRecurs
<1>5. ExtraWeight = W[n - 1]
  BY <1>2, <1>3 DEF ExtraWeight, Weighs, AtNode, AtOf, TakeOf, ArcsOf
<1>6. PICK S : S = {k \in Nat : k <= n => WeighedBelow(W[k - 1], k)}
  OBVIOUS
<1>7. 0 \in S
  <2>1. -1 \in -1 .. n - 1 /\ 0 - 1 = -1
    OBVIOUS
  <2>2. W[-1] = BothSides(NoFn)
    BY <1>4, <2>1 DEF Weighs
  <2>3. DOMAIN BothSides(NoFn) = Dirs
    BY DEF BothSides
  <2>4. \A d \in Dirs : WeighedTo(W[-1], d, 0)
    <3>1. \A d \in Dirs : \A p \in DOMAIN ch.side[d] : ~(p[1] < 0)
      <4> SUFFICES ASSUME NEW d \in Dirs, NEW p \in DOMAIN ch.side[d] PROVE ~(p[1] < 0)
        OBVIOUS
      <4>1. p[1] \in Nat
        BY <1>1 DEF NumberedUp
      <4> QED BY <4>1
    <3> QED BY <3>1 DEF WeighedTo
  <2>5. WeighedBelow(W[-1], 0)
    BY <2>2, <2>3, <2>4 DEF WeighedBelow, Dirs
  <2> QED BY <1>6, <2>1, <2>5
<1>8. ASSUME NEW k \in Nat, k \in S PROVE k + 1 \in S
  <2> SUFFICES ASSUME k + 1 <= n PROVE WeighedBelow(W[k], k + 1)
    <3>1. (k + 1) - 1 = k /\ k + 1 \in Nat
      OBVIOUS
    <3> QED BY <1>6, <3>1
  <2>1. k <= n /\ k \in -1 .. n - 1 /\ k # -1
    OBVIOUS
  <2>2. WeighedBelow(W[k - 1], k)
    BY <1>6, <1>8, <2>1
  <2>3. W[k] = AtNode(W[k - 1], k)
    BY <1>4, <2>1 DEF Weighs
  <2>4. PICK w : w = W[k - 1]
    OBVIOUS
  <2>5. WeighedBelow(AtNode(w, k), k + 1)
    BY <1>1, <2>2, <2>4, NodeWeighed
  <2> QED BY <2>3, <2>4, <2>5
<1>9. n \in S
  BY <1>7, <1>8, InductionOnNat
<1>10. WeighedBelow(ExtraWeight, n)
  BY <1>5, <1>6, <1>9
<1> QED BY <1>1, <1>2, <1>10 DEF WeighedBelow, WeighedTo, NumberedUp, Dirs

-----------------------------------------------------------------------------
(* A swept side: what has its best distance by its label is a road like in   *)
(* any search.                                                              *)
BestsOf(d) == Bests(Nodes, ch, TrueDistance, d, asked.src[d])
TightsOf(d) == {y \in flag[d] : dist[d][y] = BestsOf(d)[y]}
LEMMA SweptAreLabels ==
  ASSUME NEW level, Built(level), NEW d \in Dirs, Given(Nodes, ch, CleanGraph, TrueDistance, d, asked.src[d]), SweptOK(d)
  PROVE  /\ Labels(d, level, TightsOf(d), StartsOf(d), GapsOf(d))
         /\ \A y \in Nodes : ~Ends(d, y) => <<d, parc[d][y]>> \in SideArcs
<1>1. PICK fl, tent, pn, pa, start, gap, up : /\ fl = flag[d] /\ tent = dist[d] /\ pn = pnode[d] /\ pa = parc[d]
                                              /\ start = StartsOf(d) /\ gap = GapsOf(d) /\ up = ArcWeights(ch, d)
  OBVIOUS
<1>2. PICK best, sel, number, down : best = BestsOf(d) /\ sel = dist[Opposite(d)] /\ number = meet /\ down = ArcWeights(ch, Opposite(d))
  OBVIOUS
<1>3. IsTraced(Nodes, up, down, start, best, sel, number, fl, tent, pn, pa)
  BY <1>1, <1>2 DEF SweptOK, IsSweptAt, StartsOf, BestsOf
<1>4. UpwardIs(Nodes, ch, CleanGraph, TrueDistance, level) /\ input \in Inputs /\ level \in [Nodes -> Nodes]
  BY DEF IsLevels, Built
<1>5. GapsMean(Nodes, ch, TrueDistance, d, gap)
  BY <1>1, GapsAre DEF Given, GapsOf
<1>6. input.n \in Nat /\ Nodes = 0 .. input.n - 1
  BY <1>4, TrueIsMetric
<1>7. fl \subseteq Nodes
  BY <1>3 DEF IsTraced
<1>8. ASSUME NEW y \in fl, pn[y] # NoId
      PROVE  /\ pn[y] \in Nodes /\ level[pn[y]] < level[y] /\ pa[y] = <<pn[y], y>> /\ <<d, pa[y]>> \in SideArcs
             /\ up[pa[y]] = ArcAt(<<d, pa[y]>>).weight /\ ArcAt(<<d, pa[y]>>).weight \in Nat
             /\ gap[<<pn[y], y>>] <= ArcAt(<<d, pa[y]>>).weight
  <2>1. PICK x, p : x = pn[y] /\ p = <<x, y>>
    <3>1. PICK x : x = pn[y]
      OBVIOUS
    <3> QED BY <3>1
  <2>2. x \in Nodes /\ pa[y] = p /\ p \in DOMAIN up
    BY <1>3, <1>8, <2>1 DEF IsTraced
  <2>3. p \in DOMAIN ch.side[d] /\ up[p] = ch.side[d][p].weight
    BY <1>1, <2>2 DEF ArcWeights
  <2>4. p[1] = x /\ p[2] = y /\ y \in Nodes /\ p \in Nodes \X Nodes
    BY <1>7, <2>1, <2>2
  <2>5. level[x] < level[y] /\ ch.side[d][p].weight \in Nat /\ Named(ch, TrueDistance, d, x, y) <= ch.side[d][p].weight
    BY <1>4, <2>3, <2>4 DEF UpwardIs
  <2>6. <<d, p>> \in SideArcs /\ ArcAt(<<d, p>>) = ch.side[d][p]
    BY <2>3, <2>4 DEF SideArcs, ArcAt
  <2>7. gap[<<x, y>>] = Named(ch, TrueDistance, d, x, y)
    BY <1>5, <2>2, <2>4 DEF GapsMean
  <2> QED BY <2>1, <2>2, <2>3, <2>5, <2>6, <2>7
<1>9. Climbs(input.n, level, Nodes, Past(d))
  <2>1. \A y \in Nodes : level[y] \in Nat /\ level[y] < input.n
    <3>1. \A y \in Nodes : level[y] \in Nodes
      BY <1>4
    <3> QED BY <1>6, <3>1
  <2>2. ASSUME NEW y \in Nodes, Past(d)[y] # NoId PROVE Past(d)[y] \in Nodes /\ level[Past(d)[y]] < level[y]
    <3>1. ~Ends(d, y) /\ Past(d)[y] = pn[y]
      BY <1>1, <2>2 DEF Past
    <3>2. y \in fl /\ pn[y] # NoId
      BY <1>1, <3>1 DEF Ends
    <3>3. pn[y] \in Nodes /\ level[pn[y]] < level[y]
      BY <1>8, <3>2
    <3> QED BY <3>1, <3>3
  <2> QED BY <2>1, <2>2 DEF Climbs
<1>10. PICK T : T = TightsOf(d)
  OBVIOUS
<1>11. T \subseteq fl /\ \A y \in fl : y \in T <=> tent[y] = best[y]
  BY <1>1, <1>2, <1>10 DEF TightsOf
<1>12. ASSUME NEW y \in T
       PROVE  tent[y] \in Nat /\ (pn[y] = NoId => y \in DOMAIN start /\ start[y] \in Nat /\ tent[y] = start[y])
  <2>1. tent[y] \in Nat /\ (pn[y] = NoId => y \in DOMAIN start /\ tent[y] = start[y])
    BY <1>3, <1>11 DEF IsTraced
  <2> QED BY <2>1
<1>13. ASSUME NEW y \in T, pn[y] # NoId
       PROVE  pn[y] \in T /\ tent[pn[y]] + ArcAt(<<d, pa[y]>>).weight <= tent[y]
  <2>1. pn[y] \in fl /\ tent[pn[y]] = best[pn[y]] /\ tent[pn[y]] + up[pa[y]] <= tent[y]
    BY <1>3, <1>11, <1>13 DEF IsTraced
  <2> QED BY <1>8, <1>11, <1>13, <2>1
<1>14. ASSUME NEW y \in T
       PROVE  /\ dist[d][y] \in Nat
              /\ pnode[d][y] = NoId => y \in DOMAIN StartsOf(d) /\ StartsOf(d)[y] \in Nat /\ dist[d][y] = StartsOf(d)[y]
              /\ pnode[d][y] # NoId => /\ pnode[d][y] \in T
                                       /\ parc[d][y] = <<pnode[d][y], y>> /\ <<d, parc[d][y]>> \in SideArcs
                                       /\ dist[d][pnode[d][y]] + ArcAt(<<d, parc[d][y]>>).weight <= dist[d][y]
                                       /\ ArcAt(<<d, parc[d][y]>>).weight \in Nat
                                       /\ GapsOf(d)[<<pnode[d][y], y>>] <= ArcAt(<<d, parc[d][y]>>).weight
  <2>1. y \in fl
    BY <1>11
  <2> QED BY <1>1, <1>8, <1>12, <1>13, <2>1
<1>15. \A y \in Nodes : ~Ends(d, y) => <<d, parc[d][y]>> \in SideArcs
  BY <1>1, <1>8 DEF Ends
<1>16. T \subseteq flag[d] /\ T \subseteq Nodes
  BY <1>1, <1>7, <1>11
<1> QED BY <1>9, <1>10, <1>14, <1>15, <1>16 DEF Labels

(* From a pinned node that was reached the arcs lead down, the way the sweep *)
(* came, to a node that kept its label.                                     *)
Onto(d, x) == parc[d][x][2]
Descends(d, depth) ==
  \A x \in Reached(d) :
    /\ x \in Nodes /\ dist[d][x] = BestsOf(d)[x] /\ depth[x] \in Nat /\ depth[x] < meet
    /\ x \notin flag[d] =>
         /\ Onto(d, x) \in Reached(d) /\ depth[Onto(d, x)] < depth[x] /\ parc[d][x] = <<x, Onto(d, x)>>
         /\ parc[d][x] \in DOMAIN ArcWeights(ch, Opposite(d))
         /\ dist[d][Onto(d, x)] + ArcWeights(ch, Opposite(d))[parc[d][x]] = dist[d][x]
LEMMA SweptDescends ==
  ASSUME NEW level, Built(level), NEW d \in Dirs, Given(Nodes, ch, CleanGraph, TrueDistance, d, asked.src[d]), SweptOK(d),
         PinsOK(Opposite(d))
  PROVE  \E depth : Descends(d, depth)
<1>1. PICK fl, tent, pa, sel, number, down, best, R :
         /\ fl = flag[d] /\ tent = dist[d] /\ pa = parc[d] /\ sel = dist[Opposite(d)] /\ number = meet
         /\ down = ArcWeights(ch, Opposite(d)) /\ best = BestsOf(d) /\ R = Reached(d)
  OBVIOUS
<1>2. PICK up, start, pn : up = ArcWeights(ch, d) /\ start = StartsOf(d) /\ pn = pnode[d]
  OBVIOUS
<1>3. IsTraced(Nodes, up, down, start, best, sel, number, fl, tent, pn, pa) /\ IsSwept(best, sel, number, tent)
  BY <1>1, <1>2 DEF SweptOK, IsSweptAt, StartsOf, BestsOf
<1>4. Downward(Nodes, down, sel, number)
  <2>1. DOMAIN ArcWeights(ch, Opposite(d)) = DOMAIN ch.side[Opposite(d)]
    BY DEF ArcWeights
  <2> QED BY <1>1, <2>1 DEF PinsOK, ArePins, Downward
<1>5. number \in Nat
  BY <1>4 DEF Downward
<1>6. \A x : x \in R <=> (\E i \in 0 .. number - 1 : x = sel[i]) /\ (x \in fl \/ pa[x] # NoId)
  BY <1>1 DEF Reached, Unreached
<1>7. PICK depth : depth = [x \in R |-> CHOOSE i \in 0 .. number - 1 : x = sel[i]]
  OBVIOUS
<1>8. ASSUME NEW x \in R PROVE depth[x] \in 0 .. number - 1 /\ x = sel[depth[x]]
  BY <1>6, <1>7
<1>9. ASSUME NEW x \in R PROVE x \in Nodes /\ tent[x] = best[x] /\ depth[x] \in Nat /\ depth[x] < number
  <2>1. PICK i : i = depth[x]
    OBVIOUS
  <2>2. i \in 0 .. number - 1 /\ x = sel[i]
    BY <1>8, <2>1
  <2>3. x \in Nodes /\ tent[x] = best[x]
    BY <1>3, <1>4, <2>2 DEF IsSwept, Downward
  <2> QED BY <1>5, <2>1, <2>2, <2>3
<1>10. ASSUME NEW x \in R, x \notin fl
       PROVE  /\ pa[x][2] \in R /\ depth[pa[x][2]] < depth[x] /\ pa[x] = <<x, pa[x][2]>> /\ pa[x] \in DOMAIN down
              /\ tent[pa[x][2]] + down[pa[x]] = tent[x]
  <2>1. PICK i : i = depth[x]
    OBVIOUS
  <2>2. i \in 0 .. number - 1 /\ x = sel[i] /\ pa[x] # NoId
    BY <1>6, <1>8, <1>10, <2>1
  <2>3. PICK y \in Nodes : /\ pa[x] = <<x, y>> /\ <<x, y>> \in DOMAIN down
                           /\ tent[y] + down[<<x, y>>] = tent[x] /\ tent[x] < Inf
    BY <1>3, <1>10, <2>2 DEF IsTraced
  <2>4. PICK j \in 0 .. i - 1 : sel[j] = y
    BY <1>4, <2>2, <2>3 DEF Downward
  <2>5. j \in 0 .. number - 1 /\ j < i
    BY <1>5, <2>2
  <2>6. tent[y] = best[y] /\ tent[x] = best[x]
    BY <1>3, <1>9, <2>4, <2>5 DEF IsSwept
  <2>7. best[y] \in Nat /\ best[x] \in Nat /\ down[<<x, y>>] \in Nat
    <3>1. BestIs(Nodes, Gaps(Nodes, ch, TrueDistance, d), start, best)
      BY <1>1, <1>2 DEF Given, BestsOf, StartsOf
    <3>2. HalfOf(Nodes, level, Gaps(Nodes, ch, TrueDistance, d), up, down)
      BY <1>1, <1>2 DEF Given, Built
    <3>3. down[<<x, y>>] \in Nat
      BY <2>3, <3>2 DEF HalfOf, DownIs
    <3> QED BY <1>9, <2>3, <3>1, <3>3 DEF BestIs
  <2>8. y \in R
    <3>1. SUFFICES ASSUME y \notin fl, pa[y] = NoId PROVE FALSE
      BY <1>6, <2>4, <2>5
    <3>2. tent[y] = Inf
      BY <1>3, <2>4, <2>5, <3>1 DEF IsTraced
    <3> QED BY <2>3, <2>6, <2>7, <3>2, InfAssumption
  <2>9. depth[y] = j
    <3>1. depth[y] \in 0 .. number - 1 /\ sel[depth[y]] = sel[j]
      BY <1>8, <2>4, <2>8
    <3> QED BY <1>4, <2>5, <3>1 DEF Downward
  <2>10. pa[x][2] = y
    BY <2>3
  <2> QED BY <2>1, <2>3, <2>5, <2>8, <2>9, <2>10
<1>11. Descends(d, depth)
  BY <1>1, <1>9, <1>10 DEF Descends, Onto
<1> QED BY <1>11

-----------------------------------------------------------------------------
(* The extra weights on the way of the upward search are the roads of its   *)
(* arcs, so what they add up to is that way.                                *)
OverBy(d, F) == F = [x \in Nodes |-> IF Ends(d, x) THEN <<>> ELSE Link(d, F[pnode[d][x]], ExtraWeight[d][parc[d][x]])]
PushedArcs(d) == \A y \in Nodes : ~Ends(d, y) => <<d, parc[d][y]>> \in SideArcs
LEMMA OverIsWay ==
  ASSUME NEW level, Built(level), DOMAIN ch.side = Dirs, NEW d \in Dirs, PushedArcs(d),
         Climbs(input.n, level, Nodes, Past(d)), NEW F, F = CHOOSE O : OverBy(d, O)
  PROVE  WayRecurs(d, F)
<1>1. PICK n \in Nat : n = input.n
  BY InputsAssumption DEF Built
<1>2. RoadsOn(d)
  <2>1. \A e \in SideArcs : Unpacks(e)
    BY ArcsUnpack DEF Built
  <2> QED BY <2>1, ArcRoad DEF RoadsOn, PushedArcs
<1>3. ASSUME NEW y \in Nodes, ~Ends(d, y) PROVE ExtraWeight[d][parc[d][y]] = UnpackArc[<<d, parc[d][y]>>]
  <2>1. <<d, parc[d][y]>> \in SideArcs
    BY <1>3 DEF PushedArcs
  <2>2. parc[d][y] \in DOMAIN ch.side[d]
    BY <2>1 DEF SideArcs
  <2> QED BY <2>2, WeightsUnpack
<1>4. ASSUME NEW G PROVE OverBy(d, G) <=> WayBy(d, G)
  <2>1. \A y \in Nodes : (IF Ends(d, y) THEN <<>> ELSE Link(d, G[pnode[d][y]], ExtraWeight[d][parc[d][y]]))
                         = (IF Ends(d, y) THEN <<>> ELSE Link(d, G[pnode[d][y]], UnpackArc[<<d, parc[d][y]>>]))
    BY <1>3
  <2>2. [y \in Nodes |-> IF Ends(d, y) THEN <<>> ELSE Link(d, G[pnode[d][y]], ExtraWeight[d][parc[d][y]])]
        = [y \in Nodes |-> IF Ends(d, y) THEN <<>> ELSE Link(d, G[pnode[d][y]], UnpackArc[<<d, parc[d][y]>>])]
    BY <2>1
  <2> QED BY <2>2 DEF OverBy, WayBy
<1>5. \E G : OverBy(d, G)
  <2>1. \E G : WayBy(d, G)
    BY <1>1, <1>2, WayIsThere
  <2> QED BY <1>4, <2>1
<1>6. OverBy(d, F)
  BY <1>5
<1>7. WayBy(d, F)
  BY <1>4, <1>6
<1> QED BY <1>1, <1>2, <1>7, WayIsSeq

(* Down the pins: whatever is computed along the arcs of the sweep is there. *)
IsDescent(d, R, V, base, over, B) ==
  /\ B = [x \in R |-> B[x]] /\ \A x \in R : B[x] \in V
  /\ \A x \in R : B[x] = IF x \in flag[d] THEN base[x] ELSE over[x][B[Onto(d, x)]]
Descent(d, R, V, base, over) == \E B : IsDescent(d, R, V, base, over, B)
LEMMA DescentIsThere ==
  ASSUME NEW d, NEW n \in Nat, n = meet, NEW depth, Descends(d, depth), Nodes \subseteq Nat,
         NEW R, R = Reached(d), NEW V, V # {}, NEW base \in [R -> V], NEW over \in [R -> [V -> V]]
  PROVE  Descent(d, R, V, base, over)
<1>1. R = Reached(d)
  OBVIOUS
<1>2. PICK pn : pn = [x \in R |-> IF x \in flag[d] THEN NoId ELSE Onto(d, x)]
  OBVIOUS
<1>3. ASSUME NEW x \in R
      PROVE  /\ x \in Nodes /\ depth[x] \in Nat /\ depth[x] < n
             /\ x \notin flag[d] => Onto(d, x) \in R /\ depth[Onto(d, x)] < depth[x]
  BY <1>1 DEF Descends
<1>4. ASSUME NEW x \in R PROVE pn[x] = NoId <=> x \in flag[d]
  <2>1. CASE x \in flag[d]
    BY <1>2, <2>1
  <2>2. CASE x \notin flag[d]
    <3>1. Onto(d, x) \in R
      BY <1>3, <2>2
    <3>2. Onto(d, x) \in Nat
      BY <1>3, <3>1
    <3> QED BY <1>2, <2>2, <3>2, NoIdAssumption
  <2> QED BY <2>1, <2>2
<1>5. ASSUME NEW x \in R, x \notin flag[d] PROVE pn[x] = Onto(d, x)
  BY <1>2, <1>5
<1>6. Climbs(n, depth, R, pn)
  BY <1>3, <1>4, <1>5 DEF Climbs
<1>7. IsAlong(R, V, pn, base, over)
  BY <1>1, <1>6, WalkIsThere
<1>8. PICK B \in [R -> V] : Along(R, pn, base, over, B)
  BY <1>7 DEF IsAlong
<1>9. \A x \in R : B[x] = IF x \in flag[d] THEN base[x] ELSE over[x][B[Onto(d, x)]]
  BY <1>4, <1>5, <1>8 DEF Along
<1>10. B = [x \in R |-> B[x]] /\ \A x \in R : B[x] \in V
  BY <1>8
<1> QED BY <1>9, <1>10 DEF Descent, IsDescent

DownBy(d, F, B) == B = [x \in Reached(d) |-> IF x \in flag[d] THEN F[x]
                                             ELSE Link(d, B[parc[d][x][2]], ExtraWeight[Opposite(d)][parc[d][x]])]
DownRecurs(d, F, B) ==
  \A x \in Reached(d) : B[x] = IF x \in flag[d] THEN F[x] ELSE Link(d, B[Onto(d, x)], ExtraWeight[Opposite(d)][parc[d][x]])
(* The extra weight down to a pinned node.                                  *)
LEMMA DownIsThere ==
  ASSUME NEW d, NEW n \in Nat, n = meet, NEW depth, Descends(d, depth), Nodes \subseteq Nat, NEW F, WayRecurs(d, F),
         \A x \in Reached(d) : x \notin flag[d] => ExtraWeight[Opposite(d)][parc[d][x]] \in Seq(DOMAIN input.arcs),
         NEW B, B = CHOOSE O : DownBy(d, F, O)
  PROVE  DownRecurs(d, F, B)
<1>1. PICK V, R : V = Seq(DOMAIN input.arcs) /\ R = Reached(d)
  OBVIOUS
<1>2. PICK own : own = [x \in R |-> IF x \in flag[d] THEN <<>> ELSE ExtraWeight[Opposite(d)][parc[d][x]]]
  OBVIOUS
<1>3. \A x \in R : own[x] \in V
  BY <1>1, <1>2, EmptySeq
<1>4. PICK base : base = [x \in R |-> F[x]]
  OBVIOUS
<1>5. PICK over : over = [x \in R |-> [v \in V |-> Link(d, v, own[x])]]
  OBVIOUS
<1>6. \A v \in V, x \in R : Link(d, v, own[x]) \in V
  BY <1>1, <1>3, LinkIsSeq
<1>7. \A x \in R : x \in Nodes
  BY <1>1 DEF Descends
<1>8. V # {} /\ base \in [R -> V] /\ over \in [R -> [V -> V]]
  BY <1>1, <1>4, <1>5, <1>6, <1>7, EmptySeq DEF WayRecurs
<1>9. Descent(d, R, V, base, over)
  BY <1>1, <1>8, DescentIsThere
<1>10. PICK G : /\ G = [x \in R |-> G[x]] /\ \A x \in R : G[x] \in V
                /\ \A x \in R : G[x] = IF x \in flag[d] THEN base[x] ELSE over[x][G[Onto(d, x)]]
  BY <1>9 DEF Descent, IsDescent
<1>11. \A x \in R : G[x] = IF x \in flag[d] THEN F[x] ELSE Link(d, G[Onto(d, x)], ExtraWeight[Opposite(d)][parc[d][x]])
  <2> SUFFICES ASSUME NEW x \in R
               PROVE  G[x] = IF x \in flag[d] THEN F[x] ELSE Link(d, G[Onto(d, x)], ExtraWeight[Opposite(d)][parc[d][x]])
    OBVIOUS
  <2>1. CASE x \in flag[d]
    BY <1>4, <1>10, <2>1
  <2>2. CASE x \notin flag[d]
    <3>1. Onto(d, x) \in R
      BY <1>1, <2>2 DEF Descends
    <3>2. G[Onto(d, x)] \in V
      BY <1>10, <3>1
    <3> QED BY <1>2, <1>5, <1>10, <2>2, <3>2
  <2> QED BY <2>1, <2>2
<1>12. G = [x \in R |-> IF x \in flag[d] THEN F[x] ELSE Link(d, G[Onto(d, x)], ExtraWeight[Opposite(d)][parc[d][x]])]
  BY <1>10, <1>11
<1>13. DownBy(d, F, G)
  BY <1>1, <1>12 DEF DownBy, Onto
<1>14. DownBy(d, F, B)
  BY <1>13
<1> QED BY <1>14 DEF DownBy, DownRecurs, Onto

(* get_used_source of a pinned node.                                        *)
UsedBy(d, S, B) == B = [x \in Reached(d) |-> IF x \in flag[d] THEN S[x] ELSE B[parc[d][x][2]]]
UsedRecurs(d, S, B) == \A x \in Reached(d) : B[x] = IF x \in flag[d] THEN S[x] ELSE B[Onto(d, x)]
LEMMA UsedIsThere ==
  ASSUME NEW d, NEW n \in Nat, n = meet, NEW depth, Descends(d, depth), Nodes \subseteq Nat, NEW S,
         NEW B, B = CHOOSE O : UsedBy(d, S, O)
  PROVE  UsedRecurs(d, S, B)
<1>1. PICK R : R = Reached(d)
  OBVIOUS
<1>2. PICK base : base = [x \in R |-> S[x]]
  OBVIOUS
<1>3. PICK V : V = {S[x] : x \in R} \cup {0}
  OBVIOUS
<1>4. PICK over : over = [x \in R |-> [v \in V |-> v]]
  OBVIOUS
<1>5. V # {} /\ base \in [R -> V] /\ over \in [R -> [V -> V]]
  BY <1>2, <1>3, <1>4
<1>6. Descent(d, R, V, base, over)
  BY <1>1, <1>5, DescentIsThere
<1>7. PICK G : /\ G = [x \in R |-> G[x]] /\ \A x \in R : G[x] \in V
               /\ \A x \in R : G[x] = IF x \in flag[d] THEN base[x] ELSE over[x][G[Onto(d, x)]]
  BY <1>6 DEF Descent, IsDescent
<1>8. \A x \in R : G[x] = IF x \in flag[d] THEN S[x] ELSE G[Onto(d, x)]
  <2> SUFFICES ASSUME NEW x \in R PROVE G[x] = IF x \in flag[d] THEN S[x] ELSE G[Onto(d, x)]
    OBVIOUS
  <2>1. CASE x \in flag[d]
    BY <1>2, <1>7, <2>1
  <2>2. CASE x \notin flag[d]
    <3>1. Onto(d, x) \in R
      BY <1>1, <2>2 DEF Descends
    <3>2. G[Onto(d, x)] \in V
      BY <1>7, <3>1
    <3> QED BY <1>4, <1>7, <2>2, <3>2
  <2> QED BY <2>1, <2>2
<1>9. G = [x \in R |-> IF x \in flag[d] THEN S[x] ELSE G[Onto(d, x)]]
  BY <1>7, <1>8
<1>10. UsedBy(d, S, G)
  BY <1>1, <1>9 DEF UsedBy, Onto
<1>11. UsedBy(d, S, B)
  BY <1>10
<1> QED BY <1>11 DEF UsedBy, UsedRecurs, Onto

-----------------------------------------------------------------------------
(* Down an arc of the sweep a road leads on.                                *)
LEMMA RoadTurns ==
  ASSUME NEW nodes, NEW arcs, NEW d \in Dirs, NEW u, NEW x, NEW y, NEW l, RouteOn(nodes, arcs, Opposite(d), u, x, y, l)
  PROVE  RouteOn(nodes, arcs, d, u, y, x, l)
BY DEF RouteOn, Opposite, Dirs

DescentArc(d, x, y, v, w) ==
  /\ <<Opposite(d), <<x, y>>>> \in SideArcs /\ v = UnpackArc[<<Opposite(d), <<x, y>>>>] /\ w \in Nat
  /\ w = ArcAt(<<Opposite(d), <<x, y>>>>).weight
(* An arc of the sweep unpacks to a road that leads down.                   *)
LEMMA DescentRoad ==
  ASSUME input \in Inputs, NEW level, UnpacksUp(level), NEW d \in Dirs, NEW x, NEW y, NEW v, NEW w, DescentArc(d, x, y, v, w)
  PROVE  RouteOn(Nodes, input.arcs, d, v, ch.order[y + 1], ch.order[x + 1], w)
<1>1. PICK p, a, b : p = <<x, y>> /\ a = ch.order[x + 1] /\ b = ch.order[y + 1]
  OBVIOUS
<1>2. Opposite(d) \in Dirs
  BY DEF Opposite, Dirs
<1>3. PICK o : o = Opposite(d)
  OBVIOUS
<1>4. <<o, p>> \in SideArcs /\ v = UnpackArc[<<o, p>>] /\ w = ArcAt(<<o, p>>).weight
  BY <1>1, <1>3 DEF DescentArc
<1>5. Unpacks(<<o, p>>)
  BY <1>4, ArcsUnpack
<1>6. RouteOn(Nodes, input.arcs, o, UnpackArc[<<o, p>>], ch.order[p[1] + 1], ch.order[p[2] + 1], ArcAt(<<o, p>>).weight)
  BY <1>2, <1>3, <1>4, <1>5, ArcRoad
<1>7. RouteOn(Nodes, input.arcs, o, v, a, b, w)
  BY <1>1, <1>4, <1>6
<1>8. RouteOn(Nodes, input.arcs, d, v, b, a, w)
  BY <1>3, <1>7, RoadTurns
<1> QED BY <1>1, <1>8

(* What the arcs of the sweep are.                                          *)
LEMMA DescentArcs ==
  ASSUME NEW level, Built(level), DOMAIN ch.side = Dirs, NEW d \in Dirs,
         Given(Nodes, ch, CleanGraph, TrueDistance, d, asked.src[d]), NEW depth, Descends(d, depth)
  PROVE  \A x \in Reached(d) : x \notin flag[d] =>
           \E w : /\ DescentArc(d, x, Onto(d, x), ExtraWeight[Opposite(d)][parc[d][x]], w)
                  /\ GapsOf(d)[<<Onto(d, x), x>>] <= w /\ dist[d][Onto(d, x)] + w = dist[d][x]
<1> SUFFICES ASSUME NEW x \in Reached(d), x \notin flag[d]
             PROVE  \E w : /\ DescentArc(d, x, Onto(d, x), ExtraWeight[Opposite(d)][parc[d][x]], w)
                           /\ GapsOf(d)[<<Onto(d, x), x>>] <= w /\ dist[d][Onto(d, x)] + w = dist[d][x]
  OBVIOUS
<1>1. PICK y, o, tent, gap, down : /\ y = Onto(d, x) /\ o = Opposite(d) /\ tent = dist[d] /\ gap = GapsOf(d)
                                   /\ down = ArcWeights(ch, Opposite(d))
  OBVIOUS
<1>2. PICK p : p = <<x, y>>
  OBVIOUS
<1>3. /\ y \in Reached(d) /\ parc[d][x] = p /\ p \in DOMAIN down /\ tent[y] + down[p] = tent[x]
  BY <1>1, <1>2 DEF Descends
<1>4. x \in Nodes /\ y \in Nodes
  BY <1>3 DEF Descends
<1>5. o \in Dirs
  BY <1>1 DEF Opposite, Dirs
<1>6. p \in DOMAIN ch.side[o] /\ down[p] = ch.side[o][p].weight
  BY <1>1, <1>3 DEF ArcWeights
<1>7. <<o, p>> \in SideArcs /\ ArcAt(<<o, p>>) = ch.side[o][p]
  BY <1>2, <1>4, <1>5, <1>6 DEF SideArcs, ArcAt
<1>8. down[p] \in Nat /\ gap[<<y, x>>] <= down[p]
  <2>1. HalfOf(Nodes, level, gap, ArcWeights(ch, d), down)
    BY <1>1 DEF Given, Built, GapsOf
  <2>2. down[p] \in Nat /\ gap[<<p[2], p[1]>>] <= down[p]
    BY <1>3, <2>1 DEF HalfOf, DownIs
  <2>3. p[1] = x /\ p[2] = y
    BY <1>2
  <2> QED BY <2>2, <2>3
<1>9. ExtraWeight[o][p] = UnpackArc[<<o, p>>]
  BY <1>5, <1>6, WeightsUnpack
<1>10. PICK w : w = down[p]
  OBVIOUS
<1>11. DescentArc(d, x, y, ExtraWeight[o][p], w)
  <2>1. <<o, p>> \in SideArcs /\ ExtraWeight[o][p] = UnpackArc[<<o, p>>] /\ w \in Nat /\ w = ArcAt(<<o, p>>).weight
    BY <1>6, <1>7, <1>8, <1>9, <1>10
  <2> QED BY <1>1, <1>2, <2>1 DEF DescentArc
<1> QED BY <1>1, <1>3, <1>8, <1>10, <1>11

(* So every pinned node that was reached is explained by a road from the    *)
(* source that is named.                                                    *)
LEMMA PinnedIsExplained ==
  ASSUME NEW level, Built(level), DOMAIN ch.side = Dirs, NEW d \in Dirs,
         Given(Nodes, ch, CleanGraph, TrueDistance, d, asked.src[d]), SweptOK(d), PinsOK(Opposite(d))
  PROVE  \A x \in Reached(d) : /\ x \in Nodes /\ dist[d][x] = BestsOf(d)[x]
                               /\ Explained(d, ExtraFromSource(d), UsedSource(d), x, StartsOf(d), GapsOf(d))
<1>1. PICK depth : Descends(d, depth)
  BY SweptDescends
<1>2. PICK R, fl, T, tent, best : R = Reached(d) /\ fl = flag[d] /\ T = TightsOf(d) /\ tent = dist[d] /\ best = BestsOf(d)
  OBVIOUS
<1>3. PICK start, gap : start = StartsOf(d) /\ gap = GapsOf(d)
  OBVIOUS
<1>4. PICK n \in Nat : n = meet
  BY DEF PinsOK, ArePins
<1>5. input \in Inputs /\ UnpacksUp(level) /\ OrderOf(Nodes, ch) /\ input.n \in Nat /\ Nodes \subseteq Nat
  BY InputsAssumption DEF Built, Given
<1>6. Labels(d, level, T, start, gap) /\ PushedArcs(d)
  BY <1>2, <1>3, SweptAreLabels DEF PushedArcs
<1>7. Climbs(input.n, level, Nodes, Past(d))
  BY <1>6 DEF Labels
<1>8. PICK F, S : F = (CHOOSE O : OverBy(d, O)) /\ S = StartOf(d)
  OBVIOUS
<1>9. WayRecurs(d, F) /\ StartRecurs(d, S)
  BY <1>5, <1>6, <1>7, <1>8, OverIsWay, StartOfRecurs
<1>10. PICK B, U : B = (CHOOSE O : DownBy(d, F, O)) /\ U = (CHOOSE O : UsedBy(d, S, O))
  OBVIOUS
<1>11. ExtraFromSource(d) = B /\ UsedSource(d) = U
  BY <1>8, <1>10 DEF ExtraFromSource, UsedSource, OverBy, DownBy, UsedBy
<1>12. ASSUME NEW x \in R, x \notin fl
       PROVE  \E w : /\ DescentArc(d, x, Onto(d, x), ExtraWeight[Opposite(d)][parc[d][x]], w)
                     /\ gap[<<Onto(d, x), x>>] <= w /\ tent[Onto(d, x)] + w = tent[x]
  BY <1>1, <1>2, <1>3, <1>12, DescentArcs
<1>13. DownRecurs(d, F, B)
  <2>1. ASSUME NEW x \in R, x \notin fl PROVE ExtraWeight[Opposite(d)][parc[d][x]] \in Seq(DOMAIN input.arcs)
    <3>1. PICK v, y : v = ExtraWeight[Opposite(d)][parc[d][x]] /\ y = Onto(d, x)
      OBVIOUS
    <3>2. PICK w : DescentArc(d, x, y, v, w)
      BY <1>12, <2>1, <3>1
    <3>3. RouteOn(Nodes, input.arcs, d, v, ch.order[y + 1], ch.order[x + 1], w)
      BY <1>5, <3>2, DescentRoad
    <3>4. v \in Seq(DOMAIN input.arcs)
      BY <3>3, RouteWeighs DEF RouteOn
    <3> QED BY <3>1, <3>4
  <2> QED BY <1>1, <1>2, <1>4, <1>5, <1>9, <1>10, <2>1, DownIsThere
<1>14. UsedRecurs(d, S, U)
  BY <1>1, <1>4, <1>5, <1>10, UsedIsThere
<1>15. GapIs(Nodes, gap)
  BY <1>3, GapsAre DEF Given, GapsOf, GapsMean
<1>16. \A y \in T : Explained(d, F, S, y, start, gap)
  <2>1. \A e \in SideArcs : Unpacks(e)
    BY <1>5, ArcsUnpack
  <2> QED BY <1>5, <1>6, <1>9, <1>15, <2>1, LabelsAreExplained
<1>17. ASSUME NEW x \in R
       PROVE  x \in Nodes /\ tent[x] = best[x] /\ depth[x] \in Nat /\ depth[x] < n /\ tent[x] \in Nat
  <2>1. x \in Nodes /\ tent[x] = best[x] /\ depth[x] \in Nat /\ depth[x] < n
    BY <1>1, <1>2, <1>4 DEF Descends
  <2>2. BestIs(Nodes, GapsOf(d), StartsOf(d), best)
    BY <1>2 DEF Given, GapsOf, StartsOf, BestsOf
  <2>3. best[x] \in Nat
    BY <2>1, <2>2 DEF BestIs
  <2> QED BY <2>1, <2>3
<1>18. ASSUME NEW x \in R, x \in fl PROVE Explained(d, B, U, x, start, gap)
  <2>1. x \in T
    BY <1>2, <1>17, <1>18 DEF TightsOf
  <2>2. B[x] = F[x] /\ U[x] = S[x]
    BY <1>2, <1>13, <1>14, <1>18 DEF DownRecurs, UsedRecurs
  <2> QED BY <1>16, <2>1, <2>2 DEF Explained
<1>19. ASSUME NEW x \in R, x \notin fl, Explained(d, B, U, Onto(d, x), start, gap) PROVE Explained(d, B, U, x, start, gap)
  <2>1. PICK y, v : y = Onto(d, x) /\ v = ExtraWeight[Opposite(d)][parc[d][x]]
    OBVIOUS
  <2>2. PICK w : DescentArc(d, x, y, v, w) /\ gap[<<y, x>>] <= w /\ tent[y] + w = tent[x]
    BY <1>12, <1>19, <2>1
  <2>3. y \in R
    BY <1>1, <1>2, <1>19, <2>1 DEF Descends
  <2>4. PICK u, s : u = B[y] /\ s = U[y]
    OBVIOUS
  <2>5. PICK l : LeadsTo(d, u, s, y, start, gap, l)
    BY <1>19, <2>1, <2>4 DEF Explained
  <2>6. RouteOn(Nodes, input.arcs, d, v, ch.order[y + 1], ch.order[x + 1], w) /\ w \in Nat
    BY <1>5, <2>2, DescentRoad DEF DescentArc
  <2>7. dist[d][y] \in Nat /\ dist[d][x] \in Nat /\ dist[d][y] + w <= dist[d][x] /\ x \in Nodes /\ y \in Nodes
    BY <1>2, <1>17, <2>2, <2>3
  <2>8. LeadsTo(d, Link(d, u, v), s, x, start, gap, l + w)
    BY <1>15, <2>2, <2>5, <2>6, <2>7, LeadsOn
  <2>9. B[x] = Link(d, u, v) /\ U[x] = s
    BY <1>2, <1>13, <1>14, <1>19, <2>1, <2>4 DEF DownRecurs, UsedRecurs
  <2> QED BY <2>8, <2>9 DEF Explained
<1>20. PICK Z : Z = {k \in Nat : \A x \in R : depth[x] < k => Explained(d, B, U, x, start, gap)}
  OBVIOUS
<1>21. 0 \in Z
  BY <1>17, <1>20
<1>22. ASSUME NEW k \in Nat, k \in Z PROVE k + 1 \in Z
  <2> SUFFICES ASSUME NEW x \in R, depth[x] < k + 1 PROVE Explained(d, B, U, x, start, gap)
    BY <1>20
  <2>1. CASE x \in fl
    BY <1>18, <2>1
  <2>2. CASE x \notin fl
    <3>1. PICK y : y = Onto(d, x)
      OBVIOUS
    <3>2. y \in R /\ depth[y] < depth[x]
      BY <1>1, <1>2, <2>2, <3>1 DEF Descends
    <3>3. depth[y] < k
      BY <1>17, <3>2
    <3>4. Explained(d, B, U, y, start, gap)
      BY <1>20, <1>22, <3>2, <3>3
    <3> QED BY <1>19, <2>2, <3>1, <3>4
  <2> QED BY <2>1, <2>2
<1>23. n \in Z
  BY <1>21, <1>22, InductionOnNat
<1>24. \A x \in R : Explained(d, B, U, x, start, gap)
  BY <1>17, <1>20, <1>23
<1> QED BY <1>2, <1>3, <1>11, <1>17, <1>24

-----------------------------------------------------------------------------
(* The road of a pinned node that was reached is as long as its distance.   *)
PinnedRoadIs(d, i) ==
  LET x == PinnedId(d, i)
      road == ExtraFromSource(d)[x]
      used == ch.order[UsedSource(d)[x] + 1] IN
  IF Unreached(d, x) THEN dist[d][x] = Inf
  ELSE /\ used \in DOMAIN asked.src[d]
       /\ IF d = "f" THEN IsPath(road, used, asked.pins[i]) ELSE IsPath(road, asked.pins[i], used)
       /\ asked.src[d][used] + PathWeight(road) = dist[d][x]
LEMMA ReachedRoad ==
  ASSUME NEW d \in Dirs, Given(Nodes, ch, CleanGraph, TrueDistance, d, asked.src[d]), NEW x \in Nodes,
         dist[d][x] = BestsOf(d)[x], Explained(d, ExtraFromSource(d), UsedSource(d), x, StartsOf(d), GapsOf(d)),
         NEW road, road = ExtraFromSource(d)[x], NEW used, used = ch.order[UsedSource(d)[x] + 1]
  PROVE  /\ used \in DOMAIN asked.src[d]
         /\ IF d = "f" THEN IsPath(road, used, ch.order[x + 1]) ELSE IsPath(road, ch.order[x + 1], used)
         /\ asked.src[d][used] + PathWeight(road) = dist[d][x]
<1>1. PICK s, start, gap, src, best : /\ s = UsedSource(d)[x] /\ start = StartsOf(d) /\ gap = GapsOf(d)
                                      /\ src = asked.src[d] /\ best = BestsOf(d)
  OBVIOUS
<1>2. PICK l : LeadsTo(d, road, s, x, start, gap, l)
  BY <1>1 DEF Explained
<1>3. PICK c, w : c = ch.order[x + 1] /\ w = dist[d][x]
  OBVIOUS
<1>4. /\ s \in DOMAIN start /\ s \in Nodes /\ l \in Nat /\ start[s] \in Nat
      /\ RouteOn(Nodes, input.arcs, d, road, used, c, l) /\ start[s] + l <= w /\ gap[<<s, x>>] <= l
  BY <1>1, <1>2, <1>3 DEF LeadsTo
<1>5. used \in DOMAIN src /\ start[s] = src[used]
  <2>1. start = Starts(ch, src) /\ SourcesAre(Nodes, src) /\ OrderOf(Nodes, ch)
    BY <1>1 DEF Given, StartsOf
  <2> QED BY <1>1, <1>4, <2>1, StartsAre
<1>6. src[used] + l = w
  <2>1. BestIs(Nodes, gap, start, best)
    BY <1>1 DEF Given, GapsOf, StartsOf, BestsOf
  <2>2. best[x] \in Nat /\ best[x] <= start[s] + gap[<<s, x>>]
    BY <1>4, <2>1 DEF BestIs
  <2>3. GapIs(Nodes, gap)
    BY <1>1, GapsAre DEF Given, GapsOf, GapsMean
  <2>4. gap[<<s, x>>] \in Nat
    BY <1>4, <2>3 DEF GapIs
  <2>5. PICK g, a : g = gap[<<s, x>>] /\ a = start[s]
    OBVIOUS
  <2>6. w \in Nat /\ w <= a + g /\ g \in Nat /\ a \in Nat /\ a + l <= w /\ g <= l /\ l \in Nat
    BY <1>1, <1>3, <1>4, <2>2, <2>4, <2>5
  <2>7. a + l = w
    BY <2>6
  <2> QED BY <1>5, <2>5, <2>7
<1>7. PathWeight(road) = l /\ IF d = "f" THEN IsPath(road, used, c) ELSE IsPath(road, c, used)
  <2>1. CASE d = "f"
    BY <1>4, <2>1, RoadIsPath DEF RouteOn
  <2>2. CASE d # "f"
    BY <1>4, <2>2, RoadIsPath DEF RouteOn
  <2> QED BY <2>1, <2>2
<1> QED BY <1>1, <1>3, <1>5, <1>6, <1>7

(* What the invariant says of the road to a pinned node.                    *)
LEMMA PinnedRoadMeans ==
  ASSUME HInv, IInv, QInv PROVE PinnedRoadExplainsDistance
<1> SUFFICES ASSUME NEW d \in Dirs, st = RunState(Opposite(d)), NEW i \in 1 .. count PROVE PinnedRoadIs(d, i)
  BY DEF PinnedRoadExplainsDistance, PinnedRoadIs
<1>1. pc = "built" /\ QueryTypes /\ QueryOK
  <2>1. CASE pc # "built"
    BY <2>1 DEF QInv, QueryInit, RunState, Opposite
  <2> QED BY <2>1 DEF QInv
<1>2. SweptOK(d) /\ PinsOK(Opposite(d))
  BY <1>1 DEF QueryOK
<1>3. Given(Nodes, ch, CleanGraph, TrueDistance, d, asked.src[d])
  BY <1>1, SideIsGiven
<1>4. PICK level : Built(level)
  BY <1>1, BuiltHierarchy
<1>5. DOMAIN ch.side = Dirs
  BY <1>1 DEF HInv, HierarchyOK
<1>6. PICK x : x = PinnedId(d, i)
  OBVIOUS
<1>7. /\ asked.pins[i] \in Nodes /\ x = ch.rank[asked.pins[i]]
      /\ \E j \in 0 .. meet - 1 : dist[Opposite(d)][j] = x
  BY <1>2, <1>6 DEF PinsOK, ArePins, PinnedId
<1>8. x \in Nodes /\ ch.order[x + 1] = asked.pins[i]
  BY <1>3, <1>7 DEF Given, OrderOf
<1>9. CASE Unreached(d, x)
  <2>1. dist[d][x] = Inf
    BY <1>2, <1>7, <1>9 DEF SweptOK, IsSweptAt, IsTraced, Unreached
  <2> QED BY <1>6, <1>9, <2>1 DEF PinnedRoadIs
<1>10. CASE ~Unreached(d, x)
  <2>1. x \in Reached(d)
    BY <1>7, <1>10 DEF Reached
  <2>2. /\ dist[d][x] = BestsOf(d)[x]
        /\ Explained(d, ExtraFromSource(d), UsedSource(d), x, StartsOf(d), GapsOf(d))
    BY <1>2, <1>3, <1>4, <1>5, <2>1, PinnedIsExplained
  <2>3. PICK road, used : road = ExtraFromSource(d)[x] /\ used = ch.order[UsedSource(d)[x] + 1]
    OBVIOUS
  <2>4. /\ used \in DOMAIN asked.src[d]
        /\ IF d = "f" THEN IsPath(road, used, ch.order[x + 1]) ELSE IsPath(road, ch.order[x + 1], used)
        /\ asked.src[d][used] + PathWeight(road) = dist[d][x]
    BY <1>3, <1>8, <2>2, <2>3, ReachedRoad
  <2> QED BY <1>6, <1>8, <1>10, <2>3, <2>4 DEF PinnedRoadIs
<1> QED BY <1>9, <1>10

(* After a pinned run the source it names for a pinned node and the road    *)
(* the extra weights run over explain the distance of the node.             *)
THEOREM PinnedRoads == Spec => []PinnedRoadExplainsDistance
<1>1. HInv /\ IInv /\ QInv => PinnedRoadExplainsDistance
  BY PinnedRoadMeans
<1> QED BY <1>1, HierarchyInvariant, ContractionInvariant, QueryInvariant, PTL
=============================================================================
