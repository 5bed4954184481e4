----------------------- MODULE CustomizableCHQueryProofs -----------------------
(***************************************************************************)
(* Every answer of a query object is a shortest distance, and its road a   *)
(* road of that length: for every road graph, order, weights and filter,   *)
(* any sources, targets and pinned lists, and any rounds of calls.         *)
(***************************************************************************)
EXTENDS CustomizableCHProofs

-----------------------------------------------------------------------------
(* What the way up leaves in the distances of a side.                       *)
LEMMA SpaceLeadsUp ==
  ASSUME Ready, QueryTypeOK, NEW d \in Dirs, WalkOK(d)
  PROVE  inSpace[d] \in SUBSET Nodes /\ \A x \in inSpace[d] : Up(x) \subseteq inSpace[d]
BY DEF Ready, TreeOK, WalkOK, QueryTypeOK

LEMMA AskedIsInSpace ==
  ASSUME NEW d \in Dirs, WalkOK(d), AskedOK(d)
  PROVE  \A s \in Nodes : Asked(d, s) => s \in inSpace[d] /\ Given(d, s) \in Nat /\ Given(d, s) <= Inf /\ order[s + 1] \in Nodes
<1> SUFFICES ASSUME NEW s \in Nodes, Asked(d, s)
             PROVE  s \in inSpace[d] /\ Given(d, s) \in Nat /\ Given(d, s) <= Inf /\ order[s + 1] \in Nodes
  OBVIOUS
<1>1. Added(d)
  BY DEF AskedOK, Asked, NoStarts
<1>2. s \in Range(node[d])
  BY <1>1 DEF AskedOK
<1>3. s \in inSpace[d]
  BY <1>2, RangeOfSeq DEF WalkOK
<1>4. Given(d, s) \in 0 .. Inf /\ order[s + 1] \in Nodes
  BY DEF Given, Asked, AskedOK
<1> QED BY <1>3, <1>4, InfAssumption

LEMMA SettlesTops ==
  ASSUME Ready, QueryTypeOK, NEW d \in Dirs, WalkOK(d), AskedOK(d), NEW dd \in [Nodes -> 0 .. Inf], Settles(d, dd)
  PROVE  Tops(d, dd) /\ \A s, y \in Nodes : Asked(d, s) /\ s <= y /\ Below(d, s, y) < Inf => y \in inSpace[d]
<1>1. input.n \in Nat /\ Nodes = 0 .. input.n - 1 /\ input \in Inputs /\ weight \in input.weights
  BY InputIsGraph DEF Ready, GraphOK
<1>2. inSpace[d] \in SUBSET Nodes /\ \A x \in inSpace[d] : dd[x] \in Int
  BY SpaceLeadsUp, InfAssumption
<1>3. Rises(d, inSpace[d], dd)
  BY SpaceLeadsUp DEF Rises, Settles
<1>4. \A k \in 0 .. input.n : \A x \in inSpace[d], y \in Nodes : x < k /\ k <= y => RisesTo(d, inSpace[d], dd, k, x, y)
  BY <1>2, <1>3, ClimbBound
<1> SUFFICES ASSUME NEW s \in Nodes, NEW y \in Nodes, Asked(d, s), s <= y, Below(d, s, y) < Inf
             PROVE  y \in inSpace[d] /\ dd[y] <= Given(d, s) + Below(d, s, y)
  BY DEF Tops
<1>5. s \in inSpace[d] /\ dd[s] <= Given(d, s) /\ Given(d, s) \in Nat /\ dd[s] \in Nat /\ dd[y] \in Nat
  BY AskedIsInSpace, InfAssumption DEF Settles
<1>6. Below(d, s, y) = Near(d, y, s, y) /\ Below(d, s, y) \in Nat /\ (s = y => Below(d, s, y) = 0)
  BY <1>1, BelowIsNear
<1>7. CASE s = y
  BY <1>5, <1>6, <1>7
<1>8. CASE s < y
  <2>1. RisesTo(d, inSpace[d], dd, y, s, y)
    BY <1>1, <1>4, <1>5, <1>8
  <2> QED BY <1>5, <1>6, <2>1 DEF RisesTo
<1> QED BY <1>1, <1>7, <1>8

(* A distance is at least that of some start. *)
Reaches(d, s, y, total) ==
  s \in Nodes /\ Asked(d, s) /\ total >= Given(d, s) + Shortest(d, s, y) /\ Shortest(d, s, y) < Inf
LEMMA BackedIsRealised ==
  ASSUME Ready, QueryTypeOK, NEW d \in Dirs, WalkOK(d), AskedOK(d), NEW dd \in [Nodes -> 0 .. Inf],
         NEW pp \in [Nodes -> Nodes \cup {NoId}], LeadsDown(pp), Backed(d, dd, pp)
  PROVE  \A y \in Nodes : dd[y] < Inf => \E s : Reaches(d, s, y, dd[y])
<1> DEFINE H(k) == \A y \in Nodes : y < k /\ dd[y] < Inf => \E s : Reaches(d, s, y, dd[y])
           T == {k \in Nat : H(k)}
<1>1. input.n \in Nat /\ Nodes = 0 .. input.n - 1 /\ input \in Inputs /\ weight \in input.weights
  BY InputIsGraph DEF Ready, GraphOK
<1>2. H(0)
  BY <1>1
<1>3. ASSUME NEW k \in Nat, H(k) PROVE H(k + 1)
  <2> SUFFICES ASSUME NEW y \in Nodes, y < k + 1, dd[y] < Inf
               PROVE  \E s : Reaches(d, s, y, dd[y])
    OBVIOUS
  <2>1. CASE pp[y] = NoId
    <3>1. Asked(d, y) /\ dd[y] = Given(d, y)
      BY <2>1 DEF Backed
    <3>2. Shortest(d, y, y) = 0 /\ Given(d, y) \in Nat /\ 0 < Inf
      <4>1. NearBy(d, input.n, y, y)
        BY <1>1, NearIsNear
      <4>2. dd[y] \in 0 .. Inf
        OBVIOUS
      <4> QED BY <3>1, <4>1, <4>2, AskedIsInSpace, InfAssumption DEF NearBy, Shortest
    <3> QED BY <3>1, <3>2 DEF Reaches
  <2>2. CASE pp[y] # NoId
    <3> PICK x : x = pp[y]
      OBVIOUS
    <3>1. x \in Nodes /\ x < y /\ x < k
      BY <1>1, <2>2 DEF LeadsDown
    <3>2. <<x, y>> \in cch.up /\ dd[y] = dd[x] + metric[d][<<x, y>>]
      BY <2>2 DEF Backed
    <3>3. metric[d][<<x, y>>] = Near(d, x, x, y) /\ metric[d][<<x, y>>] \in Nat
      BY <3>1, <3>2, ArcsAreNear DEF ArcIsNear
    <3>4. dd[x] \in Nat /\ dd[y] \in Nat
      BY <3>1, InfAssumption
    <3>5. dd[x] < Inf
      BY <3>2, <3>3, <3>4, InfAssumption
    <3>6. PICK s : Reaches(d, s, x, dd[x])
      BY <1>3, <3>1, <3>5
    <3>7. NearBy(d, x, x, y) /\ NearBy(d, input.n, s, x) /\ NearBy(d, input.n, s, y) /\ NearBy(d, input.n, x, y)
      BY <1>1, <3>1, <3>6, NearIsNear DEF Reaches
    <3>8. Shortest(d, s, y) <= Shortest(d, s, x) + Shortest(d, x, y)
      BY <1>1, <3>1, <3>6, NearIsNear DEF Reaches
    <3>9. Given(d, s) \in Nat
      BY <3>6, AskedIsInSpace DEF Reaches
    <3>10. /\ Shortest(d, s, y) \in Nat /\ Shortest(d, s, x) \in Nat /\ Shortest(d, x, y) \in Nat
           /\ Shortest(d, x, y) <= metric[d][<<x, y>>]
      BY <3>3, <3>7 DEF NearBy, Shortest
    <3>11. dd[x] >= Given(d, s) + Shortest(d, s, x)
      BY <3>6 DEF Reaches
    <3>12. dd[y] >= Given(d, s) + Shortest(d, s, y)
      BY <3>2, <3>3, <3>4, <3>8, <3>9, <3>10, <3>11
    <3>13. Shortest(d, s, y) < Inf
      BY <3>4, <3>9, <3>10, <3>12, InfAssumption
    <3> QED BY <3>6, <3>12, <3>13 DEF Reaches
  <2> QED BY <2>1, <2>2
<1> HIDE DEF H
<1>4. Nat \subseteq T
  <2>1. 0 \in T
    BY <1>2
  <2>2. \A k \in Nat : k \in T => k + 1 \in T
    BY <1>3
  <2> HIDE DEF T
  <2> QED BY <2>1, <2>2, InductionOnNat
<1> USE DEF H
<1> SUFFICES ASSUME NEW y \in Nodes, dd[y] < Inf PROVE \E s : Reaches(d, s, y, dd[y])
  OBVIOUS
<1>5. y + 1 \in Nat /\ y < y + 1
  BY <1>1
<1> QED BY <1>4, <1>5

(* The best pair, by what it is at most and what attains it.                *)
Starts(src) == DOMAIN src \subseteq Nodes /\ \A x \in DOMAIN src : src[x] \in Nat
PairWay(src, tgt, x, y) == src[x] + TrueDistance[<<Rank(x), Rank(y)>>] + tgt[y]
Linked(x, y) == TrueDistance[<<Rank(x), Rank(y)>>] < Inf
LEMMA BestWhen ==
  ASSUME input \in Inputs, order \in input.orders, weight \in input.weights, NEW src, NEW tgt, Starts(src), Starts(tgt),
         NEW v \in Nat, v <= Inf,
         \A x \in DOMAIN src, y \in DOMAIN tgt : Linked(x, y) => v <= PairWay(src, tgt, x, y),
         v = Inf \/ \E x \in DOMAIN src, y \in DOMAIN tgt : Linked(x, y) /\ v >= PairWay(src, tgt, x, y)
  PROVE  v = Best(src, tgt, TrueDistance)
<1> PICK pairs : pairs = {e \in (DOMAIN src) \X (DOMAIN tgt) : TrueDistance[<<Rank(e[1]), Rank(e[2])>>] < Inf}
  OBVIOUS
<1> PICK S : S = {Inf} \cup {src[e[1]] + TrueDistance[<<Rank(e[1]), Rank(e[2])>>] + tgt[e[2]] : e \in pairs}
  OBVIOUS
<1>1. Best(src, tgt, TrueDistance) = Min(S)
  BY DEF Best
<1>2. \A x \in DOMAIN src, y \in DOMAIN tgt : PairWay(src, tgt, x, y) \in Nat
  <2> SUFFICES ASSUME NEW x \in DOMAIN src, NEW y \in DOMAIN tgt PROVE PairWay(src, tgt, x, y) \in Nat
    OBVIOUS
  <2>1. Rank(x) \in Nodes /\ Rank(y) \in Nodes
    BY OrderAndRank DEF Starts
  <2>2. TrueDistance[<<Rank(x), Rank(y)>>] \in Nat
    <3>1. input.n \in Nat /\ Nodes = 0 .. input.n - 1 /\ Metric(input.n, TrueDistance)
      BY InputIsGraph, TablesAreMetrics
    <3> QED BY <2>1, <3>1 DEF Metric, Table, Between, Numbers
  <2> QED BY <2>2 DEF Starts, PairWay
<1>3. \A e \in pairs : e[1] \in DOMAIN src /\ e[2] \in DOMAIN tgt /\ Linked(e[1], e[2])
  BY DEF Linked
<1>4. \A x \in DOMAIN src, y \in DOMAIN tgt : Linked(x, y) => PairWay(src, tgt, x, y) \in S
  <2> SUFFICES ASSUME NEW x \in DOMAIN src, NEW y \in DOMAIN tgt, Linked(x, y) PROVE PairWay(src, tgt, x, y) \in S
    OBVIOUS
  <2> PICK e : e = <<x, y>>
    OBVIOUS
  <2>1. e \in pairs /\ e[1] = x /\ e[2] = y
    BY DEF Linked
  <2> QED BY <2>1 DEF PairWay
<1>5. \A u \in S : u = Inf \/ \E e \in pairs : u = PairWay(src, tgt, e[1], e[2])
  BY DEF PairWay
<1>6. S \in SUBSET Nat /\ Inf \in S
  <2> SUFFICES ASSUME NEW u \in S PROVE u \in Nat
    OBVIOUS
  <2>1. CASE u = Inf
    BY <2>1, InfAssumption
  <2>2. CASE u # Inf
    <3>1. PICK e \in pairs : u = PairWay(src, tgt, e[1], e[2])
      BY <1>5, <2>2
    <3> QED BY <1>2, <1>3, <3>1
  <2> QED BY <2>1, <2>2
<1>7. Min(S) \in S /\ \A u \in S : Min(S) <= u
  BY <1>6, MinIsLeast
<1>8. ASSUME NEW u \in S PROVE v <= u
  <2>1. CASE u = Inf
    BY <2>1
  <2>2. CASE u # Inf
    <3>1. PICK e \in pairs : u = PairWay(src, tgt, e[1], e[2])
      BY <1>5, <2>2
    <3> QED BY <1>3, <3>1
  <2> QED BY <2>1, <2>2
<1>9. v = Inf \/ \E u \in S : v >= u
  BY <1>4
<1>10. Min(S) \in Nat /\ v <= Min(S)
  BY <1>6, <1>7, <1>8
<1>11. Min(S) <= v
  <2>1. PICK u \in S : v >= u
    BY <1>6, <1>9
  <2>2. Min(S) <= u /\ u \in Nat
    BY <1>6, <1>7, <2>1
  <2> QED BY <1>10, <2>1, <2>2
<1> QED BY <1>1, <1>10, <1>11

(* Asked for is what the caller named. *)
LEMMA AskedByRank ==
  ASSUME Ready, NEW d \in Dirs, WalkOK(d), AskedOK(d)
  PROVE  /\ Starts(asked.src[d])
         /\ \A x \in DOMAIN asked.src[d] : Rank(x) \in Nodes /\ Asked(d, Rank(x)) /\ Given(d, Rank(x)) = asked.src[d][x]
         /\ \A s \in Nodes : Asked(d, s) =>
              order[s + 1] \in DOMAIN asked.src[d] /\ Rank(order[s + 1]) = s /\ Given(d, s) = asked.src[d][order[s + 1]]
<1>1. DOMAIN asked.src[d] \subseteq Nodes /\ \A x \in DOMAIN asked.src[d] : asked.src[d][x] \in Nat
  BY InfAssumption DEF AskedOK
<1>2. \A x \in Nodes : Rank(x) \in Nodes /\ order[Rank(x) + 1] = x
  BY OrderAndRank DEF Ready, GraphOK
<1>3. \A y \in Nodes : Rank(order[y + 1]) = y
  BY OrderAndRank DEF Ready, GraphOK
<1> QED BY <1>1, <1>2, <1>3 DEF Starts, Asked, Given

(* The distance of a run. *)
QuerySides == QueryTypeOK /\ \A d \in Dirs : WalkOK(d) /\ AskedOK(d) /\ LeadsDown(pred[d])
LEMMA DistanceIsBest ==
  ASSUME Ready, QuerySides, RunOK
  PROVE  GetDistance = Best(asked.src["f"], asked.src["b"], TrueDistance)
<1>1. input \in Inputs /\ weight \in input.weights /\ order \in input.orders /\ "f" \in Dirs /\ "b" \in Dirs
      /\ Opposite("f") = "b"
  BY DEF Ready, GraphOK, Dirs, Opposite
<1>2. \A d \in Dirs : /\ WalkOK(d) /\ AskedOK(d) /\ dist[d] \in [Nodes -> 0 .. Inf] /\ Settles(d, dist[d])
                      /\ Backed(d, dist[d], pred[d]) /\ pred[d] \in [Nodes -> Nodes \cup {NoId}]
                      /\ LeadsDown(pred[d])
  BY DEF QuerySides, RunOK, QueryTypeOK
<1>3. \A d \in Dirs : Tops(d, dist[d]) /\ \A s, y \in Nodes : Asked(d, s) /\ s <= y /\ Below(d, s, y) < Inf => y \in inSpace[d]
  BY <1>2, SettlesTops DEF QuerySides
<1>4. \A d \in Dirs : \A y \in Nodes : dist[d][y] < Inf => \E s : Reaches(d, s, y, dist[d][y])
  BY <1>2, BackedIsRealised DEF QuerySides
<1>5. \A d \in Dirs, y \in Nodes : dist[d][y] \in Nat /\ dist[d][y] <= Inf
  BY <1>2, InfAssumption
<1>6. \A x \in Nodes : Joined(x) \in Nat /\ Joined(x) = dist["f"][x] + dist["b"][x]
  BY <1>1, <1>5 DEF Joined
<1>7. inSpace["f"] \cap inSpace["b"] \subseteq Nodes
  BY <1>1 DEF QuerySides, QueryTypeOK
<1>8. meet # NoId => meet \in Nodes /\ Joined(meet) < Inf /\ \A x \in inSpace["f"] \cap inSpace["b"] : Joined(meet) <= Joined(x)
  BY <1>7 DEF RunOK, Met
<1>9. GetDistance \in Nat /\ GetDistance <= Inf
  BY <1>6, <1>8, InfAssumption DEF GetDistance
<1>10. \A d \in Dirs : Starts(asked.src[d])
  BY <1>2, AskedByRank
<1>11. ASSUME NEW x \in DOMAIN asked.src["f"], NEW y \in DOMAIN asked.src["b"], Linked(x, y)
       PROVE  GetDistance <= PairWay(asked.src["f"], asked.src["b"], x, y)
  <2> PICK s : s = Rank(x)
    OBVIOUS
  <2> PICK t : t = Rank(y)
    OBVIOUS
  <2>1. /\ s \in Nodes /\ Asked("f", s) /\ Given("f", s) = asked.src["f"][x]
        /\ t \in Nodes /\ Asked("b", t) /\ Given("b", t) = asked.src["b"][y]
    BY <1>1, <1>2, AskedByRank
  <2>2. TrueDistance[<<s, t>>] = Shortest("f", s, t)
    BY DEF Shortest, Near, Toward, TrueDistance
  <2>3. Shortest("f", s, t) < Inf
    BY <2>2, <1>11 DEF Linked
  <2>30. PICK z : Peak("f", s, t, z, Shortest("f", s, t))
    BY <1>1, <2>1, <2>3, HighestNode
  <2>4. z \in Nodes /\ s <= z /\ t <= z /\ Below("f", s, z) + Below("b", t, z) <= Shortest("f", s, t)
    BY <1>1, <2>30 DEF Peak
  <2>5. /\ Below("f", s, z) \in Nat /\ Below("b", t, z) \in Nat /\ Shortest("f", s, t) \in Nat
        /\ Given("f", s) \in Nat /\ Given("b", t) \in Nat
    BY <1>1, <1>2, <2>1, <2>4, BelowIsNear, AskedIsInSpace
  <2>6. Below("f", s, z) < Inf /\ Below("b", t, z) < Inf
    BY <2>3, <2>4, <2>5, InfAssumption
  <2>7. z \in inSpace["f"] /\ dist["f"][z] <= Given("f", s) + Below("f", s, z)
    BY <1>1, <1>3, <2>1, <2>4, <2>6 DEF Tops
  <2>8. z \in inSpace["b"] /\ dist["b"][z] <= Given("b", t) + Below("b", t, z)
    BY <1>1, <1>3, <2>1, <2>4, <2>6 DEF Tops
  <2>9. Joined(z) <= Given("f", s) + Shortest("f", s, t) + Given("b", t)
    BY <1>1, <1>5, <1>6, <2>4, <2>5, <2>7, <2>8
  <2>10. PairWay(asked.src["f"], asked.src["b"], x, y) = Given("f", s) + Shortest("f", s, t) + Given("b", t)
    BY <2>1, <2>2 DEF PairWay
  <2>11. CASE meet # NoId
    <3>1. GetDistance = Joined(meet) /\ Joined(meet) <= Joined(z) /\ meet \in Nodes
      BY <1>8, <2>7, <2>8, <2>11 DEF GetDistance, Joined
    <3> QED BY <1>6, <2>4, <2>5, <2>9, <2>10, <3>1
  <2>12. CASE meet = NoId
    <3>1. GetDistance = Inf /\ Joined(z) >= Inf
      BY <2>7, <2>8, <2>12 DEF GetDistance, RunOK, Met
    <3> QED BY <1>6, <2>4, <2>5, <2>9, <2>10, <3>1, InfAssumption
  <2> QED BY <2>11, <2>12
<1>12. GetDistance = Inf \/ \E x \in DOMAIN asked.src["f"], y \in DOMAIN asked.src["b"] :
                              Linked(x, y) /\ GetDistance >= PairWay(asked.src["f"], asked.src["b"], x, y)
  <2> SUFFICES ASSUME meet # NoId
               PROVE  \E x \in DOMAIN asked.src["f"], y \in DOMAIN asked.src["b"] :
                        Linked(x, y) /\ GetDistance >= PairWay(asked.src["f"], asked.src["b"], x, y)
    BY DEF GetDistance
  <2>1. meet \in Nodes /\ GetDistance = dist["f"][meet] + dist["b"][meet] /\ GetDistance < Inf
    BY <1>6, <1>8 DEF GetDistance, Joined
  <2>2. dist["f"][meet] \in Nat /\ dist["b"][meet] \in Nat
    BY <1>1, <1>5, <2>1
  <2>3. dist["f"][meet] < Inf /\ dist["b"][meet] < Inf
    BY <2>1, <2>2, InfAssumption
  <2>4. PICK s : Reaches("f", s, meet, dist["f"][meet])
    BY <1>1, <1>4, <2>1, <2>3
  <2>5. PICK t : Reaches("b", t, meet, dist["b"][meet])
    BY <1>1, <1>4, <2>1, <2>3
  <2>6. s \in Nodes /\ Asked("f", s) /\ t \in Nodes /\ Asked("b", t)
    BY <2>4, <2>5 DEF Reaches
  <2>7. Given("f", s) \in Nat /\ Given("b", t) \in Nat
    BY <1>1, <1>2, <2>6, AskedIsInSpace
  <2>8. Shortest("b", t, meet) = Shortest("f", meet, t) /\ Shortest("f", s, t) <= Shortest("f", s, meet) + Shortest("f", meet, t)
    <3>1. Shortest(Opposite("f"), t, meet) = Shortest("f", meet, t)
      BY <1>1, <2>1, <2>6, BelowIsNear
    <3>2. \A u, v, w \in Nodes : Shortest("f", u, w) <= Shortest("f", u, v) + Shortest("f", v, w)
      BY <1>1, NearIsNear
    <3> QED BY <1>1, <2>1, <2>6, <3>1, <3>2
  <2>9. Shortest("f", s, t) \in Nat /\ Shortest("f", s, meet) \in Nat /\ Shortest("f", meet, t) \in Nat
    BY <1>1, <2>1, <2>6, BelowIsNear
  <2>10. GetDistance >= Given("f", s) + Shortest("f", s, t) + Given("b", t)
    BY <2>1, <2>2, <2>4, <2>5, <2>7, <2>8, <2>9 DEF Reaches
  <2>11. Shortest("f", s, t) < Inf
    BY <1>9, <2>1, <2>7, <2>9, <2>10, InfAssumption
  <2> PICK x : x = order[s + 1]
    OBVIOUS
  <2> PICK y : y = order[t + 1]
    OBVIOUS
  <2>12. /\ x \in DOMAIN asked.src["f"] /\ Rank(x) = s /\ Given("f", s) = asked.src["f"][x]
         /\ y \in DOMAIN asked.src["b"] /\ Rank(y) = t /\ Given("b", t) = asked.src["b"][y]
    BY <1>1, <1>2, <2>6, AskedByRank
  <2>13. TrueDistance[<<s, t>>] = Shortest("f", s, t)
    BY DEF Shortest, Near, Toward, TrueDistance
  <2>14. Linked(x, y) /\ PairWay(asked.src["f"], asked.src["b"], x, y) = Given("f", s) + Shortest("f", s, t) + Given("b", t)
    BY <2>11, <2>12, <2>13 DEF Linked, PairWay
  <2> QED BY <2>10, <2>12, <2>14
<1>13. Starts(asked.src["f"]) /\ Starts(asked.src["b"])
  BY <1>1, <1>10
<1> QED BY <1>1, <1>9, <1>11, <1>12, <1>13, BestWhen

-----------------------------------------------------------------------------
(* The distances of a pinned run. *)
LEMMA PinnedDistance ==
  ASSUME Ready, QuerySides, NEW p \in Dirs, NEW d, d = Opposite(p), PinnedOK(d), NEW t \in inSpace[p]
  PROVE  /\ dist[d][t] \in Nat /\ dist[d][t] <= Inf
         /\ \A s \in Nodes : Asked(d, s) /\ Shortest(d, s, t) < Inf => dist[d][t] <= Given(d, s) + Shortest(d, s, t)
         /\ dist[d][t] = Inf \/ \E s : Reaches(d, s, t, dist[d][t])
<1>1. input \in Inputs /\ weight \in input.weights /\ d \in Dirs /\ p = Opposite(d) /\ input.n \in Nat /\ Nodes = 0 .. input.n - 1
  BY InputIsGraph DEF Ready, GraphOK, Dirs, Opposite
<1>2. /\ WalkOK(p) /\ WalkOK(d) /\ AskedOK(d) /\ dist[d] \in [Nodes -> 0 .. Inf] /\ inSpace[p] \in SUBSET Nodes
      /\ t \in Nodes
  BY <1>1, SpaceLeadsUp DEF QuerySides, QueryTypeOK
<1>3. \A y \in Nodes : dist[d][y] \in Nat /\ dist[d][y] <= Inf
  BY <1>2, InfAssumption
<1> PICK P : P = [y \in Nodes |-> -dist[d][y]]
  OBVIOUS
<1>4. \A y \in inSpace[p] : P[y] \in Int /\ P[y] = -dist[d][y]
  BY <1>2, <1>3
<1>5. Rises(p, inSpace[p], P)
  <2> SUFFICES ASSUME NEW x \in inSpace[p], NEW y \in Up(x) PROVE y \in inSpace[p] /\ P[y] <= P[x] + metric[p][<<x, y>>]
    BY DEF Rises
  <2>1. y \in inSpace[p] /\ x \in Nodes /\ y \in Nodes /\ <<x, y>> \in cch.up
    BY <1>2, SpaceLeadsUp DEF Up, QuerySides
  <2>2. dist[d][x] <= dist[d][y] + metric[p][<<x, y>>]
    BY <1>1 DEF PinnedOK
  <2>3. metric[p][<<x, y>>] \in Nat
    BY <2>1 DEF Ready, Metrics
  <2> QED BY <1>3, <1>4, <2>1, <2>2, <2>3
<1>6. \A k \in 0 .. input.n : \A x \in inSpace[p], y \in Nodes : x < k /\ k <= y => RisesTo(p, inSpace[p], P, k, x, y)
  BY <1>2, <1>4, <1>5, ClimbBound
<1>7. ASSUME NEW s \in Nodes, Asked(d, s), Shortest(d, s, t) < Inf PROVE dist[d][t] <= Given(d, s) + Shortest(d, s, t)
  <2>1. PICK z : Peak(d, s, t, z, Shortest(d, s, t))
    BY <1>1, <1>2, <1>7, HighestNode
  <2>2. z \in Nodes /\ s <= z /\ t <= z /\ Below(d, s, z) + Below(p, t, z) <= Shortest(d, s, t)
    BY <1>1, <2>1 DEF Peak
  <2>3. /\ Below(d, s, z) \in Nat /\ Below(p, t, z) \in Nat /\ Shortest(d, s, t) \in Nat /\ Given(d, s) \in Nat
        /\ Below(p, t, z) = Near(p, z, t, z) /\ Below(p, t, t) = 0
    BY <1>1, <1>2, <1>7, <2>2, BelowIsNear, AskedIsInSpace
  <2>4. Below(d, s, z) < Inf /\ Below(p, t, z) < Inf
    BY <1>7, <2>2, <2>3, InfAssumption
  <2>5. dist[d][z] <= Given(d, s) + Below(d, s, z)
    BY <1>7, <2>2, <2>4 DEF PinnedOK, Tops
  <2>6. dist[d][t] <= dist[d][z] + Below(p, t, z)
    <3>1. CASE t = z
      BY <1>3, <2>2, <2>3, <3>1
    <3>2. CASE t < z
      <4>1. RisesTo(p, inSpace[p], P, z, t, z)
        BY <1>1, <1>6, <2>2, <3>2
      <4>2. z \in inSpace[p] /\ P[z] <= P[t] + Below(p, t, z)
        BY <2>3, <2>4, <4>1 DEF RisesTo
      <4>3. P[z] = -dist[d][z] /\ P[t] = -dist[d][t] /\ dist[d][z] \in Nat /\ dist[d][t] \in Nat
        BY <1>2, <1>3, <1>4, <2>2, <4>2
      <4> QED BY <2>3, <4>2, <4>3
    <3> QED BY <1>1, <1>2, <2>2, <3>1, <3>2
  <2> QED BY <1>2, <1>3, <2>2, <2>3, <2>5, <2>6
<1>8. dist[d][t] = Inf \/ \E s : Reaches(d, s, t, dist[d][t])
  <2> SUFFICES ASSUME dist[d][t] < Inf PROVE \E s : Reaches(d, s, t, dist[d][t])
    BY <1>2, <1>3, InfAssumption
  <2>1. PICK s \in Nodes : Asked(d, s) /\ dist[d][t] >= Given(d, s) + Toward(d, TrueDistance, s, t) /\ Toward(d, TrueDistance, s, t) < Inf
    BY <1>2 DEF PinnedOK, Realised
  <2>2. Toward(d, TrueDistance, s, t) = Shortest(d, s, t)
    BY DEF Shortest, Near, TrueDistance
  <2> QED BY <2>1, <2>2 DEF Reaches
<1> QED BY <1>2, <1>3, <1>7, <1>8

Answered(p, i) ==
  LET pin == [x \in {asked.pins[i]} |-> 0]
      d == Opposite(p) IN
  dist[d][node[p][i]] = IF d = "f" THEN Best(asked.src["f"], pin, TrueDistance) ELSE Best(pin, asked.src["b"], TrueDistance)
LEMMA PinnedIsBest ==
  ASSUME Ready, QuerySides, NEW p \in Dirs, st = PinnedRun(p), PinnedOK(Opposite(p)), NEW i \in DOMAIN asked.pins
  PROVE  Answered(p, i)
<1> PICK d : d = Opposite(p)
  OBVIOUS
<1> PICK c : c = asked.pins[i]
  OBVIOUS
<1> PICK pin : pin = [x \in {c} |-> 0]
  OBVIOUS
<1> PICK t : t = Rank(c)
  OBVIOUS
<1>1. input \in Inputs /\ weight \in input.weights /\ order \in input.orders /\ d \in Dirs /\ p = Opposite(d)
  BY DEF Ready, GraphOK, Dirs, Opposite
<1>2. WalkOK(p) /\ WalkOK(d) /\ AskedOK(d) /\ AskedOK(p)
  BY <1>1 DEF QuerySides
<1>3. asked.pins \in Seq(Nodes) /\ node[p] = [j \in DOMAIN asked.pins |-> Rank(asked.pins[j])]
  BY <1>2 DEF AskedOK, Added, QuerySides, QueryTypeOK
<1>4. c \in Nodes /\ t \in Nodes /\ node[p][i] = t
  <2>1. c \in Nodes
    BY <1>3
  <2> QED BY <1>1, <1>3, <2>1, OrderAndRank
<1>5. t \in inSpace[p]
  <2>1. DOMAIN node[p] = DOMAIN asked.pins /\ node[p] \in Seq(inSpace[p])
    BY <1>2, <1>3 DEF WalkOK
  <2> QED BY <1>4, <2>1
<1>6. /\ dist[d][t] \in Nat /\ dist[d][t] <= Inf
      /\ \A s \in Nodes : Asked(d, s) /\ Shortest(d, s, t) < Inf => dist[d][t] <= Given(d, s) + Shortest(d, s, t)
      /\ dist[d][t] = Inf \/ \E s : Reaches(d, s, t, dist[d][t])
  BY <1>5, PinnedDistance
<1>7. /\ Starts(asked.src[d])
      /\ \A x \in DOMAIN asked.src[d] : Rank(x) \in Nodes /\ Asked(d, Rank(x)) /\ Given(d, Rank(x)) = asked.src[d][x]
      /\ \A s \in Nodes : Asked(d, s) =>
           order[s + 1] \in DOMAIN asked.src[d] /\ Rank(order[s + 1]) = s /\ Given(d, s) = asked.src[d][order[s + 1]]
  BY <1>1, <1>2, AskedByRank
<1>8. Starts(pin) /\ DOMAIN pin = {c} /\ pin[c] = 0
  BY <1>4 DEF Starts
<1>10. \A s \in Nodes : Shortest(d, s, t) = IF d = "f" THEN TrueDistance[<<s, t>>] ELSE TrueDistance[<<t, s>>]
  BY DEF Shortest, Near, Toward, TrueDistance
<1>11. \A s \in Nodes : Asked(d, s) => Given(d, s) \in Nat /\ Shortest(d, s, t) \in Nat
  BY <1>1, <1>2, <1>4, BelowIsNear, AskedIsInSpace
<1>12. \A x \in DOMAIN asked.src[d] : Shortest(d, Rank(x), t) < Inf => dist[d][t] <= asked.src[d][x] + Shortest(d, Rank(x), t)
  BY <1>6, <1>7
<1>13. dist[d][t] = Inf \/ \E x \in DOMAIN asked.src[d] :
         Shortest(d, Rank(x), t) < Inf /\ dist[d][t] >= asked.src[d][x] + Shortest(d, Rank(x), t)
  BY <1>6, <1>7 DEF Reaches
<1>14. \A x \in DOMAIN asked.src[d] : Rank(x) \in Nodes /\ asked.src[d][x] \in Nat /\ Shortest(d, Rank(x), t) \in Nat
  BY <1>7, <1>11
<1>15. CASE d = "f"
  <2>1. \A x \in DOMAIN asked.src[d] : /\ Linked(x, c) <=> Shortest(d, Rank(x), t) < Inf
                                       /\ PairWay(asked.src[d], pin, x, c) = asked.src[d][x] + Shortest(d, Rank(x), t)
    BY <1>8, <1>10, <1>14, <1>15 DEF Linked, PairWay
  <2>2. \A x \in DOMAIN asked.src[d], y \in DOMAIN pin : Linked(x, y) => dist[d][t] <= PairWay(asked.src[d], pin, x, y)
    BY <1>8, <1>12, <2>1
  <2>3. dist[d][t] = Inf \/ \E x \in DOMAIN asked.src[d], y \in DOMAIN pin : Linked(x, y) /\ dist[d][t] >= PairWay(asked.src[d], pin, x, y)
    BY <1>8, <1>13, <2>1
  <2>4. dist[d][t] = Best(asked.src[d], pin, TrueDistance)
    BY <1>1, <1>6, <1>7, <1>8, <2>2, <2>3, BestWhen
  <2> QED BY <1>4, <1>15, <2>4 DEF Answered
<1>16. CASE d = "b"
  <2>1. \A x \in DOMAIN asked.src[d] : /\ Linked(c, x) <=> Shortest(d, Rank(x), t) < Inf
                                       /\ PairWay(pin, asked.src[d], c, x) = asked.src[d][x] + Shortest(d, Rank(x), t)
    BY <1>8, <1>10, <1>14, <1>16 DEF Linked, PairWay
  <2>2. \A x \in DOMAIN pin, y \in DOMAIN asked.src[d] : Linked(x, y) => dist[d][t] <= PairWay(pin, asked.src[d], x, y)
    BY <1>8, <1>12, <2>1
  <2>3. dist[d][t] = Inf \/ \E x \in DOMAIN pin, y \in DOMAIN asked.src[d] : Linked(x, y) /\ dist[d][t] >= PairWay(pin, asked.src[d], x, y)
    BY <1>8, <1>13, <2>1
  <2>4. dist[d][t] = Best(pin, asked.src[d], TrueDistance)
    BY <1>1, <1>6, <1>7, <1>8, <2>2, <2>3, BestWhen
  <2> QED BY <1>4, <1>16, <2>4 DEF Answered
<1> QED BY <1>1, <1>15, <1>16 DEF Dirs

(* A loop that turns one value of V into the next.                          *)
Steps(n, V, step) == \A i \in 1 .. n : \A v \in V : step[i][v] \in V
Loops(n, V, s, step, S) == S \in [0 .. n -> V] /\ S[0] = s /\ \A i \in 1 .. n : S[i] = step[i][S[i - 1]]
LEMMA LoopExists ==
  ASSUME NEW V, NEW s \in V, NEW n \in Nat, NEW step, Steps(n, V, step)
  PROVE  \E S : Loops(n, V, s, step, S)
<1> DEFINE Upto(S, k) == S \in [0 .. n -> V] /\ S[0] = s /\ \A i \in 1 .. k : S[i] = step[i][S[i - 1]]
           T == {k \in Nat : k <= n => \E S : Upto(S, k)}
<1>1. 0 \in T
  <2>1. [i \in 0 .. n |-> s] \in [0 .. n -> V]
    OBVIOUS
  <2>2. [i \in 0 .. n |-> s][0] = s
    OBVIOUS
  <2>3. \A S : S \in [0 .. n -> V] /\ S[0] = s => Upto(S, 0)
    OBVIOUS
  <2> QED BY <2>1, <2>2, <2>3
<1>2. ASSUME NEW k \in Nat, k \in T PROVE k + 1 \in T
  <2> SUFFICES ASSUME k + 1 <= n PROVE \E S : Upto(S, k + 1)
    OBVIOUS
  <2>1. PICK S : Upto(S, k)
    BY <1>2
  <2> PICK l : l = k + 1
    OBVIOUS
  <2>2. l \in 1 .. n /\ l - 1 \in 0 .. n /\ l - 1 = k /\ S[l - 1] \in V
    BY <2>1
  <2> PICK v : v = step[l][S[l - 1]]
    OBVIOUS
  <2>3. v \in V
    BY <2>2 DEF Steps
  <2> PICK R : R = [i \in 0 .. n |-> IF i = l THEN v ELSE S[i]]
    OBVIOUS
  <2>4. R \in [0 .. n -> V]
    <3>1. \A i \in 0 .. n : (IF i = l THEN v ELSE S[i]) \in V
      BY <2>1, <2>3
    <3> QED BY <3>1
  <2>5. R[0] = s
    BY <2>1, <2>2
  <2>6. \A i \in 1 .. l : R[i] = step[i][R[i - 1]]
    <3> SUFFICES ASSUME NEW i \in 1 .. l PROVE R[i] = step[i][R[i - 1]]
      OBVIOUS
    <3>1. i \in 0 .. n /\ i - 1 \in 0 .. n /\ i - 1 # l
      BY <2>2
    <3>2. R[i - 1] = S[i - 1]
      BY <3>1
    <3>3. CASE i = l
      BY <3>1, <3>2, <3>3
    <3>4. CASE i # l
      <4>1. i \in 1 .. k
        BY <3>4
      <4>2. S[i] = step[i][S[i - 1]]
        BY <2>1, <4>1
      <4> QED BY <3>1, <3>2, <3>4, <4>2
    <3> QED BY <3>3, <3>4
  <2>7. \A i \in 1 .. k + 1 : R[i] = step[i][R[i - 1]]
    BY <2>6
  <2> QED BY <2>4, <2>5, <2>7
<1> HIDE DEF T
<1>3. n \in T
  BY <1>1, <1>2, InductionOnNat
<1>4. \E S : Upto(S, n)
  BY <1>3 DEF T
<1> QED BY <1>4 DEF Loops

(* One node of the way up.                                                  *)
Tentative == [Nodes -> 0 .. Inf]
Preds == [Nodes -> Stations]
Relaxes(dd, pp, w, x, rd, rp) ==
  /\ rd \in Tentative /\ rp \in Preds
  /\ \A y \in Nodes : IF y \in Up(x) /\ dd[x] + w[<<x, y>>] < dd[y] THEN rd[y] = dd[x] + w[<<x, y>>] /\ rp[y] = x
                                                                   ELSE rd[y] = dd[y] /\ rp[y] = pp[y]
Reshaped(s, r) == r = [s EXCEPT !.dist = r.dist, !.pred = r.pred]
HasFields(s) == "dist" \in DOMAIN s /\ "pred" \in DOMAIN s /\ s.dist \in Tentative /\ s.pred \in Preds
LEMMA Outgoing ==
  ASSUME input \in Inputs, NEW w, w \in [cch.up -> Nat], NEW x \in Nodes, NEW s, HasFields(s)
  PROVE  /\ Relaxes(s.dist, s.pred, w, x, RelaxOutgoing(s, w, x).dist, RelaxOutgoing(s, w, x).pred)
         /\ Reshaped(s, RelaxOutgoing(s, w, x))
<1>0. "dist" \in DOMAIN s /\ "pred" \in DOMAIN s /\ s.dist \in Tentative /\ s.pred \in Preds
  BY DEF HasFields
<1> DEFINE better == {y \in Up(x) : s.dist[x] + w[<<x, y>>] < s.dist[y]}
           rd == [y \in Nodes |-> IF y \in better THEN s.dist[x] + w[<<x, y>>] ELSE s.dist[y]]
           rp == [y \in Nodes |-> IF y \in better THEN x ELSE s.pred[y]]
<1> PICK r : r = RelaxOutgoing(s, w, x)
  OBVIOUS
<1>1. r = [s EXCEPT !.dist = rd, !.pred = rp]
  BY DEF RelaxOutgoing
<1>2. \A y \in Nodes : (IF y \in better THEN s.dist[x] + w[<<x, y>>] ELSE s.dist[y]) \in 0 .. Inf
  <2> SUFFICES ASSUME NEW y \in Nodes PROVE (IF y \in better THEN s.dist[x] + w[<<x, y>>] ELSE s.dist[y]) \in 0 .. Inf
    OBVIOUS
  <2>1. s.dist[x] \in 0 .. Inf /\ s.dist[y] \in 0 .. Inf
    BY <1>0 DEF Tentative
  <2>2. y \in Up(x) => w[<<x, y>>] \in Nat
    BY DEF Up
  <2> QED BY <2>1, <2>2, InfAssumption
<1>3. rd \in Tentative
  BY <1>2 DEF Tentative
<1>4. rp \in Preds
  <2>1. \A y \in Nodes : (IF y \in better THEN x ELSE s.pred[y]) \in Stations
    BY <1>0 DEF Preds, Stations
  <2> QED BY <2>1 DEF Preds
<1>5. \A y \in Nodes : IF y \in Up(x) /\ s.dist[x] + w[<<x, y>>] < s.dist[y] THEN rd[y] = s.dist[x] + w[<<x, y>>] /\ rp[y] = x
                                                                            ELSE rd[y] = s.dist[y] /\ rp[y] = s.pred[y]
  OBVIOUS
<1>6. Relaxes(s.dist, s.pred, w, x, rd, rp)
  BY <1>3, <1>4, <1>5 DEF Relaxes
<1> HIDE DEF rd, rp
<1>7. r.dist = rd /\ r.pred = rp
  BY <1>0, <1>1
<1>8. Reshaped(s, r)
  BY <1>1, <1>7 DEF Reshaped
<1> QED BY <1>6, <1>7, <1>8

(* The nodes of a side the way up has passed.                               *)
AllRelaxed(d, dd, P) == \A x \in P : \A y \in Up(x) : dd[y] <= dd[x] + metric[d][<<x, y>>]
Climbed(d, dd, pp, P) ==
  /\ dd \in Tentative /\ pp \in Preds /\ LeadsDown(pp)
  /\ \A y \in Nodes : Asked(d, y) => dd[y] <= Given(d, y)
  /\ AllRelaxed(d, dd, P)
  /\ \A y \in Nodes : dd[y] < Inf =>
       /\ y \in inSpace[d]
       /\ IF pp[y] = NoId THEN Asked(d, y) /\ dd[y] = Given(d, y)
          ELSE pp[y] \in P /\ <<pp[y], y>> \in cch.up /\ dd[y] = dd[pp[y]] + metric[d][<<pp[y], y>>]
LEMMA ClimbBegins ==
  ASSUME Ready, QueryTypeOK, NEW d \in Dirs, WalkOK(d), AskedOK(d), AtStart(d), LeadsDown(pred[d])
  PROVE  Climbed(d, dist[d], pred[d], {})
<1>1. dist[d] \in Tentative /\ pred[d] \in Preds
  BY DEF QueryTypeOK, Tentative, Preds, Stations
<1>2. \A y \in Nodes : dist[d][y] = Given(d, y) /\ dist[d][y] \in 0 .. Inf /\ (Asked(d, y) => pred[d][y] = NoId /\ y \in inSpace[d])
  BY <1>1, AskedIsInSpace DEF AtStart, Tentative
<1>3. \A y \in Nodes : dist[d][y] < Inf => Asked(d, y)
  BY <1>2, InfAssumption DEF Given
<1>4. \A y \in Nodes : Asked(d, y) => dist[d][y] <= Given(d, y)
  BY <1>2, InfAssumption
<1> QED BY <1>1, <1>2, <1>3, <1>4 DEF Climbed, AllRelaxed

LEMMA ClimbStep ==
  ASSUME Ready, QueryTypeOK, NEW d \in Dirs, WalkOK(d), AskedOK(d), NEW dd, NEW pp, NEW P \in SUBSET inSpace[d], Climbed(d, dd, pp, P),
         NEW x \in inSpace[d], x \notin P, P \cap Up(x) = {}, NEW rd, NEW rp, Relaxes(dd, pp, metric[d], x, rd, rp)
  PROVE  Climbed(d, rd, rp, P \cup {x}) /\ \A y \in P \cup {x} : rd[y] = dd[y]
<1>1. /\ inSpace[d] \in SUBSET Nodes /\ Up(x) \subseteq inSpace[d] /\ x \in Nodes
  BY SpaceLeadsUp
<1>2. \A y \in Up(x) : y \in Nodes /\ x < y /\ metric[d][<<x, y>>] \in Nat /\ <<x, y>> \in cch.up
  BY DEF Ready, GraphOK, Up, Pairs, Metrics
<1>3. x \notin Up(x) /\ x \in Nat
  <2>1. input \in Inputs
    BY DEF Ready, GraphOK
  <2>2. x \in Nat
    BY <1>1, <2>1, NodesAreNumbers
  <2>3. x \in Up(x) => x < x
    BY <1>2
  <2> QED BY <2>2, <2>3
<1>4. /\ rd \in Tentative /\ rp \in Preds /\ dd \in Tentative /\ pp \in Preds
      /\ \A y \in Nodes : dd[y] \in 0 .. Inf /\ rd[y] \in 0 .. Inf
  BY DEF Relaxes, Climbed, Tentative
<1>5. \A y \in Nodes : \/ y \in Up(x) /\ rd[y] = dd[x] + metric[d][<<x, y>>] /\ rd[y] < dd[y] /\ rp[y] = x
                       \/ rd[y] = dd[y] /\ rp[y] = pp[y]
  BY DEF Relaxes
<1>6. \A y \in Nodes : rd[y] <= dd[y] /\ (y \notin Up(x) => rd[y] = dd[y] /\ rp[y] = pp[y])
  <2> SUFFICES ASSUME NEW y \in Nodes PROVE rd[y] <= dd[y] /\ (y \notin Up(x) => rd[y] = dd[y] /\ rp[y] = pp[y])
    OBVIOUS
  <2>1. rd[y] \in Int /\ dd[y] \in Int
    BY <1>4
  <2>2. CASE y \in Up(x) /\ rd[y] < dd[y]
    BY <2>1, <2>2
  <2>3. CASE rd[y] = dd[y] /\ rp[y] = pp[y]
    BY <2>1, <2>3
  <2> QED BY <1>5, <2>2, <2>3
<1>7. \A y \in P \cup {x} : y \in Nodes /\ rd[y] = dd[y]
  BY <1>1, <1>3, <1>6
<1>8. LeadsDown(rp)
  <2>1. LeadsDown(pp)
    BY DEF Climbed
  <2> QED BY <1>2, <1>5, <2>1 DEF LeadsDown
<1>9. \A y \in Nodes : Asked(d, y) => rd[y] <= Given(d, y)
  <2>1. \A y \in Nodes : Asked(d, y) => dd[y] <= Given(d, y) /\ Given(d, y) \in Nat
    BY AskedIsInSpace DEF Climbed
  <2> QED BY <1>4, <1>6, <2>1, InfAssumption
<1>10. AllRelaxed(d, rd, P \cup {x})
  <2> SUFFICES ASSUME NEW z \in P \cup {x}, NEW y \in Up(z) PROVE rd[y] <= rd[z] + metric[d][<<z, y>>]
    BY DEF AllRelaxed
  <2>1. y \in Nodes /\ z \in Nodes /\ rd[z] = dd[z] /\ metric[d][<<z, y>>] \in Nat
    BY <1>7 DEF Ready, GraphOK, Up, Pairs, Metrics
  <2>2. CASE z \in P
    <3>1. dd[y] <= dd[z] + metric[d][<<z, y>>]
      BY <2>2 DEF Climbed, AllRelaxed
    <3> QED BY <1>4, <1>6, <2>1, <3>1, InfAssumption
  <2>3. CASE z = x
    <3>1. dd[x] + metric[d][<<x, y>>] < dd[y] \/ dd[y] <= dd[x] + metric[d][<<x, y>>]
      BY <1>4, <2>1, <2>3, InfAssumption
    <3>2. CASE dd[x] + metric[d][<<x, y>>] < dd[y]
      BY <1>4, <2>1, <2>3, <3>2, InfAssumption DEF Relaxes
    <3>3. CASE dd[y] <= dd[x] + metric[d][<<x, y>>]
      BY <1>4, <1>6, <2>1, <2>3, <3>3, InfAssumption
    <3> QED BY <3>1, <3>2, <3>3
  <2> QED BY <2>2, <2>3
<1>11. ASSUME NEW y \in Nodes, rd[y] < Inf
       PROVE  /\ y \in inSpace[d]
              /\ IF rp[y] = NoId THEN Asked(d, y) /\ rd[y] = Given(d, y)
                 ELSE rp[y] \in P \cup {x} /\ <<rp[y], y>> \in cch.up /\ rd[y] = rd[rp[y]] + metric[d][<<rp[y], y>>]
  <2>1. CASE y \in Up(x) /\ rd[y] = dd[x] + metric[d][<<x, y>>] /\ rp[y] = x
    <3>1. x # NoId
      BY <1>3, NoIdAssumption
    <3> QED BY <1>1, <1>2, <1>7, <2>1, <3>1
  <2>2. CASE rd[y] = dd[y] /\ rp[y] = pp[y]
    <3>1. /\ y \in inSpace[d]
          /\ IF pp[y] = NoId THEN Asked(d, y) /\ dd[y] = Given(d, y)
             ELSE pp[y] \in P /\ <<pp[y], y>> \in cch.up /\ dd[y] = dd[pp[y]] + metric[d][<<pp[y], y>>]
      BY <1>11, <2>2 DEF Climbed
    <3> QED BY <1>7, <2>2, <3>1
  <2> QED BY <1>5, <2>1, <2>2
<1>12. Climbed(d, rd, rp, P \cup {x})
  BY <1>4, <1>8, <1>9, <1>10, <1>11 DEF Climbed
<1> QED BY <1>7, <1>12

LEMMA ClimbEnds ==
  ASSUME NEW d \in Dirs, NEW dd, NEW pp, Climbed(d, dd, pp, inSpace[d])
  PROVE  dd \in Tentative /\ pp \in Preds /\ LeadsDown(pp) /\ Settles(d, dd) /\ Backed(d, dd, pp)
BY DEF Climbed, AllRelaxed, Settles, Backed

ClimbStates == [dist : Tentative, pred : Preds]
MeetStates == [dist : Tentative, pred : Preds, len : 0 .. Inf, meet : Stations]
LEMMA RelaxedStates ==
  ASSUME input \in Inputs, NEW w, w \in [cch.up -> Nat], NEW x \in Nodes
  PROVE  /\ \A v \in ClimbStates : RelaxOutgoing(v, w, x) \in ClimbStates
         /\ \A v \in MeetStates : RelaxOutgoing(v, w, x) \in MeetStates
                                   /\ RelaxOutgoing(v, w, x).len = v.len /\ RelaxOutgoing(v, w, x).meet = v.meet
         /\ \A v \in ClimbStates \cup MeetStates : Relaxes(v.dist, v.pred, w, x, RelaxOutgoing(v, w, x).dist, RelaxOutgoing(v, w, x).pred)
<1>1. \A v \in ClimbStates \cup MeetStates : HasFields(v)
  BY DEF ClimbStates, MeetStates, HasFields
<1>2. \A v \in ClimbStates \cup MeetStates :
        /\ Relaxes(v.dist, v.pred, w, x, RelaxOutgoing(v, w, x).dist, RelaxOutgoing(v, w, x).pred)
        /\ Reshaped(v, RelaxOutgoing(v, w, x))
  BY <1>1, Outgoing
<1>3. \A v \in ClimbStates \cup MeetStates : RelaxOutgoing(v, w, x).dist \in Tentative /\ RelaxOutgoing(v, w, x).pred \in Preds
  BY <1>2 DEF Relaxes
<1>4. ASSUME NEW v \in ClimbStates PROVE RelaxOutgoing(v, w, x) \in ClimbStates
  <2> PICK r : r = RelaxOutgoing(v, w, x)
    OBVIOUS
  <2>1. r = [v EXCEPT !.dist = r.dist, !.pred = r.pred]
    BY <1>2 DEF Reshaped
  <2>2. r.dist \in Tentative /\ r.pred \in Preds
    BY <1>3
  <2> QED BY <2>1, <2>2 DEF ClimbStates
<1>5. ASSUME NEW v \in MeetStates
      PROVE  RelaxOutgoing(v, w, x) \in MeetStates /\ RelaxOutgoing(v, w, x).len = v.len /\ RelaxOutgoing(v, w, x).meet = v.meet
  <2> PICK r : r = RelaxOutgoing(v, w, x)
    OBVIOUS
  <2>1. r = [v EXCEPT !.dist = r.dist, !.pred = r.pred]
    BY <1>2 DEF Reshaped
  <2>2. r.dist \in Tentative /\ r.pred \in Preds
    BY <1>3
  <2> QED BY <2>1, <2>2 DEF MeetStates
<1> QED BY <1>2, <1>4, <1>5

(* The way up node by node.                                                 *)
Rungs(walk, w, s, S) ==
  /\ S[0] = s /\ Climb(walk, w, s) = S[Len(walk)]
  /\ \A i \in 0 .. Len(walk) : S[i] \in ClimbStates
  /\ \A i \in 1 .. Len(walk) : S[i] = RelaxOutgoing(S[i - 1], w, walk[i])
ClimbSteps(walk, w) == [i \in 1 .. Len(walk) |-> [v \in ClimbStates |-> RelaxOutgoing(v, w, walk[i])]]
ClimbBy(S, walk, w, s) == S = [i \in 0 .. Len(walk) |-> IF i = 0 THEN s ELSE RelaxOutgoing(S[i - 1], w, walk[i])]
LEMMA ClimbSteady ==
  ASSUME input \in Inputs, NEW w, w \in [cch.up -> Nat], NEW walk \in Seq(Nodes)
  PROVE  /\ Steps(Len(walk), ClimbStates, ClimbSteps(walk, w))
         /\ \A i \in 1 .. Len(walk), v \in ClimbStates : ClimbSteps(walk, w)[i][v] = RelaxOutgoing(v, w, walk[i])
<1>1. \A i \in 1 .. Len(walk), v \in ClimbStates : ClimbSteps(walk, w)[i][v] = RelaxOutgoing(v, w, walk[i])
  BY DEF ClimbSteps
<1>2. \A i \in 1 .. Len(walk) : walk[i] \in Nodes
  OBVIOUS
<1>3. \A i \in 1 .. Len(walk), v \in ClimbStates : RelaxOutgoing(v, w, walk[i]) \in ClimbStates
  BY <1>2, RelaxedStates
<1> QED BY <1>1, <1>3 DEF Steps
LEMMA ClimbHasRungs ==
  ASSUME input \in Inputs, NEW w, w \in [cch.up -> Nat], NEW walk \in Seq(Nodes), NEW s \in ClimbStates
  PROVE  \E S : Rungs(walk, w, s, S)
<1> PICK n : n = Len(walk)
  OBVIOUS
<1>0. n \in Nat
  OBVIOUS
<1>1. PICK L : Loops(n, ClimbStates, s, ClimbSteps(walk, w), L)
  <2>1. Steps(n, ClimbStates, ClimbSteps(walk, w))
    BY ClimbSteady
  <2> QED BY <1>0, <2>1, LoopExists
<1>2. L \in [0 .. n -> ClimbStates] /\ L[0] = s /\ \A i \in 1 .. n : L[i] = ClimbSteps(walk, w)[i][L[i - 1]]
  BY <1>1 DEF Loops
<1>3. \A i \in 1 .. n : i - 1 \in 0 .. n
  BY <1>0
<1>4. \A i \in 1 .. n : L[i] = RelaxOutgoing(L[i - 1], w, walk[i])
  <2>1. \A i \in 1 .. n : L[i - 1] \in ClimbStates
    BY <1>2, <1>3
  <2> QED BY <1>2, <2>1, ClimbSteady
<1>5. ClimbBy(L, walk, w, s)
  <2>1. L = [i \in 0 .. n |-> L[i]]
    BY <1>2
  <2>2. \A i \in 0 .. n : L[i] = IF i = 0 THEN s ELSE RelaxOutgoing(L[i - 1], w, walk[i])
    BY <1>0, <1>2, <1>4
  <2> QED BY <2>1, <2>2 DEF ClimbBy
<1> PICK S : S = CHOOSE B : ClimbBy(B, walk, w, s)
  OBVIOUS
<1>6. ClimbBy(S, walk, w, s)
  BY <1>5
<1>7. Climb(walk, w, s) = S[n]
  BY DEF Climb, ClimbBy
<1>8. \A i \in 0 .. n : S[i] = IF i = 0 THEN s ELSE RelaxOutgoing(S[i - 1], w, walk[i])
  BY <1>6 DEF ClimbBy
<1>9. S[0] = s /\ \A i \in 1 .. n : S[i] = RelaxOutgoing(S[i - 1], w, walk[i])
  <2>1. 0 \in 0 .. n /\ \A i \in 1 .. n : i \in 0 .. n /\ i # 0
    BY <1>0
  <2> QED BY <1>8, <2>1
<1> DEFINE T == {k \in Nat : k <= n => S[k] \in ClimbStates}
<1>10. 0 \in T
  BY <1>9
<1>11. ASSUME NEW k \in Nat, k \in T PROVE k + 1 \in T
  <2> SUFFICES ASSUME k + 1 <= n PROVE S[k + 1] \in ClimbStates
    OBVIOUS
  <2> PICK l : l = k + 1
    OBVIOUS
  <2>1. l \in 1 .. n /\ l - 1 = k /\ S[k] \in ClimbStates
    BY <1>0, <1>11
  <2>2. S[l] = RelaxOutgoing(S[k], w, walk[l]) /\ walk[l] \in Nodes
    BY <1>9, <2>1
  <2> QED BY <2>1, <2>2, RelaxedStates
<1> HIDE DEF T
<1>12. Nat \subseteq T
  BY <1>10, <1>11, InductionOnNat
<1>13. \A i \in 0 .. n : S[i] \in ClimbStates
  <2>1. \A i \in 0 .. n : i \in Nat /\ i <= n
    BY <1>0
  <2> QED BY <1>12, <2>1 DEF T
<1> QED BY <1>7, <1>9, <1>13 DEF Rungs

(* The nodes of a walk seen so far.                                         *)
Prefix(walk, i) == {walk[j] : j \in 1 .. i}
LEMMA PrefixGrows ==
  ASSUME NEW S, NEW walk, GoodWalk(walk, S)
  PROVE  /\ Prefix(walk, 0) = {} /\ Prefix(walk, Len(walk)) = S
         /\ \A i \in 1 .. Len(walk) :
              /\ Prefix(walk, i) = Prefix(walk, i - 1) \cup {walk[i]} /\ Prefix(walk, i - 1) \subseteq S /\ walk[i] \in S
              /\ walk[i] \notin Prefix(walk, i - 1) /\ Prefix(walk, i - 1) \cap Up(walk[i]) = {}
<1>1. walk \in Seq(Nodes) /\ Range(walk) = S /\ Len(walk) \in Nat /\ DOMAIN walk = 1 .. Len(walk)
  BY DEF GoodWalk
<1>2. \A i \in DOMAIN walk : walk[i] \in S
  BY <1>1 DEF Range
<1>3. Prefix(walk, 0) = {} /\ Prefix(walk, Len(walk)) = S
  BY <1>1 DEF Prefix, Range
<1>4. ASSUME NEW i \in 1 .. Len(walk)
      PROVE  /\ Prefix(walk, i) = Prefix(walk, i - 1) \cup {walk[i]} /\ Prefix(walk, i - 1) \subseteq S /\ walk[i] \in S
             /\ walk[i] \notin Prefix(walk, i - 1) /\ Prefix(walk, i - 1) \cap Up(walk[i]) = {}
  <2>1. \A j \in 1 .. i : j = i \/ j \in 1 .. i - 1
    BY <1>1
  <2>2. \A j \in 1 .. i - 1 : j \in 1 .. i /\ j \in DOMAIN walk /\ j < i
    BY <1>1
  <2>3. i \in 1 .. i /\ i \in DOMAIN walk
    BY <1>1
  <2>4. Prefix(walk, i) = Prefix(walk, i - 1) \cup {walk[i]}
    BY <2>1, <2>2, <2>3 DEF Prefix
  <2>5. \A j \in 1 .. i - 1 : walk[j] # walk[i] /\ walk[j] \notin Up(walk[i]) /\ walk[j] \in S
    BY <1>2, <2>2, <2>3 DEF GoodWalk, Orderly
  <2> QED BY <1>2, <2>3, <2>4, <2>5 DEF Prefix
<1> QED BY <1>3, <1>4

LEMMA SpaceIsWalked ==
  ASSUME QueryTypeOK, NEW d \in Dirs, WalkOK(d)
  PROVE  GoodWalk(Walked(d), inSpace[d])
BY DEF WalkOK, GoodWalk

LEMMA ClimbSettles ==
  ASSUME Ready, QueryTypeOK, NEW d \in Dirs, WalkOK(d), AskedOK(d), AtStart(d), LeadsDown(pred[d]), NEW r,
         r = Climb(Walked(d), metric[d], [dist |-> dist[d], pred |-> pred[d]])
  PROVE  Climbed(d, r.dist, r.pred, inSpace[d])
<1> PICK walk : walk = Walked(d)
  OBVIOUS
<1> PICK s : s = [dist |-> dist[d], pred |-> pred[d]]
  OBVIOUS
<1>1. input \in Inputs /\ metric[d] \in [cch.up -> Nat]
  BY DEF Ready, GraphOK, Metrics
<1>2. Climbed(d, s.dist, s.pred, {}) /\ s \in ClimbStates
  BY ClimbBegins DEF Climbed, ClimbStates
<1>3. GoodWalk(walk, inSpace[d]) /\ walk \in Seq(Nodes) /\ Len(walk) \in Nat
  BY SpaceIsWalked DEF GoodWalk
<1>4. PICK S : Rungs(walk, metric[d], s, S)
  BY <1>1, <1>2, <1>3, ClimbHasRungs
<1> DEFINE T == {k \in Nat : k <= Len(walk) => Climbed(d, S[k].dist, S[k].pred, Prefix(walk, k))}
<1>5. 0 \in T
  BY <1>2, <1>3, <1>4, PrefixGrows DEF Rungs
<1>6. ASSUME NEW k \in Nat, k \in T PROVE k + 1 \in T
  <2> SUFFICES ASSUME k + 1 <= Len(walk) PROVE Climbed(d, S[k + 1].dist, S[k + 1].pred, Prefix(walk, k + 1))
    OBVIOUS
  <2> PICK l : l = k + 1
    OBVIOUS
  <2>1. l \in 1 .. Len(walk) /\ l - 1 = k /\ l - 1 \in 0 .. Len(walk) /\ Climbed(d, S[k].dist, S[k].pred, Prefix(walk, k))
    BY <1>3, <1>6
  <2> PICK P : P = Prefix(walk, k)
    OBVIOUS
  <2> PICK x : x = walk[l]
    OBVIOUS
  <2> PICK v : v = S[k]
    OBVIOUS
  <2> PICK u : u = S[l]
    OBVIOUS
  <2>2. /\ Prefix(walk, l) = P \cup {x} /\ P \in SUBSET inSpace[d] /\ x \in inSpace[d]
        /\ x \notin P /\ P \cap Up(x) = {}
    BY <1>3, <2>1, PrefixGrows
  <2>3. u = RelaxOutgoing(v, metric[d], x) /\ v \in ClimbStates
    BY <1>4, <2>1 DEF Rungs
  <2>4. x \in Nodes
    BY <2>2, SpaceLeadsUp
  <2>5. Relaxes(v.dist, v.pred, metric[d], x, u.dist, u.pred)
    BY <1>1, <2>3, <2>4, RelaxedStates
  <2>6. Climbed(d, v.dist, v.pred, P)
    BY <2>1
  <2>7. Climbed(d, u.dist, u.pred, P \cup {x})
    BY <2>2, <2>5, <2>6, ClimbStep
  <2> QED BY <2>2, <2>7
<1> HIDE DEF T
<1>7. Len(walk) \in T
  BY <1>3, <1>5, <1>6, InductionOnNat
<1>8. Climbed(d, S[Len(walk)].dist, S[Len(walk)].pred, Prefix(walk, Len(walk)))
  BY <1>3, <1>7 DEF T
<1>9. r = S[Len(walk)] /\ Prefix(walk, Len(walk)) = inSpace[d]
  BY <1>3, <1>4, PrefixGrows DEF Rungs
<1> QED BY <1>8, <1>9

(* The second sweep looks at every node for a better meeting point.         *)
Meet(v, w, forward, x) == Meeting(RelaxOutgoing(v, w, x), forward, x)
MetOver(P, forward, v) ==
  IF v.meet = NoId THEN v.len = Inf /\ \A x \in P \cap inSpace["f"] : forward[x] + v.dist[x] >= Inf
  ELSE /\ v.meet \in P \cap inSpace["f"] /\ v.len = forward[v.meet] + v.dist[v.meet] /\ v.len < Inf
       /\ \A x \in P \cap inSpace["f"] : v.len <= forward[x] + v.dist[x]
Meets(v, w, forward, x, r) ==
  /\ r \in MeetStates /\ Relaxes(v.dist, v.pred, w, x, r.dist, r.pred)
  /\ IF x \in inSpace["f"] /\ forward[x] + r.dist[x] < v.len THEN r.len = forward[x] + r.dist[x] /\ r.meet = x
                                                               ELSE r.len = v.len /\ r.meet = v.meet
LEMMA MeetStep ==
  ASSUME input \in Inputs, NEW w, w \in [cch.up -> Nat], NEW x \in Nodes, NEW v \in MeetStates, NEW forward \in Tentative
  PROVE  Meets(v, w, forward, x, Meet(v, w, forward, x))
<1> PICK r : r = Meet(v, w, forward, x)
  OBVIOUS
<1> PICK u : u = RelaxOutgoing(v, w, x)
  OBVIOUS
<1>1. u \in MeetStates /\ u.len = v.len /\ u.meet = v.meet /\ Relaxes(v.dist, v.pred, w, x, u.dist, u.pred)
  BY RelaxedStates
<1> PICK l : l = forward[x] + u.dist[x]
  OBVIOUS
<1>2. r = IF x \in inSpace["f"] /\ l < u.len THEN [u EXCEPT !.len = l, !.meet = x] ELSE u
  BY DEF Meet, Meeting
<1>3. l \in Nat /\ u.len \in 0 .. Inf
  <2>1. forward[x] \in 0 .. Inf
    BY DEF Tentative
  <2>2. u.dist[x] \in 0 .. Inf /\ u.len \in 0 .. Inf
    BY <1>1 DEF MeetStates, Tentative
  <2> QED BY <2>1, <2>2, InfAssumption
<1>4. CASE x \in inSpace["f"] /\ l < u.len
  <2>1. l \in 0 .. Inf /\ x \in Stations
    BY <1>3, <1>4, InfAssumption DEF Stations
  <2>2. r = [u EXCEPT !.len = l, !.meet = x]
    BY <1>2, <1>4
  <2>3. r \in MeetStates /\ r.dist = u.dist /\ r.pred = u.pred /\ r.len = l /\ r.meet = x
    BY <1>1, <2>1, <2>2 DEF MeetStates
  <2> QED BY <1>1, <1>4, <2>3 DEF Meets
<1>5. CASE ~(x \in inSpace["f"] /\ l < u.len)
  <2>1. r = u
    BY <1>2, <1>5
  <2> QED BY <1>1, <1>5, <2>1 DEF Meets
<1> QED BY <1>4, <1>5

LEMMA MetOverGrows ==
  ASSUME Ready, NEW P \in SUBSET Nodes, NEW x \in Nodes, x \notin Up(x), P \cap Up(x) = {}, NEW forward \in Tentative,
         NEW v \in MeetStates, MetOver(P, forward, v), NEW r, Meets(v, metric["b"], forward, x, r)
  PROVE  MetOver(P \cup {x}, forward, r)
<1> DEFINE both == P \cap inSpace["f"]
           more == (P \cup {x}) \cap inSpace["f"]
<1>0. /\ r \in MeetStates /\ Relaxes(v.dist, v.pred, metric["b"], x, r.dist, r.pred)
      /\ IF x \in inSpace["f"] /\ forward[x] + r.dist[x] < v.len THEN r.len = forward[x] + r.dist[x] /\ r.meet = x
                                                                   ELSE r.len = v.len /\ r.meet = v.meet
  BY DEF Meets
<1>1. \A y \in P \cup {x} : y \in Nodes /\ r.dist[y] = v.dist[y] /\ forward[y] + r.dist[y] \in Nat
  <2> SUFFICES ASSUME NEW y \in P \cup {x} PROVE y \in Nodes /\ r.dist[y] = v.dist[y] /\ forward[y] + r.dist[y] \in Nat
    OBVIOUS
  <2>1. y \in Nodes /\ y \notin Up(x)
    OBVIOUS
  <2>2. r.dist[y] = v.dist[y]
    BY <1>0, <2>1 DEF Relaxes
  <2>3. forward[y] \in 0 .. Inf /\ r.dist[y] \in 0 .. Inf
    BY <1>0, <2>1 DEF Tentative, Relaxes
  <2> QED BY <2>1, <2>2, <2>3, InfAssumption
<1>2. v.len \in 0 .. Inf /\ r.len \in 0 .. Inf
  BY <1>0 DEF MeetStates
<1>3. x # NoId
  <2>1. input \in Inputs
    BY DEF Ready, GraphOK
  <2> QED BY <2>1, NodesAreNumbers, NoIdAssumption
<1> PICK l : l = forward[x] + r.dist[x]
  OBVIOUS
<1>4. l \in Nat
  BY <1>1
<1>5. \A y \in more : y = x \/ y \in both
  OBVIOUS
<1>6. CASE x \in inSpace["f"] /\ l < v.len
  <2>1. r.len = l /\ r.meet = x /\ r.len < Inf /\ x \in more
    BY <1>0, <1>2, <1>4, <1>6, InfAssumption
  <2>2. \A y \in both : v.len <= forward[y] + r.dist[y]
    <3>1. CASE v.meet = NoId
      BY <1>1, <3>1 DEF MetOver
    <3>2. CASE v.meet # NoId
      BY <1>1, <3>2 DEF MetOver
    <3> QED BY <3>1, <3>2
  <2>3. \A y \in more : l <= forward[y] + r.dist[y]
    <3> SUFFICES ASSUME NEW y \in more PROVE l <= forward[y] + r.dist[y]
      OBVIOUS
    <3>1. forward[y] + r.dist[y] \in Nat
      BY <1>1
    <3>2. CASE y = x
      BY <1>4, <3>2
    <3>3. CASE y \in both
      BY <1>2, <1>4, <1>6, <2>2, <3>1, <3>3, InfAssumption
    <3> QED BY <3>2, <3>3
  <2> QED BY <1>3, <2>1, <2>3 DEF MetOver
<1>7. CASE ~(x \in inSpace["f"] /\ l < v.len)
  <2>1. r.len = v.len /\ r.meet = v.meet
    BY <1>0, <1>7
  <2>2. x \in more => v.len <= l
    BY <1>2, <1>4, <1>7, InfAssumption
  <2>3. CASE v.meet = NoId
    <3>1. v.len = Inf /\ \A y \in both : forward[y] + v.dist[y] >= Inf
      BY <2>3 DEF MetOver
    <3>2. \A y \in more : forward[y] + r.dist[y] >= Inf
      <4> SUFFICES ASSUME NEW y \in more PROVE forward[y] + r.dist[y] >= Inf
        OBVIOUS
      <4>1. CASE y = x
        BY <1>4, <2>2, <3>1, <4>1, InfAssumption
      <4>2. CASE y \in both
        BY <1>1, <3>1, <4>2
      <4> QED BY <4>1, <4>2
    <3> QED BY <2>1, <2>3, <3>1, <3>2 DEF MetOver
  <2>4. CASE v.meet # NoId
    <3>1. /\ v.meet \in both /\ v.len = forward[v.meet] + v.dist[v.meet] /\ v.len < Inf
          /\ \A y \in both : v.len <= forward[y] + v.dist[y]
      BY <2>4 DEF MetOver
    <3>2. \A y \in more : v.len <= forward[y] + r.dist[y]
      <4> SUFFICES ASSUME NEW y \in more PROVE v.len <= forward[y] + r.dist[y]
        OBVIOUS
      <4>1. CASE y = x
        BY <2>2, <4>1
      <4>2. CASE y \in both
        BY <1>1, <3>1, <4>2
      <4> QED BY <4>1, <4>2
    <3>3. v.meet \in more /\ r.dist[v.meet] = v.dist[v.meet]
      BY <1>1, <3>1
    <3> QED BY <2>1, <2>4, <3>1, <3>2, <3>3 DEF MetOver
  <2> QED BY <2>3, <2>4
<1> QED BY <1>6, <1>7

MeetRungs(walk, w, s, forward, S) ==
  /\ S[0] = s /\ ClimbAndMeet(walk, w, s, forward) = S[Len(walk)]
  /\ \A i \in 0 .. Len(walk) : S[i] \in MeetStates
  /\ \A i \in 1 .. Len(walk) : S[i] = Meet(S[i - 1], w, forward, walk[i])
MeetSteps(walk, w, forward) == [i \in 1 .. Len(walk) |-> [v \in MeetStates |-> Meet(v, w, forward, walk[i])]]
MeetBy(S, walk, w, s, forward) == S = [i \in 0 .. Len(walk) |-> IF i = 0 THEN s ELSE Meet(S[i - 1], w, forward, walk[i])]
LEMMA MeetSteady ==
  ASSUME input \in Inputs, NEW w, w \in [cch.up -> Nat], NEW walk \in Seq(Nodes), NEW forward \in Tentative
  PROVE  /\ Steps(Len(walk), MeetStates, MeetSteps(walk, w, forward))
         /\ \A i \in 1 .. Len(walk), v \in MeetStates : MeetSteps(walk, w, forward)[i][v] = Meet(v, w, forward, walk[i])
<1>1. \A i \in 1 .. Len(walk), v \in MeetStates : MeetSteps(walk, w, forward)[i][v] = Meet(v, w, forward, walk[i])
  BY DEF MeetSteps
<1>2. \A i \in 1 .. Len(walk) : walk[i] \in Nodes
  OBVIOUS
<1>3. \A i \in 1 .. Len(walk), v \in MeetStates : Meet(v, w, forward, walk[i]) \in MeetStates
  BY <1>2, MeetStep DEF Meets
<1> QED BY <1>1, <1>3 DEF Steps
LEMMA MeetHasRungs ==
  ASSUME input \in Inputs, NEW w, w \in [cch.up -> Nat], NEW walk \in Seq(Nodes), NEW s \in MeetStates, NEW forward \in Tentative
  PROVE  \E S : MeetRungs(walk, w, s, forward, S)
<1> PICK n : n = Len(walk)
  OBVIOUS
<1>0. n \in Nat
  OBVIOUS
<1>1. PICK L : Loops(n, MeetStates, s, MeetSteps(walk, w, forward), L)
  <2>1. Steps(n, MeetStates, MeetSteps(walk, w, forward))
    BY MeetSteady
  <2> QED BY <1>0, <2>1, LoopExists
<1>2. L \in [0 .. n -> MeetStates] /\ L[0] = s /\ \A i \in 1 .. n : L[i] = MeetSteps(walk, w, forward)[i][L[i - 1]]
  BY <1>1 DEF Loops
<1>3. \A i \in 1 .. n : i - 1 \in 0 .. n
  BY <1>0
<1>4. \A i \in 1 .. n : L[i] = Meet(L[i - 1], w, forward, walk[i])
  <2> SUFFICES ASSUME NEW i \in 1 .. n PROVE L[i] = Meet(L[i - 1], w, forward, walk[i])
    OBVIOUS
  <2>1. i \in 1 .. Len(walk) /\ L[i - 1] \in MeetStates
    BY <1>2, <1>3
  <2>2. MeetSteps(walk, w, forward)[i][L[i - 1]] = Meet(L[i - 1], w, forward, walk[i])
    BY <2>1, MeetSteady
  <2> QED BY <1>2, <2>2
<1>5. MeetBy(L, walk, w, s, forward)
  <2>1. L = [i \in 0 .. n |-> L[i]]
    BY <1>2
  <2>2. \A i \in 0 .. n : L[i] = IF i = 0 THEN s ELSE Meet(L[i - 1], w, forward, walk[i])
    BY <1>0, <1>2, <1>4
  <2> QED BY <2>1, <2>2 DEF MeetBy
<1> PICK S : S = CHOOSE B : MeetBy(B, walk, w, s, forward)
  OBVIOUS
<1>6. MeetBy(S, walk, w, s, forward)
  BY <1>5
<1>7. ClimbAndMeet(walk, w, s, forward) = S[n]
  BY DEF ClimbAndMeet, MeetBy, Meet
<1>8. \A i \in 0 .. n : S[i] = IF i = 0 THEN s ELSE Meet(S[i - 1], w, forward, walk[i])
  BY <1>6 DEF MeetBy
<1>9. S[0] = s /\ \A i \in 1 .. n : S[i] = Meet(S[i - 1], w, forward, walk[i])
  <2>1. 0 \in 0 .. n /\ \A i \in 1 .. n : i \in 0 .. n /\ i # 0
    BY <1>0
  <2> QED BY <1>8, <2>1
<1> DEFINE T == {k \in Nat : k <= n => S[k] \in MeetStates}
<1>10. 0 \in T
  BY <1>9
<1>11. ASSUME NEW k \in Nat, k \in T PROVE k + 1 \in T
  <2> SUFFICES ASSUME k + 1 <= n PROVE S[k + 1] \in MeetStates
    OBVIOUS
  <2> PICK l : l = k + 1
    OBVIOUS
  <2>1. l \in 1 .. n /\ l - 1 = k /\ S[k] \in MeetStates
    BY <1>0, <1>11
  <2>0. walk[l] \in Nodes
    BY <2>1
  <2>2. S[l] = Meet(S[k], w, forward, walk[l]) /\ walk[l] \in Nodes
    <3>1. S[l] = Meet(S[l - 1], w, forward, walk[l])
      BY <1>9, <2>1
    <3> QED BY <2>0, <2>1, <3>1
  <2>3. Meets(S[k], w, forward, walk[l], S[l])
    BY <2>1, <2>2, MeetStep
  <2> QED BY <2>3 DEF Meets
<1> HIDE DEF T
<1>12. Nat \subseteq T
  BY <1>10, <1>11, InductionOnNat
<1>13. \A i \in 0 .. n : S[i] \in MeetStates
  <2>1. \A i \in 0 .. n : i \in Nat /\ i <= n
    BY <1>0
  <2> QED BY <1>12, <2>1 DEF T
<1> QED BY <1>7, <1>9, <1>13 DEF MeetRungs

LEMMA ClimbMeets ==
  ASSUME Ready, QueryTypeOK, WalkOK("b"), AskedOK("b"), AtStart("b"), LeadsDown(pred["b"]), NEW forward \in Tentative, NEW r,
         r = ClimbAndMeet(Walked("b"), metric["b"], [dist |-> dist["b"], pred |-> pred["b"], len |-> Inf, meet |-> NoId], forward)
  PROVE  Climbed("b", r.dist, r.pred, inSpace["b"]) /\ MetOver(inSpace["b"], forward, r) /\ r \in MeetStates
<1> PICK d : d = "b"
  OBVIOUS
<1> PICK walk : walk = Walked(d)
  OBVIOUS
<1> PICK s : s = [dist |-> dist[d], pred |-> pred[d], len |-> Inf, meet |-> NoId]
  OBVIOUS
<1>0. d \in Dirs /\ WalkOK(d) /\ AskedOK(d) /\ AtStart(d) /\ LeadsDown(pred[d])
  BY DEF Dirs
<1>1. input \in Inputs /\ metric[d] \in [cch.up -> Nat]
  BY <1>0 DEF Ready, GraphOK, Metrics
<1>2. Climbed(d, s.dist, s.pred, {}) /\ s \in MeetStates
  <2>1. Climbed(d, dist[d], pred[d], {})
    BY <1>0, ClimbBegins
  <2>2. Inf \in 0 .. Inf /\ NoId \in Stations
    BY InfAssumption DEF Stations
  <2> QED BY <2>1, <2>2 DEF Climbed, MeetStates
<1>3. GoodWalk(walk, inSpace[d]) /\ walk \in Seq(Nodes) /\ Len(walk) \in Nat
  BY <1>0, SpaceIsWalked DEF GoodWalk
<1>4. PICK S : MeetRungs(walk, metric[d], s, forward, S)
  BY <1>1, <1>2, <1>3, MeetHasRungs
<1> DEFINE Fine(k) == Climbed(d, S[k].dist, S[k].pred, Prefix(walk, k)) /\ MetOver(Prefix(walk, k), forward, S[k])
           T == {k \in Nat : k <= Len(walk) => Fine(k)}
<1>5. 0 \in T
  <2>1. S[0] = s /\ Prefix(walk, 0) = {}
    BY <1>3, <1>4, PrefixGrows DEF MeetRungs
  <2>2. MetOver({}, forward, s)
    BY DEF MetOver
  <2> QED BY <1>2, <2>1, <2>2
<1>6. ASSUME NEW k \in Nat, k \in T PROVE k + 1 \in T
  <2> SUFFICES ASSUME k + 1 <= Len(walk) PROVE Fine(k + 1)
    OBVIOUS
  <2> PICK l : l = k + 1
    OBVIOUS
  <2>1. l \in 1 .. Len(walk) /\ l - 1 = k /\ l - 1 \in 0 .. Len(walk) /\ Fine(k)
    BY <1>3, <1>6
  <2> PICK P : P = Prefix(walk, k)
    OBVIOUS
  <2> PICK x : x = walk[l]
    OBVIOUS
  <2> PICK v : v = S[k]
    OBVIOUS
  <2> PICK u : u = S[l]
    OBVIOUS
  <2>2. /\ Prefix(walk, l) = P \cup {x} /\ P \in SUBSET inSpace[d] /\ x \in inSpace[d]
        /\ x \notin P /\ P \cap Up(x) = {}
    BY <1>3, <2>1, PrefixGrows
  <2>3. u = Meet(v, metric[d], forward, x) /\ v \in MeetStates
    BY <1>4, <2>1 DEF MeetRungs
  <2>4. x \in Nodes /\ P \in SUBSET Nodes
    BY <1>0, <2>2, SpaceLeadsUp
  <2>5. Meets(v, metric[d], forward, x, u) /\ Relaxes(v.dist, v.pred, metric[d], x, u.dist, u.pred)
    BY <1>1, <2>3, <2>4, MeetStep DEF Meets
  <2>6. Climbed(d, v.dist, v.pred, P) /\ MetOver(P, forward, v)
    BY <2>1
  <2>7. Climbed(d, u.dist, u.pred, P \cup {x})
    BY <1>0, <2>2, <2>5, <2>6, ClimbStep
  <2>8. x \notin Up(x)
    <3>1. \A y \in Up(x) : x < y
      BY DEF Ready, GraphOK, Up, Pairs
    <3> QED BY <1>1, <2>4, <3>1, NodesAreNumbers
  <2>9. MetOver(P \cup {x}, forward, u)
    BY <2>2, <2>3, <2>4, <2>5, <2>6, <2>8, MetOverGrows
  <2> QED BY <2>2, <2>7, <2>9
<1> HIDE DEF T
<1>7. Len(walk) \in T
  BY <1>3, <1>5, <1>6, InductionOnNat
<1>8. Fine(Len(walk))
  BY <1>3, <1>7 DEF T
<1>9. r = S[Len(walk)] /\ Prefix(walk, Len(walk)) = inSpace[d] /\ S[Len(walk)] \in MeetStates
  <2>1. Prefix(walk, Len(walk)) = inSpace[d] /\ Len(walk) \in 0 .. Len(walk)
    BY <1>3, PrefixGrows
  <2>2. r = ClimbAndMeet(walk, metric[d], s, forward)
    OBVIOUS
  <2> QED BY <1>4, <2>1, <2>2 DEF MeetRungs
<1> QED BY <1>8, <1>9

(* One node of the way down.                                                *)
Incomes(dd, w, x, rd) ==
  /\ rd \in Tentative /\ rd[x] <= dd[x] /\ \A y \in Nodes \ {x} : rd[y] = dd[y]
  /\ \A y \in Up(x) : rd[x] <= dd[y] + w[<<x, y>>]
  /\ rd[x] = dd[x] \/ \E y \in Up(x) : rd[x] = dd[y] + w[<<x, y>>]
LEMMA Incoming ==
  ASSUME input \in Inputs, NEW w, w \in [cch.up -> Nat], NEW x \in Nodes, NEW dd \in Tentative
  PROVE  Incomes(dd, w, x, RelaxIncomingFrom(dd, w, x))
<1> PICK V : V = {dd[x]} \cup {dd[y] + w[<<x, y>>] : y \in Up(x)}
  OBVIOUS
<1> PICK rd : rd = RelaxIncomingFrom(dd, w, x)
  OBVIOUS
<1>1. \A y \in Nodes : dd[y] \in 0 .. Inf /\ dd[y] \in Nat
  BY InfAssumption DEF Tentative
<1>2. \A y \in Up(x) : y \in Nodes /\ w[<<x, y>>] \in Nat
  BY DEF Up
<1>3. \A v \in V : v \in Nat
  <2> SUFFICES ASSUME NEW v \in V, v # dd[x] PROVE v \in Nat
    BY <1>1
  <2>1. PICK y \in Up(x) : v = dd[y] + w[<<x, y>>]
    OBVIOUS
  <2> QED BY <1>1, <1>2, <2>1
<1>4. Min(V) \in V /\ \A v \in V : Min(V) <= v
  <2>1. V \in SUBSET Nat /\ V # {}
    BY <1>3
  <2> QED BY <2>1, MinIsLeast
<1>5. rd = [dd EXCEPT ![x] = Min(V)]
  BY DEF RelaxIncomingFrom
<1>6. dd[x] \in V /\ \A y \in Up(x) : dd[y] + w[<<x, y>>] \in V
  OBVIOUS
<1>7. Min(V) \in 0 .. Inf
  <2> PICK least : least = Min(V)
    OBVIOUS
  <2>1. least \in Nat /\ least <= dd[x]
    BY <1>3, <1>4, <1>6
  <2> QED BY <1>1, <2>1, InfAssumption
<1>8. rd \in Tentative /\ rd[x] = Min(V) /\ \A y \in Nodes \ {x} : rd[y] = dd[y]
  BY <1>5, <1>7 DEF Tentative
<1>9. Min(V) = dd[x] \/ \E y \in Up(x) : Min(V) = dd[y] + w[<<x, y>>]
  BY <1>4
<1> QED BY <1>4, <1>6, <1>8, <1>9 DEF Incomes

LEMMA ShortLeadsOn ==
  ASSUME Ready, NEW d \in Dirs, NEW s \in Nodes, NEW x \in Nodes, NEW y \in Nodes, <<x, y>> \in cch.up, Shortest(d, s, y) < Inf,
         NEW far \in Nat, NEW total \in Nat, total < Inf, NEW base \in Nat,
         far >= base + Shortest(d, s, y), total = far + metric[Opposite(d)][<<x, y>>]
  PROVE  total >= base + Shortest(d, s, x) /\ Shortest(d, s, x) < Inf
<1>1. input \in Inputs /\ weight \in input.weights /\ x < y /\ Opposite(d) \in Dirs
  BY DEF Ready, GraphOK, Pairs, Dirs, Opposite
<1>2. metric[Opposite(d)][<<x, y>>] = Near(Opposite(d), x, x, y) /\ metric[Opposite(d)][<<x, y>>] \in Nat
  BY <1>1, ArcsAreNear DEF ArcIsNear
<1>3. Shortest(Opposite(d), x, y) <= Near(Opposite(d), x, x, y)
  <2>1. x \in 0 .. input.n
    BY <1>1, NodesAreNumbers DEF Nodes
  <2>2. NearBy(Opposite(d), x, x, y)
    BY <1>1, <2>1, NearIsNear
  <2> QED BY <2>2 DEF NearBy, Shortest
<1>4. Shortest(Opposite(d), x, y) = Shortest(d, y, x) /\ Shortest(d, s, x) \in Nat /\ Shortest(d, s, y) \in Nat /\ Shortest(d, y, x) \in Nat
  BY <1>1, BelowIsNear
<1>5. Shortest(d, s, x) <= Shortest(d, s, y) + Shortest(d, y, x)
  BY <1>1, NearIsNear
<1> QED BY <1>2, <1>3, <1>4, <1>5, InfAssumption

(* The nodes of the pinned side the way down has passed.                    *)
Descended(d, dd, Q) ==
  /\ dd \in Tentative /\ Tops(d, dd) /\ (\A y \in Nodes : dd[y] < Inf => \E s : Reaches(d, s, y, dd[y]))
  /\ \A x \in Q : \A y \in Up(x) : dd[x] <= dd[y] + metric[Opposite(d)][<<x, y>>]
  /\ \A y \in Nodes \ (inSpace["f"] \cup inSpace["b"]) : dd[y] = Inf
LEMMA DescendBegins ==
  ASSUME Ready, QueryTypeOK, NEW d \in Dirs, WalkOK(d), AskedOK(d), NEW dd, NEW pp, Climbed(d, dd, pp, inSpace[d])
  PROVE  Descended(d, dd, {})
<1>1. dd \in Tentative /\ pp \in Preds /\ LeadsDown(pp) /\ Settles(d, dd) /\ Backed(d, dd, pp)
  BY ClimbEnds
<1>2. dd \in [Nodes -> 0 .. Inf] /\ pp \in [Nodes -> Nodes \cup {NoId}]
  BY <1>1 DEF Tentative, Preds, Stations
<1>3. Tops(d, dd)
  BY <1>1, <1>2, SettlesTops
<1>4. \A y \in Nodes : dd[y] < Inf => \E s : Reaches(d, s, y, dd[y])
  BY <1>1, <1>2, BackedIsRealised
<1>5. \A y \in Nodes \ (inSpace["f"] \cup inSpace["b"]) : dd[y] = Inf
  <2>1. d = "f" \/ d = "b"
    BY DEF Dirs
  <2>2. \A y \in Nodes : dd[y] < Inf => y \in inSpace[d]
    BY <1>1 DEF Backed
  <2>3. \A y \in Nodes : dd[y] \in 0 .. Inf
    BY <1>2
  <2>4. \A y \in Nodes : dd[y] < Inf \/ dd[y] = Inf
    BY <2>3, InfAssumption
  <2> QED BY <2>1, <2>2, <2>4
<1> QED BY <1>1, <1>3, <1>4, <1>5 DEF Descended

LEMMA DescendStep ==
  ASSUME Ready, QueryTypeOK, NEW d \in Dirs, WalkOK(Opposite(d)), WalkOK(d), AskedOK(d), NEW dd, NEW Q \in SUBSET Nodes, Descended(d, dd, Q),
         NEW x \in inSpace[Opposite(d)], \A z \in Q : x \notin Up(z) /\ x # z, NEW rd, Incomes(dd, metric[Opposite(d)], x, rd)
  PROVE  Descended(d, rd, Q \cup {x})
<1> PICK p : p = Opposite(d)
  OBVIOUS
<1>1. p \in Dirs /\ x \in Nodes /\ (p = "f" \/ p = "b")
  BY SpaceLeadsUp DEF Opposite, Dirs
<1>2. \A z \in Nodes : \A y \in Up(z) : y \in Nodes /\ z < y /\ metric[p][<<z, y>>] \in Nat /\ <<z, y>> \in cch.up
  BY <1>1 DEF Ready, GraphOK, Up, Pairs, Metrics
<1>3. x \notin Up(x)
  <2>1. x \in Nat
    BY <1>1, NodesAreNumbers DEF Ready, GraphOK
  <2>2. x \in Up(x) => x < x
    BY <1>1, <1>2
  <2> QED BY <2>1, <2>2
<1>4. /\ dd \in Tentative /\ rd \in Tentative /\ rd[x] <= dd[x] /\ \A y \in Nodes \ {x} : rd[y] = dd[y]
  BY DEF Descended, Incomes
<1>5. \A y \in Nodes : rd[y] \in Nat /\ dd[y] \in Nat /\ rd[y] <= Inf /\ dd[y] <= Inf
  BY <1>4, InfAssumption DEF Tentative
<1>6. \A y \in Nodes : rd[y] <= dd[y]
  BY <1>4, <1>5
<1>7. Tops(d, rd)
  <2> SUFFICES ASSUME NEW s \in Nodes, NEW y \in Nodes, Asked(d, s), s <= y, Below(d, s, y) < Inf
               PROVE  rd[y] <= Given(d, s) + Below(d, s, y)
    BY DEF Tops
  <2>1. dd[y] <= Given(d, s) + Below(d, s, y)
    BY DEF Descended, Tops
  <2>2. Given(d, s) \in Nat
    BY AskedIsInSpace
  <2>3. Below(d, s, y) \in Nat
    BY BelowIsNear DEF Ready, GraphOK
  <2> QED BY <1>5, <1>6, <2>1, <2>2, <2>3
<1>8. ASSUME NEW y \in Nodes, rd[y] < Inf PROVE \E s : Reaches(d, s, y, rd[y])
  <2>1. CASE rd[y] = dd[y]
    BY <1>8, <2>1 DEF Descended
  <2>2. CASE rd[y] # dd[y]
    <3>1. y = x
      BY <1>4, <2>2
    <3>2. PICK z \in Up(x) : rd[x] = dd[z] + metric[p][<<x, z>>]
      BY <2>2, <3>1 DEF Incomes
    <3>3. z \in Nodes /\ metric[p][<<x, z>>] \in Nat /\ <<x, z>> \in cch.up
      BY <1>1, <1>2
    <3>4. dd[z] < Inf
      BY <1>5, <1>8, <3>1, <3>2, <3>3, InfAssumption
    <3>5. PICK s : Reaches(d, s, z, dd[z])
      BY <3>3, <3>4 DEF Descended
    <3>6. s \in Nodes /\ Asked(d, s) /\ dd[z] >= Given(d, s) + Shortest(d, s, z) /\ Shortest(d, s, z) < Inf
      BY <3>5 DEF Reaches
    <3>7. Given(d, s) \in Nat
      BY <3>6, AskedIsInSpace
    <3>8. rd[x] >= Given(d, s) + Shortest(d, s, x) /\ Shortest(d, s, x) < Inf
      <4> PICK far : far = dd[z]
        OBVIOUS
      <4> PICK total : total = rd[x]
        OBVIOUS
      <4> PICK base : base = Given(d, s)
        OBVIOUS
      <4>1. far \in Nat /\ total \in Nat /\ base \in Nat /\ total < Inf
        BY <1>1, <1>5, <1>8, <3>1, <3>3, <3>7
      <4>2. far >= base + Shortest(d, s, z) /\ total = far + metric[Opposite(d)][<<x, z>>] /\ Shortest(d, s, z) < Inf
        BY <3>2, <3>6
      <4>3. total >= base + Shortest(d, s, x) /\ Shortest(d, s, x) < Inf
        BY <1>1, <3>3, <3>6, <4>1, <4>2, ShortLeadsOn
      <4> QED BY <4>3
    <3> QED BY <3>1, <3>6, <3>8 DEF Reaches
  <2> QED BY <2>1, <2>2
<1>9. ASSUME NEW z \in Q \cup {x}, NEW y \in Up(z) PROVE rd[z] <= rd[y] + metric[p][<<z, y>>]
  <2>1. z \in Nodes /\ y \in Nodes
    BY <1>1, <1>2
  <2>2. CASE z = x
    <3>1. rd[y] = dd[y]
      BY <1>3, <1>4, <1>9, <2>1, <2>2
    <3> QED BY <2>2, <3>1 DEF Incomes
  <2>3. CASE z # x
    <3>1. z \in Q /\ y # x /\ rd[y] = dd[y] /\ rd[z] = dd[z]
      BY <1>4, <1>9, <2>1, <2>3
    <3> QED BY <3>1 DEF Descended
  <2> QED BY <2>2, <2>3
<1>10. ASSUME NEW y \in Nodes \ (inSpace["f"] \cup inSpace["b"]) PROVE rd[y] = Inf
  <2>1. y # x
    BY <1>1
  <2> QED BY <1>4, <2>1 DEF Descended
<1> QED BY <1>4, <1>7, <1>8, <1>9, <1>10 DEF Descended

DescendRungs(walk, w, dd, S) ==
  /\ S[0] = dd /\ Descend(walk, w, dd) = S[Len(walk)]
  /\ \A i \in 0 .. Len(walk) : S[i] \in Tentative
  /\ \A i \in 1 .. Len(walk) : S[i] = RelaxIncomingFrom(S[i - 1], w, walk[Len(walk) + 1 - i])
DescendSteps(walk, w) == [i \in 1 .. Len(walk) |-> [v \in Tentative |-> RelaxIncomingFrom(v, w, walk[Len(walk) + 1 - i])]]
DescendBy(S, walk, w, dd) ==
  S = [i \in 0 .. Len(walk) |-> IF i = 0 THEN dd ELSE RelaxIncomingFrom(S[i - 1], w, walk[Len(walk) + 1 - i])]
LEMMA DescendSteady ==
  ASSUME input \in Inputs, NEW w, w \in [cch.up -> Nat], NEW walk \in Seq(Nodes)
  PROVE  /\ Steps(Len(walk), Tentative, DescendSteps(walk, w))
         /\ \A i \in 1 .. Len(walk), v \in Tentative :
              DescendSteps(walk, w)[i][v] = RelaxIncomingFrom(v, w, walk[Len(walk) + 1 - i]) /\ walk[Len(walk) + 1 - i] \in Nodes
<1>1. \A i \in 1 .. Len(walk), v \in Tentative : DescendSteps(walk, w)[i][v] = RelaxIncomingFrom(v, w, walk[Len(walk) + 1 - i])
  BY DEF DescendSteps
<1>2. ASSUME NEW i \in 1 .. Len(walk) PROVE walk[Len(walk) + 1 - i] \in Nodes
  <2>1. Len(walk) \in Nat
    OBVIOUS
  <2>2. Len(walk) + 1 - i \in 1 .. Len(walk)
    BY <2>1
  <2> QED BY <2>2
<1>3. \A i \in 1 .. Len(walk), v \in Tentative : RelaxIncomingFrom(v, w, walk[Len(walk) + 1 - i]) \in Tentative
  BY <1>2, Incoming DEF Incomes
<1> QED BY <1>1, <1>2, <1>3 DEF Steps
LEMMA DescendHasRungs ==
  ASSUME input \in Inputs, NEW w, w \in [cch.up -> Nat], NEW walk \in Seq(Nodes), NEW dd \in Tentative
  PROVE  \E S : DescendRungs(walk, w, dd, S)
<1> PICK n : n = Len(walk)
  OBVIOUS
<1>0. n \in Nat
  OBVIOUS
<1>1. PICK L : Loops(n, Tentative, dd, DescendSteps(walk, w), L)
  <2>1. Steps(n, Tentative, DescendSteps(walk, w))
    BY DescendSteady
  <2> QED BY <1>0, <2>1, LoopExists
<1>2. L \in [0 .. n -> Tentative] /\ L[0] = dd /\ \A i \in 1 .. n : L[i] = DescendSteps(walk, w)[i][L[i - 1]]
  BY <1>1 DEF Loops
<1>3. \A i \in 1 .. n : i - 1 \in 0 .. n
  BY <1>0
<1>4. \A i \in 1 .. n : L[i] = RelaxIncomingFrom(L[i - 1], w, walk[n + 1 - i])
  <2> SUFFICES ASSUME NEW i \in 1 .. n PROVE L[i] = RelaxIncomingFrom(L[i - 1], w, walk[n + 1 - i])
    OBVIOUS
  <2>1. i \in 1 .. Len(walk) /\ L[i - 1] \in Tentative
    BY <1>2, <1>3
  <2>2. DescendSteps(walk, w)[i][L[i - 1]] = RelaxIncomingFrom(L[i - 1], w, walk[n + 1 - i])
    BY <2>1, DescendSteady
  <2> QED BY <1>2, <2>2
<1>5. DescendBy(L, walk, w, dd)
  <2>1. L = [i \in 0 .. n |-> L[i]]
    BY <1>2
  <2>2. \A i \in 0 .. n : L[i] = IF i = 0 THEN dd ELSE RelaxIncomingFrom(L[i - 1], w, walk[n + 1 - i])
    BY <1>0, <1>2, <1>4
  <2> QED BY <2>1, <2>2 DEF DescendBy
<1> PICK S : S = CHOOSE B : DescendBy(B, walk, w, dd)
  OBVIOUS
<1>6. DescendBy(S, walk, w, dd)
  BY <1>5
<1>7. Descend(walk, w, dd) = S[n]
  BY DEF Descend, DescendBy
<1>8. \A i \in 0 .. n : S[i] = IF i = 0 THEN dd ELSE RelaxIncomingFrom(S[i - 1], w, walk[n + 1 - i])
  BY <1>6 DEF DescendBy
<1>9. S[0] = dd /\ \A i \in 1 .. n : S[i] = RelaxIncomingFrom(S[i - 1], w, walk[n + 1 - i])
  <2>1. 0 \in 0 .. n /\ \A i \in 1 .. n : i \in 0 .. n /\ i # 0
    BY <1>0
  <2> QED BY <1>8, <2>1
<1> DEFINE T == {k \in Nat : k <= n => S[k] \in Tentative}
<1>10. 0 \in T
  BY <1>9
<1>11. ASSUME NEW k \in Nat, k \in T PROVE k + 1 \in T
  <2> SUFFICES ASSUME k + 1 <= n PROVE S[k + 1] \in Tentative
    OBVIOUS
  <2> PICK l : l = k + 1
    OBVIOUS
  <2>1. l \in 1 .. n /\ l - 1 = k /\ S[k] \in Tentative /\ n + 1 - l \in 1 .. n
    BY <1>0, <1>11
  <2>2. walk[n + 1 - l] \in Nodes
    BY <2>1
  <2>3. S[l] = RelaxIncomingFrom(S[l - 1], w, walk[n + 1 - l])
    BY <1>9, <2>1
  <2>4. Incomes(S[k], w, walk[n + 1 - l], S[l])
    BY <2>1, <2>2, <2>3, Incoming
  <2> QED BY <2>4 DEF Incomes
<1> HIDE DEF T
<1>12. Nat \subseteq T
  BY <1>10, <1>11, InductionOnNat
<1>13. \A i \in 0 .. n : S[i] \in Tentative
  <2>1. \A i \in 0 .. n : i \in Nat /\ i <= n
    BY <1>0
  <2> QED BY <1>12, <2>1 DEF T
<1> QED BY <1>7, <1>9, <1>13 DEF DescendRungs

(* The nodes of a walk seen so far from its end.                            *)
Suffix(walk, i) == {walk[j] : j \in Len(walk) + 1 - i .. Len(walk)}
LEMMA SuffixGrows ==
  ASSUME NEW S, NEW walk, GoodWalk(walk, S)
  PROVE  /\ Suffix(walk, 0) = {} /\ Suffix(walk, Len(walk)) = S
         /\ \A i \in 1 .. Len(walk) :
              /\ Suffix(walk, i) = Suffix(walk, i - 1) \cup {walk[Len(walk) + 1 - i]} /\ walk[Len(walk) + 1 - i] \in S
              /\ Suffix(walk, i - 1) \in SUBSET Nodes
              /\ \A z \in Suffix(walk, i - 1) : walk[Len(walk) + 1 - i] \notin Up(z) /\ walk[Len(walk) + 1 - i] # z
<1>1. walk \in Seq(Nodes) /\ Range(walk) = S /\ Len(walk) \in Nat /\ DOMAIN walk = 1 .. Len(walk)
  BY DEF GoodWalk
<1> PICK n : n = Len(walk)
  OBVIOUS
<1>2. \A i \in DOMAIN walk : walk[i] \in S /\ walk[i] \in Nodes
  BY <1>1 DEF Range
<1>3. Suffix(walk, 0) = {} /\ Suffix(walk, n) = S
  <2>1. n + 1 - 0 .. n = {} /\ n + 1 - n .. n = DOMAIN walk
    BY <1>1
  <2> QED BY <1>1, <2>1 DEF Suffix, Range
<1>4. ASSUME NEW i \in 1 .. n
      PROVE  /\ Suffix(walk, i) = Suffix(walk, i - 1) \cup {walk[n + 1 - i]} /\ walk[n + 1 - i] \in S
             /\ Suffix(walk, i - 1) \in SUBSET Nodes
             /\ \A z \in Suffix(walk, i - 1) : walk[n + 1 - i] \notin Up(z) /\ walk[n + 1 - i] # z
  <2> PICK l : l = n + 1 - i
    OBVIOUS
  <2>1. l \in DOMAIN walk /\ n + 1 - (i - 1) = l + 1 /\ l \in Nat /\ l <= n
    BY <1>1
  <2>2. \A j \in l .. n : j = l \/ j \in l + 1 .. n
    BY <1>1, <2>1
  <2>3. \A j \in l + 1 .. n : j \in l .. n /\ j \in DOMAIN walk /\ l < j
    BY <1>1, <2>1
  <2>4. l \in l .. n
    BY <1>1, <2>1
  <2>5. Suffix(walk, i) = {walk[j] : j \in l .. n} /\ Suffix(walk, i - 1) = {walk[j] : j \in l + 1 .. n}
    BY <2>1 DEF Suffix
  <2>6. Suffix(walk, i) = Suffix(walk, i - 1) \cup {walk[l]}
    BY <2>2, <2>3, <2>4, <2>5
  <2>7. \A j \in l + 1 .. n : walk[l] # walk[j] /\ walk[l] \notin Up(walk[j]) /\ walk[j] \in Nodes
    BY <1>2, <2>1, <2>3 DEF GoodWalk, Orderly
  <2> QED BY <1>2, <2>1, <2>5, <2>6, <2>7
<1> QED BY <1>3, <1>4

LEMMA DescendSettles ==
  ASSUME Ready, QueryTypeOK, NEW d \in Dirs, WalkOK(d), WalkOK(Opposite(d)), AskedOK(d), NEW up, NEW pp, Climbed(d, up, pp, inSpace[d]),
         NEW r, r = Descend(Walked(Opposite(d)), metric[Opposite(d)], up)
  PROVE  Descended(d, r, inSpace[Opposite(d)])
<1> PICK p : p = Opposite(d)
  OBVIOUS
<1> PICK walk : walk = Walked(p)
  OBVIOUS
<1>0. p \in Dirs /\ WalkOK(p)
  BY DEF Opposite, Dirs
<1>1. input \in Inputs /\ metric[p] \in [cch.up -> Nat]
  BY <1>0 DEF Ready, GraphOK, Metrics
<1>2. Descended(d, up, {}) /\ up \in Tentative
  BY DescendBegins DEF Climbed
<1>3. GoodWalk(walk, inSpace[p]) /\ walk \in Seq(Nodes) /\ Len(walk) \in Nat
  BY <1>0, SpaceIsWalked DEF GoodWalk
<1>4. PICK S : DescendRungs(walk, metric[p], up, S)
  BY <1>1, <1>2, <1>3, DescendHasRungs
<1> DEFINE T == {k \in Nat : k <= Len(walk) => Descended(d, S[k], Suffix(walk, k))}
<1>5. 0 \in T
  <2>1. S[0] = up /\ Suffix(walk, 0) = {}
    BY <1>3, <1>4, SuffixGrows DEF DescendRungs
  <2> QED BY <1>2, <2>1
<1>6. ASSUME NEW k \in Nat, k \in T PROVE k + 1 \in T
  <2> SUFFICES ASSUME k + 1 <= Len(walk) PROVE Descended(d, S[k + 1], Suffix(walk, k + 1))
    OBVIOUS
  <2> PICK l : l = k + 1
    OBVIOUS
  <2>1. l \in 1 .. Len(walk) /\ l - 1 = k /\ l - 1 \in 0 .. Len(walk) /\ Descended(d, S[k], Suffix(walk, k))
    BY <1>3, <1>6
  <2> PICK Q : Q = Suffix(walk, k)
    OBVIOUS
  <2> PICK x : x = walk[Len(walk) + 1 - l]
    OBVIOUS
  <2> PICK v : v = S[k]
    OBVIOUS
  <2> PICK u : u = S[l]
    OBVIOUS
  <2>2. Suffix(walk, l) = Q \cup {x} /\ Q \in SUBSET Nodes /\ x \in inSpace[p] /\ \A z \in Q : x \notin Up(z) /\ x # z
    BY <1>3, <2>1, SuffixGrows
  <2>3. u = RelaxIncomingFrom(v, metric[p], x) /\ v \in Tentative
    <3>1. S[l] = RelaxIncomingFrom(S[l - 1], metric[p], walk[Len(walk) + 1 - l]) /\ S[l - 1] \in Tentative
      BY <1>4, <2>1 DEF DescendRungs
    <3> QED BY <2>1, <3>1
  <2>4. x \in Nodes
    BY <1>0, <2>2, SpaceLeadsUp
  <2>5. Incomes(v, metric[p], x, u)
    BY <1>1, <2>3, <2>4, Incoming
  <2>6. Descended(d, v, Q)
    BY <2>1
  <2>7. Descended(d, u, Q \cup {x})
    BY <2>2, <2>5, <2>6, DescendStep
  <2> QED BY <2>2, <2>7
<1> HIDE DEF T
<1>7. Len(walk) \in T
  BY <1>3, <1>5, <1>6, InductionOnNat
<1>8. Descended(d, S[Len(walk)], Suffix(walk, Len(walk)))
  BY <1>3, <1>7 DEF T
<1>9. r = S[Len(walk)] /\ Suffix(walk, Len(walk)) = inSpace[p]
  BY <1>3, <1>4, SuffixGrows DEF DescendRungs
<1> QED BY <1>8, <1>9

(* What a step leaves alone.                                                *)
LEMMA WalkFrame ==
  ASSUME UNCHANGED <<input, cch>>
  PROVE  /\ Nodes' = Nodes /\ Stations' = Stations
         /\ \A x, stop_at : Ancestors(x, stop_at)' = Ancestors(x, stop_at)
         /\ \A S, x : FirstIn(S, x)' = FirstIn(S, x)
         /\ \A nodes, ends : Walk(nodes, ends)' = Walk(nodes, ends)
         /\ \A S : ParentClosed(S)' <=> ParentClosed(S)
         /\ \A walk : Orderly(walk)' <=> Orderly(walk)
         /\ \A x : Up(x)' = Up(x)
<1>1. Nodes' = Nodes
  BY DEF Nodes
<1>2. \A x, stop_at : Ancestors(x, stop_at)' = Ancestors(x, stop_at)
  BY <1>1 DEF Ancestors
<1>3. \A S, x : FirstIn(S, x)' = FirstIn(S, x)
  BY <1>1 DEF FirstIn
<1>4. \A nodes, ends : Walk(nodes, ends)' = Walk(nodes, ends)
  BY <1>2 DEF Walk
<1>5. \A S : ParentClosed(S)' <=> ParentClosed(S)
  BY DEF ParentClosed
<1>6. \A x : Up(x)' = Up(x)
  BY <1>1 DEF Up
<1>7. \A walk : Orderly(walk)' <=> Orderly(walk)
  BY <1>6 DEF Orderly
<1> QED BY <1>1, <1>2, <1>3, <1>4, <1>5, <1>6, <1>7 DEF Stations
(* Nothing is walked before the hierarchy is there.                         *)
EmptyBy(W) == W = [i \in 0 .. Len(<<>>) |-> IF i = 0 THEN <<>> ELSE Ancestors(<<>>[i], <<>>[i]) \o W[i - 1]]
LEMMA AskedFrame ==
  ASSUME UNCHANGED order, NEW d, asked'.src[d] = asked.src[d]
  PROVE  \A y : (Asked(d, y)' <=> Asked(d, y)) /\ Given(d, y)' = Given(d, y)
BY DEF Asked, Given

LEMMA NothingWalked ==
  /\ Walk(<<>>, <<>>) = <<>> /\ <<>> \in Seq(Nodes) /\ Range(<<>>) = {} /\ Orderly(<<>>) /\ ParentClosed({})
<1>1. Len(<<>>) = 0 /\ 0 \in 0 .. 0 /\ \A i \in 0 .. 0 : i = 0
  OBVIOUS
<1>2. \E W : EmptyBy(W)
  <2> PICK W : W = [i \in 0 .. 0 |-> <<>>]
    OBVIOUS
  <2>1. W = [i \in 0 .. Len(<<>>) |-> IF i = 0 THEN <<>> ELSE Ancestors(<<>>[i], <<>>[i]) \o W[i - 1]]
    BY <1>1
  <2> QED BY <2>1 DEF EmptyBy
<1> PICK W : W = CHOOSE V : EmptyBy(V)
  OBVIOUS
<1>3. EmptyBy(W)
  BY <1>2
<1>4. W[0] = <<>>
  BY <1>1, <1>3 DEF EmptyBy
<1>5. Walk(<<>>, <<>>) = W[Len(<<>>)]
  BY DEF Walk, EmptyBy
<1>6. DOMAIN <<>> = {} /\ <<>> \in Seq(Nodes)
  BY EmptySeq
<1> QED BY <1>1, <1>4, <1>5, <1>6 DEF Range, Orderly, ParentClosed
LEMMA NothingWalkedNext ==
  (/\ Walk(<<>>, <<>>) = <<>> /\ <<>> \in Seq(Nodes) /\ Range(<<>>) = {} /\ Orderly(<<>>) /\ ParentClosed({}))'
BY NothingWalked, PTL

(* The elimination tree of a chordal graph.                                 *)
LEMMA TreeOfChordal ==
  ASSUME input \in Inputs, NEW up \in SUBSET Pairs, \A x \in Nodes : \A y, z \in Above(up, x) : y < z => <<y, z>> \in up,
         NEW par, par = EliminationTreeParent(up)
  PROVE  /\ par \in [Nodes -> Nodes \cup {NoId}] /\ \A x \in Nodes : par[x] # NoId => par[x] > x
         /\ \A S \in SUBSET Nodes : (\A x \in S : par[x] \in S \cup {NoId}) =>
              \A x \in S, y \in Nodes : <<x, y>> \in up => y \in S
<1>1. input.n \in Nat /\ Nodes = 0 .. input.n - 1 /\ NoId \notin Nodes
  BY NodesAreNumbers, NoIdAssumption DEF Nodes
<1>2. ASSUME NEW x \in Nodes
      PROVE  IF Above(up, x) = {} THEN par[x] = NoId
             ELSE par[x] \in Above(up, x) /\ \A y \in Above(up, x) : par[x] <= y
  <2>1. par[x] = IF Above(up, x) = {} THEN NoId ELSE Min(Above(up, x))
    BY DEF EliminationTreeParent
  <2>2. Above(up, x) \in SUBSET Nat
    BY AboveArcs
  <2> QED BY <2>1, <2>2, MinIsLeast
<1>3. \A x, y : y \in Above(up, x) => <<x, y>> \in up /\ y \in Nodes /\ x < y
  BY AboveArcs
<1>4. \A x, y : <<x, y>> \in up => y \in Above(up, x)
  BY AboveArcs
<1>5. \A x \in Nodes : par[x] = NoId \/ (par[x] \in Nodes /\ par[x] > x /\ par[x] \in Above(up, x))
  <2> SUFFICES ASSUME NEW x \in Nodes, par[x] # NoId PROVE par[x] \in Nodes /\ par[x] > x /\ par[x] \in Above(up, x)
    OBVIOUS
  <2>1. par[x] \in Above(up, x)
    BY <1>2
  <2>2. par[x] \in Nodes /\ x < par[x]
    BY <1>3, <2>1
  <2>3. \A a, b \in Nodes : a < b => b > a
    BY <1>1
  <2> QED BY <2>1, <2>2, <2>3
<1>6. par \in [Nodes -> Nodes \cup {NoId}]
  <2>1. par = [x \in Nodes |-> par[x]]
    BY DEF EliminationTreeParent
  <2> QED BY <1>5, <2>1
<1>7. ASSUME NEW S \in SUBSET Nodes, \A x \in S : par[x] \in S \cup {NoId}, NEW x \in S, NEW y \in Nodes, <<x, y>> \in up
      PROVE  y \in S
  <2> DEFINE Leads(z) == \A v \in Nodes : <<z, v>> \in up => v \in S
             T == {k \in Nat : \A z \in S : input.n - z <= k => Leads(z)}
  <2>1. 0 \in T
    BY <1>1
  <2>2. ASSUME NEW k \in Nat, k \in T PROVE k + 1 \in T
    <3> SUFFICES ASSUME NEW z \in S, input.n - z <= k + 1, NEW v \in Nodes, <<z, v>> \in up PROVE v \in S
      OBVIOUS
    <3>1. v \in Above(up, z) /\ z \in Nodes
      BY <1>4
    <3>2. par[z] \in Above(up, z) /\ par[z] <= v
      BY <1>2, <3>1
    <3> PICK u : u = par[z]
      OBVIOUS
    <3>3. u \in S /\ u \in Nodes /\ z < u /\ u <= v
      <4>1. u \in Nodes /\ z < u
        BY <1>3, <3>2
      <4> QED BY <1>1, <1>7, <3>2, <4>1
    <3>4. CASE u = v
      BY <3>3, <3>4
    <3>5. CASE u # v
      <4>1. u < v
        BY <1>1, <3>3, <3>5
      <4>2. <<u, v>> \in up
        BY <3>1, <3>2, <4>1
      <4>3. input.n - u <= k
        BY <1>1, <3>1, <3>3
      <4>4. Leads(u)
        BY <2>2, <3>3, <4>3
      <4> QED BY <4>2, <4>4
    <3> QED BY <3>4, <3>5
  <2> HIDE DEF T
  <2>3. Nat \subseteq T
    BY <2>1, <2>2, InductionOnNat
  <2>4. input.n - x \in Nat /\ input.n - x <= input.n - x
    BY <1>1
  <2>5. Leads(x)
    BY <2>3, <2>4 DEF T
  <2> QED BY <1>7, <2>5
<1> QED BY <1>5, <1>6, <1>7

LEMMA TreeBegins == ASSUME Init PROVE TreeOK
<1>1. cch.parent = [x \in Nodes |-> NoId] /\ pc = "contract"
  BY DEF Init
<1>2. cch.parent \in [Nodes -> Nodes \cup {NoId}] /\ \A x \in Nodes : cch.parent[x] = NoId
  BY <1>1
<1> QED BY <1>1, <1>2 DEF TreeOK

LEMMA TreeStays ==
  ASSUME TreeOK, input' = input, cch'.parent = cch.parent, \A x : Up(x)' \subseteq Up(x), pc = "contract" => pc' = "contract"
  PROVE  TreeOK'
<1>1. Nodes' = Nodes
  BY DEF Nodes
<1>2. \A S : ParentClosed(S)' <=> ParentClosed(S)
  BY DEF ParentClosed
<1>3. \A x : (pc # "contract")' => pc # "contract"
  OBVIOUS
<1> QED BY <1>1, <1>2, <1>3 DEF TreeOK

LEMMA TreeStep == ASSUME IInv, TreeOK, [Next]_vars PROVE TreeOK'
<1>1. input \in Inputs /\ cch.up \in SUBSET Pairs /\ DOMAIN cch = {"up", "parent"}
  BY DEF IInv, GraphOK
<1>2. CASE UNCHANGED <<input, cch>> /\ (pc = "contract" => pc' = "contract")
  BY <1>2, WalkFrame, TreeStays
<1>3. CASE ContractNode
  <2>1. pc = "contract" /\ pc' = "contract" /\ input' = input /\ cch'.parent = cch.parent
    BY <1>1, <1>3 DEF ContractNode
  <2>2. Nodes' = Nodes
    BY <2>1 DEF Nodes
  <2> QED BY <2>1, <2>2 DEF TreeOK
<1>4. CASE BuildTree
  <2>1. input' = input /\ scan = input.n /\ pc = "contract"
    BY <1>4 DEF BuildTree
  <2>2. cch'.up = cch.up /\ cch'.parent = EliminationTreeParent(cch.up)
    BY <1>1, <1>4 DEF BuildTree
  <2>3. \A x \in Nodes : Inherited(cch.up, x) \subseteq cch.up
    <3>1. \A x \in Nodes : x < scan
      BY <1>1, <2>1, NodesAreNumbers DEF Nodes
    <3> QED BY <2>1, <3>1 DEF IInv, SupergraphOK, InheritedOK
  <2>4. \A x \in Nodes : \A y, z \in Above(cch.up, x) : y < z => <<y, z>> \in cch.up
    BY <1>1, <2>3, EliminationIsChordal
  <2> PICK up : up = cch.up
    OBVIOUS
  <2> PICK par : par = EliminationTreeParent(up)
    OBVIOUS
  <2>5. /\ par \in [Nodes -> Nodes \cup {NoId}] /\ \A x \in Nodes : par[x] # NoId => par[x] > x
        /\ \A S \in SUBSET Nodes : (\A x \in S : par[x] \in S \cup {NoId}) =>
             \A x \in S, y \in Nodes : <<x, y>> \in up => y \in S
    BY <1>1, <2>4, TreeOfChordal
  <2>6. Nodes' = Nodes /\ cch'.parent = par
    BY <2>1, <2>2 DEF Nodes
  <2>7. \A S : ParentClosed(S)' <=> \A x \in S : par[x] \in S \cup {NoId}
    BY <2>6 DEF ParentClosed
  <2>8. \A x : Up(x)' = {y \in Nodes : <<x, y>> \in up}
    BY <2>2, <2>6 DEF Up
  <2> QED BY <2>5, <2>6, <2>7, <2>8 DEF TreeOK
<1>5. CASE KeepArcs
  <2>1. input' = input /\ pc = "filter" /\ cch'.parent = cch.parent /\ cch'.up = {c[2] : c \in can}
    BY <1>1, <1>5 DEF KeepArcs
  <2>2. can \subseteq Dirs \X cch.up
    BY <2>1 DEF IInv, GraphOK
  <2>3. cch'.up \subseteq cch.up
    BY <2>1, <2>2
  <2>4. \A x : Up(x)' \subseteq Up(x)
    BY <2>1, <2>3 DEF Up, Nodes
  <2> QED BY <2>1, <2>4, TreeStays
<1>6. CASE Customizing /\ ~ContractNode /\ ~BuildTree /\ ~KeepArcs
  <2>1. CASE FilterNode \/ Customize \/ RelaxPair \/ NextNode \/ StartParallel \/ Barrier \/ PartialStep \/ CustomizeAnew
             \/ StartWitnessSearch \/ WitnessStep \/ BuildPerfectWitness
    <3>1. UNCHANGED <<input, cch>> /\ pc # "contract"
      BY <2>1 DEF FilterNode, Customize, RelaxPair, NextNode, StartParallel, Barrier, PartialStep, CustomizeAnew,
                  StartWitnessSearch, WitnessStep, BuildPerfectWitness, graphVars
    <3> QED BY <1>2, <3>1
  <2>2. CASE \E t \in Threads : TakeArc(t) \/ ReadTop(t) \/ AtomicMinTo(t)
    <3>1. UNCHANGED <<input, cch, pc>>
      BY <2>2 DEF TakeArc, ReadTop, AtomicMinTo, graphVars
    <3> QED BY <1>2, <3>1
  <2> QED BY <1>6, <2>1, <2>2 DEF Customizing
<1>7. CASE \E w \in input.weights : Reweigh(w)
  <2>1. UNCHANGED <<input, cch>> /\ pc # "contract"
    BY <1>7 DEF Reweigh, graphVars
  <2> QED BY <1>2, <2>1
<1>8. CASE UNCHANGED cchVars
  BY <1>2, <1>8 DEF cchVars, graphVars
<1> QED BY <1>3, <1>4, <1>5, <1>6, <1>7, <1>8 DEF Next, vars

LEMMA StatesDiffer ==
  /\ Initialized # HasRun
  /\ \A d \in Dirs : /\ Pinned(d) # Initialized /\ Pinned(d) # HasRun /\ PinnedRun(d) # Initialized /\ PinnedRun(d) # HasRun
                     /\ Opposite(d) \in Dirs /\ Opposite(d) # d /\ Opposite(Opposite(d)) = d
                     /\ \A e \in Dirs : Pinned(d) # PinnedRun(e) /\ (e = d \/ e = Opposite(d))
                                        /\ (Pinned(d) = Pinned(e) => d = e) /\ (PinnedRun(d) = PinnedRun(e) => d = e)
BY DEF Initialized, HasRun, Pinned, PinnedRun, Dirs, Opposite

LEMMA ResultFrame ==
  ASSUME UNCHANGED <<input, order, weight, cch, metric>>, NEW d, asked'.src[d] = asked.src[d]
  PROVE  /\ \A dd : (Tops(d, dd)' <=> Tops(d, dd)) /\ (Realised(d, dd)' <=> Realised(d, dd))
         /\ inSpace'[d] = inSpace[d] => \A dd, pp : (Settles(d, dd)' <=> Settles(d, dd)) /\ (Backed(d, dd, pp)' <=> Backed(d, dd, pp))
<1>1. Nodes' = Nodes /\ \A x : Up(x)' = Up(x)
  BY WalkFrame
<1>2. \A y : (Asked(d, y)' <=> Asked(d, y)) /\ Given(d, y)' = Given(d, y)
  BY AskedFrame
<1>3. TrueDistance' = TrueDistance /\ \A x, y : Below(d, x, y)' = Below(d, x, y)
  BY DistanceFrame
<1>4. \A dd : Tops(d, dd)' <=> Tops(d, dd)
  BY <1>1, <1>2, <1>3 DEF Tops
<1>5. \A dd : Realised(d, dd)' <=> Realised(d, dd)
  BY <1>1, <1>2, <1>3 DEF Realised, Toward
<1>6. ASSUME inSpace'[d] = inSpace[d] PROVE \A dd : Settles(d, dd)' <=> Settles(d, dd)
  BY <1>1, <1>2, <1>6 DEF Settles
<1>7. ASSUME inSpace'[d] = inSpace[d] PROVE \A dd, pp : Backed(d, dd, pp)' <=> Backed(d, dd, pp)
  BY <1>1, <1>2, <1>7 DEF Backed
<1> QED BY <1>4, <1>5, <1>6, <1>7

LEMMA SideFrame ==
  ASSUME UNCHANGED <<input, cch>>, NEW d, inSpace'[d] = inSpace[d], node'[d] = node[d], end'[d] = end[d]
  PROVE  (WalkOK(d)' <=> WalkOK(d)) /\ Walked(d)' = Walked(d)
<1>1. Walked(d)' = Walked(d)
  BY WalkFrame DEF Walked
<1> QED BY <1>1, WalkFrame DEF WalkOK
LEMMA CallerFrame ==
  ASSUME UNCHANGED <<input, order>>, NEW d, asked'.src[d] = asked.src[d], node'[d] = node[d], asked'.pins = asked.pins,
         Added(d)' <=> Added(d)
  PROVE  AskedOK(d)' <=> AskedOK(d)
<1>1. Nodes' = Nodes /\ \A x : Rank(x)' = Rank(x)
  BY RankFrame DEF Nodes
<1>2. \A y : Asked(d, y)' <=> Asked(d, y)
  BY AskedFrame
<1> QED BY <1>1, <1>2 DEF AskedOK
LEMMA ArraysFrame ==
  ASSUME UNCHANGED <<input, order>>, NEW d
  PROVE  /\ pred'[d] = pred[d] => (LeadsDown(pred[d])' <=> LeadsDown(pred[d]))
         /\ dist'[d] = dist[d] => \A S : Closed(d, S)' <=> Closed(d, S)
         /\ dist'[d] = dist[d] /\ pred'[d] = pred[d] /\ asked'.src[d] = asked.src[d] => (AtStart(d)' <=> AtStart(d))
<1>1. Nodes' = Nodes
  BY DEF Nodes
<1>2. ASSUME asked'.src[d] = asked.src[d] PROVE \A y : (Asked(d, y)' <=> Asked(d, y)) /\ Given(d, y)' = Given(d, y)
  BY <1>2, AskedFrame
<1> QED BY <1>1, <1>2 DEF LeadsDown, Closed, AtStart

(* The customization goes on while the query rests.                         *)
LEMMA QueryRests ==
  ASSUME QueryOK, Free, UNCHANGED <<queryVars, input, order>>, UNCHANGED cch \/ \A d \in Dirs : node[d] = <<>>,
         pc' \in {"contract", "filter"} => pc \in {"contract", "filter"}
  PROVE  QueryOK'
<1>1. UNCHANGED <<st, dist, pred, inSpace, node, end, meet, asked>>
  BY DEF queryVars
<1>2. Nodes' = Nodes
  BY DEF Nodes
<1>3. QueryTypeOK'
  BY <1>1, <1>2 DEF QueryOK, QueryTypeOK
<1>4. st' \in {Initialized, HasRun} \cup {Pinned(d) : d \in Dirs} \cup {PinnedRun(d) : d \in Dirs}
  BY <1>1 DEF QueryOK
<1>5. Free' /\ (pc' \in {"contract", "filter"} => \A d \in Dirs : node'[d] = <<>>)
  BY <1>1 DEF QueryOK, Free
<1>6. \A d \in Dirs : st # HasRun /\ st # PinnedRun(Opposite(d)) /\ st # PinnedRun(d)
  BY StatesDiffer DEF Free
<1>7. ASSUME NEW d \in Dirs PROVE SideOK(d)'
  <2>1. WalkOK(d) /\ AskedOK(d) /\ LeadsDown(pred[d]) /\ AtStart(d)
    BY <1>6 DEF QueryOK, SideOK
  <2>2. AskedOK(d)' /\ LeadsDown(pred[d])' /\ AtStart(d)'
    <3>1. Added(d)' <=> Added(d)
      BY <1>1 DEF Added
    <3>2. AskedOK(d)'
      BY <1>1, <2>1, <3>1, CallerFrame
    <3>3. LeadsDown(pred[d])' /\ AtStart(d)'
      BY <1>1, <2>1, ArraysFrame
    <3> QED BY <3>2, <3>3
  <2>3. WalkOK(d)'
    <3>1. CASE UNCHANGED cch
      BY <1>1, <2>1, <3>1, SideFrame
    <3>2. CASE node[d] = <<>>
      <4>1. end[d] \in Seq(Nodes \cup {NoId}) /\ Len(end[d]) = Len(node[d])
        BY <2>1 DEF QueryOK, QueryTypeOK, WalkOK
      <4>2. end[d] = <<>>
        <5> PICK e : e = end[d]
          OBVIOUS
        <5>1. e \in Seq(Nodes \cup {NoId}) /\ Len(e) = 0
          BY <3>2, <4>1
        <5>2. e = <<>>
          BY <5>1, EmptySeq
        <5> QED BY <5>2
      <4>3. inSpace[d] = {}
        BY <2>1, <3>2, <4>2, NothingWalked DEF WalkOK, Walked
      <4>4. node'[d] = <<>> /\ end'[d] = <<>> /\ inSpace'[d] = {}
        BY <1>1, <3>2, <4>2, <4>3
      <4>5. Walked(d)' = <<>>
        BY <4>4, NothingWalkedNext DEF Walked
      <4>6. <<>> \in Seq({})
        BY EmptySeq
      <4> QED BY <4>4, <4>5, <4>6, NothingWalkedNext DEF WalkOK
    <3> QED BY <3>1, <3>2
  <2>4. st' # HasRun /\ st' # PinnedRun(Opposite(d))
    BY <1>1, <1>6
  <2> QED BY <2>2, <2>3, <2>4 DEF SideOK
<1>8. st' # HasRun
  BY <1>1, <1>6 DEF Dirs
<1> QED BY <1>3, <1>4, <1>5, <1>7, <1>8 DEF QueryOK

LEMMA QueryBegins == ASSUME Init, QueryInit PROVE QueryOK
<1>0. input \in Inputs /\ pc = "contract" /\ input.n \in Nat
  BY NodesAreNumbers DEF Init
<1>1. /\ st = Initialized /\ dist = BothSides(AllInf) /\ pred = BothSides([x \in Nodes |-> NoId])
      /\ inSpace = BothSides({}) /\ node = BothSides(<<>>) /\ end = BothSides(<<>>)
      /\ asked = [src |-> BothSides(NoStarts), pins |-> <<>>]
  BY DEF QueryInit
<1>2. ASSUME NEW d \in Dirs
      PROVE  /\ dist[d] = AllInf /\ pred[d] = [x \in Nodes |-> NoId] /\ inSpace[d] = {} /\ node[d] = <<>> /\ end[d] = <<>>
             /\ asked.src[d] = NoStarts
  BY <1>1 DEF BothSides
<1>3. QueryTypeOK
  <2>1. AllInf \in [Nodes -> 0 .. Inf] /\ [x \in Nodes |-> NoId] \in [Nodes -> Nodes \cup {NoId}]
    BY InfAssumption DEF AllInf
  <2>2. <<>> \in Seq(Nodes) /\ <<>> \in Seq(Nodes \cup {NoId})
    BY EmptySeq
  <2>3. dist \in [Dirs -> [Nodes -> 0 .. Inf]] /\ pred \in [Dirs -> [Nodes -> Nodes \cup {NoId}]]
    BY <1>1, <2>1 DEF BothSides
  <2>4. inSpace \in [Dirs -> SUBSET Nodes] /\ node \in [Dirs -> Seq(Nodes)] /\ end \in [Dirs -> Seq(Nodes \cup {NoId})]
    BY <1>1, <2>2 DEF BothSides
  <2>5. asked = [src |-> asked.src, pins |-> asked.pins] /\ asked.pins \in Seq(Nodes) /\ asked.src = [d \in Dirs |-> asked.src[d]]
    BY <1>1, <2>2 DEF BothSides
  <2> QED BY <2>3, <2>4, <2>5 DEF QueryTypeOK
<1>4. Free
  BY <1>1, <1>2 DEF Free
<1>5. DOMAIN NoStarts = {} /\ NoStarts \in [{} -> 0 .. Inf]
  BY DEF NoStarts
<1>6. ASSUME NEW d \in Dirs PROVE SideOK(d)
  <2>1. WalkOK(d)
    <3>1. <<>> \in Seq({})
      BY EmptySeq
    <3> QED BY <1>2, <3>1, NothingWalked DEF WalkOK, Walked
  <2>2. \A y : ~Asked(d, y)
    BY <1>2, <1>5 DEF Asked
  <2>3. AskedOK(d)
    <3>1. Range(node[d]) = {}
      BY <1>2, NothingWalked
    <3>2. Added(d)
      BY <1>1, StatesDiffer DEF Added
    <3> QED BY <1>2, <1>5, <2>2, <3>1, <3>2 DEF AskedOK
  <2>4. \A y \in Nodes : pred[d][y] = NoId /\ dist[d][y] = Inf
    BY <1>2 DEF AllInf
  <2>5. LeadsDown(pred[d]) /\ AtStart(d)
    BY <2>2, <2>4 DEF LeadsDown, AtStart, Given
  <2>6. st # HasRun /\ st # PinnedRun(Opposite(d))
    BY <1>1, StatesDiffer
  <2> QED BY <2>1, <2>3, <2>5, <2>6 DEF SideOK
<1>7. st # HasRun /\ st = Initialized
  BY <1>1, StatesDiffer
<1> QED BY <1>2, <1>3, <1>4, <1>6, <1>7 DEF QueryOK

LEMMA QueryStutters == ASSUME QueryOK, UNCHANGED vars PROVE QueryOK'
<1>1. UNCHANGED <<input, order, cch, weight, metric, pc, st, dist, pred, inSpace, node, end, meet, asked>>
  BY DEF vars, cchVars, graphVars, queryVars
<1>2. Nodes' = Nodes /\ \A x : Up(x)' = Up(x)
  BY <1>1, WalkFrame
<1>3. QueryTypeOK' /\ (pc' # "customized" => Free') /\ (pc' \in {"contract", "filter"} => \A d \in Dirs : node'[d] = <<>>)
  BY <1>1, <1>2 DEF QueryOK, QueryTypeOK, Free
<1>4. ASSUME NEW d \in Dirs PROVE SideOK(d)'
  <2>1. SideOK(d)
    BY DEF QueryOK
  <2>2. (WalkOK(d)' <=> WalkOK(d)) /\ (LeadsDown(pred[d])' <=> LeadsDown(pred[d])) /\ (AtStart(d)' <=> AtStart(d))
        /\ \A S : Closed(d, S)' <=> Closed(d, S)
    BY <1>1, SideFrame, ArraysFrame
  <2>3. AskedOK(d)' <=> AskedOK(d)
    <3>1. Added(d)' <=> Added(d)
      BY <1>1 DEF Added
    <3> QED BY <1>1, <3>1, CallerFrame
  <2>4. PinnedOK(d)' <=> PinnedOK(d)
    <3>1. \A dd : (Tops(d, dd)' <=> Tops(d, dd)) /\ (Realised(d, dd)' <=> Realised(d, dd))
      BY <1>1, ResultFrame
    <3> QED BY <1>1, <1>2, <3>1 DEF PinnedOK
  <2>5. Closed(d, inSpace[d])' <=> Closed(d, inSpace[d])
    BY <1>1, <2>2
  <2>6. Closed(d, inSpace["f"] \cup inSpace["b"])' <=> Closed(d, inSpace["f"] \cup inSpace["b"])
    BY <1>1, <2>2
  <2> QED BY <1>1, <2>1, <2>2, <2>3, <2>4, <2>5, <2>6 DEF SideOK
<1>5. st' = HasRun => RunOK'
  <2> SUFFICES ASSUME st = HasRun PROVE RunOK'
    BY <1>1
  <2>1. RunOK
    BY DEF QueryOK
  <2>2. Met'
    BY <1>1, <2>1 DEF RunOK, Met, Joined
  <2>3. ASSUME NEW d \in Dirs PROVE Settles(d, dist[d])' /\ Backed(d, dist[d], pred[d])'
    <3>1. \A dd, pp : (Settles(d, dd)' <=> Settles(d, dd)) /\ (Backed(d, dd, pp)' <=> Backed(d, dd, pp))
      BY <1>1, ResultFrame
    <3> QED BY <1>1, <2>1, <3>1 DEF RunOK
  <2> QED BY <2>2, <2>3 DEF RunOK
<1> QED BY <1>1, <1>3, <1>4, <1>5 DEF QueryOK

LEMMA CustomizingRests == ASSUME IInv, QueryOK, Customizing, UNCHANGED queryVars PROVE QueryOK'
<1>1. pc # "customized" /\ UNCHANGED <<input, order>> /\ (pc' \in {"contract", "filter"} => pc \in {"contract", "filter"})
      /\ (UNCHANGED cch \/ pc \in {"contract", "filter"})
  <2>1. CASE ContractNode \/ BuildTree \/ FilterNode \/ KeepArcs
    BY <2>1 DEF ContractNode, BuildTree, FilterNode, KeepArcs
  <2>2. CASE Customize \/ RelaxPair \/ NextNode \/ StartParallel
    BY <2>2 DEF Customize, RelaxPair, NextNode, StartParallel, graphVars
  <2>3. CASE Barrier \/ PartialStep \/ CustomizeAnew \/ StartWitnessSearch \/ WitnessStep \/ BuildPerfectWitness
    BY <2>3 DEF Barrier, NextLevel, PartialStep, CustomizeAnew, StartWitnessSearch, WitnessStep, BuildPerfectWitness, graphVars
  <2>4. CASE \E t \in Threads : TakeArc(t) \/ ReadTop(t) \/ AtomicMinTo(t)
    <3>1. PICK t \in Threads : TakeArc(t) \/ ReadTop(t) \/ AtomicMinTo(t)
      BY <2>4
    <3>2. UNCHANGED <<input, order, cch, pc>>
      BY <3>1 DEF TakeArc, ReadTop, AtomicMinTo, graphVars
    <3>3. pc = "parallel"
      <4>1. TakeArc(t) \/ worker[t] # Unset
        BY <3>1 DEF ReadTop, AtomicMinTo
      <4> QED BY <4>1 DEF TakeArc, IInv, TypeOK
    <3> QED BY <3>2, <3>3
  <2> QED BY <2>1, <2>2, <2>3, <2>4 DEF Customizing
<1>2. Free /\ (UNCHANGED cch \/ \A d \in Dirs : node[d] = <<>>)
  BY <1>1 DEF QueryOK
<1> QED BY <1>1, <1>2, QueryRests

LEMMA ReweighRests == ASSUME QueryOK, Free, NEW w \in input.weights, Reweigh(w), UNCHANGED queryVars PROVE QueryOK'
<1>1. UNCHANGED <<input, order, cch>> /\ pc' = "changed"
  BY DEF Reweigh, graphVars
<1> QED BY <1>1, QueryRests

LEMMA RunStep == ASSUME IInv, TreeOK, QueryOK, pc = "customized", Run, UNCHANGED cchVars PROVE QueryOK'
<1>0. Ready /\ input \in Inputs
  BY ReadyWhenCustomized DEF IInv, GraphOK
<1>1. UNCHANGED <<input, order, cch, weight, metric, pc, inSpace, node, end, asked>> /\ st = Initialized /\ st' = HasRun
  BY DEF Run, cchVars, graphVars
<1>2. QueryTypeOK /\ \A d \in Dirs : WalkOK(d) /\ AskedOK(d) /\ LeadsDown(pred[d]) /\ AtStart(d)
  BY <1>1, StatesDiffer DEF QueryOK, SideOK
<1>3. "f" \in Dirs /\ "b" \in Dirs /\ Dirs = {"f", "b"}
  BY DEF Dirs
<1> PICK f : f = Climb(Walked("f"), metric["f"], [dist |-> dist["f"], pred |-> pred["f"]])
  OBVIOUS
<1> PICK b : b = ClimbAndMeet(Walked("b"), metric["b"], [dist |-> dist["b"], pred |-> pred["b"], len |-> Inf, meet |-> NoId], f.dist)
  OBVIOUS
<1>4. Climbed("f", f.dist, f.pred, inSpace["f"])
  BY <1>0, <1>2, <1>3, ClimbSettles
<1>5. f.dist \in Tentative
  BY <1>4 DEF Climbed
<1>6. Climbed("b", b.dist, b.pred, inSpace["b"]) /\ MetOver(inSpace["b"], f.dist, b) /\ b \in MeetStates
  BY <1>0, <1>2, <1>3, <1>5, ClimbMeets
<1>7. /\ dist' = [d \in Dirs |-> IF d = "f" THEN f.dist ELSE b.dist]
      /\ pred' = [d \in Dirs |-> IF d = "f" THEN f.pred ELSE b.pred]
      /\ meet' = b.meet
  BY DEF Run
<1>8. dist'["f"] = f.dist /\ dist'["b"] = b.dist /\ pred'["f"] = f.pred /\ pred'["b"] = b.pred
  BY <1>3, <1>7
<1>9. ASSUME NEW d \in Dirs
      PROVE  Climbed(d, dist'[d], pred'[d], inSpace[d])
  BY <1>3, <1>4, <1>6, <1>8
<1>10. ASSUME NEW d \in Dirs
       PROVE  /\ dist'[d] \in Tentative /\ pred'[d] \in Preds /\ LeadsDown(pred'[d])
              /\ Settles(d, dist'[d]) /\ Backed(d, dist'[d], pred'[d])
  <2> PICK dd : dd = dist'[d]
    OBVIOUS
  <2> PICK pp : pp = pred'[d]
    OBVIOUS
  <2>1. Climbed(d, dd, pp, inSpace[d])
    BY <1>9
  <2>2. dd \in Tentative /\ pp \in Preds /\ LeadsDown(pp) /\ Settles(d, dd) /\ Backed(d, dd, pp)
    BY <2>1, ClimbEnds
  <2> QED BY <2>2
<1>11. Nodes' = Nodes
  BY <1>1, WalkFrame
<1>12. QueryTypeOK'
  <2>1. dist' \in [Dirs -> [Nodes -> 0 .. Inf]]
    <3>1. \A d \in Dirs : (IF d = "f" THEN f.dist ELSE b.dist) \in [Nodes -> 0 .. Inf]
      BY <1>5, <1>6 DEF Tentative, MeetStates
    <3> QED BY <1>7, <3>1
  <2>2. pred' \in [Dirs -> [Nodes -> Nodes \cup {NoId}]]
    <3>1. \A d \in Dirs : (IF d = "f" THEN f.pred ELSE b.pred) \in [Nodes -> Nodes \cup {NoId}]
      BY <1>4, <1>6 DEF Climbed, Preds, Stations
    <3> QED BY <1>7, <3>1
  <2> QED BY <1>1, <1>2, <1>11, <2>1, <2>2 DEF QueryTypeOK
<1>13. ASSUME NEW d \in Dirs PROVE SideOK(d)'
  <2>1. WalkOK(d)'
    BY <1>1, <1>2, SideFrame
  <2>2. AskedOK(d)'
    <3>1. Added(d)' /\ Added(d)
      BY <1>1, StatesDiffer DEF Added
    <3> QED BY <1>1, <1>2, <3>1, CallerFrame
  <2>3. LeadsDown(pred[d])'
    BY <1>10, <1>11 DEF LeadsDown
  <2>4. Closed(d, inSpace[d])'
    <3>1. \A y \in Nodes : dist'[d][y] < Inf => y \in inSpace[d]
      BY <1>10 DEF Backed
    <3>2. \A y \in Nodes : dist'[d][y] \in 0 .. Inf
      BY <1>10 DEF Tentative
    <3>3. \A y \in Nodes : dist'[d][y] < Inf \/ dist'[d][y] = Inf
      BY <3>2, InfAssumption
    <3> QED BY <1>1, <1>11, <3>1, <3>3 DEF Closed
  <2>5. st' \in {HasRun, PinnedRun(Opposite(d))} /\ st' # PinnedRun(Opposite(d))
    BY <1>1, StatesDiffer
  <2> QED BY <2>1, <2>2, <2>3, <2>4, <2>5 DEF SideOK
<1>14. Met'
  <2> DEFINE both == inSpace["f"] \cap inSpace["b"]
             J(x) == f.dist[x] + b.dist[x]
  <2>1. \A x : Joined(x)' = J(x)
    BY <1>8 DEF Joined
  <2>2. CASE b.meet = NoId
    <3>1. \A x \in both : J(x) >= Inf
      BY <1>6, <2>2 DEF MetOver
    <3> QED BY <1>1, <1>7, <2>1, <2>2, <3>1 DEF Met
  <2>3. CASE b.meet # NoId
    <3>1. b.meet \in both /\ b.len = J(b.meet) /\ b.len < Inf /\ \A x \in both : b.len <= J(x)
      BY <1>6, <2>3 DEF MetOver
    <3> QED BY <1>1, <1>7, <2>1, <2>3, <3>1 DEF Met
  <2> QED BY <2>2, <2>3
<1>15. ASSUME NEW d \in Dirs PROVE Settles(d, dist[d])' /\ Backed(d, dist[d], pred[d])'
  <2>1. \A dd, pp : (Settles(d, dd)' <=> Settles(d, dd)) /\ (Backed(d, dd, pp)' <=> Backed(d, dd, pp))
    BY <1>1, ResultFrame
  <2>2. Settles(d, dist'[d]) /\ Backed(d, dist'[d], pred'[d])
    BY <1>10
  <2> QED BY <2>1, <2>2
<1>16. RunOK'
  BY <1>14, <1>15 DEF RunOK
<1>17. pc' = "customized" /\ \A d \in Dirs : SideOK(d)'
  BY <1>1, <1>13
<1> QED BY <1>1, <1>12, <1>16, <1>17 DEF QueryOK

LEMMA RunToPinnedStep ==
  ASSUME IInv, TreeOK, QueryOK, pc = "customized", NEW p \in Dirs, RunToPinned(p), UNCHANGED cchVars
  PROVE  QueryOK'
<1> PICK d : d = Opposite(p)
  OBVIOUS
<1>0. Ready /\ input \in Inputs /\ d \in Dirs /\ p = Opposite(d) /\ d # p /\ \A e \in Dirs : e = d \/ e = p
  BY ReadyWhenCustomized, StatesDiffer DEF IInv, GraphOK
<1>1. UNCHANGED <<input, order, cch, weight, metric, pc, inSpace, node, end, asked, pred>> /\ st = Pinned(p) /\ st' = PinnedRun(p)
  BY DEF RunToPinned, cchVars, graphVars
<1>2. QueryTypeOK /\ \A e \in Dirs : WalkOK(e) /\ AskedOK(e) /\ LeadsDown(pred[e]) /\ AtStart(e)
  BY <1>1, StatesDiffer DEF QueryOK, SideOK
<1> PICK up : up = Climb(Walked(d), metric[d], [dist |-> dist[d], pred |-> pred[d]])
  OBVIOUS
<1> PICK dd : dd = Descend(Walked(p), metric[p], up.dist)
  OBVIOUS
<1> PICK rest : rest = [x \in Nodes |-> IF x < Len(Walked(p)) THEN Inf ELSE dist[p][x]]
  OBVIOUS
<1>3. dist' = [dist EXCEPT ![d] = dd, ![p] = rest]
  BY DEF RunToPinned
<1>4. Climbed(d, up.dist, up.pred, inSpace[d])
  BY <1>0, <1>2, ClimbSettles
<1>5. Descended(d, dd, inSpace[p])
  BY <1>0, <1>2, <1>4, DescendSettles
<1>6. dist'[d] = dd /\ dist'[p] = rest
  BY <1>0, <1>2, <1>3 DEF QueryTypeOK
<1>7. Nodes' = Nodes /\ \A x : Up(x)' = Up(x)
  BY <1>1, WalkFrame
<1>8. ~Added(p) /\ ~Added(p)' /\ Added(d) /\ Added(d)'
  BY <1>0, <1>1, StatesDiffer DEF Added
<1>9. \A y : ~Asked(p, y)
  <2>1. asked.src[p] = NoStarts
    BY <1>2, <1>8 DEF AskedOK
  <2> QED BY <2>1 DEF Asked, NoStarts
<1>10. rest \in [Nodes -> 0 .. Inf] /\ \A y \in Nodes : rest[y] = Inf
  <2>1. \A y \in Nodes : dist[p][y] = Inf
    BY <1>2, <1>9 DEF AtStart, Given
  <2>2. \A y \in Nodes : rest[y] = Inf
    BY <2>1
  <2>3. rest = [y \in Nodes |-> rest[y]]
    OBVIOUS
  <2> QED BY <2>2, <2>3, InfAssumption
<1>11. QueryTypeOK'
  <2>1. dd \in [Nodes -> 0 .. Inf]
    BY <1>5 DEF Descended, Tentative
  <2>2. dist' \in [Dirs -> [Nodes -> 0 .. Inf]]
    BY <1>0, <1>2, <1>3, <1>10, <2>1 DEF QueryTypeOK
  <2> QED BY <1>1, <1>2, <1>7, <2>2 DEF QueryTypeOK
<1>12. ASSUME NEW e \in Dirs PROVE WalkOK(e)' /\ AskedOK(e)' /\ LeadsDown(pred[e])'
  <2>1. Added(e)' <=> Added(e)
    BY <1>0, <1>8
  <2> QED BY <1>1, <1>2, <2>1, SideFrame, CallerFrame, ArraysFrame
<1>13. SideOK(p)'
  <2>1. AtStart(p)'
    <3>1. \A y : (Asked(p, y)' <=> Asked(p, y)) /\ Given(p, y)' = Given(p, y)
      BY <1>1, AskedFrame
    <3>2. \A y : Given(p, y) = Inf
      BY <1>9 DEF Given
    <3> QED BY <1>6, <1>7, <1>9, <1>10, <3>1, <3>2 DEF AtStart
  <2>2. st' # HasRun /\ st' # PinnedRun(Opposite(p))
    BY <1>0, <1>1, StatesDiffer
  <2> QED BY <1>12, <2>1, <2>2 DEF SideOK
<1>14. SideOK(d)'
  <2>1. Tops(d, dd) /\ (\A y \in Nodes : dd[y] < Inf => \E s : Reaches(d, s, y, dd[y]))
        /\ (\A x \in inSpace[p] : \A y \in Up(x) : dd[x] <= dd[y] + metric[p][<<x, y>>])
        /\ \A y \in Nodes \ (inSpace["f"] \cup inSpace["b"]) : dd[y] = Inf
    BY <1>0, <1>5 DEF Descended
  <2>2. Realised(d, dd)
    BY <2>1 DEF Realised, Reaches, Shortest, Near, TrueDistance
  <2>3. \A r : (Tops(d, r)' <=> Tops(d, r)) /\ (Realised(d, r)' <=> Realised(d, r))
    BY <1>1, ResultFrame
  <2>4. Tops(d, dist[d])' /\ Realised(d, dist[d])'
    BY <1>6, <2>1, <2>2, <2>3
  <2>5. \A x \in inSpace'[p] : \A y \in Up(x)' : dist'[d][x] <= dist'[d][y] + metric'[p][<<x, y>>]
    BY <1>1, <1>6, <1>7, <2>1
  <2>6. PinnedOK(d)'
    BY <1>0, <2>4, <2>5 DEF PinnedOK
  <2>7. Closed(d, inSpace["f"] \cup inSpace["b"])'
    BY <1>1, <1>6, <1>7, <2>1 DEF Closed
  <2>8. st' # HasRun /\ st' = PinnedRun(Opposite(d))
    BY <1>0, <1>1, StatesDiffer
  <2>9. WalkOK(d)' /\ AskedOK(d)' /\ LeadsDown(pred[d])'
    BY <1>0, <1>12
  <2> QED BY <2>6, <2>7, <2>8, <2>9 DEF SideOK
<1>15. \A e \in Dirs : SideOK(e)'
  BY <1>0, <1>13, <1>14
<1>16. st' # HasRun /\ st' \in {PinnedRun(e) : e \in Dirs} /\ pc' = "customized"
  BY <1>1, StatesDiffer
<1> QED BY <1>11, <1>15, <1>16 DEF QueryOK

(* A side's search space, its nodes and the ends of their walks. *)
SpaceOf(S, nodes, ends) ==
  /\ ParentClosed(S) /\ S \in SUBSET Nodes /\ nodes \in Seq(S) /\ ends \in Seq(Stations) /\ Len(ends) = Len(nodes)
  /\ GoodWalk(Walk(nodes, ends), S)
LEMMA SpaceOfSide ==
  ASSUME QueryTypeOK, NEW d \in Dirs
  PROVE  WalkOK(d) <=> SpaceOf(inSpace[d], node[d], end[d])
BY DEF QueryTypeOK, WalkOK, SpaceOf, Walked, GoodWalk, Stations
LEMMA SpaceOfSideNext == (QueryTypeOK => \A d \in Dirs : WalkOK(d) <=> SpaceOf(inSpace[d], node[d], end[d]))'
<1>1. QueryTypeOK => \A d \in Dirs : WalkOK(d) <=> SpaceOf(inSpace[d], node[d], end[d])
  BY SpaceOfSide
<1> QED BY <1>1, PTL
LEMMA SpaceFrame ==
  ASSUME UNCHANGED <<input, cch>>
  PROVE  \A S, nodes, ends : SpaceOf(S, nodes, ends)' <=> SpaceOf(S, nodes, ends)
<1>1. \A walk, S : GoodWalk(walk, S)' <=> GoodWalk(walk, S)
  BY WalkFrame DEF GoodWalk
<1> QED BY <1>1, WalkFrame DEF SpaceOf

LEMMA EndsAreStations ==
  ASSUME input \in Inputs, TreeOK, NEW S
  PROVE  \A x \in Stations : FirstIn(S, x) \in Stations
<1> DEFINE T == {x \in Stations : FirstIn(S, x) \in Stations}
<1>1. NoId \in T
  BY FirstInRecurs DEF Stations
<1>2. ASSUME NEW y \in Nodes, cch.parent[y] \in T PROVE y \in T
  BY <1>2, FirstInRecurs DEF Stations
<1> HIDE DEF T
<1>3. Stations \subseteq T
  BY <1>1, <1>2, TreeInduction
<1> QED BY <1>3 DEF T
LEMMA SpaceGrows ==
  ASSUME GraphOK, TreeOK, pc # "contract", NEW S, NEW nodes, NEW ends, SpaceOf(S, nodes, ends), NEW s \in Nodes
  PROVE  /\ SpaceOf(S \cup Range(Ancestors(s, FirstIn(S, s))), Append(nodes, s), Append(ends, FirstIn(S, s)))
         /\ Range(Append(nodes, s)) = Range(nodes) \cup {s}
<1>1. input \in Inputs /\ S \in SUBSET Nodes /\ ParentClosed(S) /\ nodes \in Seq(S) /\ nodes \in Seq(Nodes)
      /\ ends \in Seq(Stations) /\ Len(ends) = Len(nodes) /\ GoodWalk(Walk(nodes, ends), S)
  BY DEF GraphOK, SpaceOf
<1>2. LongerWalk(S, Walk(nodes, ends), s)
  BY <1>1, WalkOfOneMore
<1> PICK stop : stop = FirstIn(S, s)
  OBVIOUS
<1>3. stop \in Stations
  BY <1>1, EndsAreStations DEF Stations
<1>4. Walk(Append(nodes, s), Append(ends, stop)) = Ancestors(s, stop) \o Walk(nodes, ends)
  BY <1>1, <1>3, WalkAppend
<1> PICK T : T = S \cup Range(Ancestors(s, stop))
  OBVIOUS
<1>5. T = Range(Ancestors(s, FirstIn(S, s))) \cup S
  OBVIOUS
<1>6. GoodWalk(Walk(Append(nodes, s), Append(ends, stop)), T) /\ ParentClosed(T) /\ s \in T /\ T \in SUBSET Nodes /\ S \subseteq T
  BY <1>2, <1>4, <1>5 DEF LongerWalk
<1>7. nodes \in Seq(T)
  BY <1>1, <1>6
<1>8. /\ Append(nodes, s) \in Seq(T) /\ Append(ends, stop) \in Seq(Stations)
      /\ Len(Append(nodes, s)) = Len(nodes) + 1 /\ Len(Append(ends, stop)) = Len(ends) + 1
  BY <1>1, <1>3, <1>6, <1>7, AppendProperties
<1>9. Range(Append(nodes, s)) = Range(nodes) \cup {s}
  <2> PICK more : more = Append(nodes, s)
    OBVIOUS
  <2>1. more \in Seq(T) /\ Len(more) = Len(nodes) + 1 /\ more[Len(nodes) + 1] = s /\ (\A i \in 1 .. Len(nodes) : more[i] = nodes[i])
        /\ Len(nodes) \in Nat
    BY <1>6, <1>7, AppendProperties
  <2>2. DOMAIN more = 1 .. Len(nodes) + 1 /\ DOMAIN nodes = 1 .. Len(nodes)
    BY <1>1, <2>1
  <2>3. 1 .. Len(nodes) + 1 = (1 .. Len(nodes)) \cup {Len(nodes) + 1}
    BY <2>1
  <2> QED BY <2>1, <2>2, <2>3 DEF Range
<1> QED BY <1>1, <1>6, <1>8, <1>9 DEF SpaceOf

LEMMA NoSpace == input \in Inputs /\ TreeOK => SpaceOf({}, <<>>, <<>>)
<1>1. <<>> \in Seq({}) /\ <<>> \in Seq(Stations) /\ Len(<<>>) = 0
  BY EmptySeq
<1> QED BY <1>1, EmptyWalk DEF SpaceOf

(* A side the call leaves alone.                                            *)
LEMMA SideKept ==
  ASSUME QueryTypeOK, UNCHANGED <<input, order, cch>>, NEW d \in Dirs, SideOK(d), st # HasRun, st # PinnedRun(Opposite(d)),
         st' # HasRun, st' # PinnedRun(Opposite(d)),
         inSpace'[d] = inSpace[d], node'[d] = node[d], end'[d] = end[d], dist'[d] = dist[d], pred'[d] = pred[d],
         asked'.src[d] = asked.src[d], Added(d)' <=> Added(d), asked'.pins = asked.pins \/ Added(d)
  PROVE  SideOK(d)'
<1>1. WalkOK(d) /\ AskedOK(d) /\ LeadsDown(pred[d]) /\ AtStart(d)
  BY DEF SideOK
<1>2. WalkOK(d)'
  BY <1>1, SideFrame
<1>3. LeadsDown(pred[d])' /\ AtStart(d)'
  BY <1>1, ArraysFrame
<1>4. AskedOK(d)'
  <2>1. CASE asked'.pins = asked.pins
    BY <1>1, <2>1, CallerFrame
  <2>2. CASE Added(d)
    <3>1. Nodes' = Nodes /\ \A y : Asked(d, y)' <=> Asked(d, y)
      BY AskedFrame DEF Nodes
    <3> QED BY <1>1, <2>2, <3>1 DEF AskedOK
  <2> QED BY <2>1, <2>2
<1> QED BY <1>2, <1>3, <1>4 DEF SideOK

(* What the caller has added, after one more call. *)
AddedTo(src, x, d0) ==
  [y \in DOMAIN src \cup {x} |-> IF y \notin DOMAIN src THEN d0 ELSE IF y = x THEN Lesser(src[y], d0) ELSE src[y]]
NextGiven(d, s, d0) == IF Asked(d, s) THEN Lesser(Given(d, s), d0) ELSE d0
LEMMA AddAsks ==
  ASSUME GraphOK, UNCHANGED order, NEW d \in Dirs, AskedOK(d), NEW x \in Nodes, NEW d0 \in 0 .. Inf, NEW s, s = Rank(x),
         asked'.src[d] = AddedTo(asked.src[d], x, d0)
  PROVE  /\ DOMAIN asked'.src[d] \subseteq Nodes /\ asked'.src[d] \in [DOMAIN asked'.src[d] -> 0 .. Inf]
         /\ s \in Nodes /\ Asked(d, s)' /\ Given(d, s)' = NextGiven(d, s, d0)
         /\ \A y \in Nodes : y # s => (Asked(d, y)' <=> Asked(d, y)) /\ Given(d, y)' = Given(d, y)
<1>1. s \in Nodes /\ order[s + 1] = x /\ \A y \in Nodes : order[y + 1] \in Nodes /\ Rank(order[y + 1]) = y
  BY OrderAndRank DEF GraphOK
<1>2. \A y \in Nodes : y # s => order[y + 1] # x
  BY <1>1
<1> PICK src : src = asked.src[d]
  OBVIOUS
<1>3. DOMAIN src \subseteq Nodes /\ src \in [DOMAIN src -> 0 .. Inf]
  BY DEF AskedOK
<1>4. /\ DOMAIN asked'.src[d] = DOMAIN src \cup {x}
      /\ \A y \in DOMAIN src \cup {x} : asked'.src[d][y] = IF y \notin DOMAIN src THEN d0 ELSE IF y = x THEN Lesser(src[y], d0) ELSE src[y]
  BY DEF AddedTo
<1>5. \A y \in DOMAIN src \cup {x} : asked'.src[d][y] \in 0 .. Inf
  BY <1>3, <1>4, InfAssumption DEF Lesser
<1>6. asked'.src[d] = [y \in DOMAIN src \cup {x} |-> asked'.src[d][y]]
  BY DEF AddedTo
<1>7. DOMAIN asked'.src[d] \subseteq Nodes /\ asked'.src[d] \in [DOMAIN asked'.src[d] -> 0 .. Inf]
  BY <1>3, <1>4, <1>5, <1>6
<1>8. \A y : (Asked(d, y)' <=> order[y + 1] \in DOMAIN asked'.src[d]) /\ (Asked(d, y) <=> order[y + 1] \in DOMAIN src)
             /\ Given(d, y)' = (IF Asked(d, y)' THEN asked'.src[d][order[y + 1]] ELSE Inf)
             /\ Given(d, y) = (IF Asked(d, y) THEN src[order[y + 1]] ELSE Inf)
  BY DEF Asked, Given
<1>9. Asked(d, s)' /\ Given(d, s)' = NextGiven(d, s, d0)
  BY <1>1, <1>4, <1>8 DEF NextGiven
<1>10. \A y \in Nodes : y # s => (Asked(d, y)' <=> Asked(d, y)) /\ Given(d, y)' = Given(d, y)
  BY <1>2, <1>4, <1>8
<1> QED BY <1>1, <1>7, <1>9, <1>10

LEMMA AddStep ==
  ASSUME IInv, TreeOK, QueryOK, pc = "customized", NEW d \in Dirs, NEW x \in Nodes, NEW d0 \in input.starts, Add(d, x, d0),
         UNCHANGED cchVars
  PROVE  QueryOK'
<1> PICK s : s = Rank(x)
  OBVIOUS
<1> PICK stop : stop = FirstIn(inSpace[d], s)
  OBVIOUS
<1>1. GraphOK /\ input \in Inputs /\ pc # "contract"
  BY DEF IInv, GraphOK
<1>2. UNCHANGED <<input, order, cch, weight, metric, pc, st>> /\ st \in {Initialized, Pinned(Opposite(d))}
  BY DEF Add, cchVars, graphVars
<1>3. QueryTypeOK /\ SideOK(d)
  BY DEF QueryOK
<1>4. \A e \in Dirs : st # HasRun /\ st # PinnedRun(e)
  BY <1>2, StatesDiffer
<1>5. Opposite(d) \in Dirs /\ Added(d) /\ Added(d)'
  BY <1>2, StatesDiffer DEF Added
<1>6. WalkOK(d) /\ AskedOK(d) /\ LeadsDown(pred[d]) /\ AtStart(d)
  BY <1>3, <1>4, <1>5 DEF SideOK
<1>7. d0 \in 0 .. Inf
  BY <1>1, CallsAssumption
<1>8. asked' = [asked EXCEPT !.src[d] = AddedTo(@, x, d0)]
  BY DEF Add, AddedTo
<1>9. asked'.pins = asked.pins /\ asked'.src[d] = AddedTo(asked.src[d], x, d0) /\ asked'.src = [asked.src EXCEPT ![d] = AddedTo(@, x, d0)]
      /\ asked' = [src |-> asked'.src, pins |-> asked'.pins]
  BY <1>3, <1>8 DEF QueryTypeOK
<1>10. asked'.src = [e \in Dirs |-> asked'.src[e]] /\ \A e \in Dirs : e # d => asked'.src[e] = asked.src[e]
  BY <1>3, <1>9 DEF QueryTypeOK
<1>11. /\ DOMAIN asked'.src[d] \subseteq Nodes /\ asked'.src[d] \in [DOMAIN asked'.src[d] -> 0 .. Inf]
       /\ s \in Nodes /\ Asked(d, s)' /\ Given(d, s)' = NextGiven(d, s, d0)
       /\ \A y \in Nodes : y # s => (Asked(d, y)' <=> Asked(d, y)) /\ Given(d, y)' = Given(d, y)
  BY <1>1, <1>2, <1>6, <1>7, <1>9, AddAsks
<1>12. SpaceOf(inSpace[d], node[d], end[d])
  BY <1>3, <1>6, SpaceOfSide
<1>13. Nodes' = Nodes /\ Stations' = Stations
  BY <1>2, WalkFrame
<1>14. CASE dist[d][s] = Inf
  <2> PICK T : T = inSpace[d] \cup Range(Ancestors(s, stop))
    OBVIOUS
  <2> PICK more : more = Append(node[d], s)
    OBVIOUS
  <2> PICK stops : stops = Append(end[d], stop)
    OBVIOUS
  <2>1. SpaceOf(T, more, stops) /\ Range(more) = Range(node[d]) \cup {s}
    BY <1>1, <1>11, <1>12, SpaceGrows
  <2>2. /\ node' = [node EXCEPT ![d] = more] /\ end' = [end EXCEPT ![d] = stops] /\ dist' = [dist EXCEPT ![d][s] = d0]
        /\ pred' = [pred EXCEPT ![d][s] = NoId] /\ inSpace' = [inSpace EXCEPT ![d] = T]
    BY <1>14 DEF Add
  <2>3. T \in SUBSET Nodes /\ more \in Seq(Nodes) /\ stops \in Seq(Nodes \cup {NoId})
    BY <2>1 DEF SpaceOf, Stations
  <2>4. QueryTypeOK'
    <3>1. dist' \in [Dirs -> [Nodes -> 0 .. Inf]] /\ pred' \in [Dirs -> [Nodes -> Nodes \cup {NoId}]]
      BY <1>3, <1>7, <1>11, <2>2 DEF QueryTypeOK
    <3>2. inSpace' \in [Dirs -> SUBSET Nodes] /\ node' \in [Dirs -> Seq(Nodes)] /\ end' \in [Dirs -> Seq(Nodes \cup {NoId})]
      BY <1>3, <2>2, <2>3 DEF QueryTypeOK
    <3> QED BY <1>3, <1>9, <1>10, <1>13, <3>1, <3>2 DEF QueryTypeOK
  <2>5. node'[d] = more /\ end'[d] = stops /\ inSpace'[d] = T
    BY <1>3, <2>2 DEF QueryTypeOK
  <2>6. WalkOK(d)'
    <3>1. SpaceOf(T, more, stops)'
      BY <1>2, <2>1, SpaceFrame
    <3>2. SpaceOf(inSpace[d], node[d], end[d])'
      BY <2>5, <3>1
    <3> QED BY <2>4, <3>2, SpaceOfSideNext
  <2>7. \A y \in Nodes : (dist'[d][y] = IF y = s THEN d0 ELSE dist[d][y]) /\ (pred'[d][y] = IF y = s THEN NoId ELSE pred[d][y])
    BY <1>3, <1>11, <2>2 DEF QueryTypeOK
  <2>8. AtStart(d)'
    <3>1. NextGiven(d, s, d0) = d0
      <4>1. Given(d, s) = Inf
        BY <1>6, <1>11, <1>14 DEF AtStart
      <4> QED BY <1>7, <4>1, InfAssumption DEF NextGiven, Lesser
    <3> QED BY <1>6, <1>11, <1>13, <2>7, <3>1 DEF AtStart
  <2>9. AskedOK(d)'
    <3>1. \A y \in Nodes : Asked(d, y) <=> y \in Range(node[d])
      BY <1>5, <1>6 DEF AskedOK
    <3>2. \A y \in Nodes : Asked(d, y)' <=> y \in Range(node'[d])
      BY <1>11, <2>1, <2>5, <3>1
    <3>3. Range(node[d])' = Range(node'[d])
      BY DEF Range
    <3> QED BY <1>5, <1>11, <1>13, <3>2, <3>3 DEF AskedOK
  <2>10. LeadsDown(pred[d])'
    BY <1>6, <1>13, <2>7 DEF LeadsDown
  <2>11. \A e \in Dirs : e # d => /\ inSpace'[e] = inSpace[e] /\ node'[e] = node[e] /\ end'[e] = end[e]
                                  /\ dist'[e] = dist[e] /\ pred'[e] = pred[e]
    BY <1>3, <2>2 DEF QueryTypeOK
  <2>12. ASSUME NEW e \in Dirs, e # d PROVE SideOK(e)'
    <3>1. SideOK(e) /\ st # PinnedRun(Opposite(e)) /\ (Added(e)' <=> Added(e))
      BY <1>2, <1>4, StatesDiffer DEF QueryOK, Added
    <3> QED BY <1>2, <1>3, <1>4, <1>9, <1>10, <2>11, <2>12, <3>1, SideKept
  <2>13. SideOK(d)'
    BY <1>2, <1>4, <1>5, <2>6, <2>8, <2>9, <2>10 DEF SideOK
  <2>14. \A e \in Dirs : SideOK(e)'
    BY <2>12, <2>13
  <2> QED BY <1>2, <1>4, <2>4, <2>14 DEF QueryOK
<1>15. CASE dist[d][s] # Inf
  <2>1. dist' = [dist EXCEPT ![d][s] = Lesser(@, d0)] /\ UNCHANGED <<node, end, pred, inSpace>>
    BY <1>15 DEF Add
  <2>2. dist[d][s] \in 0 .. Inf /\ Lesser(dist[d][s], d0) \in 0 .. Inf
    BY <1>3, <1>7, <1>11, InfAssumption DEF QueryTypeOK, Lesser
  <2>3. QueryTypeOK'
    <3>1. dist' \in [Dirs -> [Nodes -> 0 .. Inf]]
      BY <1>3, <1>11, <2>1, <2>2 DEF QueryTypeOK
    <3> QED BY <1>3, <1>9, <1>10, <1>13, <2>1, <3>1 DEF QueryTypeOK
  <2>4. Asked(d, s) /\ dist[d][s] = Given(d, s) /\ pred[d][s] = NoId
    BY <1>6, <1>11, <1>15 DEF AtStart, Given
  <2>5. \A y \in Nodes : dist'[d][y] = IF y = s THEN Lesser(dist[d][y], d0) ELSE dist[d][y]
    BY <1>3, <1>11, <2>1 DEF QueryTypeOK
  <2>6. AtStart(d)'
    BY <1>6, <1>11, <1>13, <2>1, <2>4, <2>5 DEF AtStart, NextGiven
  <2>7. AskedOK(d)'
    <3>1. \A y \in Nodes : Asked(d, y) <=> y \in Range(node[d])
      BY <1>5, <1>6 DEF AskedOK
    <3>2. \A y \in Nodes : Asked(d, y)' <=> y \in Range(node'[d])
      BY <1>11, <2>1, <2>4, <3>1
    <3>3. Range(node[d])' = Range(node'[d])
      BY DEF Range
    <3> QED BY <1>5, <1>11, <1>13, <3>2, <3>3 DEF AskedOK
  <2>8. WalkOK(d)' /\ LeadsDown(pred[d])'
    BY <1>2, <1>6, <2>1, SideFrame, ArraysFrame
  <2>9. \A e \in Dirs : e # d => dist'[e] = dist[e]
    BY <1>3, <2>1 DEF QueryTypeOK
  <2>10. ASSUME NEW e \in Dirs, e # d PROVE SideOK(e)'
    <3>1. SideOK(e) /\ st # PinnedRun(Opposite(e)) /\ (Added(e)' <=> Added(e))
      BY <1>2, <1>4, StatesDiffer DEF QueryOK, Added
    <3> QED BY <1>2, <1>3, <1>4, <1>9, <1>10, <2>1, <2>9, <2>10, <3>1, SideKept
  <2>11. SideOK(d)'
    BY <1>2, <1>4, <1>5, <2>6, <2>7, <2>8 DEF SideOK
  <2>12. \A e \in Dirs : SideOK(e)'
    BY <2>10, <2>11
  <2> QED BY <1>2, <1>4, <2>3, <2>12 DEF QueryOK
<1> QED BY <1>14, <1>15

(* A pinned list and its search space.                                      *)
PinSpace(list, i) == UNION {Range(Ancestors(Rank(list[j]), NoId)) : j \in 1 .. i}
LEMMA PinsGrow ==
  ASSUME GraphOK, TreeOK, pc # "contract", NEW list \in Seq(Nodes), NEW nodes, nodes = [i \in DOMAIN list |-> Rank(list[i])],
         NEW ends, ends = [i \in DOMAIN list |-> FirstIn(PinSpace(list, i - 1), Rank(list[i]))]
  PROVE  SpaceOf(PinSpace(list, Len(list)), nodes, ends)
<1> PICK n : n = Len(list)
  OBVIOUS
<1> PICK space : space = [i \in 0 .. n |-> PinSpace(list, i)]
  OBVIOUS
<1>1. n \in Nat /\ DOMAIN list = 1 .. n /\ input \in Inputs /\ order \in input.orders /\ \A i \in 1 .. n : list[i] \in Nodes
  BY DEF GraphOK
<1>2. \A i \in 1 .. n : nodes[i] = Rank(list[i]) /\ nodes[i] \in Nodes /\ nodes[i] \in Stations
  BY <1>1, OrderAndRank DEF Stations
<1>3. \A i \in 1 .. n : ends[i] = FirstIn(PinSpace(list, i - 1), nodes[i]) /\ ends[i] \in Stations
  BY <1>1, <1>2, EndsAreStations
<1>4. nodes \in [1 .. n -> Nodes] /\ ends \in [1 .. n -> Stations]
  BY <1>1, <1>2, <1>3
<1>5. nodes \in Seq(Nodes) /\ ends \in Seq(Stations) /\ Len(nodes) = n /\ Len(ends) = n
  BY <1>1, <1>4
<1>6. PinSpace(list, 0) = {}
  BY DEF PinSpace
<1>7. \A i \in 1 .. n : PinSpace(list, i) = Range(Ancestors(nodes[i], NoId)) \cup PinSpace(list, i - 1)
  <2> SUFFICES ASSUME NEW i \in 1 .. n PROVE PinSpace(list, i) = Range(Ancestors(nodes[i], NoId)) \cup PinSpace(list, i - 1)
    OBVIOUS
  <2>1. 1 .. i = (1 .. i - 1) \cup {i}
    BY <1>1
  <2>2. Range(Ancestors(nodes[i], NoId)) = Range(Ancestors(Rank(list[i]), NoId))
    BY <1>2
  <2> QED BY <2>1, <2>2 DEF PinSpace
<1>8. Grows(nodes, ends, space)
  <2>1. \A i \in 1 .. n : i \in 0 .. n /\ i - 1 \in 0 .. n
    BY <1>1
  <2>2. 0 \in 0 .. n /\ space[0] = {}
    BY <1>1, <1>6
  <2>3. \A i \in 1 .. n : space[i] = PinSpace(list, i) /\ space[i - 1] = PinSpace(list, i - 1)
    BY <2>1
  <2> QED BY <1>3, <1>5, <1>7, <2>2, <2>3 DEF Grows
<1> PICK T : T = PinSpace(list, n)
  OBVIOUS
<1>9. GoodWalk(Walk(nodes, ends), space[Len(nodes)]) /\ ParentClosed(space[Len(nodes)]) /\ Range(nodes) \subseteq space[Len(nodes)]
  BY <1>5, <1>8, WalkGrows
<1>10. space[Len(nodes)] = T
  BY <1>1, <1>5
<1>11. GoodWalk(Walk(nodes, ends), T) /\ ParentClosed(T) /\ Range(nodes) \subseteq T
  BY <1>9, <1>10
<1>12. T \in SUBSET Nodes
  BY <1>11 DEF GoodWalk, Range
<1>13. nodes \in Seq(T)
  <2>1. \A i \in 1 .. n : nodes[i] \in T
    BY <1>4, <1>11 DEF Range
  <2>2. nodes \in [1 .. n -> T]
    BY <1>4, <2>1
  <2> QED BY <1>1, <2>2
<1> QED BY <1>5, <1>11, <1>12, <1>13 DEF SpaceOf

(* A side nothing was added to.                                             *)
LEMMA NothingAdded ==
  ASSUME GraphOK, TreeOK, QueryTypeOK, NEW d \in Dirs, WalkOK(d), AskedOK(d), Added(d), node[d] = <<>>
  PROVE  inSpace[d] = {} /\ asked.src[d] = NoStarts
<1>1. end[d] = <<>>
  <2> PICK e : e = end[d]
    OBVIOUS
  <2>1. Len(<<>>) = 0
    OBVIOUS
  <2>2. e \in Seq(Nodes \cup {NoId}) /\ Len(e) = 0
    BY <2>1 DEF QueryTypeOK, WalkOK
  <2> QED BY <2>2, EmptySeq
<1>2. inSpace[d] = {}
  BY <1>1, NothingWalked DEF WalkOK, Walked
<1>3. \A y \in Nodes : ~Asked(d, y)
  BY NothingWalked DEF AskedOK
<1>4. DOMAIN asked.src[d] = {}
  <2>1. \A x \in Nodes : Rank(x) \in Nodes /\ order[Rank(x) + 1] = x
    BY OrderAndRank DEF GraphOK
  <2> QED BY <1>3, <2>1 DEF AskedOK, Asked
<1>5. asked.src[d] = NoStarts
  BY <1>4 DEF AskedOK, NoStarts
<1> QED BY <1>2, <1>5

LEMMA PinAllStep ==
  ASSUME IInv, TreeOK, QueryOK, pc = "customized", NEW d \in Dirs, NEW list \in input.pins, PinAll(d, list), UNCHANGED cchVars
  PROVE  QueryOK'
<1>1. GraphOK /\ input \in Inputs /\ pc # "contract" /\ input.n \in Nat /\ Nodes = 0 .. input.n - 1
  BY NodesAreNumbers DEF IInv, GraphOK, Nodes
<1>2. UNCHANGED <<input, order, cch, weight, metric, pc, dist, pred>> /\ st = Initialized /\ st' = Pinned(d) /\ node[d] = <<>>
      /\ asked' = [asked EXCEPT !.pins = list]
  BY DEF PinAll, cchVars, graphVars
<1>3. QueryTypeOK /\ SideOK(d)
  BY DEF QueryOK
<1>4. \A e \in Dirs : st # HasRun /\ st # PinnedRun(e) /\ st' # HasRun /\ st' # PinnedRun(e) /\ Opposite(e) \in Dirs /\ Added(e)
      /\ (e # d => Added(e)')
  BY <1>2, StatesDiffer DEF Added
<1>5. WalkOK(d) /\ AskedOK(d) /\ LeadsDown(pred[d]) /\ AtStart(d)
  BY <1>3, <1>4 DEF SideOK
<1>6. inSpace[d] = {} /\ asked.src[d] = NoStarts
  BY <1>1, <1>2, <1>3, <1>4, <1>5, NothingAdded
<1>7. list \in Seq(Nodes)
  BY <1>1, CallsAssumption
<1>8. Nodes' = Nodes /\ Stations' = Stations
  BY <1>2, WalkFrame
<1> PICK nodes : nodes = [i \in DOMAIN list |-> Rank(list[i])]
  OBVIOUS
<1> PICK ends : ends = [i \in DOMAIN list |-> FirstIn(PinSpace(list, i - 1), Rank(list[i]))]
  OBVIOUS
<1> PICK T : T = PinSpace(list, Len(list))
  OBVIOUS
<1>9. SpaceOf(T, nodes, ends)
  BY <1>1, <1>7, PinsGrow
<1>10. node' = [node EXCEPT ![d] = nodes] /\ end' = [end EXCEPT ![d] = ends] /\ inSpace' = [inSpace EXCEPT ![d] = T]
  <2>1. \A i : inSpace[d] \cup UNION {Range(Ancestors(Rank(list[j]), NoId)) : j \in 1 .. i} = PinSpace(list, i)
    BY <1>6 DEF PinSpace
  <2> QED BY <2>1 DEF PinAll
<1>11. T \in SUBSET Nodes /\ nodes \in Seq(Nodes) /\ ends \in Seq(Nodes \cup {NoId})
  BY <1>9 DEF SpaceOf, Stations
<1>12. node'[d] = nodes /\ end'[d] = ends /\ inSpace'[d] = T
  BY <1>3, <1>10 DEF QueryTypeOK
<1>13. asked' = [src |-> asked'.src, pins |-> asked'.pins] /\ asked'.pins = list /\ asked'.src = asked.src
  BY <1>2, <1>3 DEF QueryTypeOK
<1>14. QueryTypeOK'
  <2>1. inSpace' \in [Dirs -> SUBSET Nodes] /\ node' \in [Dirs -> Seq(Nodes)] /\ end' \in [Dirs -> Seq(Nodes \cup {NoId})]
    BY <1>3, <1>10, <1>11 DEF QueryTypeOK
  <2> QED BY <1>2, <1>3, <1>7, <1>8, <1>13, <2>1 DEF QueryTypeOK
<1>15. WalkOK(d)'
  <2>1. SpaceOf(T, nodes, ends)'
    BY <1>2, <1>9, SpaceFrame
  <2>2. SpaceOf(inSpace[d], node[d], end[d])'
    BY <1>12, <2>1
  <2> QED BY <1>14, <2>2, SpaceOfSideNext
<1>16. AskedOK(d)'
  <2>1. ~Added(d)'
    BY <1>2, StatesDiffer DEF Added
  <2>2. asked'.src[d] = NoStarts /\ node'[d] = [i \in DOMAIN asked'.pins |-> Rank(asked'.pins[i])]
    BY <1>6, <1>12, <1>13
  <2>3. \A x : Rank(x)' = Rank(x)
    BY <1>2, RankFrame
  <2>4. DOMAIN NoStarts = {} /\ NoStarts \in [{} -> 0 .. Inf]
    BY DEF NoStarts
  <2> QED BY <1>8, <2>1, <2>2, <2>3, <2>4 DEF AskedOK
<1>17. LeadsDown(pred[d])' /\ AtStart(d)'
  BY <1>2, <1>5, <1>13, ArraysFrame
<1>18. SideOK(d)'
  BY <1>4, <1>15, <1>16, <1>17 DEF SideOK
<1>19. ASSUME NEW e \in Dirs, e # d PROVE SideOK(e)'
  <2>1. inSpace'[e] = inSpace[e] /\ node'[e] = node[e] /\ end'[e] = end[e]
    BY <1>3, <1>10, <1>19 DEF QueryTypeOK
  <2>2. SideOK(e)
    BY DEF QueryOK
  <2> QED BY <1>2, <1>3, <1>4, <1>13, <1>19, <2>1, <2>2, SideKept
<1>20. \A e \in Dirs : SideOK(e)'
  BY <1>18, <1>19
<1>21. st' \in {Pinned(e) : e \in Dirs}
  BY <1>2
<1> QED BY <1>2, <1>4, <1>14, <1>20, <1>21 DEF QueryOK

(* Outside the walks a reset goes over, a distance is inf_weight already.   *)
ClearsAbove(d) == st \in {Pinned(Opposite(d)), PinnedRun(Opposite(d))}
LEMMA Elsewhere ==
  ASSUME IInv, TreeOK, QueryOK, pc = "customized", st # Initialized, NEW d \in Dirs, NEW y \in Nodes,
         y \notin inSpace[d], ClearsAbove(d) => y \notin inSpace[Opposite(d)]
  PROVE  dist[d][y] = Inf
<1>1. SideOK(d) /\ WalkOK(d) /\ AskedOK(d) /\ QueryTypeOK
  BY DEF QueryOK, SideOK
<1>2. ~Asked(d, y)
  BY <1>1, AskedIsInSpace
<1>3. CASE AtStart(d)
  BY <1>2, <1>3 DEF AtStart, Given
<1>4. CASE st = HasRun
  BY <1>1, <1>4 DEF SideOK, Closed
<1>5. CASE st = PinnedRun(Opposite(d))
  <2>1. y \notin inSpace["f"] \cup inSpace["b"]
    BY <1>5 DEF ClearsAbove, Opposite, Dirs
  <2> QED BY <1>1, <1>5, <2>1 DEF SideOK, Closed
<1> QED BY <1>1, <1>3, <1>4, <1>5 DEF SideOK

(* A side that has been emptied.                                            *)
LEMMA CleanSide ==
  ASSUME GraphOK, TreeOK, QueryTypeOK, QueryTypeOK', UNCHANGED <<input, order, cch>>, NEW d \in Dirs, LeadsDown(pred[d]),
         node'[d] = <<>>, end'[d] = <<>>, inSpace'[d] = {}, asked'.src[d] = NoStarts, pred'[d] = pred[d],
         \A y \in Nodes : dist'[d][y] = Inf, Added(d)', st' # HasRun, st' # PinnedRun(Opposite(d))
  PROVE  SideOK(d)'
<1>1. Nodes' = Nodes
  BY WalkFrame
<1>2. WalkOK(d)'
  <2>1. SpaceOf({}, <<>>, <<>>)
    BY NoSpace DEF GraphOK
  <2>2. SpaceOf({}, <<>>, <<>>)'
    BY <2>1, SpaceFrame
  <2>3. SpaceOf(inSpace[d], node[d], end[d])'
    BY <2>2
  <2> QED BY <2>3, SpaceOfSideNext
<1>3. DOMAIN NoStarts = {} /\ NoStarts \in [{} -> 0 .. Inf]
  BY DEF NoStarts
<1>4. \A y : ~Asked(d, y)'
  BY <1>3 DEF Asked
<1>5. AskedOK(d)'
  <2>1. Range(node[d])' = {}
    <3>1. DOMAIN <<>> = {}
      OBVIOUS
    <3> QED BY <3>1 DEF Range
  <2> QED BY <1>3, <1>4, <2>1 DEF AskedOK
<1>6. AtStart(d)'
  BY <1>1, <1>4 DEF AtStart, Given
<1>7. LeadsDown(pred[d])'
  BY ArraysFrame
<1> QED BY <1>2, <1>5, <1>6, <1>7 DEF SideOK

LEMMA WalkedIsSpace == QueryOK => \A d \in Dirs : Range(Walked(d)) = inSpace[d] /\ inSpace[d] \ Range(Walked(d)) = {}
BY DEF QueryOK, SideOK, WalkOK

LEMMA ResetOneStep ==
  ASSUME IInv, TreeOK, QueryOK, pc = "customized", NEW d \in Dirs, ResetOne(d), UNCHANGED cchVars
  PROVE  QueryOK'
<1> PICK e : e = Opposite(d)
  OBVIOUS
<1>1. GraphOK /\ input \in Inputs
  BY DEF IInv, GraphOK
<1>2. UNCHANGED <<input, order, cch, weight, metric, pc, pred>> /\ st \in {Pinned(e), PinnedRun(e)} /\ st' = Pinned(e)
      /\ asked' = [asked EXCEPT !.src[d] = NoStarts]
  BY DEF ResetOne, cchVars, graphVars
<1>3. /\ e \in Dirs /\ e # d /\ d = Opposite(e) /\ st # Initialized /\ st # HasRun /\ st # PinnedRun(d) /\ st' # HasRun
      /\ \A c \in Dirs : st' # PinnedRun(c) /\ (c = d \/ c = e)
  BY <1>2, StatesDiffer
<1>4. Added(d)' /\ ~Added(e)' /\ ~Added(e)
  BY <1>2, <1>3, StatesDiffer DEF Added
<1>5. QueryTypeOK /\ \A c \in Dirs : SideOK(c) /\ LeadsDown(pred[c])
  BY DEF QueryOK, SideOK
<1>6. asked' = [src |-> asked'.src, pins |-> asked'.pins] /\ asked'.pins = asked.pins /\ asked'.src[d] = NoStarts
      /\ asked'.src = [c \in Dirs |-> asked'.src[c]] /\ asked'.src[e] = asked.src[e]
  BY <1>2, <1>3, <1>5 DEF QueryTypeOK
<1>7. /\ node' = [node EXCEPT ![d] = <<>>] /\ end' = [end EXCEPT ![d] = <<>>]
      /\ dist' = [dist EXCEPT ![d] = ClearedOver(e, ClearedOver(d, dist[d]))]
      /\ inSpace' = [inSpace EXCEPT ![d] = {}]
  <2>1. inSpace[d] \ Range(Walked(d)) = {}
    BY WalkedIsSpace
  <2> QED BY <2>1 DEF ResetOne
<1>8. \A y \in Nodes : ClearedOver(e, ClearedOver(d, dist[d]))[y] = Inf
  <2> SUFFICES ASSUME NEW y \in Nodes PROVE ClearedOver(e, ClearedOver(d, dist[d]))[y] = Inf
    OBVIOUS
  <2>1. ClearedOver(e, ClearedOver(d, dist[d]))[y] = IF y \in inSpace[e] \/ y \in inSpace[d] THEN Inf ELSE dist[d][y]
    BY <1>3, WalkedIsSpace DEF ClearedOver
  <2>2. y \notin inSpace[e] /\ y \notin inSpace[d] => dist[d][y] = Inf
    BY <1>3, Elsewhere DEF ClearsAbove
  <2> QED BY <2>1, <2>2
<1> PICK clear : clear = ClearedOver(e, ClearedOver(d, dist[d]))
  OBVIOUS
<1>9. clear \in [Nodes -> 0 .. Inf] /\ \A y \in Nodes : clear[y] = Inf
  <2>1. clear = [y \in Nodes |-> clear[y]]
    BY DEF ClearedOver
  <2> QED BY <1>8, <2>1, InfAssumption
<1>10. Nodes' = Nodes
  BY <1>2, WalkFrame
<1>11. QueryTypeOK'
  <2>1. <<>> \in Seq(Nodes) /\ <<>> \in Seq(Nodes \cup {NoId})
    BY EmptySeq
  <2>2. dist' \in [Dirs -> [Nodes -> 0 .. Inf]] /\ inSpace' \in [Dirs -> SUBSET Nodes]
    BY <1>5, <1>7, <1>9 DEF QueryTypeOK
  <2>3. node' \in [Dirs -> Seq(Nodes)] /\ end' \in [Dirs -> Seq(Nodes \cup {NoId})]
    BY <1>5, <1>7, <2>1 DEF QueryTypeOK
  <2> QED BY <1>2, <1>5, <1>6, <1>10, <2>2, <2>3 DEF QueryTypeOK
<1>12. node'[d] = <<>> /\ end'[d] = <<>> /\ inSpace'[d] = {} /\ dist'[d] = clear
       /\ node'[e] = node[e] /\ end'[e] = end[e] /\ inSpace'[e] = inSpace[e] /\ dist'[e] = dist[e]
  BY <1>3, <1>5, <1>7 DEF QueryTypeOK
<1>13. SideOK(d)'
  BY <1>1, <1>2, <1>3, <1>4, <1>5, <1>6, <1>9, <1>11, <1>12, CleanSide
<1>14. SideOK(e)'
  BY <1>2, <1>3, <1>4, <1>5, <1>6, <1>12, SideKept
<1>15. \A c \in Dirs : SideOK(c)'
  BY <1>3, <1>13, <1>14
<1>16. st' \in {Pinned(c) : c \in Dirs}
  BY <1>2, <1>3
<1> QED BY <1>2, <1>3, <1>11, <1>15, <1>16 DEF QueryOK

LEMMA ResetStep ==
  ASSUME IInv, TreeOK, QueryOK, pc = "customized", Reset, UNCHANGED cchVars
  PROVE  QueryOK'
<1>1. GraphOK /\ input \in Inputs
  BY DEF IInv, GraphOK
<1>2. UNCHANGED <<input, order, cch, weight, metric, pc, pred>> /\ st # Initialized /\ st' = Initialized
      /\ asked' = [src |-> BothSides(NoStarts), pins |-> <<>>] /\ node' = BothSides(<<>>) /\ end' = BothSides(<<>>)
  BY DEF Reset, cchVars, graphVars
<1>3. QueryTypeOK /\ \A d \in Dirs : SideOK(d) /\ LeadsDown(pred[d])
  BY DEF QueryOK, SideOK
<1>4. inSpace' = BothSides({})
  BY WalkedIsSpace DEF Reset, BothSides
<1>5. \A d \in Dirs : /\ node'[d] = <<>> /\ end'[d] = <<>> /\ inSpace'[d] = {} /\ asked'.src[d] = NoStarts /\ Added(d)'
                      /\ st' # HasRun /\ st' # PinnedRun(d) /\ st' # PinnedRun(Opposite(d)) /\ Opposite(d) \in Dirs
  BY <1>2, <1>4, StatesDiffer DEF BothSides, Added
<1>6. ASSUME NEW d \in Dirs
      PROVE  dist'[d] \in [Nodes -> 0 .. Inf] /\ \A y \in Nodes : dist'[d][y] = Inf
  <2> PICK base : base = IF ClearsAbove(d) THEN ClearedOver(Opposite(d), dist[d]) ELSE dist[d]
    OBVIOUS
  <2>1. dist'[d] = ClearedOver(d, base)
    BY DEF Reset, ClearsAbove
  <2>2. \A y \in Nodes : ClearedOver(d, base)[y] = Inf
    <3> SUFFICES ASSUME NEW y \in Nodes, y \notin inSpace[d] PROVE base[y] = Inf
      BY WalkedIsSpace DEF ClearedOver
    <3>1. CASE ClearsAbove(d) /\ y \in inSpace[Opposite(d)]
      BY <1>5, <3>1, WalkedIsSpace DEF ClearedOver
    <3>2. CASE ClearsAbove(d) /\ y \notin inSpace[Opposite(d)]
      <4>1. base[y] = dist[d][y]
        BY <1>5, <3>2, WalkedIsSpace DEF ClearedOver
      <4> QED BY <1>2, <3>2, <4>1, Elsewhere
    <3>3. CASE ~ClearsAbove(d)
      BY <1>2, <3>3, Elsewhere
    <3> QED BY <3>1, <3>2, <3>3
  <2>3. ClearedOver(d, base) = [y \in Nodes |-> ClearedOver(d, base)[y]]
    BY DEF ClearedOver
  <2> QED BY <2>1, <2>2, <2>3, InfAssumption
<1>7. Nodes' = Nodes
  BY <1>2, WalkFrame
<1>8. QueryTypeOK'
  <2>1. <<>> \in Seq(Nodes) /\ <<>> \in Seq(Nodes \cup {NoId})
    BY EmptySeq
  <2>2. dist' = [d \in Dirs |-> dist'[d]]
    BY DEF Reset
  <2>3. dist' \in [Dirs -> [Nodes -> 0 .. Inf]]
    BY <1>6, <2>2
  <2>4. inSpace' \in [Dirs -> SUBSET Nodes] /\ node' \in [Dirs -> Seq(Nodes)] /\ end' \in [Dirs -> Seq(Nodes \cup {NoId})]
    BY <1>2, <1>4, <2>1 DEF BothSides
  <2>5. asked' = [src |-> asked'.src, pins |-> asked'.pins] /\ asked'.pins \in Seq(Nodes) /\ asked'.src = [d \in Dirs |-> asked'.src[d]]
    BY <1>2, <2>1 DEF BothSides
  <2> QED BY <1>2, <1>3, <1>7, <2>3, <2>4, <2>5 DEF QueryTypeOK
<1>9. ASSUME NEW d \in Dirs PROVE SideOK(d)'
  BY <1>1, <1>2, <1>3, <1>5, <1>6, <1>8, CleanSide
<1> QED BY <1>2, <1>5, <1>8, <1>9, StatesDiffer DEF QueryOK

LEMMA QueryStep == ASSUME IInv, TreeOK, QueryOK, [Next]_vars PROVE QueryOK'
<1>1. CASE UNCHANGED vars
  BY <1>1, QueryStutters
<1>2. CASE Customizing /\ UNCHANGED queryVars
  BY <1>2, CustomizingRests
<1>3. CASE Free /\ (\E w \in input.weights : Reweigh(w)) /\ UNCHANGED queryVars
  BY <1>3, ReweighRests
<1>4. CASE pc = "customized" /\ Asking /\ UNCHANGED cchVars
  <2>1. CASE \E d \in Dirs, x \in Nodes, d0 \in input.starts : Add(d, x, d0)
    BY <1>4, <2>1, AddStep
  <2>2. CASE Run
    BY <1>4, <2>2, RunStep
  <2>3. CASE Reset
    BY <1>4, <2>3, ResetStep
  <2>4. CASE \E d \in Dirs : RunToPinned(d) \/ ResetOne(d)
    BY <1>4, <2>4, RunToPinnedStep, ResetOneStep
  <2>5. CASE \E d \in Dirs, list \in input.pins : PinAll(d, list)
    BY <1>4, <2>5, PinAllStep
  <2> QED BY <1>4, <2>1, <2>2, <2>3, <2>4, <2>5 DEF Asking
<1> QED BY <1>1, <1>2, <1>3, <1>4 DEF Next

(* What holds of a query object in every state: its search spaces are closed *)
(* under the elimination tree and walked in order, a run leaves no arc that  *)
(* could lower a distance, and every finite distance comes from a start.     *)
(* Every call of add_source, run, pin_targets, run_to_pinned_targets and the *)
(* resets keeps it, whatever earlier rounds left in the arrays.              *)
THEOREM QueryInvariant == Spec => []QInv
<1>1. Start => QInv
  BY InitOK, TreeBegins, QueryBegins DEF Start, QInv
<1>2. QInv /\ [Next]_vars => QInv'
  <2> SUFFICES ASSUME IInv, TreeOK, QueryOK, [Next]_vars PROVE QInv'
    BY DEF QInv
  <2>1. IInv'
    BY NextOK
  <2>2. TreeOK'
    BY TreeStep
  <2>3. QueryOK'
    BY QueryStep
  <2> QED BY <2>1, <2>2, <2>3 DEF QInv
<1> QED BY <1>1, <1>2, PTL DEF Spec

(* Between the runs the weights may change, after one they may not.         *)
LEMMA RunsAreReady ==
  ASSUME QInv, st = HasRun \/ \E p \in Dirs : st = PinnedRun(p)
  PROVE  Ready /\ QuerySides
<1>1. ~Free
  BY StatesDiffer DEF Free, Dirs
<1>2. pc = "customized"
  BY <1>1 DEF QInv, QueryOK
<1>3. Ready
  BY <1>2, ReadyWhenCustomized DEF QInv
<1>4. QuerySides
  BY DEF QInv, QueryOK, SideOK, QuerySides
<1> QED BY <1>3, <1>4

LEMMA PinnedAtTheEnd == QInv => PinnedIsShortest
<1> SUFFICES ASSUME QInv, NEW p \in Dirs, st = PinnedRun(p), NEW i \in DOMAIN asked.pins PROVE Answered(p, i)
  BY DEF PinnedIsShortest, Answered
<1>1. Ready /\ QuerySides
  BY RunsAreReady
<1>2. PinnedOK(Opposite(p))
  <2>1. Opposite(p) \in Dirs /\ Opposite(Opposite(p)) = p
    BY StatesDiffer
  <2> QED BY <2>1 DEF QInv, QueryOK, SideOK
<1> QED BY <1>1, <1>2, PinnedIsBest

(* After every run to pinned targets, or sources, each pinned node has its   *)
(* shortest distance: the stack the run kept in the distances of the other   *)
(* side and the stale ones of earlier weights do no harm.                    *)
THEOREM PinnedRunsAreShortest == Spec => []PinnedIsShortest
BY QueryInvariant, PinnedAtTheEnd, PTL

-----------------------------------------------------------------------------
(* A drive: segments that lead on from x to y, every one over an input arc  *)
(* that has the weight of its arc.                                          *)
SourceOf(d, p) == IF d = "f" THEN p[1] ELSE p[2]
TargetOf(d, p) == IF d = "f" THEN p[2] ELSE p[1]
Segments == [dir : Dirs, arc : cch.up, from : Nodes]
Cost(s) == metric[s.dir][s.arc]
Leg(s, x, y) ==
  /\ s \in Segments /\ x = s.from /\ x = SourceOf(s.dir, s.arc) /\ y = TargetOf(s.dir, s.arc)
  /\ Cost(s) \in Nat /\ Cost(s) < Inf /\ Cost(s) = Extract(s.dir, s.arc)
Marks(u, P, W) ==
  /\ P \in [0 .. Len(u) -> Nodes] /\ W \in [0 .. Len(u) -> Nat] /\ W[0] = 0
  /\ \A i \in 1 .. Len(u) : Leg(u[i], P[i - 1], P[i]) /\ W[i] = W[i - 1] + Cost(u[i])
Drive(u, x, y, len) ==
  u \in Seq(Segments) /\ \E P, W : Marks(u, P, W) /\ P[0] = x /\ P[Len(u)] = y /\ W[Len(u)] = len

LEMMA NoDrive == ASSUME NEW x \in Nodes PROVE Drive(<<>>, x, x, 0)
<1>1. <<>> \in Seq(Segments) /\ Len(<<>>) = 0
  BY EmptySeq
<1> PICK P : P = [i \in 0 .. 0 |-> x]
  OBVIOUS
<1> PICK W : W = [i \in 0 .. 0 |-> 0]
  OBVIOUS
<1>2. P \in [0 .. 0 -> Nodes] /\ W \in [0 .. 0 -> Nat] /\ P[0] = x /\ W[0] = 0
  OBVIOUS
<1>3. Marks(<<>>, P, W)
  BY <1>1, <1>2 DEF Marks
<1> QED BY <1>1, <1>2, <1>3 DEF Drive

LEMMA OneLeg ==
  ASSUME NEW s, NEW x \in Nodes, NEW y \in Nodes, Leg(s, x, y), NEW u, u = <<s>>
  PROVE  Drive(u, x, y, Cost(s))
<1>1. s \in Segments /\ Cost(s) \in Nat
  BY DEF Leg
<1>2. u \in Seq(Segments) /\ Len(u) = 1 /\ u[1] = s
  BY <1>1
<1> PICK P : P = [i \in 0 .. 1 |-> IF i = 0 THEN x ELSE y]
  OBVIOUS
<1> PICK W : W = [i \in 0 .. 1 |-> IF i = 0 THEN 0 ELSE Cost(s)]
  OBVIOUS
<1>3. P \in [0 .. 1 -> Nodes] /\ P[0] = x /\ P[1] = y
  OBVIOUS
<1>4. W \in [0 .. 1 -> Nat] /\ W[0] = 0 /\ W[1] = Cost(s)
  BY <1>1
<1>5. \A i \in 1 .. 1 : i = 1 /\ i - 1 = 0
  OBVIOUS
<1>6. W[1] = W[0] + Cost(s)
  BY <1>1, <1>4
<1>7. Marks(u, P, W)
  BY <1>2, <1>3, <1>4, <1>5, <1>6 DEF Marks
<1> QED BY <1>2, <1>3, <1>4, <1>7 DEF Drive

LEMMA DrivesJoin ==
  ASSUME NEW u, NEW v, NEW x, NEW y, NEW z, NEW k, NEW l, Drive(u, x, y, k), Drive(v, y, z, l)
  PROVE  Drive(u \o v, x, z, k + l)
<1> PICK m : m = Len(u)
  OBVIOUS
<1> PICK n : n = Len(v)
  OBVIOUS
<1>1. PICK P, W : Marks(u, P, W) /\ P[0] = x /\ P[m] = y /\ W[m] = k
  BY DEF Drive
<1>2. PICK Q, V : Marks(v, Q, V) /\ Q[0] = y /\ Q[n] = z /\ V[n] = l
  BY DEF Drive
<1>3. u \in Seq(Segments) /\ v \in Seq(Segments) /\ m \in Nat /\ n \in Nat
  BY DEF Drive
<1> PICK w : w = u \o v
  OBVIOUS
<1>4. w \in Seq(Segments) /\ Len(w) = m + n /\ \A i \in 1 .. m + n : w[i] = IF i <= m THEN u[i] ELSE v[i - m]
  BY <1>3, ConcatLen, ConcatAt
<1>5. P \in [0 .. m -> Nodes] /\ W \in [0 .. m -> Nat] /\ W[0] = 0
      /\ \A i \in 1 .. m : Leg(u[i], P[i - 1], P[i]) /\ W[i] = W[i - 1] + Cost(u[i])
  BY <1>1 DEF Marks
<1>6. Q \in [0 .. n -> Nodes] /\ V \in [0 .. n -> Nat] /\ V[0] = 0
      /\ \A i \in 1 .. n : Leg(v[i], Q[i - 1], Q[i]) /\ V[i] = V[i - 1] + Cost(v[i])
  BY <1>2 DEF Marks
<1> PICK R : R = [i \in 0 .. m + n |-> IF i <= m THEN P[i] ELSE Q[i - m]]
  OBVIOUS
<1> PICK Y : Y = [i \in 0 .. m + n |-> IF i <= m THEN W[i] ELSE k + V[i - m]]
  OBVIOUS
<1>7. k \in Nat /\ l \in Nat
  <2>1. m \in 0 .. m /\ n \in 0 .. n
    BY <1>3
  <2>2. W[m] \in Nat /\ V[n] \in Nat
    BY <1>5, <1>6, <2>1
  <2> QED BY <1>1, <1>2, <2>2
<1>8. \A i \in 0 .. m : R[i] = P[i] /\ Y[i] = W[i]
  BY <1>3
<1>9. ASSUME NEW j \in 0 .. n PROVE R[m + j] = Q[j] /\ Y[m + j] = k + V[j]
  <2> PICK i : i = m + j
    OBVIOUS
  <2>1. i \in 0 .. m + n /\ i - m = j
    BY <1>3
  <2>2. CASE j = 0
    <3>1. i = m /\ R[m] = P[m] /\ Y[m] = W[m]
      BY <1>3, <1>8, <2>2
    <3> QED BY <1>1, <1>2, <1>6, <1>7, <2>2, <3>1
  <2>3. CASE j # 0
    <3>1. ~(i <= m)
      BY <1>3, <2>3
    <3> QED BY <2>1, <3>1
  <2> QED BY <2>2, <2>3
<1>10. \A i \in 0 .. m + n : i \in 0 .. m \/ \E j \in 0 .. n : i = m + j
  BY <1>3
<1>11. R \in [0 .. m + n -> Nodes] /\ Y \in [0 .. m + n -> Nat]
  <2>1. ASSUME NEW i \in 0 .. m + n PROVE R[i] \in Nodes /\ Y[i] \in Nat
    <3>1. CASE i \in 0 .. m
      BY <1>5, <1>8, <3>1
    <3>2. ASSUME NEW j \in 0 .. n, i = m + j PROVE R[i] \in Nodes /\ Y[i] \in Nat
      <4>1. R[i] = Q[j] /\ Y[i] = k + V[j]
        BY <1>9, <3>2
      <4>2. Q[j] \in Nodes /\ V[j] \in Nat
        BY <1>6
      <4>3. k + V[j] \in Nat
        BY <1>7, <4>2
      <4> QED BY <4>1, <4>2, <4>3
    <3> QED BY <1>10, <3>1, <3>2
  <2>2. R = [i \in 0 .. m + n |-> R[i]] /\ Y = [i \in 0 .. m + n |-> Y[i]]
    OBVIOUS
  <2> QED BY <2>1, <2>2
<1>12. ASSUME NEW i \in 1 .. m + n
       PROVE  Leg(w[i], R[i - 1], R[i]) /\ Y[i] = Y[i - 1] + Cost(w[i])
  <2> PICK h : h = i - 1
    OBVIOUS
  <2>1. CASE i <= m
    <3>1. i \in 1 .. m /\ h \in 0 .. m /\ i \in 0 .. m
      BY <1>3, <2>1
    <3>2. R[h] = P[h] /\ R[i] = P[i] /\ Y[h] = W[h] /\ Y[i] = W[i] /\ w[i] = u[i]
      BY <1>4, <1>8, <2>1, <3>1
    <3>3. Leg(u[i], P[h], P[i]) /\ W[i] = W[h] + Cost(u[i])
      BY <1>5, <3>1
    <3> QED BY <3>2, <3>3
  <2>2. CASE ~(i <= m)
    <3> PICK j : j = i - m
      OBVIOUS
    <3> PICK g : g = j - 1
      OBVIOUS
    <3>1. j \in 1 .. n /\ g \in 0 .. n /\ j \in 0 .. n /\ i = m + j /\ h = m + g
      BY <1>3, <2>2
    <3>2. R[h] = Q[g] /\ Y[h] = k + V[g] /\ R[i] = Q[j] /\ Y[i] = k + V[j]
      BY <1>9, <3>1
    <3>3. w[i] = v[j]
      BY <1>4, <2>2
    <3>4. Leg(v[j], Q[g], Q[j]) /\ V[j] = V[g] + Cost(v[j]) /\ Cost(v[j]) \in Nat /\ V[g] \in Nat
      BY <1>6, <3>1 DEF Leg
    <3> QED BY <1>7, <3>2, <3>3, <3>4
  <2> QED BY <2>1, <2>2
<1>13. R[0] = x /\ Y[0] = 0 /\ R[m + n] = z /\ Y[m + n] = k + l
  <2>1. 0 \in 0 .. m /\ n \in 0 .. n
    BY <1>3
  <2> QED BY <1>1, <1>2, <1>5, <1>8, <1>9, <2>1
<1>14. Marks(w, R, Y)
  BY <1>4, <1>11, <1>12, <1>13 DEF Marks
<1> QED BY <1>4, <1>13, <1>14 DEF Drive

(* What an arc unpacks into.                                                *)
LowestFit(d, p) == Min(Fitting(d, p))
Inward(d, p) == <<LowestFit(d, p), SourceOf(d, p)>>
Outward(d, p) == <<LowestFit(d, p), TargetOf(d, p)>>
Fits(d, p) ==
  LET x == LowestFit(d, p) IN
  /\ x \in Nodes /\ x < p[1] /\ Inward(d, p) \in cch.up /\ Outward(d, p) \in cch.up
  /\ metric[d][p] = metric["b"][Inward(d, p)] + metric["f"][Outward(d, p)]
LEMMA FittingFits ==
  ASSUME GraphOK, metric \in Metrics, NEW d \in Dirs, NEW p \in cch.up, Fitting(d, p) # {}
  PROVE  Fits(d, p)
<1>1. Fitting(d, p) \in SUBSET Nat /\ Nodes \in SUBSET Nat
  BY NodesAreNumbers DEF Fitting, LowerTriangles, Down, GraphOK
<1> PICK x : x = LowestFit(d, p)
  OBVIOUS
<1>2. x \in Fitting(d, p)
  BY <1>1, MinIsLeast DEF LowestFit
<1>3. x \in Nodes /\ <<x, p[1]>> \in cch.up /\ <<x, p[2]>> \in cch.up /\ metric[d][p] = OverLower(metric, d, <<x, p[1]>>, <<x, p[2]>>)
  BY <1>2 DEF Fitting, LowerTriangles, Down
<1>4. x < p[1]
  BY <1>3 DEF GraphOK, Pairs
<1>5. CASE d = "f"
  BY <1>3, <1>4, <1>5 DEF Fits, Inward, Outward, SourceOf, TargetOf, OverLower, Opposite
<1>6. CASE d = "b"
  <2>1. metric["f"][<<x, p[1]>>] \in Nat /\ metric["b"][<<x, p[2]>>] \in Nat
    BY <1>3 DEF Metrics, Dirs
  <2>2. metric[d][p] = metric["f"][<<x, p[1]>>] + metric["b"][<<x, p[2]>>]
    BY <1>3, <1>6 DEF OverLower, Opposite
  <2>3. Inward(d, p) = <<x, p[2]>> /\ Outward(d, p) = <<x, p[1]>>
    BY <1>6 DEF Inward, Outward, SourceOf, TargetOf
  <2> QED BY <1>3, <1>4, <2>1, <2>2, <2>3 DEF Fits
<1> QED BY <1>5, <1>6 DEF Dirs

ArcDirs == Dirs \X cch.up
UnpackRank == [c \in ArcDirs |-> c[2][1]]
UnpackStep ==
  [c \in ArcDirs |-> [f \in [ArcDirs -> Seq(Segments)] |->
     IF Fitting(c[1], c[2]) = {} THEN Segment(c[1], c[2])
     ELSE f[<<"b", Inward(c[1], c[2])>>] \o f[<<"f", Outward(c[1], c[2])>>]]]
LEMMA SegmentIsOne ==
  ASSUME GraphOK, NEW d \in Dirs, NEW p \in cch.up
  PROVE  \E s : Segment(d, p) = <<s>> /\ s \in Segments /\ s.dir = d /\ s.arc = p /\ s.from = SourceOf(d, p)
<1>1. SourceOf(d, p) \in Nodes
  BY DEF SourceOf, GraphOK, Pairs
<1>2. [dir |-> d, arc |-> p, from |-> SourceOf(d, p)] \in Segments
  BY <1>1 DEF Segments
<1> QED BY <1>2 DEF Segment, SourceOf
LEMMA UnpackStepwise ==
  ASSUME GraphOK, metric \in Metrics
  PROVE  Stepwise(ArcDirs, Seq(Segments), UnpackStep) /\ Local(ArcDirs, Seq(Segments), UnpackRank, UnpackStep)
<1>1. ASSUME NEW c \in ArcDirs, NEW f \in [ArcDirs -> Seq(Segments)]
      PROVE  UnpackStep[c][f] = IF Fitting(c[1], c[2]) = {} THEN Segment(c[1], c[2])
                                ELSE f[<<"b", Inward(c[1], c[2])>>] \o f[<<"f", Outward(c[1], c[2])>>]
  BY DEF UnpackStep
<1>2. ASSUME NEW c \in ArcDirs, Fitting(c[1], c[2]) # {}
      PROVE  /\ <<"b", Inward(c[1], c[2])>> \in Lower(ArcDirs, UnpackRank, c) /\ <<"f", Outward(c[1], c[2])>> \in Lower(ArcDirs, UnpackRank, c)
             /\ <<"b", Inward(c[1], c[2])>> \in ArcDirs /\ <<"f", Outward(c[1], c[2])>> \in ArcDirs
  <2>1. c[1] \in Dirs /\ c[2] \in cch.up
    BY DEF ArcDirs
  <2>2. Fits(c[1], c[2])
    BY <1>2, <2>1, FittingFits
  <2> PICK i : i = Inward(c[1], c[2])
    OBVIOUS
  <2> PICK o : o = Outward(c[1], c[2])
    OBVIOUS
  <2>3. i \in cch.up /\ o \in cch.up /\ i[1] < c[2][1] /\ o[1] < c[2][1]
    BY <2>2 DEF Fits, Inward, Outward
  <2>4. <<"b", i>> \in ArcDirs /\ <<"f", o>> \in ArcDirs
    BY <2>3 DEF ArcDirs, Dirs
  <2>5. UnpackRank[<<"b", i>>] = i[1] /\ UnpackRank[<<"f", o>>] = o[1] /\ UnpackRank[c] = c[2][1]
    BY <2>4 DEF UnpackRank
  <2> QED BY <2>3, <2>4, <2>5 DEF Lower
<1>3. Stepwise(ArcDirs, Seq(Segments), UnpackStep)
  <2> SUFFICES ASSUME NEW c \in ArcDirs, NEW f \in [ArcDirs -> Seq(Segments)] PROVE UnpackStep[c][f] \in Seq(Segments)
    BY DEF Stepwise
  <2>1. CASE Fitting(c[1], c[2]) = {}
    <3>1. PICK s : Segment(c[1], c[2]) = <<s>> /\ s \in Segments
      BY SegmentIsOne DEF ArcDirs
    <3>2. <<s>> \in Seq(Segments)
      BY <3>1
    <3> QED BY <1>1, <2>1, <3>1, <3>2
  <2>2. CASE Fitting(c[1], c[2]) # {}
    <3>1. f[<<"b", Inward(c[1], c[2])>>] \in Seq(Segments) /\ f[<<"f", Outward(c[1], c[2])>>] \in Seq(Segments)
      BY <1>2, <2>2
    <3> QED BY <1>1, <2>2, <3>1, ConcatProperties
  <2> QED BY <2>1, <2>2
<1>4. Local(ArcDirs, Seq(Segments), UnpackRank, UnpackStep)
  <2> SUFFICES ASSUME NEW c \in ArcDirs, NEW f \in [ArcDirs -> Seq(Segments)], NEW g \in [ArcDirs -> Seq(Segments)],
                      \A e \in Lower(ArcDirs, UnpackRank, c) : f[e] = g[e]
               PROVE  UnpackStep[c][f] = UnpackStep[c][g]
    BY DEF Local
  <2>1. CASE Fitting(c[1], c[2]) = {}
    BY <1>1, <2>1
  <2>2. CASE Fitting(c[1], c[2]) # {}
    <3>1. f[<<"b", Inward(c[1], c[2])>>] = g[<<"b", Inward(c[1], c[2])>>] /\ f[<<"f", Outward(c[1], c[2])>>] = g[<<"f", Outward(c[1], c[2])>>]
      BY <1>2, <2>2
    <3> QED BY <1>1, <2>2, <3>1
  <2> QED BY <2>1, <2>2
<1> QED BY <1>3, <1>4

UnpackBy(U) ==
  U = [c \in Dirs \X cch.up |->
        IF Fitting(c[1], c[2]) = {} THEN Segment(c[1], c[2])
        ELSE LET x == Min(Fitting(c[1], c[2]))
                 first == c[2][IF c[1] = "f" THEN 1 ELSE 2]
                 last == c[2][IF c[1] = "f" THEN 2 ELSE 1]
             IN U[<<"b", <<x, first>>>>] \o U[<<"f", <<x, last>>>>]]
UnpackIn(U, d, p) ==
  U[<<d, p>>] = IF Fitting(d, p) = {} THEN Segment(d, p) ELSE U[<<"b", Inward(d, p)>>] \o U[<<"f", Outward(d, p)>>]
LEMMA UnpackByIn == ASSUME NEW U PROVE UnpackBy(U) <=> DOMAIN U = ArcDirs /\ U = [c \in ArcDirs |-> U[c]] /\ \A d \in Dirs, p \in cch.up : UnpackIn(U, d, p)
<1>1. \A d, p : p[IF d = "f" THEN 1 ELSE 2] = SourceOf(d, p) /\ p[IF d = "f" THEN 2 ELSE 1] = TargetOf(d, p)
  BY DEF SourceOf, TargetOf
<1> PICK X : X = [c \in ArcDirs |-> IF Fitting(c[1], c[2]) = {} THEN Segment(c[1], c[2])
                                   ELSE U[<<"b", Inward(c[1], c[2])>>] \o U[<<"f", Outward(c[1], c[2])>>]]
  OBVIOUS
<1>2. UnpackBy(U) <=> U = X
  BY <1>1 DEF UnpackBy, ArcDirs, Inward, Outward, LowestFit
<1>3. \A d \in Dirs, p \in cch.up : <<d, p>> \in ArcDirs /\ (UnpackIn(U, d, p) <=> U[<<d, p>>] = X[<<d, p>>])
  BY DEF ArcDirs, UnpackIn
<1>4. \A c \in ArcDirs : c = <<c[1], c[2]>> /\ c[1] \in Dirs /\ c[2] \in cch.up
  BY DEF ArcDirs
<1>5. X = [c \in ArcDirs |-> X[c]] /\ DOMAIN X = ArcDirs
  OBVIOUS
<1>6. ASSUME DOMAIN U = ArcDirs, U = [c \in ArcDirs |-> U[c]], \A d \in Dirs, p \in cch.up : UnpackIn(U, d, p) PROVE U = X
  <2>1. ASSUME NEW c \in ArcDirs PROVE U[c] = X[c]
    <3>1. PICK d \in Dirs, p \in cch.up : c = <<d, p>>
      BY DEF ArcDirs
    <3>2. UnpackIn(U, d, p)
      BY <1>6
    <3> QED BY <1>3, <3>1, <3>2
  <2> QED BY <1>5, <1>6, <2>1
<1>7. ASSUME U = X PROVE DOMAIN U = ArcDirs /\ U = [c \in ArcDirs |-> U[c]] /\ \A d \in Dirs, p \in cch.up : UnpackIn(U, d, p)
  BY <1>3, <1>5, <1>7
<1> QED BY <1>2, <1>6, <1>7
LEMMA UnpackArcRecurs ==
  ASSUME GraphOK, metric \in Metrics, NEW d \in Dirs, NEW p \in cch.up
  PROVE  UnpackArc(d, p) = IF Fitting(d, p) = {} THEN Segment(d, p)
                           ELSE UnpackArc("b", Inward(d, p)) \o UnpackArc("f", Outward(d, p))
<1>1. \E U : UnpackBy(U)
  <2>1. Stepwise(ArcDirs, Seq(Segments), UnpackStep) /\ Local(ArcDirs, Seq(Segments), UnpackRank, UnpackStep)
    BY UnpackStepwise
  <2>2. input.n \in Nat /\ RankedBelow(ArcDirs, UnpackRank, input.n)
    <3>1. input.n \in Nat /\ Nodes = 0 .. input.n - 1
      BY NodesAreNumbers DEF GraphOK, Nodes
    <3>2. \A c \in ArcDirs : c[2][1] \in Nodes
      BY DEF ArcDirs, GraphOK, Pairs
    <3> QED BY <3>1, <3>2 DEF RankedBelow, UnpackRank
  <2>3. Seq(Segments) # {}
    BY EmptySeq
  <2> PICK N : N = input.n
    OBVIOUS
  <2>4. Recurses(ArcDirs, Seq(Segments), UnpackStep)
    <3> PICK rank : rank = UnpackRank
      OBVIOUS
    <3> PICK step : step = UnpackStep
      OBVIOUS
    <3>1. N \in Nat /\ RankedBelow(ArcDirs, rank, N) /\ Stepwise(ArcDirs, Seq(Segments), step) /\ Local(ArcDirs, Seq(Segments), rank, step)
      BY <2>1, <2>2
    <3>2. Recurses(ArcDirs, Seq(Segments), step)
      BY <2>3, <3>1, Recursing
    <3> QED BY <3>2
  <2>5. PICK U \in [ArcDirs -> Seq(Segments)] : \A c \in ArcDirs : U[c] = UnpackStep[c][U]
    BY <2>4 DEF Recurses
  <2>6. \A e \in Dirs, r \in cch.up : UnpackIn(U, e, r)
    <3> SUFFICES ASSUME NEW e \in Dirs, NEW r \in cch.up PROVE UnpackIn(U, e, r)
      OBVIOUS
    <3>1. <<e, r>> \in ArcDirs
      BY DEF ArcDirs
    <3> QED BY <2>5, <3>1 DEF UnpackIn, UnpackStep
  <2>7. DOMAIN U = ArcDirs /\ U = [c \in ArcDirs |-> U[c]]
    OBVIOUS
  <2> QED BY <2>6, <2>7, UnpackByIn
<1> PICK U : U = CHOOSE B : UnpackBy(B)
  OBVIOUS
<1>2. UnpackBy(U)
  BY <1>1
<1>3. \A e, r : UnpackArc(e, r) = U[<<e, r>>]
  BY DEF UnpackArc, UnpackBy
<1>4. UnpackIn(U, d, p)
  BY <1>2, UnpackByIn
<1>5. U[<<d, p>>] = IF Fitting(d, p) = {} THEN Segment(d, p) ELSE U[<<"b", Inward(d, p)>>] \o U[<<"f", Outward(d, p)>>]
  BY <1>4 DEF UnpackIn
<1>6. /\ UnpackArc(d, p) = U[<<d, p>>]
      /\ UnpackArc("b", Inward(d, p)) = U[<<"b", Inward(d, p)>>]
      /\ UnpackArc("f", Outward(d, p)) = U[<<"f", Outward(d, p)>>]
  BY <1>3
<1> QED BY <1>5, <1>6

(* An arc unpacks into a drive from its one end to the other.               *)
UnpacksTo(d, p) == metric[d][p] < Inf => Drive(UnpackArc(d, p), SourceOf(d, p), TargetOf(d, p), metric[d][p])
LEMMA EndsOfArc ==
  ASSUME GraphOK, NEW d, NEW p \in cch.up
  PROVE  SourceOf(d, p) \in Nodes /\ TargetOf(d, p) \in Nodes /\ p[1] \in Nodes /\ p[2] \in Nodes
BY DEF GraphOK, Pairs, SourceOf, TargetOf

LEMMA OwnArc ==
  ASSUME GraphOK, metric \in Metrics, Solves(metric), NEW d \in Dirs, NEW p \in cch.up, Fitting(d, p) = {}
  PROVE  UnpacksTo(d, p)
<1>1. input \in Inputs /\ weight \in input.weights /\ cch.up \subseteq Pairs /\ metric[d][p] \in Nat
  BY DEF GraphOK, Metrics
<1>2. metric[d][p] = Extract(d, p)
  <2>1. \A x \in LowerTriangles(p) : metric[d][p] # Over(metric, d, p, x)
    BY DEF Fitting, Over
  <2>2. metric[d][p] = Least(metric, d, p)
    BY DEF Solves
  <2> QED BY <1>1, <2>1, <2>2, LeastIsLeast
<1>3. UnpackArc(d, p) = Segment(d, p)
  BY UnpackArcRecurs
<1>4. PICK s : Segment(d, p) = <<s>> /\ s \in Segments /\ s.dir = d /\ s.arc = p /\ s.from = SourceOf(d, p)
  BY SegmentIsOne
<1> PICK x : x = SourceOf(d, p)
  OBVIOUS
<1> PICK y : y = TargetOf(d, p)
  OBVIOUS
<1>5. x \in Nodes /\ y \in Nodes
  BY EndsOfArc
<1>6. Cost(s) = metric[d][p]
  BY <1>4 DEF Cost
<1>7. ASSUME metric[d][p] < Inf PROVE Leg(s, x, y)
  BY <1>1, <1>2, <1>4, <1>6, <1>7 DEF Leg
<1> QED BY <1>3, <1>4, <1>5, <1>6, <1>7, OneLeg DEF UnpacksTo

LEMMA ByTriangle ==
  ASSUME GraphOK, metric \in Metrics, NEW d \in Dirs, NEW p \in cch.up, Fitting(d, p) # {},
         \A e \in Dirs, r \in cch.up : r[1] < p[1] => UnpacksTo(e, r)
  PROVE  UnpacksTo(d, p)
<1> PICK i : i = Inward(d, p)
  OBVIOUS
<1> PICK o : o = Outward(d, p)
  OBVIOUS
<1> PICK x : x = LowestFit(d, p)
  OBVIOUS
<1>1. Fits(d, p)
  BY FittingFits
<1>2. x < p[1] /\ i \in cch.up /\ o \in cch.up /\ metric[d][p] = metric["b"][i] + metric["f"][o] /\ x \in Nodes
  BY <1>1 DEF Fits
<1>3. i = <<x, SourceOf(d, p)>> /\ o = <<x, TargetOf(d, p)>>
  BY DEF Inward, Outward
<1>4. "b" \in Dirs /\ "f" \in Dirs
  BY DEF Dirs
<1>5. metric["b"][i] \in Nat /\ metric["f"][o] \in Nat
  BY <1>2, <1>4 DEF Metrics
<1>6. UnpacksTo("b", i) /\ UnpacksTo("f", o)
  BY <1>2, <1>3, <1>4
<1>7. /\ SourceOf("b", i) = SourceOf(d, p) /\ TargetOf("b", i) = x
      /\ SourceOf("f", o) = x /\ TargetOf("f", o) = TargetOf(d, p)
  BY <1>3 DEF SourceOf, TargetOf
<1>8. UnpackArc(d, p) = UnpackArc("b", i) \o UnpackArc("f", o)
  BY UnpackArcRecurs
<1>9. ASSUME metric[d][p] < Inf PROVE metric["b"][i] < Inf /\ metric["f"][o] < Inf
  BY <1>2, <1>5, <1>9, InfAssumption
<1>10. ASSUME metric[d][p] < Inf
       PROVE  /\ Drive(UnpackArc("b", i), SourceOf(d, p), x, metric["b"][i])
              /\ Drive(UnpackArc("f", o), x, TargetOf(d, p), metric["f"][o])
  BY <1>6, <1>7, <1>9, <1>10 DEF UnpacksTo
<1>11. ASSUME metric[d][p] < Inf
       PROVE  Drive(UnpackArc("b", i) \o UnpackArc("f", o), SourceOf(d, p), TargetOf(d, p), metric["b"][i] + metric["f"][o])
  BY <1>10, <1>11, DrivesJoin
<1> QED BY <1>2, <1>8, <1>11 DEF UnpacksTo

LEMMA ArcsUnpack ==
  ASSUME GraphOK, metric \in Metrics, Solves(metric)
  PROVE  \A d \in Dirs, p \in cch.up : UnpacksTo(d, p)
<1> DEFINE H(k) == \A d \in Dirs, p \in cch.up : p[1] < k => UnpacksTo(d, p)
           T == {k \in Nat : H(k)}
<1>1. input.n \in Nat /\ Nodes = 0 .. input.n - 1
  BY NodesAreNumbers DEF GraphOK, Nodes
<1>2. \A p \in cch.up : p[1] \in 0 .. input.n - 1
  BY <1>1, EndsOfArc
<1>3. H(0)
  BY <1>2
<1>4. ASSUME NEW k \in Nat, H(k) PROVE H(k + 1)
  <2> SUFFICES ASSUME NEW d \in Dirs, NEW p \in cch.up, p[1] < k + 1 PROVE UnpacksTo(d, p)
    OBVIOUS
  <2>1. \A e \in Dirs, r \in cch.up : r[1] < p[1] => UnpacksTo(e, r)
    <3> SUFFICES ASSUME NEW e \in Dirs, NEW r \in cch.up, r[1] < p[1] PROVE r[1] < k
      BY <1>4
    <3>1. r[1] \in Nat /\ p[1] \in Nat
      BY <1>1, <1>2
    <3> QED BY <3>1
  <2> HIDE DEF H
  <2> QED BY <2>1, OwnArc, ByTriangle
<1>5. Nat \subseteq T
  <2>1. 0 \in T /\ \A k \in Nat : k \in T => k + 1 \in T
    BY <1>3, <1>4
  <2> HIDE DEF T
  <2> QED BY <2>1, InductionOnNat
<1>6. H(input.n)
  BY <1>1, <1>5
<1> QED BY <1>1, <1>2, <1>6

(* Along the predecessors: where they begin, and the arcs on the way.       *)
StartAt(e, d, y) == e[y] = IF pred[d][y] = NoId THEN y ELSE e[pred[d][y]]
UpAt(f, y) == f[y] = IF pred["f"][y] = NoId THEN <<>> ELSE f[pred["f"][y]] \o UnpackArc("f", <<pred["f"][y], y>>)
DownAt(g, y) == g[y] = IF pred["b"][y] = NoId THEN <<>> ELSE UnpackArc("b", <<pred["b"][y], y>>) \o g[pred["b"][y]]
PredsOK == input \in Inputs /\ \A d \in Dirs : LeadsDown(pred[d]) /\ pred[d] \in [Nodes -> Nodes \cup {NoId}]
LEMMA PredsLead ==
  ASSUME PredsOK, NEW d \in Dirs, NEW y \in Nodes, pred[d][y] # NoId
  PROVE  pred[d][y] \in Nodes /\ pred[d][y] < y /\ pred[d][y] \in Nat /\ y \in Nat
<1>1. Nodes \subseteq Nat
  BY NodesAreNumbers DEF Nodes, PredsOK
<1> QED BY <1>1 DEF PredsOK, LeadsDown
AlongTo(d, k) ==
  \E e, f, g : \A y \in Nodes : y < k => StartAt(e, d, y) /\ (d = "f" => UpAt(f, y)) /\ (d = "b" => DownAt(g, y))
LEMMA OneFurther == ASSUME PredsOK, NEW d \in Dirs, NEW k \in Nat, AlongTo(d, k) PROVE AlongTo(d, k + 1)
<1>1. PICK e, f, g : \A y \in Nodes : y < k => StartAt(e, d, y) /\ (d = "f" => UpAt(f, y)) /\ (d = "b" => DownAt(g, y))
  BY DEF AlongTo
<1> PICK E : E = [y \in Nodes |-> IF y # k THEN e[y] ELSE IF pred[d][y] = NoId THEN y ELSE e[pred[d][y]]]
  OBVIOUS
<1> PICK F : F = [y \in Nodes |-> IF y # k THEN f[y] ELSE IF pred["f"][y] = NoId THEN <<>>
                                 ELSE f[pred["f"][y]] \o UnpackArc("f", <<pred["f"][y], y>>)]
  OBVIOUS
<1> PICK G : G = [y \in Nodes |-> IF y # k THEN g[y] ELSE IF pred["b"][y] = NoId THEN <<>>
                                 ELSE UnpackArc("b", <<pred["b"][y], y>>) \o g[pred["b"][y]]]
  OBVIOUS
<1>2. \A y \in Nodes : y \in Nat
  BY NodesAreNumbers DEF Nodes, PredsOK
<1>3. ASSUME NEW y \in Nodes, y < k PROVE E[y] = e[y] /\ F[y] = f[y] /\ G[y] = g[y]
  <2>1. y # k
    BY <1>2, <1>3
  <2>2. E[y] = e[y]
    BY <2>1
  <2>3. F[y] = f[y]
    BY <2>1
  <2>4. G[y] = g[y]
    BY <2>1
  <2> QED BY <2>2, <2>3, <2>4
<1>4. ASSUME NEW y \in Nodes, y < k + 1, pred[d][y] # NoId
      PROVE  E[pred[d][y]] = e[pred[d][y]] /\ F[pred[d][y]] = f[pred[d][y]] /\ G[pred[d][y]] = g[pred[d][y]]
  <2> PICK x : x = pred[d][y]
    OBVIOUS
  <2>1. x \in Nodes /\ x < k
    BY <1>4, PredsLead
  <2> QED BY <1>3, <2>1
<1>5. ASSUME NEW y \in Nodes, y < k + 1
      PROVE  StartAt(E, d, y) /\ (d = "f" => UpAt(F, y)) /\ (d = "b" => DownAt(G, y))
  <2>1. y < k \/ y = k
    BY <1>2, <1>5
  <2>2. CASE y < k
    BY <1>1, <1>3, <1>4, <1>5, <2>2 DEF StartAt, UpAt, DownAt
  <2>3. CASE y = k
    BY <1>4, <1>5, <2>3 DEF StartAt, UpAt, DownAt
  <2> QED BY <2>1, <2>2, <2>3
<1> QED BY <1>5 DEF AlongTo

LEMMA WaysExist ==
  ASSUME PredsOK, NEW d \in Dirs
  PROVE  \E e, f, g : \A y \in Nodes : StartAt(e, d, y) /\ (d = "f" => UpAt(f, y)) /\ (d = "b" => DownAt(g, y))
<1> DEFINE T == {k \in Nat : AlongTo(d, k)}
<1>1. input.n \in Nat /\ Nodes = 0 .. input.n - 1
  BY NodesAreNumbers DEF Nodes, PredsOK
<1>2. AlongTo(d, 0)
  BY <1>1 DEF AlongTo
<1>3. Nat \subseteq T
  <2>1. 0 \in T /\ \A k \in Nat : k \in T => k + 1 \in T
    BY <1>2, OneFurther
  <2> HIDE DEF T
  <2> QED BY <2>1, InductionOnNat
<1>4. AlongTo(d, input.n)
  BY <1>1, <1>3
<1>5. \A y \in Nodes : y < input.n
  BY <1>1
<1> QED BY <1>4, <1>5 DEF AlongTo

StartBy(E, d) == E = [y \in Nodes |-> IF pred[d][y] = NoId THEN y ELSE E[pred[d][y]]]
LEMMA StartRecurs ==
  ASSUME PredsOK, NEW d \in Dirs, NEW y \in Nodes
  PROVE  StartOf(d, y) = IF pred[d][y] = NoId THEN y ELSE StartOf(d, pred[d][y])
<1>1. \E E : StartBy(E, d)
  <2>1. PICK e : \A x \in Nodes : StartAt(e, d, x)
    BY WaysExist
  <2> PICK E : E = [x \in Nodes |-> e[x]]
    OBVIOUS
  <2>2. \A x \in Nodes : E[x] = IF pred[d][x] = NoId THEN x ELSE E[pred[d][x]]
    BY <2>1, PredsLead DEF StartAt
  <2>3. E = [x \in Nodes |-> E[x]]
    OBVIOUS
  <2>4. StartBy(E, d)
    BY <2>2, <2>3 DEF StartBy
  <2> QED BY <2>4
<1> PICK E : E = CHOOSE B : StartBy(B, d)
  OBVIOUS
<1>2. StartBy(E, d)
  BY <1>1
<1>3. \A x : StartOf(d, x) = E[x]
  BY DEF StartOf, StartBy
<1>4. E[y] = IF pred[d][y] = NoId THEN y ELSE E[pred[d][y]]
  BY <1>2 DEF StartBy
<1> QED BY <1>3, <1>4

UpBy(R) == R = [y \in Nodes |-> IF pred["f"][y] = NoId THEN <<>> ELSE R[pred["f"][y]] \o UnpackArc("f", <<pred["f"][y], y>>)]
LEMMA UpRecurs ==
  ASSUME PredsOK, NEW y \in Nodes
  PROVE  UnpackedUp(y) = IF pred["f"][y] = NoId THEN <<>>
                         ELSE UnpackedUp(pred["f"][y]) \o UnpackArc("f", <<pred["f"][y], y>>)
<1>1. \E R : UpBy(R)
  <2>1. PICK f : \A x \in Nodes : UpAt(f, x)
    BY WaysExist DEF Dirs
  <2> PICK R : R = [x \in Nodes |-> f[x]]
    OBVIOUS
  <2>2. \A x \in Nodes : R[x] = IF pred["f"][x] = NoId THEN <<>> ELSE R[pred["f"][x]] \o UnpackArc("f", <<pred["f"][x], x>>)
    BY <2>1, PredsLead DEF UpAt, Dirs
  <2>3. R = [x \in Nodes |-> R[x]]
    OBVIOUS
  <2>4. UpBy(R)
    BY <2>2, <2>3 DEF UpBy
  <2> QED BY <2>4
<1> PICK R : R = CHOOSE B : UpBy(B)
  OBVIOUS
<1>2. UpBy(R)
  BY <1>1
<1>3. \A x : UnpackedUp(x) = R[x]
  BY DEF UnpackedUp, UpBy
<1>4. R[y] = IF pred["f"][y] = NoId THEN <<>> ELSE R[pred["f"][y]] \o UnpackArc("f", <<pred["f"][y], y>>)
  BY <1>2 DEF UpBy
<1>5. UnpackedUp(y) = R[y] /\ UnpackedUp(pred["f"][y]) = R[pred["f"][y]]
  BY <1>3
<1> QED BY <1>4, <1>5

DownBy(R) == R = [y \in Nodes |-> IF pred["b"][y] = NoId THEN <<>> ELSE UnpackArc("b", <<pred["b"][y], y>>) \o R[pred["b"][y]]]
LEMMA DownRecurs ==
  ASSUME PredsOK, NEW y \in Nodes
  PROVE  UnpackedDown(y) = IF pred["b"][y] = NoId THEN <<>>
                           ELSE UnpackArc("b", <<pred["b"][y], y>>) \o UnpackedDown(pred["b"][y])
<1>1. \E R : DownBy(R)
  <2>1. PICK g : \A x \in Nodes : DownAt(g, x)
    BY WaysExist DEF Dirs
  <2> PICK R : R = [x \in Nodes |-> g[x]]
    OBVIOUS
  <2>2. \A x \in Nodes : R[x] = IF pred["b"][x] = NoId THEN <<>> ELSE UnpackArc("b", <<pred["b"][x], x>>) \o R[pred["b"][x]]
    BY <2>1, PredsLead DEF DownAt, Dirs
  <2>3. R = [x \in Nodes |-> R[x]]
    OBVIOUS
  <2>4. DownBy(R)
    BY <2>2, <2>3 DEF DownBy
  <2> QED BY <2>4
<1> PICK R : R = CHOOSE B : DownBy(B)
  OBVIOUS
<1>2. DownBy(R)
  BY <1>1
<1>3. \A x : UnpackedDown(x) = R[x]
  BY DEF UnpackedDown, DownBy
<1>4. R[y] = IF pred["b"][y] = NoId THEN <<>> ELSE UnpackArc("b", <<pred["b"][y], y>>) \o R[pred["b"][y]]
  BY <1>2 DEF DownBy
<1>5. UnpackedDown(y) = R[y] /\ UnpackedDown(pred["b"][y]) = R[pred["b"][y]]
  BY <1>3
<1> QED BY <1>4, <1>5

(* A finite distance is that of a start and a drive between it and the node. *)
Course(d, y) == IF d = "f" THEN UnpackedUp(y) ELSE UnpackedDown(y)
Road(d, u, s, y, len) == IF d = "f" THEN Drive(u, s, y, len) ELSE Drive(u, y, s, len)
HasRoad(d, y) ==
  dist[d][y] < Inf => /\ StartOf(d, y) \in Nodes /\ Asked(d, StartOf(d, y))
                      /\ \E len \in Nat : /\ dist[d][y] = Given(d, StartOf(d, y)) + len
                                          /\ Road(d, Course(d, y), StartOf(d, y), y, len)
LEMMA RoadsJoin ==
  ASSUME NEW d \in Dirs, NEW u, NEW v, NEW s, NEW x, NEW y, NEW k, NEW l, Road(d, u, s, x, k), Road(d, v, x, y, l),
         k \in Nat, l \in Nat
  PROVE  Road(d, IF d = "f" THEN u \o v ELSE v \o u, s, y, k + l)
<1>1. CASE d = "f"
  BY <1>1, DrivesJoin DEF Road
<1>2. CASE d # "f"
  <2>1. Drive(v \o u, y, s, l + k)
    BY <1>2, DrivesJoin DEF Road
  <2>2. l + k = k + l
    OBVIOUS
  <2> QED BY <1>2, <2>1, <2>2 DEF Road
<1> QED BY <1>1, <1>2
LEMMA OverOneMore ==
  ASSUME Ready, QueryTypeOK, PredsOK, NEW d \in Dirs, AskedOK(d), Backed(d, dist[d], pred[d]),
         NEW y \in Nodes, pred[d][y] # NoId, HasRoad(d, pred[d][y])
  PROVE  HasRoad(d, y)
<1> PICK x : x = pred[d][y]
  OBVIOUS
<1> SUFFICES ASSUME dist[d][y] < Inf PROVE HasRoad(d, y)
  BY DEF HasRoad
<1>1. x \in Nodes /\ x < y
  BY PredsLead
<1> PICK p : p = <<x, y>>
  OBVIOUS
<1>2. p \in cch.up /\ dist[d][y] = dist[d][x] + metric[d][p]
  BY DEF Backed
<1>3. metric[d][p] \in Nat /\ dist[d][x] \in Nat /\ dist[d][y] \in Nat
  BY <1>1, <1>2, InfAssumption DEF Ready, Metrics, QueryTypeOK
<1>4. dist[d][x] < Inf /\ metric[d][p] < Inf
  BY <1>2, <1>3, InfAssumption
<1> PICK s : s = StartOf(d, x)
  OBVIOUS
<1>5. s \in Nodes /\ Asked(d, s)
  BY <1>4 DEF HasRoad
<1>6. PICK len \in Nat : dist[d][x] = Given(d, s) + len /\ Road(d, Course(d, x), s, x, len)
  BY <1>4 DEF HasRoad
<1>7. Road(d, UnpackArc(d, p), x, y, metric[d][p])
  <2>1. Drive(UnpackArc(d, p), SourceOf(d, p), TargetOf(d, p), metric[d][p])
    BY <1>2, <1>4, ArcsUnpack DEF UnpacksTo, Ready
  <2>2. p[1] = x /\ p[2] = y
    OBVIOUS
  <2> QED BY <2>1, <2>2 DEF Road, SourceOf, TargetOf
<1>8. Course(d, y) = IF d = "f" THEN Course(d, x) \o UnpackArc(d, p) ELSE UnpackArc(d, p) \o Course(d, x)
  BY UpRecurs, DownRecurs DEF Course, Dirs
<1>9. Road(d, Course(d, y), s, y, len + metric[d][p])
  BY <1>3, <1>6, <1>7, <1>8, RoadsJoin
<1>10. StartOf(d, y) = s
  BY StartRecurs
<1>11. Given(d, s) \in Nat
  BY <1>5, InfAssumption DEF AskedOK, Given, Asked
<1>12. dist[d][y] = Given(d, s) + (len + metric[d][p]) /\ len + metric[d][p] \in Nat
  BY <1>2, <1>3, <1>6, <1>11
<1> QED BY <1>5, <1>9, <1>10, <1>12 DEF HasRoad

LEMMA AtTheStart ==
  ASSUME PredsOK, NEW d \in Dirs, AskedOK(d), Backed(d, dist[d], pred[d]), NEW y \in Nodes, pred[d][y] = NoId
  PROVE  HasRoad(d, y)
<1> SUFFICES ASSUME dist[d][y] < Inf PROVE HasRoad(d, y)
  BY DEF HasRoad
<1>1. Asked(d, y) /\ dist[d][y] = Given(d, y)
  BY DEF Backed
<1>2. StartOf(d, y) = y
  BY StartRecurs
<1>3. Course(d, y) = <<>>
  BY UpRecurs, DownRecurs DEF Course, Dirs
<1>4. Road(d, Course(d, y), y, y, 0)
  BY <1>3, NoDrive DEF Road
<1>5. Given(d, y) \in Nat
  BY <1>1, InfAssumption DEF AskedOK, Given, Asked
<1>6. dist[d][y] = Given(d, y) + 0
  BY <1>1, <1>5
<1> QED BY <1>1, <1>2, <1>4, <1>6 DEF HasRoad

LEMMA EveryRoad ==
  ASSUME Ready, QueryTypeOK, PredsOK, NEW d \in Dirs, AskedOK(d), Backed(d, dist[d], pred[d])
  PROVE  \A y \in Nodes : HasRoad(d, y)
<1> DEFINE H(k) == \A y \in Nodes : y < k => HasRoad(d, y)
           T == {k \in Nat : H(k)}
<1>1. input.n \in Nat /\ Nodes = 0 .. input.n - 1
  BY NodesAreNumbers DEF Nodes, PredsOK
<1>2. H(0)
  BY <1>1
<1>3. ASSUME NEW k \in Nat, H(k) PROVE H(k + 1)
  <2> SUFFICES ASSUME NEW y \in Nodes, y < k + 1 PROVE HasRoad(d, y)
    OBVIOUS
  <2>1. CASE pred[d][y] = NoId
    BY <2>1, AtTheStart
  <2>2. CASE pred[d][y] # NoId
    <3> PICK x : x = pred[d][y]
      OBVIOUS
    <3>1. x \in Nodes /\ x < k
      BY <2>2, PredsLead
    <3>2. HasRoad(d, pred[d][y])
      BY <1>3, <3>1
    <3> HIDE DEF H
    <3> QED BY <2>2, <3>2, OverOneMore
  <2> QED BY <2>1, <2>2
<1>4. Nat \subseteq T
  <2>1. 0 \in T /\ \A k \in Nat : k \in T => k + 1 \in T
    BY <1>2, <1>3
  <2> HIDE DEF T
  <2> QED BY <2>1, InductionOnNat
<1>5. H(input.n)
  BY <1>1, <1>4
<1>6. \A y \in Nodes : y < input.n
  BY <1>1
<1> QED BY <1>5, <1>6

(* The path of a run is a drive from the source it used to its target.      *)
Driven(s, t, len) ==
  /\ s = StartOf("f", meet) /\ t = StartOf("b", meet) /\ s \in Nodes /\ t \in Nodes /\ Asked("f", s) /\ Asked("b", t)
  /\ Drive(UnpackShortestPath, s, t, len) /\ len \in Nat /\ GetDistance = Given("f", s) + len + Given("b", t)
LEMMA PathIsDriven ==
  ASSUME Ready, QuerySides, RunOK, meet # NoId
  PROVE  \E s, t, len : Driven(s, t, len)
<1>1. input \in Inputs /\ "f" \in Dirs /\ "b" \in Dirs /\ QueryTypeOK
  BY DEF Ready, GraphOK, Dirs, QuerySides
<1>2. PredsOK /\ \A d \in Dirs : AskedOK(d) /\ Backed(d, dist[d], pred[d])
  BY <1>1 DEF QuerySides, RunOK, PredsOK, QueryTypeOK
<1>3. meet \in inSpace["f"] /\ meet \in inSpace["b"] /\ dist["f"][meet] + dist["b"][meet] < Inf
  BY DEF RunOK, Met, Joined
<1>4. meet \in Nodes
  BY <1>1, <1>3 DEF QueryTypeOK
<1>5. dist["f"][meet] \in Nat /\ dist["b"][meet] \in Nat
  BY <1>1, <1>4, InfAssumption DEF QueryTypeOK
<1>6. dist["f"][meet] < Inf /\ dist["b"][meet] < Inf
  BY <1>3, <1>5, InfAssumption
<1> PICK s : s = StartOf("f", meet)
  OBVIOUS
<1> PICK t : t = StartOf("b", meet)
  OBVIOUS
<1>7. HasRoad("f", meet) /\ HasRoad("b", meet)
  BY <1>1, <1>2, <1>4, EveryRoad
<1>8. PICK k \in Nat : s \in Nodes /\ Asked("f", s) /\ dist["f"][meet] = Given("f", s) + k /\ Drive(UnpackedUp(meet), s, meet, k)
  BY <1>6, <1>7 DEF HasRoad, Road, Course
<1>9. PICK l \in Nat : t \in Nodes /\ Asked("b", t) /\ dist["b"][meet] = Given("b", t) + l /\ Drive(UnpackedDown(meet), meet, t, l)
  BY <1>6, <1>7 DEF HasRoad, Road, Course
<1>10. Drive(UnpackShortestPath, s, t, k + l)
  BY <1>8, <1>9, DrivesJoin DEF UnpackShortestPath
<1>11. \A d \in Dirs : \A y \in Nodes : Asked(d, y) => Given(d, y) \in Nat
  <2> SUFFICES ASSUME NEW d \in Dirs, NEW y \in Nodes, Asked(d, y) PROVE Given(d, y) \in Nat
    OBVIOUS
  <2>1. AskedOK(d)
    BY <1>2
  <2> QED BY <2>1, InfAssumption DEF AskedOK, Given, Asked
<1>12. GetDistance = Given("f", s) + (k + l) + Given("b", t) /\ k + l \in Nat
  <2>1. GetDistance = dist["f"][meet] + dist["b"][meet]
    BY DEF GetDistance
  <2>2. Given("f", s) \in Nat /\ Given("b", t) \in Nat
    BY <1>1, <1>8, <1>9, <1>11
  <2> QED BY <1>8, <1>9, <2>1, <2>2
<1> QED BY <1>8, <1>9, <1>10, <1>12 DEF Driven

(* An arc that has the weight of an input arc unpacks into one.             *)
Original(s) == UnpackOriginalArc(metric, s.dir, s.arc)
LEMMA LegIsOriginal ==
  ASSUME GraphOK, NEW s, NEW x \in Nodes, NEW y \in Nodes, Leg(s, x, y)
  PROVE  /\ Original(s) \in InputArcs /\ weight[Original(s)] = Cost(s)
         /\ input.arcs[Original(s)][1] = order[x + 1] /\ input.arcs[Original(s)][2] = order[y + 1]
         /\ s.from = x
<1> PICK d : d = s.dir
  OBVIOUS
<1> PICK p : p = s.arc
  OBVIOUS
<1> PICK c : c = Cost(s)
  OBVIOUS
<1>1. d \in Dirs /\ p \in cch.up /\ c < Inf /\ c = Extract(d, p) /\ x = SourceOf(d, p) /\ y = TargetOf(d, p) /\ s.from = x
      /\ c = metric[d][p] /\ c \in Nat
  BY DEF Leg, Segments, Cost
<1>2. input \in Inputs /\ order \in input.orders /\ weight \in [InputArcs -> Nat] /\ InputArcs \subseteq Nat
      /\ \A a \in InputArcs : input.arcs[a][1] \in Nodes /\ input.arcs[a][2] \in Nodes
  <2>1. input \in Inputs /\ order \in input.orders /\ weight \in input.weights
    BY DEF GraphOK
  <2>2. weight \in [InputArcs -> Nat] /\ input.arcs \in Seq(Nodes \X Nodes)
    BY <2>1, InputsAssumption DEF InputArcs, Nodes
  <2> PICK all : all = input.arcs
    OBVIOUS
  <2>3. all \in Seq(Nodes \X Nodes) /\ InputArcs = DOMAIN all
    BY <2>2 DEF InputArcs
  <2>4. \A a \in DOMAIN all : a \in Nat /\ all[a] \in Nodes \X Nodes
    BY <2>3
  <2> QED BY <2>1, <2>2, <2>3, <2>4
<1>12. PICK S : S = {Inf} \cup {weight[a] : a \in InputArcsOfCch(d, p)}
  OBVIOUS
<1>3. S \in SUBSET Nat /\ S # {}
  BY <1>2, <1>12, InfAssumption DEF InputArcsOfCch
<1>4. c \in S
  <2>1. c = Min(S)
    BY <1>1, <1>12 DEF Extract
  <2> QED BY <1>3, <2>1, MinIsLeast
<1> PICK fits : fits = {a \in InputArcsOfCch(d, p) : weight[a] = c}
  OBVIOUS
<1>5. fits \in SUBSET Nat /\ fits # {}
  <2>1. c # Inf
    BY <1>1, InfAssumption
  <2>2. PICK b \in InputArcsOfCch(d, p) : weight[b] = c
    BY <1>4, <1>12, <2>1
  <2>3. InputArcsOfCch(d, p) \subseteq Nat
    BY <1>2 DEF InputArcsOfCch
  <2> QED BY <2>2, <2>3
<1> PICK a : a = Original(s)
  OBVIOUS
<1>6. a = Min(fits)
  BY <1>1, <1>5 DEF Original, UnpackOriginalArc
<1>7. a \in fits
  BY <1>5, <1>6, MinIsLeast
<1>8. a \in InputArcs /\ InputArcToCchArc(a) = p /\ InputArcDir(a) = d /\ weight[a] = c
  BY <1>7 DEF InputArcsOfCch
<1>9. p # NoId /\ TailOf(a) \in Nat /\ HeadOf(a) \in Nat
  BY <1>1, <1>2, <1>8, CchArcsLeadUp, RanksAreNodes, NodesAreNumbers DEF GraphOK
<1>10. TailOf(a) = x /\ HeadOf(a) = y
  <2>1. TailOf(a) # HeadOf(a)
    BY <1>8, <1>9 DEF InputArcToCchArc
  <2>2. CASE TailOf(a) < HeadOf(a)
    <3>1. p = <<TailOf(a), HeadOf(a)>> /\ d = "f"
      BY <1>8, <2>1, <2>2 DEF InputArcToCchArc, InputArcDir
    <3>2. x = p[1] /\ y = p[2]
      BY <1>1, <3>1 DEF SourceOf, TargetOf
    <3> QED BY <3>1, <3>2
  <2>3. CASE ~(TailOf(a) < HeadOf(a))
    <3>1. p = <<HeadOf(a), TailOf(a)>> /\ d = "b"
      BY <1>8, <2>1, <2>3 DEF InputArcToCchArc, InputArcDir
    <3>2. x = p[2] /\ y = p[1]
      BY <1>1, <3>1 DEF SourceOf, TargetOf
    <3> QED BY <3>1, <3>2
  <2> QED BY <2>2, <2>3
<1>11. input.arcs[a][1] = order[x + 1] /\ input.arcs[a][2] = order[y + 1]
  BY <1>2, <1>8, <1>10, OrderAndRank DEF TailOf, HeadOf
<1> QED BY <1>1, <1>8, <1>11

(* The length of a path adds up arc by arc.                                 *)
AddsUp(path, n, W) == W[0] = 0 /\ \A i \in 1 .. n : W[i] = W[i - 1] + weight[path[i]]
WeighedBy(W, path) == W = [i \in 0 .. Len(path) |-> IF i = 0 THEN 0 ELSE W[i - 1] + weight[path[i]]]
LEMMA PathWeightIs ==
  ASSUME NEW path, NEW n \in Nat, Len(path) = n, NEW W, W = [i \in 0 .. n |-> W[i]], AddsUp(path, n, W)
  PROVE  PathWeight(path) = W[n]
<1>1. WeighedBy(W, path)
  <2>1. \A i \in 0 .. n : i = 0 \/ i \in 1 .. n
    OBVIOUS
  <2>2. \A i \in 0 .. n : W[i] = IF i = 0 THEN 0 ELSE W[i - 1] + weight[path[i]]
    BY <2>1 DEF AddsUp
  <2> QED BY <2>2 DEF WeighedBy
<1> PICK V : V = CHOOSE B : WeighedBy(B, path)
  OBVIOUS
<1>2. WeighedBy(V, path)
  BY <1>1
<1>3. AddsUp(path, n, V)
  <2>1. 0 \in 0 .. n /\ \A i \in 1 .. n : i \in 0 .. n /\ i # 0
    OBVIOUS
  <2> QED BY <1>2, <2>1 DEF WeighedBy, AddsUp
<1> DEFINE T == {k \in Nat : k <= n => V[k] = W[k]}
<1>4. 0 \in T
  BY <1>3 DEF AddsUp
<1>5. ASSUME NEW k \in Nat, k \in T PROVE k + 1 \in T
  <2> SUFFICES ASSUME k + 1 <= n PROVE V[k + 1] = W[k + 1]
    OBVIOUS
  <2> PICK l : l = k + 1
    OBVIOUS
  <2>1. l \in 1 .. n /\ l - 1 = k /\ V[k] = W[k]
    BY <1>5
  <2>2. V[l] = V[k] + weight[path[l]] /\ W[l] = W[k] + weight[path[l]]
    BY <1>3, <2>1 DEF AddsUp
  <2> QED BY <2>1, <2>2
<1> HIDE DEF T
<1>6. n \in T
  BY <1>4, <1>5, InductionOnNat
<1>7. PathWeight(path) = V[n]
  BY DEF PathWeight, WeighedBy
<1> QED BY <1>6, <1>7 DEF T

OriginalsOf(u) == [i \in 1 .. Len(u) |-> Original(u[i])]
FromsOf(u) == [i \in 1 .. Len(u) |-> order[u[i].from + 1]]
LEMMA DriveIsPath ==
  ASSUME GraphOK, NEW u, NEW s \in Nodes, NEW t \in Nodes, NEW len, Drive(u, s, t, len)
  PROVE  IsPath(OriginalsOf(u), order[s + 1], order[t + 1]) /\ PathWeight(OriginalsOf(u)) = len
<1> PICK arcs : arcs = OriginalsOf(u)
  OBVIOUS
<1> PICK n : n = Len(u)
  OBVIOUS
<1>1. PICK P, W : Marks(u, P, W) /\ P[0] = s /\ P[n] = t /\ W[n] = len /\ u \in Seq(Segments)
  BY DEF Drive
<1>2. n \in Nat /\ Len(arcs) = n /\ DOMAIN arcs = 1 .. n
  BY <1>1 DEF OriginalsOf
<1>3. P \in [0 .. n -> Nodes] /\ W \in [0 .. n -> Nat] /\ W[0] = 0
      /\ \A i \in 1 .. n : Leg(u[i], P[i - 1], P[i]) /\ W[i] = W[i - 1] + Cost(u[i])
  BY <1>1 DEF Marks
<1>4. ASSUME NEW i \in 1 .. n
      PROVE  /\ arcs[i] \in InputArcs /\ weight[arcs[i]] = Cost(u[i])
             /\ input.arcs[arcs[i]][1] = order[P[i - 1] + 1] /\ input.arcs[arcs[i]][2] = order[P[i] + 1]
  <2> PICK h : h = i - 1
    OBVIOUS
  <2>1. h \in 0 .. n /\ i \in 0 .. n
    BY <1>2
  <2>2. P[h] \in Nodes /\ P[i] \in Nodes /\ Leg(u[i], P[h], P[i])
    BY <1>3, <2>1
  <2>3. arcs[i] = Original(u[i])
    BY <1>2 DEF OriginalsOf
  <2> QED BY <2>2, <2>3, LegIsOriginal
<1>5. NoId \notin Range(arcs)
  <2>1. NoId \notin InputArcs
    <3>1. input.arcs \in Seq(Nodes \X Nodes)
      BY InputsAssumption DEF GraphOK, Nodes
    <3>2. InputArcs \subseteq Nat
      BY <3>1 DEF InputArcs
    <3> QED BY <3>2, NoIdAssumption
  <2> QED BY <1>2, <1>4, <2>1 DEF Range
<1>6. ASSUME arcs = <<>> PROVE order[s + 1] = order[t + 1]
  <2>1. n = 0
    BY <1>2, <1>6
  <2> QED BY <1>1, <2>1
<1>7. ASSUME arcs # <<>> PROVE input.arcs[arcs[1]][1] = order[s + 1] /\ input.arcs[Last(arcs)][2] = order[t + 1]
  <2>1. n # 0
    BY <1>2, <1>7
  <2>2. 1 \in 1 .. n /\ n \in 1 .. n /\ 1 - 1 = 0
    BY <1>2, <2>1
  <2>3. Last(arcs) = arcs[n]
    BY <1>2 DEF Last
  <2> QED BY <1>1, <1>4, <2>2, <2>3
<1>8. ASSUME NEW i \in 1 .. n - 1 PROVE input.arcs[arcs[i]][2] = input.arcs[arcs[i + 1]][1]
  <2> PICK j : j = i + 1
    OBVIOUS
  <2>1. i \in 1 .. n /\ j \in 1 .. n /\ j - 1 = i
    BY <1>2
  <2> QED BY <1>4, <2>1
<1>9. IsPath(arcs, order[s + 1], order[t + 1])
  BY <1>2, <1>5, <1>6, <1>7, <1>8 DEF IsPath
<1>10. AddsUp(arcs, n, W)
  BY <1>3, <1>4 DEF AddsUp
<1>11. W = [i \in 0 .. n |-> W[i]]
  BY <1>3
<1> QED BY <1>1, <1>2, <1>9, <1>10, <1>11, PathWeightIs

Visits(nodes, arcs) ==
  /\ Len(nodes) = Len(arcs) + 1
  /\ \A i \in DOMAIN arcs : nodes[i] = input.arcs[arcs[i]][1] /\ nodes[i + 1] = input.arcs[arcs[i]][2]
LEMMA NodesOfDrive ==
  ASSUME GraphOK, NEW u, NEW s \in Nodes, NEW t \in Nodes, NEW len, Drive(u, s, t, len)
  PROVE  Visits(FromsOf(u) \o <<order[t + 1]>>, OriginalsOf(u))
<1> PICK arcs : arcs = OriginalsOf(u)
  OBVIOUS
<1> PICK most : most = FromsOf(u)
  OBVIOUS
<1> PICK nodes : nodes = most \o <<order[t + 1]>>
  OBVIOUS
<1> PICK n : n = Len(u)
  OBVIOUS
<1>1. PICK P, W : Marks(u, P, W) /\ P[0] = s /\ P[n] = t /\ u \in Seq(Segments)
  BY DEF Drive
<1>2. n \in Nat /\ Len(arcs) = n /\ DOMAIN arcs = 1 .. n
  BY <1>1 DEF OriginalsOf
<1>3. P \in [0 .. n -> Nodes] /\ \A i \in 1 .. n : Leg(u[i], P[i - 1], P[i])
  BY <1>1 DEF Marks
<1>4. ASSUME NEW i \in 1 .. n
      PROVE  /\ input.arcs[arcs[i]][1] = order[P[i - 1] + 1] /\ input.arcs[arcs[i]][2] = order[P[i] + 1]
             /\ u[i].from = P[i - 1] /\ P[i - 1] \in Nodes
  <2> PICK h : h = i - 1
    OBVIOUS
  <2>1. h \in 0 .. n /\ i \in 0 .. n
    BY <1>2
  <2>2. P[h] \in Nodes /\ P[i] \in Nodes /\ Leg(u[i], P[h], P[i])
    BY <1>3, <2>1
  <2>3. arcs[i] = Original(u[i])
    BY <1>2 DEF OriginalsOf
  <2> QED BY <2>2, <2>3, LegIsOriginal
<1>5. order[t + 1] \in Nodes /\ \A x \in Nodes : order[x + 1] \in Nodes
  BY OrderAndRank DEF GraphOK
<1>6. \A i \in 1 .. n : most[i] = order[P[i - 1] + 1] /\ most[i] \in Nodes
  BY <1>2, <1>4, <1>5 DEF FromsOf
<1>7. most \in Seq(Nodes) /\ Len(most) = n
  <2>1. most \in [1 .. n -> Nodes]
    BY <1>2, <1>6 DEF FromsOf
  <2> QED BY <1>2, <2>1
<1> PICK last : last = <<order[t + 1]>>
  OBVIOUS
<1>8. last \in Seq(Nodes) /\ Len(last) = 1 /\ last[1] = order[t + 1]
  BY <1>5
<1>9. Len(nodes) = n + 1 /\ \A i \in 1 .. n + 1 : nodes[i] = IF i <= n THEN most[i] ELSE last[i - n]
  BY <1>7, <1>8, ConcatLen, ConcatAt
<1>10. nodes[n + 1] = order[P[n] + 1]
  <2> PICK m : m = n + 1
    OBVIOUS
  <2>1. m \in 1 .. n + 1 /\ ~(m <= n) /\ m - n = 1
    BY <1>2
  <2> QED BY <1>1, <1>8, <1>9, <2>1
<1>11. ASSUME NEW i \in 1 .. n PROVE nodes[i] = order[P[i - 1] + 1] /\ nodes[i + 1] = order[P[i] + 1]
  <2>1. i \in 1 .. n + 1 /\ i <= n
    BY <1>2
  <2>2. nodes[i] = order[P[i - 1] + 1]
    BY <1>6, <1>9, <2>1
  <2>3. CASE i = n
    BY <1>10, <2>2, <2>3
  <2>4. CASE i # n
    <3> PICK j : j = i + 1
      OBVIOUS
    <3>1. j \in 1 .. n /\ j \in 1 .. n + 1 /\ j <= n /\ j - 1 = i
      BY <1>2, <2>4
    <3>2. nodes[j] = most[j] /\ most[j] = order[P[i] + 1]
      BY <1>6, <1>9, <3>1
    <3> QED BY <2>2, <3>2
  <2> QED BY <2>3, <2>4
<1>12. \A i \in DOMAIN arcs : nodes[i] = input.arcs[arcs[i]][1] /\ nodes[i + 1] = input.arcs[arcs[i]][2]
  <2> SUFFICES ASSUME NEW i \in 1 .. n
               PROVE  nodes[i] = input.arcs[arcs[i]][1] /\ nodes[i + 1] = input.arcs[arcs[i]][2]
    BY <1>2
  <2>1. input.arcs[arcs[i]][1] = order[P[i - 1] + 1] /\ input.arcs[arcs[i]][2] = order[P[i] + 1]
    BY <1>4
  <2>2. nodes[i] = order[P[i - 1] + 1] /\ nodes[i + 1] = order[P[i] + 1]
    BY <1>11
  <2> QED BY <2>1, <2>2
<1> QED BY <1>2, <1>9, <1>12 DEF Visits

(* Every run answers with the shortest distance and a road of that length.  *)
LEMMA RunAtTheEnd == QInv => QueryIsShortest
<1> SUFFICES ASSUME QInv, st = HasRun PROVE QueryIsShortest
  BY DEF QueryIsShortest
<1>1. Ready /\ QuerySides /\ RunOK /\ GraphOK
  BY RunsAreReady DEF QInv, QueryOK, Ready
<1>2. GetDistance = Best(asked.src["f"], asked.src["b"], TrueDistance)
  BY <1>1, DistanceIsBest
<1> SUFFICES ASSUME meet # NoId
             PROVE  /\ IsPath(GetArcPath, GetUsed("f"), GetUsed("b"))
                    /\ asked.src["f"][GetUsed("f")] + PathWeight(GetArcPath) + asked.src["b"][GetUsed("b")] = GetDistance
                    /\ Len(GetNodePath) = Len(GetArcPath) + 1
                    /\ \A i \in DOMAIN GetArcPath : /\ GetNodePath[i] = input.arcs[GetArcPath[i]][1]
                                                    /\ GetNodePath[i + 1] = input.arcs[GetArcPath[i]][2]
  BY <1>2 DEF QueryIsShortest
<1>3. PICK s, t, len : Driven(s, t, len)
  BY <1>1, PathIsDriven
<1> PICK u : u = UnpackShortestPath
  OBVIOUS
<1>4. Drive(u, s, t, len) /\ s \in Nodes /\ t \in Nodes /\ GetUsed("f") = order[s + 1] /\ GetUsed("b") = order[t + 1]
  BY <1>3 DEF Driven, GetUsed
<1> PICK arcs : arcs = OriginalsOf(u)
  OBVIOUS
<1> PICK nodes : nodes = FromsOf(u) \o <<order[t + 1]>>
  OBVIOUS
<1>5. GetArcPath = arcs
  BY DEF GetArcPath, Original, OriginalsOf
<1>6. GetNodePath = nodes
  BY <1>4 DEF GetNodePath, FromsOf
<1>7. IsPath(arcs, order[s + 1], order[t + 1]) /\ PathWeight(arcs) = len
  BY <1>1, <1>4, DriveIsPath
<1>8. Visits(nodes, arcs)
  BY <1>1, <1>4, NodesOfDrive
<1>9. asked.src["f"][GetUsed("f")] + PathWeight(GetArcPath) + asked.src["b"][GetUsed("b")] = GetDistance
  <2>1. Given("f", s) = asked.src["f"][order[s + 1]] /\ Given("b", t) = asked.src["b"][order[t + 1]]
    BY <1>3 DEF Driven, Given
  <2> QED BY <1>3, <1>4, <1>5, <1>7, <2>1 DEF Driven
<1> QED BY <1>4, <1>5, <1>6, <1>7, <1>8, <1>9 DEF Visits

(* After every run the distance is that of the best source and target, the   *)
(* arc path is a road between the two the query names and of that length,    *)
(* and the node path visits its ends: cutting the walks off at a shared      *)
(* ancestor, filtering arcs and unpacking by lowest triangles lose nothing.  *)
THEOREM RunsAreShortest == Spec => []QueryIsShortest
BY QueryInvariant, RunAtTheEnd, PTL
===============================================================================
