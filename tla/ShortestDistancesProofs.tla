----------------------- MODULE ShortestDistancesProofs -----------------------
(***************************************************************************)
(* What the reference computes: the distances of a graph are the greatest  *)
(* ones that satisfy the triangle inequality and exceed no arc.  So two    *)
(* graphs are compared without a word about paths.                         *)
(***************************************************************************)
EXTENDS ShortestDistances, FiniteSetsExt, FiniteSetTheorems, SequenceTheorems, WellFoundedInduction, TLAPS

(* Least members.  A descending chain of numbers is one of finite sets.     *)
LEMMA NatHasLeast == \A S \in SUBSET Nat : S # {} => \E x \in S : \A y \in S : x <= y
<1> SUFFICES ASSUME NEW S \in SUBSET Nat, S # {} PROVE \E x \in S : \A y \in S : x <= y
  OBVIOUS
<1> DEFINE T == {1 .. n : n \in S}
<1>1. T \subseteq FiniteSubsetsOf(Nat) /\ T # {}
  <2>1. \A n \in S : 1 .. n \subseteq Nat /\ IsFiniteSet(1 .. n)
    BY FS_Interval
  <2> QED
    BY <2>1 DEF FiniteSubsetsOf
<1>2. PICK t \in T : \A u \in T : <<u, t>> \notin StrictSubsetOrdering(Nat)
  <2> HIDE DEF T
  <2> QED BY <1>1, WFMin, FS_StrictSubsetOrderingWellFounded
<1>3. PICK x \in S : t = 1 .. x
  BY <1>2
<1>4. \A y \in S : ~ (y < x)
  <2> SUFFICES ASSUME NEW y \in S, y < x PROVE FALSE
    OBVIOUS
  <2>1. 1 .. y \subseteq 1 .. x /\ x \in 1 .. x /\ x \notin 1 .. y
    OBVIOUS
  <2>2. 1 .. y \in SUBSET Nat /\ 1 .. x \in SUBSET Nat
    OBVIOUS
  <2>3. <<1 .. y, t>> \in StrictSubsetOrdering(Nat)
    BY <2>1, <2>2, <1>3 DEF StrictSubsetOrdering
  <2> QED
    BY <1>2, <2>3
<1> QED
  BY <1>4

LEMMA MinIsLeast ==
  ASSUME NEW S \in SUBSET Nat, S # {}
  PROVE  Min(S) \in S /\ \A y \in S : Min(S) <= y
BY NatHasLeast DEF Min

LEMMA InductionOnNat ==
  ASSUME NEW S, 0 \in S, \A k \in Nat : k \in S => k + 1 \in S
  PROVE  Nat \subseteq S
<1> DEFINE T == Nat \ S
<1>1. SUFFICES ASSUME T # {} PROVE FALSE
  OBVIOUS
<1>2. PICK k \in T : \A j \in T : k <= j
  BY <1>1, NatHasLeast
<1>3. k \in Nat /\ k # 0 /\ k - 1 \in Nat /\ (k - 1) + 1 = k
  BY <1>2
<1>4. k - 1 \in S
  BY <1>2, <1>3
<1> QED BY <1>2, <1>3, <1>4

-----------------------------------------------------------------------------
(* The table is defined by recursion over the nodes. *)
Recurs(f, n, low) == f = [k \in -1 .. n - 1 |-> IF k = -1 THEN low ELSE Through(f[k - 1], k)]

LEMMA RecursionExists == ASSUME NEW low PROVE \A j \in Nat : \E f : Recurs(f, j, low)
<1> DEFINE S == {j \in Nat : \E f : Recurs(f, j, low)}
<1>1. 0 \in S
  <2> DEFINE f == [k \in -1 .. -1 |-> low]
  <2>1. f = [k \in -1 .. 0 - 1 |-> IF k = -1 THEN low ELSE Through(f[k - 1], k)]
    <3>1. -1 .. 0 - 1 = -1 .. -1 /\ \A k \in -1 .. -1 : k = -1
      OBVIOUS
    <3> QED BY <3>1
  <2> HIDE DEF f
  <2> QED BY <2>1 DEF Recurs
<1>2. ASSUME NEW j \in Nat, j \in S PROVE j + 1 \in S
  <2>1. PICK f : Recurs(f, j, low)
    BY <1>2
  <2> DEFINE g == [k \in -1 .. j |-> IF k = -1 THEN low ELSE Through(f[k - 1], k)]
  <2>2. \A k \in -1 .. j - 1 : f[k] = g[k]
    <3>1. \A k \in -1 .. j - 1 : f[k] = IF k = -1 THEN low ELSE Through(f[k - 1], k)
      BY <2>1 DEF Recurs
    <3>2. \A k \in -1 .. j - 1 : k \in -1 .. j
      OBVIOUS
    <3> QED BY <3>1, <3>2
  <2>3. \A k \in -1 .. j : k # -1 => f[k - 1] = g[k - 1]
    <3>1. \A k \in -1 .. j : k # -1 => k - 1 \in -1 .. j - 1
      OBVIOUS
    <3> HIDE DEF g
    <3> QED BY <2>2, <3>1
  <2>4. g = [k \in -1 .. j |-> IF k = -1 THEN low ELSE Through(g[k - 1], k)]
    BY <2>3
  <2> HIDE DEF g
  <2>5. (j + 1) - 1 = j
    OBVIOUS
  <2> QED BY <2>4, <2>5 DEF Recurs
<1> HIDE DEF S
<1>3. Nat \subseteq S
  BY <1>1, <1>2, InductionOnNat
<1> QED BY <1>3 DEF S

LEMMA DistancesRecur ==
  ASSUME NEW n \in Nat, NEW w
  PROVE  /\ DistancesOver(n, w)[-1] = Direct(n, w)
         /\ \A k \in 0 .. n - 1 : DistancesOver(n, w)[k] = Through(DistancesOver(n, w)[k - 1], k)
<1> DEFINE D == DistancesOver(n, w)
<1>1. \E f : Recurs(f, n, Direct(n, w))
  BY RecursionExists
<1>2. D = CHOOSE f : Recurs(f, n, Direct(n, w))
  BY DEF DistancesOver, Recurs
<1>3. Recurs(D, n, Direct(n, w))
  BY <1>1, <1>2
<1> HIDE DEF D
<1>4. \A k \in -1 .. n - 1 : D[k] = IF k = -1 THEN Direct(n, w) ELSE Through(D[k - 1], k)
  BY <1>3 DEF Recurs
<1>5. -1 \in -1 .. n - 1 /\ \A k \in 0 .. n - 1 : k \in -1 .. n - 1 /\ k # -1
  OBVIOUS
<1> QED BY <1>4, <1>5 DEF D

-----------------------------------------------------------------------------
(* Its entries are numbers up to Inf. *)
Numbers == {m \in Nat : m <= Inf}
Table(n) == [Between(n) -> Numbers]
Graphs(n) == [Between(n) -> Nat]

LEMMA LesserOfNumbers ==
  ASSUME NEW a \in Nat, NEW b \in Nat
  PROVE  /\ Lesser(a, b) \in Nat /\ Lesser(a, b) <= a /\ Lesser(a, b) <= b
         /\ Lesser(a, b) = a \/ Lesser(a, b) = b
         /\ (a \in Numbers \/ b \in Numbers) => Lesser(a, b) \in Numbers
         /\ \A c \in Nat : c <= a /\ c <= b => c <= Lesser(a, b)
BY InfAssumption DEF Numbers, Lesser

LEMMA PlusOfNumbers ==
  ASSUME NEW a \in Numbers, NEW b \in Numbers
  PROVE  /\ Plus(a, b) \in Numbers /\ Plus(a, b) <= a + b
         /\ Plus(a, b) = Inf \/ Plus(a, b) = a + b
         /\ a = Inf \/ b = Inf => Plus(a, b) = Inf
         /\ Plus(a, b) = Inf => a + b >= Inf
         /\ Plus(a, b) = Plus(b, a)
         /\ \A c \in Numbers : c <= a + b => c <= Plus(a, b)
BY InfAssumption DEF Numbers, Plus, Lesser

(* One more node lets a way go over it. *)
LesserOver(low, k, x, y) == Lesser(low[<<x, y>>], Plus(low[<<x, k>>], low[<<k, y>>]))
LEMMA ThroughIsLeast ==
  ASSUME NEW n \in Nat, NEW low \in Table(n), NEW k \in 0 .. n - 1
  PROVE  /\ Through(low, k) \in Table(n)
         /\ \A x, y \in 0 .. n - 1 :
              LET t == Through(low, k)[<<x, y>>]
                  via == low[<<x, k>>] + low[<<k, y>>]
              IN  t <= low[<<x, y>>] /\ t <= via /\ (t = low[<<x, y>>] \/ t = via)
<1>1. \A x, y \in 0 .. n - 1 : low[<<x, y>>] \in Numbers
  BY DEF Table, Between
<1>2. ASSUME NEW x \in 0 .. n - 1, NEW y \in 0 .. n - 1
      PROVE  /\ LesserOver(low, k, x, y) \in Numbers /\ LesserOver(low, k, x, y) <= low[<<x, y>>] /\ LesserOver(low, k, x, y) <= low[<<x, k>>] + low[<<k, y>>]
             /\ LesserOver(low, k, x, y) = low[<<x, y>>] \/ LesserOver(low, k, x, y) = low[<<x, k>>] + low[<<k, y>>]
  BY <1>1, InfAssumption DEF LesserOver, Lesser, Plus, Numbers
<1>3. Through(low, k) = [p \in Between(n) |-> LesserOver(low, k, p[1], p[2])]
  <2>1. DOMAIN low = Between(n) /\ \A p \in Between(n) : p = <<p[1], p[2]>>
    BY DEF Table, Between
  <2>2. \A p \in Between(n) : Lesser(low[p], Plus(low[<<p[1], k>>], low[<<k, p[2]>>])) = LesserOver(low, k, p[1], p[2])
    BY <2>1 DEF LesserOver
  <2> QED BY <2>1, <2>2 DEF Through
<1>4. Through(low, k) \in Table(n)
  <2>1. \A p \in Between(n) : LesserOver(low, k, p[1], p[2]) \in Numbers
    BY <1>2 DEF Between
  <2> QED BY <1>3, <2>1 DEF Table
<1>5. \A x, y \in 0 .. n - 1 : Through(low, k)[<<x, y>>] = LesserOver(low, k, x, y)
  BY <1>3 DEF Between
<1> QED BY <1>2, <1>4, <1>5

LEMMA DistancesAreNumbers ==
  ASSUME NEW n \in Nat, NEW w \in Graphs(n)
  PROVE  \A k \in -1 .. n - 1 : DistancesOver(n, w)[k] \in Table(n)
<1> DEFINE S == {j \in Nat : j <= n => DistancesOver(n, w)[j - 1] \in Table(n)}
<1>1. 0 \in S
  <2>1. Direct(n, w) \in Table(n)
    <3>1. \A p \in Between(n) : (IF p[1] = p[2] THEN 0 ELSE Lesser(w[p], Inf)) \in Numbers
      BY InfAssumption DEF Numbers, Graphs, Lesser
    <3> QED BY <3>1 DEF Direct, Table
  <2> QED BY <2>1, DistancesRecur
<1>2. ASSUME NEW j \in Nat, j \in S PROVE j + 1 \in S
  <2> SUFFICES ASSUME j + 1 <= n PROVE DistancesOver(n, w)[(j + 1) - 1] \in Table(n)
    OBVIOUS
  <2>1. j \in 0 .. n - 1 /\ (j + 1) - 1 = j
    OBVIOUS
  <2>2. DistancesOver(n, w)[j - 1] \in Table(n)
    BY <1>2
  <2>3. DistancesOver(n, w)[j] = Through(DistancesOver(n, w)[j - 1], j)
    BY <2>1, DistancesRecur
  <2> QED BY <2>1, <2>2, <2>3, ThroughIsLeast
<1>3. Nat \subseteq S
  <2> HIDE DEF S
  <2> QED BY <1>1, <1>2, InductionOnNat
<1>4. \A k \in -1 .. n - 1 : k + 1 \in Nat /\ k + 1 <= n /\ (k + 1) - 1 = k
  OBVIOUS
<1> QED BY <1>3, <1>4

-----------------------------------------------------------------------------
(* Distances, and those no arc of a graph is shorter than.                  *)
Metric(n, d) ==
  /\ d \in Table(n) /\ \A x \in 0 .. n - 1 : d[<<x, x>>] = 0
  /\ \A x, y, z \in 0 .. n - 1 : d[<<x, z>>] <= d[<<x, y>>] + d[<<y, z>>]
Within(n, d, w) == \A x, y \in 0 .. n - 1 : x # y => d[<<x, y>>] <= w[<<x, y>>]

(* In the table for k, going over a node up to k gains nothing any more.     *)
MetricOver(n, d, k) ==
  /\ d \in Table(n) /\ \A x \in 0 .. n - 1 : d[<<x, x>>] = 0
  /\ \A x, z \in 0 .. n - 1 : \A y \in 0 .. k : d[<<x, z>>] <= d[<<x, y>>] + d[<<y, z>>]

LEMMA ThroughKeepsMetric ==
  ASSUME NEW n \in Nat, NEW k \in 0 .. n - 1, NEW low, MetricOver(n, low, k - 1)
  PROVE  MetricOver(n, Through(low, k), k)
<1> PICK t : t = Through(low, k)
  OBVIOUS
<1>1. low \in Table(n) /\ \A x, y \in 0 .. n - 1 : low[<<x, y>>] \in Nat
  BY DEF MetricOver, Table, Between, Numbers
<1>2. t \in Table(n) /\ \A x, y \in 0 .. n - 1 : t[<<x, y>>] \in Nat
  BY <1>1, ThroughIsLeast DEF Table, Between, Numbers
<1>3. \A x, y \in 0 .. n - 1 :
        /\ t[<<x, y>>] <= low[<<x, y>>] /\ t[<<x, y>>] <= low[<<x, k>>] + low[<<k, y>>]
        /\ t[<<x, y>>] = low[<<x, y>>] \/ t[<<x, y>>] = low[<<x, k>>] + low[<<k, y>>]
  BY <1>1, ThroughIsLeast
<1>4. \A x \in 0 .. n - 1 : low[<<x, x>>] = 0
  BY DEF MetricOver
<1>5. \A x, z \in 0 .. n - 1 : \A y \in 0 .. k - 1 : low[<<x, z>>] <= low[<<x, y>>] + low[<<y, z>>]
  BY DEF MetricOver
<1>6. \A x \in 0 .. n - 1 : t[<<x, x>>] = 0
  <2> SUFFICES ASSUME NEW x \in 0 .. n - 1 PROVE t[<<x, x>>] = 0
    OBVIOUS
  <2>1. t[<<x, x>>] \in Nat /\ t[<<x, x>>] <= low[<<x, x>>]
    BY <1>2, <1>3
  <2> QED BY <1>4, <2>1
<1>7. ASSUME NEW x \in 0 .. n - 1, NEW z \in 0 .. n - 1, NEW y \in 0 .. k
      PROVE  t[<<x, z>>] <= t[<<x, y>>] + t[<<y, z>>]
  <2>1. y \in 0 .. n - 1
    OBVIOUS
  <2>2. CASE y = k
    <3>1. t[<<x, k>>] = low[<<x, k>>] /\ t[<<k, z>>] = low[<<k, z>>]
      <4>1. low[<<k, k>>] = 0 /\ low[<<x, k>>] \in Nat /\ low[<<k, z>>] \in Nat
        BY <1>1, <1>4
      <4>2. t[<<x, k>>] = low[<<x, k>>] \/ t[<<x, k>>] = low[<<x, k>>] + low[<<k, k>>]
        BY <1>3
      <4>3. t[<<k, z>>] = low[<<k, z>>] \/ t[<<k, z>>] = low[<<k, k>>] + low[<<k, z>>]
        BY <1>3
      <4> QED BY <4>1, <4>2, <4>3
    <3> QED BY <1>3, <2>2, <3>1
  <2>3. CASE y # k
    <3>1. y \in 0 .. k - 1
      BY <2>3
    <3>2. /\ low[<<x, z>>] <= low[<<x, y>>] + low[<<y, z>>]
          /\ low[<<x, k>>] <= low[<<x, y>>] + low[<<y, k>>]
          /\ low[<<k, z>>] <= low[<<k, y>>] + low[<<y, z>>]
      BY <1>5, <3>1
    <3>3. t[<<x, z>>] <= low[<<x, z>>] /\ t[<<x, z>>] <= low[<<x, k>>] + low[<<k, z>>]
      BY <1>3
    <3>4. t[<<x, y>>] = low[<<x, y>>] \/ t[<<x, y>>] = low[<<x, k>>] + low[<<k, y>>]
      BY <1>3, <2>1
    <3>5. t[<<y, z>>] = low[<<y, z>>] \/ t[<<y, z>>] = low[<<y, k>>] + low[<<k, z>>]
      BY <1>3, <2>1
    <3>6. /\ low[<<x, y>>] \in Nat /\ low[<<y, z>>] \in Nat /\ low[<<x, k>>] \in Nat /\ low[<<k, y>>] \in Nat
          /\ low[<<y, k>>] \in Nat /\ low[<<k, z>>] \in Nat /\ low[<<x, z>>] \in Nat
          /\ t[<<x, z>>] \in Nat /\ t[<<x, y>>] \in Nat /\ t[<<y, z>>] \in Nat
      BY <1>1, <1>2, <2>1
    <3> QED BY <3>2, <3>3, <3>4, <3>5, <3>6
  <2> QED BY <2>2, <2>3
<1> QED BY <1>2, <1>6, <1>7 DEF MetricOver

LEMMA ThroughKeepsBounds ==
  ASSUME NEW n \in Nat, NEW k \in 0 .. n - 1, NEW low \in Table(n), NEW d, Metric(n, d),
         \A x, y \in 0 .. n - 1 : d[<<x, y>>] <= low[<<x, y>>]
  PROVE  \A x, y \in 0 .. n - 1 : d[<<x, y>>] <= Through(low, k)[<<x, y>>]
<1> SUFFICES ASSUME NEW x \in 0 .. n - 1, NEW y \in 0 .. n - 1
             PROVE  d[<<x, y>>] <= Through(low, k)[<<x, y>>]
  OBVIOUS
<1>1. \A u, v \in 0 .. n - 1 : d[<<u, v>>] \in Nat /\ low[<<u, v>>] \in Nat
  BY DEF Metric, Table, Between, Numbers
<1>2. d[<<x, y>>] <= d[<<x, k>>] + d[<<k, y>>]
  BY DEF Metric
<1>3. d[<<x, k>>] <= low[<<x, k>>] /\ d[<<k, y>>] <= low[<<k, y>>] /\ d[<<x, y>>] <= low[<<x, y>>]
  OBVIOUS
<1>4. \/ Through(low, k)[<<x, y>>] = low[<<x, y>>]
      \/ Through(low, k)[<<x, y>>] = low[<<x, k>>] + low[<<k, y>>]
  BY ThroughIsLeast
<1> QED BY <1>1, <1>2, <1>3, <1>4

LEMMA DistancesBetweenBounds ==
  ASSUME NEW n \in Nat, NEW w \in Graphs(n)
  PROVE  \A k \in -1 .. n - 1 :
           /\ MetricOver(n, DistancesOver(n, w)[k], k)
           /\ Within(n, DistancesOver(n, w)[k], w)
           /\ \A d : Metric(n, d) /\ Within(n, d, w) =>
                \A x, y \in 0 .. n - 1 : d[<<x, y>>] <= DistancesOver(n, w)[k][<<x, y>>]
<1> DEFINE Good(k) == /\ MetricOver(n, DistancesOver(n, w)[k], k)
                      /\ Within(n, DistancesOver(n, w)[k], w)
                      /\ \A d : Metric(n, d) /\ Within(n, d, w) =>
                           \A x, y \in 0 .. n - 1 : d[<<x, y>>] <= DistancesOver(n, w)[k][<<x, y>>]
           S == {j \in Nat : j <= n => Good(j - 1)}
<1>1. Good(-1)
  <2>1. PICK low : low = DistancesOver(n, w)[-1]
    OBVIOUS
  <2>2. low \in Table(n)
    BY <2>1, DistancesAreNumbers
  <2>3. ASSUME NEW x \in 0 .. n - 1, NEW y \in 0 .. n - 1
        PROVE  low[<<x, y>>] = (IF x = y THEN 0 ELSE Lesser(w[<<x, y>>], Inf)) /\ w[<<x, y>>] \in Nat
    <3>1. <<x, y>> \in Between(n) /\ <<x, y>>[1] = x /\ <<x, y>>[2] = y
      BY DEF Between
    <3>2. low = Direct(n, w)
      BY <2>1, DistancesRecur
    <3>3. w[<<x, y>>] \in Nat
      BY <3>1 DEF Graphs
    <3> QED BY <3>1, <3>2, <3>3 DEF Direct
  <2>4. \A x, y \in 0 .. n - 1 : w[<<x, y>>] \in Nat
    BY <2>3
  <2>5. \A x, y \in 0 .. n - 1 : Lesser(w[<<x, y>>], Inf) <= w[<<x, y>>]
    <3>1. \A m \in Nat : Lesser(m, Inf) <= m
      BY InfAssumption DEF Lesser
    <3> QED BY <2>4, <3>1
  <2>6. MetricOver(n, low, -1) /\ Within(n, low, w)
    <3>1. \A x \in 0 .. n - 1 : low[<<x, x>>] = 0
      BY <2>3
    <3>2. 0 .. -1 = {}
      OBVIOUS
    <3>3. MetricOver(n, low, -1)
      BY <2>2, <3>1, <3>2 DEF MetricOver
    <3>4. Within(n, low, w)
      <4> SUFFICES ASSUME NEW x \in 0 .. n - 1, NEW y \in 0 .. n - 1, x # y PROVE low[<<x, y>>] <= w[<<x, y>>]
        BY DEF Within
      <4>1. low[<<x, y>>] = Lesser(w[<<x, y>>], Inf)
        BY <2>3
      <4> QED BY <2>5, <4>1
    <3> QED BY <3>3, <3>4
  <2>7. ASSUME NEW d, Metric(n, d), Within(n, d, w), NEW x \in 0 .. n - 1, NEW y \in 0 .. n - 1
        PROVE  d[<<x, y>>] <= low[<<x, y>>]
    <3>1. d[<<x, y>>] \in Nat /\ d[<<x, y>>] <= Inf /\ (x = y => d[<<x, y>>] = 0)
      BY <2>7 DEF Metric, Table, Between, Numbers
    <3>2. x # y => d[<<x, y>>] <= Lesser(w[<<x, y>>], Inf)
      BY <2>7, <3>1 DEF Within, Lesser
    <3> QED BY <2>3, <3>1, <3>2
  <2> QED BY <2>1, <2>6, <2>7
<1>2. 0 \in S
  BY <1>1
<1>3. ASSUME NEW j \in Nat, j \in S PROVE j + 1 \in S
  <2> SUFFICES ASSUME j + 1 <= n PROVE Good((j + 1) - 1)
    OBVIOUS
  <2>1. j \in 0 .. n - 1 /\ (j + 1) - 1 = j /\ j - 1 \in -1 .. n - 1
    OBVIOUS
  <2>2. PICK low : low = DistancesOver(n, w)[j - 1]
    OBVIOUS
  <2>3. DistancesOver(n, w)[j] = Through(low, j)
    BY <2>1, <2>2, DistancesRecur
  <2>4. low \in Table(n)
    BY <2>1, <2>2, DistancesAreNumbers
  <2>5. /\ MetricOver(n, low, j - 1) /\ Within(n, low, w)
        /\ \A d : Metric(n, d) /\ Within(n, d, w) => \A x, y \in 0 .. n - 1 : d[<<x, y>>] <= low[<<x, y>>]
    BY <1>3, <2>1, <2>2
  <2>6. MetricOver(n, Through(low, j), j)
    BY <2>1, <2>5, ThroughKeepsMetric
  <2>7. Within(n, Through(low, j), w)
    <3> SUFFICES ASSUME NEW x \in 0 .. n - 1, NEW y \in 0 .. n - 1, x # y
                 PROVE  Through(low, j)[<<x, y>>] <= w[<<x, y>>]
      BY DEF Within
    <3>1. Through(low, j)[<<x, y>>] <= low[<<x, y>>]
      BY <2>1, <2>4, ThroughIsLeast
    <3>3. Through(low, j)[<<x, y>>] \in Nat
      <4>1. Through(low, j) \in Table(n)
        BY <2>1, <2>4, ThroughIsLeast
      <4> QED BY <4>1 DEF Table, Between, Numbers
    <3>2. low[<<x, y>>] <= w[<<x, y>>] /\ low[<<x, y>>] \in Nat /\ w[<<x, y>>] \in Nat
      BY <2>4, <2>5 DEF Within, Table, Between, Numbers, Graphs
    <3> QED BY <3>1, <3>2, <3>3
  <2>8. ASSUME NEW d, Metric(n, d), Within(n, d, w)
        PROVE  \A x, y \in 0 .. n - 1 : d[<<x, y>>] <= Through(low, j)[<<x, y>>]
    <3>1. \A x, y \in 0 .. n - 1 : d[<<x, y>>] <= low[<<x, y>>]
      BY <2>5, <2>8
    <3> QED BY <2>1, <2>4, <2>8, <3>1, ThroughKeepsBounds
  <2>9. Good(j)
    BY <2>3, <2>6, <2>7, <2>8
  <2> HIDE DEF Good
  <2> QED BY <2>1, <2>9
<1>4. Nat \subseteq S
  <2> HIDE DEF S
  <2> QED BY <1>2, <1>3, InductionOnNat
<1>5. \A k \in -1 .. n - 1 : k + 1 \in Nat /\ k + 1 <= n /\ (k + 1) - 1 = k
  OBVIOUS
<1>6. \A k \in -1 .. n - 1 : Good(k)
  <2> HIDE DEF Good
  <2> QED BY <1>4, <1>5
<1> QED BY <1>6

(* The distances of a graph are a metric no arc is shorter than, and the     *)
(* greatest one.                                                            *)
THEOREM DistancesAreGreatest ==
  ASSUME NEW n \in Nat, NEW w \in Graphs(n)
  PROVE  /\ Metric(n, Distances(n, w)) /\ Within(n, Distances(n, w), w)
         /\ \A d : Metric(n, d) /\ Within(n, d, w) =>
              \A x, y \in 0 .. n - 1 : d[<<x, y>>] <= Distances(n, w)[<<x, y>>]
BY DistancesBetweenBounds DEF Distances, Metric, MetricOver

(* Distances are numbers up to Inf. *)
LEMMA DistanceIsNumber ==
  ASSUME NEW n \in Nat, NEW w \in Graphs(n)
  PROVE  \A x, y \in 0 .. n - 1 :
           /\ Distances(n, w)[<<x, y>>] \in Nat /\ Distances(n, w)[<<x, y>>] <= Inf
           /\ w[<<x, y>>] \in Nat
<1>1. Distances(n, w) \in Table(n)
  BY DistancesAreGreatest DEF Metric
<1> QED BY <1>1 DEF Table, Between, Numbers, Graphs

(* Hence lighter arcs, or more of them, leave no distance greater,           *)
LEMMA LighterIsNearer ==
  ASSUME NEW n \in Nat, NEW w \in Graphs(n), NEW v \in Graphs(n),
         \A x, y \in 0 .. n - 1 : x # y => v[<<x, y>>] <= w[<<x, y>>] \/ Inf <= w[<<x, y>>]
  PROVE  \A x, y \in 0 .. n - 1 : Distances(n, v)[<<x, y>>] <= Distances(n, w)[<<x, y>>]
<1>1. Within(n, Distances(n, v), w)
  <2> SUFFICES ASSUME NEW x \in 0 .. n - 1, NEW y \in 0 .. n - 1, x # y
               PROVE  Distances(n, v)[<<x, y>>] <= w[<<x, y>>]
    BY DEF Within
  <2>1. Distances(n, v)[<<x, y>>] <= v[<<x, y>>]
    BY DistancesAreGreatest DEF Within
  <2>2. /\ Distances(n, v)[<<x, y>>] \in Nat /\ Distances(n, v)[<<x, y>>] <= Inf
        /\ v[<<x, y>>] \in Nat /\ w[<<x, y>>] \in Nat
    BY DistanceIsNumber
  <2>3. v[<<x, y>>] <= w[<<x, y>>] \/ Inf <= w[<<x, y>>]
    OBVIOUS
  <2> QED BY <2>1, <2>2, <2>3, InfAssumption
<1> QED BY <1>1, DistancesAreGreatest

(* and a shortcut that is not shorter than the distance changes none.        *)
LEMMA ShortcutsChangeNothing ==
  ASSUME NEW n \in Nat, NEW w \in Graphs(n), NEW v \in Graphs(n),
         \A x, y \in 0 .. n - 1 : x # y => v[<<x, y>>] <= w[<<x, y>>] \/ Inf <= w[<<x, y>>],
         \A x, y \in 0 .. n - 1 : x # y => Distances(n, w)[<<x, y>>] <= v[<<x, y>>]
  PROVE  \A x, y \in 0 .. n - 1 : Distances(n, v)[<<x, y>>] = Distances(n, w)[<<x, y>>]
<1> SUFFICES ASSUME NEW x \in 0 .. n - 1, NEW y \in 0 .. n - 1
             PROVE  Distances(n, v)[<<x, y>>] = Distances(n, w)[<<x, y>>]
  OBVIOUS
<1>1. Distances(n, v)[<<x, y>>] <= Distances(n, w)[<<x, y>>]
  BY LighterIsNearer
<1>2. Within(n, Distances(n, w), v)
  BY DEF Within
<1>3. Distances(n, w)[<<x, y>>] <= Distances(n, v)[<<x, y>>]
  BY <1>2, DistancesAreGreatest
<1>4. Distances(n, v)[<<x, y>>] \in Nat /\ Distances(n, w)[<<x, y>>] \in Nat
  BY DistanceIsNumber
<1> QED BY <1>1, <1>3, <1>4

-----------------------------------------------------------------------------
(* A node c whose every two-arc detour is matched by a way around it can be  *)
(* taken out: the distances d around it extend to c by the least way that    *)
(* uses one arc at c, and what comes out is a metric of the whole graph.     *)
Others(n, c) == (0 .. n - 1) \ {c}
Entering(n, w, d, c, x) == Min({Inf} \cup {d[<<x, a>>] + w[<<a, c>>] : a \in Others(n, c)})
Leaving(n, w, d, c, y) == Min({Inf} \cup {w[<<c, b>>] + d[<<b, y>>] : b \in Others(n, c)})
Extended(n, w, d, c) ==
  [p \in Between(n) |-> IF p[1] = c THEN IF p[2] = c THEN 0 ELSE Leaving(n, w, d, c, p[2])
                        ELSE IF p[2] = c THEN Entering(n, w, d, c, p[1]) ELSE d[p]]

LEMMA EnteringIsLeast ==
  ASSUME NEW n \in Nat, NEW w \in Graphs(n), NEW d \in Table(n), NEW c \in 0 .. n - 1, NEW x \in 0 .. n - 1
  PROVE  /\ Entering(n, w, d, c, x) \in Numbers
         /\ \A a \in Others(n, c) : Entering(n, w, d, c, x) <= d[<<x, a>>] + w[<<a, c>>]
         /\ \/ Entering(n, w, d, c, x) = Inf
            \/ \E a \in Others(n, c) : Entering(n, w, d, c, x) = d[<<x, a>>] + w[<<a, c>>]
<1> PICK S : S = {Inf} \cup {d[<<x, a>>] + w[<<a, c>>] : a \in Others(n, c)}
  OBVIOUS
<1>1. \A a \in Others(n, c) : d[<<x, a>>] + w[<<a, c>>] \in Nat
  BY DEF Others, Table, Between, Graphs, Numbers
<1>2. S \in SUBSET Nat /\ Inf \in S
  BY <1>1, InfAssumption
<1>3. Min(S) \in S /\ \A m \in S : Min(S) <= m
  BY <1>2, MinIsLeast
<1>4. Min(S) \in Numbers
  BY <1>2, <1>3 DEF Numbers
<1>5. Entering(n, w, d, c, x) = Min(S)
  BY DEF Entering
<1> QED BY <1>3, <1>4, <1>5

LEMMA LeavingIsLeast ==
  ASSUME NEW n \in Nat, NEW w \in Graphs(n), NEW d \in Table(n), NEW c \in 0 .. n - 1, NEW y \in 0 .. n - 1
  PROVE  /\ Leaving(n, w, d, c, y) \in Numbers
         /\ \A b \in Others(n, c) : Leaving(n, w, d, c, y) <= w[<<c, b>>] + d[<<b, y>>]
         /\ \/ Leaving(n, w, d, c, y) = Inf
            \/ \E b \in Others(n, c) : Leaving(n, w, d, c, y) = w[<<c, b>>] + d[<<b, y>>]
<1> PICK S : S = {Inf} \cup {w[<<c, b>>] + d[<<b, y>>] : b \in Others(n, c)}
  OBVIOUS
<1>1. \A b \in Others(n, c) : w[<<c, b>>] + d[<<b, y>>] \in Nat
  BY DEF Others, Table, Between, Graphs, Numbers
<1>2. S \in SUBSET Nat /\ Inf \in S
  BY <1>1, InfAssumption
<1>3. Min(S) \in S /\ \A m \in S : Min(S) <= m
  BY <1>2, MinIsLeast
<1>4. Min(S) \in Numbers
  BY <1>2, <1>3 DEF Numbers
<1>5. Leaving(n, w, d, c, y) = Min(S)
  BY DEF Leaving
<1> QED BY <1>3, <1>4, <1>5

(* What has a way around c that is no longer than the one over it. *)
Avoids(n, w, d, c) == \A a, b \in Others(n, c) : a # b => d[<<a, b>>] <= w[<<a, c>>] + w[<<c, b>>]

LEMMA ExtendedIsMetric ==
  ASSUME NEW n \in Nat, NEW w \in Graphs(n), NEW d, Metric(n, d), NEW c \in 0 .. n - 1, Avoids(n, w, d, c)
  PROVE  Metric(n, Extended(n, w, d, c))
<1> PICK e : e = Extended(n, w, d, c)
  OBVIOUS
<1> DEFINE In(x) == Entering(n, w, d, c, x)
           Out(y) == Leaving(n, w, d, c, y)
<1>1. d \in Table(n) /\ \A x, y \in 0 .. n - 1 : d[<<x, y>>] \in Nat /\ d[<<x, y>>] <= Inf /\ w[<<x, y>>] \in Nat
  BY DEF Metric, Table, Between, Numbers, Graphs
<1>2. \A x \in 0 .. n - 1 : d[<<x, x>>] = 0
  BY DEF Metric
<1>3. \A x, y, z \in 0 .. n - 1 : d[<<x, z>>] <= d[<<x, y>>] + d[<<y, z>>]
  BY DEF Metric
<1>4. ASSUME NEW x \in 0 .. n - 1
      PROVE  /\ In(x) \in Nat /\ In(x) <= Inf /\ Out(x) \in Nat /\ Out(x) <= Inf
             /\ In(x) \in Numbers /\ Out(x) \in Numbers
             /\ \A a \in Others(n, c) : In(x) <= d[<<x, a>>] + w[<<a, c>>] /\ Out(x) <= w[<<c, a>>] + d[<<a, x>>]
             /\ In(x) = Inf \/ \E a \in Others(n, c) : In(x) = d[<<x, a>>] + w[<<a, c>>]
             /\ Out(x) = Inf \/ \E b \in Others(n, c) : Out(x) = w[<<c, b>>] + d[<<b, x>>]
  <2>1. In(x) \in Numbers /\ Out(x) \in Numbers
    BY <1>1, EnteringIsLeast, LeavingIsLeast
  <2> QED BY <1>1, <2>1, EnteringIsLeast, LeavingIsLeast DEF Numbers
<1>5. \A x, y \in 0 .. n - 1 : e[<<x, y>>] = IF x = c THEN IF y = c THEN 0 ELSE Out(y)
                                             ELSE IF y = c THEN In(x) ELSE d[<<x, y>>]
  BY DEF Extended, Between
<1>6. e \in Table(n)
  <2>1. \A p \in Between(n) : (IF p[1] = c THEN IF p[2] = c THEN 0 ELSE Out(p[2])
                               ELSE IF p[2] = c THEN In(p[1]) ELSE d[p]) \in Numbers
    BY <1>1, <1>4, InfAssumption DEF Between, Table, Numbers
  <2> QED BY <2>1 DEF Extended, Table
<1> HIDE DEF In, Out
<1>7. ASSUME NEW x \in Others(n, c), NEW z \in Others(n, c) PROVE d[<<x, z>>] <= In(x) + Out(z)
  <2>1. x \in 0 .. n - 1 /\ z \in 0 .. n - 1
    BY DEF Others
  <2>2. /\ In(x) \in Nat /\ Out(z) \in Nat /\ d[<<x, z>>] <= Inf /\ d[<<x, z>>] \in Nat
        /\ In(x) = Inf \/ \E a \in Others(n, c) : In(x) = d[<<x, a>>] + w[<<a, c>>]
        /\ Out(z) = Inf \/ \E b \in Others(n, c) : Out(z) = w[<<c, b>>] + d[<<b, z>>]
    BY <1>1, <1>4, <2>1
  <2>3. CASE In(x) = Inf \/ Out(z) = Inf
    BY <2>2, <2>3, InfAssumption
  <2>4. ASSUME NEW a \in Others(n, c), NEW b \in Others(n, c),
               In(x) = d[<<x, a>>] + w[<<a, c>>], Out(z) = w[<<c, b>>] + d[<<b, z>>]
        PROVE  d[<<x, z>>] <= In(x) + Out(z)
    <3>1. a \in 0 .. n - 1 /\ b \in 0 .. n - 1
      BY DEF Others
    <3>2. d[<<x, z>>] <= d[<<x, a>>] + d[<<a, z>>] /\ d[<<a, z>>] <= d[<<a, b>>] + d[<<b, z>>]
      BY <1>3, <2>1, <3>1
    <3>3. /\ d[<<x, a>>] \in Nat /\ d[<<a, z>>] \in Nat /\ d[<<a, b>>] \in Nat /\ d[<<b, z>>] \in Nat
          /\ w[<<a, c>>] \in Nat /\ w[<<c, b>>] \in Nat
      BY <1>1, <2>1, <3>1
    <3>4. d[<<a, b>>] <= w[<<a, c>>] + w[<<c, b>>]
      <4>1. CASE a = b
        BY <1>2, <3>1, <3>3, <4>1
      <4>2. CASE a # b
        BY <4>2 DEF Avoids
      <4> QED BY <4>1, <4>2
    <3> QED BY <2>2, <2>4, <3>2, <3>3, <3>4
  <2> QED BY <2>2, <2>3, <2>4
<1>8. ASSUME NEW x \in Others(n, c), NEW y \in Others(n, c) PROVE In(x) <= d[<<x, y>>] + In(y)
  <2>1. x \in 0 .. n - 1 /\ y \in 0 .. n - 1
    BY DEF Others
  <2>2. /\ In(x) \in Nat /\ In(y) \in Nat /\ In(x) <= Inf /\ d[<<x, y>>] \in Nat
        /\ In(y) = Inf \/ \E a \in Others(n, c) : In(y) = d[<<y, a>>] + w[<<a, c>>]
        /\ \A a \in Others(n, c) : In(x) <= d[<<x, a>>] + w[<<a, c>>]
    BY <1>1, <1>4, <2>1
  <2>3. CASE In(y) = Inf
    BY <2>2, <2>3, InfAssumption
  <2>4. ASSUME NEW a \in Others(n, c), In(y) = d[<<y, a>>] + w[<<a, c>>] PROVE In(x) <= d[<<x, y>>] + In(y)
    <3>1. a \in 0 .. n - 1
      BY DEF Others
    <3>2. /\ d[<<x, a>>] <= d[<<x, y>>] + d[<<y, a>>] /\ In(x) <= d[<<x, a>>] + w[<<a, c>>]
          /\ d[<<x, a>>] \in Nat /\ d[<<y, a>>] \in Nat /\ w[<<a, c>>] \in Nat
      BY <1>1, <1>3, <2>1, <2>2, <3>1
    <3> QED BY <2>2, <2>4, <3>2
  <2> QED BY <2>2, <2>3, <2>4
<1>9. ASSUME NEW y \in Others(n, c), NEW z \in Others(n, c) PROVE Out(z) <= Out(y) + d[<<y, z>>]
  <2>1. y \in 0 .. n - 1 /\ z \in 0 .. n - 1
    BY DEF Others
  <2>2. /\ Out(z) \in Nat /\ Out(y) \in Nat /\ Out(z) <= Inf /\ d[<<y, z>>] \in Nat
        /\ Out(y) = Inf \/ \E b \in Others(n, c) : Out(y) = w[<<c, b>>] + d[<<b, y>>]
        /\ \A b \in Others(n, c) : Out(z) <= w[<<c, b>>] + d[<<b, z>>]
    BY <1>1, <1>4, <2>1
  <2>3. CASE Out(y) = Inf
    BY <2>2, <2>3, InfAssumption
  <2>4. ASSUME NEW b \in Others(n, c), Out(y) = w[<<c, b>>] + d[<<b, y>>] PROVE Out(z) <= Out(y) + d[<<y, z>>]
    <3>1. b \in 0 .. n - 1
      BY DEF Others
    <3>2. /\ d[<<b, z>>] <= d[<<b, y>>] + d[<<y, z>>] /\ Out(z) <= w[<<c, b>>] + d[<<b, z>>]
          /\ d[<<b, z>>] \in Nat /\ d[<<b, y>>] \in Nat /\ w[<<c, b>>] \in Nat
      BY <1>1, <1>3, <2>1, <2>2, <3>1
    <3> QED BY <2>2, <2>4, <3>2
  <2> QED BY <2>2, <2>3, <2>4
<1>10. \A x \in 0 .. n - 1 : e[<<x, x>>] = 0
  BY <1>2, <1>5
<1>11. ASSUME NEW x \in 0 .. n - 1, NEW y \in 0 .. n - 1, NEW z \in 0 .. n - 1
       PROVE  e[<<x, z>>] <= e[<<x, y>>] + e[<<y, z>>]
  <2>1. \A u, v \in 0 .. n - 1 : e[<<u, v>>] \in Nat
    BY <1>6 DEF Table, Between, Numbers
  <2>2. CASE x = y \/ y = z
    BY <1>10, <2>1, <2>2
  <2>3. CASE x = c /\ z = c
    BY <1>10, <2>1, <2>3
  <2>4. CASE x # c /\ y = c /\ z # c
    BY <1>5, <1>7, <2>4 DEF Others
  <2>5. CASE x # c /\ y # c /\ z = c
    BY <1>5, <1>8, <2>5 DEF Others
  <2>6. CASE x = c /\ y # c /\ z # c
    BY <1>5, <1>9, <2>6 DEF Others
  <2>7. CASE x # c /\ y # c /\ z # c
    BY <1>3, <1>5, <2>7
  <2> QED BY <2>2, <2>3, <2>4, <2>5, <2>6, <2>7
<1> QED BY <1>6, <1>10, <1>11 DEF Metric

(* v is w without the arcs of c. *)
TakenOut(n, w, v, c) == \A x, y \in 0 .. n - 1 : v[<<x, y>>] = IF c \in {x, y} THEN Inf ELSE w[<<x, y>>]

LEMMA TakenOutKeepsDistances ==
  ASSUME NEW n \in Nat, NEW w \in Graphs(n), NEW v \in Graphs(n), NEW c \in 0 .. n - 1,
         TakenOut(n, w, v, c), Avoids(n, w, Distances(n, v), c)
  PROVE  \A x, y \in Others(n, c) : Distances(n, v)[<<x, y>>] = Distances(n, w)[<<x, y>>]
<1> PICK d : d = Distances(n, v)
  OBVIOUS
<1>1. Metric(n, d) /\ Within(n, d, v) /\ d \in Table(n)
  BY DistancesAreGreatest DEF Metric
<1>2. \A x, y \in 0 .. n - 1 : d[<<x, y>>] \in Nat /\ d[<<x, y>>] <= Inf /\ v[<<x, y>>] \in Nat /\ w[<<x, y>>] \in Nat
  BY DistanceIsNumber
<1>3. \A x, y \in 0 .. n - 1 : Distances(n, w)[<<x, y>>] \in Nat /\ Distances(n, w)[<<x, y>>] <= d[<<x, y>>]
  <2>1. \A x, y \in 0 .. n - 1 : x # y => w[<<x, y>>] <= v[<<x, y>>] \/ Inf <= v[<<x, y>>]
    BY <1>2, InfAssumption DEF TakenOut
  <2> QED BY <2>1, LighterIsNearer, DistanceIsNumber
<1> PICK e : e = Extended(n, w, d, c)
  OBVIOUS
<1>4. Metric(n, e)
  BY <1>1, ExtendedIsMetric
<1>5. \A x, y \in 0 .. n - 1 : e[<<x, y>>] = IF x = c THEN IF y = c THEN 0 ELSE Leaving(n, w, d, c, y)
                                             ELSE IF y = c THEN Entering(n, w, d, c, x) ELSE d[<<x, y>>]
  BY DEF Extended, Between
<1>6. Within(n, e, w)
  <2> SUFFICES ASSUME NEW x \in 0 .. n - 1, NEW y \in 0 .. n - 1, x # y PROVE e[<<x, y>>] <= w[<<x, y>>]
    BY DEF Within
  <2>1. d[<<x, x>>] = 0 /\ d[<<y, y>>] = 0
    BY <1>1 DEF Metric
  <2>2. CASE x = c
    <3>1. Leaving(n, w, d, c, y) <= w[<<c, y>>] + d[<<y, y>>]
      BY <1>1, <2>2, LeavingIsLeast DEF Others
    <3> QED BY <1>2, <1>5, <2>1, <2>2, <3>1
  <2>3. CASE y = c
    <3>1. Entering(n, w, d, c, x) <= d[<<x, x>>] + w[<<x, c>>]
      BY <1>1, <2>3, EnteringIsLeast DEF Others
    <3> QED BY <1>2, <1>5, <2>1, <2>3, <3>1
  <2>4. CASE x # c /\ y # c
    BY <1>1, <1>5, <2>4 DEF Within, TakenOut
  <2> QED BY <2>2, <2>3, <2>4
<1>7. \A x, y \in 0 .. n - 1 : e[<<x, y>>] <= Distances(n, w)[<<x, y>>]
  BY <1>4, <1>6, DistancesAreGreatest
<1>8. \A x, y \in Others(n, c) : e[<<x, y>>] = d[<<x, y>>] /\ x \in 0 .. n - 1 /\ y \in 0 .. n - 1
  BY <1>5 DEF Others
<1>9. ASSUME NEW x \in Others(n, c), NEW y \in Others(n, c) PROVE d[<<x, y>>] = Distances(n, w)[<<x, y>>]
  <2>1. /\ e[<<x, y>>] = d[<<x, y>>] /\ e[<<x, y>>] <= Distances(n, w)[<<x, y>>]
        /\ Distances(n, w)[<<x, y>>] <= d[<<x, y>>] /\ d[<<x, y>>] \in Nat /\ Distances(n, w)[<<x, y>>] \in Nat
    BY <1>2, <1>3, <1>7, <1>8
  <2> QED BY <2>1
<1> QED BY <1>9
-----------------------------------------------------------------------------
(* A shortest way begins with an arc, and goes on shortest from its head.    *)
BeginningAt(n, w, d, c) ==
  [p \in Between(n) |-> IF p[1] = c /\ p[2] # c THEN Leaving(n, w, d, c, p[2]) ELSE d[p]]
LEMMA WayBegins ==
  ASSUME NEW n \in Nat, NEW w \in Graphs(n), NEW c \in 0 .. n - 1, NEW y \in 0 .. n - 1, c # y,
         Distances(n, w)[<<c, y>>] < Inf
  PROVE  \E b \in Others(n, c) : w[<<c, b>>] + Distances(n, w)[<<b, y>>] = Distances(n, w)[<<c, y>>]
<1> PICK d : d = Distances(n, w)
  OBVIOUS
<1> PICK e : e = BeginningAt(n, w, d, c)
  OBVIOUS
<1>1. Metric(n, d) /\ Within(n, d, w)
  BY DistancesAreGreatest
<1>2. \A x, z \in 0 .. n - 1 : d[<<x, z>>] \in Nat /\ d[<<x, z>>] <= Inf /\ w[<<x, z>>] \in Nat
  BY DistanceIsNumber
<1>3. d \in Table(n) /\ (\A x \in 0 .. n - 1 : d[<<x, x>>] = 0)
      /\ \A x, m, z \in 0 .. n - 1 : d[<<x, z>>] <= d[<<x, m>>] + d[<<m, z>>]
  BY <1>1 DEF Metric
<1> DEFINE L(z) == Leaving(n, w, d, c, z)
<1>4. \A z \in 0 .. n - 1 : /\ L(z) \in Numbers /\ \A b \in Others(n, c) : L(z) <= w[<<c, b>>] + d[<<b, z>>]
                            /\ L(z) = Inf \/ \E b \in Others(n, c) : L(z) = w[<<c, b>>] + d[<<b, z>>]
  BY <1>3, LeavingIsLeast
<1> HIDE DEF L
<1>5. \A z \in 0 .. n - 1 : L(z) \in Nat /\ L(z) <= Inf
  BY <1>4 DEF Numbers
<1>6. \A b \in Others(n, c) : b \in 0 .. n - 1 /\ b # c
  BY DEF Others
<1>7. ASSUME NEW z \in 0 .. n - 1 PROVE d[<<c, z>>] <= L(z)
  <2>1. CASE L(z) = Inf
    BY <1>2, <2>1
  <2>2. CASE \E b \in Others(n, c) : L(z) = w[<<c, b>>] + d[<<b, z>>]
    <3>1. PICK b \in Others(n, c) : L(z) = w[<<c, b>>] + d[<<b, z>>]
      BY <2>2
    <3>2. b \in 0 .. n - 1 /\ d[<<c, b>>] <= w[<<c, b>>]
      BY <1>1, <1>6 DEF Within
    <3>3. d[<<c, z>>] <= d[<<c, b>>] + d[<<b, z>>]
      BY <1>3, <3>2
    <3>4. d[<<c, z>>] \in Nat /\ d[<<c, b>>] \in Nat /\ d[<<b, z>>] \in Nat /\ w[<<c, b>>] \in Nat
      BY <1>2, <3>2
    <3> QED BY <3>1, <3>2, <3>3, <3>4
  <2> QED BY <1>4, <2>1, <2>2
<1>8. ASSUME NEW b \in Others(n, c), NEW z \in 0 .. n - 1 PROVE L(z) <= L(b) + d[<<b, z>>]
  <2>1. b \in 0 .. n - 1 /\ d[<<b, z>>] \in Nat /\ L(b) \in Nat /\ L(z) \in Nat /\ L(z) <= Inf
    BY <1>2, <1>5, <1>6
  <2>2. CASE L(b) = Inf
    BY <2>1, <2>2
  <2>3. CASE \E a \in Others(n, c) : L(b) = w[<<c, a>>] + d[<<a, b>>]
    <3>1. PICK a \in Others(n, c) : L(b) = w[<<c, a>>] + d[<<a, b>>]
      BY <2>3
    <3>2. a \in 0 .. n - 1 /\ L(z) <= w[<<c, a>>] + d[<<a, z>>]
      BY <1>4, <1>6
    <3>3. d[<<a, z>>] <= d[<<a, b>>] + d[<<b, z>>]
      BY <1>3, <2>1, <3>2
    <3>4. d[<<a, z>>] \in Nat /\ d[<<a, b>>] \in Nat /\ w[<<c, a>>] \in Nat
      BY <1>2, <2>1, <3>2
    <3> QED BY <2>1, <3>1, <3>2, <3>3, <3>4
  <2> QED BY <1>4, <2>1, <2>2, <2>3
<1>9. \A x, z \in 0 .. n - 1 : e[<<x, z>>] = IF x = c /\ z # c THEN L(z) ELSE d[<<x, z>>]
  BY DEF BeginningAt, Between, L
<1>10. e \in Table(n)
  <2>1. \A p \in Between(n) : p[1] \in 0 .. n - 1 /\ p[2] \in 0 .. n - 1 /\ p = <<p[1], p[2]>>
    BY DEF Between
  <2>2. \A p \in Between(n) : (IF p[1] = c /\ p[2] # c THEN L(p[2]) ELSE d[p]) \in Numbers
    BY <1>3, <1>4, <2>1 DEF Table
  <2>3. e = [p \in Between(n) |-> IF p[1] = c /\ p[2] # c THEN L(p[2]) ELSE d[p]]
    BY DEF BeginningAt, L
  <2> QED BY <2>2, <2>3 DEF Table
<1>11. Metric(n, e)
  <2>1. \A x \in 0 .. n - 1 : e[<<x, x>>] = 0
    BY <1>3, <1>9
  <2>2. ASSUME NEW x \in 0 .. n - 1, NEW m \in 0 .. n - 1, NEW z \in 0 .. n - 1
        PROVE  e[<<x, z>>] <= e[<<x, m>>] + e[<<m, z>>]
    <3>1. /\ d[<<x, z>>] \in Nat /\ d[<<x, m>>] \in Nat /\ d[<<m, z>>] \in Nat /\ d[<<x, z>>] <= d[<<x, m>>] + d[<<m, z>>]
          /\ L(z) \in Nat /\ L(m) \in Nat /\ (x = c => d[<<x, z>>] <= L(z) /\ d[<<x, m>>] <= L(m)) /\ (m = c => d[<<m, z>>] <= L(z))
      BY <1>2, <1>3, <1>5, <1>7
    <3>2. d[<<x, x>>] = 0 /\ d[<<m, m>>] = 0
      BY <1>3
    <3>3. x = c /\ m # c => L(z) <= L(m) + d[<<m, z>>]
      BY <1>8 DEF Others
    <3>4. /\ e[<<x, z>>] = IF x = c /\ z # c THEN L(z) ELSE d[<<x, z>>]
          /\ e[<<x, m>>] = IF x = c /\ m # c THEN L(m) ELSE d[<<x, m>>]
          /\ e[<<m, z>>] = IF m = c /\ z # c THEN L(z) ELSE d[<<m, z>>]
      BY <1>9
    <3>5. CASE x # c
      BY <3>1, <3>4, <3>5
    <3>6. CASE x = c /\ m = c
      BY <3>1, <3>2, <3>4, <3>6
    <3>7. CASE x = c /\ m # c
      <4>1. CASE z = c
        BY <3>1, <3>2, <3>4, <3>7, <4>1
      <4>2. CASE z # c
        BY <3>1, <3>3, <3>4, <3>7, <4>2
      <4> QED BY <4>1, <4>2
    <3> QED BY <3>5, <3>6, <3>7
  <2> QED BY <1>10, <2>1, <2>2 DEF Metric
<1>12. Within(n, e, w)
  <2> SUFFICES ASSUME NEW x \in 0 .. n - 1, NEW z \in 0 .. n - 1, x # z PROVE e[<<x, z>>] <= w[<<x, z>>]
    BY DEF Within
  <2>1. x = c => L(z) <= w[<<c, z>>] + d[<<z, z>>]
    BY <1>4 DEF Others
  <2>2. d[<<z, z>>] = 0 /\ d[<<x, z>>] <= w[<<x, z>>] /\ w[<<x, z>>] \in Nat
    BY <1>1, <1>2, <1>3 DEF Within
  <2> QED BY <1>9, <2>1, <2>2
<1>13. e[<<c, y>>] <= d[<<c, y>>]
  BY <1>11, <1>12, DistancesAreGreatest
<1>14. L(y) = d[<<c, y>>] /\ d[<<c, y>>] < Inf
  BY <1>2, <1>5, <1>7, <1>9, <1>13
<1> QED BY <1>2, <1>4, <1>14

EndingAt(n, w, d, c) ==
  [p \in Between(n) |-> IF p[2] = c /\ p[1] # c THEN Entering(n, w, d, c, p[1]) ELSE d[p]]
LEMMA WayEnds ==
  ASSUME NEW n \in Nat, NEW w \in Graphs(n), NEW c \in 0 .. n - 1, NEW y \in 0 .. n - 1, c # y,
         Distances(n, w)[<<y, c>>] < Inf
  PROVE  \E a \in Others(n, c) : Distances(n, w)[<<y, a>>] + w[<<a, c>>] = Distances(n, w)[<<y, c>>]
<1> PICK d : d = Distances(n, w)
  OBVIOUS
<1> PICK e : e = EndingAt(n, w, d, c)
  OBVIOUS
<1>1. Metric(n, d) /\ Within(n, d, w)
  BY DistancesAreGreatest
<1>2. \A x, z \in 0 .. n - 1 : d[<<x, z>>] \in Nat /\ d[<<x, z>>] <= Inf /\ w[<<x, z>>] \in Nat
  BY DistanceIsNumber
<1>3. d \in Table(n) /\ (\A x \in 0 .. n - 1 : d[<<x, x>>] = 0)
      /\ \A x, m, z \in 0 .. n - 1 : d[<<x, z>>] <= d[<<x, m>>] + d[<<m, z>>]
  BY <1>1 DEF Metric
<1> DEFINE E(z) == Entering(n, w, d, c, z)
<1>4. \A z \in 0 .. n - 1 : /\ E(z) \in Numbers /\ \A a \in Others(n, c) : E(z) <= d[<<z, a>>] + w[<<a, c>>]
                            /\ E(z) = Inf \/ \E a \in Others(n, c) : E(z) = d[<<z, a>>] + w[<<a, c>>]
  BY <1>3, EnteringIsLeast
<1> HIDE DEF E
<1>5. \A z \in 0 .. n - 1 : E(z) \in Nat /\ E(z) <= Inf
  BY <1>4 DEF Numbers
<1>6. \A b \in Others(n, c) : b \in 0 .. n - 1 /\ b # c
  BY DEF Others
<1>7. ASSUME NEW z \in 0 .. n - 1 PROVE d[<<z, c>>] <= E(z)
  <2>1. CASE E(z) = Inf
    BY <1>2, <2>1
  <2>2. CASE \E a \in Others(n, c) : E(z) = d[<<z, a>>] + w[<<a, c>>]
    <3>1. PICK a \in Others(n, c) : E(z) = d[<<z, a>>] + w[<<a, c>>]
      BY <2>2
    <3>2. a \in 0 .. n - 1 /\ d[<<a, c>>] <= w[<<a, c>>]
      BY <1>1, <1>6 DEF Within
    <3>3. d[<<z, c>>] <= d[<<z, a>>] + d[<<a, c>>]
      BY <1>3, <3>2
    <3>4. d[<<z, c>>] \in Nat /\ d[<<z, a>>] \in Nat /\ d[<<a, c>>] \in Nat /\ w[<<a, c>>] \in Nat
      BY <1>2, <3>2
    <3> QED BY <3>1, <3>2, <3>3, <3>4
  <2> QED BY <1>4, <2>1, <2>2
<1>8. ASSUME NEW b \in Others(n, c), NEW z \in 0 .. n - 1 PROVE E(z) <= d[<<z, b>>] + E(b)
  <2>1. b \in 0 .. n - 1 /\ d[<<z, b>>] \in Nat /\ E(b) \in Nat /\ E(z) \in Nat /\ E(z) <= Inf
    BY <1>2, <1>5, <1>6
  <2>2. CASE E(b) = Inf
    BY <2>1, <2>2
  <2>3. CASE \E a \in Others(n, c) : E(b) = d[<<b, a>>] + w[<<a, c>>]
    <3>1. PICK a \in Others(n, c) : E(b) = d[<<b, a>>] + w[<<a, c>>]
      BY <2>3
    <3>2. a \in 0 .. n - 1 /\ E(z) <= d[<<z, a>>] + w[<<a, c>>]
      BY <1>4, <1>6
    <3>3. d[<<z, a>>] <= d[<<z, b>>] + d[<<b, a>>]
      BY <1>3, <2>1, <3>2
    <3>4. d[<<z, a>>] \in Nat /\ d[<<b, a>>] \in Nat /\ w[<<a, c>>] \in Nat
      BY <1>2, <2>1, <3>2
    <3> QED BY <2>1, <3>1, <3>2, <3>3, <3>4
  <2> QED BY <1>4, <2>1, <2>2, <2>3
<1>9. \A x, z \in 0 .. n - 1 : e[<<x, z>>] = IF z = c /\ x # c THEN E(x) ELSE d[<<x, z>>]
  BY DEF EndingAt, Between, E
<1>10. e \in Table(n)
  <2>1. \A p \in Between(n) : p[1] \in 0 .. n - 1 /\ p[2] \in 0 .. n - 1 /\ p = <<p[1], p[2]>>
    BY DEF Between
  <2>2. \A p \in Between(n) : (IF p[2] = c /\ p[1] # c THEN E(p[1]) ELSE d[p]) \in Numbers
    BY <1>3, <1>4, <2>1 DEF Table
  <2>3. e = [p \in Between(n) |-> IF p[2] = c /\ p[1] # c THEN E(p[1]) ELSE d[p]]
    BY DEF EndingAt, E
  <2> QED BY <2>2, <2>3 DEF Table
<1>11. Metric(n, e)
  <2>1. \A x \in 0 .. n - 1 : e[<<x, x>>] = 0
    BY <1>3, <1>9
  <2>2. ASSUME NEW x \in 0 .. n - 1, NEW m \in 0 .. n - 1, NEW z \in 0 .. n - 1
        PROVE  e[<<x, z>>] <= e[<<x, m>>] + e[<<m, z>>]
    <3>1. /\ d[<<x, z>>] \in Nat /\ d[<<x, m>>] \in Nat /\ d[<<m, z>>] \in Nat /\ d[<<x, z>>] <= d[<<x, m>>] + d[<<m, z>>]
          /\ E(x) \in Nat /\ E(m) \in Nat /\ (z = c => d[<<x, z>>] <= E(x) /\ d[<<m, z>>] <= E(m)) /\ (m = c => d[<<x, m>>] <= E(x))
      BY <1>2, <1>3, <1>5, <1>7
    <3>2. d[<<z, z>>] = 0 /\ d[<<m, m>>] = 0
      BY <1>3
    <3>3. z = c /\ m # c => E(x) <= d[<<x, m>>] + E(m)
      BY <1>8 DEF Others
    <3>4. /\ e[<<x, z>>] = IF z = c /\ x # c THEN E(x) ELSE d[<<x, z>>]
          /\ e[<<x, m>>] = IF m = c /\ x # c THEN E(x) ELSE d[<<x, m>>]
          /\ e[<<m, z>>] = IF z = c /\ m # c THEN E(m) ELSE d[<<m, z>>]
      BY <1>9
    <3>5. CASE z # c
      BY <3>1, <3>4, <3>5
    <3>6. CASE z = c /\ m = c
      BY <3>1, <3>2, <3>4, <3>6
    <3>7. CASE z = c /\ m # c
      <4>1. CASE x = c
        BY <3>1, <3>2, <3>4, <3>7, <4>1
      <4>2. CASE x # c
        BY <3>1, <3>3, <3>4, <3>7, <4>2
      <4> QED BY <4>1, <4>2
    <3> QED BY <3>5, <3>6, <3>7
  <2> QED BY <1>10, <2>1, <2>2 DEF Metric
<1>12. Within(n, e, w)
  <2> SUFFICES ASSUME NEW x \in 0 .. n - 1, NEW z \in 0 .. n - 1, x # z PROVE e[<<x, z>>] <= w[<<x, z>>]
    BY DEF Within
  <2>1. z = c => E(x) <= d[<<x, x>>] + w[<<x, c>>]
    BY <1>4 DEF Others
  <2>2. d[<<x, x>>] = 0 /\ d[<<x, z>>] <= w[<<x, z>>] /\ w[<<x, z>>] \in Nat
    BY <1>1, <1>2, <1>3 DEF Within
  <2> QED BY <1>9, <2>1, <2>2
<1>13. e[<<y, c>>] <= d[<<y, c>>]
  BY <1>11, <1>12, DistancesAreGreatest
<1>14. E(y) = d[<<y, c>>] /\ d[<<y, c>>] < Inf
  BY <1>2, <1>5, <1>7, <1>9, <1>13
<1> QED BY <1>2, <1>4, <1>14
-----------------------------------------------------------------------------
(* A recursive function exists if what it is at c depends only on what it   *)
(* is at members of a lower rank.                                           *)
Lower(D, rank, c) == {e \in D : rank[e] < rank[c]}
Local(D, V, rank, step) ==
  \A c \in D : \A f, g \in [D -> V] : (\A e \in Lower(D, rank, c) : f[e] = g[e]) => step[c][f] = step[c][g]
Stepwise(D, V, step) == \A c \in D : \A f \in [D -> V] : step[c][f] \in V
RankedBelow(D, rank, N) == \A c \in D : rank[c] \in Nat /\ rank[c] < N
LEMMA RankedRecursion ==
  ASSUME NEW D, NEW V, V # {}, NEW N \in Nat, NEW rank, RankedBelow(D, rank, N),
         NEW step, Stepwise(D, V, step), Local(D, V, rank, step)
  PROVE  \E f \in [D -> V] : \A c \in D : f[c] = step[c][f]
<1> DEFINE S == {k \in Nat : \E f \in [D -> V] : \A c \in D : rank[c] < k => f[c] = step[c][f]}
<1>1. 0 \in S
  <2>1. PICK v \in V : TRUE
    OBVIOUS
  <2>2. [c \in D |-> v] \in [D -> V]
    OBVIOUS
  <2>3. \A c \in D : ~(rank[c] < 0)
    BY DEF RankedBelow
  <2> QED BY <2>2, <2>3
<1>2. ASSUME NEW k \in Nat, k \in S PROVE k + 1 \in S
  <2>1. PICK f \in [D -> V] : \A c \in D : rank[c] < k => f[c] = step[c][f]
    BY <1>2
  <2>2. PICK g : g = [c \in D |-> IF rank[c] = k THEN step[c][f] ELSE f[c]]
    OBVIOUS
  <2>3. \A c \in D : step[c][f] \in V
    BY DEF Stepwise
  <2>4. g \in [D -> V]
    BY <2>2, <2>3
  <2>5. \A c \in D : rank[c] < k => g[c] = f[c]
    BY <2>2
  <2>6. ASSUME NEW c \in D, rank[c] < k + 1 PROVE g[c] = step[c][g]
    <3>1. \A e \in Lower(D, rank, c) : f[e] = g[e]
      <4>1. \A e \in Lower(D, rank, c) : e \in D /\ rank[e] < k
        BY <2>6 DEF Lower, RankedBelow
      <4> QED BY <2>5, <4>1
    <3>2. step[c][f] = step[c][g]
      BY <2>4, <3>1 DEF Local
    <3>3. g[c] = step[c][f]
      <4> PICK r : r = rank[c]
        OBVIOUS
      <4>1. r \in Nat /\ r < k + 1
        BY <2>6 DEF RankedBelow
      <4>2. r = k \/ r < k
        BY <4>1
      <4> QED BY <2>1, <2>2, <4>2
    <3> QED BY <3>2, <3>3
  <2> QED BY <2>4, <2>6
<1> HIDE DEF S
<1>3. N \in S
  BY <1>1, <1>2, InductionOnNat
<1> QED BY <1>3 DEF S, RankedBelow

Recurses(D, V, step) == \E f \in [D -> V] : \A c \in D : f[c] = step[c][f]
LEMMA Recursing ==
  ASSUME NEW D, NEW V, V # {}, NEW N, N \in Nat, NEW rank, RankedBelow(D, rank, N),
         NEW step, Stepwise(D, V, step), Local(D, V, rank, step)
  PROVE  Recurses(D, V, step)
BY RankedRecursion DEF Recurses

(* Concatenation. *)
LEMMA ConcatAt ==
  ASSUME NEW S, NEW s \in Seq(S), NEW t \in Seq(S), NEW i \in 1 .. Len(s) + Len(t)
  PROVE  (s \o t)[i] = IF i <= Len(s) THEN s[i] ELSE t[i - Len(s)]
BY ConcatProperties
LEMMA ConcatLen ==
  ASSUME NEW S, NEW s \in Seq(S), NEW t \in Seq(S)
  PROVE  s \o t \in Seq(S) /\ Len(s \o t) = Len(s) + Len(t) /\ DOMAIN (s \o t) = 1 .. Len(s) + Len(t)
<1>1. s \o t \in Seq(S) /\ Len(s \o t) = Len(s) + Len(t)
  BY ConcatProperties
<1>2. DOMAIN (s \o t) = 1 .. Len(s \o t)
  BY <1>1, LenProperties
<1> QED BY <1>1, <1>2
-----------------------------------------------------------------------------
(* Graphs of n nodes, as the code keeps them: no loops, one arc per pair.   *)
Arcs(n, g) == [p \in Between(n) |-> IF p \in DOMAIN g THEN g[p].weight ELSE Inf]
Far(n, g) == Distances(n, Arcs(n, g))
Sound(n, g) == \A p \in DOMAIN g : p \in Between(n) /\ p[1] # p[2] /\ g[p].weight \in Nat

LEMMA ArcsAreGraph ==
  ASSUME NEW n \in Nat, NEW g, Sound(n, g)
  PROVE  /\ Arcs(n, g) \in Graphs(n)
         /\ \A x, y \in 0 .. n - 1 :
              Arcs(n, g)[<<x, y>>] = IF <<x, y>> \in DOMAIN g THEN g[<<x, y>>].weight ELSE Inf
<1>1. \A p \in Between(n) : (IF p \in DOMAIN g THEN g[p].weight ELSE Inf) \in Nat
  BY InfAssumption DEF Sound
<1>2. \A x, y \in 0 .. n - 1 : <<x, y>> \in Between(n)
  BY DEF Between
<1> QED BY <1>1, <1>2 DEF Arcs, Graphs

(* Distances of a graph are a metric that no arc is shorter than, and a     *)
(* finite one is begun by an arc.                                           *)
LEMMA FarIsMetric ==
  ASSUME NEW n \in Nat, NEW g, Sound(n, g)
  PROVE  /\ \A x, y \in 0 .. n - 1 : Far(n, g)[<<x, y>>] \in Nat /\ Far(n, g)[<<x, y>>] <= Inf
         /\ \A x \in 0 .. n - 1 : Far(n, g)[<<x, x>>] = 0
         /\ \A x, y, z \in 0 .. n - 1 : Far(n, g)[<<x, z>>] <= Far(n, g)[<<x, y>>] + Far(n, g)[<<y, z>>]
         /\ \A x, y \in 0 .. n - 1 : <<x, y>> \in DOMAIN g => Far(n, g)[<<x, y>>] <= g[<<x, y>>].weight
<1>1. Arcs(n, g) \in Graphs(n)
  BY ArcsAreGraph
<1>2. Metric(n, Far(n, g)) /\ Within(n, Far(n, g), Arcs(n, g))
  BY <1>1, DistancesAreGreatest DEF Far
<1>3. \A x, y \in 0 .. n - 1 : Far(n, g)[<<x, y>>] \in Nat /\ Far(n, g)[<<x, y>>] <= Inf
  BY <1>1, DistanceIsNumber DEF Far
<1>4. ASSUME NEW x \in 0 .. n - 1, NEW y \in 0 .. n - 1, <<x, y>> \in DOMAIN g
      PROVE  Far(n, g)[<<x, y>>] <= g[<<x, y>>].weight
  <2>1. x # y
    BY <1>4 DEF Sound
  <2>2. Arcs(n, g)[<<x, y>>] = g[<<x, y>>].weight
    BY <1>4, ArcsAreGraph
  <2> QED BY <1>2, <2>1, <2>2 DEF Within
<1> QED BY <1>2, <1>3, <1>4 DEF Metric

(* A shortcut is added, or a heavier arc made lighter. *)
Shortened(n, g, h, s, t, way) ==
  /\ n \in Nat /\ Sound(n, g) /\ s \in 0 .. n - 1 /\ t \in 0 .. n - 1 /\ s # t /\ way \in Nat
  /\ Sound(n, h) /\ DOMAIN h = DOMAIN g \cup {<<s, t>>}
  /\ \A p \in DOMAIN g : p # <<s, t>> => h[p] = g[p]
  /\ h[<<s, t>>].weight <= way
  /\ h[<<s, t>>].weight = way \/ (<<s, t>> \in DOMAIN g /\ h[<<s, t>>].weight = g[<<s, t>>].weight)
  /\ <<s, t>> \in DOMAIN g => h[<<s, t>>].weight <= g[<<s, t>>].weight

(* Then everything is as far apart as before, if the way was no shorter.     *)
AsFar(n, g, h) == \A x, y \in 0 .. n - 1 : Far(n, h)[<<x, y>>] = Far(n, g)[<<x, y>>]
LEMMA ShortcutKeepsDistances ==
  ASSUME NEW n, NEW g, NEW h, NEW s, NEW t, NEW way, Shortened(n, g, h, s, t, way), Far(n, g)[<<s, t>>] <= way
  PROVE  AsFar(n, g, h)
<1>2. /\ n \in Nat /\ Sound(n, g) /\ s \in 0 .. n - 1 /\ t \in 0 .. n - 1 /\ s # t /\ way \in Nat
      /\ Sound(n, h) /\ DOMAIN h = DOMAIN g \cup {<<s, t>>}
      /\ \A p \in DOMAIN g : p # <<s, t>> => h[p] = g[p]
      /\ h[<<s, t>>].weight = way \/ (<<s, t>> \in DOMAIN g /\ h[<<s, t>>].weight = g[<<s, t>>].weight)
      /\ <<s, t>> \in DOMAIN g => h[<<s, t>>].weight <= g[<<s, t>>].weight
  BY DEF Shortened
<1>4. ASSUME NEW x \in 0 .. n - 1, NEW y \in 0 .. n - 1
      PROVE  /\ Arcs(n, h)[<<x, y>>] <= Arcs(n, g)[<<x, y>>] \/ Inf <= Arcs(n, g)[<<x, y>>]
             /\ x # y => Far(n, g)[<<x, y>>] <= Arcs(n, h)[<<x, y>>]
  <2>1. /\ Arcs(n, g)[<<x, y>>] = IF <<x, y>> \in DOMAIN g THEN g[<<x, y>>].weight ELSE Inf
        /\ Arcs(n, h)[<<x, y>>] = IF <<x, y>> \in DOMAIN h THEN h[<<x, y>>].weight ELSE Inf
    BY <1>2, ArcsAreGraph
  <2>2. /\ Far(n, g)[<<x, y>>] <= Inf /\ Far(n, g)[<<x, y>>] \in Nat
        /\ <<x, y>> \in DOMAIN g => Far(n, g)[<<x, y>>] <= g[<<x, y>>].weight
    BY <1>2, FarIsMetric
  <2>3. <<x, y>> \in DOMAIN g => g[<<x, y>>].weight \in Nat
    BY <1>2 DEF Sound
  <2>4. CASE <<x, y>> = <<s, t>>
    <3>1. x = s /\ y = t
      BY <2>4
    <3>2. Far(n, g)[<<s, t>>] <= way
      OBVIOUS
    <3> QED BY <1>2, <2>1, <2>2, <2>3, <3>1, <3>2, InfAssumption
  <2>5. CASE <<x, y>> # <<s, t>>
    BY <1>2, <2>1, <2>2, <2>3, <2>5, InfAssumption
  <2> QED BY <2>4, <2>5
<1>5. Arcs(n, g) \in Graphs(n) /\ Arcs(n, h) \in Graphs(n)
  BY <1>2, ArcsAreGraph
<1>6. \A x, y \in 0 .. n - 1 : Far(n, h)[<<x, y>>] = Far(n, g)[<<x, y>>]
  BY <1>2, <1>4, <1>5, ShortcutsChangeNothing DEF Far
<1> QED BY <1>6 DEF AsFar

(* Sorting.  The members of a finite set can be put in the order of their    *)
(* keys, and then each stands at one place.                                 *)
KeysRise(key, k, s) == \A i, j \in 1 .. k : i < j => key[s[i]] < key[s[j]]
KeyFor(key, S, b) == /\ \A x \in S : key[x] \in Nat /\ key[x] <= b
                     /\ \A x, y \in S : key[x] = key[y] => x = y
LEMMA Sortable ==
  ASSUME NEW b \in Nat, NEW key
  PROVE  \A k \in Nat : \A S : IsFiniteSet(S) /\ Cardinality(S) = k /\ KeyFor(key, S, b) => \E s \in [1 .. k -> S] : KeysRise(key, k, s)
<1> DEFINE K == {k \in Nat : \A S : IsFiniteSet(S) /\ Cardinality(S) = k /\ KeyFor(key, S, b) =>
                              \E s \in [1 .. k -> S] : KeysRise(key, k, s)}
<1>1. 0 \in K
  <2> SUFFICES ASSUME NEW S PROVE \E s \in [1 .. 0 -> S] : KeysRise(key, 0, s)
    OBVIOUS
  <2>1. [i \in 1 .. 0 |-> i] \in [1 .. 0 -> S] /\ \A s : KeysRise(key, 0, s)
    BY DEF KeysRise
  <2> QED BY <2>1
<1>2. ASSUME NEW k \in Nat, k \in K PROVE k + 1 \in K
  <2> PICK h : h = k + 1
    OBVIOUS
  <2> SUFFICES ASSUME NEW S, IsFiniteSet(S), Cardinality(S) = h, KeyFor(key, S, b)
               PROVE  \E s \in [1 .. h -> S] : KeysRise(key, h, s)
    OBVIOUS
  <2>1. PICK m \in S : \A x \in S : key[x] <= key[m]
    <3> DEFINE T == {b - key[x] : x \in S}
    <3>1. T \subseteq Nat
      BY DEF KeyFor
    <3>2. S # {}
      BY FS_EmptySet
    <3>3. T # {}
      BY <3>2
    <3>4. PICK l \in T : \A y \in T : l <= y
      BY <3>1, <3>3, NatHasLeast
    <3>5. PICK m \in S : l = b - key[m]
      BY <3>4
    <3>6. ASSUME NEW x \in S PROVE key[x] <= key[m]
      <4>1. l <= b - key[x]
        BY <3>4
      <4>2. key[x] \in Nat /\ key[m] \in Nat
        BY DEF KeyFor
      <4> QED BY <3>5, <4>1, <4>2
    <3> QED BY <3>6
  <2> PICK T : T = S \ {m}
    OBVIOUS
  <2>2. IsFiniteSet(T) /\ Cardinality(T) = k
    BY FS_RemoveElement
  <2>3. KeyFor(key, T, b)
    BY DEF KeyFor
  <2>4. PICK s \in [1 .. k -> T] : KeysRise(key, k, s)
    BY <1>2, <2>2, <2>3
  <2>5. PICK t : t = [i \in 1 .. h |-> IF i = h THEN m ELSE s[i]]
    OBVIOUS
  <2>6. \A i \in 1 .. h : i = h \/ i \in 1 .. k
    OBVIOUS
  <2>7. t[h] = m /\ \A i \in 1 .. k : t[i] = s[i] /\ s[i] \in T
    BY <2>5
  <2>8. t \in [1 .. h -> S]
    BY <2>5, <2>6, <2>7
  <2>9. KeysRise(key, h, t)
    <3> SUFFICES ASSUME NEW i \in 1 .. h, NEW j \in 1 .. h, i < j PROVE key[t[i]] < key[t[j]]
      BY DEF KeysRise
    <3>1. i \in 1 .. k
      OBVIOUS
    <3>2. CASE j = h
      <4>1. key[t[i]] <= key[m] /\ key[t[i]] # key[m] /\ key[t[i]] \in Nat /\ key[m] \in Nat
        BY <2>1, <2>7, <3>1 DEF KeyFor
      <4> QED BY <2>7, <3>2, <4>1
    <3>3. CASE j \in 1 .. k
      BY <2>4, <2>7, <3>1, <3>3 DEF KeysRise
    <3> QED BY <2>6, <3>2, <3>3
  <2> QED BY <2>8, <2>9
<1> HIDE DEF K
<1>3. Nat \subseteq K
  BY <1>1, <1>2, InductionOnNat
<1> QED BY <1>3 DEF K

\* levels of nodes
LevelIs(nodes, level) ==
  /\ IsFiniteSet(nodes) /\ nodes \subseteq Nat
  /\ \A x \in nodes : level[x] \in Nat
  /\ \A x, y \in nodes : level[x] = level[y] => x = y
(* Some node of every set has the highest level.                             *)
LEMMA HighestExists ==
  ASSUME NEW nodes, NEW level, LevelIs(nodes, level), NEW S \in SUBSET nodes, S # {}
  PROVE  \E x \in S : \A y \in S : level[y] <= level[x]
<1> DEFINE P == {k \in Nat : \A T \in SUBSET nodes : T # {} /\ Cardinality(T) = k =>
                    \E x \in T : \A y \in T : level[y] <= level[x]}
<1>1. \A T \in SUBSET nodes : IsFiniteSet(T) /\ Cardinality(T) \in Nat
  BY FS_Subset, FS_CardinalityType DEF LevelIs
<1>2. 0 \in P
  BY <1>1, FS_EmptySet
<1>3. ASSUME NEW k \in Nat, k \in P PROVE k + 1 \in P
  <2> SUFFICES ASSUME NEW T \in SUBSET nodes, T # {}, Cardinality(T) = k + 1
               PROVE  \E x \in T : \A y \in T : level[y] <= level[x]
    OBVIOUS
  <2>1. PICK t \in T : TRUE
    OBVIOUS
  <2>2. IsFiniteSet(T \ {t}) /\ Cardinality(T \ {t}) = k
    <3>1. IsFiniteSet(T)
      BY <1>1
    <3>2. IsFiniteSet(T \ {t}) /\ Cardinality(T \ {t}) = Cardinality(T) - 1
      BY <2>1, <3>1, FS_RemoveElement
    <3> QED BY <3>2
  <2>3. CASE T \ {t} = {}
    BY <2>1, <2>3 DEF LevelIs
  <2>4. CASE T \ {t} # {}
    <3>1. T \ {t} \in SUBSET nodes
      OBVIOUS
    <3>2. PICK x \in T \ {t} : \A y \in T \ {t} : level[y] <= level[x]
      BY <1>3, <2>2, <2>4, <3>1
    <3>3. level[x] \in Nat /\ level[t] \in Nat
      BY <2>1, <3>1 DEF LevelIs
    <3> QED
      <4>1. CASE level[t] <= level[x]
        BY <3>2, <4>1
      <4>2. CASE ~(level[t] <= level[x])
        <5>1. \A y \in T \ {t} : level[y] \in Nat
          BY <3>1 DEF LevelIs
        <5>2. \A y \in T \ {t} : level[y] <= level[t]
          BY <3>2, <3>3, <4>2, <5>1
        <5> QED BY <2>1, <3>3, <5>2
      <4> QED BY <4>1, <4>2
  <2> QED BY <2>3, <2>4
<1>4. Nat \subseteq P
  <2> HIDE DEF P
  <2> QED BY <1>2, <1>3, InductionOnNat
<1> QED BY <1>1, <1>4

(* A road: arcs of the input that lead on from x to y, with the nodes it     *)
(* runs through and what it weighs up to each.                               *)
Stretch(arcs, i, x, y) == i \in DOMAIN arcs /\ x = arcs[i].tail /\ y = arcs[i].head /\ arcs[i].weight \in Nat
Milestones(nodes, arcs, u, P, W) ==
  /\ P \in [0 .. Len(u) -> nodes] /\ W \in [0 .. Len(u) -> Nat] /\ W[0] = 0
  /\ \A i \in 1 .. Len(u) : Stretch(arcs, u[i], P[i - 1], P[i]) /\ W[i] = W[i - 1] + arcs[u[i]].weight
Route(nodes, arcs, u, x, y, l) ==
  u \in Seq(DOMAIN arcs) /\ \E P, W : Milestones(nodes, arcs, u, P, W) /\ P[0] = x /\ P[Len(u)] = y /\ W[Len(u)] = l

(* The empty road, the road over one arc, and roads in a row.               *)
LEMMA NoRoute == ASSUME NEW nodes, NEW arcs, NEW x \in nodes PROVE Route(nodes, arcs, <<>>, x, x, 0)
<1>1. <<>> \in Seq(DOMAIN arcs) /\ Len(<<>>) = 0
  BY EmptySeq
<1> PICK P : P = [i \in 0 .. 0 |-> x]
  OBVIOUS
<1> PICK W : W = [i \in 0 .. 0 |-> 0]
  OBVIOUS
<1>2. P \in [0 .. 0 -> nodes] /\ W \in [0 .. 0 -> Nat] /\ P[0] = x /\ W[0] = 0
  OBVIOUS
<1>3. Milestones(nodes, arcs, <<>>, P, W)
  BY <1>1, <1>2 DEF Milestones
<1> QED BY <1>1, <1>2, <1>3 DEF Route

(* One arc is a road.                                                       *)
LEMMA OneArcRoute ==
  ASSUME NEW nodes, NEW arcs, NEW s, NEW x \in nodes, NEW y \in nodes, Stretch(arcs, s, x, y), NEW u, u = <<s>>
  PROVE  Route(nodes, arcs, u, x, y, arcs[s].weight)
<1>1. s \in DOMAIN arcs /\ arcs[s].weight \in Nat
  BY DEF Stretch
<1>2. u \in Seq(DOMAIN arcs) /\ Len(u) = 1 /\ u[1] = s
  BY <1>1
<1> PICK P : P = [i \in 0 .. 1 |-> IF i = 0 THEN x ELSE y]
  OBVIOUS
<1> PICK W : W = [i \in 0 .. 1 |-> IF i = 0 THEN 0 ELSE arcs[s].weight]
  OBVIOUS
<1>3. P \in [0 .. 1 -> nodes] /\ P[0] = x /\ P[1] = y
  OBVIOUS
<1>4. W \in [0 .. 1 -> Nat] /\ W[0] = 0 /\ W[1] = arcs[s].weight
  BY <1>1
<1>5. \A i \in 1 .. 1 : i = 1 /\ i - 1 = 0
  OBVIOUS
<1>6. W[1] = W[0] + arcs[s].weight
  BY <1>1, <1>4
<1>7. Milestones(nodes, arcs, u, P, W)
  BY <1>2, <1>3, <1>4, <1>5, <1>6 DEF Milestones
<1> QED BY <1>2, <1>3, <1>4, <1>7 DEF Route

(* What a road is made of.                                                  *)
LEMMA RouteWeighs ==
  ASSUME NEW nodes, NEW arcs, NEW u, NEW x, NEW y, NEW l, Route(nodes, arcs, u, x, y, l)
  PROVE  l \in Nat /\ x \in nodes /\ y \in nodes /\ u \in Seq(DOMAIN arcs)
<1>1. PICK P, W : Milestones(nodes, arcs, u, P, W) /\ P[0] = x /\ P[Len(u)] = y /\ W[Len(u)] = l
  BY DEF Route
<1>2. u \in Seq(DOMAIN arcs) /\ Len(u) \in Nat
  BY DEF Route
<1>3. 0 \in 0 .. Len(u) /\ Len(u) \in 0 .. Len(u)
  BY <1>2
<1> QED BY <1>1, <1>2, <1>3 DEF Milestones

(* Two roads in a row are one, and as long as both.                         *)
LEMMA RoutesJoin ==
  ASSUME NEW nodes, NEW arcs, NEW u, NEW v, NEW x, NEW y, NEW z, NEW k, NEW l, Route(nodes, arcs, u, x, y, k), Route(nodes, arcs, v, y, z, l)
  PROVE  Route(nodes, arcs, u \o v, x, z, k + l)
<1> PICK m : m = Len(u)
  OBVIOUS
<1> PICK n : n = Len(v)
  OBVIOUS
<1>1. PICK P, W : Milestones(nodes, arcs, u, P, W) /\ P[0] = x /\ P[m] = y /\ W[m] = k
  BY DEF Route
<1>2. PICK Q, V : Milestones(nodes, arcs, v, Q, V) /\ Q[0] = y /\ Q[n] = z /\ V[n] = l
  BY DEF Route
<1>3. u \in Seq(DOMAIN arcs) /\ v \in Seq(DOMAIN arcs) /\ m \in Nat /\ n \in Nat
  BY DEF Route
<1> PICK w : w = u \o v
  OBVIOUS
<1>4. w \in Seq(DOMAIN arcs) /\ Len(w) = m + n /\ \A i \in 1 .. m + n : w[i] = IF i <= m THEN u[i] ELSE v[i - m]
  BY <1>3, ConcatLen, ConcatAt
<1>5. P \in [0 .. m -> nodes] /\ W \in [0 .. m -> Nat] /\ W[0] = 0
      /\ \A i \in 1 .. m : Stretch(arcs, u[i], P[i - 1], P[i]) /\ W[i] = W[i - 1] + arcs[u[i]].weight
  BY <1>1 DEF Milestones
<1>6. Q \in [0 .. n -> nodes] /\ V \in [0 .. n -> Nat] /\ V[0] = 0
      /\ \A i \in 1 .. n : Stretch(arcs, v[i], Q[i - 1], Q[i]) /\ V[i] = V[i - 1] + arcs[v[i]].weight
  BY <1>2 DEF Milestones
<1> PICK R : R = [i \in 0 .. m + n |-> IF i <= m THEN P[i] ELSE Q[i - m]]
  OBVIOUS
<1> PICK Y : Y = [i \in 0 .. m + n |-> IF i <= m THEN W[i] ELSE k + V[i - m]]
  OBVIOUS
<1>7. k \in Nat /\ l \in Nat
  <2>1. m \in 0 .. m /\ n \in 0 .. n
    BY <1>3
  <2>2. W[m] \in Nat /\ V[n] \in Nat
    BY <1>5, <1>6, <2>1
  <2> QED BY <1>1, <1>2, <2>2
<1>8. \A i \in 0 .. m : R[i] = P[i] /\ Y[i] = W[i]
  BY <1>3
<1>9. ASSUME NEW j \in 0 .. n PROVE R[m + j] = Q[j] /\ Y[m + j] = k + V[j]
  <2> PICK i : i = m + j
    OBVIOUS
  <2>1. i \in 0 .. m + n /\ i - m = j
    BY <1>3
  <2>2. CASE j = 0
    <3>1. i = m /\ R[m] = P[m] /\ Y[m] = W[m]
      BY <1>3, <1>8, <2>2
    <3> QED BY <1>1, <1>2, <1>6, <1>7, <2>2, <3>1
  <2>3. CASE j # 0
    <3>1. ~(i <= m)
      BY <1>3, <2>3
    <3> QED BY <2>1, <3>1
  <2> QED BY <2>2, <2>3
<1>10. \A i \in 0 .. m + n : i \in 0 .. m \/ \E j \in 0 .. n : i = m + j
  BY <1>3
<1>11. R \in [0 .. m + n -> nodes] /\ Y \in [0 .. m + n -> Nat]
  <2>1. ASSUME NEW i \in 0 .. m + n PROVE R[i] \in nodes /\ Y[i] \in Nat
    <3>1. CASE i \in 0 .. m
      BY <1>5, <1>8, <3>1
    <3>2. ASSUME NEW j \in 0 .. n, i = m + j PROVE R[i] \in nodes /\ Y[i] \in Nat
      <4>1. R[i] = Q[j] /\ Y[i] = k + V[j]
        BY <1>9, <3>2
      <4>2. Q[j] \in nodes /\ V[j] \in Nat
        BY <1>6
      <4>3. k + V[j] \in Nat
        BY <1>7, <4>2
      <4> QED BY <4>1, <4>2, <4>3
    <3> QED BY <1>10, <3>1, <3>2
  <2>2. R = [i \in 0 .. m + n |-> R[i]] /\ Y = [i \in 0 .. m + n |-> Y[i]]
    OBVIOUS
  <2> QED BY <2>1, <2>2
<1>12. ASSUME NEW i \in 1 .. m + n
       PROVE  Stretch(arcs, w[i], R[i - 1], R[i]) /\ Y[i] = Y[i - 1] + arcs[w[i]].weight
  <2> PICK h : h = i - 1
    OBVIOUS
  <2>1. CASE i <= m
    <3>1. i \in 1 .. m /\ h \in 0 .. m /\ i \in 0 .. m
      BY <1>3, <2>1
    <3>2. R[h] = P[h] /\ R[i] = P[i] /\ Y[h] = W[h] /\ Y[i] = W[i] /\ w[i] = u[i]
      BY <1>4, <1>8, <2>1, <3>1
    <3>3. Stretch(arcs, u[i], P[h], P[i]) /\ W[i] = W[h] + arcs[u[i]].weight
      BY <1>5, <3>1
    <3> QED BY <3>2, <3>3
  <2>2. CASE ~(i <= m)
    <3> PICK j : j = i - m
      OBVIOUS
    <3> PICK g : g = j - 1
      OBVIOUS
    <3>1. j \in 1 .. n /\ g \in 0 .. n /\ j \in 0 .. n /\ i = m + j /\ h = m + g
      BY <1>3, <2>2
    <3>2. R[h] = Q[g] /\ Y[h] = k + V[g] /\ R[i] = Q[j] /\ Y[i] = k + V[j]
      BY <1>9, <3>1
    <3>3. w[i] = v[j]
      BY <1>4, <2>2
    <3>4. Stretch(arcs, v[j], Q[g], Q[j]) /\ V[j] = V[g] + arcs[v[j]].weight /\ arcs[v[j]].weight \in Nat /\ V[g] \in Nat
      BY <1>6, <3>1 DEF Stretch
    <3> QED BY <1>7, <3>2, <3>3, <3>4
  <2> QED BY <2>1, <2>2
<1>13. R[0] = x /\ Y[0] = 0 /\ R[m + n] = z /\ Y[m + n] = k + l
  <2>1. 0 \in 0 .. m /\ n \in 0 .. n
    BY <1>3
  <2> QED BY <1>1, <1>2, <1>5, <1>8, <1>9, <2>1
<1>14. Milestones(nodes, arcs, w, R, Y)
  BY <1>4, <1>11, <1>12, <1>13 DEF Milestones
<1> QED BY <1>4, <1>13, <1>14 DEF Route
=============================================================================
