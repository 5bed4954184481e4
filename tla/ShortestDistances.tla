-------------------------- MODULE ShortestDistances --------------------------
(* All distances in a road graph of n nodes by a dynamic program over them: *)
(* the reference that the answers of both hierarchies are compared with.    *)
(* What inf_weight and more is, is no distance: Inf.                        *)
EXTENDS Integers

CONSTANT Inf   \* inf_weight
ASSUME InfAssumption == Inf \in Nat

Lesser(a, b) == IF a <= b THEN a ELSE b
Plus(a, b) == Lesser(a + b, Inf)
Between(n) == (0 .. n - 1) \X (0 .. n - 1)

(* In the table for k a way may use the nodes up to k. *)
Direct(n, w) == [p \in Between(n) |-> IF p[1] = p[2] THEN 0 ELSE Lesser(w[p], Inf)]
Through(low, k) == [p \in DOMAIN low |-> Lesser(low[p], Plus(low[<<p[1], k>>], low[<<k, p[2]>>]))]
DistancesOver(n, w) ==
  LET D[k \in -1 .. n - 1] == IF k = -1 THEN Direct(n, w) ELSE Through(D[k - 1], k) IN D
Distances(n, w) == DistancesOver(n, w)[n - 1]
=============================================================================
