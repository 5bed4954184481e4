--------------------------- MODULE MCWeightServer ---------------------------
(* WeightServer on finite sets of model values.  Requests of one kind are  *)
(* interchangeable, which the safety runs use.                             *)
EXTENDS WeightServer, TLC

Symmetry == Permutations(Queries) \cup Permutations(Updates)
=============================================================================
