----------------------------- MODULE MCCchCache -----------------------------
(* CchCache on finite sets of model values; processes are interchangeable. *)
EXTENDS CchCacheInv, TLC

Symmetry == Permutations(Loaders)
=============================================================================
