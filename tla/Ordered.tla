------------------------------- MODULE Ordered -------------------------------
(* The members of a set as a sequence: what a loop over a sorted array sees. *)
LOCAL INSTANCE Folds
LOCAL INSTANCE Sequences
LOCAL INSTANCE Integers

InOrder(S, Less(_, _)) ==
  MapThenFoldSet(LAMBDA x, s : <<x>> \o s, <<>>, LAMBDA x : x,
                 LAMBDA T : CHOOSE x \in T : \A y \in T : y = x \/ Less(x, y), S)
Ascending(S) == InOrder(S, LAMBDA x, y : x < y)
=============================================================================
