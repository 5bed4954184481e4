----------------------------- MODULE WeightFeed -----------------------------
(***************************************************************************)
(* What hanoi-server promises about weights, whatever its threads do: a    *)
(* last-writer-wins feed.  Vectors are published in an order; the one in   *)
(* use is always a published one, only ever replaced by a later one, and   *)
(* may skip any in between.  A route may be computed while newer vectors   *)
(* wait, but whatever was published when one route was begun is in use     *)
(* when the next is begun.                                                 *)
(***************************************************************************)
EXTENDS Naturals, Sequences

CONSTANTS Weights, Baseline

VARIABLES
  published,  \* every vector published so far, in order
  serving,    \* the vector routes are computed with, and its position
  owed        \* the position the next route's vector must have reached

vars == <<published, serving, owed>>

Init ==
  /\ published = <<>>
  /\ serving = [ver |-> 0, val |-> Baseline]
  /\ owed = 0

Publish ==
  /\ \E w \in Weights : published' = Append(published, w)
  /\ UNCHANGED <<serving, owed>>

Adopt ==
  /\ \E v \in serving.ver + 1 .. Len(published) :
       serving' = [ver |-> v, val |-> published[v]]
  /\ UNCHANGED <<published, owed>>

Route ==
  /\ owed <= serving.ver
  /\ owed' = Len(published)
  /\ UNCHANGED <<published, serving>>

Next == Publish \/ Adopt \/ Route

Spec == Init /\ [][Next]_vars
=============================================================================
