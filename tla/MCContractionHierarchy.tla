----------------------- MODULE MCContractionHierarchy -----------------------
EXTENDS ContractionHierarchyQuery

A(t, h, w) == [tail |-> t, head |-> h, weight |-> w]
MCInputs == {
  [n |-> 4, arcs |-> <<A(0, 1, 1), A(1, 2, 2), A(2, 3, 1), A(3, 0, 2), A(0, 2, 3), A(1, 3, 4), A(2, 1, 1), A(0, 1, 2), A(1, 1, 0)>>],
  [n |-> 4, arcs |-> <<A(0, 1, 1), A(1, 0, 1), A(1, 2, 1), A(2, 1, 1), A(2, 3, 0), A(3, 2, 0), A(3, 0, 3), A(0, 3, 3)>>],
  [n |-> 3, arcs |-> <<A(0, 1, 1), A(1, 2, 1), A(0, 2, 3), A(2, 1, 4), A(2, 0, 1)>>],
  [n |-> 3, arcs |-> <<A(0, 1, 1), A(1, 0, 2), A(2, 1, 0), A(2, 1, 0)>>]}
MCOrders == {<<2, 1, 0, 3>>, <<1, 3, 2, 0>>, <<1, 0, 2>>}
MCMaxRounds == 3 :> 0 @@ 4 :> 1
MCMaxSources == 3 :> 2 @@ 4 :> 1
MCStartDistances == 3 :> {0, 2} @@ 4 :> {1}
MCPinLists == 3 :> {<<2, 0>>, <<1, 1>>} @@ 4 :> {<<3, 1, 1>>}
=============================================================================
