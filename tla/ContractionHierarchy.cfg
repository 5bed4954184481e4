SPECIFICATION Spec
CONSTANTS
  Inf = 99
  NoId = NoId
  PopBounds = {0, 2}
  Inputs <- MCInputs
  GivenOrders <- MCOrders
  StartDistances <- MCStartDistances
  PinLists <- MCPinLists
  MaxSources <- MCMaxSources
  MaxRounds <- MCMaxRounds
INVARIANTS
  CoreKeepsDistances
  HierarchyIsConsistent
  RunIsShortest
  PinnedRunIsShortest
  PinnedRoadExplainsDistance
CHECK_DEADLOCK FALSE
