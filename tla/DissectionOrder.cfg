SPECIFICATION Spec
CONSTANTS
  Graphs <- MCGraphs
  TaskSpawnCutoff = 1
INVARIANTS
  OrderDissects
  TreesAreShallow
CHECK_DEADLOCK FALSE
