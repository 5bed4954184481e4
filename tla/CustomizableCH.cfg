SPECIFICATION Spec
CONSTANTS
  Inf = 99
  NoId = NoId
  Threads = {t1, t2}
  Inputs <- MCInputs
INVARIANTS
  MetricIsExact
  TrianglesAreSettled
  WitnessSearchIsPerfect
  QueryIsShortest
  PinnedIsShortest
SYMMETRY ThreadSymmetry
CHECK_DEADLOCK FALSE
