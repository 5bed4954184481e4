SPECIFICATION Spec
CONSTANTS
  Queries = {q1, q2}
  Updates = {u1, u2}
  Pollers = {u1, u2}
  Weights = {base, wA}
  Baseline = base
  NoWeights = NoWeights
  QueueCap = 1
SYMMETRY Symmetry
INVARIANTS
  AtMostOneStaleRoute
  AgreeUnlessCrossed
  AnswersComeFromDispatch
  EmptyMeansPanicked
  LonePollIsRight
PROPERTY ImplementsFeed
