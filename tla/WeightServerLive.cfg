SPECIFICATION FairSpec
CONSTANTS
  Queries = {q1, q2}
  Updates = {u1, u2}
  Pollers = {}
  Weights = {base}
  Baseline = base
  NoWeights = NoWeights
  QueueCap = 1
PROPERTIES
  EveryQueryFinishes
  PublishedIsApplied
