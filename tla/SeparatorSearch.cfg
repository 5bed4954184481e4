SPECIFICATION Spec
CONSTANTS
  Inputs <- MCInputs
  Threads <- MCThreads
  ParallelismCutoff = 4
  h1 = h1
  h2 = h2
SYMMETRY MCSymmetry
INVARIANTS
  CuttersAreSound
  BestOfAll
  SeparatorSeparates
