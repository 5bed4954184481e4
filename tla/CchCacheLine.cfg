SPECIFICATION Spec
CONSTANTS
  Loaders = {p1, p2}
  Contents = {cA, cB}
  LineGraph = TRUE
SYMMETRY Symmetry
INVARIANTS
  CacheIsRight
  MappedStaysWhole
  LineGraphCacheHits
  IInv
