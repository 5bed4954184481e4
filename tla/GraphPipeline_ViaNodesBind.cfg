SPECIFICATION Spec
CONSTANTS
  Maps <- ViaNodeMaps
  Moments <- MCMoments
  Meaning <- MCMeaning
INVARIANT ViaNodesBind
CHECK_DEADLOCK FALSE
