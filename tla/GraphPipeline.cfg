SPECIFICATION Spec
CONSTANTS
  Maps <- MCMaps
  Moments <- MCMoments
  Meaning <- MCMeaning
INVARIANTS
  EveryPhasePasses
  PassedIsUsable
  RestrictionsBind
CHECK_DEADLOCK FALSE
