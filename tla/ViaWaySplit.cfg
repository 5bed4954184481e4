SPECIFICATION Spec
CONSTANTS
  NumArcs = 6
  Turns <- TurnsFrom
  Chains <- ListsOfChains
  WalkBound = 6
INVARIANTS
  EdgesAreTurns
  LegalWalksSurvive
  ChainsBindUnlessCopied
