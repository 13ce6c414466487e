SPECIFICATION Spec
CONSTANTS
  Width = 12
  Bound = 5
  Dim = 2
  Roots <- AllRoots
  Coordinates <- Near
  Priors <- MCPriors
  Badges <- MCBadges
  Descriptors <- Boundary
  CycleCap = 3
  Runtimes <- Cores
INVARIANTS
  IsqrtIsFloorRoot
  AdmitIsExact
  PhonemeSurvives
  RuntimeInLockstep
CHECK_DEADLOCK FALSE
