SPECIFICATION Spec
CONSTANTS
  Width = 12
  Bound = 5
  Dim = 2
  Roots <- SomeRoots
  Coordinates <- Far
  Priors <- MCPriors
  Badges <- MCBadges
  Descriptors <- OneSyllable
  CycleCap = 3
  Runtimes = {}
INVARIANTS
  AdmitMeansWithinBound
CHECK_DEADLOCK FALSE
