SPECIFICATION Spec
CONSTANTS
  Capacity = 2
  Depth = 1
  MaxStaged = 3
PROPERTIES
  TrapOnEveryLap
CHECK_DEADLOCK FALSE
