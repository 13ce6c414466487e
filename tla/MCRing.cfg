SPECIFICATION Spec
CONSTANTS
  Capacity = 4
  Depth = 3
  MaxStaged = 9
INVARIANTS
  TypeOK
  AdmittedIsStaged
  TailTracksSequence
PROPERTIES
  TrapOnlyOnViolation
  GoodIsAdmitted
CHECK_DEADLOCK FALSE
