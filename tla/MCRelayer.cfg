SPECIFICATION FairSpec
CONSTANTS
  l1 = l1
  l2 = l2
  operator = operator
  faucet = faucet
  Lines <- MCLines
  Pids <- MCPids
  Callers <- MCCallers
  Casts <- MCCasts
  NoLine = NoLine
INVARIANTS
  TypeOK
  OneDaemon
  WitnessIsOwn
PROPERTIES
  PromiseKept
  EmitReturns
  LineLeavesFifo
CHECK_DEADLOCK FALSE
