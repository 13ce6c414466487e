SPECIFICATION Spec
CONSTANTS
  l1 = l1
  l2 = l2
  operator = operator
  faucet = faucet
  Lines <- MCLines
  Pids <- MCPids
  Callers <- MCCallers
  Casts <- MCOnlyStart
  NoLine = NoLine
INVARIANTS
  RelayedReachesDaemon
CHECK_DEADLOCK FALSE
