SPECIFICATION TwoSpec
CONSTANTS
  MaxSeq = 3
  NoChallenge = NoChallenge
  blank = blank
  path = path
  text = text
  nonce = nonce
  Blank = blank
  MockCrypto = TRUE
  MaxRuns = 1
  PriorityIsolation = TRUE
  Nonces <- MCNonces
  Payloads <- MCPayloads
  Policy <- SOVP_POLICY
  Script <- Main
INVARIANTS
  QuorumRunsItsOwn
CHECK_DEADLOCK FALSE
