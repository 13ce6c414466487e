SPECIFICATION FairSpec
CONSTANTS
  MaxSeq = 3
  NoChallenge = NoChallenge
  blank = blank
  path = path
  text = text
  nonce = nonce
  Blank = blank
  MockCrypto = TRUE
  MaxRuns = 2
  PriorityIsolation = FALSE
  Nonces <- MCNonces
  Payloads <- MCPayloads
  Policy <- SOVP_POLICY
  Script <- Main
INVARIANTS
  AnswerIsComing
  QuorumDispatchesCovered
PROPERTIES
  DoorbellAnswered
CHECK_DEADLOCK FALSE
