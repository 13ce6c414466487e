SPECIFICATION FairSpec
CONSTANTS
  MaxSeq = 3
  NoChallenge = NoChallenge
  blank = blank
  path = path
  text = text
  nonce = nonce
  Blank = blank
  MockCrypto = TRUE
  MaxRuns = 2
  PriorityIsolation = TRUE
  Nonces <- MCNonces
  Payloads <- MCPayloads
  Policy <- SOVP_POLICY
  Script <- Any
INVARIANTS
  TypeOK
  DispatchMatchesAuthorisation
  DispatchedOnce
  OutcomeIsOwn
  VerdictIsThere
PROPERTIES
  PromiseKept
  RunEnds
CHECK_DEADLOCK FALSE
