SPECIFICATION Spec
CONSTANTS
  MaxSeq = 3
  NoChallenge = NoChallenge
  nonce = nonce
  text = text
  MockCrypto = TRUE
  Nonces <- MCNonces
  Payloads <- MCPayloads
  Policy <- SOVP_POLICY
  Proposals <- MCProposals
  Approvals <- MCApprovals
INVARIANTS
  TypeOK
  StatusesAgree
  EmulationTracksGate
