SPECIFICATION Spec
CONSTANTS
  MaxSeq = 2
  NoChallenge = NoChallenge
  n1 = n1
  n2 = n2
  n3 = n3
  text = text
  MockCrypto = FALSE
  MaxBoots = 2
  Nonces <- MCNonces
  Payloads <- MCPayloads
  Policy <- SOVP_POLICY
  Proposals <- MCProposals
  Bitmaps <- MCBitmaps
  Counts <- MCCounts
  SignedSets <- MCSignedSets
INVARIANTS
  TypeOK
  GrantedOnce
  QuorumStrictness
  ChallengeSpentOnce
  IndInv
PROPERTIES
  ReleaseIsNewest
  PromiseKept
SYMMETRY NonceSymmetry
