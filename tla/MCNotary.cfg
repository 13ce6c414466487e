SPECIFICATION Spec
CONSTANTS
  Runs = {r1, r2}
  OldKey = OldKey
  c1 = c1
  c2 = c2
  Challenges <- MCChallenges
  Blocks <- MCBlocks
  MaxLosses = 1
  NoFile = NoFile
  Empty = Empty
INVARIANTS
  TypeOK
  TriadSigned
  PairsMatch
  QuietRunConfirms
SYMMETRY RunSymmetry
