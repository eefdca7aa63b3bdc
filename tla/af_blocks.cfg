CONSTANTS
  s1 = s1
  s2 = s2
  G = G
  a1 = a1
  a2 = a2
  b1 = b1
  b2 = b2
  Sources <- MCSources
  Blocks <- Forks4Blocks
  Genesis = G
  Parent <- Forks4Parent
  Height <- Forks4Height
  Banned = {b1}
  Invalid = {}
  GCThreshold = 3
  MaxDisjointHeaders = 2
  MaxRequestsPerBlock = 1
  Faults = TRUE
  Churn = TRUE
SYMMETRY SourceSymmetry
INIT Init
NEXT Next
INVARIANTS
  TypeOK
  TreeDisjointExclusive
  NoBannedBlockVerified
