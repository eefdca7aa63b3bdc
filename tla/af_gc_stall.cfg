CONSTANTS
  s1 = s1
  s2 = s2
  G = G
  a1 = a1
  a2 = a2
  b1 = b1
  b2 = b2
  Sources = {s1}
  Blocks <- Forks4Blocks
  Genesis = G
  Parent <- Forks4Parent
  Height <- Forks4Height
  Banned = {}
  Invalid = {a1}
  GCThreshold = 3
  MaxDisjointHeaders = 2
  MaxRequestsPerBlock = 1
  Faults = FALSE
  Churn = FALSE
SPECIFICATION FairSpec
PROPERTY SourceBestEventuallyVerified
