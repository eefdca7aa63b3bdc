CONSTANTS
  s1 = s1
  s2 = s2
  G = G
  a1 = a1
  a2 = a2
  b1 = b1
  b2 = b2
  Sources = {s1}
  Blocks <- Forks4Blocks
  Genesis = G
  Parent <- Forks4Parent
  Height <- Forks4Height
  Banned = {}
  Invalid = {}
  GCThreshold = 5
  MaxDisjointHeaders = 1
  MaxRequestsPerBlock = 1
  Faults = FALSE
  Churn = FALSE
INIT Init
NEXT Next
INVARIANT DisjointWithinConfiguredCap
