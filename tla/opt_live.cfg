\* Both modes, honest sources on a reliable network, request ids
\* reused once free: the chain catches up with the source's best block.
CONSTANTS
  MaxSources = 2
  MaxRequests = 3
  MaxHeight = 3
  DownloadAhead = 2
  Modes = {FALSE, TRUE}
  Upgrades <- MCUpgrades
  ForgeHeights = FALSE
  U32Max = 8
  Honest = TRUE
  RecycleIds = TRUE
  None = None
SPECIFICATION LiveSpec
PROPERTY
  BestReachesSourceBest
