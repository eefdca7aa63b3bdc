\* Header-only mode: a Reset after a failing header leaves the best block
\* where it was instead of going back to the latest finalized block.
CONSTANTS
  MaxSources = 2
  MaxRequests = 3
  MaxHeight = 3
  DownloadAhead = 2
  Modes = {FALSE}
  Upgrades <- MCUpgrades
  ForgeHeights = FALSE
  U32Max = 8
  Honest = FALSE
  RecycleIds = FALSE
  None = None
SPECIFICATION Spec
PROPERTY
  ImplementsOptimisticChain
