\* Full mode: every Reset rebuilds the chain from
\* finalized_chain_information, so the engine implements OptimisticChain.
CONSTANTS
  MaxSources = 2
  MaxRequests = 3
  MaxHeight = 3
  DownloadAhead = 2
  Modes = {TRUE}
  Upgrades <- MCUpgrades
  ForgeHeights = FALSE
  U32Max = 8
  Honest = FALSE
  RecycleIds = FALSE
  None = None
SPECIFICATION Spec
PROPERTY
  ImplementsOptimisticChain
