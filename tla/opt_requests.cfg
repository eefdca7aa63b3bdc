\* Both modes of the engine (Config::full None and Some) from one initial
\* choice: request bookkeeping, header-only resets, full-mode runtime and
\* storage-diff bookkeeping and resets that rebuild the chain.
CONSTANTS
  MaxSources = 2
  MaxRequests = 3
  MaxHeight = 3
  DownloadAhead = 2
  Modes = {FALSE, TRUE}
  Upgrades <- MCUpgrades
  ForgeHeights = FALSE
  U32Max = 8
  Honest = FALSE
  RecycleIds = FALSE
  None = None
SPECIFICATION Spec
INVARIANTS
  TypeOK
  NumOngoingRequestsConsistent
  NoDanglingRequests
  BestStorageMatchesChain
