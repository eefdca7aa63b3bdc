\* A source best far above a Missing slot overflows the u32 request count.
CONSTANTS
  MaxSources = 2
  MaxRequests = 3
  MaxHeight = 3
  DownloadAhead = 2
  Modes = {FALSE}
  Upgrades <- MCUpgrades
  ForgeHeights = FALSE
  U32Max = 1
  Honest = FALSE
  RecycleIds = FALSE
  None = None
SPECIFICATION Spec
INVARIANT
  DesiredRequestsNeverPanic
