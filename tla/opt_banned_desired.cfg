\* desired_requests still offers requests to banned sources.
CONSTANTS
  MaxSources = 2
  MaxRequests = 3
  MaxHeight = 3
  DownloadAhead = 2
  Modes = {FALSE}
  Upgrades <- MCUpgrades
  ForgeHeights = FALSE
  U32Max = 8
  Honest = FALSE
  RecycleIds = FALSE
  None = None
SPECIFICATION Spec
INVARIANT
  DesiredRequestsSkipBanned
