\* A forged duplicate block carrying a justification reaches the is_current_best_block assert.
CONSTANTS
  MaxSources = 1
  MaxRequests = 3
  MaxHeight = 3
  DownloadAhead = 2
  Modes = {FALSE}
  Upgrades <- MCUpgrades
  ForgeHeights = TRUE
  U32Max = 8
  Honest = FALSE
  RecycleIds = FALSE
  None = None
SPECIFICATION Spec
INVARIANT
  JustificationNeverPanics
