\* A justification sent with its block is verified before the block.
CONSTANTS
  s1 = s1
  s2 = s2
  Sources <- MCSources
  MaxHeight = 3
  MaxTarget = 3
  MaxJust = 1
SPECIFICATION Spec
SYMMETRY SourceSymmetry
INVARIANT
  GenuineJustificationAccepted
