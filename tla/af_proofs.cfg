\* Honest sources, three blocks: commits before and after their blocks,
\* justifications with their blocks, up to two per block so that take_one
\* pops from a list; three targets so that a proof can fall strictly between
\* the two a slot keeps.
CONSTANTS
  s1 = s1
  s2 = s2
  Sources <- MCSources
  MaxHeight = 3
  MaxTarget = 3
  MaxJust = 2
SPECIFICATION Spec
SYMMETRY SourceSymmetry
INVARIANTS
  TypeOK
  NoStrandedPendingProof
  LowestTargetKept
  HighestTargetKept
