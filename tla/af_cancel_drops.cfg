\* Cancelling a finality-proof verification loses the proof.
CONSTANTS
  s1 = s1
  s2 = s2
  Sources <- MCSources
  MaxHeight = 3
  MaxTarget = 3
  MaxJust = 1
SPECIFICATION Spec
SYMMETRY SourceSymmetry
PROPERTY
  CancelKeepsProof
