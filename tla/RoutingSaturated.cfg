SPECIFICATION Spec
CONSTANTS
  Node = {n1, n2}
  Reg = {0, 1, 2}
  Zeros = {0, 1}
  HLLSets <- Saturating
  FHat <- FHatThree
  None = None
  TopK = 1
  MaxAdds = 2
  MaxCollected = 2
SYMMETRY Symmetry
INVARIANTS
  FullScoreMeansAll
