SPECIFICATION Spec
CONSTANTS
  Node = {n1, n2}
  Reg = {0, 1}
  Zeros = {0, 1}
  HLLSets <- Overlapping
  FHat <- FHatTwo
  None = None
  TopK = 1
  MaxAdds = 2
  MaxCollected = 2
SYMMETRY Symmetry
INVARIANTS
  TypeOK
  FingerprintCovers
  StaleOnlyUntilRebuild
  NoRelevantNodeMissed
  MergeIsExact
