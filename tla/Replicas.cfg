SPECIFICATION Spec
CONSTANTS
  Token = {1, 2}
  Seed = {0, 1}
  Reg = {0, 1}
  Zeros = {0, 31}
  Position <- Colliding
  Replica = {r1, r2, r3}
  Bigrams <- OneBigram
  Weight = {0, 1}
  MaxTouches = 3
  MaxSent = 3
  MaxCrashes = 1
SYMMETRY Symmetry
INVARIANTS
  ReplicasInv
  Converged
  TfBounded
  SketchMatchesNode
  QuiescentMeansEqual
