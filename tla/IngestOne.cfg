SPECIFICATION ContextSpec
CONSTANTS
  Token = {1, 2, 3}
  Seed = {0, 1}
  Reg = {0, 1}
  Zeros = {0, 31}
  Hashes <- EveryPattern
  MaxTouches = 4
  MaxSteps = 4
  MaxCommits = 2
  MaxCrashes = 1
INVARIANTS
  TypeOK
  LutIsBuilt
  RestoreRoundTrip
  EveryBitExplained
  RankCountsTouches
  ChainReplays
  RemoveUndoesInsert
