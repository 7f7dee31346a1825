SPECIFICATION SoleSpec
CONSTANTS
  Key = {k1, k2, k3}
  Name = {}
  Value = {v1, v2}
  None = None
  MaxEntries = 2
SYMMETRY Symmetry
INVARIANTS
  TypeOK
  LruMirrorsCache
  CapacityRespected
PROPERTIES
  EvictsLeastRecent
  ImplementsKVStore
