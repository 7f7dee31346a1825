SPECIFICATION Spec
CONSTANTS
  Key = {k1, k2}
  Name = {}
  Value = {v1, v2}
  None = None
  MaxEntries = 1
SYMMETRY Symmetry
INVARIANTS
  IndInv
  CoherentUnlessInterfered
PROPERTIES
  StaleOnlyWithinTtl
  CanonicalDataKept
