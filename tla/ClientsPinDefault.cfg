SPECIFICATION Spec
CONSTANTS
  Key = {k1, k2}
  Name = {head}
  Value = {0, 1, 2, 3}
  None = None
  Client = {c1, c2}
  Overrides = FALSE
SYMMETRY Symmetry
INVARIANTS
  KeptSurvives
