SPECIFICATION Spec
CHECK_DEADLOCK FALSE
CONSTANTS
  Process = {p1, p2}
  File = {f1, f2}
  words = words
  other = other
  blank = blank
  empty = empty
  k1 = k1
  k2 = k2
  Content <- Texts
  Key = {k1, k2}
  KeyOf <- KeyOfText
  NoKey = NoKey
  Skipped = Skipped
  Absent = Absent
  Partial = Partial
  MaxEdits = 1
  MaxCommits = 2
  MaxRuns = 2
INVARIANTS
  AlwaysReadable
