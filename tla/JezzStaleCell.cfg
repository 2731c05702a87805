CONSTANTS
  a = a
  b = b
  c = c
  o = o
  r1 = r1
  r2 = r2
  s1 = s1
  s2 = s2
  Cells = {a, b, c}
  Obstacles = {o}
  Spaces = {s1, s2, s3, s4}
  Rows = {r1, r2}
  Sites = 3
  Widths <- MCWidths
  Id <- MCId
  Block <- MCBlock
  Filler <- MCFiller
  Late = {c}
  EditsAfterStore = TRUE
  Targets <- MCTargets
  None = None
SPECIFICATION Spec
INVARIANTS
  RowsPassCheck
