CONSTANTS
  c1 = c1
  c2 = c2
  Cells <- MCCells
  LibraryCells <- MCLibraryCells
  NoLibraryCell = NoLibraryCell
  Dscp <- MCDscp
SPECIFICATION Spec
SYMMETRY MCSymmetry
INVARIANTS
  TypeOK
  PinsStayDistinct
  ArcsFollowPins
PROPERTIES
  PinsKeepNames
