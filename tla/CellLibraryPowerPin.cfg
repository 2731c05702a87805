CONSTANTS
  c1 = c1
  c2 = c2
  Cells <- MCCells
  LibraryCells <- MCPowerFirst
  NoLibraryCell = NoLibraryCell
  Dscp <- MCDscp
SPECIFICATION Spec
PROPERTY
  PinsKeepNames
