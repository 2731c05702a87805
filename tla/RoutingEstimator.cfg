CONSTANTS
  pi = pi
  h = h
  po = po
  y = y
  ha = ha
  hy = hy
  a = a
  n1 = n1
  n2 = n2
  ck = ck
  Instances <- MCInstances
  Ports <- MCPorts
  Drivers <- MCDrivers
  Sinks <- MCSinks
  Owner <- MCOwner
  Nets <- MCNets
  NoNet = NoNet
  ClockNet = ck
  Wirings <- MCWirings
  Places <- MCPlaces
  LibraryCells <- MCLibraryCells
  NoLibraryCell = NoLibraryCell
SPECIFICATION Spec
INVARIANTS
  TypeOK
  TotalIsSum
  TreesMatchDesign
  LoadsMatchDesign
  NoOldWirelength
CHECK_DEADLOCK FALSE
