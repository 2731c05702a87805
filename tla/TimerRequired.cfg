CONSTANTS
  Drivers <- MCDrivers
  Sinks <- MCSinks
  Through <- MCThrough
  Controls <- MCControls
  OutputPins <- MCOutputPins
  Instances <- MCInstances
  Owner <- MCOwner
  Nets <- MCNets
  Wirings <- MCWirings
  Movable <- MCMovable
  LibraryCells <- MCLibraryCells
  Places <- MCPlaces
  ArcDelay <- MCArcDelay
  PortArrival <- MCPortArrival
  WireDelay <- MCWireDelay
  Setup <- MCSetup
  NoNet = NoNet
  ClockNet = "nc"
  LocalCells = {}
  Uncertainties = {1}
  MaxEdits = 2
  Period = 20
  NoRequired = 99
SPECIFICATION Spec
INVARIANT RequiredInSync
