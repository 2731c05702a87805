CONSTANTS
  d1 = d1
  d2 = d2
  s1 = s1
  s2 = s2
  n1 = n1
  n2 = n2
  NoNet = NoNet
  NoPin = NoPin
  Drivers <- MCDrivers
  Sinks <- MCSinks
  Nets <- MCNets
  MaxArcs = 2
SPECIFICATION Spec
SYMMETRY MCSymmetry
INVARIANTS
  TypeOK
  PinsListed
  CountsExact
  DriverCached
  ArcsComplete
  FloatingPinHasNoArcs
PROPERTIES
  AbstractSpec
