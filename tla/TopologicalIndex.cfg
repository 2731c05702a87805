CONSTANTS
  pi = pi
  po = po
  piOuter = piOuter
  poOuter = poOuter
  a = a
  b = b
  y = y
  n1 = n1
  n2 = n2
  Drivers <- MCDrivers
  Sinks <- MCSinks
  Through <- MCThrough
  Instances <- MCInstances
  OutputPorts <- MCOutputPorts
  Wired <- MCWired
  Nets <- MCNets
  NoNet = NoNet
  NoPin = NoPin
  SmallGap = 1
  LargeGap = 3
  MaxOrder = 4
SPECIFICATION FairSpec
INVARIANTS
  TypeOK
  OrderRespectsArcs
  PendingArcsQueued
  NoLoopReported
  InstancesSorted
PROPERTIES
  PropagationEnds
