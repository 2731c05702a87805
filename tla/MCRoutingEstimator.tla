-------------------------- MODULE MCRoutingEstimator --------------------------
\* An input port, a gate and an output port, on two nets: the gate joins them,
\* or has both its pins on the net of the output port.  Only the gate moves.
\* Its input may also be on the clock net.
EXTENDS RoutingEstimator

CONSTANTS pi, h, po, y, ha, hy, a, n1, n2, ck

MCInstances == {pi, h, po}
MCPorts == {pi, po}
MCDrivers == {y, hy}
MCSinks == {ha, a}
MCOwner == [p \in {y, hy, ha, a} |-> IF p = y THEN pi ELSE IF p = a THEN po ELSE h]
MCNets == {n1, n2, ck}
MCWirings == {<<y, n1>>, <<y, ck>>, <<ha, n1>>, <<ha, n2>>, <<ha, ck>>,
               <<hy, n2>>, <<a, n2>>}
MCPlaces == [i \in MCInstances |-> IF i = h THEN {0, 3} ELSE {1}]
MCLibraryCells == {"small", "large"}

=============================================================================
