------------------------- MODULE MCTopologicalIndex -------------------------
\* An input port, an output port and a two-input gate: chains, reconvergence
\* (both inputs of the gate on the port's net), nets with two drivers, pins
\* connected before their drivers.  The gaps are the smallest that tell the
\* branches of the algorithm apart; the code's own, 10 and 1000, only spread
\* the same cases over more index values.
EXTENDS TopologicalIndex

CONSTANTS pi, po, piOuter, poOuter, a, b, y, n1, n2

MCDrivers == {pi, poOuter, y}
MCSinks == {piOuter, po, a, b}
MCOutputPorts == {<<po, poOuter>>}
MCThrough == {<<piOuter, pi>>, <<po, poOuter>>, <<a, y>>, <<b, y>>}
MCInstances == {{pi}, {po}, {a, b, y}}
MCWired == {pi, po, a, b, y}
MCNets == {n1, n2}

=============================================================================
