------------------------------ MODULE MCNetlist ------------------------------
\* Two drivers, two sinks and two nets: the smallest design with multi-driver
\* nets, a pin that moves between nets and a stale arc on either side.
EXTENDS Netlist, TLC

CONSTANTS d1, d2, s1, s2, n1, n2

MCDrivers == {d1, d2}
MCSinks == {s1, s2}
MCNets == {n1, n2}

\* Drivers, sinks and nets are interchangeable.
MCSymmetry == Permutations(MCDrivers) \cup Permutations(MCSinks)
                \cup Permutations(MCNets)

=============================================================================
