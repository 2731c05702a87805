-------------------------------- MODULE MCTimer --------------------------------
(***************************************************************************)
(* A gate g between an input port, a register and that register's data     *)
(* pin, an output port on the register, and a clock port.                  *)
(***************************************************************************)
EXTENDS Timer

MCDrivers == {"a.o", "g.z", "r.q", "c.o"}
MCSinks == {"g.a", "g.b", "r.d", "r.ck", "o.i"}
MCThrough == {<<"g.a", "g.z">>, <<"g.b", "g.z">>, <<"r.ck", "r.q">>}
MCControls == {<<"r.ck", "r.d">>}
MCOutputPins == {"o.i"}
MCInstances == {"a", "c", "g", "o", "r"}
MCOwner == [p \in MCDrivers \cup MCSinks |->
              CASE p = "a.o" -> "a" [] p = "c.o" -> "c" [] p = "o.i" -> "o"
                [] p \in {"g.a", "g.b", "g.z"} -> "g" [] OTHER -> "r"]
MCNets == {"na", "nc", "nq", "nz"}

\* g.b closes the loop through the register or floats; without a.o its net has a
\* sink and no driver.
MCWirings == {<<"a.o", "na">>, <<"g.a", "na">>, <<"g.b", "nq">>, <<"g.z", "nz">>,
              <<"r.d", "nz">>, <<"o.i", "nq">>, <<"c.o", "nc">>, <<"r.ck", "nc">>,
              <<"r.q", "nq">>}
MCMovable == {"a.o", "g.b"}

\* Sizes of a cell: a large one loads its inputs more and drives faster.
MCLibraryCells == [i \in MCInstances |-> IF i = "g" THEN {1, 2} ELSE {1}]
MCPlaces == [i \in MCInstances |-> IF i = "o" THEN {0, 1} ELSE {0}]

\* What the sinks in an RC tree load the driver with.
MCLoad(tr) ==
  MapThenSumSet(LAMBDA p : tr[p][1], MCSinks \cap DOMAIN tr)

MCArcDelay(t, c, tr) == 3 + MCLoad(tr) - c
MCPortArrival(p, tr) == 1 + MCLoad(tr)

\* Wires take time when they are long; the driver is the pin that is no sink.
MCWireDelay(s, tr) ==
  IF tr = <<>> THEN 0
  ELSE LET d == CHOOSE p \in DOMAIN tr : p \in MCDrivers
       IN  IF tr[s][2] = tr[d][2] THEN 0 ELSE 1

MCSetup(p, c) == c
=============================================================================
