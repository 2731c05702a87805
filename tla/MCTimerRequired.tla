---------------------------- MODULE MCTimerRequired ----------------------------
(***************************************************************************)
(* A register whose output reaches its data pin over two gates, the second *)
(* of which has an input port as well.  The port moves; nothing else does. *)
(***************************************************************************)
EXTENDS Timer

MCDrivers == {"a.o", "g.z", "h.z", "r.q", "c.o"}
MCSinks == {"g.a", "g.b", "h.a", "r.d", "r.ck"}
MCThrough == {<<"g.a", "g.z">>, <<"g.b", "g.z">>, <<"h.a", "h.z">>, <<"r.ck", "r.q">>}
MCControls == {<<"r.ck", "r.d">>}
MCOutputPins == {}
MCInstances == {"a", "c", "g", "h", "r"}
MCOwner == [p \in MCDrivers \cup MCSinks |->
              CASE p = "a.o" -> "a" [] p = "c.o" -> "c"
                [] p \in {"g.a", "g.b", "g.z"} -> "g"
                [] p \in {"h.a", "h.z"} -> "h" [] OTHER -> "r"]
MCNets == {"na", "nc", "nq", "nx", "nz"}
MCWirings == {<<"a.o", "na">>, <<"g.a", "na">>, <<"c.o", "nc">>, <<"r.ck", "nc">>,
              <<"r.q", "nq">>, <<"h.a", "nq">>, <<"h.z", "nx">>, <<"g.b", "nx">>,
              <<"g.z", "nz">>, <<"r.d", "nz">>}
MCMovable == {}
MCLibraryCells == [i \in MCInstances |-> {1}]
MCPlaces == [i \in MCInstances |-> IF i = "a" THEN {0, 8} ELSE {0}]

MCArcDelay(t, c, tr) == 2
MCPortArrival(p, tr) == 0
\* Every sink stays at place 0: a wire is as long as its driver is far.
MCWireDelay(s, tr) ==
  IF tr = <<>> THEN 0
  ELSE LET d == CHOOSE p \in DOMAIN tr : p \in MCDrivers IN tr[d][2]
MCSetup(p, c) == 1
=============================================================================
