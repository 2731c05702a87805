--------------------------- MODULE NetConnectivity ---------------------------
(***************************************************************************)
(* What connecting and disconnecting pins promises to the rest of Rsyn,    *)
(* with every data structure left out: a pin is on at most one net, and a  *)
(* net that has a driver can name one.  Netlist implements it.             *)
(***************************************************************************)

CONSTANTS
  Drivers,   \* the output pins
  Sinks,     \* the input pins
  Nets

VARIABLES
  members,   \* members[n]: the set of pins connected to net n
  driver     \* driver[n]: the pin that Net::getAnyDriver returns

vars == <<members, driver>>

Pins == Drivers \cup Sinks

\* A net that has a driver names one of them; otherwise the answer is free.
NamesADriver(m, d) ==
  \A n \in Nets : m[n] \cap Drivers # {} => d[n] \in m[n] \cap Drivers

Init ==
  /\ members = [n \in Nets |-> {}]
  /\ NamesADriver(members, driver)

Connect(p, n) ==
  /\ members' = [m \in Nets |-> IF m = n THEN members[m] \cup {p}
                                         ELSE members[m] \ {p}]
  /\ NamesADriver(members', driver')

Disconnect(p) ==
  /\ members' = [m \in Nets |-> members[m] \ {p}]
  /\ NamesADriver(members', driver')

Next ==
  \E p \in Pins : \/ \E n \in Nets : Connect(p, n)
                  \/ Disconnect(p)

Spec == Init /\ [][Next]_vars

=============================================================================
