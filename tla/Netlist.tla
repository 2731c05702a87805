------------------------------- MODULE Netlist -------------------------------
(***************************************************************************)
(* Connectivity of Rsyn's in-memory netlist (rsyn/core/obj): the pins and  *)
(* nets of a design and Design::connectPin / Design::disconnectPin, the    *)
(* two operations that edit it.                                            *)
(*                                                                         *)
(* The same fact, "pin p is on net n", is stored several times over: in    *)
(* the pin, in the pin vector of the net, in the net's counters, in the    *)
(* cached driver and in the arcs that both ends of every driver-to-sink    *)
(* pair keep.  The properties relate these copies after any sequence of    *)
(* edits.                                                                  *)
(*                                                                         *)
(* Pins of cells and ports have direction IN or OUT: createCell and        *)
(* createPort throw for any other.  Power and ground pins, which make no   *)
(* arcs and are no drivers (allPins(direction) skips them), are left out:  *)
(* the pins here are signal pins.  A list of arcs is kept as the number of *)
(* arcs it holds per (driver, sink) pair, its order being irrelevant.      *)
(***************************************************************************)
EXTENDS Integers, Sequences, FiniteSets

CONSTANTS
  Drivers,     \* signal pins of direction OUT
  Sinks,       \* signal pins of direction IN
  Nets,
  NoNet,       \* the null net
  NoPin,       \* the null pin
  MaxArcs      \* bound: arcs of one (driver, sink) pair in one list

Pins == Drivers \cup Sinks

ASSUME PinsAssumption ==
  /\ Drivers \cap Sinks = {}
  /\ NoPin \notin Pins
  /\ IsFiniteSet(Pins)

ASSUME NetsAssumption == NoNet \notin Nets

ASSUME BoundAssumption == MaxArcs \in Nat

VARIABLES
  net,            \* PinData::net
  pins,           \* NetData::pins, a vector
  numPinsOfType,  \* NetData::numPinsOfType
  driver,         \* NetData::driver, the cached driver
  forward,        \* forward[d, s]: arcs to s in the FORWARD list of driver d
  backward        \* backward[d, s]: arcs from d in the BACKWARD list of sink s

vars == <<net, pins, numPinsOfType, driver, forward, backward>>

Directions == {"OUT", "IN"}

Direction(p) == IF p \in Drivers THEN "OUT" ELSE "IN"

Elements(s) == {s[i] : i \in DOMAIN s}

-----------------------------------------------------------------------------
(***************************************************************************)
(* Pieces of disconnectPin.  Each gives one variable as disconnectPin      *)
(* leaves it; connectPin starts from these when the pin is connected.      *)
(***************************************************************************)

\* Slip in SwapRemove: the vector is shrunk without the swap.
ShrinkOnly(s, p) == [k \in 1 .. Len(s) - 1 |-> s[k]]

\* The vector s without its element p: swap with the last one, then shrink.
SwapRemove(s, p) ==
  LET i == CHOOSE k \in DOMAIN s : s[k] = p
  IN  [k \in 1 .. Len(s) - 1 |-> IF k = i THEN s[Len(s)] ELSE s[k]]

PinsWithout(p) ==
  [n \in Nets |-> IF n = net[p] THEN SwapRemove(pins[n], p) ELSE pins[n]]

\* Slip in CountsWithout: the counters only ever grow.
CountsKept(p) == numPinsOfType

CountsWithout(p) ==
  [n \in Nets |->
     IF n = net[p] THEN [numPinsOfType[n] EXCEPT ![Direction(p)] = @ - 1]
                   ELSE numPinsOfType[n]]

\* Slip in FirstDriver: the first pin is taken for a driver.
FirstPin(s, d) == IF s = <<>> THEN d ELSE s[1]

\* The first OUT pin of the vector s, or d when there is none.
FirstDriver(s, d) ==
  LET outs == {i \in DOMAIN s : s[i] \in Drivers}
  IN  IF outs = {} THEN d
      ELSE s[CHOOSE i \in outs : \A j \in outs : i <= j]

\* Slip in DriversWithout: the cached driver is not refreshed.
DriversKept(p) == driver

\* A driver that leaves is replaced by the first remaining one, if any.
DriversWithout(p) ==
  [n \in Nets |-> IF n = net[p] /\ p \in Drivers
                  THEN FirstDriver(SwapRemove(pins[n], p), driver[n])
                  ELSE driver[n]]

\* Slip in ForwardWithout: one arc is taken away instead of all.
ForwardLessOne(p) ==
  [a \in Drivers \X Sinks |-> IF net[p] # NoNet /\ a[1] = p THEN forward[a] - 1
                              ELSE forward[a]]

\* Only the lists of p itself are cleared.
ForwardWithout(p) ==
  [a \in Drivers \X Sinks |-> IF net[p] # NoNet /\ a[1] = p THEN 0
                              ELSE forward[a]]

\* Slip in BackwardWithout: a sink keeps its arcs.
BackwardKept(p) == backward

BackwardWithout(p) ==
  [a \in Drivers \X Sinks |-> IF net[p] # NoNet /\ a[2] = p THEN 0
                              ELSE backward[a]]

\* Slip in NewArcs: arcs are made when the driver is connected, not the sink.
NewArcsOfDriver(p, s) ==
  {a \in Drivers \X Sinks : a[1] = p /\ a[2] \in Elements(s)}

\* The (driver, sink) pairs that p forms with the pins of the vector s.
NewArcs(p, s) ==
  {a \in Drivers \X Sinks : \/ a[1] = p /\ a[2] \in Elements(s)
                            \/ a[2] = p /\ a[1] \in Elements(s)}

-----------------------------------------------------------------------------

Init ==
  /\ net = [p \in Pins |-> NoNet]
  /\ pins = [n \in Nets |-> <<>>]
  /\ numPinsOfType = [n \in Nets |-> [d \in Directions |-> 0]]
  /\ driver = [n \in Nets |-> NoPin]
  /\ forward = [a \in Drivers \X Sinks |-> 0]
  /\ backward = [a \in Drivers \X Sinks |-> 0]

\* Design::disconnectPin on a pin without a net changes nothing.
DisconnectPin(p) ==
  /\ net[p] # NoNet
  /\ net' = [net EXCEPT ![p] = NoNet]
  /\ pins' = PinsWithout(p)
  /\ numPinsOfType' = CountsWithout(p)
  /\ driver' = DriversWithout(p)
  /\ forward' = ForwardWithout(p)
  /\ backward' = BackwardWithout(p)

\* Design::connectPin.  A pin that is on a net, possibly n itself, is
\* disconnected first.
ConnectPin(p, n) ==
  LET arcs == NewArcs(p, PinsWithout(p)[n])
  IN  /\ \A a \in arcs : forward[a] < MaxArcs /\ backward[a] < MaxArcs
      /\ net' = [net EXCEPT ![p] = n]
      /\ pins' = [PinsWithout(p) EXCEPT ![n] = Append(@, p)]
      /\ numPinsOfType' = [CountsWithout(p) EXCEPT ![n][Direction(p)] = @ + 1]
      /\ driver' = IF p \in Drivers THEN [DriversWithout(p) EXCEPT ![n] = p]
                                    ELSE DriversWithout(p)
      /\ forward' = [a \in Drivers \X Sinks |->
                       ForwardWithout(p)[a] + IF a \in arcs THEN 1 ELSE 0]
      /\ backward' = [a \in Drivers \X Sinks |->
                        BackwardWithout(p)[a] + IF a \in arcs THEN 1 ELSE 0]

Next ==
  \E p \in Pins : \/ DisconnectPin(p)
                  \/ \E n \in Nets : ConnectPin(p, n)

Spec == Init /\ [][Next]_vars

-----------------------------------------------------------------------------

\* The variables keep their types: every pin has at most one net, vectors hold
\* pins only, and the number of arcs never becomes negative.
TypeOK ==
  /\ net \in [Pins -> Nets \cup {NoNet}]
  /\ pins \in [Nets -> Seq(Pins)]
  /\ numPinsOfType \in [Nets -> [Directions -> Int]]
  /\ driver \in [Nets -> Pins \cup {NoPin}]
  /\ forward \in [Drivers \X Sinks -> Nat]
  /\ backward \in [Drivers \X Sinks -> Nat]

PinsOn(n) == {p \in Pins : net[p] = n}

\* The vector of a net lists exactly the pins that point at the net, each
\* once: swap-and-shrink removal neither loses nor repeats a pin, whatever
\* the order of connections, re-connections and disconnections.
PinsListed ==
  \A n \in Nets :
    /\ Elements(pins[n]) = PinsOn(n)
    /\ \A i, j \in DOMAIN pins[n] : pins[n][i] = pins[n][j] => i = j

\* Net::getNumDrivers and Net::getNumSinks count the connected pins.
CountsExact ==
  \A n \in Nets :
    /\ numPinsOfType[n]["OUT"] = Cardinality(PinsOn(n) \cap Drivers)
    /\ numPinsOfType[n]["IN"] = Cardinality(PinsOn(n) \cap Sinks)

\* Net::getAnyDriver returns a driver of the net whenever the net has one,
\* also after the cached one has been disconnected or moved to another net.
DriverCached ==
  \A n \in Nets :
    PinsOn(n) \cap Drivers # {} => driver[n] \in PinsOn(n) \cap Drivers

\* Every driver reaches every sink of its net through an arc that both pins
\* list, in whatever order the two were connected.
ArcsComplete ==
  \A d \in Drivers, s \in Sinks :
    net[d] = net[s] /\ net[d] # NoNet => /\ forward[d, s] > 0
                                         /\ backward[d, s] > 0

\* Arcs left behind by disconnectPin stay on the other pin only: a pin that
\* is on no net lists no net arc of its own.
FloatingPinHasNoArcs ==
  /\ \A d \in Drivers : net[d] = NoNet => \A s \in Sinks : forward[d, s] = 0
  /\ \A s \in Sinks : net[s] = NoNet => \A d \in Drivers : backward[d, s] = 0

Abstract == INSTANCE NetConnectivity
              WITH members <- [n \in Nets |-> Elements(pins[n])]

\* connectPin and disconnectPin implement the abstract connectivity: the pins
\* of a net are the set of its vector, and getAnyDriver names one of them.
AbstractSpec == Abstract!Spec

=============================================================================
