--------------------------- MODULE TopologicalIndex ---------------------------
(***************************************************************************)
(* The topological index that Rsyn keeps up to date in every pin while a   *)
(* netlist is being edited (Design::updateTopologicalIndex).  Connecting a *)
(* pin gives it an index above its predecessors; where that overtakes a    *)
(* successor, the new indices are propagated downstream through a queue.   *)
(* Timing and every sorted traversal of the netlist rely on the result.    *)
(*                                                                         *)
(* Arcs between pins are those of nets (every driver to every sink) and    *)
(* those inside instances (Through): the arcs of a cell and the two pins   *)
(* of a port, all of which lead from an IN pin to an OUT pin.  Power and   *)
(* ground pins are left out: allPins(direction), by which the successors   *)
(* and predecessors over a net are found, skips them.                      *)
(*                                                                         *)
(* The queue is kept as the set of its entries and popped in any order,    *)
(* FIFO included: an entry pushed twice is dropped at its second pop.      *)
(***************************************************************************)
EXTENDS Integers, FiniteSets

CONSTANTS
  Drivers,      \* OUT pins that carry a signal
  Sinks,        \* IN pins that carry a signal
  Through,      \* pairs <<IN pin, OUT pin>> joined inside an instance
  Instances,    \* sets of pins: the pins that an instance owns
  OutputPorts,  \* the <<inner, outer>> pairs that are output ports
  Wired,        \* the pins that get connected (the outer pins of the ports
                \*   of the top module never do)
  Nets,
  NoNet,
  NoPin,        \* the null pin
  SmallGap,     \* TOPOLOGICAL_SORTING_SMALL_GAP
  LargeGap,     \* TOPOLOGICAL_SORTING_LARGE_GAP
  MaxOrder      \* bound on the index that a connection gives

Pins == Drivers \cup Sinks

ASSUME PinsAssumption ==
  /\ Drivers \cap Sinks = {}
  /\ IsFiniteSet(Pins)
  /\ Through \subseteq Sinks \X Drivers
  /\ Wired \subseteq Pins
  /\ NoNet \notin Nets
  /\ NoPin \notin Pins

\* The inner pin of a port leads to the outer pin of that port only.
ASSUME PortsAssumption ==
  /\ OutputPorts \subseteq Through
  /\ \A t \in Through, o \in OutputPorts : t[1] = o[1] => t = o

\* The static_asserts of updateTopologicalIndex.
ASSUME GapAssumption ==
  /\ SmallGap \in Nat \ {0}
  /\ LargeGap \in Nat \ {0}
  /\ SmallGap <= LargeGap

ASSUME BoundAssumption == MaxOrder \in Int

VARIABLES
  net,      \* PinData::net
  order,    \* PinData::order
  pin,      \* the pin whose connection is being propagated, or NoPin
  upper,    \* the locals "upper" and "left1" of that propagation
  left1,
  signed,   \* pins whose sign is that of the propagation: already visited
  open      \* the queue: <<pin, index of the pin that pushed it>>

vars == <<net, order, pin, upper, left1, signed, open>>

-----------------------------------------------------------------------------

DriversOf(n, nt) == {d \in Drivers : nt[d] = n}
SinksOf(n, nt) == {s \in Sinks : nt[s] = n}

Arcs(nt) == Through \cup UNION {DriversOf(n, nt) \X SinksOf(n, nt) : n \in Nets}

\* Pin::allPredecessorPins(true) and Pin::allSuccessorPins(true).
Predecessors(p, nt) ==
  IF p \in Sinks /\ nt[p] # NoNet THEN DriversOf(nt[p], nt)
  ELSE {q \in Sinks : <<q, p>> \in Through}

Successors(p, nt) ==
  IF p \in Drivers /\ nt[p] # NoNet THEN SinksOf(nt[p], nt)
  ELSE {q \in Drivers : <<p, q>> \in Through}

\* The drivers next downstream of p, through an instance that p enters itself
\* or through its net.
NextDrivers(p, nt) ==
  Drivers \cap UNION {Successors(s, nt) : s \in Successors(p, nt) \cup {p}}

\* The drivers downstream of p: those in every set of drivers that holds the
\* next ones of p and of its own members.
DownstreamDrivers(p, nt) ==
  LET next == [q \in Drivers \cup {p} |-> NextDrivers(q, nt)]
  IN  {d \in Drivers : \A D \in SUBSET Drivers :
         (\A q \in D \cup {p} : next[q] \subseteq D) => d \in D}

\* All the pins downstream of p.
Downstream(p, nt) ==
  LET drivers == DownstreamDrivers(p, nt)
  IN  drivers \cup UNION {Successors(d, nt) : d \in drivers \cup ({p} \cap Drivers)}

\* numeric_limits<int>::infinity() is 0, so both folds start from 0.
Largest(S) == CHOOSE m \in S \cup {0} : \A x \in S \cup {0} : x <= m
Smallest(S) == CHOOSE m \in S \cup {0} : \A x \in S \cup {0} : m <= x

Lower(p, nt) == Largest({order[q] : q \in Predecessors(p, nt)})
Upper(p, nt) == Smallest({order[q] : q \in Successors(p, nt)})

\* A pin with both neighbours propagates unless its index fits between them.
Propagates(p, nt) ==
  /\ Predecessors(p, nt) # {}
  /\ Successors(p, nt) # {}
  /\ ~ (Lower(p, nt) < Upper(p, nt) /\ Upper(p, nt) - Lower(p, nt) >= 2)

\* The index the connected pin gets.
ConnectedOrder(p, nt) ==
  LET hasLower == Predecessors(p, nt) # {}
      hasUpper == Successors(p, nt) # {}
      low == Lower(p, nt)
      up == Upper(p, nt)
  IN  CASE ~hasLower /\ ~hasUpper -> 0
        [] hasLower /\ ~hasUpper  -> low + SmallGap
        [] ~hasLower /\ hasUpper  -> up - SmallGap
        [] hasLower /\ hasUpper   ->
             (low + (IF Propagates(p, nt) THEN low + SmallGap + 1 ELSE up)) \div 2

\* Slip in RaisedOrder: a raised pin only draws level.
RaisedLevel(p, generator) ==
  LET right == left1 + LargeGap
      mapped == ((order[p] - upper) * LargeGap) \div (right - upper) + left1
  IN  IF p \notin signed /\ mapped > generator THEN mapped ELSE generator

\* The index a pin gets when an entry pushed with index generator reaches it:
\* at its first visit [upper, right] is mapped onto [left1, right].
RaisedOrder(p, generator) ==
  LET right == left1 + LargeGap
      mapped == ((order[p] - upper) * LargeGap) \div (right - upper) + left1
  IN  IF p \notin signed /\ mapped > generator THEN mapped
                                              ELSE generator + SmallGap

-----------------------------------------------------------------------------

\* Slip in InitialOrder: no index is assigned.
OrderUnset(p) == NoPin

\* createCell and createPort give a new pin an index that respects the arcs
\* inside its instance.
InitialOrder(p) ==
  IF \E i \in Sinks : <<i, p>> \in OutputPorts THEN 2
  ELSE IF \E o \in Drivers : <<p, o>> \in OutputPorts THEN 1
  ELSE IF p \in Drivers THEN SmallGap ELSE 0

Init ==
  /\ net = [p \in Pins |-> NoNet]
  /\ order = [p \in Pins |-> InitialOrder(p)]
  /\ open = {}
  /\ signed = {}
  /\ pin = NoPin
  /\ upper = 0
  /\ left1 = 0

\* Design::connectPin up to the propagation loop.  The connections that close
\* a loop in the netlist are left out: the edited netlists are acyclic.
Connect(p, n) ==
  LET nt == [net EXCEPT ![p] = n]
      own == ConnectedOrder(p, nt)
      left == Lower(p, nt) + SmallGap + 1
      low == {q \in Successors(p, nt) : order[q] < left + LargeGap}
  IN  /\ open = {}
      /\ own <= MaxOrder
      /\ p \notin Downstream(p, nt)
      /\ net' = nt
      /\ order' = [order EXCEPT ![p] = own]
      /\ IF Propagates(p, nt) /\ low # {}
         THEN /\ pin' = p
              /\ upper' = Upper(p, nt)
              /\ left1' = left
              /\ signed' = {}
              /\ open' = {<<q, own>> : q \in low}
         ELSE UNCHANGED <<pin, upper, left1, signed, open>>

\* Design::disconnectPin leaves the indices alone.
Disconnect(p) ==
  /\ open = {}
  /\ net[p] # NoNet
  /\ net' = [net EXCEPT ![p] = NoNet]
  /\ UNCHANGED <<order, pin, upper, left1, signed, open>>

\* One turn of the loop leaves the queue o and the visited pins v behind; an
\* empty queue ends the propagation and its locals.
Continue(o, v) ==
  /\ UNCHANGED net
  /\ open' = o
  /\ signed' = IF o = {} THEN {} ELSE v
  /\ pin' = IF o = {} THEN NoPin ELSE pin
  /\ upper' = IF o = {} THEN 0 ELSE upper
  /\ left1' = IF o = {} THEN 0 ELSE left1

\* Slips in Drop: dropping a pin that is only level; not popping.
DropLevel(e) ==
  /\ e[1] = pin \/ order[e[1]] >= e[2]
  /\ UNCHANGED order
  /\ Continue(open \ {e}, signed)

DropNothing(e) ==
  /\ e[1] = pin \/ order[e[1]] > e[2]
  /\ UNCHANGED order
  /\ Continue(open, signed)

\* A popped entry that met a loop, or a pin that is high enough already.
Drop(e) ==
  /\ e[1] = pin \/ order[e[1]] > e[2]
  /\ UNCHANGED order
  /\ Continue(open \ {e}, signed)

\* Slip in Raise: the predecessors are queued as well.
RaiseBothWays(e) ==
  LET p == e[1]
      new == RaisedOrder(p, e[2])
      low == {q \in Successors(p, net) \cup Predecessors(p, net) : order[q] <= new}
  IN  /\ p # pin
      /\ order[p] <= e[2]
      /\ order' = [order EXCEPT ![p] = new]
      /\ Continue((open \ {e}) \cup {<<q, new>> : q \in low}, signed \cup {p})

\* A popped entry that raises its pin and goes on to the successors.
Raise(e) ==
  LET p == e[1]
      new == RaisedOrder(p, e[2])
      low == {q \in Successors(p, net) : order[q] <= new}
  IN  /\ p # pin
      /\ order[p] <= e[2]
      /\ order' = [order EXCEPT ![p] = new]
      /\ Continue((open \ {e}) \cup {<<q, new>> : q \in low}, signed \cup {p})

Propagate == \E e \in open : Drop(e) \/ Raise(e)

Next ==
  \/ \E p \in Wired : Disconnect(p) \/ \E n \in Nets : Connect(p, n)
  \/ Propagate

Spec == Init /\ [][Next]_vars

\* connectPin runs its loop to the end before it returns.
FairSpec == Spec /\ WF_vars(Propagate)

-----------------------------------------------------------------------------

\* The index of a pin is an integer and the queue holds entries for pins.
TypeOK ==
  /\ net \in [Pins -> Nets \cup {NoNet}]
  /\ order \in [Pins -> Int]
  /\ pin \in Pins \cup {NoPin}
  /\ upper \in Int /\ left1 \in Int
  /\ signed \subseteq Pins
  /\ open \subseteq Pins \X Int

\* Between two edits the index of a pin is above those of its predecessors,
\* whatever the order in which the netlist was connected and disconnected.
OrderRespectsArcs ==
  open = {} => \A a \in Arcs(net) : order[a[1]] < order[a[2]]

\* During a propagation every arc that is still out of order has an entry in
\* the queue that carries the current index of its source; entries are never
\* for the connected pin itself.
PendingArcsQueued ==
  \A a \in Arcs(net) : \/ order[a[1]] < order[a[2]]
                       \/ <<a[2], order[a[1]]>> \in open

\* The warning "Loop detected" is never printed for an acyclic netlist.
NoLoopReported == \A e \in open : e[1] # pin

\* A propagation ends.
PropagationEnds == open # {} ~> open = {}

\* Slip in InstanceIndex: the smallest index instead of the largest.
SmallestIndex(inst) ==
  LET from == {p \in inst : \E q \in inst : <<p, q>> \in Through}
      orders == {order[p] : p \in (IF from = {} THEN inst ELSE from)}
  IN  CHOOSE m \in orders : \A x \in orders : m <= x

(***************************************************************************)
(* Instance::getTopologicalIndex: the largest index of the pins that start *)
(* an arc inside the instance, of all its pins when that is not positive.  *)
(***************************************************************************)
InstanceIndex(inst) ==
  LET from == {p \in inst : \E q \in inst : <<p, q>> \in Through}
      index == Largest({order[p] : p \in from})
  IN  IF index = 0 THEN Largest({order[p] : p \in inst}) ELSE index

\* Module::allInstancesInTopologicalOrder sorts by that index: an instance
\* with inputs comes strictly before every instance it drives, in spite of
\* indices that are clamped at 0 and of pins with negative indices.
InstancesSorted ==
  open = {} =>
    \A a \in Arcs(net) \ Through : \A i, j \in Instances :
      a[1] \in i /\ a[2] \in j =>
        \/ InstanceIndex(i) < InstanceIndex(j)
        \/ i \cap Sinks = {} /\ InstanceIndex(i) <= InstanceIndex(j)

=============================================================================
