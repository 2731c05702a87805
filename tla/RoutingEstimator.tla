--------------------------- MODULE RoutingEstimator ---------------------------
(***************************************************************************)
(* The routing estimator (rsyn/model/routing/RoutingEstimator): it listens *)
(* to the edits of a design, remembers which nets they make dirty and how  *)
(* much of their estimate, and brings the wirelength and the RC tree of    *)
(* these nets up to date when the timer or an optimizer asks for it.       *)
(*                                                                         *)
(* An RC tree is kept as what it was made from: the place of every pin and *)
(* the load of every sink, which depends on the library cell of the sink's *)
(* instance.  Placement has one dimension, in which the Steiner wirelength *)
(* is the distance between the outermost pins.  Both models of the         *)
(* estimator are set, as every reader of Rsyn does before it first         *)
(* estimates.                                                              *)
(***************************************************************************)
EXTENDS Integers, FiniteSets, FiniteSetsExt

CONSTANTS
  Instances,
  Ports,         \* instances that are ports
  Drivers,       \* OUT pins
  Sinks,         \* IN pins
  Owner,         \* Owner[p]: the instance of pin p
  Nets,
  NoNet,
  ClockNet,      \* Scenario::getClockNet, which is never estimated
  Wirings,       \* bound: <<pin, net>>, the nets that a pin may be connected to
  Places,        \* Places[i]: the places that instance i may be moved to
  LibraryCells,
  NoLibraryCell  \* the null library cell, that of ports

Pins == Drivers \cup Sinks
Cells == Instances \ Ports

ASSUME PinsAssumption ==
  /\ Drivers \cap Sinks = {}
  /\ IsFiniteSet(Pins)
  /\ Ports \subseteq Instances
  /\ Owner \in [Pins -> Instances]

ASSUME NetsAssumption == NoNet \notin Nets /\ IsFiniteSet(Nets)

ASSUME DataAssumption ==
  /\ \A i \in Instances : Places[i] \subseteq Int
  /\ NoLibraryCell \notin LibraryCells

VARIABLES
  \* The design
  nets,        \* the nets created so far
  net,         \* PinData::net
  position,    \* where an instance is placed
  lcell,       \* InstanceData::lcell
  \* The estimator
  dirty,       \* clsDirtyNets; INVALID for a net that has no entry
  performed,   \* clsFullUpdateAlreadyPerformed
  total,       \* clsTotalWirelength
  wirelength,  \* RoutingNet::wirelength
  tree,        \* RoutingNet::rctree
  crashed      \* the program has read the library pin of a port

design == <<nets, net, position, lcell>>
vars == <<design, dirty, performed, total, wirelength, tree, crashed>>

\* NetUpdateTypeEnum
INVALID == -1
DOWNSTREAM_CAP == 0
FULL == 1

-----------------------------------------------------------------------------

Positions == UNION {Places[i] : i \in Instances}

Placements == {f \in [Instances -> Positions] : \A i \in Instances : f[i] \in Places[i]}

PinsOn(n) == {p \in Pins : net[p] = n}

\* The nets that updateRoutingOfNet does not skip.
Estimated == {n \in nets \ {ClockNet} : Cardinality(PinsOn(n)) >= 2}

PinPlaces(n) == [p \in PinsOn(n) |-> position[Owner[p]]]

\* Slip in Loads: drivers are loads, too.
LoadsOfAllPins(n) == [p \in PinsOn(n) |-> lcell[Owner[p]]]

\* The loads of the sinks.  On a net with several drivers, of which the code
\* warns, the tree also has a load for each driver but its root, which is set
\* when the tree is built and never by a capacitance update: it is left out.
Loads(n) == [p \in PinsOn(n) \cap Sinks |-> lcell[Owner[p]]]

Steiner(n) ==
  LET places == {position[Owner[p]] : p \in PinsOn(n)}
  IN  Max(places) - Min(places)

\* Slip in Mark: the last type wins.
MarkLast(ns, type) ==
  [n \in Nets |-> IF n \in ns THEN type ELSE dirty[n]]

\* NetUpdateType::operator=: a type of lower priority does not replace one of
\* higher priority.
Mark(ns, type) ==
  [n \in Nets |-> IF n \in ns /\ type > dirty[n] THEN type ELSE dirty[n]]

\* Slips in NetsOf: only the nets that the instance drives, or that drive it.
NetsDriven(i) == {net[p] : p \in {q \in Drivers : Owner[q] = i}} \ {NoNet}

NetsDriving(i) == {net[p] : p \in {q \in Sinks : Owner[q] = i}} \ {NoNet}

NetsOf(i) == {net[p] : p \in {q \in Pins : Owner[q] = i}} \ {NoNet}

-----------------------------------------------------------------------------

\* RoutingEstimator::start.  An empty design stands for every design: the
\* first update estimates all nets, whatever was noted before.
Init ==
  /\ nets = {}
  /\ net = [p \in Pins |-> NoNet]
  /\ position \in Placements
  /\ lcell \in [Instances -> LibraryCells \cup {NoLibraryCell}]
  /\ \A i \in Instances : i \in Ports <=> lcell[i] = NoLibraryCell
  /\ dirty = [n \in Nets |-> INVALID]
  /\ performed = FALSE
  /\ total = 0
  /\ wirelength = [n \in Nets |-> 0]
  /\ tree = [n \in Nets |-> [at |-> <<>>, load |-> <<>>]]
  /\ crashed = FALSE

\* The edits of the design, with the callback of the estimator.
Edited == ~crashed /\ UNCHANGED <<performed, total, wirelength, tree, crashed>>

CreateNet(n) ==
  /\ n \notin nets
  /\ nets' = nets \cup {n}
  /\ dirty' = Mark({n}, FULL)
  /\ UNCHANGED <<net, position, lcell>>
  /\ Edited

DisconnectPin(p) ==
  /\ net[p] # NoNet
  /\ net' = [net EXCEPT ![p] = NoNet]
  /\ dirty' = Mark({net[p]}, FULL)
  /\ UNCHANGED <<nets, position, lcell>>
  /\ Edited

\* A connected pin is disconnected first, so both nets are marked.
ConnectPin(p, n) ==
  /\ n \in nets
  /\ <<p, n>> \in Wirings
  /\ net' = [net EXCEPT ![p] = n]
  /\ dirty' = Mark({net[p], n} \ {NoNet}, FULL)
  /\ UNCHANGED <<nets, position, lcell>>
  /\ Edited

MoveInstance(i, x) ==
  /\ x # position[i]
  /\ position' = [position EXCEPT ![i] = x]
  /\ dirty' = Mark(NetsOf(i), FULL)
  /\ UNCHANGED <<nets, net, lcell>>
  /\ Edited

RemapCell(c, l) ==
  /\ lcell' = [lcell EXCEPT ![c] = l]
  /\ dirty' = Mark(NetsOf(c), DOWNSTREAM_CAP)
  /\ UNCHANGED <<nets, net, position>>
  /\ Edited

-----------------------------------------------------------------------------

\* Slip in TotalWith: the old wirelength of a net stays in the total.
TotalGrown(new) ==
  total + MapThenSumSet(LAMBDA n : IF new[n] = wirelength[n] THEN 0 ELSE new[n], Nets)

\* The running total after the wirelengths of the nets have become "new".
TotalWith(new) ==
  total + MapThenSumSet(LAMBDA n : new[n] - wirelength[n], Nets)

\* updateRoutingOfNet for every net of "full" with type FULL and every net of
\* "cap" with type DOWNSTREAM_CAP, followed by dirty' and performed'.  Callers
\* estimate only nets that are driven: extraction ends the program otherwise.
\* A capacitance update reads the library pin of every sink of the tree, which
\* a port does not have.
Estimate(full, cap, newDirty, newPerformed) ==
  LET F == full \cap Estimated
      C == cap \cap Estimated
      new == [n \in Nets |-> IF n \in F THEN Steiner(n)
                             ELSE IF n \in C THEN 0 ELSE wirelength[n]]
  IN  /\ ~crashed
      /\ \A n \in F : PinsOn(n) \cap Drivers # {}
      /\ UNCHANGED design
      /\ IF \E n \in C : \E p \in DOMAIN tree[n].load : Owner[p] \in Ports
         THEN /\ crashed' = TRUE
              /\ UNCHANGED <<dirty, performed, total, wirelength, tree>>
         ELSE /\ wirelength' = new
              /\ total' = TotalWith(new)
              /\ tree' = [n \in Nets |->
                   IF n \in F THEN [at |-> PinPlaces(n), load |-> Loads(n)]
                   ELSE IF n \in C
                   THEN [tree[n] EXCEPT !.load =
                           [p \in DOMAIN @ |-> lcell[Owner[p]]]]
                   ELSE tree[n]]
              /\ dirty' = newDirty
              /\ performed' = newPerformed
              /\ UNCHANGED crashed

Clean == [n \in Nets |-> INVALID]

UpdateRoutingFull == Estimate(nets, {}, Clean, TRUE)

UpdateRouting ==
  IF ~performed THEN UpdateRoutingFull
  ELSE Estimate({n \in Nets : dirty[n] = FULL},
                {n \in Nets : dirty[n] = DOWNSTREAM_CAP}, Clean, TRUE)

\* The command updateRoutingEstimation with a net: the net stays dirty.
UpdateRoutingOfNet(n) == n \in nets /\ Estimate({n}, {}, dirty, performed)

Edit ==
  \/ \E n \in Nets : CreateNet(n) \/ \E p \in Pins : ConnectPin(p, n)
  \/ \E p \in Pins : DisconnectPin(p)
  \/ \E i \in Instances : \E x \in Places[i] : MoveInstance(i, x)
  \/ \E c \in Cells, l \in LibraryCells : RemapCell(c, l)

Next ==
  \/ Edit
  \/ UpdateRoutingFull
  \/ UpdateRouting
  \/ \E n \in Nets : UpdateRoutingOfNet(n)

Spec == Init /\ [][Next]_vars

-----------------------------------------------------------------------------

Partial(S, T) == UNION {[D -> T] : D \in SUBSET S}

\* The variables keep their types: only nets that exist have pins, and a tree
\* is made of pins at places with the loads of library cells.
TypeOK ==
  /\ nets \subseteq Nets
  /\ net \in [Pins -> nets \cup {NoNet}]
  /\ position \in Placements
  /\ lcell \in [Instances -> LibraryCells \cup {NoLibraryCell}]
  /\ dirty \in [Nets -> {INVALID, DOWNSTREAM_CAP, FULL}]
  /\ performed \in BOOLEAN
  /\ total \in Int
  /\ wirelength \in [Nets -> Int]
  /\ tree \in [Nets -> [at : Partial(Pins, Positions),
                        load : Partial(Sinks, LibraryCells \cup {NoLibraryCell})]]
  /\ crashed \in BOOLEAN

\* The running total is the sum of what it was added up from, in whatever
\* order nets are estimated, marked and estimated again.
TotalIsSum == total = MapThenSumSet(LAMBDA n : wirelength[n], Nets)

\* A net that waits for no full update has the RC tree of its present pins at
\* their present places.  A capacitance update relies on it: it walks the tree
\* it finds.
TreesMatchDesign ==
  performed => \A n \in Estimated : dirty[n] # FULL => tree[n].at = PinPlaces(n)

\* A net that waits for no update at all has the loads of its present sinks:
\* a remap after a move, or a move after a remap, loses neither.
LoadsMatchDesign ==
  performed => \A n \in Estimated : dirty[n] = INVALID => tree[n].load = Loads(n)

\* The wirelength read for a net that waits for no update is never that of an
\* earlier placement or of other pins.
NoOldWirelength ==
  performed => \A n \in Estimated :
    dirty[n] # FULL => wirelength[n] \in {0, Steiner(n)}

\* "Incrementally update the Steiner wirelength" (RoutingEstimator.cpp): an
\* up-to-date net has the wirelength of its placement.
WirelengthMatchesDesign ==
  performed => \A n \in Estimated :
    dirty[n] = INVALID => wirelength[n] = Steiner(n)

=============================================================================
