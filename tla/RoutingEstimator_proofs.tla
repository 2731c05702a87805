------------------------ MODULE RoutingEstimator_proofs ------------------------
(***************************************************************************)
(* Proofs about RoutingEstimator for every netlist, placement and library: *)
(* a net without a pending full update has the RC tree of its present pins *)
(* at their present places, and one without any pending update the loads   *)
(* of its present sinks.  What makes it inductive is that such a tree has  *)
(* a load for exactly the present sinks: a capacitance update replaces the *)
(* loads that the tree has and adds none.  And the running total is the    *)
(* sum of the wirelengths.                                                 *)
(***************************************************************************)
EXTENDS RoutingEstimator, Least, FiniteSetTheorems, TLAPS

Types ==
  /\ nets \subseteq Nets
  /\ net \in [Pins -> nets \cup {NoNet}]
  /\ position \in Placements
  /\ lcell \in [Instances -> LibraryCells \cup {NoLibraryCell}]
  /\ dirty \in [Nets -> {INVALID, DOWNSTREAM_CAP, FULL}]
  /\ performed \in BOOLEAN
  /\ tree \in [Nets -> [at : Partial(Pins, Positions),
                        load : Partial(Sinks, LibraryCells \cup {NoLibraryCell})]]

TreesComplete ==
  performed => \A n \in Estimated : dirty[n] # FULL =>
    /\ tree[n].at = PinPlaces(n)
    /\ DOMAIN tree[n].load = PinsOn(n) \cap Sinks

IInv ==
  /\ Types
  /\ TreesComplete
  /\ LoadsMatchDesign
  /\ NoOldWirelength

-----------------------------------------------------------------------------

\* The pins of a net have places, and its sinks have loads.
LEMMA TreeTypes ==
  ASSUME Types, NEW n \in Nets
  PROVE  /\ PinPlaces(n) \in Partial(Pins, Positions)
         /\ Loads(n) \in Partial(Sinks, LibraryCells \cup {NoLibraryCell})
<1>1. PinsOn(n) \in SUBSET Pins /\ PinsOn(n) \cap Sinks \in SUBSET Sinks
  BY DEF PinsOn
<1>2. \A p \in Pins : /\ position[Owner[p]] \in Positions
                      /\ lcell[Owner[p]] \in LibraryCells \cup {NoLibraryCell}
  BY PinsAssumption DEF Types, Placements
<1>3. PinPlaces(n) \in [PinsOn(n) -> Positions]
  BY <1>1, <1>2 DEF PinPlaces
<1>4. Loads(n) \in [PinsOn(n) \cap Sinks -> LibraryCells \cup {NoLibraryCell}]
  BY <1>1, <1>2 DEF Loads
<1> QED
  BY <1>1, <1>3, <1>4 DEF Partial

\* Marking keeps the kinds of update in order: it only ever raises them.
LEMMA MarkRaises ==
  ASSUME Types, NEW S \in SUBSET Nets, NEW t \in {DOWNSTREAM_CAP, FULL}
  PROVE  /\ Mark(S, t) \in [Nets -> {INVALID, DOWNSTREAM_CAP, FULL}]
         /\ \A n \in Nets : /\ Mark(S, t)[n] # FULL => dirty[n] # FULL
                            /\ Mark(S, t)[n] = INVALID => dirty[n] = INVALID
                            /\ Mark(S, t)[n] = INVALID => n \notin S
                            /\ t = FULL /\ Mark(S, t)[n] # FULL => n \notin S
<1>1. \A n \in Nets : dirty[n] \in {INVALID, DOWNSTREAM_CAP, FULL}
  BY DEF Types
<1> QED
  BY <1>1 DEF Mark, INVALID, DOWNSTREAM_CAP, FULL

\* The wirelength of a net is made from the places of its pins.
LEMMA SteinerOfPlaces ==
  ASSUME NEW n, PinPlaces(n)' = PinPlaces(n), PinsOn(n)' = PinsOn(n)
  PROVE  Steiner(n)' = Steiner(n)
<1>1. {position[Owner[p]] : p \in PinsOn(n)} =
        {PinPlaces(n)[p] : p \in PinsOn(n)}
  BY DEF PinPlaces
<1>2. {position'[Owner[p]] : p \in PinsOn(n)'} =
        {PinPlaces(n)'[p] : p \in PinsOn(n)'}
  BY DEF PinPlaces
<1>3. {position'[Owner[p]] : p \in PinsOn(n)'} =
        {position[Owner[p]] : p \in PinsOn(n)}
  BY <1>1, <1>2
<1> QED
  BY <1>3 DEF Steiner

\* An edit of the design that marks the nets S, and leaves alone what the
\* estimate of every other net is made from.  A capacitance mark is enough
\* for a net whose pins and places are as before.
LEMMA EditKeepsIInv ==
  ASSUME IInv, NEW S \in SUBSET Nets, NEW t \in {DOWNSTREAM_CAP, FULL},
         dirty' = Mark(S, t),
         performed' = performed, tree' = tree, wirelength' = wirelength,
         nets' \subseteq Nets,
         net' \in [Pins -> nets' \cup {NoNet}],
         position' \in Placements,
         lcell' \in [Instances -> LibraryCells \cup {NoLibraryCell}],
         \A n \in Estimated' : n \notin S \/ t = DOWNSTREAM_CAP =>
           n \in Estimated /\ PinsOn(n)' = PinsOn(n) /\ PinPlaces(n)' = PinPlaces(n),
         \A n \in Estimated' : n \notin S => Loads(n)' = Loads(n)
  PROVE  IInv'
<1>1. Types'
  BY MarkRaises DEF IInv, Types
<1>2. TreesComplete'
  <2> SUFFICES ASSUME performed, NEW n \in Estimated', dirty'[n] # FULL
               PROVE  /\ tree[n].at = PinPlaces(n)'
                      /\ DOMAIN tree[n].load = PinsOn(n)' \cap Sinks
    BY DEF TreesComplete
  <2>1. n \in Nets
    BY DEF Estimated
  <2>2. dirty[n] # FULL /\ (n \notin S \/ t = DOWNSTREAM_CAP)
    BY <2>1, MarkRaises DEF IInv
  <2> QED
    BY <2>2 DEF IInv, TreesComplete
<1>3. LoadsMatchDesign'
  <2> SUFFICES ASSUME performed, NEW n \in Estimated', dirty'[n] = INVALID
               PROVE  tree[n].load = Loads(n)'
    BY DEF LoadsMatchDesign
  <2>1. n \in Nets
    BY DEF Estimated
  <2>2. dirty[n] = INVALID /\ n \notin S
    BY <2>1, MarkRaises DEF IInv
  <2> QED
    BY <2>2 DEF IInv, LoadsMatchDesign
<1>4. NoOldWirelength'
  <2> SUFFICES ASSUME performed, NEW n \in Estimated', dirty'[n] # FULL
               PROVE  wirelength[n] \in {0, Steiner(n)'}
    BY DEF NoOldWirelength
  <2>1. n \in Nets
    BY DEF Estimated
  <2>2. dirty[n] # FULL /\ (n \notin S \/ t = DOWNSTREAM_CAP)
    BY <2>1, MarkRaises DEF IInv
  <2>3. Steiner(n)' = Steiner(n) /\ n \in Estimated
    BY <2>2, SteinerOfPlaces
  <2> QED
    BY <2>2, <2>3 DEF IInv, NoOldWirelength
<1> QED
  BY <1>1, <1>2, <1>3, <1>4 DEF IInv

\* Every edit of the design marks the nets whose estimate it outdates.
LEMMA EditStep ==
  ASSUME IInv, Edit
  PROVE  IInv'
<1> USE DEF Edited
<1>1. ASSUME NEW n \in Nets, CreateNet(n)
      PROVE  IInv'
  <2>1. \A m \in Nets : /\ PinsOn(m)' = PinsOn(m)
                        /\ PinPlaces(m)' = PinPlaces(m)
                        /\ Loads(m)' = Loads(m)
    BY <1>1 DEF CreateNet, PinsOn, PinPlaces, Loads
  <2>2. \A m \in Estimated' : m \notin {n} => m \in Estimated
    BY <1>1, <2>1 DEF CreateNet, Estimated, IInv, Types
  <2>3. nets' \subseteq Nets /\ Estimated' \subseteq Nets
    BY <1>1 DEF CreateNet, Estimated, IInv, Types
  <2>4. net' \in [Pins -> nets' \cup {NoNet}]
    BY <1>1 DEF CreateNet, IInv, Types
  <2>5. /\ dirty' = Mark({n}, FULL) /\ performed' = performed /\ tree' = tree
        /\ wirelength' = wirelength
        /\ position' = position /\ lcell' = lcell
    BY <1>1 DEF CreateNet
  <2>6. FULL # DOWNSTREAM_CAP
    BY DEF FULL, DOWNSTREAM_CAP
  <2>7. \A m \in Estimated' : m \notin {n} \/ FULL = DOWNSTREAM_CAP =>
           m \in Estimated /\ PinsOn(m)' = PinsOn(m) /\ PinPlaces(m)' = PinPlaces(m)
    BY <2>1, <2>2, <2>3, <2>6
  <2>8. \A m \in Estimated' : m \notin {n} => Loads(m)' = Loads(m)
    BY <2>1, <2>3
  <2>9. /\ position' \in Placements
        /\ lcell' \in [Instances -> LibraryCells \cup {NoLibraryCell}]
    BY <2>5 DEF IInv, Types
  <2> QED
    BY <2>3, <2>4, <2>5, <2>7, <2>8, <2>9, EditKeepsIInv
<1>2. ASSUME NEW p \in Pins, NEW n \in nets \cup {NoNet},
             net' = [net EXCEPT ![p] = n],
             dirty' = Mark({net[p], n} \ {NoNet}, FULL),
             UNCHANGED <<nets, position, lcell>>, Edited
      PROVE  IInv'
  <2> DEFINE S == {net[p], n} \ {NoNet}
  <2>1. S \in SUBSET Nets
    BY DEF IInv, Types
  <2>2. \A m \in Nets \ S : PinsOn(m)' = PinsOn(m)
    BY <1>2, NetsAssumption DEF PinsOn, IInv, Types
  <2>3. \A m \in Nets \ S : PinPlaces(m)' = PinPlaces(m) /\ Loads(m)' = Loads(m)
    BY <1>2, <2>2 DEF PinPlaces, Loads
  <2>4. \A m \in Estimated' : m \notin S => m \in Estimated
    BY <1>2, <2>2 DEF Estimated, IInv, Types
  <2>5. Estimated' \subseteq Nets /\ net' \in [Pins -> nets' \cup {NoNet}]
    BY <1>2 DEF Estimated, IInv, Types
  <2>6. FULL # DOWNSTREAM_CAP
    BY DEF FULL, DOWNSTREAM_CAP
  <2>7. /\ dirty' = Mark(S, FULL) /\ performed' = performed /\ tree' = tree
        /\ wirelength' = wirelength
        /\ nets' = nets /\ position' = position /\ lcell' = lcell
    BY <1>2
  <2> HIDE DEF S
  <2>8. \A m \in Estimated' : m \notin S \/ FULL = DOWNSTREAM_CAP =>
           m \in Estimated /\ PinsOn(m)' = PinsOn(m) /\ PinPlaces(m)' = PinPlaces(m)
    BY <2>2, <2>3, <2>4, <2>5, <2>6
  <2>9. \A m \in Estimated' : m \notin S => Loads(m)' = Loads(m)
    BY <2>3, <2>5
  <2>10. /\ position' \in Placements /\ nets' \subseteq Nets
         /\ lcell' \in [Instances -> LibraryCells \cup {NoLibraryCell}]
    BY <2>7 DEF IInv, Types
  <2> QED
    BY <2>1, <2>5, <2>7, <2>8, <2>9, <2>10, EditKeepsIInv
<1>3. ASSUME NEW i \in Instances, NEW x \in Places[i], MoveInstance(i, x)
      PROVE  IInv'
  <2>1. NetsOf(i) \in SUBSET Nets
    BY DEF NetsOf, IInv, Types
  <2>2. \A m \in Nets : PinsOn(m)' = PinsOn(m) /\ Loads(m)' = Loads(m)
    BY <1>3 DEF MoveInstance, PinsOn, Loads
  <2>3. \A m \in Nets \ NetsOf(i) : \A p \in PinsOn(m) : Owner[p] # i
    BY NetsAssumption DEF NetsOf, PinsOn
  <2>4. \A m \in Nets \ NetsOf(i) : PinPlaces(m)' = PinPlaces(m)
    <3> SUFFICES ASSUME NEW m \in Nets \ NetsOf(i)
                 PROVE  \A p \in PinsOn(m) : position'[Owner[p]] = position[Owner[p]]
      BY <2>2 DEF PinPlaces
    <3> QED
      BY <1>3, <2>3, PinsAssumption DEF MoveInstance, PinsOn, IInv, Types, Placements
  <2>5. Estimated' = Estimated /\ Estimated \subseteq Nets
    BY <1>3, <2>2 DEF MoveInstance, Estimated, IInv, Types
  <2>6. position' \in Placements
    BY <1>3 DEF MoveInstance, Placements, Positions, IInv, Types
  <2>7. FULL # DOWNSTREAM_CAP
    BY DEF FULL, DOWNSTREAM_CAP
  <2>8. /\ dirty' = Mark(NetsOf(i), FULL) /\ performed' = performed /\ tree' = tree
        /\ wirelength' = wirelength
        /\ nets' = nets /\ net' = net /\ lcell' = lcell
    BY <1>3 DEF MoveInstance
  <2>9. \A m \in Estimated' : m \notin NetsOf(i) \/ FULL = DOWNSTREAM_CAP =>
           m \in Estimated /\ PinsOn(m)' = PinsOn(m) /\ PinPlaces(m)' = PinPlaces(m)
    BY <2>2, <2>4, <2>5, <2>7
  <2>10. \A m \in Estimated' : m \notin NetsOf(i) => Loads(m)' = Loads(m)
    BY <2>2, <2>5
  <2>11. /\ nets' \subseteq Nets /\ net' \in [Pins -> nets' \cup {NoNet}]
         /\ lcell' \in [Instances -> LibraryCells \cup {NoLibraryCell}]
    BY <2>8 DEF IInv, Types
  <2> QED
    BY <2>1, <2>6, <2>8, <2>9, <2>10, <2>11, EditKeepsIInv
<1>4. ASSUME NEW c \in Cells, NEW l \in LibraryCells, RemapCell(c, l)
      PROVE  IInv'
  <2>1. NetsOf(c) \in SUBSET Nets
    BY DEF NetsOf, IInv, Types
  <2>2. \A m \in Nets : PinsOn(m)' = PinsOn(m) /\ PinPlaces(m)' = PinPlaces(m)
    BY <1>4 DEF RemapCell, PinsOn, PinPlaces
  <2>3. \A m \in Nets \ NetsOf(c) : \A p \in PinsOn(m) : Owner[p] # c
    BY NetsAssumption DEF NetsOf, PinsOn
  <2>4. \A m \in Nets \ NetsOf(c) : Loads(m)' = Loads(m)
    <3> SUFFICES ASSUME NEW m \in Nets \ NetsOf(c)
                 PROVE  \A p \in PinsOn(m) : lcell'[Owner[p]] = lcell[Owner[p]]
      BY <2>2 DEF Loads
    <3> QED
      BY <1>4, <2>3, PinsAssumption DEF RemapCell, PinsOn, IInv, Types
  <2>5. Estimated' = Estimated /\ Estimated \subseteq Nets
    BY <1>4, <2>2 DEF RemapCell, Estimated, IInv, Types
  <2>6. lcell' \in [Instances -> LibraryCells \cup {NoLibraryCell}]
    BY <1>4 DEF RemapCell, IInv, Types
  <2>7. /\ dirty' = Mark(NetsOf(c), DOWNSTREAM_CAP)
        /\ performed' = performed /\ tree' = tree
        /\ wirelength' = wirelength
        /\ nets' = nets /\ net' = net /\ position' = position
    BY <1>4 DEF RemapCell
  <2>9. \A m \in Estimated' : m \notin NetsOf(c) \/ DOWNSTREAM_CAP = DOWNSTREAM_CAP =>
           m \in Estimated /\ PinsOn(m)' = PinsOn(m) /\ PinPlaces(m)' = PinPlaces(m)
    BY <2>2, <2>5
  <2>10. \A m \in Estimated' : m \notin NetsOf(c) => Loads(m)' = Loads(m)
    BY <2>4, <2>5
  <2>11. /\ nets' \subseteq Nets /\ net' \in [Pins -> nets' \cup {NoNet}]
         /\ position' \in Placements
    BY <2>7 DEF IInv, Types
  <2> QED
    BY <2>1, <2>6, <2>7, <2>9, <2>10, <2>11, EditKeepsIInv
<1>5. ASSUME NEW n \in Nets, NEW p \in Pins, ConnectPin(p, n)
      PROVE  IInv'
  BY <1>2, <1>5 DEF ConnectPin
<1>6. ASSUME NEW p \in Pins, DisconnectPin(p)
      PROVE  IInv'
  <2>1. {net[p], NoNet} \ {NoNet} = {net[p]}
    BY <1>6 DEF DisconnectPin
  <2> QED
    BY <1>2, <1>6, <2>1 DEF DisconnectPin
<1> QED
  BY <1>1, <1>3, <1>4, <1>5, <1>6 DEF Edit

-----------------------------------------------------------------------------

\* The invariant depends on the design, the marks and the trees alone.
LEMMA StutterKeepsIInv ==
  ASSUME IInv, UNCHANGED <<design, dirty, performed, wirelength, tree>>
  PROVE  IInv'
<1>1. UNCHANGED <<nets, net, position, lcell, dirty, performed, wirelength, tree>>
  BY DEF design
<1>2. Types'
  BY <1>1 DEF IInv, Types
<1>3. Estimated' = Estimated
  BY <1>1 DEF Estimated, PinsOn
<1>4. \A n \in Estimated : /\ PinsOn(n)' = PinsOn(n)
                          /\ PinPlaces(n)' = PinPlaces(n)
                          /\ Loads(n)' = Loads(n)
  BY <1>1 DEF PinsOn, PinPlaces, Loads
<1>5. TreesComplete'
  <2> SUFFICES ASSUME performed', NEW n \in Estimated', dirty'[n] # FULL
               PROVE  /\ tree'[n].at = PinPlaces(n)'
                      /\ DOMAIN tree'[n].load = PinsOn(n)' \cap Sinks
    BY DEF TreesComplete
  <2> QED
    BY <1>1, <1>3, <1>4 DEF IInv, TreesComplete
<1>6. LoadsMatchDesign'
  <2> SUFFICES ASSUME performed', NEW n \in Estimated', dirty'[n] = INVALID
               PROVE  tree'[n].load = Loads(n)'
    BY DEF LoadsMatchDesign
  <2> QED
    BY <1>1, <1>3, <1>4 DEF IInv, LoadsMatchDesign
<1>7. NoOldWirelength'
  <2> SUFFICES ASSUME performed', NEW n \in Estimated', dirty'[n] # FULL
               PROVE  wirelength'[n] \in {0, Steiner(n)'}
    BY DEF NoOldWirelength
  <2> QED
    BY <1>1, <1>3, <1>4, SteinerOfPlaces DEF IInv, NoOldWirelength
<1> QED
  BY <1>2, <1>5, <1>6, <1>7 DEF IInv

\* An estimate of the nets "full" and of the nets "cap", which only wait for a
\* capacitance update, leaves a net unmarked only if it is one of these or was
\* unmarked before.
LEMMA EstimateKeepsIInv ==
  ASSUME IInv, NEW full \in SUBSET Nets, NEW cap \in SUBSET Nets,
         NEW newDirty \in [Nets -> {INVALID, DOWNSTREAM_CAP, FULL}],
         NEW newPerformed \in BOOLEAN,
         Estimate(full, cap, newDirty, newPerformed),
         cap # {} => performed,
         \A n \in cap : dirty[n] = DOWNSTREAM_CAP,
         newPerformed => \A n \in Estimated :
           n \in full \/ (performed /\ (newDirty[n] # FULL => dirty[n] # FULL)),
         newPerformed => \A n \in Estimated \ (full \cup cap) :
           newDirty[n] = INVALID => dirty[n] = INVALID
  PROVE  IInv'
<1> DEFINE F == full \cap Estimated
           C == cap \cap Estimated
<1>1. CASE \E n \in C : \E p \in DOMAIN tree[n].load : Owner[p] \in Ports
  <2>1. UNCHANGED <<design, dirty, performed, wirelength, tree>>
    BY <1>1 DEF Estimate
  <2> QED
    BY <2>1, StutterKeepsIInv
<1>2. CASE ~ \E n \in C : \E p \in DOMAIN tree[n].load : Owner[p] \in Ports
  <2>1. UNCHANGED design /\ dirty' = newDirty /\ performed' = newPerformed
    BY <1>2 DEF Estimate
  <2>2. tree' = [n \in Nets |->
           IF n \in F THEN [at |-> PinPlaces(n), load |-> Loads(n)]
           ELSE IF n \in C
           THEN [tree[n] EXCEPT !.load = [p \in DOMAIN @ |-> lcell[Owner[p]]]]
           ELSE tree[n]]
    BY <1>2 DEF Estimate
  <2>3. Estimated \subseteq Nets /\ F \subseteq Nets /\ C \subseteq Nets
    BY DEF Estimated, IInv, Types
  <2>4. \A n \in F : tree'[n] = [at |-> PinPlaces(n), load |-> Loads(n)]
    BY <2>2, <2>3
  <2>4a. \A n \in F : tree'[n].at = PinPlaces(n) /\ tree'[n].load = Loads(n)
    <3> TAKE n \in F
    <3>1. tree'[n] = [at |-> PinPlaces(n), load |-> Loads(n)]
      BY <2>4
    <3> QED
      BY <3>1
  <2>5. \A n \in C \ F : tree'[n].at = tree[n].at /\ tree'[n].load = Loads(n)
    <3> SUFFICES ASSUME NEW n \in C \ F
                 PROVE  tree'[n].at = tree[n].at /\ tree'[n].load = Loads(n)
      OBVIOUS
    <3>1. tree'[n] = [tree[n] EXCEPT !.load = [p \in DOMAIN @ |-> lcell[Owner[p]]]]
      BY <2>2, <2>3
    <3>2. tree[n] \in [at : Partial(Pins, Positions),
                       load : Partial(Sinks, LibraryCells \cup {NoLibraryCell})]
      BY <2>3 DEF IInv, Types
    <3>3. DOMAIN tree[n].load = PinsOn(n) \cap Sinks
      BY DEF IInv, TreesComplete, DOWNSTREAM_CAP, FULL
    <3>4. tree'[n].load = [p \in DOMAIN tree[n].load |-> lcell[Owner[p]]]
      BY <3>1, <3>2
    <3> QED
      BY <3>1, <3>2, <3>3, <3>4 DEF Loads
  <2>6. \A n \in Nets \ (F \cup C) : tree'[n] = tree[n]
    BY <2>2
  <2>7. /\ Estimated' = Estimated
        /\ \A n \in Nets : /\ PinsOn(n)' = PinsOn(n)
                           /\ PinPlaces(n)' = PinPlaces(n)
                           /\ Loads(n)' = Loads(n)
    BY <2>1 DEF design, Estimated, PinsOn, PinPlaces, Loads
  <2>8. Types'
    <3>1. \A n \in Nets : tree'[n] \in
            [at : Partial(Pins, Positions),
             load : Partial(Sinks, LibraryCells \cup {NoLibraryCell})]
      <4> SUFFICES ASSUME NEW n \in Nets
                   PROVE  tree'[n] \in
                     [at : Partial(Pins, Positions),
                      load : Partial(Sinks, LibraryCells \cup {NoLibraryCell})]
        OBVIOUS
      <4>1. CASE n \in F
        <5>1. tree'[n] = [at |-> PinPlaces(n), load |-> Loads(n)]
          BY <4>1, <2>4
        <5>2. /\ PinPlaces(n) \in Partial(Pins, Positions)
              /\ Loads(n) \in Partial(Sinks, LibraryCells \cup {NoLibraryCell})
          BY TreeTypes DEF IInv
        <5> QED
          BY <5>1, <5>2
      <4>2. CASE n \in C \ F
        <5>1. tree'[n] = [tree[n] EXCEPT !.load = Loads(n)]
          <6>1. tree'[n] = [tree[n] EXCEPT !.load = [p \in DOMAIN @ |-> lcell[Owner[p]]]]
            BY <4>2, <2>2
          <6>2. tree[n] \in [at : Partial(Pins, Positions),
                             load : Partial(Sinks, LibraryCells \cup {NoLibraryCell})]
            BY DEF IInv, Types
          <6> QED
            BY <4>2, <6>1, <6>2, <2>5
        <5>2. Loads(n) \in Partial(Sinks, LibraryCells \cup {NoLibraryCell})
          BY TreeTypes DEF IInv
        <5>3. tree[n] \in [at : Partial(Pins, Positions),
                           load : Partial(Sinks, LibraryCells \cup {NoLibraryCell})]
          BY DEF IInv, Types
        <5> HIDE DEF C, F
        <5> QED
          BY <5>1, <5>2, <5>3
      <4>3. CASE n \notin F \cup C
        BY <4>3, <2>6 DEF IInv, Types
      <4> QED
        BY <4>1, <4>2, <4>3
    <3>2. tree' = [n \in Nets |-> tree'[n]]
      BY <2>2
    <3> QED
      BY <2>1, <3>1, <3>2 DEF IInv, Types, design
  <2>9. TreesComplete'
    <3> SUFFICES ASSUME performed', NEW n \in Estimated', dirty'[n] # FULL
                 PROVE  /\ tree'[n].at = PinPlaces(n)'
                        /\ DOMAIN tree'[n].load = PinsOn(n)' \cap Sinks
      BY DEF TreesComplete
    <3>a. /\ newPerformed /\ n \in Estimated /\ n \in Nets /\ newDirty[n] # FULL
          /\ PinPlaces(n)' = PinPlaces(n) /\ PinsOn(n)' = PinsOn(n)
      BY <2>1, <2>3, <2>7
    <3> SUFFICES /\ tree'[n].at = PinPlaces(n)
                 /\ DOMAIN tree'[n].load = PinsOn(n) \cap Sinks
      BY <3>a
    <3>1. CASE n \in F
      BY <3>1, <2>4a DEF Loads
    <3>2. CASE n \in C \ F
      <4>1. performed /\ dirty[n] # FULL
        BY <3>a, <3>2 DEF DOWNSTREAM_CAP, FULL
      <4> QED
        BY <3>a, <3>2, <4>1, <2>5 DEF IInv, TreesComplete, Loads
    <3>3. CASE n \notin F \cup C
      <4>1. performed /\ dirty[n] # FULL
        BY <3>a, <3>3
      <4> QED
        BY <3>a, <3>3, <4>1, <2>6 DEF IInv, TreesComplete
    <3> QED
      BY <3>1, <3>2, <3>3
  <2>10. LoadsMatchDesign'
    <3> SUFFICES ASSUME performed', NEW n \in Estimated', dirty'[n] = INVALID
                 PROVE  tree'[n].load = Loads(n)'
      BY DEF LoadsMatchDesign
    <3>a. /\ newPerformed /\ n \in Estimated /\ n \in Nets /\ newDirty[n] = INVALID
          /\ Loads(n)' = Loads(n)
      BY <2>1, <2>3, <2>7
    <3> SUFFICES tree'[n].load = Loads(n)
      BY <3>a
    <3>1. CASE n \in F
      BY <3>1, <2>4a
    <3>2. CASE n \in C \ F
      BY <3>2, <2>5
    <3>3. CASE n \notin F \cup C
      <4>1. performed /\ dirty[n] = INVALID
        BY <3>a, <3>3
      <4> QED
        BY <3>a, <3>3, <4>1, <2>6 DEF IInv, LoadsMatchDesign
    <3> QED
      BY <3>1, <3>2, <3>3
  <2>11. NoOldWirelength'
    <3> SUFFICES ASSUME performed', NEW n \in Estimated', dirty'[n] # FULL
                 PROVE  wirelength'[n] \in {0, Steiner(n)'}
      BY DEF NoOldWirelength
    <3>a. /\ newPerformed /\ n \in Estimated /\ n \in Nets /\ newDirty[n] # FULL
          /\ Steiner(n)' = Steiner(n)
      BY <2>1, <2>3, <2>7, SteinerOfPlaces
    <3>b. wirelength'[n] = IF n \in F THEN Steiner(n)
                           ELSE IF n \in C THEN 0 ELSE wirelength[n]
      BY <1>2, <3>a DEF Estimate
    <3>1. CASE n \in F \cup C
      BY <3>a, <3>b, <3>1
    <3>2. CASE n \notin F \cup C
      <4>1. performed /\ dirty[n] # FULL
        BY <3>a, <3>2
      <4> QED
        BY <3>a, <3>b, <3>2, <4>1 DEF IInv, NoOldWirelength
    <3> QED
      BY <3>1, <3>2
  <2> QED
    BY <2>8, <2>9, <2>10, <2>11 DEF IInv
<1> QED
  BY <1>1, <1>2

\* The three updates estimate every net that they leave unmarked.
LEMMA UpdateStep ==
  ASSUME IInv,
         UpdateRoutingFull \/ UpdateRouting \/ \E n \in Nets : UpdateRoutingOfNet(n)
  PROVE  IInv'
<1>1. Clean \in [Nets -> {INVALID, DOWNSTREAM_CAP, FULL}] /\ Estimated \subseteq nets
  BY DEF Clean, Estimated
<1>2. CASE UpdateRoutingFull
  <2>1. nets \in SUBSET Nets /\ {} \in SUBSET Nets
    BY DEF IInv, Types
  <2> QED
    BY <1>1, <1>2, <2>1, EstimateKeepsIInv DEF UpdateRoutingFull
<1>3. CASE performed /\ UpdateRouting
  <2> DEFINE full == {n \in Nets : dirty[n] = FULL}
             cap == {n \in Nets : dirty[n] = DOWNSTREAM_CAP}
  <2>1. Estimate(full, cap, Clean, TRUE)
    BY <1>3 DEF UpdateRouting
  <2>2. \A n \in Estimated : n \in full \/ dirty[n] # FULL
    BY DEF Estimated, IInv, Types
  <2>3. \A n \in Estimated \ (full \cup cap) : dirty[n] = INVALID
    BY <1>1 DEF IInv, Types
  <2>4. full \in SUBSET Nets /\ cap \in SUBSET Nets
    OBVIOUS
  <2>5. \A n \in cap : dirty[n] = DOWNSTREAM_CAP
    OBVIOUS
  <2> HIDE DEF full, cap
  <2> QED
    BY <1>1, <1>3, <2>1, <2>2, <2>3, <2>4, <2>5, EstimateKeepsIInv
<1>4. CASE ~performed /\ UpdateRouting
  BY <1>2, <1>4 DEF UpdateRouting
<1>5. ASSUME NEW n \in Nets, UpdateRoutingOfNet(n)
      PROVE  IInv'
  <2>1. Estimate({n}, {}, dirty, performed)
    BY <1>5 DEF UpdateRoutingOfNet
  <2>2. dirty \in [Nets -> {INVALID, DOWNSTREAM_CAP, FULL}] /\ performed \in BOOLEAN
    BY DEF IInv, Types
  <2> QED
    BY <2>1, <2>2, EstimateKeepsIInv
<1> QED
  BY <1>2, <1>3, <1>4, <1>5

-----------------------------------------------------------------------------

\* Nothing is estimated at the start.
LEMMA InitIInv == Init => IInv
<1> SUFFICES ASSUME Init PROVE IInv
  OBVIOUS
<1>1. <<>> \in [{} -> Positions] /\ <<>> \in [{} -> LibraryCells \cup {NoLibraryCell}]
  OBVIOUS
<1>2. [at |-> <<>>, load |-> <<>>] \in
        [at : Partial(Pins, Positions),
         load : Partial(Sinks, LibraryCells \cup {NoLibraryCell})]
  BY <1>1 DEF Partial
<1>3. Types
  BY <1>2 DEF Init, Types
<1> QED
  BY <1>3 DEF Init, IInv, TreesComplete, LoadsMatchDesign, NoOldWirelength

\* Every step keeps the invariant.
LEMMA NextKeepsIInv ==
  ASSUME IInv, [Next]_vars
  PROVE  IInv'
<1>1. CASE UNCHANGED vars
  BY <1>1, StutterKeepsIInv DEF vars
<1> QED
  BY <1>1, EditStep, UpdateStep DEF Next

\* The invariant holds in every reachable state.
LEMMA Invariant == Spec => []IInv
<1>1. IInv /\ [Next]_vars => IInv'
  BY NextKeepsIInv
<1> QED
  BY InitIInv, <1>1, PTL DEF Spec

\* A net that waits for no full update has the RC tree of its present pins at
\* their present places (RoutingEstimator::updateRouting).
THEOREM TreesUpToDate == Spec => []TreesMatchDesign
<1>1. IInv => TreesMatchDesign
  BY DEF IInv, TreesComplete, TreesMatchDesign
<1> QED
  BY Invariant, <1>1, PTL

\* The wirelength of a net that waits for no full update is that of its present
\* placement or 0, never that of an earlier one.
THEOREM WirelengthNeverOld == Spec => []NoOldWirelength
<1>1. IInv => NoOldWirelength
  BY DEF IInv
<1> QED
  BY Invariant, <1>1, PTL

\* A net that waits for no update has the loads of its present sinks, in
\* whatever order cells are remapped, moved and rewired between updates.
THEOREM LoadsUpToDate == Spec => []LoadsMatchDesign
<1>1. IInv => LoadsMatchDesign
  BY DEF IInv
<1> QED
  BY Invariant, <1>1, PTL

-----------------------------------------------------------------------------
(***************************************************************************)
(* The running total.  A sum over nets takes one net after the other, in   *)
(* an order that is the same for every sum.                                *)
(***************************************************************************)

First(s) == CHOOSE n \in s : TRUE

NetSets == SUBSET Nets

\* In g every set of D has the sum of f over its nets.
Sums(g, f, D) ==
  g = [s \in D |-> IF s = {} THEN 0 ELSE f[First(s)] + g[s \ {First(s)}]]

\* In g every set of D has the sum of the differences.
SumsGrowth(g, new, old, D) ==
  g = [s \in D |-> IF s = {} THEN 0
                   ELSE (new[First(s)] - old[First(s)]) + g[s \ {First(s)}]]

Upto(k) == {s \in SUBSET Nets : Cardinality(s) <= k}

\* A set without one of its nets is smaller.
LEMMA WithoutFirst ==
  ASSUME NEW s \in SUBSET Nets, s # {}
  PROVE  /\ First(s) \in s /\ First(s) \in Nets /\ s \ {First(s)} \in SUBSET Nets
         /\ Cardinality(s) \in Nat /\ Cardinality(s \ {First(s)}) = Cardinality(s) - 1
<1>1. First(s) \in s
  BY DEF First
<1>2. IsFiniteSet(s)
  BY NetsAssumption, FS_Subset
<1> QED BY <1>1, <1>2, FS_CardinalityType, FS_RemoveElement

\* There are such sums, for sets of any size.
LEMMA SumsExist ==
  ASSUME NEW f
  PROVE  \E g : Sums(g, f, NetSets)
<1> DEFINE Bad == {k \in Nat : ~ \E g : Sums(g, f, Upto(k))}
<1>1. ASSUME NEW k \in Bad, \A j \in Bad : k <= j
      PROVE  FALSE
  <2>1. PICK g : k = 0 \/ Sums(g, f, Upto(k - 1))
    BY <1>1
  <2> DEFINE h == [s \in Upto(k) |->
                     IF s = {} THEN 0 ELSE f[First(s)] + g[s \ {First(s)}]]
  <2>2. ASSUME NEW s \in Upto(k), s # {}
        PROVE  h[s \ {First(s)}] = g[s \ {First(s)}]
    <3>1. /\ s \ {First(s)} \in SUBSET Nets /\ Cardinality(s) \in Nat
          /\ Cardinality(s \ {First(s)}) = Cardinality(s) - 1 /\ First(s) \in s
      BY <2>2, WithoutFirst DEF Upto
    <3>2. k # 0
      <4>1. Cardinality(s) <= k /\ Cardinality(s) # 0
        <5>1. IsFiniteSet(s)
          BY NetsAssumption, FS_Subset DEF Upto
        <5> QED BY <2>2, <5>1, FS_EmptySet DEF Upto
      <4> QED BY <3>1, <4>1
    <3>3. s \ {First(s)} \in Upto(k - 1) /\ s \ {First(s)} \in Upto(k)
      BY <1>1, <3>1 DEF Upto
    <3> QED BY <2>1, <3>2, <3>3 DEF Sums
  <2>3. Sums(h, f, Upto(k))
    BY <2>2 DEF Sums
  <2> QED BY <1>1, <2>3
<1>2. Bad = {}
  <2>1. Bad \in SUBSET Nat
    OBVIOUS
  <2> HIDE DEF Bad
  <2> QED BY <1>1, <2>1, HasLeast
<1>3. Cardinality(Nets) \in Nat
  BY NetsAssumption, FS_CardinalityType
<1>4. PICK g : Sums(g, f, Upto(Cardinality(Nets)))
  BY <1>2, <1>3
<1>5. Upto(Cardinality(Nets)) = NetSets
  BY NetsAssumption, FS_Subset DEF Upto, NetSets
<1> QED BY <1>4, <1>5

\* The sum of f over all nets.
SumOf(f) == MapThenSumSet(LAMBDA n : f[n], Nets)

\* It is computed in that order.
LEMMA SumIsComputed ==
  ASSUME NEW f
  PROVE  \E g : Sums(g, f, NetSets) /\ SumOf(f) = g[Nets]
<1>1. SumOf(f) = (CHOOSE g : Sums(g, f, NetSets))[Nets]
  BY DEF SumOf, MapThenSumSet, MapThenFoldSet, Sums, First, NetSets
<1> QED BY <1>1, SumsExist

\* So is the growth of the total.
LEMMA GrowthIsComputed ==
  ASSUME NEW new
  PROVE  \E g : SumsGrowth(g, new, wirelength, NetSets) /\ TotalWith(new) = total + g[Nets]
<1>1. TotalWith(new) = total + (CHOOSE g : SumsGrowth(g, new, wirelength, NetSets))[Nets]
  BY DEF TotalWith, MapThenSumSet, MapThenFoldSet, SumsGrowth, First, NetSets
<1>2. \E g : SumsGrowth(g, new, wirelength, NetSets)
  <2> DEFINE f == [n \in Nets |-> new[n] - wirelength[n]]
  <2>1. PICK g : Sums(g, f, NetSets)
    BY SumsExist
  <2>2. \A s \in NetSets : s # {} => f[First(s)] = new[First(s)] - wirelength[First(s)]
    BY WithoutFirst DEF NetSets
  <2> HIDE DEF f
  <2>3. SumsGrowth(g, new, wirelength, NetSets)
    BY <2>1, <2>2 DEF Sums, SumsGrowth
  <2> QED BY <2>3
<1> QED BY <1>1, <1>2

\* The old sum and the growth make the new sum: they do so for every set of nets,
\* as a smallest one for which they did not would have to be empty.
LEMMA GrowthAddsUp ==
  ASSUME NEW old \in [Nets -> Int], NEW new \in [Nets -> Int], NEW f, NEW g, NEW h,
         Sums(f, old, NetSets), Sums(g, new, NetSets),
         SumsGrowth(h, new, old, NetSets)
  PROVE  f[Nets] \in Int /\ h[Nets] \in Int /\ g[Nets] = f[Nets] + h[Nets]
<1> DEFINE B == {s \in SUBSET Nets : ~ (f[s] \in Int /\ h[s] \in Int /\ g[s] = f[s] + h[s])}
<1>1. ASSUME NEW s \in B, \A u \in B : u \subseteq s => u = s
      PROVE  FALSE
  <2>1. CASE s = {}
    BY <2>1 DEF Sums, SumsGrowth, NetSets
  <2>2. CASE s # {}
    <3> DEFINE u == s \ {First(s)}
    <3>1. First(s) \in s /\ First(s) \in Nets /\ u \in SUBSET Nets /\ u # s
      BY <2>2, WithoutFirst
    <3>2. f[u] \in Int /\ h[u] \in Int /\ g[u] = f[u] + h[u]
      BY <1>1, <3>1
    <3>3. f[s] = old[First(s)] + f[u]
      BY <2>2, <3>1 DEF Sums, NetSets
    <3>4. g[s] = new[First(s)] + g[u]
      BY <2>2, <3>1 DEF Sums, NetSets
    <3>5. h[s] = (new[First(s)] - old[First(s)]) + h[u]
      BY <2>2, <3>1 DEF SumsGrowth, NetSets
    <3>6. old[First(s)] \in Int /\ new[First(s)] \in Int
      BY <3>1
    <3> HIDE DEF u
    <3>7. f[s] \in Int /\ h[s] \in Int /\ g[s] = f[s] + h[s]
      BY <3>2, <3>3, <3>4, <3>5, <3>6
    <3> QED BY <3>7
  <2> QED BY <2>1, <2>2
<1>2. B = {}
  <2>1. \A s \in B : s \subseteq Nets
    OBVIOUS
  <2> HIDE DEF B
  <2> QED BY <1>1, <2>1, HasSmallestSet, NetsAssumption
<1> QED BY <1>2

\* The sum of nothing but zeros.
LEMMA SumOfZeros ==
  ASSUME NEW f \in [Nets -> Int], \A n \in Nets : f[n] = 0
  PROVE  SumOf(f) = 0
<1>1. PICK g : Sums(g, f, NetSets) /\ SumOf(f) = g[Nets]
  BY SumIsComputed
<1>2. \A s \in NetSets : s # {} => f[First(s)] = 0
  BY WithoutFirst DEF NetSets
<1>3. \A s \in NetSets : s # {} => f[First(s)] - f[First(s)] = f[First(s)]
  BY <1>2
<1>4. SumsGrowth(g, f, f, NetSets)
  BY <1>1, <1>3 DEF Sums, SumsGrowth
<1> HIDE DEF SumOf
<1>6. g[Nets] \in Int /\ g[Nets] = g[Nets] + g[Nets]
  BY <1>1, <1>4, GrowthAddsUp
<1>7. \A k \in Int : k = k + k => k = 0
  OBVIOUS
<1>8. g[Nets] = 0
  BY <1>6, <1>7
<1> QED BY <1>1, <1>8

\* A net has finitely many pins, at places that are integers.
LEMMA SteinerIsInteger ==
  ASSUME Types, NEW n \in Estimated
  PROVE  Steiner(n) \in Int
<1> DEFINE places == {position[Owner[p]] : p \in PinsOn(n)}
<1>1. PinsOn(n) \subseteq Pins /\ IsFiniteSet(PinsOn(n))
  BY PinsAssumption, FS_Subset DEF PinsOn
<1>2. PinsOn(n) # {}
  BY FS_EmptySet DEF Estimated
<1>3. \A p \in PinsOn(n) : position[Owner[p]] \in Int
  BY <1>1, PinsAssumption, DataAssumption DEF Types, Placements, Positions
<1>4. places \subseteq Int /\ places # {}
  BY <1>2, <1>3
<1>5. IsFiniteSet(places)
  <2> DEFINE at == [p \in PinsOn(n) |-> position[Owner[p]]]
  <2>1. at \in Surjection(PinsOn(n), places)
    BY DEF Surjection
  <2> QED BY <1>1, <2>1, FS_Surjection
<1> HIDE DEF places
<1>6. Max(places) \in Int /\ Min(places) \in Int
  BY <1>4, <1>5, HasGreatest, HasSmallest DEF Max, Min
<1>7. Steiner(n) = Max(places) - Min(places)
  BY DEF Steiner, places
<1> QED BY <1>6, <1>7

\* What is added up, and the sum.
TInv ==
  /\ wirelength \in [Nets -> Int] /\ total \in Int /\ crashed \in BOOLEAN
  /\ total = SumOf(wirelength)

\* The property in these terms.
LEMMA TotalIsSumOf == TotalIsSum <=> total = SumOf(wirelength)
BY DEF TotalIsSum, SumOf

\* An estimate adds to the total what it changes about the wirelengths.
LEMMA EstimateKeepsTInv ==
  ASSUME IInv, TInv, NEW full, NEW cap, NEW newDirty, NEW newPerformed,
         Estimate(full, cap, newDirty, newPerformed)
  PROVE  TInv'
<1> DEFINE F == full \cap Estimated
           C == cap \cap Estimated
           new == [n \in Nets |-> IF n \in F THEN Steiner(n)
                                  ELSE IF n \in C THEN 0 ELSE wirelength[n]]
<1>1. CASE UNCHANGED <<total, wirelength>> /\ crashed' = TRUE
  BY <1>1 DEF TInv
<1>2. CASE wirelength' = new /\ total' = TotalWith(new) /\ crashed' = crashed
  <2>1. new \in [Nets -> Int]
    <3>1. \A n \in F : Steiner(n) \in Int
      BY SteinerIsInteger DEF IInv
    <3> HIDE DEF F, C
    <3> QED BY <3>1 DEF TInv
  <2>2. PICK k : k = new
    OBVIOUS
  <2> HIDE DEF new
  <2>3. PICK f : Sums(f, wirelength, NetSets) /\ SumOf(wirelength) = f[Nets]
    BY SumIsComputed
  <2>4. PICK g : Sums(g, k, NetSets) /\ SumOf(k) = g[Nets]
    BY SumIsComputed
  <2>5. PICK h : SumsGrowth(h, k, wirelength, NetSets) /\ TotalWith(k) = total + h[Nets]
    BY GrowthIsComputed
  <2>6. f[Nets] \in Int /\ h[Nets] \in Int /\ g[Nets] = f[Nets] + h[Nets]
    BY <2>1, <2>2, <2>3, <2>4, <2>5, GrowthAddsUp DEF TInv
  <2>7. total = f[Nets]
    BY <2>3 DEF TInv
  <2>8. wirelength' = k /\ total' = total + h[Nets] /\ total' = SumOf(k)
    BY <1>2, <2>2, <2>4, <2>5, <2>6, <2>7
  <2> QED BY <1>2, <2>1, <2>2, <2>6, <2>7, <2>8 DEF TInv
<1>3. \/ UNCHANGED <<total, wirelength>> /\ crashed' = TRUE
      \/ wirelength' = new /\ total' = TotalWith(new) /\ crashed' = crashed
  BY DEF Estimate
<1> QED BY <1>1, <1>2, <1>3

\* Every step keeps the sum.
LEMMA NextKeepsTInv ==
  ASSUME IInv, TInv, [Next]_vars
  PROVE  TInv'
<1>1. CASE UNCHANGED <<total, wirelength, crashed>>
  BY <1>1 DEF TInv
<1>2. CASE Edit
  BY <1>1, <1>2 DEF Edit, CreateNet, ConnectPin, DisconnectPin, MoveInstance, RemapCell, Edited
<1>3. CASE UpdateRoutingFull \/ UpdateRouting \/ \E n \in Nets : UpdateRoutingOfNet(n)
  BY <1>3, EstimateKeepsTInv DEF UpdateRoutingFull, UpdateRouting, UpdateRoutingOfNet
<1> QED BY <1>1, <1>2, <1>3 DEF Next, vars

\* Nothing has a wirelength at the start.
LEMMA InitTInv == Init => TInv
<1> SUFFICES ASSUME Init PROVE TInv
  OBVIOUS
<1>1. total = 0 /\ crashed = FALSE
  BY DEF Init
<1>2. wirelength \in [Nets -> Int] /\ \A n \in Nets : wirelength[n] = 0
  BY DEF Init
<1>3. total = SumOf(wirelength)
  BY <1>1, <1>2, SumOfZeros
<1>4. total \in Int
  BY <1>1
<1>5. crashed \in BOOLEAN
  BY <1>1
<1> QED BY <1>2, <1>3, <1>4, <1>5 DEF TInv

\* Both invariants hold in every reachable state.
LEMMA TotalInvariant == Spec => [](IInv /\ TInv)
<1>1. Init => IInv /\ TInv
  BY InitIInv, InitTInv
<1>2. IInv /\ TInv /\ [Next]_vars => IInv' /\ TInv'
  BY NextKeepsIInv, NextKeepsTInv
<1> QED BY <1>1, <1>2, PTL DEF Spec

\* The running total of the estimator is the sum of the wirelengths, in whatever
\* order nets are estimated, marked and estimated again (RoutingEstimator::updateRouting
\* takes the old wirelength of a net off and adds the new one).
THEOREM TotalNeverDrifts == Spec => []TotalIsSum
<1>1. TInv => TotalIsSum
  BY TotalIsSumOf DEF TInv
<1> QED BY <1>1, TotalInvariant, PTL

\* The variables keep their types; wirelengths are integers because a net is only
\* measured when it has pins.
THEOREM TypeCorrect == Spec => []TypeOK
<1>1. IInv /\ TInv => TypeOK
  BY DEF IInv, Types, TInv, TypeOK
<1> QED BY <1>1, TotalInvariant, PTL

=============================================================================
