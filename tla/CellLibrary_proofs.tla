-------------------------- MODULE CellLibrary_proofs --------------------------
(***************************************************************************)
(* Proofs about CellLibrary for every library and every set of cells.  A   *)
(* chain of remaps is right when each remap keeps the name of every pin;   *)
(* distinct names then keep the pins apart and the arcs in their places.   *)
(* The hypotheses say what remap presupposes of the library and does not   *)
(* check.                                                                  *)
(***************************************************************************)
EXTENDS CellLibrary, TLAPS, Least

\* The pins of a library cell have different names.
NamesDistinct ==
  \A l \in LibraryCells : \A i, j \in DOMAIN Dscp[l].pins :
    Dscp[l].pins[i].name = Dscp[l].pins[j].name => i = j

\* A power pin that remap skips has the same name in the old library cell.
PowerPinsInPlace ==
  \A old, new \in LibraryCells : Compatible(old, new) =>
    \A i \in DOMAIN Dscp[new].pins :
      IsPowerOrGround(new, i) => Dscp[old].pins[i].name = Dscp[new].pins[i].name

\* The arcs of a cell are records that lead to arcs of its library cell.
ArcsTyped ==
  \A c \in Created :
    /\ arcs[c] \in Seq([from: Nat, to: Nat, library: LibraryCells \X Nat])
    /\ \A k \in DOMAIN arcs[c] :
         arcs[c][k].library[2] \in DOMAIN Dscp[lcell[c]].arcs

Shape ==
  /\ DOMAIN lcell = Cells
  /\ index = [c \in Cells |-> index[c]]
  /\ arcs = [c \in Cells |-> arcs[c]]
  /\ \A l \in library : Consistent(l)

IInv ==
  /\ TypeOK
  /\ Shape
  /\ ArcsTyped
  /\ PinsStayDistinct
  /\ ArcsFollowPins

-----------------------------------------------------------------------------
(***************************************************************************)
(* The searches by name.                                                   *)
(***************************************************************************)

\* The pins and the arcs of a library cell are numbered from one.
LEMMA DscpNumbered ==
  ASSUME NEW l \in LibraryCells
  PROVE  /\ Len(Dscp[l].pins) \in Nat
         /\ DOMAIN Dscp[l].pins = 1 .. Len(Dscp[l].pins)
         /\ Len(Dscp[l].arcs) \in Nat
         /\ DOMAIN Dscp[l].arcs = 1 .. Len(Dscp[l].arcs)
BY CellLibraryAssumption

\* getLibraryPinByName returns a pin of that name, if there is one.
LEMMA PinByNameFinds ==
  ASSUME NEW l \in LibraryCells, NEW name \in PinNames(l)
  PROVE  /\ PinByName(l, name) \in DOMAIN Dscp[l].pins
         /\ Dscp[l].pins[PinByName(l, name)].name = name
<1> DEFINE matches == {i \in DOMAIN Dscp[l].pins : Dscp[l].pins[i].name = name}
<1>1. matches \in SUBSET Nat /\ matches # {}
  BY DscpNumbered DEF PinNames
<1>2. PICK i \in matches : \A j \in matches : i <= j
  BY <1>1, HasLeast
<1>3. \A j \in 1 .. i - 1 : Dscp[l].pins[j].name # name
  <2> SUFFICES ASSUME NEW j \in 1 .. i - 1, Dscp[l].pins[j].name = name
               PROVE  FALSE
    OBVIOUS
  <2>1. i \in 1 .. Len(Dscp[l].pins) /\ Len(Dscp[l].pins) \in Nat
    BY <1>2, DscpNumbered
  <2>2. j \in DOMAIN Dscp[l].pins
    BY <2>1, DscpNumbered
  <2>3. i <= j
    BY <1>2, <2>2
  <2> QED BY <2>1, <2>3
<1>4. \E i0 \in DOMAIN Dscp[l].pins :
        /\ Dscp[l].pins[i0].name = name
        /\ \A j \in 1 .. i0 - 1 : Dscp[l].pins[j].name # name
  BY <1>2, <1>3
<1> QED BY <1>4 DEF PinByName

\* getLibraryArcByPinNames returns an arc of those names, if there is one.
LEMMA ArcByNamesFinds ==
  ASSUME NEW l \in LibraryCells, NEW arc,
         \E k \in DOMAIN Dscp[l].arcs : Dscp[l].arcs[k] = arc
  PROVE  /\ ArcByNames(l, arc) \in DOMAIN Dscp[l].arcs
         /\ Dscp[l].arcs[ArcByNames(l, arc)] = arc
<1> DEFINE matches == {k \in DOMAIN Dscp[l].arcs : Dscp[l].arcs[k] = arc}
<1>1. matches \in SUBSET Nat /\ matches # {}
  BY DscpNumbered
<1>2. PICK k \in matches : \A j \in matches : k <= j
  BY <1>1, HasLeast
<1>3. \A j \in 1 .. k - 1 : Dscp[l].arcs[j] # arc
  <2> SUFFICES ASSUME NEW j \in 1 .. k - 1, Dscp[l].arcs[j] = arc
               PROVE  FALSE
    OBVIOUS
  <2>1. k \in 1 .. Len(Dscp[l].arcs) /\ Len(Dscp[l].arcs) \in Nat
    BY <1>2, DscpNumbered
  <2>2. j \in DOMAIN Dscp[l].arcs
    BY <2>1, DscpNumbered
  <2>3. k <= j
    BY <1>2, <2>2
  <2> QED BY <2>1, <2>3
<1>4. \E k0 \in DOMAIN Dscp[l].arcs :
        /\ Dscp[l].arcs[k0] = arc
        /\ \A j \in 1 .. k0 - 1 : Dscp[l].arcs[j] # arc
  BY <1>2, <1>3
<1> QED BY <1>4 DEF ArcByNames

\* remap sends the index of a pin to the library pin of the same name.
LEMMA RemappedIndexKeepsName ==
  ASSUME PowerPinsInPlace, NEW old \in LibraryCells, NEW new \in LibraryCells,
         Compatible(old, new), NEW i \in DOMAIN Dscp[old].pins
  PROVE  /\ RemappedIndex(old, new, i) \in DOMAIN Dscp[new].pins
         /\ Dscp[new].pins[RemappedIndex(old, new, i)].name =
              Dscp[old].pins[i].name
<1>1. i \in DOMAIN Dscp[new].pins
  BY DscpNumbered DEF Compatible
<1>2. Dscp[old].pins[i].name \in PinNames(new)
  BY DEF Compatible, PinNames
<1>3. CASE IsPowerOrGround(new, i)
  BY <1>1, <1>3 DEF PowerPinsInPlace, RemappedIndex
<1>4. CASE ~ IsPowerOrGround(new, i)
  BY <1>2, <1>4, PinByNameFinds DEF RemappedIndex
<1> QED BY <1>3, <1>4

\* remap sends a library arc to the arc between the pins of the same names.
LEMMA RemappedArcKeepsNames ==
  ASSUME NEW old \in LibraryCells, NEW new \in LibraryCells,
         Compatible(old, new), NEW k \in DOMAIN Dscp[old].arcs, NEW a,
         a[1] = old, a[2] = k
  PROVE  /\ RemappedArc(new, a)[1] = new
         /\ RemappedArc(new, a)[2] \in DOMAIN Dscp[new].arcs
         /\ Dscp[new].arcs[RemappedArc(new, a)[2]] = Dscp[old].arcs[k]
<1>1. \E j \in DOMAIN Dscp[new].arcs : Dscp[new].arcs[j] = Dscp[old].arcs[k]
  BY DEF Compatible
<1> QED BY <1>1, ArcByNamesFinds DEF RemappedArc

-----------------------------------------------------------------------------
(***************************************************************************)
(* The operations.                                                         *)
(***************************************************************************)

\* An empty library with no cells satisfies the invariant.
LEMMA InitIInv == Init => IInv
<1> SUFFICES ASSUME Init PROVE IInv
  OBVIOUS
<1>1. Created = {}
  BY DEF Init, Created
<1> QED BY <1>1 DEF Init, IInv, TypeOK, Shape, ArcsTyped, PinsStayDistinct,
                     ArcsFollowPins

\* createLibraryCell adds a consistent library cell and touches no cell.
LEMMA CreateLibraryCellKeepsIInv ==
  ASSUME IInv, NEW l \in LibraryCells, CreateLibraryCell(l)
  PROVE  IInv'
<1>1. Created' = Created
  BY DEF CreateLibraryCell, Created
<1>2. TypeOK'
  BY <1>1 DEF CreateLibraryCell, IInv, TypeOK
<1>3. Shape'
  BY DEF CreateLibraryCell, IInv, Shape
<1>4. ArcsTyped'
  BY <1>1 DEF CreateLibraryCell, IInv, ArcsTyped
<1>5. PinsStayDistinct'
  BY <1>1 DEF CreateLibraryCell, IInv, PinsStayDistinct
<1>6. ArcsFollowPins'
  <2>1. lcell' = lcell /\ index' = index /\ arcs' = arcs
    BY DEF CreateLibraryCell
  <2> SUFFICES ASSUME NEW c \in Created, NEW k \in DOMAIN arcs[c]
               PROVE  /\ arcs[c][k].library[1] = lcell[c]
                      /\ Dscp[lcell[c]].arcs[arcs[c][k].library[2]] =
                           [from |-> PinName(c, arcs[c][k].from)',
                            to   |-> PinName(c, arcs[c][k].to)']
    BY <1>1, <2>1 DEF ArcsFollowPins
  <2>2. PinName(c, arcs[c][k].from)' = PinName(c, arcs[c][k].from)
    BY <2>1 DEF PinName
  <2>3. PinName(c, arcs[c][k].to)' = PinName(c, arcs[c][k].to)
    BY <2>1 DEF PinName
  <2> QED BY <2>2, <2>3 DEF IInv, ArcsFollowPins
<1> QED BY <1>2, <1>3, <1>4, <1>5, <1>6 DEF IInv

\* createCell gives pin i the index i and arc k the library arc k.
LEMMA CreateCellKeepsIInv ==
  ASSUME IInv, NamesDistinct, NEW c \in Cells, NEW l \in LibraryCells,
         CreateCell(c, l)
  PROVE  IInv'
<1> DEFINE lpins == Dscp[l].pins
           larcs == Dscp[l].arcs
           new == [k \in DOMAIN larcs |->
                     [from    |-> PinByName(l, larcs[k].from),
                      to      |-> PinByName(l, larcs[k].to),
                      library |-> <<l, k>>]]
<1>1. /\ DOMAIN lpins = 1 .. Len(lpins) /\ Len(lpins) \in Nat
      /\ DOMAIN larcs = 1 .. Len(larcs) /\ Len(larcs) \in Nat
  BY DscpNumbered
<1>2. \A k \in DOMAIN larcs :
        /\ PinByName(l, larcs[k].from) \in DOMAIN lpins
        /\ lpins[PinByName(l, larcs[k].from)].name = larcs[k].from
        /\ PinByName(l, larcs[k].to) \in DOMAIN lpins
        /\ lpins[PinByName(l, larcs[k].to)].name = larcs[k].to
  BY PinByNameFinds DEF CreateCell, IInv, Shape, Consistent
<1>3. /\ lcell'[c] = l
      /\ index'[c] = [i \in DOMAIN lpins |-> i]
      /\ arcs'[c] = new
      /\ library' = library /\ l \in library
      /\ Created' = Created \cup {c}
      /\ \A d \in Cells \ {c} : /\ lcell'[d] = lcell[d]
                               /\ index'[d] = index[d]
                               /\ arcs'[d] = arcs[d]
  BY CellLibraryAssumption DEF CreateCell, IInv, TypeOK, Shape, Created
<1>4. /\ new \in Seq([from: Nat, to: Nat, library: LibraryCells \X Nat])
      /\ \A k \in DOMAIN new : new[k].library = <<l, k>> /\ k \in DOMAIN larcs
  <2>1. new \in [1 .. Len(larcs) -> [from: Nat, to: Nat, library: LibraryCells \X Nat]]
    BY <1>1, <1>2
  <2> QED BY <1>1, <2>1
<1>5. TypeOK'
  <2>1. [i \in DOMAIN lpins |-> i] \in Seq(DOMAIN lpins)
    BY <1>1
  <2>2. \A k \in DOMAIN new : /\ {new[k].from, new[k].to} \subseteq DOMAIN lpins
                             /\ new[k].library[1] \in library
    BY <1>2, <1>3
  <2>3. lcell' \in [Cells -> library \cup {NoLibraryCell}]
    BY <1>3 DEF CreateCell, IInv, TypeOK
  <2>4. \A d \in Created : d \in Cells
    BY DEF Created
  <2> HIDE DEF new
  <2> QED BY <1>3, <2>1, <2>2, <2>3, <2>4 DEF IInv, TypeOK
<1>6. Shape'
  BY DEF CreateCell, IInv, Shape
<1>7. ArcsTyped'
  <2> HIDE DEF new
  <2> SUFFICES ASSUME NEW d \in Created'
               PROVE  /\ arcs'[d] \in Seq([from: Nat, to: Nat,
                                         library: LibraryCells \X Nat])
                      /\ \A k \in DOMAIN arcs'[d] :
                           arcs'[d][k].library[2] \in DOMAIN Dscp[lcell'[d]].arcs
    BY DEF ArcsTyped
  <2>1. CASE d = c
    BY <1>3, <1>4, <2>1
  <2>2. CASE d # c
    BY <1>3, <2>2 DEF IInv, ArcsTyped, Created
  <2> QED BY <2>1, <2>2
<1>8. PinsStayDistinct'
  BY <1>3 DEF IInv, PinsStayDistinct, Created
<1>9. ArcsFollowPins'
  <2> SUFFICES ASSUME NEW d \in Created', NEW k \in DOMAIN arcs'[d]
               PROVE  /\ arcs'[d][k].library[1] = lcell'[d]
                      /\ Dscp[lcell'[d]].arcs[arcs'[d][k].library[2]] =
                           [from |-> Dscp[lcell'[d]].pins[index'[d][arcs'[d][k].from]].name,
                            to   |-> Dscp[lcell'[d]].pins[index'[d][arcs'[d][k].to]].name]
    BY ZenonT(40) DEF ArcsFollowPins, PinName
  <2>1. CASE d = c
    <3>1. /\ k \in DOMAIN larcs
          /\ arcs'[c][k].from = PinByName(l, larcs[k].from)
          /\ arcs'[c][k].to = PinByName(l, larcs[k].to)
          /\ arcs'[c][k].library = <<l, k>>
      BY <1>3, <2>1
    <3>2. /\ index'[c][PinByName(l, larcs[k].from)] = PinByName(l, larcs[k].from)
          /\ index'[c][PinByName(l, larcs[k].to)] = PinByName(l, larcs[k].to)
      BY <1>2, <1>3, <3>1, ZenonT(40)
    <3>3. larcs[k] = [from |-> larcs[k].from, to |-> larcs[k].to]
      BY <3>1, CellLibraryAssumption
    <3>4. /\ Dscp[l].pins[index'[c][arcs'[c][k].from]].name = larcs[k].from
          /\ Dscp[l].pins[index'[c][arcs'[c][k].to]].name = larcs[k].to
      BY <1>2, <3>1, <3>2
    <3>5. arcs'[c][k].library[1] = l /\ arcs'[c][k].library[2] = k
      BY <3>1
    <3> HIDE DEF new
    <3> QED BY <1>3, <2>1, <3>3, <3>4, <3>5, ZenonT(40)
  <2>2. CASE d # c
    <3> HIDE DEF new
    <3>1. /\ d \in Created /\ lcell'[d] = lcell[d]
          /\ index'[d] = index[d] /\ arcs'[d] = arcs[d]
      BY <1>3, <2>2 DEF Created
    <3> QED BY <3>1, ZenonT(40) DEF IInv, ArcsFollowPins, PinName
  <2> QED BY <2>1, <2>2, ZenonT(40)
<1> QED BY <1>5, <1>6, <1>7, <1>8, <1>9 DEF IInv

\* remap keeps the name of every pin of the cell and lets no other cell change.
LEMMA RemapKeepsNames ==
  ASSUME IInv, PowerPinsInPlace, NEW c \in Cells, NEW new \in LibraryCells,
         Remap(c, new)
  PROVE  /\ Created' = Created /\ c \in Created
         /\ \A d \in Created :
              /\ DOMAIN index'[d] = DOMAIN index[d]
              /\ index'[d] \in Seq(DOMAIN Dscp[lcell'[d]].pins)
              /\ \A i \in DOMAIN index[d] :
                   /\ index[d][i] \in DOMAIN Dscp[lcell[d]].pins
                   /\ PinName(d, i)' = PinName(d, i)
<1> DEFINE old == lcell[c]
<1>1. /\ old \in library /\ new \in library /\ library \subseteq LibraryCells
      /\ Compatible(old, new)
      /\ lcell'[c] = new
      /\ index'[c] = [i \in DOMAIN index[c] |-> RemappedIndex(old, new, index[c][i])]
      /\ Created' = Created /\ c \in Created
      /\ \A d \in Cells \ {c} : lcell'[d] = lcell[d] /\ index'[d] = index[d]
  BY CellLibraryAssumption DEF Remap, IInv, TypeOK, Shape, Created
<1>2. \A d \in Created : d \in Cells /\ index[d] \in Seq(DOMAIN Dscp[lcell[d]].pins)
  BY DEF IInv, TypeOK, Created
<1>3. \A i \in DOMAIN index[c] :
        /\ index[c][i] \in DOMAIN Dscp[old].pins
        /\ index'[c][i] \in DOMAIN Dscp[new].pins
        /\ Dscp[new].pins[index'[c][i]].name = Dscp[old].pins[index[c][i]].name
  <2> TAKE i \in DOMAIN index[c]
  <2>1. index[c][i] \in DOMAIN Dscp[old].pins
    BY <1>1, <1>2
  <2> QED BY <1>1, <2>1, RemappedIndexKeepsName
<1>4. index'[c] \in Seq(DOMAIN Dscp[new].pins)
  <2>1. Len(index[c]) \in Nat /\ DOMAIN index[c] = 1 .. Len(index[c])
    BY <1>1, <1>2
  <2>2. index'[c] \in [1 .. Len(index[c]) -> DOMAIN Dscp[new].pins]
    BY <1>1, <1>3, <2>1
  <2> QED BY <2>1, <2>2
<1>5. DOMAIN index'[c] = DOMAIN index[c]
  BY <1>1
<1> SUFFICES ASSUME NEW d \in Created
             PROVE  /\ DOMAIN index'[d] = DOMAIN index[d]
                    /\ index'[d] \in Seq(DOMAIN Dscp[lcell'[d]].pins)
                    /\ \A i \in DOMAIN index[d] :
                         /\ index[d][i] \in DOMAIN Dscp[lcell[d]].pins
                         /\ PinName(d, i)' = PinName(d, i)
  BY <1>1
<1>6. CASE d = c
  BY <1>1, <1>3, <1>4, <1>5, <1>6 DEF PinName
<1>7. CASE d # c
  BY <1>1, <1>2, <1>7 DEF PinName
<1> QED BY <1>6, <1>7

\* remap keeps the ends of every arc, and the library arc it leads to is the
\* new library cell's arc between pins of the same names.
LEMMA RemapKeepsArcs ==
  ASSUME IInv, NEW c \in Cells, NEW new \in LibraryCells, Remap(c, new)
  PROVE  /\ DOMAIN arcs'[c] = DOMAIN arcs[c]
         /\ arcs'[c] \in Seq([from: Nat, to: Nat, library: LibraryCells \X Nat])
         /\ \A k \in DOMAIN arcs[c] :
              /\ arcs'[c][k].from = arcs[c][k].from
              /\ arcs'[c][k].to = arcs[c][k].to
              /\ arcs'[c][k].library[1] = new
              /\ arcs'[c][k].library[2] \in DOMAIN Dscp[new].arcs
              /\ Dscp[new].arcs[arcs'[c][k].library[2]] =
                   Dscp[lcell[c]].arcs[arcs[c][k].library[2]]
<1> DEFINE old == lcell[c]
           Arcs == [from: Nat, to: Nat, library: LibraryCells \X Nat]
<1>0. old \in LibraryCells /\ Compatible(old, new) /\ c \in Created
  BY DEF Remap, IInv, TypeOK, Created
<1>1. arcs'[c] = [k \in DOMAIN arcs[c] |->
                    [arcs[c][k] EXCEPT !.library = RemappedArc(new, @)]]
  BY DEF Remap, IInv, Shape
<1>2. /\ arcs[c] \in Seq(Arcs)
      /\ \A k \in DOMAIN arcs[c] :
           /\ arcs[c][k] \in Arcs
           /\ arcs[c][k].library[1] = old
           /\ arcs[c][k].library[2] \in DOMAIN Dscp[old].arcs
  <2>1. arcs[c] \in Seq(Arcs)
    BY <1>0 DEF IInv, ArcsTyped
  <2>2. \A k \in DOMAIN arcs[c] : arcs[c][k] \in Arcs
    <3> HIDE DEF Arcs
    <3> QED BY <2>1
  <2>3. \A k \in DOMAIN arcs[c] : arcs[c][k].library[2] \in DOMAIN Dscp[old].arcs
    BY <1>0 DEF IInv, ArcsTyped
  <2>4. \A k \in DOMAIN arcs[c] : arcs[c][k].library[1] = old
    BY <1>0 DEF IInv, ArcsFollowPins
  <2> QED BY <2>1, <2>2, <2>3, <2>4
<1>3. Len(arcs[c]) \in Nat /\ DOMAIN arcs[c] = 1 .. Len(arcs[c])
  BY <1>2
<1>4. \A k \in DOMAIN arcs[c] :
        /\ arcs'[c][k] \in Arcs
        /\ arcs'[c][k].from = arcs[c][k].from
        /\ arcs'[c][k].to = arcs[c][k].to
        /\ arcs'[c][k].library[1] = new
        /\ arcs'[c][k].library[2] \in DOMAIN Dscp[new].arcs
        /\ Dscp[new].arcs[arcs'[c][k].library[2]] =
             Dscp[old].arcs[arcs[c][k].library[2]]
  <2> TAKE k \in DOMAIN arcs[c]
  <2> DEFINE a == arcs[c][k].library
             b == RemappedArc(new, a)
  <2>1. /\ b[1] = new /\ b[2] \in DOMAIN Dscp[new].arcs
        /\ Dscp[new].arcs[b[2]] = Dscp[old].arcs[a[2]]
    BY <1>0, <1>2, RemappedArcKeepsNames, SMTT(30)
  <2>2. b \in LibraryCells \X Nat
    <3>1. b[2] \in Nat
      BY <2>1, DscpNumbered
    <3> QED BY <3>1 DEF RemappedArc
  <2> HIDE DEF b
  <2>3. arcs'[c][k] = [arcs[c][k] EXCEPT !.library = b]
    BY <1>1 DEF b
  <2>4. arcs[c][k] \in Arcs
    BY <1>2
  <2>5. arcs'[c][k] \in Arcs /\ arcs'[c][k].library = b
        /\ arcs'[c][k].from = arcs[c][k].from
        /\ arcs'[c][k].to = arcs[c][k].to
    BY <2>2, <2>3, <2>4
  <2> QED BY <2>1, <2>5
<1>5. DOMAIN arcs'[c] = DOMAIN arcs[c]
  BY <1>1
<1>6. arcs'[c] \in Seq(Arcs)
  <2>1. arcs'[c] \in [1 .. Len(arcs[c]) -> Arcs]
    <3> HIDE DEF Arcs
    <3> QED BY <1>1, <1>3, <1>4
  <2> HIDE DEF Arcs
  <2> QED BY <1>3, <2>1, SMTT(30)
<1> QED BY <1>4, <1>5, <1>6

\* remap keeps the invariant.
LEMMA RemapKeepsIInv ==
  ASSUME IInv, PowerPinsInPlace, NamesDistinct,
         NEW c \in Cells, NEW new \in LibraryCells, Remap(c, new)
  PROVE  IInv'
<1>1. /\ lcell[c] \in LibraryCells
      /\ lcell'[c] = new
      /\ library' = library /\ new \in library
      /\ Created' = Created /\ c \in Created
      /\ \A d \in Created \ {c} : lcell'[d] = lcell[d] /\ arcs'[d] = arcs[d]
  BY CellLibraryAssumption DEF Remap, IInv, TypeOK, Shape, Created
<1>2. \A d \in Created :
        /\ DOMAIN index'[d] = DOMAIN index[d]
        /\ index'[d] \in Seq(DOMAIN Dscp[lcell'[d]].pins)
        /\ \A i \in DOMAIN index[d] :
             /\ index[d][i] \in DOMAIN Dscp[lcell[d]].pins
             /\ PinName(d, i)' = PinName(d, i)
  BY RemapKeepsNames
<1>3. /\ DOMAIN arcs'[c] = DOMAIN arcs[c]
      /\ arcs'[c] \in Seq([from: Nat, to: Nat, library: LibraryCells \X Nat])
      /\ \A k \in DOMAIN arcs[c] :
           /\ arcs'[c][k].from = arcs[c][k].from
           /\ arcs'[c][k].to = arcs[c][k].to
           /\ arcs'[c][k].library[1] = new
           /\ arcs'[c][k].library[2] \in DOMAIN Dscp[new].arcs
           /\ Dscp[new].arcs[arcs'[c][k].library[2]] =
                Dscp[lcell[c]].arcs[arcs[c][k].library[2]]
  BY RemapKeepsArcs
<1>4. \A d \in Created : \A k \in DOMAIN arcs[d] :
        {arcs[d][k].from, arcs[d][k].to} \subseteq DOMAIN index[d]
  BY DEF IInv, TypeOK
<1>5. TypeOK'
  <2>1. library' \subseteq LibraryCells
    BY <1>1 DEF IInv, TypeOK
  <2>2. lcell' \in [Cells -> library' \cup {NoLibraryCell}]
    BY <1>1 DEF Remap, IInv, TypeOK
  <2>3. \A d \in Created : \A k \in DOMAIN arcs'[d] :
          /\ {arcs'[d][k].from, arcs'[d][k].to} \subseteq DOMAIN index'[d]
          /\ arcs'[d][k].library[1] \in library
    <3> TAKE d \in Created
    <3>1. CASE d = c
      BY <1>1, <1>2, <1>3, <1>4, <3>1
    <3>2. CASE d # c
      BY <1>1, <1>2, <1>4, <3>2 DEF IInv, TypeOK
    <3> QED BY <3>1, <3>2
  <2> QED BY <1>1, <1>2, <2>1, <2>2, <2>3 DEF TypeOK
<1>6. Shape'
  BY DEF Remap, IInv, Shape
<1>7. ArcsTyped'
  <2> SUFFICES ASSUME NEW d \in Created
               PROVE  /\ arcs'[d] \in Seq([from: Nat, to: Nat,
                                         library: LibraryCells \X Nat])
                      /\ \A k \in DOMAIN arcs'[d] :
                           arcs'[d][k].library[2] \in DOMAIN Dscp[lcell'[d]].arcs
    BY <1>1 DEF ArcsTyped
  <2>1. CASE d = c
    BY <1>1, <1>3, <2>1
  <2>2. CASE d # c
    BY <1>1, <2>2 DEF IInv, ArcsTyped
  <2> QED BY <2>1, <2>2
<1>8. PinsStayDistinct'
  <2> SUFFICES ASSUME NEW d \in Created, NEW i \in DOMAIN index[d],
                      NEW j \in DOMAIN index[d], index'[d][i] = index'[d][j]
               PROVE  i = j
    BY <1>1, <1>2 DEF PinsStayDistinct
  <2>1. PinName(d, i)' = PinName(d, j)'
    BY DEF PinName
  <2>2. Dscp[lcell[d]].pins[index[d][i]].name = Dscp[lcell[d]].pins[index[d][j]].name
    BY <1>2, <2>1 DEF PinName
  <2>3. lcell[d] \in LibraryCells
    BY DEF IInv, TypeOK, Created
  <2>4. index[d][i] = index[d][j]
    BY <1>2, <2>2, <2>3 DEF NamesDistinct
  <2> QED BY <2>4 DEF IInv, PinsStayDistinct
<1>9. ArcsFollowPins'
  <2> DEFINE name(d, i) == Dscp[lcell[d]].pins[index[d][i]].name
             newName(d, i) == Dscp[lcell'[d]].pins[index'[d][i]].name
  <2>0. \A d \in Created : \A i \in DOMAIN index[d] : newName(d, i) = name(d, i)
    BY <1>2 DEF PinName
  <2> SUFFICES ASSUME NEW d \in Created, NEW k \in DOMAIN arcs'[d]
               PROVE  /\ arcs'[d][k].library[1] = lcell'[d]
                      /\ Dscp[lcell'[d]].arcs[arcs'[d][k].library[2]] =
                           [from |-> newName(d, arcs'[d][k].from),
                            to   |-> newName(d, arcs'[d][k].to)]
    BY <1>1, ZenonT(40) DEF ArcsFollowPins, PinName
  <2>1. CASE d = c
    <3>1. /\ k \in DOMAIN arcs[c]
          /\ arcs'[c][k].from = arcs[c][k].from
          /\ arcs'[c][k].to = arcs[c][k].to
          /\ arcs'[c][k].library[1] = lcell'[c]
          /\ Dscp[lcell'[c]].arcs[arcs'[c][k].library[2]] =
               Dscp[lcell[c]].arcs[arcs[c][k].library[2]]
      BY <1>1, <1>3, <2>1
    <3>2. Dscp[lcell[c]].arcs[arcs[c][k].library[2]] =
            [from |-> name(c, arcs[c][k].from), to |-> name(c, arcs[c][k].to)]
      BY <1>1, <3>1, ZenonT(40) DEF IInv, ArcsFollowPins, PinName
    <3>3. /\ arcs[c][k].from \in DOMAIN index[c]
          /\ arcs[c][k].to \in DOMAIN index[c]
      BY <1>1, <1>4, <3>1
    <3>4. /\ newName(c, arcs'[c][k].from) = name(c, arcs[c][k].from)
          /\ newName(c, arcs'[c][k].to) = name(c, arcs[c][k].to)
      BY <1>1, <2>0, <3>1, <3>3, ZenonT(40)
    <3> HIDE DEF name, newName
    <3> QED BY <2>1, <3>1, <3>2, <3>4
  <2>2. CASE d # c
    <3>1. lcell'[d] = lcell[d] /\ arcs'[d] = arcs[d] /\ k \in DOMAIN arcs[d]
      BY <1>1, <2>2
    <3>2. /\ arcs[d][k].library[1] = lcell[d]
          /\ Dscp[lcell[d]].arcs[arcs[d][k].library[2]] =
               [from |-> name(d, arcs[d][k].from), to |-> name(d, arcs[d][k].to)]
      BY <3>1, ZenonT(40) DEF IInv, ArcsFollowPins, PinName
    <3>3. /\ newName(d, arcs[d][k].from) = name(d, arcs[d][k].from)
          /\ newName(d, arcs[d][k].to) = name(d, arcs[d][k].to)
      BY <1>4, <2>0, <3>1, ZenonT(40)
    <3> HIDE DEF name, newName
    <3> QED BY <3>1, <3>2, <3>3
  <2> QED BY <2>1, <2>2, ZenonT(40)
<1> QED BY <1>5, <1>6, <1>7, <1>8, <1>9 DEF IInv

\* Every step keeps the invariant and the names of the pins.
LEMMA NextKeepsIInv ==
  ASSUME IInv, PowerPinsInPlace, NamesDistinct, [Next]_vars
  PROVE  /\ IInv'
         /\ \A c \in Created : \A i \in DOMAIN index[c] :
              PinName(c, i)' = PinName(c, i)
<1>1. ASSUME NEW l \in LibraryCells, CreateLibraryCell(l)
      PROVE  /\ IInv'
             /\ \A c \in Created : \A i \in DOMAIN index[c] :
                  PinName(c, i)' = PinName(c, i)
  BY <1>1, CreateLibraryCellKeepsIInv DEF CreateLibraryCell, PinName
<1>2. ASSUME NEW l \in LibraryCells, NEW c \in Cells, CreateCell(c, l)
      PROVE  /\ IInv'
             /\ \A d \in Created : \A i \in DOMAIN index[d] :
                  PinName(d, i)' = PinName(d, i)
  <2>1. \A d \in Created : d \in Cells /\ d # c
    BY <1>2 DEF CreateCell, Created
  <2>2. \A d \in Created : lcell'[d] = lcell[d] /\ index'[d] = index[d]
    BY <1>2, <2>1 DEF CreateCell, IInv, Shape
  <2> QED BY <1>2, <2>2, CreateCellKeepsIInv DEF PinName
<1>3. ASSUME NEW l \in LibraryCells, NEW c \in Cells, Remap(c, l)
      PROVE  /\ IInv'
             /\ \A d \in Created : \A i \in DOMAIN index[d] :
                  PinName(d, i)' = PinName(d, i)
  BY <1>3, RemapKeepsIInv, RemapKeepsNames
<1>4. CASE UNCHANGED vars
  <2>0. UNCHANGED <<library, lcell, index, arcs>> /\ Created' = Created
    BY <1>4 DEF vars, Created
  <2>1. IInv'
    <3>0. Shape'
      BY <2>0 DEF IInv, Shape
    <3>1. TypeOK'
      BY <2>0 DEF IInv, TypeOK
    <3>2. ArcsTyped' /\ PinsStayDistinct'
      BY <2>0 DEF IInv, ArcsTyped, PinsStayDistinct
    <3>3. ArcsFollowPins'
      BY <2>0, ZenonT(40) DEF IInv, ArcsFollowPins, PinName
    <3> QED BY <3>0, <3>1, <3>2, <3>3 DEF IInv
  <2> QED BY <1>4, <2>1 DEF vars, PinName
<1> QED BY <1>1, <1>2, <1>3, <1>4 DEF Next

-----------------------------------------------------------------------------
(***************************************************************************)
(* The theorems.                                                           *)
(***************************************************************************)

\* The pin indices of a cell and the ends of its arcs always lead to pins that
\* exist, through every chain of remaps.
THEOREM TypeCorrect ==
  ASSUME PowerPinsInPlace, NamesDistinct
  PROVE  Spec => []TypeOK
<1>1. IInv /\ [Next]_vars => IInv'
  BY NextKeepsIInv
<1>2. IInv => TypeOK
  BY DEF IInv
<1> QED BY <1>1, <1>2, InitIInv, PTL DEF Spec

\* No chain of remaps makes two pins of a cell share a library pin.
THEOREM PinsNeverMerge ==
  ASSUME PowerPinsInPlace, NamesDistinct
  PROVE  Spec => []PinsStayDistinct
<1>1. IInv /\ [Next]_vars => IInv'
  BY NextKeepsIInv
<1>2. IInv => PinsStayDistinct
  BY DEF IInv
<1> QED BY <1>1, <1>2, InitIInv, PTL DEF Spec

\* The library arc behind an arc of a cell always joins the library pins of
\* the pins the arc joins, whichever orders the library cells list them in.
THEOREM ArcsStayBehindPins ==
  ASSUME PowerPinsInPlace, NamesDistinct
  PROVE  Spec => []ArcsFollowPins
<1>1. IInv /\ [Next]_vars => IInv'
  BY NextKeepsIInv
<1>2. IInv => ArcsFollowPins
  BY DEF IInv
<1> QED BY <1>1, <1>2, InitIInv, PTL DEF Spec

\* No remap renames a pin, if power pins are where remap presupposes them.
THEOREM RemapRenamesNoPin ==
  ASSUME PowerPinsInPlace, NamesDistinct
  PROVE  Spec => PinsKeepNames
<1> DEFINE Kept == \A c \in Created : \A i \in DOMAIN index[c] :
                     PinName(c, i)' = PinName(c, i)
<1>1. IInv /\ [Next]_vars => IInv' /\ [Kept]_vars
  BY NextKeepsIInv
<1>2. Spec => [][Kept]_vars
  BY <1>1, InitIInv, PTL DEF Spec
<1> QED BY <1>2 DEF PinsKeepNames

=============================================================================
