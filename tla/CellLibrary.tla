----------------------------- MODULE CellLibrary -----------------------------
(***************************************************************************)
(* Library cells, the cells made from them and Design::remap, which swaps  *)
(* the library cell of a placed and wired cell for another one with the    *)
(* same interface (rsyn/core/obj/impl/Design.h).                           *)
(*                                                                         *)
(* A cell keeps its pin objects and its arc objects across a remap; what   *)
(* changes is the index that leads from each pin to its library pin and    *)
(* the library arc behind each arc.  Nothing else in Rsyn re-derives them, *)
(* so a chain of remaps must never let a pin drift to another library pin. *)
(***************************************************************************)
EXTENDS Integers, Sequences, FiniteSets

CONSTANTS
  Cells,
  LibraryCells,
  NoLibraryCell,  \* the null library cell
  Dscp            \* Dscp[l]: the CellDescriptor of library cell l, a record
                  \*   pins: sequence of [name, direction, use]
                  \*   arcs: sequence of [from, to], two pin names

ASSUME CellLibraryAssumption ==
  /\ NoLibraryCell \notin LibraryCells
  /\ \A l \in LibraryCells :
       /\ Dscp[l].pins \in Seq({Dscp[l].pins[i] : i \in DOMAIN Dscp[l].pins})
       /\ Dscp[l].arcs \in Seq({Dscp[l].arcs[k] : k \in DOMAIN Dscp[l].arcs})
       /\ \A k \in DOMAIN Dscp[l].arcs :
            Dscp[l].arcs[k] = [from |-> Dscp[l].arcs[k].from,
                               to   |-> Dscp[l].arcs[k].to]

VARIABLES
  library,        \* library cells created so far
  lcell,          \* InstanceData::lcell
  index,          \* index[c][i]: PinData::index of the i-th pin of cell c
  arcs            \* arcs[c][k]: from and to, positions of pins of c, and
                  \*   library, the library arc: <<library cell, arc index>>

vars == <<library, lcell, index, arcs>>

-----------------------------------------------------------------------------

PinNames(l) == {Dscp[l].pins[i].name : i \in DOMAIN Dscp[l].pins}

PinDirection(l, name) ==
  (CHOOSE p \in {Dscp[l].pins[i] : i \in DOMAIN Dscp[l].pins} :
     p.name = name).direction

\* CellDescriptor::checkConsistency.
Consistent(l) ==
  /\ \A i \in DOMAIN Dscp[l].pins : Dscp[l].pins[i].direction \in {"IN", "OUT"}
  /\ \A k \in DOMAIN Dscp[l].arcs :
       LET arc == Dscp[l].arcs[k]
       IN  /\ arc.from \in PinNames(l) /\ PinDirection(l, arc.from) = "IN"
           /\ arc.to \in PinNames(l) /\ PinDirection(l, arc.to) = "OUT"

\* LibraryCell::getLibraryPinByName: the first match.
PinByName(l, name) ==
  CHOOSE i \in DOMAIN Dscp[l].pins :
    /\ Dscp[l].pins[i].name = name
    /\ \A j \in 1 .. i - 1 : Dscp[l].pins[j].name # name

\* LibraryCell::getLibraryArcByPinNames: the first match.
ArcByNames(l, arc) ==
  CHOOSE k \in DOMAIN Dscp[l].arcs :
    /\ Dscp[l].arcs[k] = arc
    /\ \A j \in 1 .. k - 1 : Dscp[l].arcs[j] # arc

IsPowerOrGround(l, i) == Dscp[l].pins[i].use \in {"POWER", "GROUND"}

\* The checks of remap, all made before anything changes.
Compatible(old, new) ==
  /\ Len(Dscp[old].arcs) = Len(Dscp[new].arcs)
  /\ Len(Dscp[old].pins) = Len(Dscp[new].pins)
  /\ PinNames(old) \subseteq PinNames(new)
  /\ \A k \in DOMAIN Dscp[old].arcs :
       \E j \in DOMAIN Dscp[new].arcs : Dscp[new].arcs[j] = Dscp[old].arcs[k]

\* Slips in RemappedIndex: counting from zero; matching pins by direction;
\* keeping the index.
RemappedFromZero(old, new, i) ==
  IF IsPowerOrGround(new, i) THEN i
                             ELSE PinByName(new, Dscp[old].pins[i].name) - 1

RemappedByDirection(old, new, i) ==
  IF IsPowerOrGround(new, i) THEN i
  ELSE CHOOSE j \in DOMAIN Dscp[new].pins :
         /\ Dscp[new].pins[j].direction = Dscp[old].pins[i].direction
         /\ \A k \in 1 .. j - 1 :
              Dscp[new].pins[k].direction # Dscp[old].pins[i].direction

IndexKept(old, new, i) == i

\* The index that remap leaves in a pin whose index was i.  The loop visits
\* the pins through Instance::allPins, which skips power and ground pins, and
\* the library cell it asks is already the new one.
RemappedIndex(old, new, i) ==
  IF IsPowerOrGround(new, i) THEN i
                             ELSE PinByName(new, Dscp[old].pins[i].name)

\* Slip in RemappedArc: the position of the arc is kept.
RemappedInPlace(new, libraryArc) == <<new, libraryArc[2]>>

RemappedArc(new, libraryArc) ==
  <<new, ArcByNames(new, Dscp[libraryArc[1]].arcs[libraryArc[2]])>>

-----------------------------------------------------------------------------

Init ==
  /\ library = {}
  /\ lcell = [c \in Cells |-> NoLibraryCell]
  /\ index = [c \in Cells |-> <<>>]
  /\ arcs = [c \in Cells |-> <<>>]

\* Design::createLibraryCell: a second cell of the same name and an
\* inconsistent descriptor are refused.
CreateLibraryCell(l) ==
  /\ l \notin library
  /\ Consistent(l)
  /\ library' = library \cup {l}
  /\ UNCHANGED <<lcell, index, arcs>>

\* Design::createCell: one pin per library pin and one arc per library arc.
CreateCell(c, l) ==
  /\ lcell[c] = NoLibraryCell
  /\ l \in library
  /\ lcell' = [lcell EXCEPT ![c] = l]
  /\ index' = [index EXCEPT ![c] = [i \in DOMAIN Dscp[l].pins |-> i]]
  /\ arcs' = [arcs EXCEPT ![c] =
                [k \in DOMAIN Dscp[l].arcs |->
                   [from    |-> PinByName(l, Dscp[l].arcs[k].from),
                    to      |-> PinByName(l, Dscp[l].arcs[k].to),
                    library |-> <<l, k>>]]]
  /\ UNCHANGED library

\* Design::remap; an incompatible library cell is refused by an exception
\* that leaves the cell as it was.
Remap(c, new) ==
  LET old == lcell[c]
  IN  /\ old # NoLibraryCell
      /\ new \in library
      /\ Compatible(old, new)
      /\ lcell' = [lcell EXCEPT ![c] = new]
      /\ index' = [index EXCEPT ![c] =
                     [i \in DOMAIN @ |-> RemappedIndex(old, new, @[i])]]
      /\ arcs' = [arcs EXCEPT ![c] =
                    [k \in DOMAIN arcs[c] |->
                       [arcs[c][k] EXCEPT !.library = RemappedArc(new, @)]]]
      /\ UNCHANGED library

Next ==
  \E l \in LibraryCells :
    \/ CreateLibraryCell(l)
    \/ \E c \in Cells : CreateCell(c, l) \/ Remap(c, l)

Spec == Init /\ [][Next]_vars

-----------------------------------------------------------------------------

\* Pin::getName of the i-th pin of cell c.
PinName(c, i) == Dscp[lcell[c]].pins[index[c][i]].name

Created == {c \in Cells : lcell[c] # NoLibraryCell}

\* A cell has a created library cell, and the indices of its pins and the ends
\* of its arcs lead to pins that exist.
TypeOK ==
  /\ library \subseteq LibraryCells
  /\ lcell \in [Cells -> library \cup {NoLibraryCell}]
  /\ \A c \in Created :
       /\ index[c] \in Seq(DOMAIN Dscp[lcell[c]].pins)
       /\ \A k \in DOMAIN arcs[c] :
            /\ {arcs[c][k].from, arcs[c][k].to} \subseteq DOMAIN index[c]
            /\ arcs[c][k].library[1] \in library

\* No two pins of a cell share a library pin, however often and through
\* whatever pin orders the cell has been remapped.
PinsStayDistinct ==
  \A c \in Created : \A i, j \in DOMAIN index[c] :
    index[c][i] = index[c][j] => i = j

\* Behind each arc of a cell is an arc of its current library cell, between
\* the library pins of the very pins the arc joins (the timer reads delays
\* from the library arc and applies them between the pins).
ArcsFollowPins ==
  \A c \in Created : \A k \in DOMAIN arcs[c] :
    LET arc == arcs[c][k]
    IN  /\ arc.library[1] = lcell[c]
        /\ Dscp[lcell[c]].arcs[arc.library[2]] =
             [from |-> PinName(c, arc.from), to |-> PinName(c, arc.to)]

\* A remap between library cells with the same pin names and directions never
\* renames a pin: the net on pin A stays on pin A.
PinsKeepNames ==
  [][\A c \in Created : \A i \in DOMAIN index[c] :
       PinName(c, i)' = PinName(c, i)]_vars

=============================================================================
