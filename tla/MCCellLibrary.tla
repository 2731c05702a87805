---------------------------- MODULE MCCellLibrary ----------------------------
\* Three library cells with the pins A, B, Y and VDD that remap exchanges for
\* one another: "nand", "nandPerm" and "nandRot" list A, B and Y, and their
\* arcs, in different orders.  remap refuses "other", which has the pin C in
\* place of B, and "oneArc", which lacks an arc; createLibraryCell refuses the
\* pin of "inout".  These cells list their power pin VDD last; "powerFirst" has
\* the interface of "nand" and lists it first.
EXTENDS CellLibrary, TLC

CONSTANTS c1, c2

MCCells == {c1, c2}

MCLibraryCells == {"nand", "nandPerm", "nandRot", "other", "oneArc", "inout"}

MCPowerFirst == {"nand", "powerFirst"}

Pin(name, direction) == [name |-> name, direction |-> direction, use |-> "SIGNAL"]

VDD == [name |-> "VDD", direction |-> "IN", use |-> "POWER"]

Arc(from, to) == [from |-> from, to |-> to]

MCDscp == [l \in MCLibraryCells \cup MCPowerFirst |->
  CASE l = "nand"     -> [pins |-> <<Pin("A", "IN"), Pin("B", "IN"), Pin("Y", "OUT"), VDD>>,
                          arcs |-> <<Arc("A", "Y"), Arc("B", "Y")>>]
    [] l = "nandPerm" -> [pins |-> <<Pin("B", "IN"), Pin("A", "IN"), Pin("Y", "OUT"), VDD>>,
                          arcs |-> <<Arc("A", "Y"), Arc("B", "Y")>>]
    [] l = "nandRot"  -> [pins |-> <<Pin("Y", "OUT"), Pin("A", "IN"), Pin("B", "IN"), VDD>>,
                          arcs |-> <<Arc("B", "Y"), Arc("A", "Y")>>]
    [] l = "other"    -> [pins |-> <<Pin("A", "IN"), Pin("C", "IN"), Pin("Y", "OUT"), VDD>>,
                          arcs |-> <<Arc("A", "Y"), Arc("C", "Y")>>]
    [] l = "oneArc"   -> [pins |-> <<Pin("A", "IN"), Pin("B", "IN"), Pin("Y", "OUT"), VDD>>,
                          arcs |-> <<Arc("A", "Y")>>]
    [] l = "powerFirst" -> [pins |-> <<VDD, Pin("A", "IN"), Pin("B", "IN"), Pin("Y", "OUT")>>,
                            arcs |-> <<Arc("A", "Y"), Arc("B", "Y")>>]
    [] l = "inout"    -> [pins |-> <<Pin("A", "INOUT")>>, arcs |-> <<>>]]

MCSymmetry == Permutations(MCCells)

=============================================================================
