-------------------------------- MODULE Jezz --------------------------------
(***************************************************************************)
(* The row legalizer (x/jezz): every placement row is a doubly linked list *)
(* of cells, obstacles and whitespaces that cover its sites without gap,   *)
(* and cells are inserted by pushing their neighbours into the whitespaces *)
(* on either side.  Infrastructure::moveCell moves a cell and puts it back *)
(* when the move fails; a stored solution is restored node by node.        *)
(*                                                                         *)
(* An insertion first counts how far the neighbours can give way           *)
(* (jezz_AdjustShiftingCostToSide) and then moves them                     *)
(* (jezz_AdjustPositionConsolidate); both walk the list, one node per      *)
(* step here, and the second tells the rest of the program about each cell *)
(* while the row is half moved.  Costs only choose among the possible      *)
(* splits of the shift, and any of them may be taken here; likewise any    *)
(* row with room.                                                          *)
(***************************************************************************)
EXTENDS Integers, FiniteSets

CONSTANTS
  Cells, Obstacles, Spaces,  \* JezzNodes; Spaces are the whitespace nodes
  Rows,        \* JezzRows, also their root nodes
  Sites,       \* clsJezzNumSites
  Widths,      \* Widths[c]: widths of the library cells c may have
  Block,       \* Block[o]: row, x and w of an obstacle, after merging
  Id,          \* place in the loops over nodes, where obstacles come first
  Filler,      \* Filler[r]: the whitespace node jezz_InitRows puts in r
  Late,        \* cells that are created after the start
  EditsAfterStore, \* whether cells may be created or remapped after a store
  Targets,     \* positions cells are sent to
  None         \* the null pointer

Nodes == Cells \cup Obstacles \cup Spaces \cup Rows
Placed == Cells \cup Obstacles
Barriers == Obstacles \cup Rows   \* JezzNodeGuts::isFixed

ASSUME JezzAssumption ==
  /\ Cells \cap (Obstacles \cup Spaces \cup Rows) = {}
  /\ Obstacles \cap (Spaces \cup Rows) = {}
  /\ Spaces \cap Rows = {}
  /\ None \notin Nodes
  /\ Sites \in Nat \ {0}
  /\ Widths \in [Cells -> SUBSET (Nat \ {0})]
  /\ Filler \in [Rows -> Spaces]
  /\ \A q, r \in Rows : Filler[q] = Filler[r] => q = r
  /\ Id \in [Placed -> Nat]
  /\ \A m, n \in Placed : Id[m] = Id[n] => m = n
  /\ \A o \in Obstacles, c \in Cells : Id[o] < Id[c]
  /\ Late \subseteq Cells /\ EditsAfterStore \in BOOLEAN
  /\ Targets \subseteq Int

\* Obstacles lie in their row, and initJezz_Obstacles has cut overlaps away.
ASSUME BlockAssumption ==
  /\ Block \in [Obstacles -> [row : Rows, x : Nat, w : Nat \ {0}]]
  /\ \A o \in Obstacles :
       /\ Block[o].x + Block[o].w <= Sites
       /\ \A b \in Obstacles \ {o} :
            Block[b].row = Block[o].row =>
              \/ Block[b].x + Block[b].w <= Block[o].x
              \/ Block[o].x + Block[o].w <= Block[b].x

VARIABLES
  prev, next, x, w, row,  \* the fields of every node
  created,   \* cells with a JezzNode
  stored,    \* clsJezzStoredSolution: x, w and row of the cells when stored
  pc,        \* where the call in progress is
  job,       \* which call it is
  todo,      \* where each node still to be inserted shall go
  node,      \* jezzNode, the node being inserted
  ref,       \* jezzReferenceNode
  dir, at, over,  \* the walk: direction, node in the way, overflow
  lack,      \* sites the walk to the left did not find
  toRight,   \* offsetToRight
  failed,    \* an insertion of this call overflowed
  was        \* row and x of every node when the call began

list == <<prev, next, x, w, row>>
walk == <<node, ref, dir, at, over, lack, toRight>>
call == <<pc, job, todo, failed, was>>
vars == <<list, walk, call, created, stored>>

Smaller(i, j) == IF i < j THEN i ELSE j

End(n) == x[n] + w[n]

Link(d, n) == IF d = "HEAD" THEN prev[n] ELSE next[n]

\* jezz_dp_IsLegalized
Legalized(n) == row[n] # None

\* A node is to be inserted at x, in one of the rows.
Goal(rows, t) == [rows |-> rows, x |-> t]

Free == {s \in Spaces : row[s] = None}

\* n is the node a loop over S visits first.
First(n, S) == n \in S /\ \A m \in S : Id[n] <= Id[m]

Without(f, n) == [m \in DOMAIN f \ {n} |-> f[m]]

-----------------------------------------------------------------------------
(***************************************************************************)
(* Removing a node.                                                        *)
(***************************************************************************)

\* Slip in RemoveNode: the whitespace on the left takes the sites of the node
\* whatever follows, so that two whitespaces may meet.
RemoveNodeToLeft(c, nw) ==
  \/ ~Legalized(c) /\ UNCHANGED list
  \/ /\ Legalized(c) /\ prev[c] \in Spaces
     /\ w' = [w EXCEPT ![prev[c]] = @ + w[c], ![c] = nw]
     /\ x' = [x EXCEPT ![c] = 0]
     /\ next' = [next EXCEPT ![prev[c]] = next[c], ![c] = None]
     /\ prev' = [prev EXCEPT ![next[c]] = prev[c], ![c] = None]
     /\ row' = [row EXCEPT ![c] = None]

\* jezz_dp_RemoveNode; the caller then gives c the width nw.  The x of a node in
\* no row is not read before it is set again: it is 0 here, and the position a
\* node is to be inserted at is kept with it in todo.
RemoveNode(c, nw) ==
  LET p == prev[c]
      n == next[c]
  IN
  \/ /\ ~Legalized(c)
     /\ w' = [w EXCEPT ![c] = nw]
     /\ UNCHANGED <<prev, next, x, row>>
  \/ /\ Legalized(c) /\ p \in Spaces /\ n \in Spaces
     /\ w' = [w EXCEPT ![p] = @ + w[c] + w[n], ![n] = 0, ![c] = nw]
     /\ x' = [x EXCEPT ![n] = 0, ![c] = 0]
     /\ next' = [next EXCEPT ![p] = next[n], ![n] = None, ![c] = None]
     /\ prev' = [prev EXCEPT ![next[n]] = p, ![n] = None, ![c] = None]
     /\ row' = [row EXCEPT ![n] = None, ![c] = None]
  \/ /\ Legalized(c) /\ p \in Spaces /\ n \notin Spaces
     /\ w' = [w EXCEPT ![p] = @ + w[c], ![c] = nw]
     /\ x' = [x EXCEPT ![c] = 0]
     /\ next' = [next EXCEPT ![p] = n, ![c] = None]
     /\ prev' = [prev EXCEPT ![n] = p, ![c] = None]
     /\ row' = [row EXCEPT ![c] = None]
  \/ /\ Legalized(c) /\ p \notin Spaces /\ n \in Spaces
     /\ w' = [w EXCEPT ![n] = @ + w[c], ![c] = nw]
     /\ x' = [x EXCEPT ![n] = x[c], ![c] = 0]
     /\ next' = [next EXCEPT ![p] = n, ![c] = None]
     /\ prev' = [prev EXCEPT ![n] = p, ![c] = None]
     /\ row' = [row EXCEPT ![c] = None]
  \/ /\ Legalized(c) /\ p \notin Spaces /\ n \notin Spaces
     /\ \E s \in Free :
          /\ w' = [w EXCEPT ![s] = w[c], ![c] = nw]
          /\ x' = [x EXCEPT ![s] = x[c], ![c] = 0]
          /\ next' = [next EXCEPT ![p] = s, ![s] = n, ![c] = None]
          /\ prev' = [prev EXCEPT ![n] = s, ![s] = p, ![c] = None]
          /\ row' = [row EXCEPT ![s] = row[c], ![c] = None]

-----------------------------------------------------------------------------
(***************************************************************************)
(* The calls, each made when no other is in progress.                      *)
(***************************************************************************)

Idle == pc = "idle"

\* A call that inserts nodes begins; was remembers the rows as they are.
Begin(j, start, nodes) ==
  /\ pc' = start /\ job' = j /\ todo' = nodes /\ failed' = FALSE
  /\ was' = [n \in Placed |-> [row |-> row[n], x |-> x[n]]]

\* A cell is inserted, after being removed if it is in a row: at a place of one
\* row (jezz_dp_InsertNode), in whichever row has room (jezz_LegalizeNode, which
\* jezz_Legalize calls for one cell after the other), or where a whitespace
\* holds it.  moveCell does any of the three.  jezz_LegalizeNode itself removes
\* nothing: jezz_Legalize passes it cells in no row and moveCell removes first.
\* The script command legalizeCell does neither; that call on a cell that is in
\* a row is left out.
Insert(c, rows, t, j) ==
  /\ Idle /\ c \in created
  /\ RemoveNode(c, w[c])
  /\ Begin(j, "next", [n \in {c} |-> Goal(rows, t)])
  /\ UNCHANGED <<walk, created, stored>>

\* jezz_dp_RemoveNode, Infrastructure::unlegalizeCell and onPostInstanceMove.
Remove(c) ==
  /\ Idle /\ c \in created /\ Legalized(c)
  /\ RemoveNode(c, w[c])
  /\ UNCHANGED <<walk, call, created, stored>>

\* onPostCellRemap
Remap(c, k) ==
  /\ Idle /\ c \in created /\ k # w[c]
  /\ EditsAfterStore \/ stored = <<>>
  /\ RemoveNode(c, k)
  /\ UNCHANGED <<walk, call, created, stored>>

\* onPostInstanceCreate
Create(c, k) ==
  /\ Idle /\ c \in Cells \ created
  /\ EditsAfterStore \/ stored = <<>>
  /\ created' = created \cup {c}
  /\ w' = [w EXCEPT ![c] = k]
  /\ UNCHANGED <<prev, next, x, row, walk, call, stored>>

\* jezz_storeSolution
StoreSolution ==
  /\ Idle
  /\ stored' = [c \in created |-> [row |-> row[c], x |-> x[c], w |-> w[c]]]
  /\ UNCHANGED <<list, walk, call, created>>

-----------------------------------------------------------------------------
(***************************************************************************)
(* Empty rows, and restoring a stored solution.                            *)
(***************************************************************************)

\* The whitespace that fills a row, or the row it fills (jezz_InitRows).
Opposite(n) ==
  IF n \in Rows THEN Filler[n]
  ELSE IF \E r \in Rows : Filler[r] = n THEN CHOOSE r \in Rows : Filler[r] = n
  ELSE None

\* jezz_DeleteWhitespaceNodes and jezz_InitRows
InitRow(n) ==
  IF n \in Rows THEN n ELSE IF Opposite(n) \in Rows THEN Opposite(n) ELSE None
InitWidth(n) == IF n \in Spaces /\ Opposite(n) \in Rows THEN Sites ELSE 0

\* jezz_restoreSolutionFull: obstacles and stored cells are unlinked and will
\* be inserted where they were; a cell without stored copy is left alone.
RestoreSolutionFull ==
  /\ Idle /\ stored # <<>>
  /\ LET kept == created \ DOMAIN stored
         lost == Placed \ kept
     IN  /\ prev' = [n \in Nodes |-> IF n \in kept THEN prev[n] ELSE Opposite(n)]
         /\ next' = [n \in Nodes |-> IF n \in kept THEN next[n] ELSE Opposite(n)]
         /\ row' = [n \in Nodes |-> IF n \in kept THEN row[n]
                                    ELSE IF n \in lost THEN None ELSE InitRow(n)]
         /\ w' = [n \in Nodes |-> IF n \in Placed THEN w[n] ELSE InitWidth(n)]
         /\ x' = [n \in Nodes |-> IF n \in kept THEN x[n] ELSE 0]
  /\ Begin("restore", "next",
       [n \in {o \in Obstacles : Legalized(o)}
                \cup {c \in DOMAIN stored : stored[c].row # None} |->
          IF n \in Obstacles THEN Goal({row[n]}, x[n])
          ELSE Goal({stored[n].row}, stored[n].x)])
  /\ UNCHANGED <<walk, created, stored>>

\* jezz_restoreSolutionIncremental: first every stored cell is compared...
RestoreSolutionIncremental ==
  /\ Idle /\ stored # <<>>
  /\ Begin("restore", "compare", [c \in DOMAIN stored |-> Goal({}, stored[c].x)])
  /\ UNCHANGED <<list, walk, created, stored>>

\* Slip in Compare: a cell that is in the same row as stored is kept.
CompareRows(c) ==
  /\ pc = "compare"
  /\ First(c, {k \in DOMAIN todo : todo[k].rows = {}})
  /\ \/ /\ row[c] = stored[c].row
        /\ todo' = Without(todo, c)
        /\ UNCHANGED list
     \/ /\ row[c] # stored[c].row
        /\ RemoveNode(c, w[c])
        /\ todo' = IF stored[c].row = None THEN Without(todo, c)
                   ELSE [todo EXCEPT ![c].rows = {stored[c].row}]
  /\ UNCHANGED <<walk, pc, job, failed, was, created, stored>>

\* ... removed when it is not where it was stored, and marked for insertion;
Compare(c) ==
  /\ pc = "compare"
  /\ First(c, {k \in DOMAIN todo : todo[k].rows = {}})
  /\ \/ /\ x[c] = stored[c].x /\ row[c] = stored[c].row
        /\ todo' = Without(todo, c)
        /\ UNCHANGED list
     \/ /\ x[c] # stored[c].x \/ row[c] # stored[c].row
        /\ RemoveNode(c, w[c])
        /\ todo' = IF stored[c].row = None THEN Without(todo, c)
                   ELSE [todo EXCEPT ![c].rows = {stored[c].row}]
  /\ UNCHANGED <<walk, pc, job, failed, was, created, stored>>

\* ... then the marked cells are inserted.
CompareEnds ==
  /\ pc = "compare" /\ \A c \in DOMAIN todo : todo[c].rows # {}
  /\ pc' = "next"
  /\ UNCHANGED <<list, walk, job, todo, failed, was, created, stored>>

-----------------------------------------------------------------------------
(***************************************************************************)
(* jezz_InsertNode.                                                        *)
(***************************************************************************)

\* jezz_FindOverlappingNode: the root left of the row, the tail right of it.
Overlapping(r, t) ==
  IF t < 0 THEN {r}
  ELSE IF t >= Sites THEN {prev[r]}
  ELSE {m \in Nodes \ Rows : row[m] = r /\ x[m] <= t /\ t < End(m)}

Abs(i) == IF i < 0 THEN -i ELSE i

\* The node to insert after: left of an obstacle whose left end is nearer.  The
\* root, which is fixed and has no width, stays: a node sent left of the row goes
\* before the head.
Reference(m, t) ==
  IF m \in Barriers /\ Abs(x[m] - t) < Abs(End(m) - t) /\ prev[m] \notin Rows
  THEN prev[m] ELSE m

References(n, r) ==
  {Reference(m, todo[n].x) : m \in Overlapping(r, todo[n].x)}

\* m is a whitespace that encloses the node to insert.
Holds(m, n) ==
  m \in Spaces /\ x[m] <= todo[n].x /\ todo[n].x + w[n] <= End(m)

\* n is the next node to insert.
Turn(n, r) == pc = "next" /\ First(n, DOMAIN todo) /\ r \in todo[n].rows

\* n takes its place in the whitespace m; what is left of m on the right goes to
\* a new whitespace s, and a whitespace of width 0 goes.
SplitWhitespace(m, n, s) ==
  LET left == todo[n].x - x[m]
      right == End(m) - (todo[n].x + w[n])
      before == IF left = 0 THEN prev[m] ELSE m
      after == IF right = 0 THEN next[m] ELSE s
  IN  /\ prev' = [prev EXCEPT ![next[m]] = IF right = 0 THEN n ELSE s,
                              ![m] = IF left = 0 THEN None ELSE @,
                              ![s] = IF right = 0 THEN None ELSE n,
                              ![n] = before]
      /\ next' = [next EXCEPT ![prev[m]] = IF left = 0 THEN n ELSE m,
                              ![m] = IF left = 0 THEN None ELSE n,
                              ![s] = IF right = 0 THEN None ELSE next[m],
                              ![n] = after]
      /\ row' = [row EXCEPT ![n] = row[m],
                            ![s] = IF right = 0 THEN None ELSE row[m],
                            ![m] = IF left = 0 THEN None ELSE @]
      /\ w' = [w EXCEPT ![m] = left, ![s] = right]
      /\ x' = [x EXCEPT ![m] = IF left = 0 THEN 0 ELSE @,
                        ![s] = IF right = 0 THEN 0 ELSE todo[n].x + w[n],
                        ![n] = todo[n].x]

\* The node fits into a whitespace.
Enclose(n, r) ==
  /\ Turn(n, r)
  /\ \E m \in References(n, r), s \in Free :
       Holds(m, n) /\ SplitWhitespace(m, n, s)
  /\ todo' = Without(todo, n)
  /\ node' = n
  /\ UNCHANGED <<ref, dir, at, over, lack, toRight, pc, job, failed, was, created,
                 stored>>

\* Its neighbours must give way: walk to the left first.
Approach(n, r) ==
  /\ Turn(n, r) /\ job # "insertInSpace"
  /\ \E m \in References(n, r) : ~Holds(m, n) /\ ref' = m /\ at' = m
  /\ node' = n /\ dir' = "HEAD" /\ over' = w[n]
  /\ pc' = "count"
  /\ UNCHANGED <<list, lack, toRight, job, todo, failed, was, created, stored>>

\* No room in row r; a call that may use several rows tries the next one.
Overflow(n, r) ==
  /\ pc' = "next"
  /\ IF todo[n].rows = {r}
     THEN todo' = Without(todo, n) /\ failed' = TRUE
     ELSE todo' = [todo EXCEPT ![n].rows = @ \ {r}] /\ failed' = failed
  /\ UNCHANGED <<job, was>>

\* findNearestValidWhitespaceToPlaceCell finds no whitespace that holds n.
NoWhitespace(n, r) ==
  /\ Turn(n, r)
  /\ \A m \in References(n, r) : job = "insertInSpace" /\ ~Holds(m, n)
  /\ Overflow(n, r)
  /\ node' = n
  /\ UNCHANGED <<list, ref, dir, at, over, lack, toRight, created, stored>>

WalkEnds == over = 0 \/ at \in Barriers

\* Slip in Count: a whitespace counts with its whole width.
CountWhole ==
  /\ pc = "count" /\ ~WalkEnds
  /\ over' = IF at \in Spaces THEN over - w[at] ELSE over
  /\ at' = Link(dir, at)
  /\ UNCHANGED <<list, node, ref, dir, lack, toRight, call, created, stored>>

\* One node of jezz_AdjustShiftingCostToSide.
Count ==
  /\ pc = "count" /\ ~WalkEnds
  /\ over' = IF at \in Spaces THEN over - Smaller(w[at], over) ELSE over
  /\ at' = Link(dir, at)
  /\ UNCHANGED <<list, node, ref, dir, lack, toRight, call, created, stored>>

\* Having walked to the left, count to the right.
CountRight ==
  /\ pc = "count" /\ WalkEnds /\ dir = "HEAD"
  /\ lack' = over
  /\ dir' = "TAIL" /\ at' = next[ref] /\ over' = w[node]
  /\ UNCHANGED <<list, node, ref, toRight, call, created, stored>>

Counted == pc = "count" /\ WalkEnds /\ dir = "TAIL"

ClearWalk ==
  /\ ref' = None /\ dir' = "HEAD" /\ at' = None
  /\ over' = 0 /\ lack' = 0 /\ toRight' = 0

\* Both sides together have too few free sites.
NoRoom ==
  /\ Counted /\ lack + over > w[node]
  /\ Overflow(node, row[ref])
  /\ ClearWalk
  /\ UNCHANGED <<list, node, created, stored>>

\* The node is linked in, and k sites are to be taken from the left.
LinkNode ==
  /\ Counted /\ lack + over <= w[node]
  /\ next' = [next EXCEPT ![ref] = node, ![node] = next[ref]]
  /\ prev' = [prev EXCEPT ![next[ref]] = node, ![node] = ref]
  /\ row' = [row EXCEPT ![node] = row[ref]]
  /\ \E k \in over .. w[node] - lack : over' = k /\ toRight' = w[node] - k
  /\ dir' = "HEAD" /\ at' = ref /\ lack' = 0
  /\ pc' = "shift"
  /\ UNCHANGED <<x, w, node, ref, job, todo, failed, was, created, stored>>

\* Slip in ShiftCell: cells on the left are moved to the right, too.
ShiftCellRight ==
  /\ pc = "shift" /\ ~WalkEnds /\ at \in Cells
  /\ x' = [x EXCEPT ![at] = @ + over]
  /\ at' = Link(dir, at)
  /\ UNCHANGED <<prev, next, w, row, node, ref, dir, over, lack, toRight, call,
                 created, stored>>

\* One node of jezz_AdjustPositionConsolidate: a cell is moved,
ShiftCell ==
  /\ pc = "shift" /\ ~WalkEnds /\ at \in Cells
  /\ x' = [x EXCEPT ![at] = IF dir = "HEAD" THEN @ - over ELSE @ + over]
  /\ at' = Link(dir, at)
  /\ UNCHANGED <<prev, next, w, row, node, ref, dir, over, lack, toRight, call,
                 created, stored>>

\* ... a wide whitespace gives up the sites still needed,
ShrinkWhitespace ==
  /\ pc = "shift" /\ ~WalkEnds /\ at \in Spaces /\ w[at] > over
  /\ w' = [w EXCEPT ![at] = @ - over]
  /\ x' = [x EXCEPT ![at] = IF dir = "HEAD" THEN @ ELSE @ + over]
  /\ over' = 0
  /\ at' = Link(dir, at)
  /\ UNCHANGED <<prev, next, row, node, ref, dir, lack, toRight, call, created,
                 stored>>

\* Slip in UseUpWhitespace: a whitespace without sites stays in the row.
LeaveEmptyWhitespace ==
  /\ pc = "shift" /\ ~WalkEnds /\ at \in Spaces /\ w[at] <= over
  /\ w' = [w EXCEPT ![at] = 0]
  /\ over' = over - w[at]
  /\ at' = Link(dir, at)
  /\ UNCHANGED <<prev, next, x, row, node, ref, dir, lack, toRight, call, created,
                 stored>>

\* ... and a narrow one all it has (jezz_RemoveZeroLengthWhitespace).
UseUpWhitespace ==
  /\ pc = "shift" /\ ~WalkEnds /\ at \in Spaces /\ w[at] <= over
  /\ next' = [next EXCEPT ![prev[at]] = next[at], ![at] = None]
  /\ prev' = [prev EXCEPT ![next[at]] = prev[at], ![at] = None]
  /\ row' = [row EXCEPT ![at] = None]
  /\ w' = [w EXCEPT ![at] = 0]
  /\ x' = [x EXCEPT ![at] = 0]
  /\ over' = over - w[at]
  /\ at' = Link(dir, at)
  /\ UNCHANGED <<node, ref, dir, lack, toRight, call, created, stored>>

ShiftRight ==
  /\ pc = "shift" /\ WalkEnds /\ dir = "HEAD"
  /\ dir' = "TAIL" /\ at' = next[node] /\ over' = toRight
  /\ UNCHANGED <<list, node, ref, lack, toRight, call, created, stored>>

\* Room is made: the node starts where its left neighbour ends.
Settle ==
  /\ pc = "shift" /\ WalkEnds /\ dir = "TAIL"
  /\ x' = [x EXCEPT ![node] = End(prev[node])]
  /\ todo' = Without(todo, node)
  /\ pc' = "next"
  /\ ClearWalk
  /\ UNCHANGED <<prev, next, w, row, node, job, failed, was, created, stored>>

-----------------------------------------------------------------------------
(***************************************************************************)
(* The end of a call.                                                      *)
(***************************************************************************)

CallEnds == pc = "next" /\ DOMAIN todo = {}

Insertions == {"insert", "insertInSpace"}

\* Slip in Rollback: the position is read after the move was tried.
RollbackLate ==
  /\ CallEnds /\ job \in Insertions /\ was[node].row # None
  /\ failed \/ job = "insertInSpace"
  /\ RemoveNode(node, w[node])
  /\ todo' = [n \in {node} |-> Goal({was[node].row}, x[node])]
  /\ job' = "rollback" /\ failed' = FALSE
  /\ UNCHANGED <<walk, pc, was, created, stored>>

\* A move that failed, or that went too far (violateMaxDisplacement), is undone
\* by inserting the cell where it was: moveCell, if its caller asked for it.
Rollback ==
  /\ CallEnds /\ job \in Insertions /\ was[node].row # None
  /\ failed \/ job = "insertInSpace"
  /\ RemoveNode(node, w[node])
  /\ todo' = [n \in {node} |-> Goal({was[node].row}, was[node].x)]
  /\ job' = "rollback" /\ failed' = FALSE
  /\ UNCHANGED <<walk, pc, was, created, stored>>

Return ==
  /\ CallEnds
  /\ pc' = "idle" /\ job' = "none" /\ failed' = FALSE /\ was' = <<>>
  /\ node' = None
  /\ UNCHANGED <<list, ref, dir, at, over, lack, toRight, todo, created, stored>>

-----------------------------------------------------------------------------

\* initJezz: empty rows, into which the obstacles are then inserted.
Init ==
  /\ created = Cells \ Late
  /\ prev = [n \in Nodes |-> Opposite(n)]
  /\ next = prev
  /\ row = [n \in Nodes |-> InitRow(n)]
  /\ x = [n \in Nodes |-> 0]
  /\ \E width \in [Cells -> UNION {Widths[c] : c \in Cells}] :
       /\ \A c \in Cells : width[c] \in Widths[c]
       /\ w = [n \in Nodes |-> IF n \in created THEN width[n]
                               ELSE IF n \in Obstacles THEN Block[n].w
                               ELSE InitWidth(n)]
  /\ stored = <<>>
  /\ pc = "next" /\ job = "start" /\ failed = FALSE
  /\ todo = [o \in Obstacles |-> Goal({Block[o].row}, Block[o].x)]
  /\ was = <<>>
  /\ node = None /\ ref = None /\ dir = "HEAD" /\ at = None
  /\ over = 0 /\ lack = 0 /\ toRight = 0

Calls ==
  \/ \E c \in Cells, t \in Targets :
       \/ \E r \in Rows : Insert(c, {r}, t, "insert")
       \/ Insert(c, Rows, t, "insert")
       \/ Insert(c, Rows, t, "insertInSpace")
  \/ \E c \in Cells :
       \/ Remove(c)
       \/ \E k \in Widths[c] : Remap(c, k) \/ Create(c, k)
  \/ StoreSolution
  \/ RestoreSolutionFull
  \/ RestoreSolutionIncremental

Steps ==
  \/ \E c \in Cells : Compare(c)
  \/ CompareEnds
  \/ \E n \in Placed, r \in Rows :
       Enclose(n, r) \/ Approach(n, r) \/ NoWhitespace(n, r)
  \/ Count \/ CountRight
  \/ NoRoom \/ LinkNode
  \/ ShiftCell \/ ShrinkWhitespace \/ UseUpWhitespace
  \/ ShiftRight \/ Settle
  \/ Rollback \/ Return

Next == Calls \/ Steps

Spec == Init /\ [][Next]_vars

-----------------------------------------------------------------------------

\* A free whitespace or an unlegalized cell has null links and a null row, and
\* the counters of a walk (overflow, offsetToRight) never go below 0.
TypeOK ==
  /\ prev \in [Nodes -> Nodes \cup {None}]
  /\ next \in [Nodes -> Nodes \cup {None}]
  /\ row \in [Nodes -> Rows \cup {None}]
  /\ x \in [Nodes -> Int]
  /\ w \in [Nodes -> Nat]
  /\ created \in SUBSET Cells
  /\ DOMAIN stored \subseteq created
  /\ \A c \in DOMAIN stored :
       stored[c] \in [row : Rows \cup {None}, x : Int, w : Nat]
  /\ pc \in {"idle", "compare", "next", "count", "shift"}
  /\ job \in {"none", "start", "restore", "rollback"} \cup Insertions
  /\ failed \in BOOLEAN
  /\ DOMAIN todo \subseteq Placed
  /\ \A n \in DOMAIN todo : todo[n] \in [rows : SUBSET Rows, x : Int]
  /\ was = <<>> \/ was \in [Placed -> [row : Rows \cup {None}, x : Int]]
  /\ node \in Placed \cup {None}
  /\ {ref, at} \subseteq Nodes \cup {None}
  /\ dir \in {"HEAD", "TAIL"}
  /\ {over, lack, toRight} \subseteq Nat

\* Neighbours in row r: the links agree both ways and stay in the row, there
\* is no gap and no overlap, and no two whitespaces meet.
Joined(m, n, r) ==
  /\ prev[n] = m
  /\ row[n] = r
  /\ IF n \in Rows THEN End(m) = Sites ELSE x[n] = End(m)
  /\ m \notin Spaces \/ n \notin Spaces

\* In every state, also while an insertion is moving cells and its callbacks run,
\* each row is one doubly linked list of nodes of that row: no link leads out of
\* it, none into a node that was taken out, and whitespaces neither meet nor stay
\* behind with no site.
RowsLinked ==
  /\ \A r \in Rows : row[r] = r
  /\ \A n \in Nodes : row[n] # None =>
       /\ next[n] \in Nodes /\ row[next[n]] = row[n] /\ prev[next[n]] = n
       /\ prev[n] \in Nodes /\ row[prev[n]] = row[n] /\ next[prev[n]] = n
       /\ n \in Spaces => next[n] \notin Spaces
       /\ n \notin Rows => w[n] > 0

\* Between two insertions every node that is in a row is linked into that row,
\* and the nodes of a row cover its sites exactly, from the root to the root:
\* what jezz_CheckRowConsistency tests in both directions, and what each walk
\* of an insertion relies on.
RowsConsistent ==
  pc \in {"idle", "next", "compare"} =>
    \A n \in Nodes :
      row[n] # None =>
        /\ n \notin Rows => w[n] > 0
        /\ next[n] \in Nodes /\ Joined(n, next[n], row[n])
        /\ prev[n] \in Nodes /\ next[prev[n]] = n

\* Making room for a cell neither takes another cell out of its row nor moves
\* one past another or past an obstacle, and an obstacle stays where it is; an
\* insertion that fails leaves every other cell in place.
OthersKeepOrder ==
  CallEnds /\ job \in {"rollback"} \cup Insertions =>
    LET others == Placed \ {node}
    IN  /\ \A n \in others : row[n] = was[n].row
        /\ \A o \in Obstacles : x[o] = was[o].x
        /\ \A m, n \in others :
             row[m] # None /\ row[m] = row[n] /\ was[m].x < was[n].x =>
               x[m] < x[n]
        /\ failed => \A n \in others : Legalized(n) => x[n] = was[n].x

\* A move that is rolled back leaves every cell exactly where it was before the
\* move: the cell finds room (moveCell ends the program when it does not), and
\* at its old place, whatever the failed attempt did to the row.
RollbackExact ==
  CallEnds /\ job = "rollback" =>
    /\ ~failed
    /\ \A n \in Placed :
         row[n] = was[n].row /\ (Legalized(n) => x[n] = was[n].x)

\* Restoring a solution, in full or incrementally, puts every cell back where it
\* was stored, wherever the cells are now: no insertion overflows and none
\* pushes a node that was restored before it.
RestoreExact ==
  CallEnds /\ job = "restore" =>
    /\ ~failed
    /\ \A c \in DOMAIN stored : row[c] = stored[c].row /\ x[c] = stored[c].x

\* The k-th node from the root r on, stopping at a null link.
Following(r, k) ==
  LET nth[i \in 0 .. k] ==
        IF i = 0 THEN r
        ELSE IF nth[i - 1] = None THEN None ELSE next[nth[i - 1]]
  IN  nth[k]

\* The walk from head to tail comes back to the root, having met every site.
CheckRowConsistency(r) ==
  \E k \in 1 .. Sites + 1 :
    /\ Following(r, k) = r
    /\ \A i \in 1 .. k - 1 : Following(r, i) # r
    /\ \A i \in 1 .. k : Following(r, i) # None
                         /\ Joined(Following(r, i - 1), Following(r, i), r)

\* Between two calls every row passes jezz_CheckRowConsistency, as the asserts
\* of jezz_StressTest expect after every removal and insertion.  It fails once a
\* cell that was created after the stored solution is removed: the full restore
\* has left the cell its row and its links into the whitespaces of old.
RowsPassCheck == Idle => \A r \in Rows : CheckRowConsistency(r)
=============================================================================
