# A TLA+ model of Rsyn

Rsyn is a C++ framework for physical synthesis. Programs built on it (placers,
legalizers, sizing and buffering tools) keep one design in memory, edit it, and
ask a timer and a routing estimator what each edit did. Most of the code is
numerics and file formats. The part that is hard to get right is the state that
is stored redundantly and kept up to date while the design is edited: copies of
the connectivity, an incremental topological index, dirty sets of observers, and
one small piece of real concurrency, a thread pool. These modules model that
part.

Paths below are relative to `src/rsyn/src/rsyn/` unless they start with `src/`.

## 1. Inventory

| Component | State | Operations | Where |
|---|---|---|---|
| Netlist connectivity | net of each pin; per net: pin vector, counters, cached driver; arc lists on both ends | `createNet`, `connectPin`, `disconnectPin` | `core/obj` |
| Library cells, cells, remap | library cells; per cell: library cell, pin indices, library arcs | `createLibraryCell`, `createCell`, `remap` | `core/obj`, `core/dscp` |
| Topological index | `order` and `sign` of every pin; a queue during a propagation | part of `connectPin`; read by sorted traversals | `core/obj/impl/Design.h`, `Instance.h` |
| Attributes and lists | one value per object, grown by observers | create, load default | `core/infra` |
| Session, services, readers, processes | the design, tables of running services, script paths, session observers | start service, run reader/process, evaluate script | `session`, `shell` |
| Timer | timing of pins and arcs, dirty nets and instances, flag of the full update | observer callbacks, `updateTimingFull`, `updateTimingIncremental` | `model/timing` |
| Routing estimator | kind of update each net needs, wirelength and RC tree per net, running total | observer callbacks, `updateRouting`, `updateRoutingFull`, `updateRoutingOfNet` | `model/routing` |
| RC trees, routing topologies | trees of wire segments | build, annotate | `model/routing` |
| Scenario | clock, input delays, arrival constraints, net tags | tables, two callbacks | `model/scenario` |
| Library characterizer, density grid | numerical tables | compute | `model/library`, `model/congestion` |
| Physical design | places and orientations, rows, LEF/DEF geometry | `placeCell`, move notifications | `phy` |
| Sandbox | second copy of the netlist code, without observers | as the netlist | `sandbox` |
| Thread pool | queue of tasks, counter, stop flag, two condition variables | `addTask`, `wait`, destructor | `util/ThreadPool.h` |
| Jezz legalizer | rows as linked lists of cells and whitespace | insert, remove, legalize | `src/x/src/x/jezz` |
| Network-flow legalizer, placers, contest infrastructure | geometry, scores | one-shot optimisations | `src/x/src/x` |
| Readers, parsers, writers; GUI | files; windows | | `io`, `qt` |

**How they interact.** Everything runs in one thread except the pool, and
interaction is by callbacks: `Design` notifies its observers before a pin is
disconnected and after a pin is connected, a cell is remapped, a net or instance
is created or an instance is moved. The timer, the routing estimator, the
scenario and the legalizer observe. They do no work in the callback; they mark
what is dirty, and the timer's update first asks its timing model to bring the
routing up to date. Attributes grow through the same callbacks. A session owns
the design and starts services by name; services start one another.

**What is hard.** Copies of one fact that different lines update (connectivity,
pin indices and library arcs); an incremental order that must hold after every
edit without recomputation; dirty marks of different strength that meet on one
net before an update; callbacks that run before an edit is complete; and the
interleavings of workers and clients of the pool. `PROJECT.json` lists each
hazard at its line, with the property that would catch it or the reason there is
none yet.

**What makes each component correct.** The copies of the connectivity agree; a
chain of remaps never renames a pin; between edits each arc goes up in the
index and a propagation ends; after an update a net has the RC tree of the
present design; each task is executed once and no thread sleeps through its
work; an incremental timing update gives what a full one gives; a row of the
legalizer stays one gapless list in which the cells keep their order, and a move
that fails leaves no trace. Not stated here: a service is started once and hears
of the design whatever the order of calls.

## 2. Modules

Each component has one module, an `MC` module with the small instance for TLC,
and, where results are proved, a `_proofs` module that extends it. `NetConnectivity`
is the abstract specification that `Netlist` implements; `Least` holds what
several proofs share: least and greatest elements, and smallest sets. `PROJECT.json` maps
every definition to its lines. Definitions introduced by "Slip in ..." are
plausible bugs that `PROJECT.json` substitutes for a definition to show that a
property notices; they are not part of the model.

### Netlist

Models `Design::connectPin` and `disconnectPin`. The variables are the fields of
`PinData` and `NetData`; the lists of net arcs are kept as the number of arcs per
(driver, sink) pair in the list of the driver (`forward`) and of the sink
(`backward`). `connectPin` calls `disconnectPin` when the pin is connected, so
`ConnectPin` is built from the same pieces (`PinsWithout`, `CountsWithout`, ...).
The order of operations in the code matters: the vector is shrunk by
swap-and-shrink and the driver is then searched in the result. The pins are signal
pins: `allPins(direction)`, over which the code searches the driver and makes arcs,
skips power and ground pins, so that these have neither.

`NetConnectivity` keeps only the set of pins per net and any answer to
`getAnyDriver` that is right when there is one.

### CellLibrary

Models `createLibraryCell`, `createCell` and `remap`. Two tables lead from a cell
to its library cell: the index in each pin and the library arc in each arc.
`remap` rewrites them separately, and it does so through `allPins`, whose filter
on power pins asks the library cell that has just been replaced
(`RemappedIndex`). `PinsKeepNames` is the action property that no remap turns a
pin into another one. Names are model data; comparison by name is what the code does.

### TopologicalIndex

Models `updateTopologicalIndex`. `Connect` is `connectPin` up to the loop: the
index of the connected pin, and the successors that it overtakes. `Drop` and
`Raise` are the turns of the loop, one queue entry each, so that the state inside
a propagation can be reasoned about; no other action is enabled meanwhile. As in
`Netlist`, the pins are signal pins: power and ground pins have no successors and no
predecessors over a net. The
`sign` of pins, which alternates between propagations so that it needs no reset,
is the set `signed` of pins visited by this one. The queue is a set popped in any
order, which includes the order of the code. The code maps indices in `float` and
then tests that the result exceeds that of the predecessor; the model maps them
in integers, rounding down, and has the same test.

Facts that the model takes over and that are easy to overlook:
`numeric_limits<int>::infinity()` is 0, so the bounds on the index start at 0 and
the "easy case" of the algorithm is never taken; indices of pins connected before
their drivers are negative.

### RoutingEstimator

Models the callbacks and updates of the estimator together with the edits of the
design they react to, so that "the present design" is a state the properties can
compare with. An RC tree is what it was made from (place of every pin, library
cell of every sink's instance); wirelength is the distance of the outermost pins
of a placement in one dimension. `Mark` is the assignment operator of
`NetUpdateType`, which keeps the stronger kind. A capacitance update replaces the
loads the tree has. Over a sink that is a port it dereferences a null library
pin; `crashed` marks the end of the program. A full update of a net without a
driver ends the program with a message; callers do not ask for one, which is a
guard. `connectPin` and `disconnectPin` are the connections as sets; their data
structures are `Netlist`'s.

### ThreadPool

Models the whole of `util/ThreadPool.h`. Each place where another thread can tell
steps apart is a place of its own: the worker's loop between popping, counting,
executing, uncounting and notifying, and the client's `wait` between the
evaluation of its predicate and blocking. The two differ because `running` is
changed without the mutex, so it can change between the two steps of a client
that holds the mutex. A notification wakes one blocked thread, whichever, or is
lost when there is none; condition variables may also wake spuriously.

### Timer

Models the callbacks of the timer and its full, incremental, local and required
updates, together with the edits they react to. A propagation is a queue of nets
from which one net is taken per step: a net with no other queued net upstream
(for required times, downstream), which is all that the order by topological
index promises and what `OrderRespectsArcs` shows of it. `VisitForward` keeps the
sign of the visited nets and the endpoints from which required times start;
`Pruned` is the test by which they stop early. The RC trees are those of
`RoutingEstimator`, seen through its two properties: an update of the routing,
which every timing update makes first, brings every net it does not skip up to
date (`UpdatedTree`).

One mode and one edge stand for the four values that the code keeps side by
side, and the arrival time stands for the slew as well. Delays are operators given
as constants, of the library cell and the RC tree; nothing is assumed of them.
What the code reads through a null net or pin is the end of the program
(`crashed`). The code assumes one driver per net and asserts neither that nor
acyclicity; `ConnectPin` is restricted to both.

### Jezz

Models the row legalizer `x/jezz` with `moveCell` of the contest infrastructure,
its main client. Every row is a circle of nodes from its root: cells, obstacles and
whitespaces. A step of the model is one node of a walk: `Count` of
`jezz_AdjustShiftingCostToSide`, then `ShiftCell`, `ShrinkWhitespace` and
`UseUpWhitespace` of `jezz_AdjustPositionConsolidate`, since callbacks run in
between and see a half-moved row. Costs decide only which split of the shift and
which row is taken; the model takes any. The loops over nodes go by the order in
which nodes were made (`Id`), obstacles first. `was` records the rows when a call
begins: the code keeps there only the old position of the moved cell, the rest is
for `OthersKeepOrder`.

Whitespace nodes are a given set from which a free one is taken where the code
allocates. Obstacles that overlap are cut by `initJezz_Obstacles` before they are
inserted; the model starts from the result (`BlockAssumption`).

A cell sent right of the row goes after the tail, which gives way as far as it can; a
cell sent left of the row goes between the root and the head and pushes the
row to the right. There the reference node is the root itself: both its ends are
equally far from the target, so `Reference` keeps it, the walk to the left ends where
it begins and all the sites are taken from the right.

## 3. Runs

| Run | Question | Result |
|---|---|---|
| `netlist` | do the copies of the connectivity agree after every sequence of edits, and is the abstract connectivity implemented? | holds |
| `cell_library` | does a chain of remaps lose a pin, rename one or leave an arc with a wrong library arc? | no |
| `cell_library_power_pin` | is the same interface enough for `remap`, as its comment says? | violated when the cells list the power pin at different positions: a signal pin becomes the power pin |
| `topological_index` | is every acyclic netlist in order between edits, does the propagation end, is no loop reported, are instances sorted? | holds |
| `thread_pool` | tasks once and never lost, no lost wakeup of workers, destructor drains and returns | holds |
| `thread_pool_wait_hangs` | does `wait` return? | violated: the decrement and the notification fall between the client's test and its blocking |
| `routing_estimator` | after any order of edits and updates, does each net have the tree and loads of the present design, and is the total the sum? | holds |
| `routing_estimator_remap` | does an up-to-date net have the wirelength of its placement? | violated: a capacitance update stores wirelength 0 |
| `timer` | does an incremental update, after any edits and local updates, leave the arrival times a full one would, and required times that are in sync? | holds, the clock net and required times at clock nets apart |
| `timer_required_in_sync` | do incremental updates keep required times in sync once they are? | violated: the net of a data pin writes the required time of a clock pin whose own net is then pruned away |
| `jezz` | do the rows stay gapless lists in order, does a failed move leave no trace, does a restored solution come back exactly? | holds |
| `jezz_stale_cell` | do the rows pass the code's own consistency check between calls? | violated: a cell made after the store keeps its links through a full restore |

The violations are listed with the lines of the code and of the comments they
contradict under `findings`. The other properties are chosen to say what does
hold beside them: arcs are never missing although some are stale
(`ArcsComplete`, `FloatingPinHasNoArcs`), a wirelength may be 0 but never that of
an earlier placement (`NoOldWirelength`), the destructor is right although `wait`
is not, required times stay right on every net without clock pins
(`RequiredUpToDate`), and the rows stay sound as long as the stored solution knows
every cell (`EditsAfterStore = FALSE` in run `jezz`).

Three weaker observations made while modelling have no run. Arcs to pins that
have left stay in the other end's list, so `Net::allArcs` returns them too.
`getPinByLibraryPin` takes the index in the library cell for a position among the
pins, which a remap to another pin order makes wrong. `wait` does not see a task
that is queued, or popped and not yet counted, so it may return before the tasks
that its caller has added are executed.

### Bounds

- `netlist`: two drivers, two sinks, two nets. A property that relates copies
  fails first on two pins of one net or one pin and two nets. Two drivers and two
  sinks also give multi-driver nets and vectors of four pins, in which removal
  meets first, middle and last positions. `MaxArcs = 2` caps the stale arcs of a
  pair, which otherwise grow with every reconnection; two is enough to tell
  missing, single and doubled arcs apart. Drivers, sinks and nets are symmetric.
- `cell_library`: two cells; three library cells that differ in pin order and arc
  order, and three that are refused for three different reasons. `nand` and
  `nandRot` differ by a cyclic permutation of the signal pins, so that a wrong
  composition of permutations shows after two remaps. Here the cells list their
  power pin at the same position; the run on power pins drops that.
- `topological_index`: an input port, an output port and a two-input gate on two
  nets: chains, reconvergence, nets with two drivers, connections in every order.
  The gaps 1 and 3 (10 and 1000 in the code) are the smallest with distinct roles;
  `MaxOrder = 4` caps the index a connection gives, since indices grow with
  every reconnection. The theorems have no bound on pins, nets or gaps.
- `thread_pool`: two workers that compete, two clients that can both be in
  `wait`, two tasks, one spurious wakeup. The run on `wait` needs
  one of each.
- `routing_estimator`: two ports, one gate, two nets and the clock net; the pins
  of the gate may share a net. Only the gate moves, between two places on either
  side of the ports. Wirings are limited to those that differ in kind.
- `timer`: an input port, a gate whose second input closes a loop through a
  register or floats, the register with its clock port, and an output port. It has
  a chain, a reconvergence, a net that can lose its driver, both kinds of endpoint
  and a required time that crosses the register. `MaxEdits = 2` bounds the edits and
  local updates between two full updates with required times; one edit is
  forgotten or overtaken only by another one, so two show every such case. The
  theorem has no such bound.
- `timer_required_in_sync`: a register whose output reaches its data pin over two
  gates, so that pruning can stop between the two, and one port that moves.
- `jezz`: two rows of three sites, one of which an obstacle leaves a single site,
  and three cells, one of width 1 or 2: full rows, rows with one hole on either
  side, insertions that overflow in one row or in both, and moves that are rolled
  back. Targets lie left of the row, where the insertion is next to the root and the
  head gives way, inside it and right of it. One cell is created
  late. At most three whitespaces are in the rows at a time and an
  insertion needs one more, so four suffice. The view identifies states that
  differ in which whitespace node stands at a place; the run `jezz_stale_cell`
  does without it.

Deadlock is checked except for two modules: a pool that has been destroyed stops,
and so does an estimator that has read a null pin. In `Timer` a program that has
ended stutters (`Gone`).

### Fairness

- `TopologicalIndex`: weak fairness of `Propagate`. It is a loop in a function of
  a single-threaded program; once entered, nothing else runs.
- `ThreadPool`: weak fairness of each worker's step, of each client's step inside
  a call, and of the owner's steps inside the destructor: the operating system
  runs every runnable thread. No client has to make a call, tasks are assumed to
  return, and notified and waiting threads are chosen freely. The violation of
  `WaitEnds` is found under this fairness, so it is no matter of scheduling.
- The other modules, whose code is sequential, state safety only. Their loops
  (propagations of the timer, walks of the legalizer) end with the function they
  are in.

## 4. Proofs

All theorems are about `Spec` for every value of the constants that satisfies
the named assumptions of the module (disjoint directions, finitely many pins, null
values outside the sets, positive gaps with the small one not above the large
one, arcs inside instances from input to output pins, at least one worker,
obstacles that lie in their row; for the timer, clock pins and data pins in pairs
on one cell, none of them the other's or a port, and no arc that starts at a data
pin or an output port, whose required times the code says are "set outside"). The theorems on
`CellLibrary`, `Timer` and `Jezz`, and `InstancesInOrder`, have a hypothesis beyond
them, which stands in their statements.

**Netlist** (`TypeCorrect`, `VectorsListPins`, `CountersCountPins`,
`DriverIsOnNet`, `ArcsJoinPins`, `FloatingPinsAreClean`, `ImplementsConnectivity`).
The type invariant and four invariants together are inductive; none is alone.
`DriverCached` needs `PinsListed`, for the search runs over the vector;
`ArcsComplete` needs it, for new arcs are made with the pins of the vector.
`FloatingPinHasNoArcs` is inductive beside them. The lemmas on `SwapRemove` and
`FirstDriver` say what the vector code returns; the `...WithoutP` lemmas say what
`disconnectPin` leaves behind and serve both operations. The refinement maps the
vector of a net to the set of its elements.

**CellLibrary** (`TypeCorrect`, `PinsNeverMerge`, `ArcsStayBehindPins`,
`RemapRenamesNoPin`), under two hypotheses on the library: the pins of a library
cell have different names (`NamesDistinct`), and a power pin that `remap` skips has
the same name in both library cells (`PowerPinsInPlace`). The library of run
`cell_library` satisfies both, that of `cell_library_power_pin` violates the
second: the theorem says that this is the only way in which a remap goes wrong.
Inductive is that the pins of a cell have distinct indices in its library cell and
that each arc leads to the library arc between the names of its pins.

**TopologicalIndex** (`TypeCorrect`, `IndexRespectsArcs`, `PropagationSound`,
`NoFalseLoop`, `InstancesInOrder`). During a propagation the order does not hold. Inductive is that
every arc out of order has an entry in the queue with the current index of its
source (`PendingArcsQueued`), that the queue holds only pins downstream of the
connected one, and that the range which is mapped is not empty. When the queue is
empty the first of these is the order. `NoLoopReported` follows from the second
and from the netlist having no loop, an assumption of the module: `Connect`
refuses a connection that closes one. `InstancesSorted` is true of ports and of gates
whose inputs all lead to one output (`OneOutput`). It is not true of a register, whose
data pin starts no arc and may be far above its clock pin, nor of a cell whose
outputs are fed by different inputs. The index of an instance is clamped at 0, so the
order of the pins is not enough: a gate needs an output above 0 when its inputs are
not. Inductive is that an output with an input behind it has a positive index, and
that only positive indices are propagated (`FedOutputsPositive`).

**ThreadPool** (`TypeCorrect`, `ExecutedAtMostOnce`, `TasksTracked`,
`RunningCounted`, `NoLostWakeup`, `QueueDrained`). `NoTaskTwice` and `NoTaskLost`
follow the one place each task is at; they need that only accepted tasks are
anywhere. `NoWorkerForgotten` needs the order of the shutdown (`Shutdown`): a
worker leaves only after the stop and with an empty queue, and after the stop
nothing is added. `QueueDrained` combines the two. `RunningExact` follows the set
of counted workers through each step, by the library's facts on cardinality.

**RoutingEstimator** (`TypeCorrect`, `TreesUpToDate`, `LoadsUpToDate`,
`WirelengthNeverOld`, `TotalNeverDrifts`).
`TreesMatchDesign` is not enough for `LoadsMatchDesign`: a capacitance update
replaces the loads the tree has and adds none. Inductive is that a tree without a
pending full update also has a load for exactly the present sinks
(`TreesComplete`), together with `NoOldWirelength`. Every edit is shown to be an
instance of one lemma (`EditKeepsIInv`): what it changes about a net outside the
set it marks is nothing the estimate is made from.

`TotalIsSum` relates a running total, changed by differences, to a sum over all
nets. A sum takes the nets one by one, in an order that depends only on which nets
are left (`Sums`), so the old sum, the new one and the growth are taken
in the same order and can be compared set by set (`GrowthAddsUp`). In place of an
induction, which would quantify over an operator, the proofs take a smallest
counterexample: a least cardinality at which there is no sum, a smallest set of
nets for which the sums do not add up. That the total is a number needs the
wirelengths to be integers: an estimated net has at least two pins, and finitely
many.

**Timer** (`TypeCorrect`, `NoNetForgotten`, `ArrivalsAreFull`, `PruningIsSound`), for
every netlist, library and delay operator. Only `TypeCorrect` takes times to be
integers (`TimesGiven`: library, wires and constraints give integers for every tree a
net may have); maxima and minima are then over finite sets that are not empty. An
incremental update never starts from the clock net, so the theorems assume that
only a full update visits it (`ClockLeftAlone`): no arc drives it, and local
updates are asked for instances that are not on it. In between, almost nothing
holds of a single net. Inductive is that every net but the clock
net is *covered* (`NetsCovered`): it
is settled (visiting it again changes nothing), or it is pending (marked between
updates, queued during one), or it follows a pending net. That a net leaves the
queue settled and is not disturbed afterwards needs `VisitedInOrder`: no visited
net is downstream of a queued one. What is downstream of a net (it
includes the next nets and what is downstream of them, and does not grow when a pin is
disconnected) is stated in lemmas.

That all nets are settled says of each net that it agrees with the ones before it;
`AgreesWithFull` says that the times are those computed from the ports on. The
arrival times solve the equations that define `FullArrival`, and there is only one
solution: a net on which two solutions differ follows another such net, and no
non-empty set of nets consists of followers of its own members
(`SomethingIsFirst`: among finitely many nets the number of those
downstream falls along every arc of an acyclic netlist).

`RInv` is the same for required times, where an update also stops early. A net is
right, or is going to be visited (`Revisited`: queued, an endpoint, visited by
arrival times), or stands before a net whose visit passes on what it finds whether
or not it changes anything (`Disturbed`). The code keeps this with one condition: it
never prunes a net that arrival times have visited. Three more facts make the
argument go round. Endpoints whose required time a test may change are on nets that
are going to be visited (`EndpointsFresh`). A net that arrival times have visited is
an endpoint or is followed by another such net (`ReachedLead`), so when the queue is
empty none can be left out, as the last of them would be an endpoint. A net that
required times have visited is not upstream of a queued one (`RequiredInOrder`), so
that skipping visited nets skips nothing. The clock net is no seed here either, so the
theorem assumes a clock pin that never leaves it (`ClockNetClocks`), as the nets with
clock pins are those of which nothing is claimed. TLC checked `RInv` on the instances
of `timer` and `timer_required_in_sync` before it was proved.

**Jezz** (`TypeCorrect`, `ListsNeverBreak`, `NoCircleOffTheRoot`, `RowsAreCovered`,
`OrderIsKept`, `RollbackRestores`, `StoredSolutionReturns`), for any rows,
cells and obstacles, as long as nothing is created or remapped once a solution
is stored (`~EditsAfterStore`); run `jezz_stale_cell` shows what happens
otherwise. The invariant has two layers.

`IInv` is about the links. That the links of a row agree (`RowsLinked`) is not
inductive: removing the last node of a circle that does not contain the root
would break the links. `RowsOrdered`, a numbering that grows along every row up to
its root, excludes such circles, and two lemmas show how it survives cutting nodes
out of a list (`CutKeepsLinked`) and linking one in; every operation is an instance
of these. The remaining conjuncts say that the walks stay in the row
(`WalkInRow`), that a node still to be inserted is in no row (`Awaited`), and
that a rollback and a restore know the cells they are about (`CallKnown`,
`CellsKnown`).

`JInv` adds the sites. Except while nodes are pushed aside, every node ends where
the next one starts (`Gapless`); then the position of a node is a numbering of its
row, so the nodes cover the row from 0 to its end and no two overlap.

- *Walks.* The second walk must find what the first has counted, and both are sums
  along a list. Neither is written as a sum. A *trail* is a set of nodes through
  which the walk passes, with a function that says what is left of the counter at
  each of them: it falls by the width of every whitespace on the way. `Counting`
  says that the nodes behind the first walk are the trail of its count, and
  `Shifting` that the nodes before the second walk are a trail with enough left
  (`TrailStays`: what the walk has behind it does not touch the trail before it).
  Since the node under the walk lies behind the other neighbour in the numbering,
  the walk cannot run round the root. For a cell sent left of the row the reference
  is the root: the trail of the first walk is empty and counts nothing, and the second
  walk begins at the head.
- *Gap.* While it pushes, the row has one fault at the walk, whose size is what
  is still needed, and one at the new node, whose size is what the walk to the right
  has yet to find (`LeftGap`, `RightGap`). When the walk has nothing left the
  faults are 0, and the new node fills what is open (`SettleGapless`).
- *Order.* `Moves` gives an insertion the cell it moves and says that the other
  cells are in the order of `was`; on the way, that order is the order of the
  numbering (`KeepsOrder`), which pushing does not change.
- *Return.* A rollback and a restore are insertions into space that once was covered
  by just these cells: `Fits` says that the places to return to do not overlap, and
  `Returns` that every cell in a row is at its place or has yet to be compared
  with it. Hence the place of a cell that returns is covered by no other cell, so a
  whitespace holds all of it (`ReturnIsHeld`), and no insertion pushes or fails.

TLC checked the conjuncts of this invariant that have no quantifier over functions
on the instance of run `jezz` before they were proved.

**Only model-checked.** Liveness (`PropagationEnds`, `TasksExecuted`,
`DestructorReturns`): the provers have no rule for ENABLED and so none for fairness.
Every invariant that a run checks is stated by a theorem.

## 5. Not modelled

- Names, hierarchy and attributes of the netlist. Lists can remove elements, but
  no code of the repository does so.
- Netlists with loops: a loop closed by an earlier connection sends a propagation
  round it without end, so indices are unbounded. Also the index of a net, which
  is that of its last driver although `decl/Net.h` announces the maximum.
- Session and services. Their tables are filled within one call, and what can go
  wrong is the order of calls that a program is written with: a service entered in
  the table only after its `start` returns, paths left behind by a script that
  fails. The one re-entrant start in the repository is that of
  `model/timing/DefaultTimingModelWithIdealClock.h:49`. The hazards are listed.
- Timer: centrality, violations and critical paths, which are queries over timing;
  creation of cells and nets; the local update of several cells at a time.
- Power and ground pins in `Netlist` and `TopologicalIndex`, and in
  `RoutingEstimator` the loads of the second and further drivers of a net: the code
  sets them when it builds the tree and does not refresh them afterwards.
- Jezz: the script command `legalizeCell` (`Jezz.cpp:151`) on a cell that is in a row.
  It calls `jezz_LegalizeNode` without removing the cell, which overwrites its
  position and links it in a second time, possibly beside itself; every other caller
  removes the cell first, or passes cells in no row. What is shown holds for programs
  that do not use the command in this way; the hazard is listed.
- Jezz: obstacles defined after the start (`jezz_DefineObstacle`), the swap of
  neighbours, `jezz_dp_Change_Fixed`, `jezz_RemoveNode`, and the costs.
- Scenario and physical design: tables and geometry; the notifications they send
  and the clock net appear in the modules that react to them.
- Numerics: delays, Steiner trees, RC values, density, legalization by network
  flow, placement.
- The sandbox, which repeats the code of the netlist in a second set of classes.
  What is shown here is not claimed of it.
- Files, parsers, generated code, the GUI.

## 6. Plan

Done: `NetConnectivity`, `Netlist`, `CellLibrary`, `TopologicalIndex`,
`ThreadPool`, `RoutingEstimator`, `Timer`, `Jezz` and a proof module for each of
the last seven. What would add most next:

1. `Session`: starting services that start services, the table that is filled only
   after `start` returns, and the script paths when a script fails. Abstract
   specification: each service is started once, before its first use.
2. Loops and the index of nets in `TopologicalIndex`; nets that drop below two pins
   and keep their wirelength in the total of `RoutingEstimator`.
3. The swap of neighbours and late obstacles in `Jezz`.
