---------------------------------- MODULE Timer ----------------------------------
(***************************************************************************)
(* The static timing analysis of Rsyn (rsyn/model/timing/Timer).  The      *)
(* timer listens to the edits of a design and marks the nets and instances *)
(* that they touch.  An incremental update carries new arrival times from  *)
(* the marked nets downstream, net by net, and then new required times     *)
(* upstream, until nothing changes any more; a full update visits every    *)
(* net.  A local update recomputes the nets of one instance only.          *)
(*                                                                         *)
(* One mode and one edge stand for the four that the timer keeps, and the  *)
(* arrival time stands for the slew as well.  The RC trees are those of    *)
(* RoutingEstimator, which TreesMatchDesign and LoadsMatchDesign describe: *)
(* an update of the routing brings the tree of every estimated net up to   *)
(* date and leaves the others as they are.                                 *)
(*                                                                         *)
(* A priority queue ordered by the topological index of nets pops some net *)
(* that has no other queued net upstream (IndexRespectsArcs), any of which *)
(* may come first here; for required times read downstream.  The queue is  *)
(* kept as a set: an entry pushed twice is dropped at its second pop.      *)
(***************************************************************************)
EXTENDS Integers, FiniteSets, FiniteSetsExt

CONSTANTS
  Drivers,      \* OUT pins
  Sinks,        \* IN pins
  Through,      \* <<IN pin, OUT pin>>: the timing arcs of cells
  Controls,     \* <<clock pin, data pin>> of every register
  OutputPins,   \* the inner pins of output ports
  Instances,
  Owner,        \* Owner[p]: the instance of pin p
  Nets,
  NoNet,
  ClockNet,     \* Scenario::getClockNet
  Wirings,      \* bound: <<pin, net>>, the connections that are ever made
  Movable,      \* bound: the pins that edits connect and disconnect
  LibraryCells, \* LibraryCells[i]: what instance i may be remapped to
  Places,       \* Places[i]: where instance i may be placed
  LocalCells,   \* bound: the instances that local updates are asked for
  MaxEdits,     \* bound: edits and local updates from one full update to the next
  Uncertainties,
  Period,            \* the clock period
  NoRequired,        \* UNINITVALUE as a required time
  ArcDelay(_, _, _), \* of an arc, by library cell and RC tree of its net
  PortArrival(_, _), \* at an input port, by the RC tree that it drives
  WireDelay(_, _),   \* from driver to sink
  Setup(_, _)        \* of a data pin, by library cell

Pins == Drivers \cup Sinks

ASSUME PinsAssumption ==
  /\ Drivers \cap Sinks = {}
  /\ IsFiniteSet(Pins)
  /\ Through \subseteq Sinks \X Drivers
  /\ \A t \in Through : Owner[t[1]] = Owner[t[2]]
  /\ Controls \subseteq Sinks \X Sinks
  /\ OutputPins \subseteq Sinks
  /\ Owner \in [Pins -> Instances]

ASSUME NetsAssumption ==
  /\ NoNet \notin Nets
  /\ ClockNet \in Nets
  /\ Wirings \subseteq Pins \X Nets
  /\ Movable \subseteq Pins
  /\ LocalCells \subseteq Instances
  /\ \A p \in Pins \ Movable : \E n \in Nets : <<p, n>> \in Wirings

ASSUME ControlsAssumption ==
  /\ \A x, y \in Controls : x[1] = y[1] <=> x[2] = y[2]
  /\ \A x \in Controls : Owner[x[1]] = Owner[x[2]]

\* Clock pins, data pins and output ports are different pins, and no arc starts
\* at a pin whose required time is set outside the propagation.
ASSUME EndpointsAssumption ==
  /\ \A x, y \in Controls : x[1] # y[2] /\ {x[1], x[2]} \cap OutputPins = {}
  /\ \A t \in Through : t[1] \notin OutputPins /\ \A x \in Controls : t[1] # x[2]

VARIABLES
  \* The design
  net,         \* PinData::net
  lcell,       \* InstanceData::lcell
  place,
  \* RoutingNet::rctree, as the cells and places of the pins it was made from
  tree,
  \* The timer
  dirtyNets,
  dirtyInstances,
  force,       \* clsForceFullTimingUpdate
  outOfSync,   \* clsIsRequiredOutOfSync
  uncertainty, \* clockUncertainty
  a,           \* TimingPinState::a
  q,           \* TimingPinState::q
  wdelay,      \* TimingPinState::wdelay
  delay,       \* TimingArcState::delay
  sign,        \* TimingNet::sign, the propagation that last visited the net
  \* The update that is running
  job,         \* which one: its kind, and the parameters it was called with
  phase,       \* what it propagates
  queue,
  endpoints,   \* where incremental required times start
  crashed,     \* a null net or pin has been read
  edits        \* since the last full update

design == <<net, lcell, place>>
values == <<a, q, wdelay, delay>>
marks == <<dirtyNets, dirtyInstances, force, outOfSync>>
vars == <<design, tree, marks, uncertainty, values,
          sign, job, phase, queue, endpoints, crashed, edits>>

NoJob == [kind |-> "none", required |-> FALSE, cells |-> {}]

-----------------------------------------------------------------------------
(***************************************************************************)
(* The timing graph.                                                       *)
(***************************************************************************)

PinsOn(n) == {p \in Pins : net[p] = n}
SinksOn(n) == {s \in Sinks : net[s] = n}

HasDriver(n) == \E d \in Drivers : net[d] = n

\* Net::getAnyDriver.  [ASSUMPTION] Net has a single driver.
Driver(n) == CHOOSE d \in Drivers : net[d] = n

ArcsInto(d) == {t \in Through : t[2] = d}
ArcsFrom(s) == {t \in Through : t[1] = s}

ClockPins == {x[1] : x \in Controls}
DataPins == {x[2] : x \in Controls}
ClockOf(d) == (CHOOSE x \in Controls : x[2] = d)[1]
DataOf(c) == (CHOOSE x \in Controls : x[1] = c)[2]

Sequential(i) == \E c \in ClockPins : Owner[c] = i

\* The nets that the sinks of net n lead to.
NextNets(n, nt) == {nt[t[2]] : t \in {t \in Through : nt[t[1]] = n}} \ {NoNet}

PreviousNets(n) ==
  {net[t[1]] : t \in {t \in Through : net[t[2]] = n}} \ {NoNet}

\* The nets downstream of n: those in every set of nets that holds the next
\* ones of n and of its own members.
Downstream(n, nt) ==
  LET next == [k \in Nets |-> NextNets(k, nt)]
  IN  {m \in Nets : \A D \in SUBSET Nets :
         (\A k \in D \cup {n} : next[k] \subseteq D) => m \in D}

Acyclic(nt) == \A n \in Nets : n \notin Downstream(n, nt)

\* Slip in NetsOf: floating pins are not skipped.
NetsOfAllPins(i) == {net[p] : p \in {x \in Pins : Owner[x] = i}}

\* The nets of an instance: TimingModel and updateTimingLocally skip floating pins.
NetsOf(i) == {net[p] : p \in {x \in Pins : Owner[x] = i}} \ {NoNet}

Shape(n) == [p \in PinsOn(n) |-> <<lcell[Owner[p]], place[Owner[p]]>>]

\* The nets that RoutingEstimator::updateRoutingOfNet does not skip.
Estimated == {n \in Nets \ {ClockNet} : Cardinality(PinsOn(n)) >= 2}

UpdatedTree == [n \in Nets |-> IF n \in Estimated THEN Shape(n) ELSE tree[n]]

-----------------------------------------------------------------------------
(***************************************************************************)
(* Timing of one net.                                                      *)
(***************************************************************************)

NewDelay(t, n) == ArcDelay(t, lcell[Owner[t[1]]], tree[n])

\* Slip in DriverArrival: the arrival so far takes part in the maximum.
GrowingArrival(n) ==
  LET d == Driver(n)
  IN  IF ArcsInto(d) = {} THEN PortArrival(d, tree[n])
      ELSE Max({a[d]} \cup {a[t[1]] + NewDelay(t, n) : t \in ArcsInto(d)})

\* The driver of a net is an input port or the output of a cell with inputs.
DriverArrival(n) ==
  LET d == Driver(n)
  IN  IF ArcsInto(d) = {} THEN PortArrival(d, tree[n])
      ELSE Max({a[t[1]] + NewDelay(t, n) : t \in ArcsInto(d)})

\* updateTiming_Net.
ArrivalsWith(n) ==
  [p \in Pins |->
     CASE net[p] = n /\ p \in Drivers -> DriverArrival(n)
       [] net[p] = n /\ p \in Sinks   -> DriverArrival(n) + WireDelay(p, tree[n])
       [] OTHER                       -> a[p]]

DelaysWith(n) ==
  [t \in Through |-> IF net[t[2]] = n THEN NewDelay(t, n) ELSE delay[t]]

WireDelaysWith(n) ==
  [s \in Sinks |-> IF net[s] = n THEN WireDelay(s, tree[n]) ELSE wdelay[s]]

\* UNINITVALUE absorbs whatever is taken from it.
Less(x, y) == IF x = NoRequired THEN NoRequired ELSE x - y

Slack(d) == Less(q[d], a[d])

\* The required time at a sink, as its arcs have it; that of an endpoint is
\* set elsewhere.
SpannedRequired(s) ==
  IF ArcsFrom(s) = {} THEN q[s]
  ELSE Min({Less(q[t[2]], delay[t]) : t \in ArcsFrom(s)})

\* The required time at a clock pin that makes up for the slack at the data pin.
ControlRequired(c) == Less(Slack(DataOf(c)), - a[c])

SinkRequired(s) ==
  IF s \in ClockPins THEN Min({SpannedRequired(s), ControlRequired(s)})
                     ELSE SpannedRequired(s)

DriverRequired(n) ==
  Min({NoRequired} \cup {Less(SinkRequired(s), wdelay[s]) : s \in SinksOn(n)})

\* updateTiming_PropagateRequiredTimes_Net.
RequiredWith(n) ==
  [p \in Pins |->
     CASE net[p] = n /\ p \in Drivers -> DriverRequired(n)
       [] net[p] = n /\ p \in Sinks   -> SinkRequired(p)
       [] net[p] # n /\ p \in ClockPins /\ net[DataOf(p)] = n -> ControlRequired(p)
       [] OTHER                       -> q[p]]

\* updateTiming_UpdateTimingTests, for the endpoints E.
RequiredAtEndpoints(E, u) ==
  [p \in Pins |->
     CASE p \in E \cap DataPins ->
            Period + a[ClockOf(p)] - u - Setup(p, lcell[Owner[p]])
       [] p \in E \cap OutputPins -> Period
       [] OTHER -> q[p]]

Endpoints == DataPins \cup OutputPins

-----------------------------------------------------------------------------
(***************************************************************************)
(* Edits of the design, as the timer is told of them.                      *)
(***************************************************************************)

\* The net of a pin that no edit disconnects.
FixedNet(p) == CHOOSE n \in Nets : <<p, n>> \in Wirings

\* A design that was read and is timed for the first time.
Init ==
  /\ \E f \in [Movable -> Nets \cup {NoNet}] :
       /\ \A p \in Movable : <<p, f[p]>> \in Wirings \/ f[p] = NoNet
       /\ net = [p \in Pins |-> IF p \in Movable THEN f[p] ELSE FixedNet(p)]
  /\ \A d, e \in Drivers : net[d] = net[e] /\ net[d] # NoNet => d = e
  /\ \A n \in Nets : PinsOn(n) # {} => HasDriver(n)
  /\ \A x \in Controls : net[x[1]] # net[x[2]] \/ net[x[1]] = NoNet
  /\ Acyclic(net)
  /\ lcell = [i \in Instances |-> CHOOSE c \in LibraryCells[i] : TRUE]
  /\ place = [i \in Instances |-> CHOOSE x \in Places[i] : TRUE]
  /\ tree = [n \in Nets |-> <<>>]
  /\ dirtyNets = {}
  /\ dirtyInstances = {}
  /\ force = TRUE
  /\ outOfSync = TRUE
  /\ uncertainty = CHOOSE u \in Uncertainties : TRUE
  /\ a = [p \in Pins |-> 0]
  /\ q = [p \in Pins |-> NoRequired]
  /\ wdelay = [s \in Sinks |-> 0]
  /\ delay = [t \in Through |-> 0]
  /\ sign = [n \in Nets |-> "old"]
  /\ job = NoJob
  /\ phase = "idle"
  /\ queue = {}
  /\ endpoints = {}
  /\ crashed = FALSE
  /\ edits = 0

Idle == job = NoJob /\ ~crashed

running == <<sign, job, phase, queue, endpoints>>

\* onPostPinConnect.
ConnectPin(p, n) ==
  LET nt == [net EXCEPT ![p] = n]
  IN  /\ Idle
      /\ net[p] = NoNet
      /\ p \in Drivers => ~HasDriver(n)
      /\ \A x \in Controls : p \in {x[1], x[2]} => nt[x[1]] # nt[x[2]]
      /\ Acyclic(nt)
      /\ net' = nt
      /\ dirtyInstances' = dirtyInstances \cup {Owner[p]}
      /\ dirtyNets' = dirtyNets \cup {n}
      /\ UNCHANGED <<lcell, place, tree, force, outOfSync, uncertainty, values,
                     running, crashed>>

\* onPrePinDisconnect, sent for a pin that is on no net as well.
DisconnectPin(p) ==
  /\ Idle
  /\ net' = [net EXCEPT ![p] = NoNet]
  /\ dirtyInstances' = dirtyInstances \cup {Owner[p]}
  /\ dirtyNets' = dirtyNets \cup {net[p]}
  /\ UNCHANGED <<lcell, place, tree, force, outOfSync, uncertainty, values,
                 running, crashed>>

\* onPostCellRemap, between library cells of one kind.
Remap(i, c) ==
  /\ Idle
  /\ c # lcell[i]
  /\ lcell' = [lcell EXCEPT ![i] = c]
  /\ dirtyInstances' = dirtyInstances \cup {i}
  /\ UNCHANGED <<net, place, tree, dirtyNets, force, outOfSync, uncertainty,
                 values, running, crashed>>

\* DefaultTimingModel::onPostInstanceMove.
Move(i, x) ==
  /\ Idle
  /\ x # place[i]
  /\ place' = [place EXCEPT ![i] = x]
  /\ dirtyInstances' = dirtyInstances \cup {i}
  /\ UNCHANGED <<net, lcell, tree, dirtyNets, force, outOfSync, uncertainty,
                 values, running, crashed>>

Edit ==
  \/ \E p \in Movable : \/ DisconnectPin(p)
                        \/ \E w \in Wirings : w[1] = p /\ ConnectPin(p, w[2])
  \/ \E i \in Instances : \/ \E c \in LibraryCells[i] : Remap(i, c)
                          \/ \E x \in Places[i] : Move(i, x)

-----------------------------------------------------------------------------
(***************************************************************************)
(* Updates.                                                                *)
(***************************************************************************)

\* RoutingEstimator::updateRouting ends the program on a net without driver.
RoutingFails == \E n \in Estimated : ~HasDriver(n)

Crash ==
  /\ crashed' = TRUE
  /\ UNCHANGED <<design, tree, marks, uncertainty, values, running>>

\* An update of kind k starts with an update of the routing.
Start(k, required, cells, nets) ==
  /\ tree' = UpdatedTree
  /\ job' = [kind |-> k, required |-> required, cells |-> cells]
  /\ phase' = "arrival"
  /\ queue' = nets
  /\ UNCHANGED <<design, marks, uncertainty, values, sign, endpoints, crashed>>

StartFull(required) == Start("full", required, {}, Nets)

UpdateTimingFull(required) ==
  Idle /\ IF RoutingFails THEN Crash ELSE StartFull(required)

\* The nets that an incremental update starts from.
Seeds == (dirtyNets \cup UNION {NetsOf(i) : i \in dirtyInstances})
         \ {NoNet, ClockNet}

\* A null net among the marked ones is asked for its topological index.
UpdateTimingIncremental(required) ==
  /\ Idle
  /\ IF RoutingFails \/ (~force /\ NoNet \in dirtyNets) THEN Crash
     ELSE IF force THEN StartFull(required)
     ELSE Start("incremental", required, {}, Seeds)

\* updateTimingLocally, after the update of the routing that its callers make.
\* The two flags ask for the nets that the sinks of the nets it drives, or of all
\* its nets, lead to.
UpdateTimingLocally(i, sinkCells, sideCells) ==
  LET nets == NetsOf(i)
      from == {n \in nets : sinkCells /\
                 (sideCells \/ \E d \in Drivers : Owner[d] = i /\ net[d] = n)}
  IN  /\ Idle
      /\ IF RoutingFails THEN Crash
         ELSE Start("local", FALSE, {i}, nets \cup UNION {NextNets(n, net) : n \in from})

StartRequired ==
  /\ job' = [kind |-> "required", required |-> TRUE, cells |-> {}]
  /\ phase' = "required"
  /\ queue' = Nets
  /\ UNCHANGED <<design, tree, marks, a, wdelay, delay, sign, endpoints, crashed>>

UpdateRequiredTimes ==
  Idle /\ StartRequired /\ UNCHANGED <<q, uncertainty>>

SetClockUncertainty(u) ==
  /\ Idle
  /\ uncertainty' = u
  /\ q' = RequiredAtEndpoints(Endpoints, u)
  /\ StartRequired

\* A net was visited by the propagation of arrival times.  The full update
\* visits all nets in order and needs neither signs nor endpoints; they are kept
\* here all the same.  Nothing is pruned (pruningEnable is false).
VisitForward(n) ==
  LET visited == [sign EXCEPT ![n] = "arrival"]
      next == {m \in NextNets(n, net) : visited[m] # "arrival"}
      data == {net[x[2]] : x \in {x \in Controls : net[x[1]] = n}} \ {NoNet}
  IN  IF job.kind = "local"
      THEN /\ queue' = queue \ {n}
           /\ dirtyNets' = dirtyNets \cup {n}
           /\ UNCHANGED <<sign, endpoints>>
      ELSE /\ queue' = (queue \ {n}) \cup next
           /\ sign' = visited
           /\ endpoints' = endpoints \cup data \cup (IF next = {} THEN {n} ELSE {})
           /\ UNCHANGED dirtyNets

\* Slip in PropagateArrival: the nets are taken in any order.
PropagateAnyArrival(n) ==
  /\ phase = "arrival" /\ ~crashed
  /\ IF PinsOn(n) # {} /\ ~HasDriver(n) THEN Crash
     ELSE /\ IF PinsOn(n) = {} THEN UNCHANGED <<a, delay, wdelay>>
             ELSE /\ a' = ArrivalsWith(n)
                  /\ delay' = DelaysWith(n)
                  /\ wdelay' = WireDelaysWith(n)
          /\ VisitForward(n)
          /\ UNCHANGED <<design, tree, dirtyInstances, force, outOfSync,
                         uncertainty, q, job, phase, crashed>>

\* One turn of the propagation of arrival times; a net with sinks only has no
\* driver to read.
PropagateArrival(n) ==
  /\ phase = "arrival" /\ ~crashed
  /\ \A m \in queue : n \notin Downstream(m, net)
  /\ IF PinsOn(n) # {} /\ ~HasDriver(n) THEN Crash
     ELSE /\ IF PinsOn(n) = {} THEN UNCHANGED <<a, delay, wdelay>>
             ELSE /\ a' = ArrivalsWith(n)
                  /\ delay' = DelaysWith(n)
                  /\ wdelay' = WireDelaysWith(n)
          /\ VisitForward(n)
          /\ UNCHANGED <<design, tree, dirtyInstances, force, outOfSync,
                         uncertainty, q, job, phase, crashed>>

\* The signs get old with the next sign number, before anything reads them.
Return ==
  /\ job' = NoJob
  /\ phase' = "idle"
  /\ sign' = [n \in Nets |-> "old"]
  /\ endpoints' = {}

\* The end of a local update: the data pin of a register is tested again.
EndLocal ==
  LET tested == {d \in DataPins : Owner[d] \in job.cells}
  IN  /\ job.kind = "local" /\ phase = "arrival" /\ queue = {} /\ ~crashed
      /\ q' = RequiredAtEndpoints(tested, uncertainty)
      /\ dirtyNets' = dirtyNets \cup ({net[d] : d \in tested} \ {NoNet})
      /\ Return
      /\ UNCHANGED <<design, tree, dirtyInstances, force, outOfSync, uncertainty,
                     a, wdelay, delay, queue, crashed>>

ClearMarks ==
  /\ dirtyNets' = {}
  /\ dirtyInstances' = {}
  /\ force' = (force /\ job.kind # "full")

\* Arrival times are done: the tests, then required times if they are asked for.
EndArrival ==
  /\ job.kind \in {"full", "incremental"}
  /\ phase = "arrival" /\ queue = {} /\ ~crashed
  /\ q' = RequiredAtEndpoints(Endpoints, uncertainty)
  /\ IF job.required
     THEN /\ phase' = "required"
          /\ queue' = IF job.kind = "full" THEN Nets ELSE endpoints
          /\ UNCHANGED <<marks, sign, job, endpoints>>
     ELSE /\ outOfSync' = TRUE
          /\ ClearMarks
          /\ Return
          /\ UNCHANGED queue
  /\ UNCHANGED <<design, tree, uncertainty, a, wdelay, delay, crashed>>

\* Slip in Pruned: a net that the arrival times have visited is pruned too.
PrunedUnchanged(n, required) ==
  HasDriver(n) => /\ required[Driver(n)] = q[Driver(n)]
                  /\ ~Sequential(Owner[Driver(n)])

\* Whether required times stop at net n, that gets the required times given.
Pruned(n, required) ==
  /\ HasDriver(n) => /\ required[Driver(n)] = q[Driver(n)]
                     /\ ~Sequential(Owner[Driver(n)])
  /\ sign[n] # "arrival"

\* One turn of the propagation of required times.
PropagateRequired(n) ==
  LET required == IF HasDriver(n) THEN RequiredWith(n) ELSE q
      visited == [sign EXCEPT ![n] = "required"]
      previous == {m \in PreviousNets(n) : visited[m] # "required"}
  IN  /\ phase = "required" /\ ~crashed
      /\ \A m \in queue : m \notin Downstream(n, net)
      /\ q' = required
      /\ sign' = visited
      /\ queue' = (queue \ {n}) \cup
                  (IF Pruned(n, required) THEN {} ELSE previous)
      /\ UNCHANGED <<design, tree, marks, uncertainty, a, wdelay, delay,
                     job, phase, endpoints, crashed>>

\* Required times are done.  A full update brings them in sync; the required
\* update alone leaves the flag and the marks as they are.
EndRequired ==
  /\ phase = "required" /\ queue = {} /\ ~crashed
  /\ IF job.kind = "required" THEN UNCHANGED marks
     ELSE /\ outOfSync' = (outOfSync /\ job.kind # "full")
          /\ ClearMarks
  /\ Return
  /\ UNCHANGED <<design, tree, uncertainty, values, queue, crashed>>

Update ==
  \/ \E required \in BOOLEAN : \/ UpdateTimingFull(required)
                               \/ UpdateTimingIncremental(required)
  \/ UpdateRequiredTimes
  \/ \E u \in Uncertainties : SetClockUncertainty(u)

LocalUpdate ==
  \E i \in LocalCells, sinkCells, sideCells \in BOOLEAN :
    UpdateTimingLocally(i, sinkCells, sideCells)

Propagate ==
  /\ \/ \E n \in queue : PropagateArrival(n) \/ PropagateRequired(n)
     \/ EndLocal \/ EndArrival \/ EndRequired
  /\ edits' = IF job.kind = "full" /\ job.required /\ job' = NoJob THEN 0 ELSE edits

\* The program is gone.
Gone == crashed /\ UNCHANGED vars

Next ==
  \/ edits < MaxEdits /\ edits' = edits + 1 /\ (Edit \/ LocalUpdate)
  \/ Update /\ UNCHANGED edits
  \/ Propagate
  \/ Gone

Spec == Init /\ [][Next]_vars

-----------------------------------------------------------------------------

\* Times are integers, marks are nets and instances, the queue holds nets.
TypeOK ==
  /\ net \in [Pins -> Nets \cup {NoNet}]
  /\ dirtyNets \subseteq Nets \cup {NoNet}
  /\ dirtyInstances \subseteq Instances
  /\ force \in BOOLEAN /\ outOfSync \in BOOLEAN /\ crashed \in BOOLEAN
  /\ a \in [Pins -> Int] /\ q \in [Pins -> Int]
  /\ wdelay \in [Sinks -> Int] /\ delay \in [Through -> Int]
  /\ sign \in [Nets -> {"old", "arrival", "required"}]
  /\ job \in [kind : {"none", "full", "incremental", "local", "required"},
              required : BOOLEAN, cells : SUBSET Instances]
  /\ phase \in {"idle", "arrival", "required"}
  /\ queue \subseteq Nets /\ endpoints \subseteq Nets

\* Recomputing net n changes no arrival time and no delay.
ArrivalsSettled(n) ==
  HasDriver(n) => /\ ArrivalsWith(n) = a
                  /\ DelaysWith(n) = delay
                  /\ WireDelaysWith(n) = wdelay

\* Visiting net n changes no required time on it.
RequiredSettled(n) ==
  HasDriver(n) => \A p \in PinsOn(n) : RequiredWith(n)[p] = q[p]

UpToDate == Idle /\ ~force /\ dirtyNets = {} /\ dirtyInstances = {}

\* The arrival times of the pins as a full update leaves them: those of pins that
\* no driver reaches, and of the clock net, stay as they are.
FullArrival[p \in Pins] ==
  LET n == net[p]
  IN  IF n \in {NoNet, ClockNet} \/ ~HasDriver(n) THEN a[p]
      ELSE IF p \in Sinks THEN FullArrival[Driver(n)] + WireDelay(p, tree[n])
      ELSE IF ArcsInto(p) = {} THEN PortArrival(p, tree[n])
      ELSE Max({FullArrival[t[1]] + NewDelay(t, n) : t \in ArcsInto(p)})

\* The arrival times after an incremental update are those of a full one: the
\* latest path through the present netlist, whatever the earlier values were.
AgreesWithFull ==
  UpToDate => \A n \in Nets : HasDriver(n) => \A p \in PinsOn(n) : a[p] = FullArrival[p]

\* After an update, full or incremental, recomputing any net (the clock net apart,
\* which is never a seed) changes nothing: arrival times and delays are those of
\* the present design and routing, whatever edits and local updates came before,
\* and no net was forgotten or taken too early.
ArrivalsUpToDate ==
  UpToDate => /\ \A n \in Nets \ {ClockNet} : ArrivalsSettled(n)
              /\ tree = UpdatedTree

\* As long as the timer reports them in sync, required times are those that a
\* full propagation gives on every net without clock pins, in spite of pruning.
RequiredUpToDate ==
  UpToDate /\ ~outOfSync =>
    \A n \in Nets : SinksOn(n) \cap ClockPins = {} => RequiredSettled(n)

\* "If it's in sync, an incremental update will keep everything in sync."
RequiredInSync ==
  UpToDate /\ ~outOfSync => \A n \in Nets : RequiredSettled(n)

=============================================================================
