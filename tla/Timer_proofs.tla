------------------------------ MODULE Timer_proofs ------------------------------
(***************************************************************************)
(* After an update the arrival times are those of the present design, and  *)
(* so are the required times as long as the timer holds them in sync.      *)
(***************************************************************************)
EXTENDS Timer, Least, FiniteSetTheorems, TLAPS

(***************************************************************************)
(* An incremental update never starts from the clock net.  It is right     *)
(* nevertheless if nothing but a full update visits that net: it is driven *)
(* by a port, and local updates are asked for instances that are not on it *)
(* (registers are, and timing then stays inconsistent until a full update).*)
(***************************************************************************)
ClockLeftAlone ==
  /\ \A t \in Through : <<t[2], ClockNet>> \notin Wirings
  /\ \A w \in Wirings : Owner[w[1]] \in LocalCells => w[2] # ClockNet

-----------------------------------------------------------------------------
(***************************************************************************)
(* The inductive invariant.                                                *)
(***************************************************************************)

\* Types of what is no time; times are only known to have a value.
Typed ==
  /\ net \in [Pins -> Nets \cup {NoNet}]
  /\ lcell = [i \in Instances |-> lcell[i]]
  /\ place = [i \in Instances |-> place[i]]
  /\ tree = [n \in Nets |-> tree[n]]
  /\ a = [p \in Pins |-> a[p]]
  /\ wdelay = [s \in Sinks |-> wdelay[s]]
  /\ delay = [t \in Through |-> delay[t]]
  /\ sign \in [Nets -> {"old", "arrival", "required"}]
  /\ job \in [kind : {"none", "full", "incremental", "local", "required"},
              required : BOOLEAN, cells : SUBSET Instances]
  /\ queue \subseteq Nets /\ endpoints \subseteq Nets
  /\ dirtyNets \subseteq Nets \cup {NoNet}
  /\ force \in BOOLEAN

Wired ==
  /\ \A p \in Pins : net[p] # NoNet => <<p, net[p]>> \in Wirings
  /\ \A d, e \in Drivers : net[d] = net[e] /\ net[d] # NoNet => d = e
  /\ Acyclic(net)

Whole == job.kind \in {"full", "incremental"}

JobRuns ==
  /\ job.kind = "none" => job = NoJob
  /\ phase \in {"idle", "arrival", "required"}
  /\ phase = "idle" <=> job.kind = "none"
  /\ phase = "arrival" => job.kind \in {"full", "incremental", "local"}
  /\ phase = "required" => job.kind \in {"full", "incremental", "required"}
  /\ job.kind = "incremental" => ~force
  /\ job.kind \in {"incremental", "local"} /\ phase = "arrival" => ClockNet \notin queue
  /\ job.kind \in {"none", "local"} => \A n \in Nets : sign[n] # "arrival"
  /\ Whole => tree = UpdatedTree

\* No net that was visited waits downstream of a queued one.
VisitedInOrder ==
  Whole /\ phase = "arrival" =>
    \A m \in Nets, u \in queue : sign[m] = "arrival" => m \notin Downstream(u, net)

\* The nets that an incremental update would start from.
Marked == {n \in Nets : n \in dirtyNets \/ \E i \in dirtyInstances : n \in NetsOf(i)}

TreesMarked ==
  ~force => \A n \in Estimated : tree[n] = Shape(n) \/ n \in Marked

\* The nets that are still to be recomputed.
Pending ==
  IF ~Whole THEN Marked ELSE IF phase = "arrival" THEN queue ELSE {}

\* A net is settled, is to be recomputed, or follows one that is.
Covered(n) ==
  \/ ArrivalsSettled(n)
  \/ n \in Pending
  \/ \E u \in Pending \ {ClockNet} : n \in NextNets(u, net)

NetsCovered ==
  Whole \/ ~force => \A n \in Nets \ {ClockNet} : Covered(n)

IInv ==
  Typed /\ Wired /\ JobRuns /\ VisitedInOrder /\ TreesMarked /\ NetsCovered

-----------------------------------------------------------------------------
(***************************************************************************)
(* The nets downstream.                                                    *)
(***************************************************************************)

\* The next nets are downstream.
LEMMA NextIsDownstream ==
  ASSUME NEW nt \in [Pins -> Nets \cup {NoNet}], NEW n \in Nets,
         NEW m \in NextNets(n, nt)
  PROVE  m \in Downstream(n, nt)
<1> DEFINE next == [k \in Nets |-> NextNets(k, nt)]
<1>1. m \in Nets
  BY PinsAssumption DEF NextNets, Pins
<1>2. ASSUME NEW D \in SUBSET Nets, \A k \in D \cup {n} : next[k] \subseteq D
      PROVE  m \in D
  BY <1>2
<1> QED
  BY <1>1, <1>2 DEF Downstream

\* What is downstream of a next net is downstream.
LEMMA DownstreamOfNext ==
  ASSUME NEW nt \in [Pins -> Nets \cup {NoNet}], NEW n \in Nets,
         NEW x \in NextNets(n, nt), NEW m \in Downstream(x, nt)
  PROVE  m \in Downstream(n, nt)
<1> DEFINE next == [k \in Nets |-> NextNets(k, nt)]
<1>1. m \in Nets /\ \A D \in SUBSET Nets :
        (\A k \in D \cup {x} : next[k] \subseteq D) => m \in D
  BY DEF Downstream
<1>2. ASSUME NEW D \in SUBSET Nets, \A k \in D \cup {n} : next[k] \subseteq D
      PROVE  m \in D
  <2>1. x \in D
    BY <1>2
  <2>2. \A k \in D \cup {x} : next[k] \subseteq D
    BY <1>2, <2>1
  <2> QED
    BY <1>1, <2>2
<1> QED
  BY <1>1, <1>2 DEF Downstream

\* Fewer arcs lead to fewer nets.
LEMMA DownstreamShrinks ==
  ASSUME NEW nt \in [Pins -> Nets \cup {NoNet}],
         NEW less \in [Pins -> Nets \cup {NoNet}],
         \A k \in Nets : NextNets(k, less) \subseteq NextNets(k, nt),
         Acyclic(nt)
  PROVE  Acyclic(less)
<1> SUFFICES ASSUME NEW n \in Nets, n \in Downstream(n, less)
             PROVE  n \in Downstream(n, nt)
  BY DEF Acyclic
<1> DEFINE next == [k \in Nets |-> NextNets(k, nt)]
           fewer == [k \in Nets |-> NextNets(k, less)]
<1>1. \A D \in SUBSET Nets : (\A k \in D \cup {n} : fewer[k] \subseteq D) => n \in D
  BY DEF Downstream
<1>2. ASSUME NEW D \in SUBSET Nets, \A k \in D \cup {n} : next[k] \subseteq D
      PROVE  n \in D
  <2>1. \A k \in D \cup {n} : fewer[k] \subseteq next[k]
    OBVIOUS
  <2>2. \A k \in D \cup {n} : fewer[k] \subseteq D
    BY <1>2, <2>1
  <2> QED
    BY <1>1, <2>2
<1> QED
  BY <1>2 DEF Downstream

-----------------------------------------------------------------------------
(***************************************************************************)
(* Settled nets.                                                           *)
(***************************************************************************)

\* Nothing that the timing of net n is computed from, or that holds it, changes.
Untouched(n) ==
  /\ \A p \in Pins : net'[p] = n <=> net[p] = n
  /\ \A p \in Pins : net[p] = n => a'[p] = a[p]
  /\ \A s \in Sinks : net[s] = n => wdelay'[s] = wdelay[s]
  /\ tree'[n] = tree[n]
  /\ \A t \in Through : net[t[2]] = n =>
       /\ a'[t[1]] = a[t[1]]
       /\ delay'[t] = delay[t]
       /\ lcell'[Owner[t[1]]] = lcell[Owner[t[1]]]

\* The driver of a net is the only OUT pin on it.
LEMMA DriverIs ==
  ASSUME Wired, NEW n \in Nets, NEW d \in Drivers, net[d] = n
  PROVE  Driver(n) = d
BY NetsAssumption DEF Driver, Wired

\* The same, in the next state.
LEMMA NextDriverIs ==
  ASSUME Wired', NEW n \in Nets, NEW d \in Drivers, net'[d] = n
  PROVE  Driver(n)' = d
BY NetsAssumption DEF Driver, Wired

\* A net that is not touched has the driver, arrival time and delays it had.
LEMMA UntouchedKeeps ==
  ASSUME Typed, Wired, Wired', NEW n \in Nets, Untouched(n), HasDriver(n)
  PROVE  /\ Driver(n) \in Drivers /\ net[Driver(n)] = n
         /\ Driver(n)' = Driver(n)
         /\ \A t \in Through : net[t[2]] = n => NewDelay(t, n)' = NewDelay(t, n)
         /\ DriverArrival(n)' = DriverArrival(n)
<1>1. PICK d \in Drivers : net[d] = n
  BY DEF HasDriver
<1>2. Driver(n) = d
  BY <1>1, DriverIs
<1>3. Driver(n)' = d
  <2>1. net'[d] = n
    BY <1>1 DEF Untouched, Pins
  <2> QED
    BY <2>1, NextDriverIs
<1>4. \A t \in Through : net[t[2]] = n => NewDelay(t, n)' = NewDelay(t, n)
  BY DEF NewDelay, Untouched
<1>5. DriverArrival(n)' = DriverArrival(n)
  <2> DEFINE before == {a[t[1]] + NewDelay(t, n) : t \in ArcsInto(d)}
             after == {a'[t[1]] + NewDelay(t, n)' : t \in ArcsInto(d)}
  <2>1. ArcsInto(d) \subseteq Through /\ \A t \in ArcsInto(d) : net[t[2]] = n
    BY <1>1 DEF ArcsInto
  <2>2. tree'[n] = tree[n]
    BY DEF Untouched
  <2>3. \A t \in ArcsInto(d) : a'[t[1]] + NewDelay(t, n)' = a[t[1]] + NewDelay(t, n)
    BY <2>1, <1>4 DEF Untouched
  <2>4. after = before
    BY <2>3
  <2>5. DriverArrival(n) = IF ArcsInto(d) = {} THEN PortArrival(d, tree[n])
                           ELSE Max(before)
    BY <1>2 DEF DriverArrival
  <2>6. DriverArrival(n)' = IF ArcsInto(d) = {} THEN PortArrival(d, tree'[n])
                            ELSE Max(after)
    BY <1>3 DEF DriverArrival, ArcsInto
  <2> HIDE DEF before, after
  <2> QED
    BY <2>2, <2>4, <2>5, <2>6
<1> QED
  BY <1>1, <1>2, <1>3, <1>4, <1>5

\* A settled net that is not touched stays settled.
LEMMA SettledKept ==
  ASSUME Typed, Typed', Wired, Wired', NEW n \in Nets, Untouched(n),
         ArrivalsSettled(n)
  PROVE  ArrivalsSettled(n)'
<1> SUFFICES ASSUME HasDriver(n)'
             PROVE  (ArrivalsWith(n) = a /\ DelaysWith(n) = delay /\
                     WireDelaysWith(n) = wdelay)'
  BY DEF ArrivalsSettled
<1>1. HasDriver(n)
  BY DEF HasDriver, Untouched, Pins
<1>2. ArrivalsWith(n) = a /\ DelaysWith(n) = delay /\ WireDelaysWith(n) = wdelay
  BY <1>1 DEF ArrivalsSettled
<1>3. DriverArrival(n)' = DriverArrival(n)
  BY <1>1, UntouchedKeeps
<1>4. ArrivalsWith(n)' = a'
  <2>1. ASSUME NEW p \in Pins PROVE ArrivalsWith(n)'[p] = a'[p]
    <3>1. CASE net[p] # n
      BY <3>1 DEF ArrivalsWith, Untouched
    <3>2. CASE net[p] = n
      <4>1. net'[p] = n /\ a'[p] = a[p] /\ tree'[n] = tree[n]
        BY <3>2 DEF Untouched
      <4>2. ArrivalsWith(n)[p] = a[p]
        BY <1>2
      <4> QED
        BY <3>2, <4>1, <4>2, <1>3 DEF ArrivalsWith
    <3> QED
      BY <3>1, <3>2
  <2>2. a' = [p \in Pins |-> a'[p]]
    BY DEF Typed
  <2>3. ArrivalsWith(n)' = [p \in Pins |-> ArrivalsWith(n)'[p]]
    BY DEF ArrivalsWith
  <2> QED
    BY <2>1, <2>2, <2>3
<1>5. DelaysWith(n)' = delay'
  <2>1. ASSUME NEW t \in Through PROVE DelaysWith(n)'[t] = delay'[t]
    <3>0. t[2] \in Pins
      BY PinsAssumption DEF Pins
    <3>1. CASE net[t[2]] # n
      BY <3>0, <3>1 DEF DelaysWith, Untouched
    <3>2. CASE net[t[2]] = n
      <4>1. net'[t[2]] = n /\ delay'[t] = delay[t]
        BY <3>0, <3>2 DEF Untouched
      <4>2. DelaysWith(n)[t] = delay[t]
        BY <1>2
      <4>3. NewDelay(t, n)' = NewDelay(t, n)
        BY <1>1, <3>2, UntouchedKeeps
      <4> QED
        BY <3>2, <4>1, <4>2, <4>3 DEF DelaysWith
    <3> QED
      BY <3>1, <3>2
  <2>2. delay' = [t \in Through |-> delay'[t]]
    BY DEF Typed
  <2>3. DelaysWith(n)' = [t \in Through |-> DelaysWith(n)'[t]]
    BY DEF DelaysWith
  <2> QED
    BY <2>1, <2>2, <2>3
<1>6. WireDelaysWith(n)' = wdelay'
  <2>1. ASSUME NEW s \in Sinks PROVE WireDelaysWith(n)'[s] = wdelay'[s]
    <3>1. (net'[s] = n <=> net[s] = n) /\ tree'[n] = tree[n]
      BY DEF Untouched, Pins
    <3>2. net[s] = n => wdelay'[s] = wdelay[s]
      BY DEF Untouched
    <3>3. WireDelaysWith(n)[s] = wdelay[s]
      BY <1>2
    <3> QED
      BY <3>1, <3>2, <3>3 DEF WireDelaysWith
  <2>2. wdelay' = [s \in Sinks |-> wdelay'[s]]
    BY DEF Typed
  <2>3. WireDelaysWith(n)' = [s \in Sinks |-> WireDelaysWith(n)'[s]]
    BY DEF WireDelaysWith
  <2> QED
    BY <2>1, <2>2, <2>3
<1> QED
  BY <1>4, <1>5, <1>6

-----------------------------------------------------------------------------
(***************************************************************************)
(* Edits.                                                                  *)
(***************************************************************************)

\* An edit keeps the invariant if it marks the nets that it touches, those whose
\* tree gets out of date and those that no longer follow the net they followed.
LEMMA EditKeepsIInv ==
  ASSUME IInv, Idle, Typed', Wired', running' = running, force' = force,
         tree' = tree,
         Marked \subseteq Marked',
         \A n \in Nets \ Marked' :
           /\ Untouched(n)
           /\ n \in Estimated' => n \in Estimated /\ Shape(n)' = Shape(n)
           /\ \A u \in Nets : n \in NextNets(u, net) => n \in NextNets(u, net')
  PROVE  IInv'
<1> USE DEF IInv
<1>1. job' = job /\ phase' = phase /\ queue' = queue /\ sign' = sign /\ job.kind = "none"
  BY DEF running, Idle, NoJob
<1>2. ~Whole /\ ~Whole'
  BY <1>1 DEF Whole
<1>3. JobRuns'
  BY <1>1, <1>2 DEF JobRuns
<1>4. VisitedInOrder'
  BY <1>2 DEF VisitedInOrder
<1>5. TreesMarked'
  BY DEF TreesMarked, Estimated
<1>6. NetsCovered'
  <2> SUFFICES ASSUME ~force, NEW n \in Nets \ {ClockNet}, n \notin Marked'
               PROVE  Covered(n)'
    BY <1>2 DEF NetsCovered, Covered, Pending
  <2>1. Pending = Marked /\ Pending' = Marked'
    BY <1>2 DEF Pending
  <2>2. n \notin Pending /\ Covered(n)
    BY <2>1 DEF NetsCovered
  <2>3. CASE ArrivalsSettled(n)
    BY <2>3, SettledKept DEF Covered
  <2>4. CASE \E u \in Pending \ {ClockNet} : n \in NextNets(u, net)
    <3>1. PICK u \in Marked \ {ClockNet} : n \in NextNets(u, net)
      BY <2>1, <2>4
    <3>2. u \in Pending' \ {ClockNet} /\ n \in NextNets(u, net')
      BY <2>1, <3>1 DEF Marked
    <3> QED
      BY <3>2 DEF Covered
  <2> QED
    BY <2>2, <2>3, <2>4 DEF Covered
<1> QED
  BY <1>3, <1>4, <1>5, <1>6

\* connectPin marks the net; nets get more next nets only.
LEMMA ConnectPinKeepsIInv ==
  ASSUME IInv, NEW p \in Pins, NEW m \in Nets, <<p, m>> \in Wirings, ConnectPin(p, m)
  PROVE  IInv'
<1> USE DEF IInv
<1>1. /\ Idle /\ net[p] = NoNet /\ net' = [net EXCEPT ![p] = m]
      /\ (p \in Drivers => ~HasDriver(m)) /\ Acyclic(net')
      /\ dirtyNets' = dirtyNets \cup {m}
      /\ dirtyInstances' = dirtyInstances \cup {Owner[p]}
      /\ lcell' = lcell /\ place' = place /\ tree' = tree /\ force' = force
      /\ a' = a /\ wdelay' = wdelay /\ delay' = delay
      /\ running' = running /\ sign' = sign /\ job' = job /\ queue' = queue
      /\ endpoints' = endpoints
  BY DEF ConnectPin, values, running
<1>2. Typed'
  BY <1>1 DEF Typed
<1>3. \A x \in Pins : net'[x] = IF x = p THEN m ELSE net[x]
  BY <1>1 DEF Typed
<1>4. Wired'
  BY <1>1, <1>3 DEF Wired, HasDriver, Pins
<1>5. Marked \subseteq Marked' /\ m \in Marked'
  <2>1. ASSUME NEW n \in Nets, NEW i \in dirtyInstances, n \in NetsOf(i)
        PROVE  n \in NetsOf(i)'
    BY <1>1, <1>3, <2>1, NetsAssumption DEF NetsOf
  <2> QED
    BY <1>1, <2>1 DEF Marked
<1>6. ASSUME NEW n \in Nets \ Marked'
      PROVE  /\ Untouched(n)
             /\ n \in Estimated' => n \in Estimated /\ Shape(n)' = Shape(n)
             /\ \A u \in Nets : n \in NextNets(u, net) => n \in NextNets(u, net')
  <2>1. n # m
    BY <1>5
  <2>2. \A x \in Pins : net'[x] = n <=> net[x] = n
    BY <1>1, <1>3, <2>1, NetsAssumption
  <2>3. PinsOn(n)' = PinsOn(n)
    BY <2>2 DEF PinsOn
  <2>4. Untouched(n)
    BY <1>1, <2>2 DEF Untouched
  <2>5. n \in Estimated' => n \in Estimated /\ Shape(n)' = Shape(n)
    BY <1>1, <2>3 DEF Estimated, Shape
  <2>6. \A u \in Nets : n \in NextNets(u, net) => n \in NextNets(u, net')
    BY <1>1, <1>3, PinsAssumption, NetsAssumption DEF NextNets, Pins
  <2> QED
    BY <2>4, <2>5, <2>6
<1> QED
  BY <1>1, <1>2, <1>4, <1>5, <1>6, EditKeepsIInv

\* disconnectPin marks the net that the pin leaves, and with the instance the
\* nets that its sinks lead to.
LEMMA DisconnectPinKeepsIInv ==
  ASSUME IInv, NEW p \in Pins, DisconnectPin(p)
  PROVE  IInv'
<1> USE DEF IInv
<1>1. /\ Idle /\ net' = [net EXCEPT ![p] = NoNet]
      /\ dirtyNets' = dirtyNets \cup {net[p]}
      /\ dirtyInstances' = dirtyInstances \cup {Owner[p]}
      /\ lcell' = lcell /\ place' = place /\ tree' = tree /\ force' = force
      /\ a' = a /\ wdelay' = wdelay /\ delay' = delay
      /\ running' = running /\ sign' = sign /\ job' = job /\ queue' = queue
      /\ endpoints' = endpoints
  BY DEF DisconnectPin, values, running
<1>2. Typed'
  BY <1>1 DEF Typed
<1>3. \A x \in Pins : net'[x] = IF x = p THEN NoNet ELSE net[x]
  BY <1>1 DEF Typed
<1>4. \A u \in Nets : NextNets(u, net') \subseteq NextNets(u, net)
  BY <1>3, PinsAssumption, NetsAssumption DEF NextNets, Pins
<1>5. Wired'
  <2>1. Acyclic(net')
    BY <1>2, <1>4, DownstreamShrinks DEF Typed, Wired
  <2> QED
    BY <1>3, <2>1 DEF Wired, Pins
<1>6. Marked \subseteq Marked' /\ (net[p] # NoNet => net[p] \in Marked')
  <2>1. ASSUME NEW n \in Nets, NEW i \in dirtyInstances, n \in NetsOf(i), n # net[p]
        PROVE  n \in NetsOf(i)'
    BY <1>1, <1>3, <2>1, NetsAssumption DEF NetsOf
  <2>2. net[p] # NoNet => net[p] \in Nets
    BY DEF Typed
  <2> QED
    BY <1>1, <2>1, <2>2 DEF Marked
<1>7. ASSUME NEW n \in Nets \ Marked'
      PROVE  /\ Untouched(n)
             /\ n \in Estimated' => n \in Estimated /\ Shape(n)' = Shape(n)
             /\ \A u \in Nets : n \in NextNets(u, net) => n \in NextNets(u, net')
  <2>1. n # net[p] /\ n # NoNet
    BY <1>6, NetsAssumption
  <2>2. \A x \in Pins : net'[x] = n <=> net[x] = n
    BY <1>3, <2>1
  <2>3. PinsOn(n)' = PinsOn(n)
    BY <2>2 DEF PinsOn
  <2>4. Untouched(n)
    BY <1>1, <2>2 DEF Untouched
  <2>5. n \in Estimated' => n \in Estimated /\ Shape(n)' = Shape(n)
    BY <1>1, <2>3 DEF Estimated, Shape
  <2>6. ASSUME NEW u \in Nets, n \in NextNets(u, net)
        PROVE  n \in NextNets(u, net')
    <3>1. PICK t \in Through : net[t[1]] = u /\ net[t[2]] = n
      BY <2>6 DEF NextNets
    <3>2. t[1] \in Pins /\ t[2] \in Pins /\ Owner[t[1]] = Owner[t[2]]
      BY PinsAssumption DEF Pins
    <3>3. t[2] # p /\ net'[t[2]] = n
      BY <3>1, <3>2, <2>1, <2>2
    <3>4. t[1] # p
      <4>1. SUFFICES ASSUME t[1] = p PROVE FALSE
        OBVIOUS
      <4>2. n \in NetsOf(Owner[p])'
        BY <3>2, <3>3, <4>1, <2>1 DEF NetsOf
      <4> QED
        BY <1>1, <4>2 DEF Marked
    <3>5. net'[t[1]] = u
      BY <1>3, <3>1, <3>2, <3>4
    <3> QED
      BY <2>1, <3>3, <3>5 DEF NextNets
  <2> QED
    BY <2>4, <2>5, <2>6
<1> QED
  BY <1>1, <1>2, <1>5, <1>6, <1>7, EditKeepsIInv

\* remap and placeCell mark the instance, and so all its nets.
LEMMA InstanceEditKeepsIInv ==
  ASSUME IInv, NEW i \in Instances,
         \/ \E c \in LibraryCells[i] : Remap(i, c)
         \/ \E x \in Places[i] : Move(i, x)
  PROVE  IInv'
<1> USE DEF IInv
<1>1. /\ Idle /\ net' = net
      /\ dirtyNets' = dirtyNets /\ dirtyInstances' = dirtyInstances \cup {i}
      /\ tree' = tree /\ force' = force
      /\ a' = a /\ wdelay' = wdelay /\ delay' = delay
      /\ running' = running /\ sign' = sign /\ job' = job /\ queue' = queue
      /\ endpoints' = endpoints
      /\ \/ \E c : lcell' = [lcell EXCEPT ![i] = c] /\ place' = place
         \/ \E x : place' = [place EXCEPT ![i] = x] /\ lcell' = lcell
  BY DEF Remap, Move, values, running
<1>2. /\ lcell' = [k \in Instances |-> lcell'[k]]
      /\ place' = [k \in Instances |-> place'[k]]
      /\ \A k \in Instances \ {i} : lcell'[k] = lcell[k] /\ place'[k] = place[k]
  BY <1>1 DEF Typed
<1>3. Typed' /\ Wired'
  BY <1>1, <1>2 DEF Typed, Wired
<1>4. Marked \subseteq Marked' /\ \A p \in Pins : Owner[p] = i /\ net[p] # NoNet => net[p] \in Marked'
  <2>1. \A k \in Instances : NetsOf(k)' = NetsOf(k)
    BY <1>1 DEF NetsOf
  <2>2. Marked \subseteq Marked'
    BY <1>1 DEF Marked, NetsOf
  <2>3. ASSUME NEW p \in Pins, Owner[p] = i, net[p] # NoNet
        PROVE  net[p] \in Marked'
    <3>1. net[p] \in Nets
      BY <2>3 DEF Typed
    <3>2. net[p] \in NetsOf(i)'
      BY <1>1, <2>3 DEF NetsOf
    <3> QED
      BY <1>1, <3>1, <3>2 DEF Marked
  <2> QED
    BY <2>2, <2>3
<1>5. ASSUME NEW n \in Nets \ Marked'
      PROVE  /\ Untouched(n)
             /\ n \in Estimated' => n \in Estimated /\ Shape(n)' = Shape(n)
             /\ \A u \in Nets : n \in NextNets(u, net) => n \in NextNets(u, net')
  <2>1. \A p \in Pins : net[p] = n =>
          Owner[p] \in Instances \ {i}
    BY <1>4, PinsAssumption, NetsAssumption
  <2>2. Untouched(n)
    <3>1. ASSUME NEW t \in Through, net[t[2]] = n
          PROVE  lcell'[Owner[t[1]]] = lcell[Owner[t[1]]]
      BY <1>2, <2>1, <3>1, PinsAssumption DEF Pins
    <3> QED
      BY <1>1, <3>1 DEF Untouched
  <2>3. PinsOn(n)' = PinsOn(n)
    BY <1>1 DEF PinsOn
  <2>4. Shape(n)' = Shape(n)
    BY <1>2, <2>1, <2>3 DEF Shape, PinsOn
  <2> QED
    BY <1>1, <2>2, <2>3, <2>4 DEF Estimated
<1> QED
  BY <1>1, <1>3, <1>4, <1>5, EditKeepsIInv

-----------------------------------------------------------------------------
(***************************************************************************)
(* Updates.                                                                *)
(***************************************************************************)

\* Nothing is touched when neither the design nor a time changes.
LEMMA QuietUntouched ==
  ASSUME UNCHANGED <<net, lcell, tree, a, wdelay, delay>>, NEW n \in Nets
  PROVE  Untouched(n)
BY DEF Untouched

\* An update starts with every net queued, or with the marked ones; the trees
\* that its update of the routing replaces are those of marked nets.
LEMMA StartKeepsIInv ==
  ASSUME IInv, Idle, NEW k \in {"full", "incremental", "local"},
         NEW required \in BOOLEAN, NEW cells \in SUBSET Instances,
         NEW S \in SUBSET Nets, Start(k, required, cells, S),
         k = "full" => S = Nets,
         k = "incremental" => ~force /\ S = Marked \ {ClockNet},
         k = "local" => ClockNet \notin S
  PROVE  IInv'
<1> USE DEF IInv
<1>1. /\ UNCHANGED <<net, lcell, place, dirtyNets, dirtyInstances, force, a, wdelay,
                     delay, sign, endpoints>>
      /\ tree' = UpdatedTree
      /\ job' = [kind |-> k, required |-> required, cells |-> cells]
      /\ phase' = "arrival" /\ queue' = S
  BY DEF Start, design, marks, values
<1>2. job.kind = "none" /\ job'.kind = k
  BY <1>1 DEF Idle, NoJob
<1>3. Typed'
  BY <1>1 DEF Typed, UpdatedTree
<1>4. Wired'
  BY <1>1 DEF Wired
<1>5. Estimated' = Estimated /\ \A n \in Nets : Shape(n)' = Shape(n)
  BY <1>1 DEF Estimated, Shape, PinsOn
<1>6. \A n \in Nets : tree'[n] = IF n \in Estimated THEN Shape(n) ELSE tree[n]
  BY <1>1 DEF UpdatedTree
<1>7. JobRuns'
  <2>1. tree' = UpdatedTree'
    BY <1>1, <1>5, <1>6 DEF UpdatedTree
  <2>2. \A n \in Nets : sign'[n] # "arrival"
    BY <1>1, <1>2 DEF JobRuns
  <2> QED
    BY <1>1, <1>2, <2>1, <2>2 DEF JobRuns, Whole
<1>8. VisitedInOrder'
  BY <1>1, <1>2 DEF VisitedInOrder, JobRuns
<1>9. TreesMarked'
  BY <1>5, <1>6 DEF TreesMarked, Estimated
<1>10. NetsCovered'
  <2>1. CASE k = "full"
    BY <1>1, <1>2, <2>1 DEF NetsCovered, Covered, Pending, Whole
  <2>2. CASE k # "full"
    <3> SUFFICES ASSUME ~force, NEW n \in Nets \ {ClockNet}
                 PROVE  Covered(n)'
      BY <1>1, <1>2, <2>2 DEF NetsCovered, Whole
    <3>1. Marked' = Marked
      BY <1>1 DEF Marked, NetsOf
    <3>2. Marked \ {ClockNet} \subseteq Pending'
      BY <1>1, <1>2, <2>2, <3>1 DEF Pending, Whole
    <3>3. Pending = Marked /\ Covered(n)
      BY <1>2 DEF NetsCovered, Pending, Whole
    <3>4. CASE n \in Marked
      BY <3>2, <3>4 DEF Covered
    <3>5. CASE n \notin Marked /\ ArrivalsSettled(n)
      <4>1. tree'[n] = tree[n]
        BY <1>6, <3>5 DEF TreesMarked
      <4>2. Untouched(n)
        BY <1>1, <4>1 DEF Untouched
      <4> QED
        BY <1>3, <1>4, <3>5, <4>2, SettledKept DEF Covered
    <3>6. CASE \E u \in Marked \ {ClockNet} : n \in NextNets(u, net)
      BY <1>1, <3>2, <3>6 DEF Covered
    <3> QED
      BY <3>3, <3>4, <3>5, <3>6 DEF Covered
  <2> QED
    BY <2>1, <2>2
<1> QED
  BY <1>3, <1>4, <1>7, <1>8, <1>9, <1>10

\* An update that crashes changes nothing.
LEMMA CrashKeepsIInv ==
  ASSUME IInv, Crash
  PROVE  IInv'
<1> USE DEF IInv
<1>1. UNCHANGED <<net, lcell, place, tree, dirtyNets, dirtyInstances, force, a,
                  wdelay, delay, sign, job, phase, queue, endpoints>>
  BY DEF Crash, design, marks, values, running
<1>2. Typed' /\ Wired'
  BY <1>1 DEF Typed, Wired
<1>3. JobRuns' /\ VisitedInOrder'
  BY <1>1 DEF JobRuns, VisitedInOrder, Whole, UpdatedTree, Estimated, Shape, PinsOn
<1>4. TreesMarked'
  BY <1>1 DEF TreesMarked, Estimated, Shape, PinsOn, Marked, NetsOf
<1>5. Pending' = Pending /\ Whole' = Whole
  BY <1>1 DEF Pending, Whole, Marked, NetsOf
<1>6. NetsCovered'
  BY <1>1, <1>2, <1>5, SettledKept, QuietUntouched DEF NetsCovered, Covered
<1> QED
  BY <1>2, <1>3, <1>4, <1>6

\* An incremental update starts from the marked nets.
LEMMA SeedsAreMarked ==
  ASSUME Typed
  PROVE  Seeds = Marked \ {ClockNet}
<1>1. \A i : NetsOf(i) \subseteq Nets
  BY DEF NetsOf, Typed
<1> QED
  BY <1>1, NetsAssumption DEF Seeds, Marked, Typed

\* The nets of a local update leave out the clock net.
LEMMA UpdateTimingLocallyKeepsIInv ==
  ASSUME IInv, ClockLeftAlone, NEW i \in LocalCells, NEW sinkCells \in BOOLEAN,
         NEW sideCells \in BOOLEAN, UpdateTimingLocally(i, sinkCells, sideCells)
  PROVE  IInv'
<1> DEFINE from == {n \in NetsOf(i) : sinkCells /\
                     (sideCells \/ \E d \in Drivers : Owner[d] = i /\ net[d] = n)}
           S == NetsOf(i) \cup UNION {NextNets(n, net) : n \in from}
<1>1. CASE RoutingFails
  BY <1>1, CrashKeepsIInv DEF UpdateTimingLocally
<1>2. CASE ~RoutingFails
  <2>1. Idle /\ Start("local", FALSE, {i}, S)
    BY <1>2 DEF UpdateTimingLocally
  <2>2. NetsOf(i) \subseteq Nets /\ ClockNet \notin NetsOf(i)
    <3>1. ASSUME NEW p \in Pins, Owner[p] = i
          PROVE  net[p] # ClockNet
      <4>1. SUFFICES ASSUME net[p] = ClockNet PROVE FALSE
        OBVIOUS
      <4>2. <<p, ClockNet>> \in Wirings
        BY <4>1, NetsAssumption DEF IInv, Wired
      <4> DEFINE w == <<p, ClockNet>>
      <4>3. Owner[w[1]] \in LocalCells /\ w[2] = ClockNet
        BY <3>1
      <4> QED
        BY <4>2, <4>3 DEF ClockLeftAlone
    <3> QED
      BY <3>1 DEF NetsOf, IInv, Typed
  <2>3. ASSUME NEW n \in from
        PROVE  NextNets(n, net) \subseteq Nets \ {ClockNet}
    <3>1. ASSUME NEW t \in Through, net[t[2]] # NoNet
          PROVE  net[t[2]] \in Nets \ {ClockNet}
      <4>1. t[2] \in Pins
        BY PinsAssumption DEF Pins
      <4>2. net[t[2]] \in Nets /\ <<t[2], net[t[2]]>> \in Wirings
        BY <3>1, <4>1 DEF IInv, Typed, Wired
      <4>3. net[t[2]] # ClockNet
        BY <4>2 DEF ClockLeftAlone
      <4> QED
        BY <4>2, <4>3
    <3> QED
      BY <3>1 DEF NextNets
  <2>4. S \in SUBSET Nets /\ ClockNet \notin S
    BY <2>2, <2>3
  <2>5. {i} \in SUBSET Instances
    BY NetsAssumption
  <2> HIDE DEF S
  <2> QED
    BY <2>1, <2>4, <2>5, StartKeepsIInv
<1> QED
  BY <1>1, <1>2

\* The required update starts with all nets and leaves the marks.
LEMMA StartRequiredKeepsIInv ==
  ASSUME IInv, Idle, StartRequired
  PROVE  IInv'
<1> USE DEF IInv
<1>1. /\ UNCHANGED <<net, lcell, place, tree, dirtyNets, dirtyInstances, force, a,
                     wdelay, delay, sign, endpoints>>
      /\ job' = [kind |-> "required", required |-> TRUE, cells |-> {}]
      /\ phase' = "required" /\ queue' = Nets
  BY DEF StartRequired, design, marks
<1>2. job.kind = "none" /\ job'.kind = "required" /\ ~Whole /\ ~Whole'
  BY <1>1 DEF Idle, NoJob, Whole
<1>3. Typed' /\ Wired'
  BY <1>1 DEF Typed, Wired
<1>4. JobRuns' /\ VisitedInOrder'
  BY <1>1, <1>2 DEF JobRuns, VisitedInOrder
<1>5. TreesMarked'
  BY <1>1 DEF TreesMarked, Estimated, Shape, PinsOn, Marked, NetsOf
<1>6. Pending' = Pending
  BY <1>1, <1>2 DEF Pending, Marked, NetsOf
<1>7. NetsCovered'
  BY <1>1, <1>2, <1>3, <1>6, SettledKept, QuietUntouched DEF NetsCovered, Covered
<1> QED
  BY <1>3, <1>4, <1>5, <1>7

-----------------------------------------------------------------------------
(***************************************************************************)
(* Propagation of arrival times.                                           *)
(***************************************************************************)

\* A visit settles the net: none of its arcs starts on the net itself.
LEMMA VisitSettles ==
  ASSUME Typed, Wired, Wired', NEW n \in Nets, UNCHANGED <<net, lcell, tree>>,
         a' = ArrivalsWith(n), delay' = DelaysWith(n), wdelay' = WireDelaysWith(n)
  PROVE  ArrivalsSettled(n)'
<1> SUFFICES ASSUME HasDriver(n)'
             PROVE  (ArrivalsWith(n) = a /\ DelaysWith(n) = delay /\
                     WireDelaysWith(n) = wdelay)'
  BY DEF ArrivalsSettled
<1>1. PICK d \in Drivers : net[d] = n
  BY DEF HasDriver
<1>2. Driver(n) = d /\ Driver(n)' = d
  BY <1>1, DriverIs, NextDriverIs
<1>3. \A t \in ArcsInto(d) : a'[t[1]] = a[t[1]]
  <2> SUFFICES ASSUME NEW t \in ArcsInto(d) PROVE a'[t[1]] = a[t[1]]
    OBVIOUS
  <2>1. t \in Through /\ t[2] = d /\ t[1] \in Sinks /\ t[1] \in Pins
    BY PinsAssumption DEF ArcsInto, Pins
  <2>2. net[t[1]] # n
    <3>1. SUFFICES ASSUME net[t[1]] = n PROVE FALSE
      OBVIOUS
    <3>2. n \in NextNets(n, net)
      BY <1>1, <2>1, <3>1, NetsAssumption DEF NextNets
    <3> QED
      BY <3>2, NextIsDownstream DEF Typed, Wired, Acyclic
  <2> QED
    BY <2>1, <2>2 DEF ArrivalsWith
<1>4. \A t : NewDelay(t, n)' = NewDelay(t, n)
  BY DEF NewDelay
<1>5. DriverArrival(n)' = DriverArrival(n)
  <2> DEFINE before == {a[t[1]] + NewDelay(t, n) : t \in ArcsInto(d)}
             after == {a'[t[1]] + NewDelay(t, n)' : t \in ArcsInto(d)}
  <2>1. after = before
    BY <1>3, <1>4
  <2>2. DriverArrival(n) = IF ArcsInto(d) = {} THEN PortArrival(d, tree[n])
                           ELSE Max(before)
    BY <1>2 DEF DriverArrival
  <2>3. DriverArrival(n)' = IF ArcsInto(d) = {} THEN PortArrival(d, tree'[n])
                            ELSE Max(after)
    BY <1>2 DEF DriverArrival, ArcsInto
  <2> HIDE DEF before, after
  <2> QED
    BY <2>1, <2>2, <2>3
<1>6. ArrivalsWith(n)' = a'
  <2>1. \A p \in Pins : ArrivalsWith(n)'[p] = a'[p]
    BY <1>5 DEF ArrivalsWith
  <2>2. ArrivalsWith(n)' = [p \in Pins |-> ArrivalsWith(n)'[p]]
    BY DEF ArrivalsWith
  <2>3. a' = [p \in Pins |-> a'[p]]
    BY DEF ArrivalsWith
  <2> QED
    BY <2>1, <2>2, <2>3
<1>7. DelaysWith(n)' = delay'
  <2>1. \A t \in Through : DelaysWith(n)'[t] = delay'[t]
    BY <1>4 DEF DelaysWith
  <2>2. DelaysWith(n)' = [t \in Through |-> DelaysWith(n)'[t]]
    BY DEF DelaysWith
  <2>3. delay' = [t \in Through |-> delay'[t]]
    BY DEF DelaysWith
  <2> QED
    BY <2>1, <2>2, <2>3
<1>8. WireDelaysWith(n)' = wdelay'
  <2>1. \A s \in Sinks : WireDelaysWith(n)'[s] = wdelay'[s]
    BY DEF WireDelaysWith
  <2>2. WireDelaysWith(n)' = [s \in Sinks |-> WireDelaysWith(n)'[s]]
    BY DEF WireDelaysWith
  <2>3. wdelay' = [s \in Sinks |-> wdelay'[s]]
    BY DEF WireDelaysWith
  <2> QED
    BY <2>1, <2>2, <2>3
<1> QED
  BY <1>6, <1>7, <1>8

\* A visit of net n touches no net but n and the next ones.
LEMMA VisitTouches ==
  ASSUME Typed, NEW n \in Nets, NEW m \in Nets, m # n, m \notin NextNets(n, net),
         UNCHANGED <<net, lcell, tree>>,
         \/ UNCHANGED <<a, wdelay, delay>>
         \/ /\ a' = ArrivalsWith(n)
            /\ delay' = DelaysWith(n)
            /\ wdelay' = WireDelaysWith(n)
  PROVE  Untouched(m)
<1>1. CASE UNCHANGED <<a, wdelay, delay>>
  BY <1>1, QuietUntouched
<1>2. CASE a' = ArrivalsWith(n) /\ delay' = DelaysWith(n) /\ wdelay' = WireDelaysWith(n)
  <2>1. \A p \in Pins : net[p] # n => a'[p] = a[p]
    BY <1>2 DEF ArrivalsWith
  <2>2. \A s \in Sinks : net[s] = m => wdelay'[s] = wdelay[s]
    BY <1>2 DEF WireDelaysWith
  <2>3. ASSUME NEW t \in Through, net[t[2]] = m
        PROVE  a'[t[1]] = a[t[1]] /\ delay'[t] = delay[t]
    <3>1. t[1] \in Pins
      BY PinsAssumption DEF Pins
    <3>2. net[t[1]] # n
      BY <2>3, NetsAssumption DEF NextNets
    <3> QED
      BY <1>2, <2>1, <2>3, <3>1, <3>2 DEF DelaysWith
  <2> QED
    BY <2>1, <2>2, <2>3 DEF Untouched
<1> QED
  BY <1>1, <1>2

\* One turn of the propagation of arrival times.  In a full or an incremental
\* update the nets that follow are queued; they have not been visited, for net n
\* would have waited upstream of them.  In a local update the net is marked.
LEMMA PropagateArrivalKeepsIInv ==
  ASSUME IInv, ClockLeftAlone, NEW n \in queue, PropagateArrival(n)
  PROVE  IInv'
<1> USE DEF IInv
<1>1. CASE PinsOn(n) # {} /\ ~HasDriver(n)
  BY <1>1, CrashKeepsIInv DEF PropagateArrival
<1>2. CASE ~(PinsOn(n) # {} /\ ~HasDriver(n))
  <2>1. /\ n \in Nets /\ phase = "arrival"
        /\ \A m \in queue : n \notin Downstream(m, net)
        /\ UNCHANGED <<net, lcell, place, tree, dirtyInstances, force, job, phase>>
        /\ \/ PinsOn(n) = {} /\ UNCHANGED <<a, delay, wdelay>>
           \/ /\ a' = ArrivalsWith(n)
              /\ delay' = DelaysWith(n)
              /\ wdelay' = WireDelaysWith(n)
        /\ VisitForward(n)
    BY <1>2 DEF PropagateArrival, Typed, design
  <2> DEFINE data == {net[x[2]] : x \in {y \in Controls : net[y[1]] = n}} \ {NoNet}
  <2>0. endpoints' \subseteq Nets
    <3>1. data \subseteq Nets
      BY PinsAssumption DEF Typed, Pins
    <3>2. endpoints' \subseteq endpoints \cup data \cup {n}
      BY <2>1 DEF VisitForward
    <3> QED
      BY <2>1, <3>1, <3>2 DEF Typed
  <2> DEFINE next == {m \in NextNets(n, net) : [sign EXCEPT ![n] = "arrival"][m] # "arrival"}
  <2>2. /\ a' = [p \in Pins |-> a'[p]]
        /\ wdelay' = [s \in Sinks |-> wdelay'[s]]
        /\ delay' = [t \in Through |-> delay'[t]]
    BY <2>1 DEF Typed, ArrivalsWith, WireDelaysWith, DelaysWith
  <2>3. Wired' /\ Estimated' = Estimated /\ \A m \in Nets : Shape(m)' = Shape(m)
    BY <2>1 DEF Wired, Estimated, Shape, PinsOn
  <2>4. \A m \in Nets : m # n /\ m \notin NextNets(n, net) => Untouched(m)
    BY <2>1, VisitTouches
  <2>5. CASE /\ job.kind = "local"
             /\ queue' = queue \ {n} /\ dirtyNets' = dirtyNets \cup {n} /\ sign' = sign
    <3>1. Typed'
      BY <2>0, <2>1, <2>2, <2>5 DEF Typed
    <3>2. ~Whole /\ ~Whole'
      BY <2>1, <2>5 DEF Whole
    <3>3. JobRuns' /\ VisitedInOrder'
      BY <2>1, <2>5, <3>2 DEF JobRuns, VisitedInOrder
    <3>4. Marked \subseteq Marked' /\ n \in Marked' /\ n # ClockNet
      BY <2>1, <2>5 DEF Marked, NetsOf, JobRuns
    <3>5. TreesMarked'
      BY <2>1, <2>3, <3>4 DEF TreesMarked, Estimated
    <3>6. Pending = Marked /\ Pending' = Marked'
      BY <3>2 DEF Pending
    <3>7. ASSUME ~force, NEW m \in Nets \ {ClockNet}, m \notin Marked'
          PROVE  Covered(m)'
      <4>1. m # n /\ Covered(m) /\ m \notin Pending
        BY <3>4, <3>6, <3>7 DEF NetsCovered
      <4>2. CASE m \in NextNets(n, net)
        BY <2>1, <3>4, <3>6, <4>2 DEF Covered
      <4>3. CASE m \notin NextNets(n, net)
        <5>1. CASE ArrivalsSettled(m)
          BY <2>3, <2>4, <3>1, <4>1, <4>3, <5>1, SettledKept DEF Covered
        <5>2. CASE \E u \in Pending \ {ClockNet} : m \in NextNets(u, net)
          BY <2>1, <3>4, <3>6, <5>2 DEF Covered
        <5> QED
          BY <4>1, <5>1, <5>2 DEF Covered
      <4> QED
        BY <4>2, <4>3
    <3>8. NetsCovered'
      BY <2>1, <3>2, <3>6, <3>7 DEF NetsCovered, Covered
    <3> QED
      BY <2>3, <3>1, <3>3, <3>5, <3>8
  <2>6. CASE /\ Whole /\ queue' = (queue \ {n}) \cup next
             /\ sign' = [sign EXCEPT ![n] = "arrival"] /\ dirtyNets' = dirtyNets
    <3>1. next \subseteq Nets
      BY PinsAssumption DEF NextNets, Typed, Pins
    <3>2. Typed'
      BY <2>0, <2>1, <2>2, <2>6, <3>1 DEF Typed
    <3>3. Whole' /\ Pending = queue /\ Pending' = queue'
      BY <2>1, <2>6 DEF Whole, Pending
    <3>4. ClockNet \notin next
      <4>1. \A t \in Through : net[t[2]] # ClockNet
        BY PinsAssumption, NetsAssumption DEF Wired, ClockLeftAlone, Pins
      <4> QED
        BY <4>1 DEF NextNets
    <3>5. JobRuns'
      <4>1. tree' = UpdatedTree'
        BY <2>1, <2>3, <2>6 DEF UpdatedTree, JobRuns
      <4> QED
        BY <2>1, <2>6, <3>3, <3>4, <4>1 DEF JobRuns, Whole
    <3>6. \A m \in Nets : sign'[m] = "arrival" => sign[m] = "arrival" \/ m = n
      BY <2>6 DEF Typed
    <3>7. ASSUME NEW m \in Nets, sign'[m] = "arrival", NEW u \in queue'
          PROVE  m \notin Downstream(u, net)
      <4>1. CASE u \in queue
        BY <2>1, <2>6, <3>6, <3>7, <4>1 DEF VisitedInOrder
      <4>2. CASE u \in next
        <5>1. m \in Downstream(u, net) => m \in Downstream(n, net)
          BY <2>1, <4>2, DownstreamOfNext DEF Typed
        <5>2. sign[m] = "arrival" => m \notin Downstream(n, net)
          BY <2>1, <2>6 DEF VisitedInOrder
        <5>3. n \notin Downstream(n, net)
          BY <2>1 DEF Wired, Acyclic
        <5> QED
          BY <3>6, <3>7, <5>1, <5>2, <5>3
      <4> QED
        BY <2>6, <4>1, <4>2
    <3>8. VisitedInOrder'
      BY <2>1, <3>7 DEF VisitedInOrder
    <3>9. TreesMarked'
      BY <2>1, <2>3, <2>6 DEF TreesMarked, Estimated, Marked, NetsOf
    <3>10. NextNets(n, net) \subseteq queue'
      <4> SUFFICES ASSUME NEW m \in NextNets(n, net) PROVE m \in next
        BY <2>6
      <4>1. m \in Nets /\ m \in Downstream(n, net)
        BY <2>1, NextIsDownstream DEF Typed, Downstream
      <4>2. sign[m] # "arrival" /\ m # n
        BY <2>1, <2>6, <4>1 DEF VisitedInOrder, Wired, Acyclic
      <4> QED
        BY <4>1, <4>2 DEF Typed
    <3>11. ASSUME NEW m \in Nets \ {ClockNet}, m \notin queue'
           PROVE  Covered(m)'
      <4>1. m \notin NextNets(n, net) /\ Covered(m)
        BY <2>6, <3>10, <3>11 DEF NetsCovered
      <4>2. CASE m = n
        <5>1. CASE PinsOn(n) = {}
          BY <2>1, <4>2, <5>1 DEF Covered, ArrivalsSettled, HasDriver, PinsOn, Pins
        <5>2. CASE PinsOn(n) # {}
          BY <2>1, <2>3, <4>2, <5>2, VisitSettles DEF Covered
        <5> QED
          BY <5>1, <5>2
      <4>3. CASE m # n
        <5>1. CASE ArrivalsSettled(m)
          BY <2>3, <2>4, <3>2, <4>1, <4>3, <5>1, SettledKept DEF Covered
        <5>2. CASE m \in queue
          BY <2>6, <3>11, <4>3, <5>2
        <5>3. CASE \E u \in queue \ {ClockNet} : m \in NextNets(u, net)
          <6>1. PICK u \in queue \ {ClockNet} : m \in NextNets(u, net)
            BY <5>3
          <6>2. u # n /\ u \in queue'
            BY <2>6, <4>1, <6>1
          <6> QED
            BY <2>1, <3>3, <6>1, <6>2 DEF Covered
        <5> QED
          BY <3>3, <4>1, <5>1, <5>2, <5>3 DEF Covered
      <4> QED
        BY <4>2, <4>3
    <3>12. NetsCovered'
      BY <3>3, <3>11 DEF NetsCovered, Covered
    <3> QED
      BY <2>3, <3>2, <3>5, <3>8, <3>9, <3>12
  <2> QED
    BY <2>1, <2>5, <2>6 DEF VisitForward, JobRuns, Whole
<1> QED
  BY <1>1, <1>2

-----------------------------------------------------------------------------
(***************************************************************************)
(* Ends of updates, and the specification.                                 *)
(***************************************************************************)

\* The steps that change neither the design nor an arrival time keep the
\* invariant if the marks survive, or nothing is left to recompute.
LEMMA QuietKeepsIInv ==
  ASSUME IInv,
         UNCHANGED <<net, lcell, place, tree, a, wdelay, delay>>,
         Typed', JobRuns', VisitedInOrder',
         \/ Marked \subseteq Marked' /\ force' = force
         \/ Whole,
         \/ Pending \subseteq Pending' /\ (Whole' \/ ~force' => Whole \/ ~force)
         \/ Whole /\ Pending = {}
  PROVE  IInv'
<1> USE DEF IInv
<1>1. Wired'
  BY DEF Wired
<1>2. Estimated' = Estimated /\ \A n \in Nets : Shape(n)' = Shape(n)
  BY DEF Estimated, Shape, PinsOn
<1>3. TreesMarked'
  <2>1. CASE Marked \subseteq Marked' /\ force' = force
    BY <1>2, <2>1 DEF TreesMarked, Estimated
  <2>2. CASE Whole
    BY <1>2, <2>2 DEF TreesMarked, JobRuns, UpdatedTree, Estimated
  <2> QED
    BY <2>1, <2>2
<1>4. ASSUME NEW n \in Nets, ArrivalsSettled(n)
      PROVE  ArrivalsSettled(n)'
  BY <1>1, <1>4, SettledKept, QuietUntouched
<1>5. NetsCovered'
  <2>1. CASE Pending \subseteq Pending' /\ (Whole' \/ ~force' => Whole \/ ~force)
    <3> SUFFICES ASSUME Whole \/ ~force, NEW n \in Nets \ {ClockNet}
                 PROVE  Covered(n)'
      BY <2>1 DEF NetsCovered
    <3>1. Covered(n)
      BY DEF NetsCovered
    <3> QED
      BY <1>4, <2>1, <3>1 DEF Covered
  <2>2. CASE Whole /\ Pending = {}
    BY <1>4, <2>2 DEF NetsCovered, Covered
  <2> QED
    BY <2>1, <2>2
<1> QED
  BY <1>1, <1>3, <1>5

\* The end of a local update adds marks.
LEMMA EndLocalKeepsIInv ==
  ASSUME IInv, EndLocal
  PROVE  IInv'
<1> USE DEF IInv
<1>1. /\ UNCHANGED <<net, lcell, place, tree, dirtyInstances, force, a, wdelay, delay,
                     queue>>
      /\ \E D : dirtyNets' = dirtyNets \cup (D \ {NoNet}) /\ D = {net[d] : d \in
                  {x \in DataPins : Owner[x] \in job.cells}}
      /\ job' = NoJob /\ phase' = "idle" /\ sign' = [n \in Nets |-> "old"]
      /\ endpoints' = {}
      /\ job.kind = "local" /\ phase = "arrival" /\ queue = {}
  BY DEF EndLocal, Return, design
<1>2. ~Whole /\ ~Whole' /\ job'.kind = "none"
  BY <1>1 DEF Whole, NoJob
<1>3. dirtyNets' \subseteq Nets \cup {NoNet}
  <2>1. DataPins \subseteq Pins
    BY PinsAssumption DEF DataPins, Pins
  <2> QED
    BY <1>1, <2>1 DEF Typed
<1>4. Typed'
  BY <1>1, <1>3 DEF Typed, NoJob
<1>5. JobRuns' /\ VisitedInOrder'
  BY <1>1, <1>2 DEF JobRuns, VisitedInOrder
<1>6. Marked \subseteq Marked' /\ Pending \subseteq Pending'
  BY <1>1, <1>2 DEF Marked, NetsOf, Pending
<1> QED
  BY <1>1, <1>2, <1>4, <1>5, <1>6, QuietKeepsIInv

\* When the arrival times are done, nothing is left to recompute.
LEMMA EndArrivalKeepsIInv ==
  ASSUME IInv, EndArrival
  PROVE  IInv'
<1> USE DEF IInv
<1>1. /\ UNCHANGED <<net, lcell, place, tree, a, wdelay, delay>>
      /\ Whole /\ phase = "arrival" /\ queue = {}
      /\ \/ /\ phase' = "required" /\ queue' \in {Nets, endpoints}
            /\ queue' = IF job.kind = "full" THEN Nets ELSE endpoints
            /\ UNCHANGED <<dirtyNets, dirtyInstances, force, sign, job, endpoints>>
         \/ /\ dirtyNets' = {} /\ force' = (force /\ job.kind # "full")
            /\ job' = NoJob /\ phase' = "idle" /\ queue' = queue
            /\ sign' = [n \in Nets |-> "old"] /\ endpoints' = {}
  BY DEF EndArrival, ClearMarks, Return, design, marks, Whole
<1>2. Pending = {}
  BY <1>1 DEF Pending
<1>3. Estimated' = Estimated /\ UpdatedTree' = UpdatedTree
  BY <1>1 DEF UpdatedTree, Estimated, Shape, PinsOn
<1>4. CASE /\ phase' = "required"
           /\ queue' = IF job.kind = "full" THEN Nets ELSE endpoints
           /\ UNCHANGED <<dirtyNets, dirtyInstances, force, sign, job, endpoints>>
  <2>1. Typed'
    BY <1>1, <1>4 DEF Typed
  <2>2. JobRuns' /\ VisitedInOrder'
    BY <1>1, <1>3, <1>4 DEF JobRuns, VisitedInOrder, Whole
  <2> QED
    BY <1>1, <1>2, <2>1, <2>2, QuietKeepsIInv
<1>5. CASE /\ dirtyNets' = {} /\ force' = (force /\ job.kind # "full")
           /\ job' = NoJob /\ phase' = "idle" /\ queue' = queue
           /\ sign' = [n \in Nets |-> "old"] /\ endpoints' = {}
  <2>1. Typed'
    BY <1>1, <1>5 DEF Typed, NoJob
  <2>2. JobRuns' /\ VisitedInOrder'
    BY <1>1, <1>5 DEF JobRuns, VisitedInOrder, Whole, NoJob
  <2> QED
    BY <1>1, <1>2, <2>1, <2>2, QuietKeepsIInv
<1> QED
  BY <1>1, <1>4, <1>5

\* Required times touch nothing that arrival times are made from.
LEMMA PropagateRequiredKeepsIInv ==
  ASSUME IInv, NEW n \in queue, PropagateRequired(n)
  PROVE  IInv'
<1> USE DEF IInv
<1>1. /\ UNCHANGED <<net, lcell, place, tree, dirtyNets, dirtyInstances, force, a,
                     wdelay, delay, job, phase, endpoints>>
      /\ phase = "required"
      /\ sign' = [sign EXCEPT ![n] = "required"]
      /\ queue' \subseteq queue \cup PreviousNets(n)
  BY DEF PropagateRequired, design, marks
<1>2. PreviousNets(n) \subseteq Nets
  BY PinsAssumption DEF PreviousNets, Typed, Pins
<1>3. Typed'
  BY <1>1, <1>2 DEF Typed
<1>4. Estimated' = Estimated /\ UpdatedTree' = UpdatedTree
  BY <1>1 DEF UpdatedTree, Estimated, Shape, PinsOn
<1>5. JobRuns' /\ VisitedInOrder'
  BY <1>1, <1>4 DEF JobRuns, VisitedInOrder, Whole
<1>6. Marked' = Marked /\ Whole' = Whole /\ Pending' = Pending
  BY <1>1 DEF Marked, NetsOf, Whole, Pending
<1> QED
  BY <1>1, <1>3, <1>5, <1>6, QuietKeepsIInv

\* After required times nothing is left to recompute either.
LEMMA EndRequiredKeepsIInv ==
  ASSUME IInv, EndRequired
  PROVE  IInv'
<1> USE DEF IInv
<1>1. /\ UNCHANGED <<net, lcell, place, tree, a, wdelay, delay, queue>>
      /\ phase = "required" /\ job.kind \in {"full", "incremental", "required"}
      /\ job' = NoJob /\ phase' = "idle" /\ sign' = [n \in Nets |-> "old"]
      /\ endpoints' = {}
      /\ \/ /\ job.kind = "required"
            /\ UNCHANGED <<dirtyNets, dirtyInstances, force>>
         \/ /\ Whole
            /\ dirtyNets' = {} /\ force' = (force /\ job.kind # "full")
  BY DEF EndRequired, ClearMarks, Return, design, values, marks, JobRuns, Whole
<1>2. ~Whole' /\ job'.kind = "none"
  BY <1>1 DEF Whole, NoJob
<1>3. Typed'
  BY <1>1 DEF Typed, NoJob
<1>4. JobRuns' /\ VisitedInOrder'
  BY <1>1, <1>2 DEF JobRuns, VisitedInOrder
<1>5. CASE Whole
  BY <1>1, <1>3, <1>4, <1>5, QuietKeepsIInv DEF Pending
<1>6. CASE ~Whole
  <2>1. Marked' = Marked /\ force' = force /\ Pending' = Pending
    BY <1>1, <1>2, <1>6 DEF Marked, NetsOf, Pending
  <2> QED
    BY <1>1, <1>2, <1>3, <1>4, <1>6, <2>1, QuietKeepsIInv
<1> QED
  BY <1>5, <1>6

\* A design that was just read has not been timed.
LEMMA InitIInv ==
  Init => IInv
<1> SUFFICES ASSUME Init PROVE IInv
  OBVIOUS
<1>1. PICK f \in [Movable -> Nets \cup {NoNet}] :
        /\ \A p \in Movable : <<p, f[p]>> \in Wirings \/ f[p] = NoNet
        /\ net = [p \in Pins |-> IF p \in Movable THEN f[p] ELSE FixedNet(p)]
  BY DEF Init
<1>2. \A p \in Pins \ Movable : FixedNet(p) \in Nets /\ <<p, FixedNet(p)>> \in Wirings
  BY NetsAssumption DEF FixedNet
<1>3. net \in [Pins -> Nets \cup {NoNet}]
  BY <1>1, <1>2
<1>4. \A p \in Pins : net[p] # NoNet => <<p, net[p]>> \in Wirings
  BY <1>1, <1>2
<1>5. /\ lcell = [i \in Instances |-> lcell[i]]
      /\ place = [i \in Instances |-> place[i]]
  <2>1. lcell = [i \in Instances |-> CHOOSE c \in LibraryCells[i] : TRUE]
    BY DEF Init
  <2>2. place = [i \in Instances |-> CHOOSE x \in Places[i] : TRUE]
    BY DEF Init
  <2> QED
    BY <2>1, <2>2
<1>6. /\ tree = [n \in Nets |-> <<>>]
      /\ dirtyNets = {} /\ force = TRUE
      /\ a = [p \in Pins |-> 0]
      /\ wdelay = [s \in Sinks |-> 0]
      /\ delay = [t \in Through |-> 0]
      /\ sign = [n \in Nets |-> "old"]
      /\ job = NoJob /\ phase = "idle" /\ queue = {} /\ endpoints = {}
      /\ Acyclic(net)
      /\ \A d, e \in Drivers : net[d] = net[e] /\ net[d] # NoNet => d = e
  BY DEF Init
<1>7. Typed
  BY <1>3, <1>5, <1>6 DEF Typed, NoJob
<1>8. Wired
  BY <1>4, <1>6 DEF Wired
<1>9. ~Whole
  BY <1>6 DEF Whole, NoJob
<1>10. JobRuns /\ VisitedInOrder /\ TreesMarked /\ NetsCovered
  BY <1>6, <1>9 DEF JobRuns, VisitedInOrder, TreesMarked, NetsCovered, NoJob
<1> QED
  BY <1>7, <1>8, <1>10 DEF IInv

\* Every step keeps the invariant.
LEMMA NextKeepsIInv ==
  ASSUME IInv, ClockLeftAlone, [Next]_vars
  PROVE  IInv'
<1>1. ASSUME NEW p \in Movable, DisconnectPin(p)
      PROVE  IInv'
  BY <1>1, NetsAssumption, DisconnectPinKeepsIInv
<1>2. ASSUME NEW p \in Movable, NEW w \in Wirings, w[1] = p, ConnectPin(p, w[2])
      PROVE  IInv'
  BY <1>2, NetsAssumption, ConnectPinKeepsIInv
<1>3. ASSUME NEW i \in Instances,
             \/ \E c \in LibraryCells[i] : Remap(i, c)
             \/ \E x \in Places[i] : Move(i, x)
      PROVE  IInv'
  BY <1>3, InstanceEditKeepsIInv
<1>4. ASSUME NEW i \in LocalCells, NEW sinkCells \in BOOLEAN, NEW sideCells \in BOOLEAN,
             UpdateTimingLocally(i, sinkCells, sideCells)
      PROVE  IInv'
  BY <1>4, UpdateTimingLocallyKeepsIInv
<1>5. ASSUME Idle, NEW required \in BOOLEAN, StartFull(required)
      PROVE  IInv'
  BY <1>5, StartKeepsIInv DEF StartFull
<1>6. ASSUME NEW required \in BOOLEAN, UpdateTimingFull(required)
      PROVE  IInv'
  BY <1>5, <1>6, CrashKeepsIInv DEF UpdateTimingFull
<1>7. ASSUME NEW required \in BOOLEAN, UpdateTimingIncremental(required)
      PROVE  IInv'
  <2>1. CASE Crash
    BY <2>1, CrashKeepsIInv
  <2>2. CASE Idle /\ StartFull(required)
    BY <1>5, <2>2
  <2>3. CASE Idle /\ ~force /\ Start("incremental", required, {}, Seeds)
    <3>1. Seeds = Marked \ {ClockNet} /\ Marked \subseteq Nets
      BY SeedsAreMarked DEF IInv, Marked
    <3> QED
      BY <2>3, <3>1, StartKeepsIInv
  <2> QED
    BY <1>7, <2>1, <2>2, <2>3 DEF UpdateTimingIncremental
<1>8. ASSUME \/ UpdateRequiredTimes
             \/ \E u \in Uncertainties : SetClockUncertainty(u)
      PROVE  IInv'
  BY <1>8, StartRequiredKeepsIInv DEF UpdateRequiredTimes, SetClockUncertainty
<1>9. ASSUME Propagate
      PROVE  IInv'
  BY <1>9, PropagateArrivalKeepsIInv, PropagateRequiredKeepsIInv, EndLocalKeepsIInv,
     EndArrivalKeepsIInv, EndRequiredKeepsIInv DEF Propagate
<1>10. ASSUME UNCHANGED vars
       PROVE  IInv'
  <2>1. /\ UNCHANGED <<net, lcell, place, tree, a, wdelay, delay>>
        /\ UNCHANGED <<dirtyNets, dirtyInstances, force, sign, job, phase, queue,
                      endpoints>>
    BY <1>10 DEF vars, design, values, marks
  <2>2. Typed'
    BY <2>1 DEF IInv, Typed
  <2>3. JobRuns' /\ VisitedInOrder'
    BY <2>1 DEF IInv, JobRuns, VisitedInOrder, Whole, UpdatedTree, Estimated, Shape, PinsOn
  <2>4. Marked' = Marked /\ Whole' = Whole /\ Pending' = Pending
    BY <2>1 DEF Marked, NetsOf, Whole, Pending
  <2> QED
    BY <2>1, <2>2, <2>3, <2>4, QuietKeepsIInv
<1> QED
  BY <1>1, <1>2, <1>3, <1>4, <1>6, <1>7, <1>8, <1>9, <1>10
  DEF Next, Edit, LocalUpdate, Update, Gone

\* After every sequence of edits, local, required, incremental and full updates,
\* an update that has returned leaves no net with the timing of an earlier design,
\* the clock net apart, as long as only full updates visit that one.
THEOREM NoNetForgotten ==
  ASSUME ClockLeftAlone
  PROVE  Spec => []ArrivalsUpToDate
<1>1. IInv => ArrivalsUpToDate
  <2> SUFFICES ASSUME IInv, UpToDate
               PROVE  (\A n \in Nets \ {ClockNet} : ArrivalsSettled(n)) /\ tree = UpdatedTree
    BY DEF ArrivalsUpToDate
  <2>1. job.kind = "none" /\ ~force /\ Marked = {}
    BY DEF UpToDate, Idle, NoJob, Marked
  <2>2. Pending = {}
    BY <2>1 DEF Pending, Whole
  <2>3. \A n \in Nets \ {ClockNet} : ArrivalsSettled(n)
    BY <2>1, <2>2 DEF IInv, NetsCovered, Covered
  <2>4. tree = UpdatedTree
    BY <2>1 DEF IInv, Typed, TreesMarked, UpdatedTree
  <2> QED
    BY <2>3, <2>4
<1> QED
  BY <1>1, InitIInv, NextKeepsIInv, PTL DEF Spec

-----------------------------------------------------------------------------
(***************************************************************************)
(* No way through the netlist is endless.                                  *)
(***************************************************************************)

\* Of a finite set of nets, fewer are downstream of the next net.
LEMMA FewerDownstream ==
  ASSUME Typed, Wired, NEW X \in SUBSET Nets, IsFiniteSet(X),
         NEW m \in Nets, NEW n \in X, n \in NextNets(m, net)
  PROVE  /\ Cardinality(Downstream(n, net) \cap X) \in Nat
         /\ Cardinality(Downstream(m, net) \cap X) \in Nat
         /\ Cardinality(Downstream(n, net) \cap X) < Cardinality(Downstream(m, net) \cap X)
         /\ Cardinality(Downstream(m, net) \cap X) <= Cardinality(X)
<1> DEFINE B == Downstream(m, net) \cap X
           A == Downstream(n, net) \cap X
<1>1. n \notin Downstream(n, net) /\ n \in Downstream(m, net)
  BY NextIsDownstream DEF Typed, Wired, Acyclic
<1>2. \A k \in Downstream(n, net) : k \in Downstream(m, net)
  BY DownstreamOfNext DEF Typed
<1>3. A \cup {n} \subseteq B /\ n \notin A /\ B \subseteq X /\ A \subseteq X
  BY <1>1, <1>2
<1> HIDE DEF A, B
<1>4. IsFiniteSet(B) /\ Cardinality(B) <= Cardinality(X)
  BY <1>3, FS_Subset
<1>5. IsFiniteSet(A) /\ IsFiniteSet(A \cup {n}) /\ Cardinality(A \cup {n}) = Cardinality(A) + 1
  BY <1>3, FS_Subset, FS_AddElement
<1>6. Cardinality(A \cup {n}) <= Cardinality(B)
  BY <1>3, <1>4, FS_Subset
<1>7. Cardinality(A) \in Nat /\ Cardinality(B) \in Nat
  BY <1>4, <1>5, FS_CardinalityType
<1>8. Cardinality(A) < Cardinality(B)
  BY <1>5, <1>6, <1>7
<1> QED BY <1>4, <1>7, <1>8 DEF A, B

\* Nets that pins are on are finitely many.
LEMMA NetsOfPinsFinite ==
  ASSUME NEW X, X \subseteq {net[p] : p \in Pins}
  PROVE  IsFiniteSet(X)
<1> DEFINE f == [p \in Pins |-> net[p]]
           T == {net[p] : p \in Pins}
<1>1. IsFiniteSet(T)
  <2>1. f \in Surjection(Pins, T)
    BY DEF Surjection
  <2> QED BY <2>1, PinsAssumption, FS_Surjection
<1> QED BY <1>1, FS_Subset

\* Not every net of a set follows another one of it.
LEMMA SomethingIsFirst ==
  ASSUME Typed, Wired, NEW X \in SUBSET Nets,
         \A n \in X : \E m \in X : n \in NextNets(m, net)
  PROVE  X = {}
<1>1. IsFiniteSet(X)
  <2>1. ASSUME NEW n \in X PROVE n \in {net[p] : p \in Pins}
    <3>1. PICK t \in Through : n = net[t[2]]
      BY DEF NextNets
    <3>2. t[2] \in Pins
      BY PinsAssumption DEF Pins
    <3> QED BY <3>1, <3>2
  <2> QED BY <2>1, NetsOfPinsFinite
<1> SUFFICES ASSUME X # {} PROVE FALSE
  OBVIOUS
<1> DEFINE C(n) == Cardinality(Downstream(n, net) \cap X)
           K == {Cardinality(X) - C(n) : n \in X}
<1>2. Cardinality(X) \in Nat
  BY <1>1, FS_CardinalityType
<1>3. \A m, n \in X : n \in NextNets(m, net) =>
        C(n) \in Nat /\ C(m) \in Nat /\ C(n) < C(m) /\ C(m) <= Cardinality(X)
  BY <1>1, FewerDownstream
<1> HIDE DEF C
<1>4. \A n \in X : C(n) \in Nat /\ C(n) <= Cardinality(X)
  BY <1>2, <1>3
<1>5. K \in SUBSET Nat /\ K # {}
  BY <1>2, <1>4
<1>6. PICK i \in K : \A j \in K : i <= j
  BY <1>5, HasLeast
<1>7. PICK n \in X : i = Cardinality(X) - C(n)
  BY <1>6
<1>8. PICK m \in X : n \in NextNets(m, net)
  OBVIOUS
<1>9. Cardinality(X) - C(n) <= Cardinality(X) - C(m)
  BY <1>6, <1>7
<1> QED BY <1>2, <1>3, <1>8, <1>9

\* Not every net of a set is followed by another one of it.
LEMMA SomethingIsLast ==
  ASSUME Typed, Wired, NEW X \in SUBSET Nets,
         \A n \in X : \E m \in X : m \in NextNets(n, net)
  PROVE  X = {}
<1>1. IsFiniteSet(X)
  <2>1. ASSUME NEW n \in X PROVE n \in {net[p] : p \in Pins}
    <3>1. PICK t \in Through : n = net[t[1]]
      BY DEF NextNets
    <3>2. t[1] \in Pins
      BY PinsAssumption DEF Pins
    <3> QED BY <3>1, <3>2
  <2> QED BY <2>1, NetsOfPinsFinite
<1> SUFFICES ASSUME X # {} PROVE FALSE
  OBVIOUS
<1> DEFINE C(n) == Cardinality(Downstream(n, net) \cap X)
           K == {C(n) : n \in X}
<1>3. \A m, n \in X : n \in NextNets(m, net) => C(n) \in Nat /\ C(m) \in Nat /\ C(n) < C(m)
  BY <1>1, FewerDownstream
<1> HIDE DEF C
<1>5. K \in SUBSET Nat /\ K # {}
  BY <1>3
<1>6. PICK i \in K : \A j \in K : i <= j
  BY <1>5, HasLeast
<1>7. PICK m \in X : i = C(m)
  BY <1>6
<1>8. PICK n \in X : n \in NextNets(m, net)
  OBVIOUS
<1>9. C(m) <= C(n)
  BY <1>6, <1>7
<1> QED BY <1>3, <1>8, <1>9

-----------------------------------------------------------------------------
(***************************************************************************)
(* The arrival times of a full update.                                     *)
(***************************************************************************)

\* What g has to be at pin p to be the arrival times of a full update.
FullAt(g, p) ==
  LET n == net[p]
  IN  IF n \in {NoNet, ClockNet} \/ ~HasDriver(n) THEN a[p]
      ELSE IF p \in Sinks THEN g[Driver(n)] + WireDelay(p, tree[n])
      ELSE IF ArcsInto(p) = {} THEN PortArrival(p, tree[n])
      ELSE Max({g[t[1]] + NewDelay(t, n) : t \in ArcsInto(p)})

\* Settled arrival times are such times.
LEMMA SettledIsFull ==
  ASSUME IInv, \A n \in Nets \ {ClockNet} : ArrivalsSettled(n)
  PROVE  \A p \in Pins : a[p] = FullAt(a, p)
<1> SUFFICES ASSUME NEW p \in Pins,
                    net[p] \notin {NoNet, ClockNet}, HasDriver(net[p])
             PROVE  a[p] = FullAt(a, p)
  BY DEF FullAt
<1>1. PICK n \in Nets \ {ClockNet} : n = net[p]
  BY DEF IInv, Typed
<1>2. ArrivalsWith(n) = a
  BY <1>1 DEF ArrivalsSettled
<1>3. PICK d \in Drivers : net[d] = n
  BY <1>1 DEF HasDriver
<1>4. Driver(n) = d /\ d \in Pins
  BY <1>3, DriverIs DEF IInv, Pins
<1>5. a[d] = DriverArrival(n)
  BY <1>2, <1>3, <1>4, PinsAssumption DEF ArrivalsWith
<1>6. CASE p \in Sinks
  <2>1. a[p] = DriverArrival(n) + WireDelay(p, tree[n])
    BY <1>1, <1>2, <1>6, PinsAssumption DEF ArrivalsWith
  <2> QED BY <1>1, <1>4, <1>5, <1>6, <2>1 DEF FullAt
<1>7. CASE p \notin Sinks
  <2>1. p = d
    BY <1>1, <1>3, <1>7 DEF IInv, Wired, Pins
  <2> QED BY <1>1, <1>4, <1>5, <1>7, <2>1 DEF FullAt, DriverArrival
<1> QED BY <1>6, <1>7

\* The function that the definition of FullArrival chooses exists.
LEMMA FullArrivalIsFull ==
  ASSUME IInv, \A n \in Nets \ {ClockNet} : ArrivalsSettled(n)
  PROVE  \A p \in Pins : FullArrival[p] = FullAt(FullArrival, p)
<1> DEFINE Full(g) == g = [p \in Pins |-> FullAt(g, p)]
<1>1. Full(a)
  BY SettledIsFull DEF IInv, Typed
<1>2. Full(CHOOSE g : Full(g))
  <2> HIDE DEF Full
  <2> QED BY <1>1
<1>3. FullArrival = CHOOSE g : Full(g)
  BY DEF FullArrival, FullAt
<1>4. Full(FullArrival)
  <2> HIDE DEF Full
  <2> QED BY <1>2, <1>3
<1> QED BY <1>4

\* There is one such function only: a pin with two times would follow another.
LEMMA FullArrivalIsArrival ==
  ASSUME IInv, \A n \in Nets \ {ClockNet} : ArrivalsSettled(n)
  PROVE  \A p \in Pins : a[p] = FullArrival[p]
<1>1. PICK F : F = FullArrival
  OBVIOUS
<1>2. \A p \in Pins : a[p] = FullAt(a, p) /\ F[p] = FullAt(F, p)
  BY <1>1, SettledIsFull, FullArrivalIsFull
<1> DEFINE X == {n \in Nets \ {ClockNet} : \E d \in Drivers : net[d] = n /\ a[d] # F[d]}
<1>3. ASSUME NEW s \in Sinks, a[s] # F[s]
      PROVE  net[s] \in X
  <2>1. s \in Pins /\ net[s] \notin {NoNet, ClockNet} /\ HasDriver(net[s])
    BY <1>2, <1>3 DEF FullAt, Pins
  <2>2. PICK n \in Nets \ {ClockNet} : n = net[s]
    BY <2>1 DEF IInv, Typed
  <2>3. PICK d \in Drivers : net[d] = n
    BY <2>1, <2>2 DEF HasDriver
  <2>4. Driver(n) = d
    BY <2>3, DriverIs DEF IInv
  <2>5. a[s] = a[d] + WireDelay(s, tree[n]) /\ F[s] = F[d] + WireDelay(s, tree[n])
    BY <1>2, <2>1, <2>2, <2>4 DEF FullAt
  <2>6. a[d] # F[d]
    BY <1>3, <2>5
  <2> QED BY <2>2, <2>3, <2>6
<1>4. ASSUME NEW n \in X
      PROVE  \E m \in X : n \in NextNets(m, net)
  <2>1. PICK d \in Drivers : net[d] = n /\ a[d] # F[d]
    BY <1>4
  <2>2. d \in Pins /\ d \notin Sinks /\ n \notin {NoNet, ClockNet} /\ HasDriver(n)
    BY <2>1, PinsAssumption, NetsAssumption DEF Pins, HasDriver
  <2>3. ArcsInto(d) # {}
    BY <1>2, <2>1, <2>2 DEF FullAt
  <2>4. /\ a[d] = Max({a[t[1]] + NewDelay(t, n) : t \in ArcsInto(d)})
        /\ F[d] = Max({F[t[1]] + NewDelay(t, n) : t \in ArcsInto(d)})
    BY <1>2, <2>1, <2>2, <2>3 DEF FullAt
  <2>5. PICK t \in ArcsInto(d) : a[t[1]] # F[t[1]]
    <3>1. (\A t \in ArcsInto(d) : a[t[1]] = F[t[1]]) =>
            {a[t[1]] + NewDelay(t, n) : t \in ArcsInto(d)}
              = {F[t[1]] + NewDelay(t, n) : t \in ArcsInto(d)}
      OBVIOUS
    <3> QED BY <2>1, <2>4, <3>1
  <2>6. t \in Through /\ t[2] = d /\ t[1] \in Sinks
    BY PinsAssumption DEF ArcsInto
  <2>7. net[t[1]] \in X
    BY <1>3, <2>5, <2>6
  <2>8. n \in NextNets(net[t[1]], net)
    BY <2>1, <2>2, <2>6 DEF NextNets
  <2> QED BY <2>7, <2>8
<1>5. X = {}
  <2>1. X \in SUBSET Nets
    OBVIOUS
  <2> HIDE DEF X
  <2> QED BY <1>4, <2>1, SomethingIsFirst DEF IInv
<1>6. ASSUME NEW p \in Drivers PROVE a[p] = F[p]
  <2>1. p \in Pins
    BY DEF Pins
  <2>2. CASE net[p] \in {NoNet, ClockNet}
    BY <1>2, <2>1, <2>2 DEF FullAt
  <2>3. CASE net[p] \notin {NoNet, ClockNet}
    BY <1>5, <2>1, <2>3 DEF IInv, Typed
  <2> QED BY <2>2, <2>3
<1> QED BY <1>1, <1>3, <1>5, <1>6 DEF Pins

\* When a timer that is up to date has arrival times, they are those that a full
\* update computes from the ports on: the latest path through the present netlist,
\* whatever incremental and local updates have left before.
THEOREM ArrivalsAreFull ==
  ASSUME ClockLeftAlone
  PROVE  Spec => []AgreesWithFull
<1>1. IInv => AgreesWithFull
  <2> SUFFICES ASSUME IInv, UpToDate
               PROVE  \A p \in Pins : a[p] = FullArrival[p]
    BY DEF AgreesWithFull, PinsOn
  <2>1. job.kind = "none" /\ ~force /\ Marked = {}
    BY DEF UpToDate, Idle, NoJob, Marked
  <2>2. Pending = {}
    BY <2>1 DEF Pending, Whole
  <2>3. \A n \in Nets \ {ClockNet} : ArrivalsSettled(n)
    BY <2>1, <2>2 DEF IInv, NetsCovered, Covered
  <2> QED BY <2>3, FullArrivalIsArrival
<1> QED
  BY <1>1, InitIInv, NextKeepsIInv, PTL DEF Spec

-----------------------------------------------------------------------------
(***************************************************************************)
(* Required times: what a propagation that stops early still has to do.    *)
(***************************************************************************)

\* A clock pin stays on the clock net, on which an incremental update visits
\* nothing by itself.
ClockNetClocks ==
  \E c \in ClockPins \ Movable : \A w \in Wirings : w[1] = c => w[2] = ClockNet

Clocked(n) == SinksOn(n) \cap ClockPins # {}

\* The timer has had a full propagation of required times.
Sync == IF job.kind = "full" THEN phase = "required" ELSE ~outOfSync

Arriving == job.kind = "incremental" /\ phase = "arrival"

Reached == {n \in Nets : sign[n] = "arrival"}

MarkedNets == Marked \ {ClockNet}

\* The nets that the propagation of required times is going to visit.
Revisited ==
  IF Arriving THEN queue \cup endpoints \cup Reached
  ELSE IF phase = "required" THEN queue \cup Reached ELSE MarkedNets

\* Those where it is not going to stop.
Disturbed ==
  IF Arriving THEN queue \cup Reached
  ELSE IF phase = "required" THEN Reached ELSE MarkedNets

\* The required times of a net are right, or the net is going to be visited, or
\* a next one is, whose delays have changed.
RequiredCovered ==
  Sync => \A n \in Nets :
    ~Clocked(n) => \/ RequiredSettled(n) \/ n \in Revisited
                   \/ \E m \in Disturbed : m \in NextNets(n, net)

\* The required time at an endpoint.
EndpointTime(d) ==
  IF d \in DataPins THEN Period + a[ClockOf(d)] - uncertainty - Setup(d, lcell[Owner[d]])
                    ELSE Period

\* The nets of endpoints, and of their clock pins, that an update has to visit.
StaleNets ==
  IF Arriving THEN queue \cup endpoints \cup Reached
  ELSE IF Whole THEN {} ELSE MarkedNets

StaleClocks ==
  IF Arriving THEN queue ELSE IF Whole THEN {} ELSE MarkedNets

EndpointsFresh ==
  Sync => \A d \in Endpoints :
    \/ q[d] = EndpointTime(d)
    \/ net[d] \in {NoNet, ClockNet} \cup StaleNets
    \/ d \in DataPins /\ net[ClockOf(d)] \in StaleClocks

\* A net that arrival times have visited is going to be reached by required
\* times: an endpoint follows it on a way through such nets.
ReachedLead ==
  /\ Arriving => \A n \in Reached :
       n \in endpoints \/ \E m \in queue \cup Reached : m \in NextNets(n, net)
  /\ phase = "required" => \A n \in Reached :
       n \in queue \/ \E m \in Reached : m \in NextNets(n, net)

\* No queued net waits downstream of one that required times have visited.
RequiredInOrder ==
  /\ phase # "required" => \A n \in Nets : sign[n] # "required"
  /\ phase = "required" =>
       \A n \in Nets, u \in queue : sign[n] = "required" => u \notin Downstream(n, net)
  /\ job.kind = "required" => Reached = {}

\* The pins that no edit moves are where they were connected.
FixedWired == \A p \in Pins \ Movable : <<p, net[p]>> \in Wirings

RInv ==
  /\ q = [p \in Pins |-> q[p]] /\ outOfSync \in BOOLEAN /\ FixedWired
  /\ RequiredCovered /\ EndpointsFresh /\ ReachedLead /\ RequiredInOrder

-----------------------------------------------------------------------------

\* Nothing that the required times of net n are computed from, or that holds
\* them, changes.
RequiredUntouched(n) ==
  /\ \A p \in Pins : net'[p] = n <=> net[p] = n
  /\ \A p \in Pins : net[p] = n => q'[p] = q[p]
  /\ \A s \in Sinks : net[s] = n => wdelay'[s] = wdelay[s]
  /\ \A t \in Through : net[t[1]] = n => q'[t[2]] = q[t[2]] /\ delay'[t] = delay[t]

\* What the required time of a sink that is no clock pin is made from.
LEMMA SinkRequiredStays ==
  ASSUME NEW s \in Sinks \ ClockPins,
         ArcsFrom(s) = {} => q'[s] = q[s],
         \A t \in ArcsFrom(s) : q'[t[2]] = q[t[2]] /\ delay'[t] = delay[t]
  PROVE  SinkRequired(s)' = SinkRequired(s)
<1>1. SpannedRequired(s)' = SpannedRequired(s)
  <2>1. CASE ArcsFrom(s) = {}
    BY <2>1 DEF SpannedRequired, ArcsFrom
  <2>2. CASE ArcsFrom(s) # {}
    <3> DEFINE before == {Less(q[t[2]], delay[t]) : t \in ArcsFrom(s)}
               after == {Less(q'[t[2]], delay'[t]) : t \in ArcsFrom(s)}
    <3>1. after = before
      OBVIOUS
    <3>2. SpannedRequired(s) = Min(before)
      BY <2>2 DEF SpannedRequired
    <3>3. SpannedRequired(s)' = Min(after)
      BY <2>2 DEF SpannedRequired, ArcsFrom, Less
    <3> HIDE DEF before, after
    <3> QED BY <3>1, <3>2, <3>3
  <2> QED BY <2>1, <2>2
<1>2. SinkRequired(s) = SpannedRequired(s) /\ SinkRequired(s)' = SpannedRequired(s)'
  BY DEF SinkRequired, ClockPins
<1> QED BY <1>1, <1>2

\* What the required time of a driver is made from.
LEMMA DriverRequiredStays ==
  ASSUME NEW n \in Nets, \A p \in Pins : net'[p] = n <=> net[p] = n,
         \A s \in SinksOn(n) : SinkRequired(s)' = SinkRequired(s) /\ wdelay'[s] = wdelay[s]
  PROVE  DriverRequired(n)' = DriverRequired(n)
<1> DEFINE before == {Less(SinkRequired(s), wdelay[s]) : s \in SinksOn(n)}
           after == {Less(SinkRequired(s)', wdelay'[s]) : s \in SinksOn(n)}
<1>1. SinksOn(n)' = SinksOn(n)
  BY DEF SinksOn, Pins
<1>2. after = before
  OBVIOUS
<1>3. DriverRequired(n) = Min({NoRequired} \cup before)
  BY DEF DriverRequired
<1>4. DriverRequired(n)' = Min({NoRequired} \cup after)
  BY <1>1 DEF DriverRequired, Less
<1> HIDE DEF before, after
<1> QED BY <1>2, <1>3, <1>4

\* What a visit of net n gives a pin on it.
LEMMA RequiredOn ==
  ASSUME NEW n \in Nets, NEW p \in Pins
  PROVE  /\ net[p] = n /\ p \in Drivers => RequiredWith(n)[p] = DriverRequired(n)
         /\ net[p] = n /\ p \in Sinks => RequiredWith(n)[p] = SinkRequired(p)
         /\ (net[p] = n /\ p \in Drivers => RequiredWith(n)[p] = DriverRequired(n))'
         /\ (net[p] = n /\ p \in Sinks => RequiredWith(n)[p] = SinkRequired(p))'
<1>1. Drivers \cap Sinks = {}
  BY PinsAssumption
<1> QED BY <1>1 DEF RequiredWith

\* Required times that are right stay so on a net that is not touched.
LEMMA RequiredKept ==
  ASSUME Typed, NEW n \in Nets, ~Clocked(n), RequiredUntouched(n), RequiredSettled(n)
  PROVE  RequiredSettled(n)'
<1> SUFFICES ASSUME HasDriver(n)', NEW p \in Pins, net'[p] = n
             PROVE  RequiredWith(n)'[p] = q'[p]
  BY DEF RequiredSettled, PinsOn
<1>1. HasDriver(n) /\ net[p] = n /\ q'[p] = q[p]
  BY DEF HasDriver, RequiredUntouched, Pins
<1>2. RequiredWith(n)[p] = q[p]
  BY <1>1 DEF RequiredSettled, PinsOn
<1>3. \A s \in SinksOn(n) : SinkRequired(s)' = SinkRequired(s) /\ wdelay'[s] = wdelay[s]
  <2> SUFFICES ASSUME NEW s \in Sinks, net[s] = n
               PROVE  SinkRequired(s)' = SinkRequired(s) /\ wdelay'[s] = wdelay[s]
    BY DEF SinksOn
  <2>1. s \notin ClockPins
    BY DEF Clocked, SinksOn
  <2>2. q'[s] = q[s] /\ wdelay'[s] = wdelay[s]
    BY DEF RequiredUntouched, Pins
  <2>3. \A t \in ArcsFrom(s) : q'[t[2]] = q[t[2]] /\ delay'[t] = delay[t]
    BY DEF RequiredUntouched, ArcsFrom
  <2> QED BY <2>1, <2>2, <2>3, SinkRequiredStays
<1>4. DriverRequired(n)' = DriverRequired(n)
  BY <1>3, DriverRequiredStays DEF RequiredUntouched
<1> QED BY <1>1, <1>2, <1>3, <1>4, RequiredOn DEF Pins, SinksOn

\* A visit leaves the net with required times that are right: they are made from
\* those of other nets.
LEMMA VisitSettlesRequired ==
  ASSUME Typed, Wired, NEW n \in Nets, ~Clocked(n), UNCHANGED <<net, wdelay, delay>>,
         q' = RequiredWith(n)
  PROVE  RequiredSettled(n)'
<1> SUFFICES ASSUME NEW p \in Pins, net'[p] = n
             PROVE  RequiredWith(n)'[p] = q'[p]
  BY DEF RequiredSettled, PinsOn
<1>1. ASSUME NEW s \in Sinks, net[s] = n
      PROVE  SinkRequired(s)' = SinkRequired(s)
  <2>1. s \notin ClockPins /\ s \in Pins
    BY <1>1 DEF Clocked, SinksOn, Pins
  <2>2. q'[s] = SinkRequired(s)
    BY <1>1, <2>1, RequiredOn
  <2>3. ArcsFrom(s) = {} => q'[s] = q[s]
    BY <2>1, <2>2 DEF SinkRequired, SpannedRequired
  <2>4. ASSUME NEW t \in ArcsFrom(s)
        PROVE  q'[t[2]] = q[t[2]]
    <3>1. t \in Through /\ t[1] = s /\ t[2] \in Drivers /\ t[2] \in Pins /\ t[2] \notin Sinks
      BY PinsAssumption DEF ArcsFrom, Pins
    <3>2. net[t[2]] # n
      <4>1. SUFFICES ASSUME net[t[2]] = n PROVE FALSE
        OBVIOUS
      <4>2. n \in NextNets(n, net)
        BY <1>1, <3>1, <4>1, NetsAssumption DEF NextNets
      <4> QED BY <4>2, NextIsDownstream DEF Typed, Wired, Acyclic
    <3>3. t[2] \notin ClockPins
      BY <3>1, PinsAssumption DEF ClockPins
    <3> QED BY <3>1, <3>2, <3>3 DEF RequiredWith
  <2> QED BY <2>1, <2>3, <2>4, SinkRequiredStays
<1>2. DriverRequired(n)' = DriverRequired(n)
  BY <1>1, DriverRequiredStays DEF SinksOn
<1> QED BY <1>1, <1>2, RequiredOn DEF Pins

-----------------------------------------------------------------------------
(***************************************************************************)
(* Edits, and the pins that required times start from.                     *)
(***************************************************************************)

\* The clock net has a clock pin in every state.
LEMMA ClockNetIsClocked ==
  ASSUME FixedWired, ClockNetClocks
  PROVE  Clocked(ClockNet)
<1>1. PICK c \in ClockPins \ Movable : \A w \in Wirings : w[1] = c => w[2] = ClockNet
  BY DEF ClockNetClocks
<1>2. c \in Sinks /\ c \in Pins
  BY PinsAssumption DEF ClockPins, Pins
<1>3. <<c, net[c]>> \in Wirings
  BY <1>1, <1>2 DEF FixedWired
<1> DEFINE w == <<c, net[c]>>
<1>4. w[1] = c /\ w[2] = net[c]
  OBVIOUS
<1>5. net[c] = ClockNet
  BY <1>1, <1>3, <1>4
<1> QED BY <1>1, <1>2, <1>5 DEF Clocked, SinksOn

\* The clock pin of a data pin is on the same instance.
LEMMA ClockOfData ==
  ASSUME NEW d \in DataPins
  PROVE  /\ ClockOf(d) \in ClockPins /\ ClockOf(d) \in Pins /\ d \in Pins
         /\ Owner[ClockOf(d)] = Owner[d] /\ <<ClockOf(d), d>> \in Controls
<1>1. PICK y \in Controls : y[2] = d
  BY DEF DataPins
<1>2. PICK x : x = CHOOSE z \in Controls : z[2] = d
  OBVIOUS
<1>3. x \in Controls /\ x[2] = d
  BY <1>1, <1>2
<1>4. ClockOf(d) = x[1]
  BY <1>2 DEF ClockOf
<1>5. x[1] \in Sinks /\ x[2] \in Sinks /\ x = <<x[1], x[2]>>
  BY <1>3, PinsAssumption
<1> QED BY <1>3, <1>4, <1>5, ControlsAssumption DEF ClockPins, Pins

\* No propagation changes the required time of an endpoint.
LEMMA EndpointIsSink ==
  ASSUME NEW d \in Endpoints
  PROVE  /\ d \in Sinks /\ d \in Pins /\ d \notin ClockPins /\ ArcsFrom(d) = {}
         /\ d \notin DataPins => d \in OutputPins
<1>1. d \in Sinks
  BY PinsAssumption DEF Endpoints, DataPins
<1> QED BY <1>1, EndpointsAssumption DEF Endpoints, DataPins, ClockPins, ArcsFrom, Pins

\* An edit marks the nets whose pins change, and the instance whose pins or
\* library cell change.
LEMMA EditKeepsRInv ==
  ASSUME IInv, Typed', RInv, ClockNetClocks, Idle, FixedWired',
         running' = running, UNCHANGED <<a, q, wdelay, delay, uncertainty, outOfSync>>,
         Marked \subseteq Marked', dirtyNets \subseteq dirtyNets',
         \A p \in Pins : Owner[p] \notin dirtyInstances' =>
           net'[p] = net[p] /\ lcell'[Owner[p]] = lcell[Owner[p]],
         \A n \in Nets \ Marked' : \A p \in Pins : net'[p] = n <=> net[p] = n
  PROVE  RInv'
<1> USE DEF IInv, RInv
<1>1. /\ UNCHANGED <<sign, job, phase, queue, endpoints>>
      /\ job.kind = "none" /\ phase = "idle"
  BY DEF running, Idle, NoJob, JobRuns
<1>2. /\ ~Arriving /\ ~Arriving' /\ ~Whole /\ ~Whole' /\ Sync' = Sync
      /\ Revisited = MarkedNets /\ Disturbed = MarkedNets
      /\ Revisited' = MarkedNets' /\ Disturbed' = MarkedNets'
      /\ StaleNets = MarkedNets /\ StaleClocks = MarkedNets
      /\ StaleNets' = MarkedNets' /\ StaleClocks' = MarkedNets'
  BY <1>1 DEF Arriving, Whole, Sync, Revisited, Disturbed, StaleNets, StaleClocks
<1>3. MarkedNets \subseteq MarkedNets' /\ Nets \ MarkedNets' = Nets \ (Marked' \ {ClockNet})
  BY DEF MarkedNets
<1>4. ASSUME NEW p \in Pins, net'[p] \in Nets \ Marked'
      PROVE  /\ Owner[p] \notin dirtyInstances'
             /\ net'[p] = net[p] /\ lcell'[Owner[p]] = lcell[Owner[p]]
  <2>1. net'[p] # NoNet
    BY <1>4, NetsAssumption
  <2>2. net'[p] \in NetsOf(Owner[p])'
    BY <2>1 DEF NetsOf
  <2> QED BY <1>4, <2>2 DEF Marked
<1>5. RequiredCovered'
  <2> SUFFICES ASSUME Sync, NEW n \in Nets, ~Clocked(n)', n \notin MarkedNets'
               PROVE  RequiredSettled(n)' \/ \E m \in MarkedNets' : m \in NextNets(n, net')
    BY <1>2 DEF RequiredCovered
  <2>1. n # ClockNet
    <3>1. FixedWired' /\ ClockNetClocks' => Clocked(ClockNet)'
      BY ClockNetIsClocked, PTL
    <3> QED BY <3>1 DEF ClockNetClocks
  <2>2. n \in Nets \ Marked'
    BY <2>1 DEF MarkedNets
  <2>3. RequiredUntouched(n)
    BY <2>2 DEF RequiredUntouched
  <2>4. ~Clocked(n)
    BY <2>2 DEF Clocked, SinksOn, Pins
  <2>5. CASE RequiredSettled(n)
    BY <2>3, <2>4, <2>5, RequiredKept
  <2>6. ASSUME NEW m \in MarkedNets, m \in NextNets(n, net)
        PROVE  m \in NextNets(n, net')
    <3>1. PICK t \in Through : net[t[1]] = n /\ net[t[2]] = m /\ m # NoNet
      BY <2>6 DEF NextNets
    <3>2. t[1] \in Pins /\ t[2] \in Pins /\ Owner[t[1]] = Owner[t[2]]
      BY PinsAssumption DEF Pins
    <3>3. net'[t[1]] = n
      BY <2>2, <3>1, <3>2
    <3>4. net'[t[2]] = m
      BY <1>4, <2>2, <3>1, <3>2, <3>3
    <3> QED BY <3>1, <3>3, <3>4 DEF NextNets
  <2>7. RequiredSettled(n) \/ n \in MarkedNets \/ \E m \in MarkedNets : m \in NextNets(n, net)
    BY <1>2, <2>4 DEF RequiredCovered
  <2> QED BY <1>3, <2>5, <2>6, <2>7
<1>6. EndpointsFresh'
  <2> SUFFICES ASSUME Sync, NEW d \in Endpoints, net'[d] \notin {NoNet, ClockNet} \cup MarkedNets'
               PROVE  \/ q'[d] = EndpointTime(d)'
                      \/ d \in DataPins /\ net'[ClockOf(d)] \in MarkedNets'
    BY <1>2 DEF EndpointsFresh, Endpoints, DataPins, ClockOf
  <2>1. d \in Pins
    BY EndpointIsSink
  <2>2. net'[d] \in Nets \ Marked'
    BY <2>1 DEF Typed, MarkedNets
  <2>3. net'[d] = net[d] /\ lcell'[Owner[d]] = lcell[Owner[d]] /\ Owner[d] \notin dirtyInstances'
    BY <1>4, <2>1, <2>2
  <2>4. d \in DataPins => net'[ClockOf(d)] = net[ClockOf(d)]
    BY <2>3, ClockOfData
  <2>5. EndpointTime(d)' = EndpointTime(d)
    BY <2>3 DEF EndpointTime, DataPins, ClockOf
  <2>6. net[d] \notin {NoNet, ClockNet} \cup MarkedNets
    BY <1>3, <2>3
  <2>7. q[d] = EndpointTime(d) \/ (d \in DataPins /\ net[ClockOf(d)] \in MarkedNets)
    BY <1>2, <2>6 DEF EndpointsFresh
  <2> QED BY <1>3, <2>4, <2>5, <2>7
<1>7. ReachedLead' /\ RequiredInOrder'
  BY <1>1, <1>2 DEF ReachedLead, RequiredInOrder
<1> QED BY <1>5, <1>6, <1>7

\* The edits are of that kind.
LEMMA EditsKeepRInv ==
  ASSUME IInv, IInv', RInv, ClockNetClocks, Edit
  PROVE  RInv'
<1> USE DEF IInv, RInv
<1>1. ASSUME NEW p \in Movable, NEW m \in Nets, ConnectPin(p, m)
      PROVE  RInv'
  <2>1. /\ Idle /\ net[p] = NoNet /\ net' = [net EXCEPT ![p] = m] /\ p \in Pins
        /\ dirtyNets' = dirtyNets \cup {m}
        /\ dirtyInstances' = dirtyInstances \cup {Owner[p]}
        /\ lcell' = lcell /\ running' = running
        /\ UNCHANGED <<a, q, wdelay, delay, uncertainty, outOfSync>>
    BY <1>1, NetsAssumption DEF ConnectPin, values
  <2>2. \A x \in Pins : net'[x] = IF x = p THEN m ELSE net[x]
    BY <2>1 DEF Typed
  <2>3. FixedWired'
    BY <2>2 DEF FixedWired
  <2>4. Marked \subseteq Marked' /\ m \in Marked'
    <3>1. ASSUME NEW n \in Nets, NEW i \in dirtyInstances, n \in NetsOf(i)
          PROVE  n \in NetsOf(i)'
      BY <2>1, <2>2, <3>1, NetsAssumption DEF NetsOf
    <3> QED BY <2>1, <3>1 DEF Marked
  <2>5. \A n \in Nets \ Marked' : \A x \in Pins : net'[x] = n <=> net[x] = n
    BY <2>1, <2>2, <2>4, NetsAssumption
  <2>6. \A x \in Pins : Owner[x] \notin dirtyInstances' =>
          net'[x] = net[x] /\ lcell'[Owner[x]] = lcell[Owner[x]]
    BY <2>1, <2>2
  <2> QED BY <2>1, <2>3, <2>4, <2>5, <2>6, EditKeepsRInv
<1>2. ASSUME NEW p \in Movable, DisconnectPin(p)
      PROVE  RInv'
  <2>1. /\ Idle /\ net' = [net EXCEPT ![p] = NoNet] /\ p \in Pins
        /\ dirtyNets' = dirtyNets \cup {net[p]}
        /\ dirtyInstances' = dirtyInstances \cup {Owner[p]}
        /\ lcell' = lcell /\ running' = running
        /\ UNCHANGED <<a, q, wdelay, delay, uncertainty, outOfSync>>
    BY <1>2, NetsAssumption DEF DisconnectPin, values
  <2>2. \A x \in Pins : net'[x] = IF x = p THEN NoNet ELSE net[x]
    BY <2>1 DEF Typed
  <2>3. FixedWired'
    BY <2>2 DEF FixedWired
  <2>4. Marked \subseteq Marked' /\ (net[p] # NoNet => net[p] \in Marked')
    <3>1. ASSUME NEW n \in Nets, NEW i \in dirtyInstances, n \in NetsOf(i), n # net[p]
          PROVE  n \in NetsOf(i)'
      BY <2>1, <2>2, <3>1, NetsAssumption DEF NetsOf
    <3>2. net[p] # NoNet => net[p] \in Nets
      BY <2>1 DEF Typed
    <3> QED BY <2>1, <3>1, <3>2 DEF Marked
  <2>5. \A n \in Nets \ Marked' : \A x \in Pins : net'[x] = n <=> net[x] = n
    BY <2>1, <2>2, <2>4, NetsAssumption
  <2>6. \A x \in Pins : Owner[x] \notin dirtyInstances' =>
          net'[x] = net[x] /\ lcell'[Owner[x]] = lcell[Owner[x]]
    BY <2>1, <2>2
  <2> QED BY <2>1, <2>3, <2>4, <2>5, <2>6, EditKeepsRInv
<1>3. ASSUME NEW i \in Instances,
             \/ \E c \in LibraryCells[i] : Remap(i, c)
             \/ \E x \in Places[i] : Move(i, x)
      PROVE  RInv'
  <2>1. /\ Idle /\ net' = net /\ dirtyNets' = dirtyNets
        /\ dirtyInstances' = dirtyInstances \cup {i} /\ running' = running
        /\ UNCHANGED <<a, q, wdelay, delay, uncertainty, outOfSync>>
        /\ \/ \E c : lcell' = [lcell EXCEPT ![i] = c]
           \/ lcell' = lcell
    BY <1>3 DEF Remap, Move, values
  <2>2. FixedWired' /\ Marked \subseteq Marked'
    BY <2>1 DEF FixedWired, Marked, NetsOf
  <2>3. \A k \in Instances \ {i} : lcell'[k] = lcell[k]
    BY <2>1 DEF Typed
  <2>4. \A x \in Pins : Owner[x] \notin dirtyInstances' =>
          net'[x] = net[x] /\ lcell'[Owner[x]] = lcell[Owner[x]]
    BY <2>1, <2>3, PinsAssumption
  <2> QED BY <2>1, <2>2, <2>4, EditKeepsRInv
<1> QED BY <1>1, <1>2, <1>3, NetsAssumption DEF Edit

-----------------------------------------------------------------------------
(***************************************************************************)
(* Starts of updates.                                                      *)
(***************************************************************************)

\* What nothing is changed for stays as it is.
LEMMA QuietRequired ==
  ASSUME Typed, NEW n \in Nets, UNCHANGED <<net, q, wdelay, delay>>
  PROVE  RequiredUntouched(n) /\ Clocked(n)' = Clocked(n)
BY DEF RequiredUntouched, Clocked, SinksOn

\* A step that changes no time, and after which at least the same nets are visited.
LEMMA SameTimesRInv ==
  ASSUME IInv, RInv, UNCHANGED <<net, lcell, a, q, wdelay, delay, uncertainty>>,
         outOfSync' \in BOOLEAN, Sync' => Sync,
         Sync' => /\ Revisited \subseteq Revisited' /\ Disturbed \subseteq Disturbed'
                  /\ StaleNets \subseteq StaleNets' /\ StaleClocks \subseteq StaleClocks',
         ReachedLead', RequiredInOrder'
  PROVE  RInv'
<1> USE DEF IInv, RInv
<1>1. FixedWired'
  BY DEF FixedWired
<1>2. RequiredCovered'
  <2> SUFFICES ASSUME Sync', NEW n \in Nets, ~Clocked(n)'
               PROVE  \/ RequiredSettled(n)' \/ n \in Revisited'
                      \/ \E m \in Disturbed' : m \in NextNets(n, net')
    BY DEF RequiredCovered
  <2>1. RequiredUntouched(n) /\ ~Clocked(n)
    BY QuietRequired
  <2>2. RequiredSettled(n) => RequiredSettled(n)'
    BY <2>1, RequiredKept
  <2> QED BY <2>1, <2>2 DEF RequiredCovered
<1>3. EndpointsFresh'
  <2> SUFFICES ASSUME Sync', NEW d \in Endpoints
               PROVE  \/ q'[d] = EndpointTime(d)'
                      \/ net'[d] \in {NoNet, ClockNet} \cup StaleNets'
                      \/ d \in DataPins /\ net'[ClockOf(d)] \in StaleClocks'
    BY DEF EndpointsFresh, Endpoints, DataPins, ClockOf
  <2>1. EndpointTime(d)' = EndpointTime(d)
    BY DEF EndpointTime, DataPins, ClockOf
  <2> QED BY <2>1 DEF EndpointsFresh
<1> QED BY <1>1, <1>2, <1>3

\* Between updates the marked nets are those to be visited.
LEMMA IdleSets ==
  ASSUME IInv, Idle
  PROVE  /\ job.kind = "none" /\ phase = "idle" /\ Reached = {}
         /\ Revisited = MarkedNets /\ Disturbed = MarkedNets
         /\ StaleNets = MarkedNets /\ StaleClocks = MarkedNets /\ (Sync <=> ~outOfSync)
BY DEF IInv, JobRuns, Idle, NoJob, Arriving, Whole, Sync, Revisited, Disturbed, StaleNets,
   StaleClocks, Reached

\* Arrival times start from the nets that were marked, if not from all.
LEMMA StartKeepsRInv ==
  ASSUME IInv, RInv, Idle, NEW k \in {"full", "incremental", "local"},
         NEW required \in BOOLEAN, NEW cells \in SUBSET Instances,
         NEW S \in SUBSET Nets, Start(k, required, cells, S),
         k = "incremental" => S = Marked \ {ClockNet}
  PROVE  RInv'
<1> USE DEF IInv, RInv
<1>1. /\ UNCHANGED <<net, lcell, a, q, wdelay, delay, uncertainty, outOfSync, sign, endpoints,
                     dirtyNets, dirtyInstances>>
      /\ job' = [kind |-> k, required |-> required, cells |-> cells]
      /\ phase' = "arrival" /\ queue' = S
  BY DEF Start, design, marks, values
<1>2. /\ job'.kind = k
      /\ job.kind = "none" /\ phase = "idle" /\ Reached = {} /\ (Sync <=> ~outOfSync)
      /\ Revisited = MarkedNets /\ Disturbed = MarkedNets
      /\ StaleNets = MarkedNets /\ StaleClocks = MarkedNets
  BY <1>1, IdleSets
<1>3. Marked' = Marked /\ MarkedNets' = MarkedNets /\ Reached' = Reached
  BY <1>1 DEF Marked, NetsOf, MarkedNets, Reached
<1>4. Sync' => k # "full" /\ Sync
  BY <1>1, <1>2 DEF Sync
<1>5. k = "incremental" => queue' = MarkedNets
  BY <1>1 DEF MarkedNets
<1>6. k # "full" => /\ Revisited \subseteq Revisited' /\ Disturbed \subseteq Disturbed'
                    /\ StaleNets \subseteq StaleNets' /\ StaleClocks \subseteq StaleClocks'
  BY <1>1, <1>2, <1>3, <1>5
  DEF Revisited, Disturbed, StaleNets, StaleClocks, Arriving, Whole
<1>7. ReachedLead' /\ RequiredInOrder'
  BY <1>1, <1>2, <1>3 DEF ReachedLead, RequiredInOrder
<1> QED BY <1>1, <1>4, <1>6, <1>7, SameTimesRInv

\* A crash changes no times, nor does a step that changes nothing.
LEMMA CrashKeepsRInv ==
  ASSUME IInv, RInv, Crash \/ UNCHANGED vars
  PROVE  RInv'
<1> USE DEF IInv, RInv
<1>1. /\ UNCHANGED <<net, lcell, a, q, wdelay, delay, uncertainty, outOfSync, sign, endpoints,
                     dirtyNets, dirtyInstances, job, phase, queue>>
  BY DEF Crash, vars, design, marks, values, running
<1>2. Marked' = Marked /\ MarkedNets' = MarkedNets /\ Reached' = Reached
  BY <1>1 DEF Marked, NetsOf, MarkedNets, Reached
<1>3. /\ Revisited = Revisited' /\ Disturbed = Disturbed'
      /\ StaleNets = StaleNets' /\ StaleClocks = StaleClocks' /\ Sync' = Sync
  BY <1>1, <1>2
  DEF Revisited, Disturbed, StaleNets, StaleClocks, Arriving, Whole, Sync
<1>4. ReachedLead' /\ RequiredInOrder'
  BY <1>1, <1>2 DEF ReachedLead, RequiredInOrder, Arriving
<1> QED BY <1>1, <1>3, <1>4, SameTimesRInv

\* All nets are to be visited.
LEMMA EveryNetRInv ==
  ASSUME IInv, IInv', RInv, phase' = "required", queue' = Nets, FixedWired',
         q' = [p \in Pins |-> q'[p]], outOfSync' \in BOOLEAN,
         \A n \in Nets : sign'[n] # "required", job'.kind = "required" => Reached' = {},
         EndpointsFresh'
  PROVE  RInv'
<1>1. \A n \in Nets : n \in Revisited'
  BY DEF Revisited, Arriving
<1>2. RequiredCovered'
  BY <1>1 DEF RequiredCovered
<1>3. ReachedLead'
  BY DEF ReachedLead, Arriving, Reached
<1>4. RequiredInOrder'
  BY DEF RequiredInOrder
<1> QED BY <1>2, <1>3, <1>4 DEF RInv

\* A test of all endpoints, or of those of some registers.
LEMMA TestedEndpoints ==
  ASSUME NEW E, E = Endpoints \/ E \subseteq DataPins,
         q' = RequiredAtEndpoints(E, uncertainty'), UNCHANGED <<a, lcell>>
  PROVE  /\ \A d \in E \cap Endpoints : q'[d] = EndpointTime(d)'
         /\ \A p \in Pins \ E : q'[p] = q[p]
         /\ q' = [p \in Pins |-> q'[p]]
<1>1. ASSUME NEW d \in E \cap Endpoints PROVE q'[d] = EndpointTime(d)'
  <2>1. /\ d \in Pins
        /\ d \notin DataPins => d \in OutputPins
        /\ d \in DataPins => d \notin OutputPins
    BY EndpointIsSink, EndpointsAssumption DEF DataPins
  <2>2. CASE d \in DataPins
    BY <2>1, <2>2 DEF RequiredAtEndpoints, EndpointTime, DataPins, ClockOf
  <2>3. CASE d \notin DataPins
    BY <2>1, <2>3 DEF RequiredAtEndpoints, EndpointTime, DataPins
  <2> QED BY <2>2, <2>3
<1>2. \A p \in Pins \ E : q'[p] = q[p]
  BY DEF RequiredAtEndpoints
<1>3. q' = [p \in Pins |-> q'[p]]
  BY DEF RequiredAtEndpoints
<1> QED BY <1>1, <1>2, <1>3

\* Required times alone start from every net.
LEMMA StartRequiredKeepsRInv ==
  ASSUME IInv, IInv', RInv, Idle,
         UpdateRequiredTimes \/ \E u \in Uncertainties : SetClockUncertainty(u)
  PROVE  RInv'
<1> USE DEF IInv, RInv
<1>1. /\ UNCHANGED <<net, lcell, a, wdelay, delay, outOfSync, sign, endpoints,
                     dirtyNets, dirtyInstances>>
      /\ job' = [kind |-> "required", required |-> TRUE, cells |-> {}]
      /\ phase' = "required" /\ queue' = Nets
      /\ \/ UNCHANGED <<q, uncertainty>>
         \/ q' = RequiredAtEndpoints(Endpoints, uncertainty')
  BY DEF UpdateRequiredTimes, SetClockUncertainty, StartRequired, design, marks
<1>2. /\ job'.kind = "required"
      /\ job.kind = "none" /\ phase = "idle" /\ Reached = {} /\ (Sync <=> ~outOfSync)
      /\ StaleNets = MarkedNets /\ StaleClocks = MarkedNets
  BY <1>1, IdleSets
<1>3. Marked' = Marked /\ MarkedNets' = MarkedNets /\ Reached' = Reached
  BY <1>1 DEF Marked, NetsOf, MarkedNets, Reached
<1>4. Sync' = Sync /\ StaleNets' = MarkedNets /\ StaleClocks' = MarkedNets
  BY <1>1, <1>2, <1>3 DEF Sync, StaleNets, StaleClocks, Arriving, Whole
<1>5. EndpointsFresh' /\ q' = [p \in Pins |-> q'[p]]
  <2>1. CASE UNCHANGED <<q, uncertainty>>
    <3>1. \A d \in Endpoints : EndpointTime(d)' = EndpointTime(d)
      BY <1>1, <2>1 DEF EndpointTime, DataPins, ClockOf
    <3>2. EndpointsFresh'
      BY <1>1, <1>2, <1>4, <2>1, <3>1 DEF EndpointsFresh, Endpoints, DataPins, ClockOf
    <3> QED BY <2>1, <3>2
  <2>2. CASE q' = RequiredAtEndpoints(Endpoints, uncertainty')
    <3>1. \A d \in Endpoints : q'[d] = EndpointTime(d)'
      BY <1>1, <2>2, TestedEndpoints
    <3>2. EndpointsFresh'
      BY <3>1 DEF EndpointsFresh, Endpoints, DataPins
    <3>3. q' = [p \in Pins |-> q'[p]]
      BY <2>2 DEF RequiredAtEndpoints
    <3> QED BY <3>2, <3>3
  <2> QED BY <1>1, <2>1, <2>2
<1>6. \A n \in Nets : sign'[n] # "required"
  BY <1>1, <1>2 DEF RequiredInOrder
<1>7. FixedWired'
  BY <1>1 DEF FixedWired
<1> QED BY <1>1, <1>2, <1>3, <1>5, <1>6, <1>7, EveryNetRInv

-----------------------------------------------------------------------------
(***************************************************************************)
(* Arrival times.                                                          *)
(***************************************************************************)

\* A visit by arrival times changes the delays into net n, of its wires, and the
\* arrival times on it.
LEMMA VisitKeepsRInv ==
  ASSUME IInv, RInv, NEW n \in Nets, UNCHANGED <<net, lcell, q, uncertainty, outOfSync>>,
         \A p \in Pins : net[p] # n => a'[p] = a[p],
         \A s \in Sinks : net[s] # n => wdelay'[s] = wdelay[s],
         \A t \in Through : net[t[2]] # n => delay'[t] = delay[t],
         Sync' => /\ Sync /\ n \in Revisited' /\ n \in Disturbed'
                  /\ Revisited \subseteq Revisited' /\ Disturbed \subseteq Disturbed'
                  /\ StaleNets \subseteq StaleNets' /\ StaleClocks \ {n} \subseteq StaleClocks'
                  /\ \A d \in DataPins : net[ClockOf(d)] = n =>
                       n \in StaleClocks' \/ net[d] \in {NoNet} \cup StaleNets',
         ReachedLead', RequiredInOrder'
  PROVE  RInv'
<1> USE DEF IInv, RInv
<1>1. FixedWired'
  BY DEF FixedWired
<1>2. RequiredCovered'
  <2> SUFFICES ASSUME Sync', NEW k \in Nets, ~Clocked(k)', k # n, n \notin NextNets(k, net)
               PROVE  \/ RequiredSettled(k)' \/ k \in Revisited'
                      \/ \E m \in Disturbed' : m \in NextNets(k, net')
    BY DEF RequiredCovered
  <2>1. ~Clocked(k)
    BY DEF Clocked, SinksOn
  <2>2. RequiredUntouched(k)
    <3>1. \A t \in Through : net[t[1]] = k => net[t[2]] # n
      BY NetsAssumption DEF NextNets
    <3> QED BY <3>1 DEF RequiredUntouched
  <2>3. RequiredSettled(k) => RequiredSettled(k)'
    BY <2>1, <2>2, RequiredKept
  <2> QED BY <2>1, <2>3 DEF RequiredCovered
<1>3. EndpointsFresh'
  <2> SUFFICES ASSUME Sync', NEW d \in Endpoints,
                      net[d] \notin {NoNet, ClockNet} \cup StaleNets',
                      d \in DataPins => net[ClockOf(d)] \notin StaleClocks'
               PROVE  q'[d] = EndpointTime(d)'
    BY DEF EndpointsFresh, Endpoints, DataPins, ClockOf
  <2>1. d \in DataPins => net[ClockOf(d)] # n /\ ClockOf(d) \in Pins
    BY ClockOfData
  <2>2. EndpointTime(d)' = EndpointTime(d)
    BY <2>1 DEF EndpointTime, DataPins, ClockOf
  <2>3. q[d] = EndpointTime(d)
    BY <2>1 DEF EndpointsFresh
  <2> QED BY <2>2, <2>3
<1> QED BY <1>1, <1>2, <1>3

\* Arrival times visit a net and queue or note what follows it.
LEMMA PropagateArrivalKeepsRInv ==
  ASSUME IInv, RInv, NEW n \in queue, PropagateArrival(n)
  PROVE  RInv'
<1> USE DEF IInv, RInv
<1>1. CASE PinsOn(n) # {} /\ ~HasDriver(n)
  BY <1>1, CrashKeepsRInv DEF PropagateArrival
<1>2. CASE ~(PinsOn(n) # {} /\ ~HasDriver(n))
  <2>1. /\ n \in Nets /\ phase = "arrival" /\ phase' = "arrival"
        /\ UNCHANGED <<net, lcell, q, uncertainty, outOfSync, dirtyInstances, job>>
        /\ \/ UNCHANGED <<a, delay, wdelay>>
           \/ /\ a' = ArrivalsWith(n)
              /\ delay' = DelaysWith(n)
              /\ wdelay' = WireDelaysWith(n)
        /\ VisitForward(n)
    BY <1>2 DEF PropagateArrival, Typed, design
  <2>2. /\ \A p \in Pins : net[p] # n => a'[p] = a[p]
        /\ \A s \in Sinks : net[s] # n => wdelay'[s] = wdelay[s]
        /\ \A t \in Through : net[t[2]] # n => delay'[t] = delay[t]
    BY <2>1 DEF ArrivalsWith, DelaysWith, WireDelaysWith
  <2>3. CASE job.kind = "local"
    <3>1. /\ queue' = queue \ {n} /\ dirtyNets' = dirtyNets \cup {n}
          /\ UNCHANGED <<sign, endpoints>> /\ n # ClockNet
      BY <2>1, <2>3 DEF VisitForward, JobRuns
    <3>2. MarkedNets \cup {n} \subseteq MarkedNets'
      BY <2>1, <3>1 DEF Marked, NetsOf, MarkedNets
    <3>3. /\ Revisited = MarkedNets /\ Disturbed = MarkedNets
          /\ Revisited' = MarkedNets' /\ Disturbed' = MarkedNets'
          /\ StaleNets = MarkedNets /\ StaleClocks = MarkedNets
          /\ StaleNets' = MarkedNets' /\ StaleClocks' = MarkedNets' /\ Sync' = Sync
      BY <2>1, <2>3
      DEF Arriving, Whole, Sync, Revisited, Disturbed, StaleNets, StaleClocks
    <3>4. ReachedLead' /\ RequiredInOrder'
      BY <2>1, <2>3, <3>1 DEF ReachedLead, RequiredInOrder, Arriving
    <3> QED BY <2>1, <2>2, <3>2, <3>3, <3>4, VisitKeepsRInv
  <2>4. CASE Whole
    <3> DEFINE ahead == {m \in NextNets(n, net) : [sign EXCEPT ![n] = "arrival"][m] # "arrival"}
               data == {net[x[2]] : x \in {y \in Controls : net[y[1]] = n}} \ {NoNet}
    <3>1. /\ queue' = (queue \ {n}) \cup ahead
          /\ sign' = [sign EXCEPT ![n] = "arrival"]
          /\ endpoints' = endpoints \cup data \cup (IF ahead = {} THEN {n} ELSE {})
      BY <2>1, <2>4 DEF VisitForward, Whole
    <3>2. Reached' = Reached \cup {n}
      BY <2>1, <3>1 DEF Reached, Typed
    <3>3. Arriving' = Arriving /\ Sync' = Sync /\ Whole' /\ (Sync => Arriving)
      BY <2>1, <2>4 DEF Arriving, Sync, Whole
    <3>4. ASSUME Sync
          PROVE  /\ n \in Revisited' /\ n \in Disturbed'
                 /\ Revisited \subseteq Revisited' /\ Disturbed \subseteq Disturbed'
                 /\ StaleNets \subseteq StaleNets' /\ StaleClocks \ {n} \subseteq StaleClocks'
      BY <3>1, <3>2, <3>3, <3>4 DEF Revisited, Disturbed, StaleNets, StaleClocks
    <3>5. ASSUME Sync, NEW d \in DataPins, net[ClockOf(d)] = n
          PROVE  net[d] \in {NoNet} \cup StaleNets'
      <4> DEFINE x == <<ClockOf(d), d>>
      <4>1. x \in {y \in Controls : net[y[1]] = n} /\ x[2] = d
        BY <3>5, ClockOfData
      <4>2. net[d] \in data \/ net[d] = NoNet
        BY <4>1
      <4> QED BY <3>1, <3>3, <3>5, <4>2 DEF StaleNets
    <3>6. ReachedLead'
      <4> SUFFICES ASSUME Arriving, NEW k \in Reached \cup {n}
                   PROVE  k \in endpoints' \/ \E m \in queue' \cup Reached' : m \in NextNets(k, net)
        BY <2>1, <3>2, <3>3 DEF ReachedLead
      <4>1. CASE k = n
        BY <3>1, <4>1
      <4>2. CASE k \in Reached
        BY <3>1, <3>2, <4>2 DEF ReachedLead
      <4> QED BY <4>1, <4>2
    <3>7. RequiredInOrder'
      BY <2>1, <2>4, <3>1 DEF RequiredInOrder, Typed, Whole
    <3> QED BY <2>1, <2>2, <3>3, <3>4, <3>5, <3>6, <3>7, VisitKeepsRInv
  <2> QED BY <2>1, <2>3, <2>4 DEF JobRuns, Whole
<1> QED BY <1>1, <1>2

\* The end of a local update marks the nets of the data pins that it tests.
LEMMA EndLocalKeepsRInv ==
  ASSUME IInv, RInv, ClockNetClocks, EndLocal
  PROVE  RInv'
<1> USE DEF IInv, RInv
<1> DEFINE tested == {d \in DataPins : Owner[d] \in job.cells}
<1>1. /\ UNCHANGED <<net, lcell, a, wdelay, delay, uncertainty, outOfSync, dirtyInstances>>
      /\ q' = RequiredAtEndpoints(tested, uncertainty')
      /\ dirtyNets' = dirtyNets \cup ({net[d] : d \in tested} \ {NoNet})
      /\ job' = NoJob /\ phase' = "idle" /\ sign' = [m \in Nets |-> "old"]
      /\ job.kind = "local" /\ phase = "arrival"
  BY DEF EndLocal, Return, design
<1>2. /\ Revisited = MarkedNets /\ Disturbed = MarkedNets
      /\ Revisited' = MarkedNets' /\ Disturbed' = MarkedNets'
      /\ StaleNets = MarkedNets /\ StaleClocks = MarkedNets
      /\ StaleNets' = MarkedNets' /\ StaleClocks' = MarkedNets' /\ Sync' = Sync
      /\ ~Arriving'
  BY <1>1 DEF Arriving, Whole, Sync, Revisited, Disturbed, StaleNets, StaleClocks, NoJob
<1>3. MarkedNets \subseteq MarkedNets'
  BY <1>1 DEF Marked, NetsOf, MarkedNets
<1>4. /\ \A d \in tested \cap Endpoints : q'[d] = EndpointTime(d)'
      /\ \A p \in Pins \ tested : q'[p] = q[p]
      /\ q' = [p \in Pins |-> q'[p]]
  <2>1. tested \subseteq DataPins
    OBVIOUS
  <2> HIDE DEF tested
  <2> QED BY <1>1, <2>1, TestedEndpoints
<1>5. \A d \in tested : d \in Pins /\ d \in Sinks /\ d \in Endpoints
  BY ClockOfData, PinsAssumption DEF Endpoints, DataPins
<1>6. FixedWired' /\ ReachedLead' /\ RequiredInOrder'
  BY <1>1, <1>2 DEF FixedWired, ReachedLead, RequiredInOrder, NoJob
<1>7. RequiredCovered'
  <2> SUFFICES ASSUME Sync, NEW n \in Nets, ~Clocked(n)', n \notin MarkedNets'
               PROVE  RequiredSettled(n)' \/ \E m \in MarkedNets' : m \in NextNets(n, net)
    BY <1>1, <1>2 DEF RequiredCovered
  <2>1. ~Clocked(n)
    BY <1>1 DEF Clocked, SinksOn
  <2>2. n # ClockNet
    BY <2>1, ClockNetIsClocked
  <2>3. \A d \in tested : net[d] # n
    BY <1>1, <2>2, NetsAssumption DEF MarkedNets, Marked
  <2>4. RequiredUntouched(n)
    <3>1. \A t \in Through : t[2] \in Pins \ tested
      BY <1>5, PinsAssumption DEF Pins
    <3>2. \A p \in Pins : net[p] = n => q'[p] = q[p]
      BY <1>4, <2>3
    <3>3. \A t \in Through : q'[t[2]] = q[t[2]]
      BY <1>4, <3>1
    <3> QED BY <1>1, <3>2, <3>3 DEF RequiredUntouched
  <2>5. RequiredSettled(n) => RequiredSettled(n)'
    BY <2>1, <2>4, RequiredKept
  <2> QED BY <1>2, <1>3, <2>1, <2>5 DEF RequiredCovered
<1>8. EndpointsFresh'
  <2> SUFFICES ASSUME Sync, NEW d \in Endpoints, d \notin tested
               PROVE  \/ q'[d] = EndpointTime(d)'
                      \/ net[d] \in {NoNet, ClockNet} \cup MarkedNets'
                      \/ d \in DataPins /\ net[ClockOf(d)] \in MarkedNets'
    BY <1>1, <1>2, <1>4 DEF EndpointsFresh, Endpoints, DataPins, ClockOf
  <2>1. q'[d] = q[d]
    BY <1>4, EndpointIsSink
  <2>2. EndpointTime(d)' = EndpointTime(d)
    BY <1>1 DEF EndpointTime, DataPins, ClockOf
  <2> QED BY <1>2, <1>3, <2>1, <2>2 DEF EndpointsFresh
<1> QED BY <1>1, <1>4, <1>6, <1>7, <1>8

-----------------------------------------------------------------------------
(***************************************************************************)
(* Required times.                                                         *)
(***************************************************************************)

\* When arrival times are done, every endpoint is tested; the nets of those that
\* change are among the ones that required times start from.
LEMMA EndArrivalKeepsRInv ==
  ASSUME IInv, IInv', RInv, ClockNetClocks, EndArrival
  PROVE  RInv'
<1> USE DEF IInv, RInv
<1>1. /\ UNCHANGED <<net, lcell, a, wdelay, delay, uncertainty>>
      /\ q' = RequiredAtEndpoints(Endpoints, uncertainty')
      /\ job.kind \in {"full", "incremental"} /\ phase = "arrival" /\ queue = {}
      /\ \/ /\ phase' = "required" /\ job.required
            /\ queue' = IF job.kind = "full" THEN Nets ELSE endpoints
            /\ UNCHANGED <<dirtyNets, dirtyInstances, outOfSync, sign, job, endpoints>>
         \/ /\ outOfSync' = TRUE
            /\ job' = NoJob /\ phase' = "idle" /\ sign' = [m \in Nets |-> "old"]
  BY DEF EndArrival, Return, design, marks
<1>2. /\ \A d \in Endpoints : q'[d] = EndpointTime(d)'
      /\ \A p \in Pins \ Endpoints : q'[p] = q[p]
      /\ q' = [p \in Pins |-> q'[p]]
  BY <1>1, TestedEndpoints
<1>3. FixedWired'
  BY <1>1 DEF FixedWired
<1>4. EndpointsFresh'
  BY <1>2 DEF EndpointsFresh, Endpoints, DataPins
<1>5. \A n \in Nets : sign[n] # "required"
  BY <1>1 DEF RequiredInOrder
<1>6. CASE /\ outOfSync' = TRUE
           /\ job' = NoJob /\ phase' = "idle" /\ sign' = [m \in Nets |-> "old"]
  <2>1. ~Sync' /\ Reached' = {} /\ ~Arriving' /\ job'.kind = "none"
    BY <1>6 DEF Sync, Reached, Arriving, NoJob
  <2>2. RequiredCovered' /\ ReachedLead' /\ RequiredInOrder'
    BY <1>6, <2>1 DEF RequiredCovered, ReachedLead, RequiredInOrder
  <2> QED BY <1>2, <1>3, <1>4, <1>6, <2>2
<1>7. CASE /\ phase' = "required" /\ job.kind = "full" /\ queue' = Nets
           /\ UNCHANGED <<dirtyNets, dirtyInstances, outOfSync, sign, job, endpoints>>
  BY <1>2, <1>3, <1>4, <1>5, <1>7, EveryNetRInv
<1>8. CASE /\ phase' = "required" /\ job.kind = "incremental" /\ queue' = endpoints
           /\ UNCHANGED <<dirtyNets, dirtyInstances, outOfSync, sign, job, endpoints>>
  <2>1. /\ Arriving /\ ~Arriving' /\ Sync' = Sync /\ Reached' = Reached
        /\ Revisited = endpoints \cup Reached /\ Revisited' = endpoints \cup Reached
        /\ Disturbed = Reached /\ Disturbed' = Reached
        /\ StaleNets = endpoints \cup Reached /\ StaleClocks = {}
    BY <1>1, <1>8
    DEF Arriving, Sync, Reached, Revisited, Disturbed, StaleNets, StaleClocks
  <2>2. RequiredCovered'
    <3> SUFFICES ASSUME Sync, NEW n \in Nets, ~Clocked(n)', n \notin Revisited
                 PROVE  RequiredSettled(n)' \/ \E m \in Disturbed : m \in NextNets(n, net)
      BY <1>1, <2>1 DEF RequiredCovered
    <3>1. ~Clocked(n)
      BY <1>1 DEF Clocked, SinksOn
    <3>2. n # ClockNet
      BY <3>1, ClockNetIsClocked
    <3>3. ASSUME NEW d \in Endpoints, net[d] = n
          PROVE  q'[d] = q[d]
      <4>1. q[d] = EndpointTime(d)
        BY <2>1, <3>2, <3>3, NetsAssumption DEF EndpointsFresh
      <4>2. EndpointTime(d)' = EndpointTime(d)
        BY <1>1 DEF EndpointTime, DataPins, ClockOf
      <4> QED BY <1>2, <4>1, <4>2
    <3>4. RequiredUntouched(n)
      <4>1. \A p \in Pins : net[p] = n => q'[p] = q[p]
        BY <1>2, <3>3
      <4>2. \A t \in Through : t[2] \in Pins \ Endpoints
        BY PinsAssumption, EndpointIsSink DEF Pins
      <4>3. \A t \in Through : q'[t[2]] = q[t[2]]
        BY <1>2, <4>2
      <4> QED BY <1>1, <4>1, <4>3 DEF RequiredUntouched
    <3>5. RequiredSettled(n) => RequiredSettled(n)'
      BY <3>1, <3>4, RequiredKept
    <3> QED BY <3>1, <3>5 DEF RequiredCovered
  <2>3. ReachedLead'
    BY <1>1, <1>8, <2>1 DEF ReachedLead
  <2>4. RequiredInOrder'
    BY <1>5, <1>8 DEF RequiredInOrder
  <2> QED BY <1>2, <1>3, <1>4, <1>8, <2>2, <2>3, <2>4
<1> QED BY <1>1, <1>6, <1>7, <1>8

\* What follows a net downstream is downstream.
LEMMA NextOfDownstream ==
  ASSUME NEW nt \in [Pins -> Nets \cup {NoNet}], NEW n \in Nets,
         NEW m \in Downstream(n, nt), NEW x \in NextNets(m, nt)
  PROVE  x \in Downstream(n, nt)
<1> DEFINE next == [k \in Nets |-> NextNets(k, nt)]
<1>1. m \in Nets /\ \A D \in SUBSET Nets :
        (\A k \in D \cup {n} : next[k] \subseteq D) => m \in D
  BY DEF Downstream
<1>2. x \in Nets
  BY PinsAssumption DEF NextNets, Pins
<1>3. ASSUME NEW D \in SUBSET Nets, \A k \in D \cup {n} : next[k] \subseteq D
      PROVE  x \in D
  BY <1>1, <1>3
<1> QED BY <1>2, <1>3 DEF Downstream

\* Required times go on to a net whose delays have changed, or that the required
\* time of the driver of the next one has.
LEMMA PreviousIsQueued ==
  ASSUME IInv, RInv, NEW n \in queue, PropagateRequired(n),
         NEW k \in Nets, k # n, n \in NextNets(k, net),
         \/ sign[n] = "arrival"
         \/ \E d \in Drivers : net[d] = n /\ q'[d] # q[d]
  PROVE  k \in queue'
<1> USE DEF IInv, RInv
<1> DEFINE required == IF HasDriver(n) THEN RequiredWith(n) ELSE q
           visited == [sign EXCEPT ![n] = "required"]
           previous == {m \in PreviousNets(n) : visited[m] # "required"}
<1>1. /\ q' = required /\ phase = "required" /\ n \in Nets
      /\ queue' = (queue \ {n}) \cup (IF Pruned(n, required) THEN {} ELSE previous)
  BY DEF PropagateRequired, Typed
<1>2. ~Pruned(n, required)
  <2>1. CASE sign[n] = "arrival"
    BY <2>1 DEF Pruned
  <2>2. CASE \E d \in Drivers : net[d] = n /\ q'[d] # q[d]
    <3>1. PICK d \in Drivers : net[d] = n /\ q'[d] # q[d]
      BY <2>2
    <3>2. HasDriver(n) /\ Driver(n) = d
      BY <1>1, <3>1, DriverIs DEF HasDriver
    <3>3. required[Driver(n)] # q[Driver(n)]
      BY <1>1, <3>1, <3>2
    <3> HIDE DEF required
    <3> QED BY <3>2, <3>3 DEF Pruned
  <2> QED BY <2>1, <2>2
<1>3. k \in PreviousNets(n)
  BY NetsAssumption DEF PreviousNets, NextNets
<1>4. n \in Downstream(k, net)
  BY NextIsDownstream DEF Typed
<1>5. sign[k] # "required"
  BY <1>1, <1>4 DEF RequiredInOrder
<1>6. visited[k] # "required"
  BY <1>1, <1>5 DEF Typed
<1> HIDE DEF required, visited
<1> QED BY <1>1, <1>2, <1>3, <1>6

\* Required times settle a net and go on to those in front of it, unless nothing
\* changes for them.
LEMMA PropagateRequiredKeepsRInv ==
  ASSUME IInv, RInv, NEW n \in queue, PropagateRequired(n)
  PROVE  RInv'
<1> USE DEF IInv, RInv
<1>1. /\ UNCHANGED <<net, lcell, a, wdelay, delay, uncertainty, outOfSync, job, phase,
                     endpoints, dirtyNets, dirtyInstances>>
      /\ n \in Nets /\ phase = "required" /\ \A m \in queue : m \notin Downstream(n, net)
      /\ q' = (IF HasDriver(n) THEN RequiredWith(n) ELSE q)
      /\ sign' = [sign EXCEPT ![n] = "required"]
      /\ queue \ {n} \subseteq queue' /\ queue' \subseteq (queue \ {n}) \cup PreviousNets(n)
  BY DEF PropagateRequired, Typed, design, marks
<1>2. Marked' = Marked /\ MarkedNets' = MarkedNets /\ Reached' = Reached \ {n}
  BY <1>1 DEF Marked, NetsOf, MarkedNets, Reached, Typed
<1>3. /\ ~Arriving /\ ~Arriving' /\ Sync' = Sync
      /\ StaleNets' = StaleNets /\ StaleClocks' = StaleClocks
      /\ Revisited = queue \cup Reached /\ Disturbed = Reached
      /\ Revisited' = queue' \cup Reached' /\ Disturbed' = Reached'
  BY <1>1, <1>2
  DEF Arriving, Whole, Sync, StaleNets, StaleClocks, Revisited, Disturbed
<1>4. FixedWired'
  BY <1>1 DEF FixedWired
<1>5. q' = [p \in Pins |-> q'[p]]
  BY <1>1 DEF RequiredWith
<1>6. ASSUME NEW p \in Pins, p \notin ClockPins, net[p] # n
      PROVE  q'[p] = q[p]
  BY <1>1, <1>6 DEF RequiredWith
<1>7. ASSUME NEW m \in queue', m \notin queue
      PROVE  m \in Nets /\ n \in NextNets(m, net)
  <2>1. m \in PreviousNets(n)
    BY <1>1, <1>7
  <2> QED BY <1>1, <2>1, PinsAssumption, NetsAssumption DEF PreviousNets, NextNets, Typed, Pins
<1>8. RequiredCovered'
  <2> SUFFICES ASSUME Sync, NEW k \in Nets, ~Clocked(k)'
               PROVE  \/ RequiredSettled(k)' \/ k \in Revisited'
                      \/ \E m \in Disturbed' : m \in NextNets(k, net)
    BY <1>1, <1>3 DEF RequiredCovered
  <2>1. ~Clocked(k)
    BY <1>1 DEF Clocked, SinksOn
  <2>2. CASE k = n
    <3>1. CASE HasDriver(n)
      BY <1>1, <2>1, <2>2, <3>1, VisitSettlesRequired
    <3>2. CASE ~HasDriver(n)
      BY <1>1, <2>2, <3>2 DEF RequiredSettled, HasDriver
    <3> QED BY <3>1, <3>2
  <2>3. CASE k # n
    <3>1. CASE RequiredUntouched(k)
      <4>1. RequiredSettled(k) => RequiredSettled(k)'
        BY <2>1, <3>1, RequiredKept
      <4>2. CASE \E m \in Disturbed : m \in NextNets(k, net)
        <5>1. PICK m \in Reached : m \in NextNets(k, net)
          BY <1>3, <4>2
        <5>2. CASE m = n
          BY <1>3, <2>3, <5>1, <5>2, PreviousIsQueued DEF Reached
        <5>3. CASE m # n
          BY <1>2, <1>3, <5>1, <5>3
        <5> QED BY <5>2, <5>3
      <4> QED BY <1>1, <1>2, <1>3, <2>1, <2>3, <4>1, <4>2 DEF RequiredCovered
    <3>2. CASE ~RequiredUntouched(k)
      <4>1. \A p \in Pins : net[p] = k => q'[p] = q[p]
        BY <1>6, <2>1, <2>3, PinsAssumption DEF Clocked, SinksOn, ClockPins
      <4>2. PICK t \in Through : net[t[1]] = k /\ q'[t[2]] # q[t[2]]
        BY <1>1, <3>2, <4>1 DEF RequiredUntouched
      <4>3. t[2] \in Drivers /\ t[2] \in Pins /\ t[2] \notin ClockPins
        BY PinsAssumption DEF Pins, ClockPins
      <4>4. net[t[2]] = n
        BY <1>6, <4>2, <4>3
      <4>5. n \in NextNets(k, net)
        BY <1>1, <4>2, <4>4, NetsAssumption DEF NextNets
      <4> QED BY <1>3, <2>3, <4>2, <4>3, <4>4, <4>5, PreviousIsQueued
    <3> QED BY <3>1, <3>2
  <2> QED BY <2>2, <2>3
<1>9. EndpointsFresh'
  <2> SUFFICES ASSUME Sync, NEW d \in Endpoints
               PROVE  \/ q'[d] = EndpointTime(d)'
                      \/ net[d] \in {NoNet, ClockNet} \cup StaleNets
                      \/ d \in DataPins /\ net[ClockOf(d)] \in StaleClocks
    BY <1>1, <1>3 DEF EndpointsFresh, Endpoints, DataPins, ClockOf
  <2>1. d \in Sinks /\ d \in Pins /\ d \notin ClockPins /\ ArcsFrom(d) = {}
    BY EndpointIsSink
  <2>2. EndpointTime(d)' = EndpointTime(d)
    BY <1>1 DEF EndpointTime, DataPins, ClockOf
  <2>3. q'[d] = q[d]
    <3>1. CASE net[d] = n /\ HasDriver(n)
      <4>1. q'[d] = SinkRequired(d)
        BY <1>1, <2>1, <3>1, RequiredOn
      <4> QED BY <2>1, <4>1 DEF SinkRequired, SpannedRequired
    <3>2. CASE ~(net[d] = n /\ HasDriver(n))
      BY <1>1, <1>6, <2>1, <3>2
    <3> QED BY <3>1, <3>2
  <2> QED BY <2>2, <2>3 DEF EndpointsFresh
<1>10. ReachedLead'
  <2> SUFFICES ASSUME NEW k \in Reached \ {n}
               PROVE  k \in queue' \/ \E m \in Reached \ {n} : m \in NextNets(k, net)
    BY <1>1, <1>2, <1>3 DEF ReachedLead
  <2>1. k \in queue \/ \E m \in Reached : m \in NextNets(k, net)
    BY <1>1 DEF ReachedLead
  <2>2. n \in Reached /\ n \in NextNets(k, net) => k \in queue'
    BY PreviousIsQueued DEF Reached
  <2> QED BY <1>1, <2>1, <2>2
<1>11. RequiredInOrder'
  <2>1. ASSUME NEW k \in Nets, NEW u \in queue', sign'[k] = "required", u \in Downstream(k, net)
        PROVE  FALSE
    <3>1. k = n \/ sign[k] = "required"
      BY <1>1, <2>1 DEF Typed
    <3>2. CASE u \in queue
      BY <1>1, <2>1, <3>1, <3>2 DEF RequiredInOrder
    <3>3. CASE u \notin queue
      <4>1. n \in NextNets(u, net) /\ u \in Nets
        BY <1>7, <3>3
      <4>2. n \in Downstream(k, net)
        BY <2>1, <4>1, NextOfDownstream DEF Typed
      <4>3. sign[k] # "required"
        BY <1>1, <4>2 DEF RequiredInOrder
      <4>4. k = n
        BY <3>1, <4>3
      <4> QED BY <4>2, <4>4 DEF Wired, Acyclic
    <3> QED BY <3>2, <3>3
  <2> QED BY <1>1, <1>2, <2>1 DEF RequiredInOrder
<1> QED BY <1>1, <1>4, <1>5, <1>8, <1>9, <1>10, <1>11

\* Nothing is left to visit: a last net that arrival times had visited would be an
\* endpoint.
LEMMA EndRequiredKeepsRInv ==
  ASSUME IInv, RInv, EndRequired
  PROVE  RInv'
<1> USE DEF IInv, RInv
<1>1. /\ UNCHANGED <<net, lcell, a, q, wdelay, delay, uncertainty>>
      /\ phase = "required" /\ queue = {}
      /\ job' = NoJob /\ phase' = "idle" /\ sign' = [n \in Nets |-> "old"]
      /\ \/ job.kind = "required" /\ UNCHANGED <<dirtyNets, dirtyInstances, outOfSync>>
         \/ Whole /\ outOfSync' = (outOfSync /\ job.kind # "full")
  BY DEF EndRequired, ClearMarks, Return, design, values, marks, JobRuns, Whole
<1>2. Reached = {}
  <2>1. /\ Reached \in SUBSET Nets
        /\ \A n \in Reached : \E m \in Reached : m \in NextNets(n, net)
    BY <1>1 DEF ReachedLead, Reached
  <2> QED BY <2>1, SomethingIsLast
<1>3. /\ job'.kind = "none" /\ ~Arriving /\ ~Arriving' /\ ~Whole'
      /\ Revisited = {} /\ Disturbed = {} /\ Reached' = {}
  BY <1>1, <1>2 DEF Arriving, Whole, Revisited, Disturbed, Reached, NoJob
<1>4. Sync' => Sync
  BY <1>1, <1>3 DEF Sync, Whole
<1>5. StaleNets \subseteq StaleNets' /\ StaleClocks \subseteq StaleClocks'
  <2>1. CASE Whole
    BY <1>3, <2>1 DEF StaleNets, StaleClocks
  <2>2. CASE UNCHANGED <<dirtyNets, dirtyInstances>> /\ ~Whole
    BY <1>1, <1>3, <2>2 DEF StaleNets, StaleClocks, MarkedNets, Marked, NetsOf
  <2> QED BY <1>1, <2>1, <2>2
<1>6. ReachedLead' /\ RequiredInOrder'
  BY <1>1, <1>3 DEF ReachedLead, RequiredInOrder
<1> QED BY <1>1, <1>3, <1>4, <1>5, <1>6, SameTimesRInv

\* In a design that was just read required times are out of sync.
LEMMA InitRInv ==
  Init => RInv
<1> SUFFICES ASSUME Init PROVE RInv
  OBVIOUS
<1>1. /\ outOfSync = TRUE /\ job = NoJob /\ phase = "idle" /\ sign = [n \in Nets |-> "old"]
      /\ q = [p \in Pins |-> NoRequired]
  BY DEF Init
<1>2. job.kind = "none" /\ ~Sync /\ ~Arriving
  BY <1>1 DEF NoJob, Sync, Arriving
<1>3. FixedWired
  <2>1. \A p \in Pins \ Movable : net[p] = FixedNet(p)
    BY DEF Init
  <2>2. \A p \in Pins \ Movable : <<p, FixedNet(p)>> \in Wirings
    BY NetsAssumption DEF FixedNet
  <2> QED BY <2>1, <2>2 DEF FixedWired
<1> QED BY <1>1, <1>2, <1>3
    DEF RInv, RequiredCovered, EndpointsFresh, ReachedLead, RequiredInOrder

\* Every step keeps the invariant.
LEMMA NextKeepsRInv ==
  ASSUME IInv, RInv, ClockLeftAlone, ClockNetClocks, [Next]_vars
  PROVE  RInv'
<1>1. IInv'
  BY NextKeepsIInv
<1>2. ASSUME NEW i \in LocalCells, NEW sinkCells \in BOOLEAN, NEW sideCells \in BOOLEAN,
             UpdateTimingLocally(i, sinkCells, sideCells)
      PROVE  RInv'
  <2> DEFINE from == {n \in NetsOf(i) : sinkCells /\
                       (sideCells \/ \E d \in Drivers : Owner[d] = i /\ net[d] = n)}
             S == NetsOf(i) \cup UNION {NextNets(n, net) : n \in from}
  <2>1. CASE Crash
    BY <2>1, CrashKeepsRInv
  <2>2. CASE Idle /\ Start("local", FALSE, {i}, S)
    <3>1. \A n : NextNets(n, net) \subseteq Nets
      BY PinsAssumption DEF NextNets, IInv, Typed, Pins
    <3>2. NetsOf(i) \subseteq Nets
      BY DEF NetsOf, IInv, Typed
    <3>3. S \in SUBSET Nets
      BY <3>1, <3>2
    <3>4. {i} \in SUBSET Instances
      BY NetsAssumption
    <3> HIDE DEF S
    <3> QED BY <2>2, <3>3, <3>4, StartKeepsRInv
  <2> QED BY <1>2, <2>1, <2>2 DEF UpdateTimingLocally
<1>3. ASSUME Idle, NEW required \in BOOLEAN, StartFull(required)
      PROVE  RInv'
  BY <1>3, StartKeepsRInv DEF StartFull
<1>4. ASSUME NEW required \in BOOLEAN, UpdateTimingFull(required)
      PROVE  RInv'
  BY <1>3, <1>4, CrashKeepsRInv DEF UpdateTimingFull
<1>5. ASSUME NEW required \in BOOLEAN, UpdateTimingIncremental(required)
      PROVE  RInv'
  <2>1. CASE Crash
    BY <2>1, CrashKeepsRInv
  <2>2. CASE Idle /\ StartFull(required)
    BY <1>3, <2>2
  <2>3. CASE Idle /\ Start("incremental", required, {}, Seeds)
    <3>1. Seeds = Marked \ {ClockNet} /\ Marked \subseteq Nets
      BY SeedsAreMarked DEF IInv, Marked
    <3> QED BY <2>3, <3>1, StartKeepsRInv
  <2> QED BY <1>5, <2>1, <2>2, <2>3 DEF UpdateTimingIncremental
<1>6. ASSUME UpdateRequiredTimes \/ \E u \in Uncertainties : SetClockUncertainty(u)
      PROVE  RInv'
  BY <1>1, <1>6, StartRequiredKeepsRInv DEF UpdateRequiredTimes, SetClockUncertainty
<1>7. ASSUME Propagate
      PROVE  RInv'
  BY <1>1, <1>7, PropagateArrivalKeepsRInv, PropagateRequiredKeepsRInv, EndLocalKeepsRInv,
     EndArrivalKeepsRInv, EndRequiredKeepsRInv DEF Propagate
<1> QED
  BY <1>1, <1>2, <1>4, <1>5, <1>6, <1>7, EditsKeepRInv, CrashKeepsRInv
  DEF Next, LocalUpdate, Update, Gone

\* Required times are those of a full propagation on every net without clock pins,
\* as long as the timer holds them to be in sync: a propagation that stops where
\* nothing changes stops nowhere too early.
THEOREM PruningIsSound ==
  ASSUME ClockLeftAlone, ClockNetClocks
  PROVE  Spec => []RequiredUpToDate
<1>1. IInv /\ RInv => RequiredUpToDate
  <2> SUFFICES ASSUME IInv, RInv, UpToDate, ~outOfSync, NEW n \in Nets, ~Clocked(n)
               PROVE  RequiredSettled(n)
    BY DEF RequiredUpToDate, Clocked
  <2>1. Idle /\ MarkedNets = {}
    BY DEF UpToDate, MarkedNets, Marked
  <2>2. Sync /\ Revisited = {} /\ Disturbed = {}
    BY <2>1, IdleSets
  <2> QED BY <2>2 DEF RInv, RequiredCovered
<1>2. Init => IInv /\ RInv
  BY InitIInv, InitRInv
<1>3. IInv /\ RInv /\ [Next]_vars => IInv' /\ RInv'
  BY NextKeepsIInv, NextKeepsRInv
<1> QED
  BY <1>1, <1>2, <1>3, PTL DEF Spec

-----------------------------------------------------------------------------
(***************************************************************************)
(* Times are integers if what they are computed from are.                  *)
(***************************************************************************)

CellKinds == UNION {LibraryCells[i] : i \in Instances}

Spots == UNION {Places[i] : i \in Instances}

\* The trees that nets may have.
Trees == {<<>>} \cup UNION {[D -> CellKinds \X Spots] : D \in SUBSET Pins}

\* The library, the wires and the constraints give integers.
TimesGiven ==
  /\ Period \in Int /\ NoRequired \in Int
  /\ Uncertainties # {} /\ Uncertainties \subseteq Int
  /\ \A i \in Instances : LibraryCells[i] # {} /\ Places[i] # {}
  /\ \A tr \in Trees :
       /\ \A t \in Through, c \in CellKinds : ArcDelay(t, c, tr) \in Int
       /\ \A d \in Drivers : PortArrival(d, tr) \in Int
       /\ \A s \in Sinks : WireDelay(s, tr) \in Int
  /\ \A d \in DataPins, c \in CellKinds : Setup(d, c) \in Int

\* What the timing of a net takes from the design.
DesignTyped ==
  /\ net \in [Pins -> Nets \cup {NoNet}]
  /\ lcell \in [Instances -> CellKinds] /\ place \in [Instances -> Spots]
  /\ tree \in [Nets -> Trees]

TimesTyped ==
  /\ a \in [Pins -> Int] /\ q \in [Pins -> Int]
  /\ wdelay \in [Sinks -> Int] /\ delay \in [Through -> Int]
  /\ uncertainty \in Int

MarksTyped ==
  /\ dirtyNets \subseteq Nets \cup {NoNet} /\ dirtyInstances \subseteq Instances
  /\ force \in BOOLEAN /\ outOfSync \in BOOLEAN /\ crashed \in BOOLEAN

RunTyped ==
  /\ sign \in [Nets -> {"old", "arrival", "required"}]
  /\ job \in [kind : {"none", "full", "incremental", "local", "required"},
              required : BOOLEAN, cells : SUBSET Instances]
  /\ phase \in {"idle", "arrival", "required"}
  /\ queue \subseteq Nets /\ endpoints \subseteq Nets

TInv == DesignTyped /\ TimesTyped /\ MarksTyped /\ RunTyped

\* The largest and the smallest of finitely many integers.
LEMMA BoundsAreIntegers ==
  ASSUME NEW S \in SUBSET Int, IsFiniteSet(S), S # {}
  PROVE  Max(S) \in Int /\ Min(S) \in Int
BY HasGreatest, HasSmallest DEF Max, Min

\* The same for the values of a function.
LEMMA ValuesAreBounded ==
  ASSUME NEW D, IsFiniteSet(D), NEW f \in [D -> Int]
  PROVE  LET S == {f[x] : x \in D}
         IN  /\ S \in SUBSET Int /\ IsFiniteSet(S)
             /\ D # {} => Max(S) \in Int /\ Min(S) \in Int
<1> DEFINE S == {f[x] : x \in D}
<1>1. S \in SUBSET Int
  OBVIOUS
<1>2. f \in Surjection(D, S)
  BY DEF Surjection
<1>3. IsFiniteSet(S)
  BY <1>2, FS_Surjection
<1>4. D # {} => S # {}
  OBVIOUS
<1> HIDE DEF S
<1>5. D # {} => Max(S) \in Int /\ Min(S) \in Int
  BY <1>1, <1>3, <1>4, BoundsAreIntegers
<1> QED BY <1>1, <1>3, <1>5 DEF S

\* Pins and arcs are finitely many.
LEMMA ArcsAreFinite ==
  /\ IsFiniteSet(Through)
  /\ \A d : IsFiniteSet(ArcsInto(d)) /\ IsFiniteSet(ArcsFrom(d))
  /\ \A n : IsFiniteSet(SinksOn(n))
<1>1. IsFiniteSet(Drivers) /\ IsFiniteSet(Sinks)
  BY PinsAssumption, FS_Subset DEF Pins
<1>2. IsFiniteSet(Sinks \X Drivers)
  BY <1>1, FS_Product
<1>3. IsFiniteSet(Through)
  BY <1>2, PinsAssumption, FS_Subset
<1>4. ASSUME NEW d PROVE IsFiniteSet(ArcsInto(d)) /\ IsFiniteSet(ArcsFrom(d))
  <2>1. ArcsInto(d) \subseteq Through /\ ArcsFrom(d) \subseteq Through
    BY DEF ArcsInto, ArcsFrom
  <2> QED BY <1>3, <2>1, FS_Subset
<1>5. ASSUME NEW n PROVE IsFiniteSet(SinksOn(n))
  <2>1. SinksOn(n) \subseteq Sinks
    BY DEF SinksOn
  <2> QED BY <1>1, <2>1, FS_Subset
<1> QED BY <1>3, <1>4, <1>5

\* A new tree has the cells and places of the pins of its net.
LEMMA ShapeIsTree ==
  ASSUME DesignTyped, NEW n \in Nets
  PROVE  Shape(n) \in Trees
<1>1. PinsOn(n) \in SUBSET Pins
  BY DEF PinsOn
<1>2. Shape(n) \in [PinsOn(n) -> CellKinds \X Spots]
  <2>1. \A p \in PinsOn(n) : Owner[p] \in Instances
    BY <1>1, PinsAssumption
  <2> HIDE DEF CellKinds, Spots
  <2>2. \A p \in PinsOn(n) : <<lcell[Owner[p]], place[Owner[p]]>> \in CellKinds \X Spots
    BY <2>1 DEF DesignTyped
  <2> QED BY <2>2 DEF Shape
<1> DEFINE X == CellKinds \X Spots
<1> HIDE DEF X
<1>3. Shape(n) \in UNION {[D -> X] : D \in SUBSET Pins}
  BY <1>1, <1>2 DEF X
<1> QED BY <1>3 DEF Trees, X

\* The arrival times and delays of a net with a driver.
LEMMA ArrivalsAreIntegers ==
  ASSUME TimesGiven, TInv, NEW n \in Nets, HasDriver(n)
  PROVE  /\ ArrivalsWith(n) \in [Pins -> Int]
         /\ DelaysWith(n) \in [Through -> Int]
         /\ WireDelaysWith(n) \in [Sinks -> Int]
<1> USE DEF TInv
<1>1. tree[n] \in Trees
  BY DEF DesignTyped
<1>2. ASSUME NEW t \in Through PROVE NewDelay(t, n) \in Int
  <2>1. t[1] \in Pins
    BY PinsAssumption DEF Pins
  <2>2. lcell[Owner[t[1]]] \in CellKinds
    BY <2>1, PinsAssumption DEF DesignTyped
  <2> QED BY <1>1, <2>2 DEF NewDelay, TimesGiven
<1>3. \A s \in Sinks : WireDelay(s, tree[n]) \in Int
  BY <1>1 DEF TimesGiven
<1>4. Driver(n) \in Drivers
  BY DEF HasDriver, Driver
<1>5. DriverArrival(n) \in Int
  <2> DEFINE d == Driver(n)
             f == [t \in ArcsInto(d) |-> a[t[1]] + NewDelay(t, n)]
  <2>1. ASSUME NEW t \in ArcsInto(d) PROVE a[t[1]] + NewDelay(t, n) \in Int
    <3>1. t \in Through /\ t[1] \in Pins
      BY PinsAssumption DEF ArcsInto, Pins
    <3>2. a[t[1]] \in Int /\ NewDelay(t, n) \in Int
      BY <1>2, <3>1 DEF TimesTyped
    <3> QED BY <3>2
  <2>2. f \in [ArcsInto(d) -> Int]
    BY <2>1
  <2>3. {f[t] : t \in ArcsInto(d)} = {a[t[1]] + NewDelay(t, n) : t \in ArcsInto(d)}
    OBVIOUS
  <2>4. PortArrival(d, tree[n]) \in Int
    BY <1>1, <1>4 DEF TimesGiven
  <2>5. IsFiniteSet(ArcsInto(d))
    BY ArcsAreFinite
  <2> HIDE DEF f, d
  <2>6. ArcsInto(d) # {} =>
          Max({a[t[1]] + NewDelay(t, n) : t \in ArcsInto(d)}) \in Int
    BY <2>2, <2>3, <2>5, ValuesAreBounded
  <2> QED BY <2>4, <2>6 DEF DriverArrival, d
<1>6. ArrivalsWith(n) \in [Pins -> Int]
  <2> SUFFICES ASSUME NEW p \in Pins PROVE ArrivalsWith(n)[p] \in Int
    BY DEF ArrivalsWith
  <2>1. a[p] \in Int
    BY DEF TimesTyped
  <2>2. ArrivalsWith(n)[p] =
          CASE net[p] = n /\ p \in Drivers -> DriverArrival(n)
            [] net[p] = n /\ p \in Sinks   -> DriverArrival(n) + WireDelay(p, tree[n])
            [] OTHER                       -> a[p]
    BY DEF ArrivalsWith
  <2>3. CASE net[p] = n /\ p \in Drivers
    <3>1. p \notin Sinks
      BY <2>3, PinsAssumption
    <3> QED BY <1>5, <2>2, <2>3, <3>1
  <2>4. CASE net[p] = n /\ p \in Sinks
    <3>1. p \notin Drivers
      BY <2>4, PinsAssumption
    <3> QED BY <1>3, <1>5, <2>2, <2>4, <3>1
  <2>5. CASE net[p] # n
    BY <2>1, <2>2, <2>5
  <2> QED BY <2>3, <2>4, <2>5 DEF Pins
<1>7. DelaysWith(n) \in [Through -> Int]
  BY <1>2 DEF DelaysWith, TimesTyped
<1>8. WireDelaysWith(n) \in [Sinks -> Int]
  BY <1>3 DEF WireDelaysWith, TimesTyped
<1> QED BY <1>6, <1>7, <1>8

\* What is taken from a required time, and what is left.
LEMMA LessIsInteger ==
  ASSUME TimesGiven, NEW x \in Int, NEW y \in Int
  PROVE  Less(x, y) \in Int
BY DEF Less, TimesGiven

\* The required times of a net.
LEMMA RequiredIsInteger ==
  ASSUME TimesGiven, TInv, NEW n \in Nets
  PROVE  RequiredWith(n) \in [Pins -> Int]
<1> USE DEF TInv
<1>0. a \in [Pins -> Int] /\ q \in [Pins -> Int] /\ NoRequired \in Int
      /\ wdelay \in [Sinks -> Int] /\ delay \in [Through -> Int]
  BY DEF TimesTyped, TimesGiven
<1>1. ASSUME NEW s \in Sinks PROVE SpannedRequired(s) \in Int
  <2> DEFINE f == [t \in ArcsFrom(s) |-> Less(q[t[2]], delay[t])]
  <2>1. ASSUME NEW t \in ArcsFrom(s) PROVE Less(q[t[2]], delay[t]) \in Int
    <3>1. t \in Through /\ t[2] \in Pins
      BY PinsAssumption DEF ArcsFrom, Pins
    <3>2. q[t[2]] \in Int /\ delay[t] \in Int
      BY <1>0, <3>1
    <3> QED BY <3>2, LessIsInteger
  <2>2. f \in [ArcsFrom(s) -> Int]
    BY <2>1
  <2>3. {f[t] : t \in ArcsFrom(s)} = {Less(q[t[2]], delay[t]) : t \in ArcsFrom(s)}
    OBVIOUS
  <2>4. IsFiniteSet(ArcsFrom(s))
    BY ArcsAreFinite
  <2> HIDE DEF f
  <2>5. ArcsFrom(s) # {} =>
          Min({Less(q[t[2]], delay[t]) : t \in ArcsFrom(s)}) \in Int
    BY <2>2, <2>3, <2>4, ValuesAreBounded
  <2>6. s \in Pins
    BY DEF Pins
  <2> QED BY <1>0, <2>5, <2>6 DEF SpannedRequired
<1>2. ASSUME NEW c \in ClockPins PROVE ControlRequired(c) \in Int
  <2>1. DataOf(c) \in Pins /\ c \in Pins
    <3>1. PICK y \in Controls : y[1] = c
      BY DEF ClockPins
    <3>2. PICK x : x = CHOOSE z \in Controls : z[1] = c
      OBVIOUS
    <3>3. x \in Controls /\ x[1] = c
      BY <3>1, <3>2
    <3>4. DataOf(c) = x[2]
      BY <3>2 DEF DataOf
    <3> QED BY <3>3, <3>4, PinsAssumption DEF Pins
  <2>2. a[DataOf(c)] \in Int /\ q[DataOf(c)] \in Int /\ a[c] \in Int
    BY <1>0, <2>1
  <2>3. Slack(DataOf(c)) \in Int
    BY <2>2, LessIsInteger DEF Slack
  <2>4. - a[c] \in Int
    BY <2>2
  <2> QED BY <2>3, <2>4, LessIsInteger DEF ControlRequired
<1>3. ASSUME NEW s \in Sinks PROVE SinkRequired(s) \in Int
  <2>1. SpannedRequired(s) \in Int
    BY <1>1
  <2>2. CASE s \in ClockPins
    <3> DEFINE x == SpannedRequired(s)
               y == ControlRequired(s)
    <3>1. x \in Int /\ y \in Int
      BY <1>2, <2>1, <2>2
    <3> HIDE DEF x, y
    <3>2. {x, y} \in SUBSET Int /\ {x, y} # {}
      BY <3>1
    <3>3. IsFiniteSet({x, y})
      <4>1. IsFiniteSet({x})
        BY FS_Singleton
      <4>2. IsFiniteSet({x} \cup {y})
        BY <4>1, FS_AddElement
      <4>3. {x} \cup {y} = {x, y}
        OBVIOUS
      <4> QED BY <4>2, <4>3
    <3>4. Min({x, y}) \in Int
      BY <3>2, <3>3, BoundsAreIntegers
    <3> QED BY <2>2, <3>4 DEF SinkRequired, x, y
  <2>3. CASE s \notin ClockPins
    BY <2>1, <2>3 DEF SinkRequired
  <2> QED BY <2>2, <2>3
<1>4. DriverRequired(n) \in Int
  <2> DEFINE f == [s \in SinksOn(n) |-> Less(SinkRequired(s), wdelay[s])]
             S == {Less(SinkRequired(s), wdelay[s]) : s \in SinksOn(n)}
  <2>1. ASSUME NEW s \in SinksOn(n) PROVE Less(SinkRequired(s), wdelay[s]) \in Int
    <3>1. s \in Sinks
      BY DEF SinksOn
    <3>2. SinkRequired(s) \in Int /\ wdelay[s] \in Int
      BY <1>0, <1>3, <3>1
    <3> QED BY <3>2, LessIsInteger
  <2>2. f \in [SinksOn(n) -> Int]
    BY <2>1
  <2>3. {f[s] : s \in SinksOn(n)} = S
    OBVIOUS
  <2>4. IsFiniteSet(SinksOn(n))
    BY ArcsAreFinite
  <2> HIDE DEF f, S
  <2>5. S \in SUBSET Int /\ IsFiniteSet(S)
    BY <2>2, <2>3, <2>4, ValuesAreBounded
  <2>6. IsFiniteSet({NoRequired} \cup S)
    <3>1. IsFiniteSet(S \cup {NoRequired})
      BY <2>5, FS_AddElement
    <3>2. S \cup {NoRequired} = {NoRequired} \cup S
      OBVIOUS
    <3> QED BY <3>1, <3>2
  <2>7. {NoRequired} \cup S \in SUBSET Int /\ {NoRequired} \cup S # {}
    BY <1>0, <2>5
  <2>8. Min({NoRequired} \cup S) \in Int
    BY <2>6, <2>7, BoundsAreIntegers
  <2> QED BY <2>8 DEF DriverRequired, S
<1> SUFFICES ASSUME NEW p \in Pins PROVE RequiredWith(n)[p] \in Int
  BY DEF RequiredWith
<1>5. q[p] \in Int /\ (p \in ClockPins => ControlRequired(p) \in Int)
  BY <1>0, <1>2
<1>6. p \in Sinks => SinkRequired(p) \in Int
  BY <1>3
<1>7. RequiredWith(n)[p] =
        CASE net[p] = n /\ p \in Drivers -> DriverRequired(n)
          [] net[p] = n /\ p \in Sinks   -> SinkRequired(p)
          [] net[p] # n /\ p \in ClockPins /\ net[DataOf(p)] = n -> ControlRequired(p)
          [] OTHER                       -> q[p]
  BY DEF RequiredWith
<1>8. CASE net[p] = n /\ p \in Drivers
  <2>1. p \notin Sinks
    BY <1>8, PinsAssumption
  <2> QED BY <1>4, <1>7, <1>8, <2>1
<1>9. CASE net[p] = n /\ p \in Sinks
  <2>1. p \notin Drivers
    BY <1>9, PinsAssumption
  <2> QED BY <1>6, <1>7, <1>9, <2>1
<1>10. CASE net[p] # n
  BY <1>5, <1>7, <1>10
<1> QED BY <1>8, <1>9, <1>10 DEF Pins

\* The required times that tests set.
LEMMA TestsGiveIntegers ==
  ASSUME TimesGiven, TInv, NEW E, NEW u \in Int
  PROVE  RequiredAtEndpoints(E, u) \in [Pins -> Int]
<1> USE DEF TInv
<1> SUFFICES ASSUME NEW p \in Pins PROVE RequiredAtEndpoints(E, u)[p] \in Int
  BY DEF RequiredAtEndpoints
<1>1. q[p] \in Int /\ Period \in Int
  BY DEF TimesTyped, TimesGiven
<1>2. p \in DataPins => Period + a[ClockOf(p)] - u - Setup(p, lcell[Owner[p]]) \in Int
  <2> SUFFICES ASSUME p \in DataPins
               PROVE  Period + a[ClockOf(p)] - u - Setup(p, lcell[Owner[p]]) \in Int
    OBVIOUS
  <2>1. a[ClockOf(p)] \in Int
    BY ClockOfData DEF TimesTyped
  <2>2. lcell[Owner[p]] \in CellKinds
    BY PinsAssumption DEF DesignTyped
  <2>3. Setup(p, lcell[Owner[p]]) \in Int
    BY <2>2 DEF TimesGiven
  <2> QED BY <1>1, <2>1, <2>3
<1>3. RequiredAtEndpoints(E, u)[p] =
        CASE p \in E \cap DataPins ->
               Period + a[ClockOf(p)] - u - Setup(p, lcell[Owner[p]])
          [] p \in E \cap OutputPins -> Period
          [] OTHER -> q[p]
  BY DEF RequiredAtEndpoints
<1>4. p \in DataPins => p \notin OutputPins
  BY EndpointsAssumption DEF DataPins
<1>5. CASE p \in E \cap DataPins
  <2>1. p \notin E \cap OutputPins
    BY <1>4, <1>5
  <2> HIDE DEF TInv
  <2> QED BY <1>2, <1>3, <1>5, <2>1
<1>6. CASE p \notin E \cap DataPins
  BY <1>1, <1>3, <1>6
<1> QED BY <1>5, <1>6

\* The nets of an instance, and those that follow one, are nets.
LEMMA NeighboursAreNets ==
  ASSUME DesignTyped
  PROVE  /\ \A i : NetsOf(i) \subseteq Nets
         /\ \A n : NextNets(n, net) \subseteq Nets /\ PreviousNets(n) \subseteq Nets
BY PinsAssumption DEF DesignTyped, NetsOf, NextNets, PreviousNets, Pins

\* Whatever job is started, the variables of the run keep their types.
LEMMA StartKeepsTInv ==
  ASSUME TInv, NEW k \in {"full", "incremental", "local"}, NEW required \in BOOLEAN,
         NEW cells \in SUBSET Instances, NEW nets \in SUBSET Nets,
         Start(k, required, cells, nets)
  PROVE  TInv'
<1> USE DEF TInv
<1>1. tree' \in [Nets -> Trees]
  <2>1. \A n \in Nets : tree[n] \in Trees /\ Shape(n) \in Trees
    BY ShapeIsTree DEF DesignTyped
  <2>2. tree' = [n \in Nets |-> IF n \in Estimated THEN Shape(n) ELSE tree[n]]
    BY DEF Start, UpdatedTree
  <2> HIDE DEF Trees
  <2> QED BY <2>1, <2>2
<1>2. /\ UNCHANGED <<net, lcell, place, a, q, wdelay, delay, uncertainty>>
      /\ UNCHANGED <<dirtyNets, dirtyInstances, force, outOfSync, crashed>>
      /\ UNCHANGED <<sign, endpoints>>
  BY DEF Start, design, marks, values
<1>3. job' = [kind |-> k, required |-> required, cells |-> cells]
      /\ phase' = "arrival" /\ queue' = nets
  BY DEF Start
<1>4. DesignTyped'
  BY <1>1, <1>2 DEF DesignTyped
<1>5. TimesTyped' /\ MarksTyped'
  BY <1>2 DEF TimesTyped, MarksTyped
<1>6. RunTyped'
  BY <1>2, <1>3 DEF RunTyped
<1> QED BY <1>4, <1>5, <1>6

LEMMA CrashKeepsTInv ==
  ASSUME TInv, Crash
  PROVE  TInv'
BY DEF TInv, Crash, DesignTyped, TimesTyped, MarksTyped, RunTyped, design, marks,
       values, running

\* Edits.
LEMMA EditKeepsTInv ==
  ASSUME TInv, Edit
  PROVE  TInv'
<1> USE DEF TInv
<1>1. ASSUME NEW p \in Movable, DisconnectPin(p) \/
                                \E w \in Wirings : w[1] = p /\ ConnectPin(p, w[2])
      PROVE  TInv'
  <2>1. p \in Pins /\ Owner[p] \in Instances /\ \A w \in Wirings : w[2] \in Nets
    BY NetsAssumption, PinsAssumption
  <2>2. PICK n \in Nets \cup {NoNet} :
          /\ net' = [net EXCEPT ![p] = n]
          /\ dirtyNets' \subseteq dirtyNets \cup Nets \cup {NoNet}
    <3>1. CASE DisconnectPin(p)
      <4>1. net[p] \in Nets \cup {NoNet}
        BY <2>1 DEF DesignTyped
      <4> QED BY <3>1, <4>1 DEF DisconnectPin
    <3>2. CASE \E w \in Wirings : ConnectPin(p, w[2])
      BY <2>1, <3>2 DEF ConnectPin
    <3> QED BY <1>1, <3>1, <3>2
  <2>3. /\ dirtyInstances' = dirtyInstances \cup {Owner[p]}
        /\ UNCHANGED <<lcell, place, tree, force, outOfSync, crashed, uncertainty>>
        /\ UNCHANGED <<a, q, wdelay, delay>>
        /\ UNCHANGED <<sign, job, phase, queue, endpoints>>
    BY <1>1 DEF DisconnectPin, ConnectPin, values, running
  <2>4. DesignTyped'
    BY <2>1, <2>2, <2>3 DEF DesignTyped
  <2>5. TimesTyped' /\ MarksTyped' /\ RunTyped'
    BY <2>1, <2>2, <2>3 DEF TimesTyped, MarksTyped, RunTyped
  <2> QED BY <2>4, <2>5
<1>2. ASSUME NEW i \in Instances, \/ \E c \in LibraryCells[i] : Remap(i, c)
                                  \/ \E x \in Places[i] : Move(i, x)
      PROVE  TInv'
  <2>1. /\ dirtyInstances' = dirtyInstances \cup {i}
        /\ UNCHANGED <<net, tree, dirtyNets, force, outOfSync, crashed, uncertainty>>
        /\ UNCHANGED <<a, q, wdelay, delay>>
        /\ UNCHANGED <<sign, job, phase, queue, endpoints>>
    BY <1>2 DEF Remap, Move, values, running
  <2>2. lcell' \in [Instances -> CellKinds] /\ place' \in [Instances -> Spots]
    <3>1. \A c \in LibraryCells[i] : c \in CellKinds
      BY DEF CellKinds
    <3>2. \A x \in Places[i] : x \in Spots
      BY DEF Spots
    <3> HIDE DEF CellKinds, Spots
    <3> QED BY <1>2, <3>1, <3>2 DEF Remap, Move, DesignTyped
  <2>3. DesignTyped'
    BY <2>1, <2>2 DEF DesignTyped
  <2>4. TimesTyped' /\ MarksTyped' /\ RunTyped'
    BY <2>1 DEF TimesTyped, MarksTyped, RunTyped
  <2> QED BY <2>3, <2>4
<1> QED BY <1>1, <1>2 DEF Edit

\* The start of an update.
LEMMA UpdateKeepsTInv ==
  ASSUME TimesGiven, TInv, Update \/ LocalUpdate
  PROVE  TInv'
<1> USE DEF TInv
<1>1. ASSUME NEW required \in BOOLEAN, StartFull(required)
      PROVE  TInv'
  BY <1>1, StartKeepsTInv DEF StartFull
<1>2. ASSUME NEW required \in BOOLEAN,
             UpdateTimingFull(required) \/ UpdateTimingIncremental(required)
      PROVE  TInv'
  <2>1. Seeds \in SUBSET Nets
    BY NeighboursAreNets DEF Seeds, MarksTyped
  <2>2. \/ Crash \/ StartFull(required) \/ Start("incremental", required, {}, Seeds)
    BY <1>2 DEF UpdateTimingFull, UpdateTimingIncremental
  <2> QED BY <1>1, <2>1, <2>2, StartKeepsTInv, CrashKeepsTInv
<1>3. ASSUME NEW i \in LocalCells, NEW sinkCells \in BOOLEAN, NEW sideCells \in BOOLEAN,
             UpdateTimingLocally(i, sinkCells, sideCells)
      PROVE  TInv'
  <2> DEFINE from == {n \in NetsOf(i) : sinkCells /\
                       (sideCells \/ \E d \in Drivers : Owner[d] = i /\ net[d] = n)}
             nets == NetsOf(i) \cup UNION {NextNets(n, net) : n \in from}
  <2>1. nets \in SUBSET Nets
    BY NeighboursAreNets
  <2>2. Crash \/ Start("local", FALSE, {i}, nets)
    BY <1>3 DEF UpdateTimingLocally
  <2>3. {i} \in SUBSET Instances
    BY NetsAssumption
  <2> HIDE DEF nets
  <2> QED BY <2>1, <2>2, <2>3, StartKeepsTInv, CrashKeepsTInv
<1>4. ASSUME StartRequired, q' \in [Pins -> Int], uncertainty' \in Int
      PROVE  TInv'
  <2>1. /\ UNCHANGED <<net, lcell, place, tree, a, wdelay, delay>>
        /\ UNCHANGED <<dirtyNets, dirtyInstances, force, outOfSync, crashed>>
        /\ UNCHANGED <<sign, endpoints>>
        /\ job' = [kind |-> "required", required |-> TRUE, cells |-> {}]
        /\ phase' = "required" /\ queue' = Nets
    BY <1>4 DEF StartRequired, design, marks
  <2>2. DesignTyped' /\ MarksTyped'
    BY <2>1 DEF DesignTyped, MarksTyped
  <2>3. TimesTyped'
    BY <1>4, <2>1 DEF TimesTyped
  <2>4. RunTyped'
    BY <2>1 DEF RunTyped
  <2> QED BY <2>2, <2>3, <2>4
<1>5. ASSUME UpdateRequiredTimes PROVE TInv'
  BY <1>4, <1>5 DEF UpdateRequiredTimes, TimesTyped
<1>6. ASSUME NEW u \in Uncertainties, SetClockUncertainty(u) PROVE TInv'
  <2>1. u \in Int
    BY DEF TimesGiven
  <2>2. q' \in [Pins -> Int] /\ uncertainty' \in Int
    BY <1>6, <2>1, TestsGiveIntegers DEF SetClockUncertainty
  <2> QED BY <1>4, <1>6, <2>2 DEF SetClockUncertainty
<1> QED BY <1>2, <1>3, <1>5, <1>6 DEF Update, LocalUpdate

\* One turn of a propagation.
LEMMA PropagationKeepsTInv ==
  ASSUME TimesGiven, TInv, NEW n \in queue, PropagateArrival(n) \/ PropagateRequired(n)
  PROVE  TInv'
<1> USE DEF TInv
<1>0. n \in Nets
  BY DEF RunTyped
<1>1. CASE Crash
  BY <1>1, CrashKeepsTInv
<1>2. CASE PropagateArrival(n) /\ ~Crash
  <2>1. /\ UNCHANGED <<net, lcell, place, tree, uncertainty, q>>
        /\ UNCHANGED <<dirtyInstances, force, outOfSync, crashed, job, phase>>
        /\ VisitForward(n)
    BY <1>2 DEF PropagateArrival, design
  <2>2. a' \in [Pins -> Int] /\ delay' \in [Through -> Int] /\ wdelay' \in [Sinks -> Int]
    <3>1. CASE HasDriver(n)
      <4>1. PinsOn(n) = {} \/ (/\ a' = ArrivalsWith(n) /\ delay' = DelaysWith(n)
                               /\ wdelay' = WireDelaysWith(n))
        BY <1>2 DEF PropagateArrival
      <4>2. PinsOn(n) # {}
        BY <3>1 DEF HasDriver, PinsOn, Pins
      <4> QED BY <1>0, <3>1, <4>1, <4>2, ArrivalsAreIntegers
    <3>2. CASE ~HasDriver(n)
      <4>1. UNCHANGED <<a, delay, wdelay>>
        BY <1>2, <3>2 DEF PropagateArrival
      <4> QED BY <4>1 DEF TimesTyped
    <3> QED BY <3>1, <3>2
  <2>3. /\ queue' \subseteq Nets /\ endpoints' \subseteq Nets
        /\ sign' \in [Nets -> {"old", "arrival", "required"}]
        /\ dirtyNets' \subseteq Nets \cup {NoNet}
    <3>1. NextNets(n, net) \subseteq Nets
      BY <1>0, NeighboursAreNets
    <3>2. {net[x[2]] : x \in {x \in Controls : net[x[1]] = n}} \ {NoNet} \subseteq Nets
      BY PinsAssumption DEF DesignTyped, Pins
    <3>3. CASE job.kind = "local"
      BY <1>0, <2>1, <3>3 DEF VisitForward, RunTyped, MarksTyped
    <3>4. CASE job.kind # "local"
      <4>1. queue' \subseteq queue \cup NextNets(n, net)
        BY <2>1, <3>4 DEF VisitForward
      <4>2. sign' = [sign EXCEPT ![n] = "arrival"] /\ dirtyNets' = dirtyNets
        BY <2>1, <3>4 DEF VisitForward
      <4>3. endpoints' \subseteq endpoints \cup {n} \cup
              ({net[x[2]] : x \in {x \in Controls : net[x[1]] = n}} \ {NoNet})
        BY <2>1, <3>4 DEF VisitForward
      <4>4. queue' \subseteq Nets /\ endpoints' \subseteq Nets
        BY <1>0, <3>1, <3>2, <4>1, <4>3 DEF RunTyped
      <4>5. sign' \in [Nets -> {"old", "arrival", "required"}]
        BY <1>0, <4>2 DEF RunTyped
      <4> QED BY <4>2, <4>4, <4>5 DEF MarksTyped
    <3> QED BY <3>3, <3>4
  <2>4. DesignTyped'
    BY <2>1 DEF DesignTyped
  <2>5. TimesTyped'
    BY <2>1, <2>2 DEF TimesTyped
  <2>6. MarksTyped'
    BY <2>1, <2>3 DEF MarksTyped
  <2>7. RunTyped'
    BY <2>1, <2>3 DEF RunTyped
  <2> QED BY <2>4, <2>5, <2>6, <2>7
<1>3. CASE PropagateRequired(n)
  <2>1. /\ UNCHANGED <<net, lcell, place, tree, uncertainty, a, wdelay, delay>>
        /\ UNCHANGED <<dirtyNets, dirtyInstances, force, outOfSync, crashed>>
        /\ UNCHANGED <<job, phase, endpoints>>
        /\ q' = IF HasDriver(n) THEN RequiredWith(n) ELSE q
        /\ sign' = [sign EXCEPT ![n] = "required"]
        /\ queue' \subseteq queue \cup PreviousNets(n)
    BY <1>3 DEF PropagateRequired, design, marks
  <2>2. DesignTyped' /\ MarksTyped'
    BY <2>1 DEF DesignTyped, MarksTyped
  <2>3. TimesTyped'
    <3>1. RequiredWith(n) \in [Pins -> Int]
      BY <1>0, RequiredIsInteger
    <3> QED BY <2>1, <3>1 DEF TimesTyped
  <2>4. RunTyped'
    <3>1. PreviousNets(n) \subseteq Nets
      BY NeighboursAreNets
    <3> QED BY <1>0, <2>1, <3>1 DEF RunTyped
  <2> QED BY <2>2, <2>3, <2>4
<1> QED BY <1>1, <1>2, <1>3

\* The end of a phase or of an update.
LEMMA EndKeepsTInv ==
  ASSUME TimesGiven, TInv, EndLocal \/ EndArrival \/ EndRequired
  PROVE  TInv'
<1> USE DEF TInv
<1>0. uncertainty \in Int
  BY DEF TimesTyped
<1>1. ASSUME Return, queue' = queue
      PROVE  RunTyped'
  BY <1>1 DEF Return, RunTyped, NoJob
<1>2. CASE EndLocal
  <2> DEFINE tested == {d \in DataPins : Owner[d] \in job.cells}
  <2>1. /\ UNCHANGED <<net, lcell, place, tree, uncertainty, a, wdelay, delay>>
        /\ UNCHANGED <<dirtyInstances, force, outOfSync, crashed, queue>>
        /\ q' = RequiredAtEndpoints(tested, uncertainty)
        /\ dirtyNets' = dirtyNets \cup ({net[d] : d \in tested} \ {NoNet})
        /\ Return
    BY <1>2 DEF EndLocal, design
  <2>2. {net[d] : d \in tested} \subseteq Nets \cup {NoNet}
    BY PinsAssumption DEF DesignTyped, DataPins, Pins
  <2>3. q' \in [Pins -> Int]
    BY <1>0, <2>1, TestsGiveIntegers
  <2> HIDE DEF tested
  <2>4. DesignTyped' /\ MarksTyped'
    BY <2>1, <2>2 DEF DesignTyped, MarksTyped
  <2>5. TimesTyped'
    BY <2>1, <2>3 DEF TimesTyped
  <2> QED BY <1>1, <2>1, <2>4, <2>5
<1>3. CASE EndArrival
  <2>1. /\ UNCHANGED <<net, lcell, place, tree, uncertainty, a, wdelay, delay, crashed>>
        /\ q' = RequiredAtEndpoints(Endpoints, uncertainty)
    BY <1>3 DEF EndArrival, design
  <2>2. q' \in [Pins -> Int]
    BY <1>0, <2>1, TestsGiveIntegers
  <2>3. DesignTyped' /\ TimesTyped'
    BY <2>1, <2>2 DEF DesignTyped, TimesTyped
  <2>4. MarksTyped' /\ RunTyped'
    <3>1. CASE job.required
      <4>1. /\ UNCHANGED <<dirtyNets, dirtyInstances, force, outOfSync, sign, job, endpoints>>
            /\ phase' = "required" /\ queue' \in {Nets, endpoints}
        BY <1>3, <3>1 DEF EndArrival, marks
      <4> QED BY <2>1, <4>1 DEF MarksTyped, RunTyped
    <3>2. CASE ~job.required
      <4>1. outOfSync' = TRUE /\ ClearMarks /\ Return /\ queue' = queue
        BY <1>3, <3>2 DEF EndArrival
      <4>2. MarksTyped'
        BY <2>1, <4>1 DEF ClearMarks, MarksTyped
      <4> QED BY <1>1, <4>1, <4>2
    <3> QED BY <3>1, <3>2
  <2> QED BY <2>3, <2>4
<1>4. CASE EndRequired
  <2>1. /\ UNCHANGED <<net, lcell, place, tree, uncertainty, a, q, wdelay, delay>>
        /\ queue' = queue /\ crashed' = crashed /\ Return
    BY <1>4 DEF EndRequired, design, values
  <2>2. DesignTyped' /\ TimesTyped'
    BY <2>1 DEF DesignTyped, TimesTyped
  <2>3. MarksTyped'
    <3>1. CASE job.kind = "required"
      BY <1>4, <2>1, <3>1 DEF EndRequired, marks, MarksTyped
    <3>2. CASE job.kind # "required"
      BY <1>4, <2>1, <3>2 DEF EndRequired, ClearMarks, MarksTyped
    <3> QED BY <3>1, <3>2
  <2> QED BY <1>1, <2>1, <2>2, <2>3
<1> QED BY <1>2, <1>3, <1>4

LEMMA InitTInv ==
  ASSUME TimesGiven, Init
  PROVE  TInv
<1>1. net \in [Pins -> Nets \cup {NoNet}]
  BY InitIInv DEF IInv, Typed
<1>2. lcell \in [Instances -> CellKinds] /\ place \in [Instances -> Spots]
  <2>1. /\ lcell = [i \in Instances |-> CHOOSE c \in LibraryCells[i] : TRUE]
        /\ place = [i \in Instances |-> CHOOSE x \in Places[i] : TRUE]
    BY DEF Init
  <2>2. ASSUME NEW i \in Instances
        PROVE  (CHOOSE c \in LibraryCells[i] : TRUE) \in CellKinds
               /\ (CHOOSE x \in Places[i] : TRUE) \in Spots
    <3>1. /\ (CHOOSE c \in LibraryCells[i] : TRUE) \in LibraryCells[i]
          /\ (CHOOSE x \in Places[i] : TRUE) \in Places[i]
      BY DEF TimesGiven
    <3> QED BY <3>1 DEF CellKinds, Spots
  <2> HIDE DEF CellKinds, Spots
  <2> QED BY <2>1, <2>2
<1>3. tree \in [Nets -> Trees]
  <2>1. <<>> \in Trees
    BY DEF Trees
  <2>2. tree = [n \in Nets |-> <<>>]
    BY DEF Init
  <2> QED BY <2>1, <2>2
<1>4. uncertainty \in Int
  <2>1. (CHOOSE u \in Uncertainties : TRUE) \in Uncertainties
    BY DEF TimesGiven
  <2> QED BY <2>1 DEF Init, TimesGiven
<1>5. NoRequired \in Int
  BY DEF TimesGiven
<1>6. TimesTyped
  BY <1>4, <1>5 DEF Init, TimesTyped
<1>7. MarksTyped
  BY DEF Init, MarksTyped
<1>8. RunTyped
  BY DEF Init, RunTyped, NoJob
<1> QED BY <1>1, <1>2, <1>3, <1>6, <1>7, <1>8 DEF TInv, DesignTyped

LEMMA NextKeepsTInv ==
  ASSUME TimesGiven, TInv, [Next]_vars
  PROVE  TInv'
<1>1. CASE UNCHANGED vars
  BY <1>1 DEF TInv, vars, DesignTyped, TimesTyped, MarksTyped, RunTyped, design, marks,
              values
<1>2. CASE Propagate
  BY <1>2, PropagationKeepsTInv, EndKeepsTInv DEF Propagate
<1> QED BY <1>1, <1>2, EditKeepsTInv, UpdateKeepsTInv DEF Next, Gone

\* Times are integers for every library, tree and constraint that gives integers;
\* an update visits nets only, and a timing is never taken from a pin without one.
THEOREM TypeCorrect ==
  ASSUME TimesGiven
  PROVE  Spec => []TypeOK
<1>1. ASSUME Init PROVE TInv
  BY <1>1, InitTInv
<1>2. ASSUME TInv, [Next]_vars PROVE TInv'
  BY <1>2, NextKeepsTInv
<1>3. TInv => TypeOK
  BY DEF TInv, TypeOK, DesignTyped, TimesTyped, MarksTyped, RunTyped
<1> QED BY <1>1, <1>2, <1>3, PTL DEF Spec

=============================================================================
