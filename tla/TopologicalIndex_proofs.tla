------------------------ MODULE TopologicalIndex_proofs ------------------------
(***************************************************************************)
(* Proofs about TopologicalIndex for every set of pins, every netlist      *)
(* without loops and every pair of gaps.  While a connection is being      *)
(* propagated the indices are not in order; what is inductive is that each *)
(* arc out of order has its entry in the queue, and that the queue never   *)
(* gets back to the connected pin.                                         *)
(***************************************************************************)
EXTENDS TopologicalIndex, TLAPS, FiniteSetTheorems, WellFoundedInduction

\* The queue holds pins downstream of the connected pin only, which is not
\* one of them, and the index range it maps is not empty.
Propagating ==
  open # {} =>
    /\ pin \in Pins
    /\ pin \notin Downstream(pin, net)
    /\ \A e \in open : e[1] \in Downstream(pin, net)
    /\ upper <= 0 /\ left1 > 0

IInv ==
  /\ TypeOK
  /\ PendingArcsQueued
  /\ Propagating

Wirings == [Pins -> Nets \cup {NoNet}]

-----------------------------------------------------------------------------
(***************************************************************************)
(* Arcs, neighbours and the pins downstream.                               *)
(***************************************************************************)

\* The neighbours that the collections return are those that arcs lead to.
LEMMA NeighboursAreArcs ==
  ASSUME NEW nt \in Wirings, NEW x \in Pins, NEW q \in Pins
  PROVE  /\ <<x, q>> \in Arcs(nt) <=> x \in Predecessors(q, nt)
         /\ <<x, q>> \in Arcs(nt) <=> q \in Successors(x, nt)
<1>1. <<x, q>> \in Arcs(nt) <=>
        \/ <<x, q>> \in Through
        \/ x \in Drivers /\ q \in Sinks /\ nt[x] = nt[q] /\ nt[x] \in Nets
  BY DEF Arcs, DriversOf, SinksOf
<1>2. \A p \in Pins : nt[p] # NoNet <=> nt[p] \in Nets
  BY PinsAssumption DEF Wirings
<1> QED BY <1>1, <1>2, PinsAssumption
        DEF Predecessors, Successors, DriversOf, SinksOf, Pins

\* The neighbours of a pin are pins.
LEMMA NeighboursArePins ==
  ASSUME NEW nt \in Wirings, NEW p \in Pins
  PROVE  /\ Predecessors(p, nt) \subseteq Pins
         /\ Successors(p, nt) \subseteq Pins
BY DEF Predecessors, Successors, DriversOf, SinksOf, Pins

\* An arc is a pair of two different pins.
LEMMA ArcsJoinDifferentPins ==
  ASSUME NEW nt \in Wirings, NEW a \in Arcs(nt)
  PROVE  /\ a = <<a[1], a[2]>>
         /\ a[1] \in Pins /\ a[2] \in Pins /\ a[1] # a[2]
BY PinsAssumption DEF Arcs, DriversOf, SinksOf, Pins

\* A change of the net of p changes no arc between other pins.
LEMMA OtherArcsStay ==
  ASSUME NEW nt \in Wirings, NEW p \in Pins, NEW n,
         NEW a \in Arcs([nt EXCEPT ![p] = n]), a[1] # p, a[2] # p
  PROVE  a \in Arcs(nt)
<1>1. CASE a \in Through
  BY <1>1 DEF Arcs
<1>2. CASE a \notin Through
  <2>1. PICK m \in Nets : /\ a[1] \in Drivers /\ a[2] \in Sinks
                          /\ [nt EXCEPT ![p] = n][a[1]] = m
                          /\ [nt EXCEPT ![p] = n][a[2]] = m
                          /\ a = <<a[1], a[2]>>
    BY <1>2 DEF Arcs, DriversOf, SinksOf
  <2>2. nt[a[1]] = m /\ nt[a[2]] = m
    BY <2>1 DEF Wirings, Pins
  <2> QED BY <2>1, <2>2 DEF Arcs, DriversOf, SinksOf
<1> QED BY <1>1, <1>2

\* A pin off every net has no arcs but those of its instance.
LEMMA DisconnectedArcsStay ==
  ASSUME NEW nt \in Wirings, NEW p \in Pins
  PROVE  Arcs([nt EXCEPT ![p] = NoNet]) \subseteq Arcs(nt)
<1> DEFINE new == [nt EXCEPT ![p] = NoNet]
<1> SUFFICES ASSUME NEW a \in Arcs(new)
             PROVE  a \in Arcs(nt)
  OBVIOUS
<1>1. CASE a \in Through
  BY <1>1 DEF Arcs
<1>2. CASE a \notin Through
  <2>1. PICK m \in Nets : /\ a[1] \in Drivers /\ a[2] \in Sinks
                          /\ new[a[1]] = m /\ new[a[2]] = m
    BY <1>2 DEF Arcs, DriversOf, SinksOf
  <2>2. a[1] # p /\ a[2] # p
    BY <2>1, PinsAssumption DEF Wirings
  <2> QED BY <2>2, OtherArcsStay
<1> QED BY <1>1, <1>2

\* The successors of p are downstream of p, and so are theirs.
LEMMA DownstreamIsClosed ==
  ASSUME NEW nt \in Wirings, NEW p \in Pins
  PROVE  /\ Successors(p, nt) \subseteq Downstream(p, nt)
         /\ \A q \in Downstream(p, nt) :
              q \in Pins /\ Successors(q, nt) \subseteq Downstream(p, nt)
<1> DEFINE next == [q \in Drivers \cup {p} |-> NextDrivers(q, nt)]
           closed(D) == \A q \in D \cup {p} : next[q] \subseteq D
           drivers == DownstreamDrivers(p, nt)
<1>1. drivers = {d \in Drivers : \A D \in SUBSET Drivers : closed(D) => d \in D}
  BY DEF DownstreamDrivers
<1>2. \A q \in drivers \cup {p} : NextDrivers(q, nt) \subseteq drivers
  <2> SUFFICES ASSUME NEW q \in drivers \cup {p}, NEW d \in NextDrivers(q, nt)
               PROVE  d \in drivers
    OBVIOUS
  <2>1. d \in Drivers
    BY DEF NextDrivers
  <2>2. ASSUME NEW D \in SUBSET Drivers, closed(D)
        PROVE  d \in D
    <3>1. q \in D \cup {p}
      BY <1>1, <2>2
    <3>2. q \in Drivers \cup {p}
      BY <1>1
    <3>3. next[q] \subseteq D
      BY <2>2, <3>1
    <3> QED BY <3>2, <3>3
  <2> QED BY <1>1, <2>1, <2>2
<1>3. drivers \subseteq Drivers
  BY <1>1
<1>4. Downstream(p, nt) =
        drivers \cup UNION {Successors(d, nt) : d \in drivers \cup ({p} \cap Drivers)}
  BY DEF Downstream
<1> HIDE DEF drivers, next, closed
<1>5. ASSUME NEW q \in Sinks
      PROVE  Successors(q, nt) \subseteq Drivers
  BY PinsAssumption DEF Successors
<1>6. ASSUME NEW d \in Drivers
      PROVE  Successors(d, nt) \subseteq Sinks
  BY PinsAssumption DEF Successors, SinksOf
<1>7. Successors(p, nt) \subseteq Downstream(p, nt)
  <2>1. CASE p \in Drivers
    BY <1>4, <2>1
  <2>2. CASE p \in Sinks
    <3>1. Successors(p, nt) \subseteq NextDrivers(p, nt)
      BY <1>5, <2>2 DEF NextDrivers
    <3> QED BY <1>2, <1>4, <3>1
  <2> QED BY <2>1, <2>2 DEF Pins
<1>8. ASSUME NEW q \in Downstream(p, nt)
      PROVE  q \in Pins /\ Successors(q, nt) \subseteq Downstream(p, nt)
  <2>1. CASE q \in drivers
    BY <1>3, <1>4, <2>1 DEF Pins
  <2>2. CASE q \notin drivers
    <3>1. PICK d \in drivers \cup ({p} \cap Drivers) : q \in Successors(d, nt)
      BY <1>4, <2>2
    <3>2. q \in Sinks
      BY <1>3, <1>6, <3>1
    <3>3. Successors(q, nt) \subseteq NextDrivers(d, nt)
      BY <1>5, <3>1, <3>2 DEF NextDrivers
    <3>4. Successors(q, nt) \subseteq drivers
      BY <1>2, <3>1, <3>3
    <3> QED BY <1>4, <3>2, <3>4 DEF Pins
  <2> QED BY <2>1, <2>2
<1> QED BY <1>7, <1>8

-----------------------------------------------------------------------------
(***************************************************************************)
(* The folds over the indices of neighbours.                               *)
(***************************************************************************)

\* A finite sequence of integers has a greatest one.
LEMMA SequenceHasGreatest ==
  ASSUME NEW n \in Nat, NEW g \in [0 .. n -> Int]
  PROVE  \E i \in 0 .. n : \A j \in 0 .. n : g[j] <= g[i]
<1> DEFINE Bounded(k) == \E i \in 0 .. k : \A j \in 0 .. k : g[j] <= g[i]
           bad == {k \in 0 .. n : ~ Bounded(k)}
<1>1. SUFFICES ASSUME bad # {} PROVE FALSE
  <2>1. n \in 0 .. n
    OBVIOUS
  <2>2. bad = {} => Bounded(n)
    BY <2>1
  <2> HIDE DEF bad
  <2> QED BY <2>2
<1>2. IsWellFoundedOn(OpToRel(<, Nat), Nat)
  BY NatLessThanWellFounded
<1>3. PICK k \in bad : \A j \in bad : ~ (<<j, k>> \in OpToRel(<, Nat))
  <2>1. bad \subseteq Nat
    OBVIOUS
  <2> HIDE DEF bad
  <2> QED BY <1>1, <1>2, <2>1, WFMin
<1>4. k \in 0 .. n /\ ~ Bounded(k)
  OBVIOUS
<1>5. k # 0
  <2> SUFFICES ASSUME k = 0 PROVE Bounded(0)
    BY <1>4
  <2>1. 0 \in 0 .. 0 /\ \A j \in 0 .. 0 : j = 0
    OBVIOUS
  <2>2. g[0] <= g[0]
    OBVIOUS
  <2> QED BY <2>1, <2>2
<1>6. k - 1 \in 0 .. n /\ k - 1 \in Nat /\ k \in Nat /\ k - 1 < k
  BY <1>4, <1>5
<1>7. <<k - 1, k>> \in OpToRel(<, Nat)
  BY <1>6 DEF OpToRel
<1>8. k - 1 \notin bad
  BY <1>3, <1>7
<1>9. Bounded(k - 1)
  BY <1>6, <1>8
<1>10. PICK i \in 0 .. k - 1 : \A j \in 0 .. k - 1 : g[j] <= g[i]
  BY <1>9
<1>11. \A j \in 0 .. k : j \in 0 .. k - 1 \/ j = k
  BY <1>6
<1>12. i \in 0 .. k /\ k \in 0 .. k /\ \A j \in 0 .. k : g[j] \in Int
  BY <1>4, <1>6
<1>13. CASE g[k] <= g[i]
  BY <1>4, <1>10, <1>11, <1>12, <1>13
<1>14. CASE ~ (g[k] <= g[i])
  <2>1. \A j \in 0 .. k : g[j] <= g[k]
    BY <1>10, <1>11, <1>12, <1>14
  <2> QED BY <1>4, <1>12, <2>1
<1> QED BY <1>13, <1>14

\* Finitely many integers and 0 have a greatest one.
LEMMA HasGreatest ==
  ASSUME NEW T, IsFiniteSet(T), NEW o \in [T -> Int]
  PROVE  \E m \in {o[q] : q \in T} \cup {0} : \A x \in {o[q] : q \in T} \cup {0} : x <= m
<1>1. PICK n \in Nat : ExistsSurjection(1 .. n, T)
  BY FS_NatSurjection
<1>2. PICK f \in [1 .. n -> T] : \A t \in T : \E i \in 1 .. n : f[i] = t
  BY <1>1 DEF ExistsSurjection, Surjection
<1> DEFINE g == [i \in 0 .. n |-> IF i = 0 THEN 0 ELSE o[f[i]]]
<1>3. \A i \in 0 .. n : i # 0 => i \in 1 .. n
  OBVIOUS
<1>4. g \in [0 .. n -> Int]
  BY <1>2, <1>3
<1>5. PICK i \in 0 .. n : \A j \in 0 .. n : g[j] <= g[i]
  <2> HIDE DEF g
  <2> QED BY <1>4, SequenceHasGreatest
<1>6. g[i] \in {o[q] : q \in T} \cup {0}
  BY <1>2, <1>3
<1>7. ASSUME NEW x \in {o[q] : q \in T} \cup {0}
      PROVE  x <= g[i]
  <2>1. CASE x = 0
    <3>1. 0 \in 0 .. n /\ g[0] = 0
      OBVIOUS
    <3> QED BY <1>5, <2>1, <3>1
  <2>2. CASE x # 0
    <3>1. PICK q \in T : x = o[q]
      BY <2>2
    <3>2. PICK j \in 1 .. n : f[j] = q
      BY <1>2
    <3>3. j \in 0 .. n /\ j # 0
      OBVIOUS
    <3>4. g[j] = x
      BY <3>1, <3>2, <3>3
    <3> QED BY <1>5, <3>3, <3>4
  <2> QED BY <2>1, <2>2
<1> QED BY <1>6, <1>7

\* The lower bound is nonnegative and at least the index of each predecessor,
\* the upper bound is at most 0 and at most the index of each successor.
LEMMA BoundsHold ==
  ASSUME TypeOK, NEW nt \in Wirings, NEW p \in Pins
  PROVE  /\ Lower(p, nt) \in Int /\ Lower(p, nt) >= 0
         /\ \A q \in Predecessors(p, nt) : order[q] <= Lower(p, nt)
         /\ Upper(p, nt) \in Int /\ Upper(p, nt) <= 0
         /\ \A q \in Successors(p, nt) : Upper(p, nt) <= order[q]
<1>0. order \in [Pins -> Int]
  BY DEF TypeOK
<1>1. /\ Lower(p, nt) \in Int /\ Lower(p, nt) >= 0
      /\ \A q \in Predecessors(p, nt) : order[q] <= Lower(p, nt)
  <2> DEFINE T == Predecessors(p, nt)
             o == [q \in T |-> order[q]]
  <2>1. T \subseteq Pins
    BY NeighboursArePins
  <2>2. IsFiniteSet(T)
    BY <2>1, PinsAssumption, FS_Subset
  <2>3. o \in [T -> Int]
    BY <1>0, <2>1
  <2>4. {o[q] : q \in T} = {order[q] : q \in T}
    OBVIOUS
  <2> DEFINE S == {order[q] : q \in T}
  <2>5. \E m \in S \cup {0} : \A x \in S \cup {0} : x <= m
    <3> HIDE DEF T
    <3> QED BY <2>2, <2>3, <2>4, HasGreatest
  <2>6. Largest(S) \in S \cup {0} /\ \A x \in S \cup {0} : x <= Largest(S)
    BY <2>5 DEF Largest
  <2>7. S \subseteq Int
    BY <1>0, <2>1
  <2> QED BY <2>6, <2>7 DEF Lower
<1>2. /\ Upper(p, nt) \in Int /\ Upper(p, nt) <= 0
      /\ \A q \in Successors(p, nt) : Upper(p, nt) <= order[q]
  <2> DEFINE T == Successors(p, nt)
             o == [q \in T |-> - order[q]]
             S == {order[q] : q \in T}
  <2>1. T \subseteq Pins
    BY NeighboursArePins
  <2>2. IsFiniteSet(T)
    BY <2>1, PinsAssumption, FS_Subset
  <2>3. o \in [T -> Int]
    BY <1>0, <2>1
  <2>4. PICK m \in {o[q] : q \in T} \cup {0} : \A x \in {o[q] : q \in T} \cup {0} : x <= m
    <3> HIDE DEF T, o
    <3> QED BY <2>2, <2>3, HasGreatest
  <2>5. m \in Int
    BY <2>3, <2>4
  <2>6. \A q \in T : o[q] = - order[q] /\ order[q] \in Int
    BY <1>0, <2>1
  <2>7. \A q \in T : - m <= order[q]
    <3> SUFFICES ASSUME NEW q \in T PROVE - m <= order[q]
      OBVIOUS
    <3>1. o[q] <= m /\ o[q] = - order[q] /\ order[q] \in Int
      BY <2>4, <2>6
    <3> HIDE DEF o
    <3> QED BY <2>5, <3>1
  <2>8. \A x \in S \cup {0} : - m <= x
    <3>1. 0 <= m
      BY <2>4
    <3>2. - m <= 0
      BY <2>5, <3>1
    <3> QED BY <2>7, <3>2
  <2>9. - m \in S \cup {0}
    <3>1. CASE m = 0
      <4>1. m <= 0 /\ 0 <= m
        BY <3>1
      <4>2. - m = 0
        <5> HIDE <3>1
        <5> QED BY <2>5, <4>1
      <4> QED BY <4>2
    <3>2. CASE m # 0
      <4>1. PICK q \in T : m = o[q]
        BY <2>4, <3>2
      <4>2. m = - order[q] /\ order[q] \in Int
        BY <2>6, <4>1
      <4>3. - m = order[q]
        BY <4>2
      <4> QED BY <4>3
    <3> QED BY <3>1, <3>2
  <2>10. Smallest(S) \in S \cup {0} /\ \A x \in S \cup {0} : Smallest(S) <= x
    BY <2>8, <2>9 DEF Smallest
  <2>11. S \subseteq Int
    BY <1>0, <2>1
  <2> QED BY <2>10, <2>11 DEF Upper
<1> QED BY <1>1, <1>2

-----------------------------------------------------------------------------
(***************************************************************************)
(* The invariant.                                                          *)
(***************************************************************************)

\* The indices that createCell and createPort give respect the arcs.
LEMMA InitIInv == Init => IInv
<1> SUFFICES ASSUME Init PROVE IInv
  OBVIOUS
<1>1. \A p \in Pins : InitialOrder(p) \in Int
  BY GapAssumption DEF InitialOrder
<1>2. TypeOK
  BY <1>1 DEF Init, TypeOK
<1>3. Arcs(net) = Through
  BY PinsAssumption DEF Init, Arcs, DriversOf, SinksOf, Pins
<1>4. ASSUME NEW a \in Through
      PROVE  InitialOrder(a[1]) < InitialOrder(a[2])
  <2>1. a[1] \in Sinks /\ a[2] \in Drivers /\ a = <<a[1], a[2]>>
    BY PinsAssumption
  <2>2. \A i \in Sinks : <<i, a[1]>> \notin OutputPorts
    BY <2>1, PinsAssumption, PortsAssumption
  <2>3. \A o \in Drivers : <<a[2], o>> \notin OutputPorts
    BY <2>1, PinsAssumption, PortsAssumption
  <2>4. CASE a \in OutputPorts
    <3>1. InitialOrder(a[1]) = 1
      BY <2>1, <2>2, <2>4 DEF InitialOrder
    <3>2. InitialOrder(a[2]) = 2
      BY <2>1, <2>4 DEF InitialOrder
    <3> QED BY <3>1, <3>2
  <2>5. CASE a \notin OutputPorts
    <3>1. \A o \in Drivers : <<a[1], o>> \notin OutputPorts
      BY <2>1, <2>5, PortsAssumption
    <3>2. InitialOrder(a[1]) = 0
      BY <2>1, <2>2, <3>1, PinsAssumption DEF InitialOrder
    <3>3. InitialOrder(a[2]) \in {2, SmallGap}
      BY <2>1, <2>3 DEF InitialOrder
    <3> QED BY <3>2, <3>3, GapAssumption
  <2> QED BY <2>4, <2>5
<1>5. PendingArcsQueued
  BY <1>3, <1>4, PinsAssumption DEF Init, PendingArcsQueued, Pins
<1>6. Propagating
  BY DEF Init, Propagating
<1> QED BY <1>2, <1>5, <1>6 DEF IInv

\* The index of a connected pin is above its predecessors; it is below each
\* successor or that successor will be queued.
LEMMA ConnectedOrderFits ==
  ASSUME TypeOK, NEW nt \in Wirings, NEW p \in Pins
  PROVE  LET own == ConnectedOrder(p, nt)
         IN  /\ own \in Int
             /\ \A q \in Predecessors(p, nt) : order[q] < own
             /\ Propagates(p, nt) => own < Lower(p, nt) + SmallGap + 1 + LargeGap
             /\ ~ Propagates(p, nt) => \A q \in Successors(p, nt) : own < order[q]
<1> DEFINE low == Lower(p, nt)
           up == Upper(p, nt)
           pred == Predecessors(p, nt)
           succ == Successors(p, nt)
           own == ConnectedOrder(p, nt)
<1>1. /\ low \in Int /\ low >= 0 /\ up \in Int /\ up <= 0
      /\ \A q \in pred : order[q] <= low /\ order[q] \in Int
      /\ \A q \in succ : up <= order[q] /\ order[q] \in Int
  BY BoundsHold, NeighboursArePins DEF TypeOK
<1>2. SmallGap \in Nat /\ SmallGap > 0 /\ LargeGap \in Nat /\ LargeGap > 0
  BY GapAssumption
<1>3. ~ (low < up)
  BY <1>1
<1>4. Propagates(p, nt) <=> pred # {} /\ succ # {}
  BY <1>3 DEF Propagates
<1>5. own = IF pred = {} THEN IF succ = {} THEN 0 ELSE up - SmallGap
            ELSE IF succ = {} THEN low + SmallGap
            ELSE (low + (low + SmallGap + 1)) \div 2
  BY <1>4 DEF ConnectedOrder
<1> HIDE DEF low, up, pred, succ, own
<1>6. CASE pred = {} /\ succ = {}
  BY <1>4, <1>5, <1>6 DEF low, own, pred, succ
<1>7. CASE pred = {} /\ succ # {}
  BY <1>1, <1>2, <1>4, <1>5, <1>7 DEF low, own, pred, succ
<1>8. CASE pred # {} /\ succ = {}
  BY <1>1, <1>2, <1>4, <1>5, <1>8 DEF low, own, pred, succ
<1>9. CASE pred # {} /\ succ # {}
  <2>1. own = (low + (low + SmallGap + 1)) \div 2
    BY <1>5, <1>9
  <2>2. own \in Int /\ low < own /\ own < low + SmallGap + 1 + LargeGap
    BY <1>1, <1>2, <2>1
  <2> QED BY <1>1, <1>4, <1>9, <2>2 DEF low, own, pred, succ
<1> QED BY <1>6, <1>7, <1>8, <1>9

\* connectPin queues every successor that its new index overtakes.
LEMMA ConnectKeepsIInv ==
  ASSUME IInv, NEW p \in Wired, NEW n \in Nets, Connect(p, n)
  PROVE  IInv'
<1> DEFINE nt == [net EXCEPT ![p] = n]
           own == ConnectedOrder(p, nt)
           left == Lower(p, nt) + SmallGap + 1
           low == {q \in Successors(p, nt) : order[q] < left + LargeGap}
<1>1. p \in Pins /\ net \in Wirings /\ nt \in Wirings
  BY PinsAssumption DEF IInv, TypeOK, Wirings
<1>2. /\ open = {} /\ p \notin Downstream(p, nt)
      /\ net' = nt /\ order' = [order EXCEPT ![p] = own]
  BY DEF Connect
<1>3. /\ own \in Int
      /\ \A q \in Predecessors(p, nt) : order[q] < own
      /\ Propagates(p, nt) => own < left + LargeGap
      /\ ~ Propagates(p, nt) => \A q \in Successors(p, nt) : own < order[q]
  BY <1>1, ConnectedOrderFits DEF IInv
<1>4. /\ Lower(p, nt) \in Int /\ Lower(p, nt) >= 0
      /\ Upper(p, nt) \in Int /\ Upper(p, nt) <= 0
  BY <1>1, BoundsHold DEF IInv
<1>5. order \in [Pins -> Int]
  BY DEF IInv, TypeOK
<1>6. IF Propagates(p, nt) /\ low # {}
      THEN /\ pin' = p /\ upper' = Upper(p, nt) /\ left1' = left /\ signed' = {}
           /\ open' = {<<q, own>> : q \in low}
      ELSE UNCHANGED <<pin, upper, left1, signed, open>>
  BY DEF Connect
<1>7. low \subseteq Pins
  BY <1>1, NeighboursArePins
<1>8. left \in Int /\ left > 0
  BY <1>4, GapAssumption
<1>9. Successors(p, nt) \subseteq Downstream(p, nt)
  BY <1>1, DownstreamIsClosed
<1> HIDE DEF nt, own, left
<1>10. TypeOK'
  <2>1. net' \in Wirings /\ order' \in [Pins -> Int]
    BY <1>1, <1>2, <1>3, <1>5
  <2>2. CASE Propagates(p, nt) /\ low # {}
    <3> HIDE DEF low
    <3> QED BY <1>1, <1>3, <1>4, <1>6, <1>7, <1>8, <2>1, <2>2 DEF TypeOK, Wirings
  <2>3. CASE ~ (Propagates(p, nt) /\ low # {})
    BY <1>6, <2>1, <2>3 DEF IInv, TypeOK, Wirings
  <2> QED BY <2>2, <2>3
<1>11. PendingArcsQueued'
  <2> SUFFICES ASSUME NEW a \in Arcs(nt)
               PROVE  \/ order'[a[1]] < order'[a[2]]
                      \/ <<a[2], order'[a[1]]>> \in open'
    BY <1>2 DEF PendingArcsQueued
  <2>1. a = <<a[1], a[2]>> /\ a[1] \in Pins /\ a[2] \in Pins /\ a[1] # a[2]
    BY <1>1, ArcsJoinDifferentPins
  <2>2. CASE a[2] = p
    <3>1. a[1] \in Predecessors(p, nt)
      BY <1>1, <2>1, <2>2, NeighboursAreArcs
    <3> QED BY <1>2, <1>3, <1>5, <2>1, <2>2, <3>1
  <2>3. CASE a[1] = p
    <3>1. a[2] \in Successors(p, nt)
      BY <1>1, <2>1, <2>3, NeighboursAreArcs
    <3>2. order'[p] = own /\ order'[a[2]] = order[a[2]] /\ order[a[2]] \in Int
      BY <1>1, <1>2, <1>5, <2>1, <2>3
    <3>3. CASE ~ Propagates(p, nt)
      BY <1>3, <2>3, <3>1, <3>2, <3>3
    <3>4. CASE Propagates(p, nt)
      <4>1. CASE order[a[2]] < left + LargeGap
        <5>1. a[2] \in low
          BY <3>1, <4>1
        <5>2. <<a[2], own>> \in open'
          BY <1>6, <3>4, <5>1
        <5> QED BY <2>3, <3>2, <5>2
      <4>2. CASE ~ (order[a[2]] < left + LargeGap)
        <5>1. own < order[a[2]]
          BY <1>3, <1>8, <3>2, <3>4, <4>2, GapAssumption
        <5> QED BY <2>3, <3>2, <5>1
      <4> QED BY <4>1, <4>2
    <3> QED BY <3>3, <3>4
  <2>4. CASE a[1] # p /\ a[2] # p
    <3>1. a \in Arcs(net)
      BY <1>1, <2>4, OtherArcsStay DEF nt
    <3>2. order[a[1]] < order[a[2]]
      BY <1>2, <3>1 DEF IInv, PendingArcsQueued
    <3> QED BY <1>2, <1>5, <2>1, <2>4, <3>2
  <2> QED BY <2>2, <2>3, <2>4
<1>12. Propagating'
  <2>1. CASE Propagates(p, nt) /\ low # {}
    BY <1>1, <1>2, <1>4, <1>6, <1>8, <1>9, <2>1 DEF Propagating
  <2>2. CASE ~ (Propagates(p, nt) /\ low # {})
    BY <1>2, <1>6, <2>2 DEF Propagating
  <2> QED BY <2>1, <2>2
<1> QED BY <1>10, <1>11, <1>12 DEF IInv

\* disconnectPin only removes arcs.
LEMMA DisconnectKeepsIInv ==
  ASSUME IInv, NEW p \in Wired, Disconnect(p)
  PROVE  IInv'
<1>1. p \in Pins /\ net \in Wirings /\ open = {} /\ open' = {}
  BY PinsAssumption DEF IInv, TypeOK, Wirings, Disconnect
<1>2. Arcs(net') \subseteq Arcs(net)
  BY <1>1, DisconnectedArcsStay DEF Disconnect
<1>3. TypeOK'
  BY <1>1 DEF IInv, TypeOK, Disconnect
<1>4. PendingArcsQueued'
  BY <1>1, <1>2 DEF IInv, PendingArcsQueued, Disconnect
<1>5. Propagating'
  BY <1>1 DEF Propagating
<1> QED BY <1>3, <1>4, <1>5 DEF IInv

\* An entry that is dropped has become superfluous.
LEMMA DropKeepsIInv ==
  ASSUME IInv, NEW e \in open, Drop(e)
  PROVE  IInv'
<1>1. /\ net' = net /\ order' = order /\ open' = open \ {e}
      /\ net \in Wirings /\ order \in [Pins -> Int]
      /\ e[1] \in Pins /\ e[2] \in Int /\ e = <<e[1], e[2]>>
  BY DEF IInv, TypeOK, Drop, Continue, Wirings
<1>2. order[e[1]] > e[2]
  BY DEF IInv, Propagating, Drop
<1>3. TypeOK'
  BY <1>1 DEF IInv, TypeOK, Drop, Continue
<1>4. PendingArcsQueued'
  <2> SUFFICES ASSUME NEW a \in Arcs(net)
               PROVE  order[a[1]] < order[a[2]] \/ <<a[2], order[a[1]]>> \in open \ {e}
    BY <1>1 DEF PendingArcsQueued
  <2>1. a[1] \in Pins /\ a[2] \in Pins
    BY <1>1, ArcsJoinDifferentPins
  <2>2. order[a[1]] < order[a[2]] \/ <<a[2], order[a[1]]>> \in open
    BY DEF IInv, PendingArcsQueued
  <2>3. CASE <<a[2], order[a[1]]>> = e
    BY <1>1, <1>2, <2>1, <2>3
  <2> QED BY <2>2, <2>3
<1>5. Propagating'
  BY <1>1 DEF IInv, Propagating, Drop, Continue
<1> QED BY <1>3, <1>4, <1>5 DEF IInv

\* A raised pin gets a higher index than the one it was reached with.
LEMMA RaisedOrderIsHigher ==
  ASSUME IInv, NEW e \in open, Raise(e)
  PROVE  RaisedOrder(e[1], e[2]) \in Int /\ RaisedOrder(e[1], e[2]) > e[2]
<1> DEFINE p == e[1]
           new == RaisedOrder(p, e[2])
           right == left1 + LargeGap
           mapped == ((order[p] - upper) * LargeGap) \div (right - upper) + left1
<1>1. LargeGap \in Nat /\ SmallGap \in Nat /\ SmallGap > 0
  BY GapAssumption
<1>2. /\ upper \in Int /\ left1 \in Int /\ upper <= 0 /\ left1 > 0
      /\ order[p] \in Int /\ e[2] \in Int
  BY DEF IInv, Propagating, TypeOK
<1>3. mapped \in Int
  <2> DEFINE x == (order[p] - upper) * LargeGap
             y == right - upper
  <2>1. x \in Int /\ y \in Nat /\ y > 0
    BY <1>1, <1>2
  <2>2. mapped = (x \div y) + left1
    OBVIOUS
  <2> HIDE DEF x, y, mapped
  <2> QED BY <1>2, <2>1, <2>2
<1>4. new = IF p \notin signed /\ mapped > e[2] THEN mapped ELSE e[2] + SmallGap
  BY DEF RaisedOrder
<1> HIDE DEF mapped, new
<1>5. new \in Int /\ new > e[2]
  BY <1>1, <1>2, <1>3, <1>4
<1> QED BY <1>5 DEF new

\* A pin is raised above the pin that pushed its entry, and every successor
\* it has caught up with is queued.
LEMMA RaiseKeepsIInv ==
  ASSUME IInv, NEW e \in open, Raise(e)
  PROVE  IInv'
<1> DEFINE p == e[1]
           new == RaisedOrder(p, e[2])
           low == {q \in Successors(p, net) : order[q] <= new}
<1>1. /\ net \in Wirings /\ order \in [Pins -> Int]
      /\ p \in Pins /\ e[2] \in Int /\ e = <<p, e[2]>>
  BY DEF IInv, TypeOK, Wirings
<1>2. /\ net' = net /\ order' = [order EXCEPT ![p] = new]
      /\ open' = (open \ {e}) \cup {<<q, new>> : q \in low}
      /\ order[p] <= e[2]
  BY DEF Raise, Continue
<1>3. /\ pin \in Pins /\ pin \notin Downstream(pin, net)
      /\ \A f \in open : f[1] \in Downstream(pin, net)
      /\ upper \in Int /\ left1 \in Int /\ upper <= 0 /\ left1 > 0
  BY DEF IInv, Propagating, TypeOK
<1>4. new \in Int /\ new > e[2]
  BY RaisedOrderIsHigher
<1>5. low \subseteq Pins
  BY <1>1, NeighboursArePins
<1>6. low \subseteq Downstream(pin, net)
  BY <1>1, <1>3, DownstreamIsClosed
<1> HIDE DEF new
<1>7. TypeOK'
  <2>1. order' \in [Pins -> Int] /\ net' \in Wirings
    BY <1>1, <1>2, <1>4
  <2>2. open' \subseteq Pins \X Int
    <3> HIDE DEF low
    <3> QED BY <1>2, <1>4, <1>5 DEF IInv, TypeOK
  <2>3. /\ pin' \in Pins \cup {NoPin} /\ upper' \in Int /\ left1' \in Int
        /\ signed' \subseteq Pins
    BY <1>1, <1>3 DEF IInv, TypeOK, Raise, Continue
  <2> QED BY <2>1, <2>2, <2>3 DEF TypeOK, Wirings
<1>8. PendingArcsQueued'
  <2> SUFFICES ASSUME NEW a \in Arcs(net)
               PROVE  \/ order'[a[1]] < order'[a[2]]
                      \/ <<a[2], order'[a[1]]>> \in open'
    BY <1>2 DEF PendingArcsQueued
  <2>1. a = <<a[1], a[2]>> /\ a[1] \in Pins /\ a[2] \in Pins /\ a[1] # a[2]
    BY <1>1, ArcsJoinDifferentPins
  <2>2. order[a[1]] < order[a[2]] \/ <<a[2], order[a[1]]>> \in open
    BY DEF IInv, PendingArcsQueued
  <2>3. order[a[1]] \in Int /\ order[a[2]] \in Int /\ order[p] \in Int
    BY <1>1, <2>1
  <2>4. CASE a[1] = p
    <3>1. a[2] \in Successors(p, net)
      BY <1>1, <2>1, <2>4, NeighboursAreArcs
    <3>2. order'[a[1]] = new /\ order'[a[2]] = order[a[2]]
      BY <1>1, <1>2, <2>1, <2>4
    <3>3. CASE order[a[2]] <= new
      BY <1>2, <3>1, <3>2, <3>3
    <3>4. CASE ~ (order[a[2]] <= new)
      BY <1>4, <2>3, <3>2, <3>4
    <3> QED BY <3>3, <3>4
  <2>5. CASE a[2] = p
    <3>1. order'[a[1]] = order[a[1]] /\ order'[a[2]] = new
      BY <1>1, <1>2, <2>1, <2>5
    <3>2. CASE order[a[1]] < order[a[2]] \/ <<a[2], order[a[1]]>> = e
      BY <1>1, <1>2, <1>4, <2>3, <2>5, <3>1, <3>2
    <3>3. CASE ~ (order[a[1]] < order[a[2]]) /\ <<a[2], order[a[1]]>> # e
      BY <1>2, <2>2, <3>1, <3>3
    <3> QED BY <3>2, <3>3
  <2>6. CASE a[1] # p /\ a[2] # p
    <3>1. order'[a[1]] = order[a[1]] /\ order'[a[2]] = order[a[2]]
      BY <1>1, <1>2, <2>1, <2>6
    <3>2. <<a[2], order[a[1]]>> # e
      BY <1>1, <2>6
    <3> QED BY <1>2, <2>2, <3>1, <3>2
  <2> QED BY <2>4, <2>5, <2>6
<1>9. Propagating'
  <2> SUFFICES ASSUME open' # {}
               PROVE  /\ pin' \in Pins /\ pin' \notin Downstream(pin', net')
                      /\ \A f \in open' : f[1] \in Downstream(pin', net')
                      /\ upper' <= 0 /\ left1' > 0
    BY DEF Propagating
  <2>1. pin' = pin /\ upper' = upper /\ left1' = left1
    BY DEF Raise, Continue
  <2> HIDE DEF low
  <2>2. \A f \in open' : f[1] \in Downstream(pin, net)
    BY <1>2, <1>3, <1>6
  <2> QED BY <1>2, <1>3, <2>1, <2>2
<1> QED BY <1>7, <1>8, <1>9 DEF IInv

\* The invariant is inductive.
LEMMA NextKeepsIInv == IInv /\ [Next]_vars => IInv'
<1> SUFFICES ASSUME IInv, [Next]_vars PROVE IInv'
  OBVIOUS
<1>1. CASE \E p \in Wired : Disconnect(p) \/ \E n \in Nets : Connect(p, n)
  BY <1>1, ConnectKeepsIInv, DisconnectKeepsIInv
<1>2. CASE Propagate
  BY <1>2, DropKeepsIInv, RaiseKeepsIInv DEF Propagate
<1>3. CASE UNCHANGED vars
  BY <1>3 DEF vars, IInv, TypeOK, PendingArcsQueued, Propagating
<1> QED BY <1>1, <1>2, <1>3 DEF Next

\* The variables of the index keep their types under every edit.
THEOREM TypeCorrect == Spec => []TypeOK
<1>1. IInv => TypeOK
  BY DEF IInv
<1> QED BY <1>1, InitIInv, NextKeepsIInv, PTL DEF Spec

\* Whatever the order in which pins are connected and disconnected, and
\* whatever the gaps, every arc goes up in the index once connectPin is done.
THEOREM IndexRespectsArcs == Spec => []OrderRespectsArcs
<1>1. IInv => OrderRespectsArcs
  BY DEF IInv, PendingArcsQueued, OrderRespectsArcs
<1> QED BY <1>1, InitIInv, NextKeepsIInv, PTL DEF Spec

\* During a propagation nothing is out of order that the queue does not know
\* of, whatever pins the edits have left with clamped or negative indices.
THEOREM PropagationSound == Spec => []PendingArcsQueued
<1>1. IInv => PendingArcsQueued
  BY DEF IInv
<1> QED BY <1>1, InitIInv, NextKeepsIInv, PTL DEF Spec

\* The loop warning is never printed for an acyclic netlist: reconvergent paths
\* never bring the propagation back to the connected pin.
THEOREM NoFalseLoop == Spec => []NoLoopReported
<1>1. IInv => NoLoopReported
  BY DEF IInv, Propagating, NoLoopReported
<1> QED BY <1>1, InitIInv, NextKeepsIInv, PTL DEF Spec

-----------------------------------------------------------------------------
(***************************************************************************)
(* Sorting instances by their index.                                       *)
(***************************************************************************)

\* Every instance is a port or a gate with one output that all its inputs lead
\* to.  A register is none (nothing leads from its data pin), nor is a cell
\* whose outputs depend on different inputs.
OneOutput ==
  \A i \in Instances :
    /\ i \subseteq Pins
    /\ \A s \in i \cap Sinks, d \in i \cap Drivers : <<s, d>> \in Through
    /\ \A c, d \in i \cap Drivers : c = d

\* An output with an input behind it has a positive index, and only positive
\* ones are propagated: the lower bound is clamped at 0.
FedOutputsPositive ==
  /\ \A t \in Through : order[t[2]] > 0
  /\ \A e \in open : e[2] > 0

\* A pin with a predecessor gets a positive index.
LEMMA ConnectedOrderPositive ==
  ASSUME TypeOK, NEW nt \in Wirings, NEW p \in Pins, Predecessors(p, nt) # {}
  PROVE  ConnectedOrder(p, nt) > 0
<1> DEFINE low == Lower(p, nt)
           up == Upper(p, nt)
           own == ConnectedOrder(p, nt)
<1>1. low \in Int /\ low >= 0 /\ up \in Int /\ up <= 0
  BY BoundsHold
<1>2. SmallGap \in Nat /\ SmallGap > 0
  BY GapAssumption
<1>3. Propagates(p, nt) <=> Successors(p, nt) # {}
  BY <1>1 DEF Propagates
<1>4. own = IF Successors(p, nt) = {} THEN low + SmallGap
            ELSE (low + (low + SmallGap + 1)) \div 2
  BY <1>3 DEF ConnectedOrder
<1> HIDE DEF low, up, own
<1>5. own > 0
  BY <1>1, <1>2, <1>4
<1> QED BY <1>5 DEF own

LEMMA InitFed == Init => FedOutputsPositive
<1> SUFFICES ASSUME Init, NEW t \in Through PROVE order[t[2]] > 0
  BY DEF Init, FedOutputsPositive
<1>1. t[2] \in Drivers /\ t[2] \in Pins
  BY PinsAssumption DEF Pins
<1>2. \A o \in Drivers : <<t[2], o>> \notin OutputPorts
  BY <1>1, PinsAssumption, PortsAssumption
<1>3. InitialOrder(t[2]) \in {2, SmallGap}
  BY <1>1, <1>2 DEF InitialOrder
<1> QED BY <1>1, <1>3, GapAssumption DEF Init

\* Connecting and raising give positive indices to the outputs they reach.
LEMMA NextKeepsFed == IInv /\ FedOutputsPositive /\ [Next]_vars => FedOutputsPositive'
<1> SUFFICES ASSUME IInv, FedOutputsPositive, [Next]_vars PROVE FedOutputsPositive'
  OBVIOUS
<1>0. net \in Wirings /\ order \in [Pins -> Int] /\ TypeOK
  BY DEF IInv, TypeOK, Wirings
<1>1. ASSUME NEW p \in Wired, NEW n \in Nets, Connect(p, n)
      PROVE  FedOutputsPositive'
  <2> DEFINE nt == [net EXCEPT ![p] = n]
             own == ConnectedOrder(p, nt)
             low == {q \in Successors(p, nt) :
                       order[q] < Lower(p, nt) + SmallGap + 1 + LargeGap}
  <2>1. p \in Pins /\ nt \in Wirings
    BY <1>0, PinsAssumption DEF Wirings
  <2>2. order' = [order EXCEPT ![p] = own]
    BY <1>1 DEF Connect
  <2>3. open' = open \/ (Propagates(p, nt) /\ open' = {<<q, own>> : q \in low})
    BY <1>1 DEF Connect
  <2>4. Predecessors(p, nt) # {} => own > 0
    BY <1>0, <2>1, ConnectedOrderPositive
  <2>5. Propagates(p, nt) => own > 0
    BY <2>4 DEF Propagates
  <2> HIDE DEF nt, own, low
  <2>6. ASSUME NEW t \in Through
        PROVE  order'[t[2]] > 0
    <3>1. t[1] \in Sinks /\ t[2] \in Drivers /\ t = <<t[1], t[2]>> /\ t[2] \in Pins
      BY PinsAssumption DEF Pins
    <3>2. CASE t[2] = p
      <4>1. t[1] \in Predecessors(p, nt)
        BY <3>1, <3>2, PinsAssumption DEF Predecessors
      <4> QED BY <1>0, <2>1, <2>2, <2>4, <3>2, <4>1
    <3>3. CASE t[2] # p
      BY <1>0, <2>2, <3>1, <3>3 DEF FedOutputsPositive
    <3> QED BY <3>2, <3>3
  <2>7. \A e \in open' : e[2] > 0
    BY <2>3, <2>5 DEF FedOutputsPositive
  <2> QED BY <2>6, <2>7 DEF FedOutputsPositive
<1>2. ASSUME NEW p \in Wired, Disconnect(p)
      PROVE  FedOutputsPositive'
  BY <1>2 DEF Disconnect, FedOutputsPositive
<1>3. ASSUME NEW e \in open, Drop(e)
      PROVE  FedOutputsPositive'
  BY <1>3 DEF Drop, Continue, FedOutputsPositive
<1>4. ASSUME NEW e \in open, Raise(e)
      PROVE  FedOutputsPositive'
  <2> DEFINE new == RaisedOrder(e[1], e[2])
             low == {q \in Successors(e[1], net) : order[q] <= new}
  <2>1. /\ order' = [order EXCEPT ![e[1]] = new]
        /\ open' = (open \ {e}) \cup {<<q, new>> : q \in low}
    BY <1>4 DEF Raise, Continue
  <2>2. new \in Int /\ new > e[2]
    BY <1>4, RaisedOrderIsHigher
  <2>3. e[2] \in Int /\ e[2] > 0 /\ e[1] \in Pins
    BY <1>0 DEF TypeOK, FedOutputsPositive
  <2> HIDE DEF new, low
  <2>4. new > 0
    BY <2>2, <2>3
  <2>5. ASSUME NEW t \in Through
        PROVE  order'[t[2]] > 0
    <3>1. t[2] \in Pins
      BY PinsAssumption DEF Pins
    <3> QED BY <1>0, <2>1, <2>4, <3>1 DEF FedOutputsPositive
  <2> QED BY <2>1, <2>4, <2>5 DEF FedOutputsPositive
<1>5. CASE UNCHANGED vars
  BY <1>5 DEF vars, FedOutputsPositive
<1> QED BY <1>1, <1>2, <1>3, <1>4, <1>5 DEF Next, Propagate

\* The largest index of some pins is one of theirs, or 0.
LEMMA LargestOfPins ==
  ASSUME TypeOK, NEW S \in SUBSET Pins
  PROVE  LET m == Largest({order[p] : p \in S})
         IN  /\ m \in Int /\ m >= 0
             /\ \A p \in S : order[p] <= m
             /\ m = 0 \/ \E p \in S : m = order[p]
<1> DEFINE o == [p \in S |-> order[p]]
           T == {order[p] : p \in S}
<1>1. order \in [Pins -> Int]
  BY DEF TypeOK
<1>2. IsFiniteSet(S) /\ o \in [S -> Int]
  BY <1>1, PinsAssumption, FS_Subset
<1>3. {o[p] : p \in S} = T
  OBVIOUS
<1>4. \E m \in T \cup {0} : \A x \in T \cup {0} : x <= m
  <2> HIDE DEF o
  <2> QED BY <1>2, <1>3, HasGreatest
<1>5. Largest(T) \in T \cup {0} /\ \A x \in T \cup {0} : x <= Largest(T)
  BY <1>4 DEF Largest
<1>6. T \subseteq Int /\ \A p \in S : order[p] \in T
  BY <1>1
<1>7. \A m \in T : \E p \in S : m = order[p]
  OBVIOUS
<1> DEFINE m == Largest(T)
<1>8. m \in T \cup {0} /\ \A x \in T \cup {0} : x <= m
  BY <1>5
<1> HIDE DEF T, m
<1>9. m \in Int /\ m >= 0
  BY <1>6, <1>8
<1>10. \A p \in S : order[p] <= m
  BY <1>6, <1>8
<1>11. m = 0 \/ \E p \in S : m = order[p]
  BY <1>7, <1>8
<1> QED BY <1>9, <1>10, <1>11 DEF T, m

\* The index of an instance is at least that of each input, when all of them
\* lead to the output.
LEMMA IndexCoversInputs ==
  ASSUME TypeOK, OneOutput, NEW j \in Instances, NEW s \in j \cap Sinks
  PROVE  /\ InstanceIndex(j) \in Int /\ InstanceIndex(j) >= 0
         /\ order[s] <= InstanceIndex(j)
<1> DEFINE from == {p \in j : \E q \in j : <<p, q>> \in Through}
           index == Largest({order[p] : p \in from})
<1>1. j \subseteq Pins /\ from \subseteq Pins
  BY DEF OneOutput
<1>2. /\ index \in Int /\ index >= 0 /\ \A p \in from : order[p] <= index
  BY <1>1, LargestOfPins
<1>3. LET all == Largest({order[p] : p \in j})
      IN  all \in Int /\ all >= 0 /\ order[s] <= all
  BY <1>1, LargestOfPins
<1>4. InstanceIndex(j) = IF index = 0 THEN Largest({order[p] : p \in j}) ELSE index
  BY DEF InstanceIndex
<1>5. s \in from \/ from = {}
  <2> SUFFICES ASSUME NEW p \in from PROVE s \in from
    OBVIOUS
  <2>1. PICK q \in j : <<p, q>> \in Through
    OBVIOUS
  <2>2. q \in Drivers
    BY <2>1, PinsAssumption
  <2> QED BY <2>2 DEF OneOutput
<1>6. CASE s \in from
  <2> HIDE DEF from, index
  <2> QED BY <1>2, <1>3, <1>4, <1>6
<1>7. CASE from = {}
  <2>1. index = 0
    BY <1>7, <1>2, LargestOfPins, <1>1
  <2> HIDE DEF from, index
  <2> QED BY <1>3, <1>4, <2>1
<1> QED BY <1>5, <1>6, <1>7

\* Sorted by its index an instance with inputs comes strictly before every one
\* it drives, whatever the order in which the netlist was connected and
\* disconnected, for ports and gates with one output.
THEOREM InstancesInOrder ==
  ASSUME OneOutput
  PROVE  Spec => []InstancesSorted
<1>1. ASSUME IInv, FedOutputsPositive PROVE InstancesSorted
  <2> SUFFICES ASSUME open = {}, NEW a \in Arcs(net) \ Through,
                      NEW i \in Instances, NEW j \in Instances, a[1] \in i, a[2] \in j
               PROVE  \/ InstanceIndex(i) < InstanceIndex(j)
                      \/ i \cap Sinks = {} /\ InstanceIndex(i) <= InstanceIndex(j)
    BY DEF InstancesSorted
  <2> DEFINE d == a[1]
             s == a[2]
             from == {p \in i : \E q \in i : <<p, q>> \in Through}
             index == Largest({order[p] : p \in from})
             all == Largest({order[p] : p \in i})
  <2>1. d \in Drivers /\ s \in Sinks /\ order[d] < order[s]
    BY <1>1 DEF Arcs, DriversOf, SinksOf, IInv, PendingArcsQueued
  <2>2. TypeOK /\ order \in [Pins -> Int] /\ d \in Pins /\ s \in Pins
    BY <1>1, <2>1 DEF IInv, TypeOK, Pins
  <2>3. InstanceIndex(j) \in Int /\ InstanceIndex(j) >= 0 /\ order[s] <= InstanceIndex(j)
    BY <2>1, <2>2, IndexCoversInputs
  <2>4. i \subseteq Pins /\ i \cap Drivers = {d}
        /\ \A p \in i \cap Sinks : <<p, d>> \in Through
    BY <2>1 DEF OneOutput
  <2>5. from = i \cap Sinks
    BY <2>4, PinsAssumption DEF Pins
  <2>6. \A t \in Through : order[t[1]] < order[t[2]]
    BY <1>1 DEF Arcs, IInv, PendingArcsQueued
  <2>7. \A p \in i \cap Sinks : order[p] < order[d] /\ order[d] > 0
    BY <1>1, <2>4, <2>6 DEF FedOutputsPositive
  <2>8. InstanceIndex(i) = IF index = 0 THEN all ELSE index
    BY DEF InstanceIndex
  <2>9. /\ index \in Int /\ index >= 0
        /\ index = 0 \/ \E p \in from : index = order[p]
    BY <2>2, <2>4, <2>5, LargestOfPins
  <2>10. /\ all \in Int /\ all >= 0
         /\ all = 0 \/ \E p \in i : all = order[p]
    BY <2>2, <2>4, LargestOfPins
  <2>11. all = 0 \/ (all \in Int /\ all <= order[d])
    <3>1. ASSUME NEW p \in i PROVE order[p] <= order[d]
      <4>1. p = d \/ p \in i \cap Sinks
        BY <2>4 DEF Pins
      <4>2. order[p] \in Int /\ order[d] \in Int
        BY <2>2, <2>4
      <4> QED BY <2>7, <4>1, <4>2
    <3> HIDE DEF all, d
    <3> QED BY <2>10, <3>1
  <2>12. order[d] \in Int /\ order[s] \in Int
    BY <2>2
  <2>13. CASE i \cap Sinks = {}
    <3>1. index = 0
      BY <2>5, <2>9, <2>13
    <3> HIDE DEF d, s, from, index, all
    <3> QED BY <2>1, <2>3, <2>8, <2>11, <2>12, <2>13, <3>1
  <2>14. CASE i \cap Sinks # {}
    <3>1. order[d] > 0
      BY <2>7, <2>14
    <3>2. index = 0 \/ index < order[d]
      BY <2>5, <2>7, <2>9
    <3> HIDE DEF d, s, from, index, all
    <3>3. InstanceIndex(i) \in Int /\ InstanceIndex(i) <= order[d]
      BY <2>8, <2>9, <2>10, <2>11, <2>12, <3>1, <3>2
    <3> QED BY <2>1, <2>3, <2>12, <3>3
  <2> QED BY <2>13, <2>14
<1>2. ASSUME IInv, FedOutputsPositive, [Next]_vars
      PROVE  IInv' /\ FedOutputsPositive'
  BY <1>2, NextKeepsIInv, NextKeepsFed
<1> QED BY <1>1, <1>2, InitIInv, InitFed, PTL DEF Spec

=============================================================================
