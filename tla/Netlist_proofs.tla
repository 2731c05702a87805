---------------------------- MODULE Netlist_proofs ----------------------------
(***************************************************************************)
(* Proofs about Netlist for every set of pins and nets.  The inductive     *)
(* invariant is the conjunction of the redundant copies agreeing; what     *)
(* disconnectPin leaves behind (the "Without" lemmas) is shared by the two *)
(* operations, since connectPin disconnects a connected pin first.         *)
(***************************************************************************)
EXTENDS Netlist, TLAPS, FiniteSetTheorems, Least

Injective(s) == \A i, j \in DOMAIN s : s[i] = s[j] => i = j

IInv ==
  /\ TypeOK
  /\ PinsListed
  /\ CountsExact
  /\ DriverCached
  /\ ArcsComplete

-----------------------------------------------------------------------------
(***************************************************************************)
(* The vector helpers.                                                     *)
(***************************************************************************)

\* Swap-and-shrink removal takes out the one element and nothing else.
LEMMA SwapRemoveRemoves ==
  ASSUME NEW S, NEW s \in Seq(S), Injective(s), NEW p \in Elements(s)
  PROVE  /\ SwapRemove(s, p) \in Seq(S)
         /\ Elements(SwapRemove(s, p)) = Elements(s) \ {p}
         /\ Injective(SwapRemove(s, p))
<1> DEFINE i == CHOOSE k \in DOMAIN s : s[k] = p
           r == SwapRemove(s, p)
<1>1. i \in DOMAIN s /\ s[i] = p
  BY DEF Elements
<1>2. Len(s) \in Nat /\ DOMAIN s = 1 .. Len(s) /\ Len(s) >= 1
  BY <1>1
<1>3. r = [k \in 1 .. Len(s) - 1 |-> IF k = i THEN s[Len(s)] ELSE s[k]]
  BY DEF SwapRemove
<1> HIDE DEF i, r
<1>4. r \in [1 .. Len(s) - 1 -> S]
  BY <1>2, <1>3
<1>5. r \in Seq(S)
  BY <1>2, <1>4, SMT
<1>6. Elements(r) = Elements(s) \ {p}
  <2>1. ASSUME NEW k \in 1 .. Len(s) - 1
        PROVE  r[k] \in Elements(s) \ {p}
    <3>1. CASE k = i
      <4>1. s[Len(s)] # p
        BY <1>1, <1>2, <3>1 DEF Injective
      <4> QED BY <1>2, <1>3, <3>1, <4>1 DEF Elements
    <3>2. CASE k # i
      <4>1. s[k] # p
        BY <1>1, <1>2, <3>2 DEF Injective
      <4> QED BY <1>2, <1>3, <3>2, <4>1 DEF Elements
    <3> QED BY <3>1, <3>2
  <2>2. ASSUME NEW x \in Elements(s) \ {p}
        PROVE  x \in Elements(r)
    <3>1. PICK k \in 1 .. Len(s) : s[k] = x /\ k # i
      BY <1>1, <1>2 DEF Elements
    <3>2. CASE k = Len(s)
      <4>1. i \in 1 .. Len(s) - 1
        BY <1>1, <1>2, <3>1, <3>2
      <4>2. r[i] = x
        BY <1>3, <3>1, <3>2, <4>1
      <4> QED BY <1>3, <4>1, <4>2 DEF Elements
    <3>3. CASE k # Len(s)
      <4>0. Len(s) \in Nat /\ k \in Nat /\ 1 <= k /\ k <= Len(s)
        BY <1>2
      <4>1. k \in 1 .. Len(s) - 1
        BY <3>3, <4>0
      <4>2. r[k] = x
        BY <1>3, <3>1, <4>1
      <4> QED BY <1>3, <4>1, <4>2 DEF Elements
    <3> QED BY <3>2, <3>3
  <2>3. Elements(r) \subseteq Elements(s) \ {p}
    <3>1. DOMAIN r = 1 .. Len(s) - 1
      BY <1>3
    <3> QED BY <2>1, <3>1 DEF Elements
  <2> QED BY <2>2, <2>3
<1>7. Injective(r)
  <2> SUFFICES ASSUME NEW j \in 1 .. Len(s) - 1, NEW k \in 1 .. Len(s) - 1,
                      r[j] = r[k]
               PROVE  j = k
    BY <1>3 DEF Injective
  <2> DEFINE old(m) == IF m = i THEN Len(s) ELSE m
  <2>1. r[j] = s[old(j)] /\ r[k] = s[old(k)]
    BY <1>3
  <2>2. old(j) \in DOMAIN s /\ old(k) \in DOMAIN s
    BY <1>2
  <2>3. old(j) = old(k)
    BY <2>1, <2>2 DEF Injective
  <2> QED BY <1>2, <2>3
<1> QED BY <1>5, <1>6, <1>7 DEF r

\* Appending an element that is not there keeps the elements distinct.
LEMMA AppendAdds ==
  ASSUME NEW S, NEW s \in Seq(S), Injective(s), NEW p \in S \ Elements(s)
  PROVE  /\ Append(s, p) \in Seq(S)
         /\ Elements(Append(s, p)) = Elements(s) \cup {p}
         /\ Injective(Append(s, p))
<1> DEFINE r == Append(s, p)
<1>1. /\ r \in Seq(S)
      /\ Len(s) \in Nat /\ DOMAIN s = 1 .. Len(s)
      /\ DOMAIN r = 1 .. Len(s) + 1
      /\ r[Len(s) + 1] = p
      /\ \A k \in 1 .. Len(s) : r[k] = s[k]
  OBVIOUS
<1> HIDE DEF r
<1>2. Elements(r) = Elements(s) \cup {p}
  <2>1. Elements(r) \subseteq Elements(s) \cup {p}
    BY <1>1 DEF Elements
  <2>2. Elements(s) \subseteq Elements(r) /\ p \in Elements(r)
    BY <1>1 DEF Elements
  <2> QED BY <2>1, <2>2
<1>3. Injective(r)
  <2>1. \A k \in 1 .. Len(s) : r[k] # p
    BY <1>1 DEF Elements
  <2> QED BY <1>1, <2>1 DEF Injective
<1> QED BY <1>1, <1>2, <1>3 DEF r

\* The first driver of a vector is a driver in it, if it holds any.
LEMMA FirstDriverFinds ==
  ASSUME NEW s \in Seq(Pins), NEW d
  PROVE  IF Elements(s) \cap Drivers = {}
         THEN FirstDriver(s, d) = d
         ELSE FirstDriver(s, d) \in Elements(s) \cap Drivers
<1> DEFINE outs == {i \in DOMAIN s : s[i] \in Drivers}
<1>1. outs = {} <=> Elements(s) \cap Drivers = {}
  BY DEF Elements
<1>2. CASE outs = {}
  BY <1>1, <1>2 DEF FirstDriver
<1>3. CASE outs # {}
  <2>1. outs \in SUBSET Nat
    OBVIOUS
  <2>2. \E i \in outs : \A j \in outs : i <= j
    BY <1>3, <2>1, HasLeast
  <2>3. (CHOOSE i \in outs : \A j \in outs : i <= j) \in outs
    BY <2>2
  <2>4. FirstDriver(s, d) = s[CHOOSE i \in outs : \A j \in outs : i <= j]
    BY <1>3 DEF FirstDriver
  <2> HIDE DEF outs
  <2>5. PICK i \in outs : FirstDriver(s, d) = s[i]
    BY <2>3, <2>4
  <2> QED BY <1>1, <1>3, <2>5 DEF Elements, outs
<1> QED BY <1>2, <1>3

-----------------------------------------------------------------------------
(***************************************************************************)
(* What disconnectPin leaves behind, stated for a pin that may or may not  *)
(* be connected.                                                           *)
(***************************************************************************)

\* A pin is on a net exactly when its net is not the null net.
LEMMA NoNetIsNoNet ==
  ASSUME TypeOK, NEW p \in Pins
  PROVE  net[p] # NoNet <=> net[p] \in Nets
BY NetsAssumption DEF TypeOK

\* Without p the vectors hold the other pins, each once (disconnectPin).
LEMMA PinsWithoutP ==
  ASSUME TypeOK, PinsListed, NEW p \in Pins
  PROVE  /\ PinsWithout(p) \in [Nets -> Seq(Pins)]
         /\ \A n \in Nets : /\ Elements(PinsWithout(p)[n]) = PinsOn(n) \ {p}
                            /\ Injective(PinsWithout(p)[n])
<1> SUFFICES ASSUME NEW n \in Nets
             PROVE  /\ PinsWithout(p)[n] \in Seq(Pins)
                    /\ Elements(PinsWithout(p)[n]) = PinsOn(n) \ {p}
                    /\ Injective(PinsWithout(p)[n])
  BY DEF PinsWithout
<1>1. /\ pins[n] \in Seq(Pins)
      /\ Elements(pins[n]) = PinsOn(n)
      /\ Injective(pins[n])
  BY DEF TypeOK, PinsListed, Injective
<1>2. CASE n = net[p]
  <2>1. PinsWithout(p)[n] = SwapRemove(pins[n], p)
    BY <1>2 DEF PinsWithout
  <2>2. p \in Elements(pins[n])
    BY <1>1, <1>2 DEF PinsOn
  <2> QED BY <1>1, <2>1, <2>2, SwapRemoveRemoves
<1>3. CASE n # net[p]
  <2>1. PinsWithout(p)[n] = pins[n]
    BY <1>3 DEF PinsWithout
  <2>2. p \notin PinsOn(n)
    BY <1>3 DEF PinsOn
  <2> QED BY <1>1, <2>1, <2>2
<1> QED BY <1>2, <1>3

\* After disconnectPin the cached driver is one of those that remain.
LEMMA DriversWithoutP ==
  ASSUME TypeOK, PinsListed, DriverCached, NEW p \in Pins
  PROVE  /\ DriversWithout(p) \in [Nets -> Pins \cup {NoPin}]
         /\ \A n \in Nets :
              (PinsOn(n) \ {p}) \cap Drivers # {} =>
                DriversWithout(p)[n] \in (PinsOn(n) \ {p}) \cap Drivers
<1> SUFFICES ASSUME NEW n \in Nets
             PROVE  /\ DriversWithout(p)[n] \in Pins \cup {NoPin}
                    /\ (PinsOn(n) \ {p}) \cap Drivers # {} =>
                         DriversWithout(p)[n] \in (PinsOn(n) \ {p}) \cap Drivers
  BY DEF DriversWithout
<1>1. driver[n] \in Pins \cup {NoPin}
  BY DEF TypeOK
<1>2. CASE n = net[p] /\ p \in Drivers
  <2> DEFINE s == PinsWithout(p)[n]
  <2>1. s \in Seq(Pins) /\ Elements(s) = PinsOn(n) \ {p}
    BY PinsWithoutP
  <2>2. s = SwapRemove(pins[n], p)
    BY <1>2 DEF PinsWithout
  <2>3. DriversWithout(p)[n] = FirstDriver(s, driver[n])
    BY <1>2, <2>2 DEF DriversWithout
  <2> HIDE DEF s
  <2>4. IF Elements(s) \cap Drivers = {}
        THEN FirstDriver(s, driver[n]) = driver[n]
        ELSE FirstDriver(s, driver[n]) \in Elements(s) \cap Drivers
    BY <2>1, FirstDriverFinds
  <2> QED BY <1>1, <2>1, <2>3, <2>4 DEF Pins
<1>3. CASE ~ (n = net[p] /\ p \in Drivers)
  <2>1. DriversWithout(p)[n] = driver[n]
    BY <1>3 DEF DriversWithout
  <2>2. (PinsOn(n) \ {p}) \cap Drivers = PinsOn(n) \cap Drivers
    BY <1>3 DEF PinsOn
  <2> QED BY <1>1, <2>1, <2>2 DEF DriverCached
<1> QED BY <1>2, <1>3

\* The pins of a net can be counted.
LEMMA PinsOnFinite ==
  ASSUME NEW n, NEW S
  PROVE  IsFiniteSet(PinsOn(n) \cap S)
BY PinsAssumption, FS_Subset DEF PinsOn

\* After disconnectPin the counters count the pins that remain.
LEMMA CountsWithoutP ==
  ASSUME TypeOK, CountsExact, NEW p \in Pins
  PROVE  /\ CountsWithout(p) \in [Nets -> [Directions -> Int]]
         /\ \A n \in Nets :
              /\ CountsWithout(p)[n]["OUT"] =
                   Cardinality((PinsOn(n) \ {p}) \cap Drivers)
              /\ CountsWithout(p)[n]["IN"] =
                   Cardinality((PinsOn(n) \ {p}) \cap Sinks)
<1>1. Direction(p) \in Directions /\ {"OUT", "IN"} = Directions
  BY DEF Direction, Directions
<1>2. CountsWithout(p) \in [Nets -> [Directions -> Int]]
  BY <1>1 DEF CountsWithout, TypeOK
<1> SUFFICES ASSUME NEW n \in Nets
             PROVE  /\ CountsWithout(p)[n]["OUT"] =
                          Cardinality((PinsOn(n) \ {p}) \cap Drivers)
                    /\ CountsWithout(p)[n]["IN"] =
                          Cardinality((PinsOn(n) \ {p}) \cap Sinks)
  BY <1>2
<1>3. /\ numPinsOfType[n] \in [Directions -> Int]
      /\ numPinsOfType[n]["OUT"] = Cardinality(PinsOn(n) \cap Drivers)
      /\ numPinsOfType[n]["IN"] = Cardinality(PinsOn(n) \cap Sinks)
  BY DEF TypeOK, CountsExact
<1>4. \A S : Cardinality((PinsOn(n) \cap S) \ {p}) =
               IF p \in PinsOn(n) \cap S THEN Cardinality(PinsOn(n) \cap S) - 1
                                       ELSE Cardinality(PinsOn(n) \cap S)
  BY PinsOnFinite, FS_RemoveElement
<1>5. \A S : (PinsOn(n) \cap S) \ {p} = (PinsOn(n) \ {p}) \cap S
  OBVIOUS
<1>6. p \in PinsOn(n) <=> n = net[p]
  BY DEF PinsOn
<1>7. CASE n = net[p]
  <2>1. CountsWithout(p)[n] = [numPinsOfType[n] EXCEPT ![Direction(p)] = @ - 1]
    BY <1>7 DEF CountsWithout
  <2>2. CASE p \in Drivers
    <3>1. p \notin Sinks /\ Direction(p) = "OUT"
      BY <2>2, PinsAssumption DEF Direction
    <3> QED BY <1>1, <1>3, <1>4, <1>5, <1>6, <1>7, <2>1, <2>2, <3>1
  <2>3. CASE p \notin Drivers
    <3>1. p \in Sinks /\ Direction(p) = "IN"
      BY <2>3 DEF Direction, Pins
    <3> QED BY <1>1, <1>3, <1>4, <1>5, <1>6, <1>7, <2>1, <2>3, <3>1
  <2> QED BY <2>2, <2>3
<1>8. CASE n # net[p]
  <2>1. CountsWithout(p)[n] = numPinsOfType[n]
    BY <1>8 DEF CountsWithout
  <2> QED BY <1>3, <1>4, <1>5, <1>6, <1>8, <2>1
<1> QED BY <1>7, <1>8

\* disconnectPin removes no arc between two pins that stay on a net.
LEMMA ArcsWithoutP ==
  ASSUME TypeOK, ArcsComplete, NEW p \in Pins
  PROVE  /\ ForwardWithout(p) \in [Drivers \X Sinks -> Nat]
         /\ BackwardWithout(p) \in [Drivers \X Sinks -> Nat]
         /\ \A d \in Drivers, s \in Sinks :
              d # p /\ s # p /\ net[d] = net[s] /\ net[d] # NoNet =>
                ForwardWithout(p)[d, s] > 0 /\ BackwardWithout(p)[d, s] > 0
<1>1. \A a \in Drivers \X Sinks :
        /\ ForwardWithout(p)[a] \in Nat
        /\ BackwardWithout(p)[a] \in Nat
        /\ a[1] # p => ForwardWithout(p)[a] = forward[a]
        /\ a[2] # p => BackwardWithout(p)[a] = backward[a]
  BY DEF ForwardWithout, BackwardWithout, TypeOK
<1>2. \A d \in Drivers, s \in Sinks :
        <<d, s>> \in Drivers \X Sinks /\ <<d, s>>[1] = d /\ <<d, s>>[2] = s
  OBVIOUS
<1> QED BY <1>1, <1>2 DEF ForwardWithout, BackwardWithout, ArcsComplete

-----------------------------------------------------------------------------
(***************************************************************************)
(* The two operations preserve the invariant.                              *)
(***************************************************************************)

\* The empty netlist satisfies the invariant.
LEMMA InitIInv == Init => IInv
<1> SUFFICES ASSUME Init PROVE IInv
  OBVIOUS
<1>1. TypeOK
  BY DEF Init, TypeOK
<1>2. \A n \in Nets : /\ PinsOn(n) = {}
                      /\ DOMAIN pins[n] = {}
                      /\ Elements(pins[n]) = {}
  BY NetsAssumption DEF Init, PinsOn, Elements
<1>3. PinsListed
  BY <1>2 DEF PinsListed
<1>4. CountsExact
  BY <1>2, FS_EmptySet DEF Init, CountsExact, Directions
<1>5. DriverCached
  BY <1>2 DEF DriverCached
<1>6. ArcsComplete
  BY DEF Init, ArcsComplete, Pins
<1> QED BY <1>1, <1>3, <1>4, <1>5, <1>6 DEF IInv

\* disconnectPin keeps all the copies of the connectivity in agreement.
LEMMA DisconnectKeepsIInv ==
  ASSUME IInv, NEW p \in Pins, DisconnectPin(p)
  PROVE  IInv'
<1> USE DEF IInv
<1>1. \A n \in Nets : PinsOn(n)' = PinsOn(n) \ {p}
  BY NetsAssumption DEF PinsOn, DisconnectPin, TypeOK
<1>2. TypeOK'
  BY PinsWithoutP, DriversWithoutP, CountsWithoutP, ArcsWithoutP
     DEF TypeOK, DisconnectPin
<1>3. PinsListed'
  BY <1>1, PinsWithoutP DEF PinsListed, DisconnectPin, Injective
<1>4. CountsExact'
  BY <1>1, CountsWithoutP DEF CountsExact, DisconnectPin
<1>5. DriverCached'
  BY <1>1, DriversWithoutP DEF DriverCached, DisconnectPin
<1>6. ArcsComplete'
  <2>1. net'[p] = NoNet /\ \A q \in Pins : q # p => net'[q] = net[q]
    BY DEF DisconnectPin, TypeOK
  <2> QED BY <2>1, ArcsWithoutP DEF ArcsComplete, DisconnectPin, Pins
<1> QED BY <1>2, <1>3, <1>4, <1>5, <1>6

\* So does connectPin, the disconnection it starts with included.
LEMMA ConnectKeepsIInv ==
  ASSUME IInv, NEW p \in Pins, NEW n \in Nets, ConnectPin(p, n)
  PROVE  IInv'
<1> USE DEF IInv
<1> DEFINE s == PinsWithout(p)[n]
           arcs == NewArcs(p, s)
<1>1. /\ s \in Seq(Pins)
      /\ Elements(s) = PinsOn(n) \ {p}
      /\ Injective(s)
  BY PinsWithoutP
<1>2. \A m \in Nets : PinsOn(m)' = IF m = n THEN PinsOn(m) \cup {p}
                                           ELSE PinsOn(m) \ {p}
  BY DEF PinsOn, ConnectPin, TypeOK
<1>3. /\ pins' \in [Nets -> Seq(Pins)]
      /\ \A m \in Nets : /\ Elements(pins'[m]) = PinsOn(m)'
                         /\ Injective(pins'[m])
  <2>1. pins' = [PinsWithout(p) EXCEPT ![n] = Append(s, p)]
    BY DEF ConnectPin
  <2>2. /\ Append(s, p) \in Seq(Pins)
        /\ Elements(Append(s, p)) = (PinsOn(n) \ {p}) \cup {p}
        /\ Injective(Append(s, p))
    BY <1>1, AppendAdds
  <2> HIDE DEF s
  <2> QED BY <1>2, <2>1, <2>2, PinsWithoutP
<1>4. PinsListed'
  BY <1>3 DEF PinsListed, Injective
<1>5. numPinsOfType' \in [Nets -> [Directions -> Int]] /\ CountsExact'
  <2>1. numPinsOfType' = [CountsWithout(p) EXCEPT ![n][Direction(p)] = @ + 1]
    BY DEF ConnectPin
  <2>2. Direction(p) \in Directions /\ {"OUT", "IN"} = Directions
    BY DEF Direction, Directions
  <2>3. CountsWithout(p) \in [Nets -> [Directions -> Int]]
    BY CountsWithoutP
  <2>4. numPinsOfType' \in [Nets -> [Directions -> Int]]
    BY <2>1, <2>2, <2>3
  <2>5. \A S : Cardinality(PinsOn(n)' \cap S) =
                 Cardinality((PinsOn(n) \ {p}) \cap S) + IF p \in S THEN 1 ELSE 0
    <3> TAKE S
    <3> DEFINE rest == (PinsOn(n) \ {p}) \cap S
    <3>1. IsFiniteSet(rest) /\ Cardinality(rest) \in Nat /\ p \notin rest
      <4>1. rest = PinsOn(n) \cap (S \ {p})
        OBVIOUS
      <4> QED BY <4>1, PinsOnFinite, FS_CardinalityType
    <3>2. PinsOn(n)' \cap S = IF p \in S THEN rest \cup {p} ELSE rest
      BY <1>2
    <3>3. Cardinality(rest \cup {p}) = Cardinality(rest) + 1
      <4> HIDE DEF rest
      <4> QED BY <3>1, FS_AddElement
    <3>4. Cardinality(PinsOn(n)' \cap S) =
            Cardinality(rest) + IF p \in S THEN 1 ELSE 0
      <4> HIDE DEF rest
      <4>1. CASE p \in S
        BY <3>1, <3>2, <3>3, <4>1
      <4>2. CASE p \notin S
        BY <3>1, <3>2, <4>2
      <4> QED BY <4>1, <4>2
    <3> QED BY <3>4
  <2>6. ASSUME NEW m \in Nets
        PROVE  /\ numPinsOfType'[m]["OUT"] = Cardinality(PinsOn(m)' \cap Drivers)
               /\ numPinsOfType'[m]["IN"] = Cardinality(PinsOn(m)' \cap Sinks)
    <3>1. CASE m # n
      BY <1>2, <2>1, <2>3, <3>1, CountsWithoutP
    <3>2. CASE m = n
      <4>1. numPinsOfType'[n] = [CountsWithout(p)[n] EXCEPT ![Direction(p)] = @ + 1]
        BY <2>1, <2>3
      <4>2. /\ CountsWithout(p)[n] \in [Directions -> Int]
            /\ CountsWithout(p)[n]["OUT"] = Cardinality((PinsOn(n) \ {p}) \cap Drivers)
            /\ CountsWithout(p)[n]["IN"] = Cardinality((PinsOn(n) \ {p}) \cap Sinks)
        BY <2>3, CountsWithoutP
      <4>3. CASE p \in Drivers
        <5>1. p \notin Sinks /\ Direction(p) = "OUT"
          BY <4>3, PinsAssumption DEF Direction
        <5> QED BY <2>2, <2>5, <3>2, <4>1, <4>2, <4>3, <5>1
      <4>4. CASE p \notin Drivers
        <5>1. p \in Sinks /\ Direction(p) = "IN"
          BY <4>4 DEF Direction, Pins
        <5> QED BY <2>2, <2>5, <3>2, <4>1, <4>2, <4>4, <5>1
      <4> QED BY <4>3, <4>4
    <3> QED BY <3>1, <3>2
  <2> QED BY <2>4, <2>6 DEF CountsExact
<1>6. driver' \in [Nets -> Pins \cup {NoPin}] /\ DriverCached'
  <2>1. driver' = IF p \in Drivers THEN [DriversWithout(p) EXCEPT ![n] = p]
                                   ELSE DriversWithout(p)
    BY DEF ConnectPin
  <2>2. DriversWithout(p) \in [Nets -> Pins \cup {NoPin}]
    BY DriversWithoutP
  <2>3. driver' \in [Nets -> Pins \cup {NoPin}]
    BY <2>1, <2>2
  <2>4. ASSUME NEW m \in Nets, PinsOn(m)' \cap Drivers # {}
        PROVE  driver'[m] \in PinsOn(m)' \cap Drivers
    <3>1. CASE m = n /\ p \in Drivers
      BY <1>2, <2>1, <2>2, <3>1
    <3>2. CASE ~ (m = n /\ p \in Drivers)
      <4>1. driver'[m] = DriversWithout(p)[m]
        BY <2>1, <2>2, <3>2
      <4>2. PinsOn(m)' \cap Drivers = (PinsOn(m) \ {p}) \cap Drivers
        BY <1>2, <3>2
      <4> QED BY <2>4, <4>1, <4>2, DriversWithoutP
    <3> QED BY <3>1, <3>2
  <2> QED BY <2>3, <2>4 DEF DriverCached
<1>7. /\ forward' \in [Drivers \X Sinks -> Nat]
      /\ backward' \in [Drivers \X Sinks -> Nat]
      /\ ArcsComplete'
  <2>1. \A a \in Drivers \X Sinks :
          /\ ForwardWithout(p)[a] \in Nat
          /\ BackwardWithout(p)[a] \in Nat
          /\ forward'[a] = ForwardWithout(p)[a] + IF a \in arcs THEN 1 ELSE 0
          /\ backward'[a] = BackwardWithout(p)[a] + IF a \in arcs THEN 1 ELSE 0
    BY ArcsWithoutP DEF ConnectPin
  <2>2. /\ forward' \in [Drivers \X Sinks -> Nat]
        /\ backward' \in [Drivers \X Sinks -> Nat]
    <3>1. /\ forward' = [a \in Drivers \X Sinks |-> forward'[a]]
          /\ backward' = [a \in Drivers \X Sinks |-> backward'[a]]
      BY DEF ConnectPin
    <3> QED BY <2>1, <3>1
  <2>3. ASSUME NEW d \in Drivers, NEW t \in Sinks,
               net'[d] = net'[t], net'[d] # NoNet
        PROVE  forward'[d, t] > 0 /\ backward'[d, t] > 0
    <3>1. d \in Pins /\ t \in Pins /\ d # t
      BY PinsAssumption DEF Pins
    <3>2. net' = [net EXCEPT ![p] = n]
      BY DEF ConnectPin
    <3>5. <<d, t>> \in Drivers \X Sinks
      OBVIOUS
    <3>6. /\ ForwardWithout(p)[<<d, t>>] \in Nat
          /\ BackwardWithout(p)[<<d, t>>] \in Nat
          /\ forward'[<<d, t>>] =
               ForwardWithout(p)[<<d, t>>] + IF <<d, t>> \in arcs THEN 1 ELSE 0
          /\ backward'[<<d, t>>] =
               BackwardWithout(p)[<<d, t>>] + IF <<d, t>> \in arcs THEN 1 ELSE 0
      <4> HIDE DEF arcs
      <4> QED BY <2>1, <3>5
    <3>3. CASE d # p /\ t # p
      <4>1. net[d] = net[t] /\ net[d] # NoNet
        BY <2>3, <3>1, <3>2, <3>3 DEF TypeOK
      <4>2. ForwardWithout(p)[<<d, t>>] > 0 /\ BackwardWithout(p)[<<d, t>>] > 0
        BY <3>3, <4>1, ArcsWithoutP
      <4> HIDE DEF arcs
      <4>3. forward'[<<d, t>>] > 0 /\ backward'[<<d, t>>] > 0
        BY <3>6, <4>2
      <4> QED BY <4>3
    <3>4. CASE d = p \/ t = p
      <4>1. <<d, t>> \in arcs
        <5>1. <<d, t>>[1] = d /\ <<d, t>>[2] = t
          OBVIOUS
        <5>2. CASE d = p
          <6>1. t \in PinsOn(n) \ {p}
            BY <2>3, <3>1, <3>2, <5>2 DEF TypeOK, PinsOn
          <6> QED BY <1>1, <5>1, <5>2, <6>1 DEF NewArcs
        <5>3. CASE t = p
          <6>1. d \in PinsOn(n) \ {p}
            BY <2>3, <3>1, <3>2, <5>3 DEF TypeOK, PinsOn
          <6> QED BY <1>1, <5>1, <5>3, <6>1 DEF NewArcs
        <5> QED BY <3>4, <5>2, <5>3
      <4> HIDE DEF arcs
      <4>2. forward'[<<d, t>>] > 0 /\ backward'[<<d, t>>] > 0
        BY <3>6, <4>1
      <4> QED BY <4>2
    <3> QED BY <3>3, <3>4
  <2> QED BY <2>2, <2>3 DEF ArcsComplete
<1>8. TypeOK'
  BY <1>3, <1>5, <1>6, <1>7 DEF ConnectPin, TypeOK
<1> QED BY <1>4, <1>5, <1>6, <1>7, <1>8

\* The invariant is inductive.
LEMMA NextKeepsIInv == IInv /\ [Next]_vars => IInv'
<1> SUFFICES ASSUME IInv, [Next]_vars PROVE IInv'
  OBVIOUS
<1>1. CASE Next
  BY <1>1, DisconnectKeepsIInv, ConnectKeepsIInv DEF Next
<1>2. CASE UNCHANGED vars
  <2>1. TypeOK' /\ \A n : PinsOn(n)' = PinsOn(n)
    BY <1>2 DEF vars, IInv, TypeOK, PinsOn
  <2>2. PinsListed' /\ CountsExact' /\ DriverCached' /\ ArcsComplete'
    BY <1>2, <2>1 DEF vars, IInv, PinsListed, CountsExact, DriverCached,
                      ArcsComplete
  <2> QED BY <2>1, <2>2 DEF IInv
<1> QED BY <1>1, <1>2

-----------------------------------------------------------------------------
(***************************************************************************)
(* The theorems.                                                           *)
(***************************************************************************)

\* The variables of the netlist keep their types: in particular the vector
\* of a net holds pins only and a cached driver is a pin or null.
THEOREM TypeCorrect == Spec => []TypeOK
<1>1. IInv => TypeOK
  BY DEF IInv
<1> QED BY <1>1, InitIInv, NextKeepsIInv, PTL DEF Spec

\* After any sequence of connectPin and disconnectPin the vector of a net lists
\* exactly the pins that are on it, each once (swap-and-shrink loses none).
THEOREM VectorsListPins == Spec => []PinsListed
<1>1. IInv => PinsListed
  BY DEF IInv
<1> QED BY <1>1, InitIInv, NextKeepsIInv, PTL DEF Spec

\* The counters of a net count its drivers and its sinks, also after a pin has
\* been moved from net to net.
THEOREM CountersCountPins == Spec => []CountsExact
<1>1. IInv => CountsExact
  BY DEF IInv
<1> QED BY <1>1, InitIInv, NextKeepsIInv, PTL DEF Spec

\* getAnyDriver returns a driver of the net whenever the net has one.
THEOREM DriverIsOnNet == Spec => []DriverCached
<1>1. IInv => DriverCached
  BY DEF IInv
<1> QED BY <1>1, InitIInv, NextKeepsIInv, PTL DEF Spec

\* A driver and a sink of a net are joined by an arc that both list, in
\* whatever order the pins of the net were connected.
THEOREM ArcsJoinPins == Spec => []ArcsComplete
<1>1. IInv => ArcsComplete
  BY DEF IInv
<1> QED BY <1>1, InitIInv, NextKeepsIInv, PTL DEF Spec

\* A pin that is disconnected clears its own lists, and connectPin makes arcs
\* between pins of one net only.
LEMMA NextKeepsFloating ==
  IInv /\ FloatingPinHasNoArcs /\ [Next]_vars => FloatingPinHasNoArcs'
<1> SUFFICES ASSUME IInv, FloatingPinHasNoArcs, [Next]_vars
             PROVE  FloatingPinHasNoArcs'
  OBVIOUS
<1> USE DEF IInv
<1>1. ASSUME NEW p \in Pins,
             NEW d \in Drivers, NEW t \in Sinks
      PROVE  /\ d \in Pins /\ t \in Pins /\ d # t
             /\ ForwardWithout(p)[<<d, t>>] =
                  IF net[p] # NoNet /\ d = p THEN 0 ELSE forward[<<d, t>>]
             /\ BackwardWithout(p)[<<d, t>>] =
                  IF net[p] # NoNet /\ t = p THEN 0 ELSE backward[<<d, t>>]
  <2>1. <<d, t>> \in Drivers \X Sinks /\ <<d, t>>[1] = d /\ <<d, t>>[2] = t
    OBVIOUS
  <2> QED BY <2>1, PinsAssumption DEF ForwardWithout, BackwardWithout, Pins
<1>2. ASSUME NEW p \in Pins, DisconnectPin(p)
      PROVE  FloatingPinHasNoArcs'
  <2>1. \A q \in Pins : q # p => net'[q] = net[q]
    BY <1>2 DEF DisconnectPin, TypeOK
  <2>2. /\ net[p] # NoNet
        /\ forward' = ForwardWithout(p) /\ backward' = BackwardWithout(p)
    BY <1>2 DEF DisconnectPin
  <2>3. ASSUME NEW d \in Drivers, NEW t \in Sinks
        PROVE  /\ net'[d] = NoNet => forward'[<<d, t>>] = 0
               /\ net'[t] = NoNet => backward'[<<d, t>>] = 0
    <3>1. /\ d # p /\ net'[d] = NoNet => forward[<<d, t>>] = 0
          /\ t # p /\ net'[t] = NoNet => backward[<<d, t>>] = 0
      BY <1>1, <2>1 DEF FloatingPinHasNoArcs
    <3> QED BY <1>1, <2>2, <3>1
  <2> QED BY <2>3 DEF FloatingPinHasNoArcs
<1>3. ASSUME NEW p \in Pins, NEW n \in Nets, ConnectPin(p, n)
      PROVE  FloatingPinHasNoArcs'
  <2> DEFINE arcs == NewArcs(p, PinsWithout(p)[n])
  <2>1. /\ net'[p] # NoNet
        /\ \A q \in Pins : q # p => net'[q] = net[q]
    BY <1>3, NetsAssumption DEF ConnectPin, TypeOK
  <2>2. Elements(PinsWithout(p)[n]) = PinsOn(n) \ {p}
    BY PinsWithoutP
  <2>3. ASSUME NEW d \in Drivers, NEW t \in Sinks
        PROVE  /\ net'[d] = NoNet \/ net'[t] = NoNet => <<d, t>> \notin arcs
               /\ <<d, t>> \notin arcs =>
                    /\ forward'[<<d, t>>] = ForwardWithout(p)[<<d, t>>]
                    /\ backward'[<<d, t>>] = BackwardWithout(p)[<<d, t>>]
    <3>1. d \in Pins /\ t \in Pins /\ d # t /\ <<d, t>> \in Drivers \X Sinks
          /\ <<d, t>>[1] = d /\ <<d, t>>[2] = t
      BY PinsAssumption DEF Pins
    <3>2. net'[d] = NoNet \/ net'[t] = NoNet => <<d, t>> \notin arcs
      BY <2>1, <2>2, <3>1, NetsAssumption DEF NewArcs, PinsOn
    <3>3. /\ ForwardWithout(p)[<<d, t>>] \in Nat
          /\ BackwardWithout(p)[<<d, t>>] \in Nat
      BY <3>1, ArcsWithoutP
    <3>4. /\ forward'[<<d, t>>] =
               ForwardWithout(p)[<<d, t>>] + IF <<d, t>> \in arcs THEN 1 ELSE 0
          /\ backward'[<<d, t>>] =
               BackwardWithout(p)[<<d, t>>] + IF <<d, t>> \in arcs THEN 1 ELSE 0
      BY <1>3, <3>1 DEF ConnectPin
    <3> HIDE DEF arcs
    <3> QED BY <3>2, <3>3, <3>4
  <2> HIDE DEF arcs
  <2>4. ASSUME NEW d \in Drivers, NEW t \in Sinks
        PROVE  /\ net'[d] = NoNet => forward'[<<d, t>>] = 0
               /\ net'[t] = NoNet => backward'[<<d, t>>] = 0
    <3>1. d \in Pins /\ t \in Pins
      BY <1>1
    <3>2. ASSUME net'[d] = NoNet PROVE forward'[<<d, t>>] = 0
      <4>1. d # p /\ net[d] = NoNet
        BY <2>1, <3>1, <3>2
      <4>2. forward[<<d, t>>] = 0
        BY <4>1 DEF FloatingPinHasNoArcs
      <4>3. ForwardWithout(p)[<<d, t>>] = 0
        BY <1>1, <4>1, <4>2
      <4> QED BY <2>3, <3>2, <4>3
    <3>3. ASSUME net'[t] = NoNet PROVE backward'[<<d, t>>] = 0
      <4>1. t # p /\ net[t] = NoNet
        BY <2>1, <3>1, <3>3
      <4>2. backward[<<d, t>>] = 0
        BY <4>1 DEF FloatingPinHasNoArcs
      <4>3. BackwardWithout(p)[<<d, t>>] = 0
        BY <1>1, <4>1, <4>2
      <4> QED BY <2>3, <3>3, <4>3
    <3> QED BY <3>2, <3>3
  <2> QED BY <2>4 DEF FloatingPinHasNoArcs
<1>4. CASE UNCHANGED vars
  BY <1>4 DEF vars, FloatingPinHasNoArcs
<1> QED BY <1>2, <1>3, <1>4 DEF Next

\* A pin on no net lists no net arc, however often it was on one.
THEOREM FloatingPinsAreClean == Spec => []FloatingPinHasNoArcs
<1>1. Init => FloatingPinHasNoArcs
  BY DEF Init, FloatingPinHasNoArcs
<1> QED BY <1>1, InitIInv, NextKeepsIInv, NextKeepsFloating, PTL DEF Spec

\* A step of the netlist, seen through the vectors of the nets and the cached
\* drivers, is a step of the abstract connectivity.
LEMMA StepRefines ==
  IInv /\ IInv' /\ [Next]_vars => [Abstract!Next]_(Abstract!vars)
<1> DEFINE members == [n \in Nets |-> Elements(pins[n])]
<1> SUFFICES ASSUME IInv, IInv', [Next]_vars
             PROVE  [Abstract!Next]_(Abstract!vars)
  OBVIOUS
<1> USE DEF IInv
<1>1. members = [n \in Nets |-> PinsOn(n)]
  BY DEF PinsListed
<1>2. members' = [n \in Nets |-> PinsOn(n)']
  BY DEF PinsListed
<1>3. Abstract!NamesADriver(members', driver')
  BY <1>2 DEF DriverCached, Abstract!NamesADriver
<1>4. ASSUME NEW p \in Pins, DisconnectPin(p)
      PROVE  Abstract!Disconnect(p)
  <2>1. \A n \in Nets : PinsOn(n)' = PinsOn(n) \ {p}
    BY <1>4, NetsAssumption DEF PinsOn, DisconnectPin, TypeOK
  <2>2. members' = [n \in Nets |-> members[n] \ {p}]
    BY <1>1, <1>2, <2>1
  <2> QED BY <1>3, <2>2 DEF Abstract!Disconnect
<1>5. ASSUME NEW p \in Pins, NEW n \in Nets, ConnectPin(p, n)
      PROVE  Abstract!Connect(p, n)
  <2>1. \A m \in Nets : PinsOn(m)' = IF m = n THEN PinsOn(m) \cup {p}
                                             ELSE PinsOn(m) \ {p}
    BY <1>5 DEF PinsOn, ConnectPin, TypeOK
  <2>2. members' = [m \in Nets |-> IF m = n THEN members[m] \cup {p}
                                           ELSE members[m] \ {p}]
    BY <1>1, <1>2, <2>1
  <2> QED BY <1>3, <2>2 DEF Abstract!Connect
<1>6. CASE Next
  BY <1>4, <1>5, <1>6 DEF Next, Abstract!Next, Abstract!Pins, Pins
<1>7. CASE UNCHANGED vars
  BY <1>7 DEF vars, Abstract!vars
<1> QED BY <1>6, <1>7

\* The netlist implements the abstract connectivity: the vectors behave as
\* sets, a pin is on one net at most, and a net with a driver names one.
THEOREM ImplementsConnectivity == Spec => AbstractSpec
<1>1. Init => Abstract!Init
  <2> SUFFICES ASSUME Init PROVE Abstract!Init
    OBVIOUS
  <2>1. \A n \in Nets : Elements(pins[n]) = {}
    BY DEF Init, Elements
  <2> QED BY <2>1 DEF Abstract!Init, Abstract!NamesADriver
<1> QED BY <1>1, InitIInv, NextKeepsIInv, StepRefines, PTL
        DEF Spec, AbstractSpec, Abstract!Spec

=============================================================================
