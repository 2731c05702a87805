------------------------------ MODULE Jezz_proofs ------------------------------
(***************************************************************************)
(* As long as the stored solution knows every cell: the rows stay linked   *)
(* lists while nodes are taken out of them, linked in and pushed aside,    *)
(* and between the walks nothing in them overlaps and no site is missing;  *)
(* an insertion keeps the other nodes in order, and a call that brings a   *)
(* solution back brings it back exactly.                                   *)
(***************************************************************************)
EXTENDS Jezz, Least, TLAPS

\* The types of the nodes' fields.
Fields ==
  /\ prev \in [Nodes -> Nodes \cup {None}]
  /\ next \in [Nodes -> Nodes \cup {None}]
  /\ row \in [Nodes -> Rows \cup {None}]
  /\ x \in [Nodes -> Int]
  /\ w \in [Nodes -> Nat]

\* The nodes can be numbered so that the numbers grow along every row: the links
\* close no circle that leaves out the root.
RowsOrdered ==
  \E f \in [Nodes -> Nat] : \A n \in Nodes :
    row[n] # None /\ next[n] \notin Rows => f[n] < f[next[n]]

Linked == Fields /\ RowsLinked /\ RowsOrdered

\* The other variables keep their types.
CallTyped ==
  /\ created \in SUBSET Cells
  /\ DOMAIN stored \subseteq created
  /\ \A c \in DOMAIN stored :
       stored[c] \in [row : Rows \cup {None}, x : Int, w : Nat]
  /\ pc \in {"idle", "compare", "next", "count", "shift"}
  /\ job \in {"none", "start", "restore", "rollback"} \cup Insertions
  /\ failed \in BOOLEAN
  /\ DOMAIN todo \subseteq Placed
  /\ \A n \in DOMAIN todo : todo[n] \in [rows : SUBSET Rows, x : Int]
  /\ was = <<>> \/ was \in [Placed -> [row : Rows \cup {None}, x : Int]]
  /\ node \in Placed \cup {None}
  /\ {ref, at} \subseteq Nodes \cup {None}
  /\ dir \in {"HEAD", "TAIL"}
  /\ {over, lack, toRight} \subseteq Nat

-----------------------------------------------------------------------------
(***************************************************************************)
(* The inductive invariant.                                                *)
(***************************************************************************)

Walking == pc \in {"count", "shift"}

\* A node to be inserted is in no row, or it is the one now being inserted; in a
\* comparison, those that keep an empty set of rows are still to be compared.
Awaited ==
  /\ DOMAIN todo \subseteq created \cup Obstacles
  /\ \A n \in DOMAIN todo :
       row[n] = None \/ (pc = "compare" /\ todo[n].rows = {})
                     \/ (pc = "shift" /\ n = node)
  /\ pc = "compare" => DOMAIN todo \subseteq DOMAIN stored

\* The walks of an insertion stay in the row.
WalkInRow ==
  /\ Walking => /\ node \in DOMAIN todo
                /\ at \in Nodes /\ row[at] # None
  /\ pc = "count" => ref \in Nodes /\ row[ref] # None /\ row[node] = None
  /\ pc = "shift" => row[node] # None

\* A move can be rolled back when its insertion has ended.
CallKnown ==
  /\ pc = "compare" => job \notin Insertions
  /\ job \in Insertions =>
       /\ was \in [Placed -> [row : Rows \cup {None}, x : Int]]
       /\ DOMAIN todo \subseteq created
       /\ node \in created \/ DOMAIN todo # {}

\* Cells have a width, and a stored solution has a place for each of them.
CellsKnown ==
  /\ \A n \in created \cup Obstacles : w[n] > 0
  /\ stored = <<>> \/ DOMAIN stored = created

IInv ==
  Linked /\ CallTyped /\ Awaited /\ WalkInRow /\ CallKnown /\ CellsKnown

-----------------------------------------------------------------------------
(***************************************************************************)
(* Taking a node out of a list, and putting one in.                        *)
(***************************************************************************)

\* The numbers f grow along every row.
Grows(f) ==
  \A n \in Nodes : row[n] # None /\ next[n] \notin Rows => f[n] < f[next[n]]

\* The nodes G, all that lies between p and q, are cut out of a row.
CutOut(G, p, q) ==
  /\ G \cap Rows = {} /\ p \notin G /\ q \notin G
  /\ row[p] # None /\ row[q] = row[p]
  /\ p \in Spaces => q \notin Spaces
  /\ \A k \in Nodes \ {p} : row[k] # None /\ next[k] \in G \cup {q} => k \in G
  /\ \A k \in Nodes \ {q} : row[k] # None /\ prev[k] \in G \cup {p} => k \in G
  /\ next'[p] = q /\ prev'[q] = p
  /\ \A k \in Nodes : row'[k] = IF k \in G THEN None ELSE row[k]
  /\ \A k \in Nodes \ (G \cup {p}) : next'[k] = next[k]
  /\ \A k \in Nodes \ (G \cup {q}) : prev'[k] = prev[k]
  /\ \A k \in Nodes \ G : w'[k] >= w[k]

LEMMA CutKeepsLinked ==
  ASSUME Linked, Fields', NEW G \in SUBSET Nodes, NEW p \in Nodes, NEW q \in Nodes,
         CutOut(G, p, q),
         NEW f \in [Nodes -> Nat], Grows(f), q \notin Rows => f[p] < f[q]
  PROVE  Linked'
<1> USE DEF CutOut
<1>1. \A r \in Rows : row'[r] = r
  BY DEF Linked, RowsLinked, Nodes
<1>2. ASSUME NEW k \in Nodes, row'[k] # None
      PROVE  /\ k \notin G /\ row[k] # None /\ row'[k] = row[k]
             /\ next[k] \in Nodes /\ row[next[k]] = row[k] /\ prev[next[k]] = k
             /\ prev[k] \in Nodes /\ row[prev[k]] = row[k] /\ next[prev[k]] = k
             /\ k \in Spaces => next[k] \notin Spaces
  <2>1. k \notin G /\ row[k] # None /\ row'[k] = row[k]
    BY <1>2
  <2> QED BY <2>1 DEF Linked, RowsLinked
<1>3. ASSUME NEW k \in Nodes, row'[k] # None
      PROVE  /\ next'[k] \in Nodes /\ row'[next'[k]] = row'[k] /\ prev'[next'[k]] = k
             /\ k \in Spaces => next'[k] \notin Spaces
  <2>1. CASE k = p
    BY <2>1
  <2>2. CASE k # p
    BY <1>2, <1>3, <2>2
  <2> QED BY <2>1, <2>2
<1>4. ASSUME NEW k \in Nodes, row'[k] # None
      PROVE  prev'[k] \in Nodes /\ row'[prev'[k]] = row'[k] /\ next'[prev'[k]] = k
  <2>1. CASE k = q
    BY <2>1
  <2>2. CASE k # q
    BY <1>2, <1>4, <2>2
  <2> QED BY <2>1, <2>2
<1>5. ASSUME NEW k \in Nodes \ Rows, row'[k] # None PROVE w'[k] > 0
  <2>1. k \notin G /\ row[k] # None
    BY <1>5
  <2>2. w[k] \in Nat /\ w[k] > 0 /\ w'[k] \in Nat /\ w'[k] >= w[k]
    BY <2>1 DEF Linked, Fields, RowsLinked
  <2> QED BY <2>2
<1>6. RowsLinked'
  BY <1>1, <1>3, <1>4, <1>5 DEF RowsLinked
<1>7. ASSUME NEW k \in Nodes, row'[k] # None, next'[k] \notin Rows
      PROVE  f[k] < f[next'[k]]
  <2>1. CASE k = p
    BY <1>7, <2>1
  <2>2. CASE k # p
    BY <1>2, <1>7, <2>2 DEF Grows
  <2> QED BY <2>1, <2>2
<1>8. RowsOrdered'
  BY <1>7 DEF RowsOrdered
<1> QED BY <1>6, <1>8 DEF Linked

\* A whitespace whose sites are all used leaves its row; what is beside it is no
\* whitespace.
LEMMA UseUpKeepsLinked ==
  ASSUME Linked, UseUpWhitespace, at \in Nodes, row[at] # None
  PROVE  /\ Linked'
         /\ \A n \in Placed : row'[n] = row[n] /\ w'[n] = w[n]
         /\ Link(dir, at) \in Nodes /\ row'[Link(dir, at)] # None
<1> DEFINE p == prev[at]
           q == next[at]
<1>1. /\ at \in Spaces /\ at \notin Rows /\ at \notin Placed
      /\ p \in Nodes /\ q \in Nodes /\ row[p] = row[at] /\ row[q] = row[at]
      /\ next[p] = at /\ prev[q] = at
      /\ p \notin Spaces /\ q \notin Spaces
  BY JezzAssumption DEF UseUpWhitespace, Linked, RowsLinked, Nodes, Placed
<1>2. /\ next' = [next EXCEPT ![p] = q, ![at] = None]
      /\ prev' = [prev EXCEPT ![q] = p, ![at] = None]
      /\ row' = [row EXCEPT ![at] = None]
      /\ w' = [w EXCEPT ![at] = 0]
      /\ x' = [x EXCEPT ![at] = 0]
  BY DEF UseUpWhitespace
<1>3. Fields'
  BY <1>1, <1>2, JezzAssumption DEF Linked, Fields
<1>4. PICK f \in [Nodes -> Nat] : Grows(f)
  BY DEF Linked, RowsOrdered, Grows
<1>5. q \notin Rows => f[p] < f[q]
  BY <1>1, <1>4 DEF Grows
<1>6. /\ \A k \in Nodes \ {p} : row[k] # None /\ next[k] \in {at, q} => k \in {at}
      /\ \A k \in Nodes \ {q} : row[k] # None /\ prev[k] \in {at, p} => k \in {at}
  BY <1>1 DEF Linked, RowsLinked
<1>7. /\ next'[p] = q /\ prev'[q] = p
      /\ \A k \in Nodes : row'[k] = IF k \in {at} THEN None ELSE row[k]
      /\ \A k \in Nodes \ {at, p} : next'[k] = next[k]
      /\ \A k \in Nodes \ {at, q} : prev'[k] = prev[k]
      /\ \A k \in Nodes \ {at} : w'[k] = w[k] /\ w[k] \in Nat
  BY <1>1, <1>2 DEF Linked, Fields
<1>8. CutOut({at}, p, q)
  BY <1>1, <1>6, <1>7, JezzAssumption DEF CutOut
<1>9. Linked'
  BY <1>1, <1>3, <1>4, <1>5, <1>8, CutKeepsLinked
<1> QED BY <1>1, <1>7, <1>9 DEF Link, Placed, Nodes

\* A node that is in no row is linked in after ref.
LEMMA LinkKeepsLinked ==
  ASSUME Linked, NEW n \in Placed, row[n] = None, NEW m \in Nodes, row[m] # None,
         w[n] > 0,
         next' = [next EXCEPT ![m] = n, ![n] = next[m]],
         prev' = [prev EXCEPT ![next[m]] = n, ![n] = m],
         row' = [row EXCEPT ![n] = row[m]],
         UNCHANGED <<x, w>>
  PROVE  /\ Linked'
         /\ row'[n] # None
         /\ \A k \in Nodes \ {n} : row'[k] = row[k]
<1> DEFINE q == next[m]
<1>1. /\ n \in Nodes /\ n \notin Rows /\ n \notin Spaces /\ n # m
      /\ q \in Nodes /\ row[q] = row[m] /\ prev[q] = m /\ q # n
  BY JezzAssumption DEF Linked, RowsLinked, Nodes, Placed
<1>2. Fields'
  BY <1>1, JezzAssumption DEF Linked, Fields
<1>3. RowsLinked'
  BY <1>1, JezzAssumption DEF Linked, Fields, RowsLinked, Nodes
<1>4. RowsOrdered'
  <2>1. PICK f \in [Nodes -> Nat] : \A k \in Nodes :
          row[k] # None /\ next[k] \notin Rows => f[k] < f[next[k]]
    BY DEF Linked, RowsOrdered
  <2> DEFINE g == [k \in Nodes |-> IF k = n THEN 2 * f[m] + 1 ELSE 2 * f[k]]
  <2>2. g \in [Nodes -> Nat]
    OBVIOUS
  <2>3. ASSUME NEW k \in Nodes, row'[k] # None, next'[k] \notin Rows
        PROVE  g[k] < g[next'[k]]
    <3>1. next'[k] \in Nodes
      BY <1>3, <2>3 DEF RowsLinked
    <3>2. q \notin Rows => f[m] < f[q]
      BY <2>1
    <3>3. CASE k = n
      <4>1. next'[k] = q
        BY <1>1, <3>3 DEF Linked, Fields
      <4>2. g[k] = 2 * f[m] + 1 /\ g[q] = 2 * f[q] /\ f[m] \in Int /\ f[q] \in Int
        BY <1>1, <3>3
      <4> QED BY <2>3, <3>2, <4>1, <4>2
    <3>4. CASE k = m
      <4>1. next'[k] = n
        BY <1>1, <3>4 DEF Linked, Fields
      <4>2. g[k] = 2 * f[m] /\ g[n] = 2 * f[m] + 1 /\ f[m] \in Int
        BY <1>1, <3>4
      <4> QED BY <4>1, <4>2
    <3>5. CASE k # n /\ k # m
      <4>1. next'[k] = next[k] /\ row[k] # None /\ row[next[k]] # None
        BY <1>1, <2>3, <3>5 DEF Linked, Fields, RowsLinked
      <4> QED BY <2>1, <2>3, <3>1, <3>5, <4>1
    <3> QED BY <3>3, <3>4, <3>5
  <2> QED BY <2>2, <2>3 DEF RowsOrdered
<1> QED BY <1>1, <1>2, <1>3, <1>4 DEF Linked, Fields

\* A cell leaves its row; the whitespaces beside it merge, or one takes its place.
LEMMA RemoveKeepsLinked ==
  ASSUME Linked, NEW c \in Cells, NEW nw \in Nat \ {0}, RemoveNode(c, nw)
  PROVE  /\ Linked'
         /\ row'[c] = None /\ w'[c] = nw
         /\ \A k \in Placed \ {c} : row'[k] = row[k] /\ w'[k] = w[k]
<1> DEFINE p == prev[c]
           n == next[c]
<1>1. c \in Nodes /\ c \notin Rows /\ c \notin Spaces /\ c \in Placed
  BY JezzAssumption DEF Nodes, Placed
<1>2. PICK f \in [Nodes -> Nat] : Grows(f)
  BY DEF Linked, RowsOrdered, Grows
<1>3. Legalized(c) =>
        /\ p \in Nodes /\ row[p] = row[c] /\ next[p] = c /\ p # c
        /\ n \in Nodes /\ row[n] = row[c] /\ prev[n] = c /\ n # c
        /\ row[c] \in Rows /\ w[c] \in Nat /\ w[c] > 0
  BY <1>1, <1>2 DEF Grows, Linked, Fields, RowsLinked, Legalized
<1>4. CASE ~Legalized(c)
  <2>1. w' = [w EXCEPT ![c] = nw] /\ UNCHANGED <<prev, next, x, row>>
    BY <1>4 DEF RemoveNode
  <2>2. Fields'
    BY <1>1, <2>1 DEF Linked, Fields
  <2>3. RowsLinked'
    BY <1>1, <2>1 DEF Linked, Fields, RowsLinked
  <2>4. RowsOrdered'
    BY <2>1 DEF Linked, RowsOrdered
  <2> QED BY <1>1, <1>4, <2>1, <2>2, <2>3, <2>4 DEF Linked, Fields, Legalized, Placed, Nodes
<1>5. CASE Legalized(c) /\ p \in Spaces /\ n \in Spaces
  <2> DEFINE q == next[n]
             G == {c, n}
  <2>1. /\ w' = [w EXCEPT ![p] = @ + w[c] + w[n], ![n] = 0, ![c] = nw]
        /\ x' = [x EXCEPT ![n] = 0, ![c] = 0]
        /\ next' = [next EXCEPT ![p] = q, ![n] = None, ![c] = None]
        /\ prev' = [prev EXCEPT ![q] = p, ![n] = None, ![c] = None]
        /\ row' = [row EXCEPT ![n] = None, ![c] = None]
    BY <1>5 DEF RemoveNode
  <2>2. /\ q \in Nodes /\ row[q] = row[n] /\ prev[q] = n /\ q \notin Spaces
        /\ n # p /\ q # n /\ q # p /\ q # c /\ n \notin Rows /\ p \notin Rows
        /\ w[p] \in Nat /\ w[n] \in Nat /\ p \notin Placed /\ n \notin Placed
    BY <1>1, <1>2, <1>3, <1>5, JezzAssumption
    DEF Grows, Linked, Fields, RowsLinked, Nodes, Placed
  <2>3. Fields'
    BY <1>1, <1>3, <1>5, <2>1, <2>2 DEF Linked, Fields
  <2>4. q \notin Rows => f[p] < f[q]
    BY <1>1, <1>2, <1>3, <1>5, <2>2 DEF Grows, Legalized
  <2>5. /\ next'[p] = q /\ prev'[q] = p
        /\ \A k \in Nodes : row'[k] = IF k \in G THEN None ELSE row[k]
        /\ \A k \in Nodes \ (G \cup {p}) : next'[k] = next[k]
        /\ \A k \in Nodes \ (G \cup {q}) : prev'[k] = prev[k]
        /\ \A k \in Nodes \ G : w'[k] >= w[k]
    BY <1>1, <1>3, <1>5, <2>1, <2>2 DEF Linked, Fields
  <2>6. /\ G \in SUBSET (Nodes \ Rows) /\ p \in Nodes \ G /\ q \in Nodes \ G
        /\ row[p] # None /\ row[q] = row[p]
        /\ \A k \in Nodes \ {p} : row[k] # None /\ next[k] \in G \cup {q} => k \in G
        /\ \A k \in Nodes \ {q} : row[k] # None /\ prev[k] \in G \cup {p} => k \in G
    BY <1>1, <1>3, <1>5, <2>2 DEF Linked, RowsLinked, Legalized
  <2>7. CutOut(G, p, q)
    <3> HIDE DEF p, n, q, G
    <3> QED BY <2>2, <2>5, <2>6 DEF CutOut
  <2>8. Linked'
    <3> HIDE DEF p, n, q, G
    <3> QED BY <1>2, <2>2, <2>3, <2>4, <2>6, <2>7, CutKeepsLinked
  <2> QED BY <1>1, <2>1, <2>2, <2>8 DEF Linked, Fields, Placed, Nodes
<1>6. CASE Legalized(c) /\ (p \in Spaces \/ n \in Spaces) /\ ~(p \in Spaces /\ n \in Spaces)
  <2> DEFINE G == {c}
  <2>1. PICK s \in {p, n} \cap Spaces :
          /\ w' = [w EXCEPT ![s] = @ + w[c], ![c] = nw]
          /\ x' = [x EXCEPT ![s] = IF s = p THEN @ ELSE x[c], ![c] = 0]
          /\ next' = [next EXCEPT ![p] = n, ![c] = None]
          /\ prev' = [prev EXCEPT ![n] = p, ![c] = None]
          /\ row' = [row EXCEPT ![c] = None]
    BY <1>1, <1>3, <1>6 DEF RemoveNode, Linked, Fields
  <2>2. s \in Nodes /\ s \notin Placed /\ s # c
    BY <1>1, JezzAssumption DEF Nodes, Placed
  <2>3. Fields'
    BY <1>1, <1>3, <1>6, <2>1, <2>2 DEF Linked, Fields
  <2>4. n \notin Rows => f[p] < f[n]
    BY <1>1, <1>2, <1>3, <1>6 DEF Grows, Legalized
  <2>5. /\ next'[p] = n /\ prev'[n] = p
        /\ \A k \in Nodes : row'[k] = IF k \in G THEN None ELSE row[k]
        /\ \A k \in Nodes \ (G \cup {p}) : next'[k] = next[k]
        /\ \A k \in Nodes \ (G \cup {n}) : prev'[k] = prev[k]
        /\ \A k \in Nodes \ G : w'[k] >= w[k]
    BY <1>1, <1>3, <1>6, <2>1, <2>2 DEF Linked, Fields
  <2>6. /\ G \in SUBSET (Nodes \ Rows) /\ p \in Nodes \ G /\ n \in Nodes \ G
        /\ row[p] # None /\ row[n] = row[p]
        /\ p \in Spaces => n \notin Spaces
        /\ \A k \in Nodes \ {p} : row[k] # None /\ next[k] \in G \cup {n} => k \in G
        /\ \A k \in Nodes \ {n} : row[k] # None /\ prev[k] \in G \cup {p} => k \in G
    BY <1>1, <1>3, <1>6 DEF Linked, RowsLinked, Legalized
  <2>7. CutOut(G, p, n)
    <3> HIDE DEF p, n, G
    <3> QED BY <2>5, <2>6 DEF CutOut
  <2>8. Linked'
    <3> HIDE DEF p, n, G
    <3> QED BY <1>2, <2>3, <2>4, <2>6, <2>7, CutKeepsLinked
  <2> QED BY <1>1, <2>1, <2>2, <2>8 DEF Linked, Fields, Placed, Nodes
<1>7. CASE Legalized(c) /\ p \notin Spaces /\ n \notin Spaces
  <2>1. PICK s \in Free :
          /\ w' = [w EXCEPT ![s] = w[c], ![c] = nw]
          /\ x' = [x EXCEPT ![s] = x[c], ![c] = 0]
          /\ next' = [next EXCEPT ![p] = s, ![s] = n, ![c] = None]
          /\ prev' = [prev EXCEPT ![n] = s, ![s] = p, ![c] = None]
          /\ row' = [row EXCEPT ![s] = row[c], ![c] = None]
    BY <1>7 DEF RemoveNode
  <2>2. /\ s \in Nodes /\ s \in Spaces /\ row[s] = None
        /\ s \notin Placed /\ s \notin Rows /\ s # c
    BY <1>1, JezzAssumption DEF Free, Nodes, Placed
  <2>3. Fields'
    BY <1>1, <1>3, <1>7, <2>1, <2>2 DEF Linked, Fields
  <2>4. RowsLinked'
    <3>1. /\ next'[p] = s /\ prev'[s] = p /\ next'[s] = n /\ prev'[n] = s
          /\ row'[s] = row[c] /\ row'[c] = None /\ w'[s] = w[c]
          /\ \A k \in Nodes \ {c, s} : row'[k] = row[k] /\ w'[k] = w[k]
          /\ \A k \in Nodes \ {c, s, p} : next'[k] = next[k]
          /\ \A k \in Nodes \ {c, s, n} : prev'[k] = prev[k]
          /\ p \notin {c, s} /\ n \notin {c, s}
      BY <1>1, <1>3, <1>7, <2>1, <2>2 DEF Linked, Fields
    <3>2. \A r \in Rows : row'[r] = r
      BY <1>1, <2>2, <3>1 DEF Linked, RowsLinked, Nodes
    <3>3. ASSUME NEW k \in Nodes \ {c, s}, row[k] # None
          PROVE  /\ next[k] \in Nodes /\ row[next[k]] = row[k] /\ prev[next[k]] = k
                 /\ prev[k] \in Nodes /\ row[prev[k]] = row[k] /\ next[prev[k]] = k
                 /\ k \in Spaces => next[k] \notin Spaces
                 /\ next[k] # s /\ prev[k] # s
                 /\ next[k] = c => k = p
                 /\ prev[k] = c => k = n
                 /\ next[k] = n => k = c
                 /\ prev[k] = p => k = c
                 /\ k \notin Rows => w[k] > 0
      BY <1>3, <1>7, <2>2, <3>3 DEF Linked, RowsLinked
    <3>4. ASSUME NEW k \in Nodes \ {c}, row'[k] # None
          PROVE  /\ next'[k] \in Nodes /\ row'[next'[k]] = row'[k] /\ prev'[next'[k]] = k
                 /\ k \in Spaces => next'[k] \notin Spaces
      <4>1. CASE k = s
        BY <1>3, <1>7, <2>2, <3>1, <4>1
      <4>2. CASE k = p
        BY <1>3, <1>7, <2>2, <3>1, <4>2
      <4>3. CASE k \notin {s, p}
        BY <3>1, <3>3, <3>4, <4>3
      <4> QED BY <4>1, <4>2, <4>3
    <3>5. ASSUME NEW k \in Nodes \ {c}, row'[k] # None
          PROVE  prev'[k] \in Nodes /\ row'[prev'[k]] = row'[k] /\ next'[prev'[k]] = k
      <4>1. CASE k = s
        BY <1>3, <1>7, <2>2, <3>1, <4>1
      <4>2. CASE k = n
        BY <1>3, <1>7, <2>2, <3>1, <4>2
      <4>3. CASE k \notin {s, n}
        BY <3>1, <3>3, <3>5, <4>3
      <4> QED BY <4>1, <4>2, <4>3
    <3>6. ASSUME NEW k \in Nodes \ {c}, row'[k] # None, k \notin Rows
          PROVE  w'[k] > 0
      BY <1>3, <1>7, <3>1, <3>3, <3>6
    <3> QED BY <3>1, <3>2, <3>4, <3>5, <3>6 DEF RowsLinked
  <2> DEFINE g == [f EXCEPT ![s] = f[c]]
  <2>5. g \in [Nodes -> Nat] /\ g[s] = f[c] /\ \A k \in Nodes \ {s} : g[k] = f[k]
    BY <1>1, <2>2
  <2> HIDE DEF g
  <2>6. ASSUME NEW k \in Nodes, row'[k] # None, next'[k] \notin Rows
        PROVE  g[k] < g[next'[k]]
    <3>1. CASE k = p
      <4>1. next'[k] = s /\ k # s
        BY <1>1, <1>3, <1>7, <2>1, <2>2, <3>1 DEF Linked, Fields, Legalized
      <4>2. f[p] < f[c]
        BY <1>1, <1>2, <1>3, <1>7 DEF Grows, Legalized
      <4> QED BY <3>1, <4>1, <4>2, <2>5
    <3>2. CASE k = s
      <4>1. next'[k] = n /\ n # s
        BY <1>1, <1>3, <1>7, <2>1, <2>2, <3>2 DEF Linked, Fields, Legalized
      <4>2. f[c] < f[n]
        BY <1>1, <1>2, <1>3, <1>7, <2>6, <4>1 DEF Grows, Legalized
      <4> QED BY <3>2, <4>1, <4>2, <2>5, <1>3, <1>7
    <3>3. CASE k # p /\ k # s
      <4>1. k # c /\ next'[k] = next[k] /\ row[k] # None
        BY <1>1, <2>1, <2>2, <2>6, <3>3 DEF Linked, Fields
      <4>2. next[k] \in Nodes /\ next[k] # s
        BY <2>2, <4>1 DEF Linked, RowsLinked
      <4> QED BY <1>2, <2>5, <2>6, <3>3, <4>1, <4>2 DEF Grows
    <3> QED BY <3>1, <3>2, <3>3
  <2>7. RowsOrdered'
    BY <2>5, <2>6 DEF RowsOrdered
  <2> QED BY <1>1, <2>1, <2>2, <2>3, <2>4, <2>7 DEF Linked, Fields, Placed, Nodes
<1> QED BY <1>4, <1>5, <1>6, <1>7

\* A node takes its place in a whitespace that holds it, and what is left of the
\* whitespace on either side stays.
LEMMA SplitKeepsLinked ==
  ASSUME Linked, NEW n \in Placed, row[n] = None, w[n] > 0,
         NEW m \in Spaces, row[m] # None, NEW s \in Free, todo[n].x \in Int,
         Holds(m, n), SplitWhitespace(m, n, s)
  PROVE  /\ Linked'
         /\ \A k \in Placed \ {n} : row'[k] = row[k]
         /\ \A k \in Placed : w'[k] = w[k]
<1> DEFINE left == todo[n].x - x[m]
           right == End(m) - (todo[n].x + w[n])
           p == prev[m]
           q == next[m]
           before == IF left = 0 THEN p ELSE m
           after == IF right = 0 THEN q ELSE s
<1>1. /\ n \in Nodes /\ n \notin Rows /\ n \notin Spaces
      /\ m \in Nodes /\ m \notin Rows /\ m \notin Placed
      /\ s \in Nodes /\ s \notin Rows /\ s \notin Placed /\ s \in Spaces /\ row[s] = None
      /\ n # m /\ n # s /\ m # s
      /\ p \in Nodes /\ row[p] = row[m] /\ next[p] = m /\ p \notin Spaces
      /\ q \in Nodes /\ row[q] = row[m] /\ prev[q] = m /\ q \notin Spaces
      /\ p \notin {n, m, s} /\ q \notin {n, m, s}
      /\ row[m] \in Rows
  BY JezzAssumption DEF Linked, Fields, RowsLinked, Nodes, Placed, Free
<1>2. left \in Nat /\ right \in Nat
  BY <1>1 DEF Linked, Fields, Holds, End
<1>3. /\ prev' = [prev EXCEPT ![q] = IF right = 0 THEN n ELSE s,
                              ![m] = IF left = 0 THEN None ELSE @,
                              ![s] = IF right = 0 THEN None ELSE n,
                              ![n] = before]
      /\ next' = [next EXCEPT ![p] = IF left = 0 THEN n ELSE m,
                              ![m] = IF left = 0 THEN None ELSE n,
                              ![s] = IF right = 0 THEN None ELSE q,
                              ![n] = after]
      /\ row' = [row EXCEPT ![n] = row[m],
                            ![s] = IF right = 0 THEN None ELSE row[m],
                            ![m] = IF left = 0 THEN None ELSE @]
      /\ w' = [w EXCEPT ![m] = left, ![s] = right]
      /\ x' = [x EXCEPT ![m] = IF left = 0 THEN 0 ELSE @,
                        ![s] = IF right = 0 THEN 0 ELSE todo[n].x + w[n],
                        ![n] = todo[n].x]
  BY DEF SplitWhitespace
<1> HIDE DEF left, right, p, q
<1>4. Fields'
  BY <1>1, <1>2, <1>3 DEF Linked, Fields
<1>5. /\ next'[n] = after /\ prev'[n] = before /\ row'[n] = row[m] /\ w'[n] = w[n]
      /\ next'[p] = (IF left = 0 THEN n ELSE m)
      /\ prev'[q] = (IF right = 0 THEN n ELSE s)
      /\ row'[s] = (IF right = 0 THEN None ELSE row[m]) /\ w'[s] = right
      /\ right # 0 => next'[s] = q /\ prev'[s] = n
      /\ row'[m] = (IF left = 0 THEN None ELSE row[m]) /\ w'[m] = left
      /\ left # 0 => next'[m] = n /\ prev'[m] = p
      /\ \A k \in Nodes \ {m, n, s} : row'[k] = row[k] /\ w'[k] = w[k]
      /\ \A k \in Nodes \ {m, n, s, p} : next'[k] = next[k]
      /\ \A k \in Nodes \ {m, n, s, q} : prev'[k] = prev[k]
  <2>1. /\ next'[n] = after /\ next'[p] = (IF left = 0 THEN n ELSE m)
        /\ right # 0 => next'[s] = q
        /\ left # 0 => next'[m] = n
        /\ \A k \in Nodes \ {m, n, s, p} : next'[k] = next[k]
    BY <1>1, <1>3 DEF Linked, Fields
  <2>2. /\ prev'[n] = before /\ prev'[q] = (IF right = 0 THEN n ELSE s)
        /\ right # 0 => prev'[s] = n
        /\ left # 0 => prev'[m] = p
        /\ \A k \in Nodes \ {m, n, s, q} : prev'[k] = prev[k]
    BY <1>1, <1>3 DEF Linked, Fields, p
  <2>3. /\ row'[n] = row[m] /\ row'[s] = (IF right = 0 THEN None ELSE row[m])
        /\ row'[m] = (IF left = 0 THEN None ELSE row[m])
        /\ w'[n] = w[n] /\ w'[s] = right /\ w'[m] = left
        /\ \A k \in Nodes \ {m, n, s} : row'[k] = row[k] /\ w'[k] = w[k]
    BY <1>1, <1>3 DEF Linked, Fields
  <2> QED BY <2>1, <2>2, <2>3
<1>6. ASSUME NEW k \in Nodes \ {m, n, s}, row[k] # None
      PROVE  /\ next[k] \in Nodes /\ row[next[k]] = row[k] /\ prev[next[k]] = k
             /\ prev[k] \in Nodes /\ row[prev[k]] = row[k] /\ next[prev[k]] = k
             /\ k \in Spaces => next[k] \notin Spaces
             /\ next[k] \notin {n, s} /\ prev[k] \notin {n, s}
             /\ next[k] = m => k = p
             /\ prev[k] = m => k = q
             /\ k # p => next[k] # q \/ k = m
             /\ k \notin Rows => w[k] > 0
  BY <1>1, <1>6 DEF Linked, RowsLinked, p, q
<1>7. RowsLinked'
  <2>1. \A r \in Rows : row'[r] = r
    BY <1>1, <1>5 DEF Linked, RowsLinked, Nodes
  <2>2. ASSUME NEW k \in Nodes, row'[k] # None
        PROVE  /\ next'[k] \in Nodes /\ row'[next'[k]] = row'[k] /\ prev'[next'[k]] = k
               /\ k \in Spaces => next'[k] \notin Spaces
    <3>1. CASE k = n
      BY <1>1, <1>5, <3>1
    <3>2. CASE k = m
      BY <1>1, <1>5, <2>2, <3>2
    <3>3. CASE k = s
      BY <1>1, <1>5, <2>2, <3>3
    <3>4. CASE k = p
      BY <1>1, <1>5, <3>4
    <3>5. CASE k \notin {m, n, s, p}
      <4>1. next'[k] = next[k] /\ row'[k] = row[k] /\ k \in Nodes \ {m, n, s}
            /\ row[k] # None
        BY <1>5, <2>2, <3>5
      <4>2. next[k] \notin {m, n, s} /\ next[k] # q
        BY <1>1, <1>6, <3>5, <4>1
      <4> QED BY <1>5, <1>6, <4>1, <4>2
    <3> QED BY <3>1, <3>2, <3>3, <3>4, <3>5
  <2>3. ASSUME NEW k \in Nodes, row'[k] # None
        PROVE  prev'[k] \in Nodes /\ row'[prev'[k]] = row'[k] /\ next'[prev'[k]] = k
    <3>1. CASE k = n
      BY <1>1, <1>5, <3>1
    <3>2. CASE k = m
      BY <1>1, <1>5, <2>3, <3>2
    <3>3. CASE k = s
      BY <1>1, <1>5, <2>3, <3>3
    <3>4. CASE k = q
      BY <1>1, <1>5, <3>4
    <3>5. CASE k \notin {m, n, s, q}
      <4>1. prev'[k] = prev[k] /\ row'[k] = row[k] /\ k \in Nodes \ {m, n, s}
            /\ row[k] # None
        BY <1>5, <2>3, <3>5
      <4>2. prev[k] \notin {m, n, s} /\ prev[k] # p
        BY <1>1, <1>6, <3>5, <4>1
      <4> QED BY <1>5, <1>6, <4>1, <4>2
    <3> QED BY <3>1, <3>2, <3>3, <3>4, <3>5
  <2>4. ASSUME NEW k \in Nodes \ Rows, row'[k] # None
        PROVE  w'[k] > 0
    <3>1. CASE k \in {m, n, s}
      BY <1>2, <1>5, <2>4, <3>1
    <3>2. CASE k \notin {m, n, s}
      BY <1>5, <1>6, <2>4, <3>2
    <3> QED BY <3>1, <3>2
  <2> QED BY <2>1, <2>2, <2>3, <2>4 DEF RowsLinked
<1>8. RowsOrdered'
  <2>1. PICK f \in [Nodes -> Nat] : Grows(f)
    BY DEF Linked, RowsOrdered, Grows
  <2> DEFINE g == [k \in Nodes |-> IF k = n THEN 3 * f[m] + 1
                                   ELSE IF k = s THEN 3 * f[m] + 2 ELSE 3 * f[k]]
  <2>2. g \in [Nodes -> Nat]
    BY <1>1
  <2>3. /\ g[n] = 3 * f[m] + 1 /\ g[s] = 3 * f[m] + 2
        /\ \A k \in Nodes \ {n, s} : g[k] = 3 * f[k]
        /\ \A k \in Nodes : f[k] \in Int
    BY <1>1
  <2>4. /\ f[p] < f[m] /\ (q \notin Rows => f[m] < f[q])
    BY <1>1, <2>1 DEF Grows, q
  <2> HIDE DEF g
  <2>5. ASSUME NEW k \in Nodes, row'[k] # None, next'[k] \notin Rows
        PROVE  g[k] < g[next'[k]]
    <3>1. CASE k = n
      BY <1>1, <1>5, <2>3, <2>4, <2>5, <3>1
    <3>2. CASE k = m
      BY <1>1, <1>5, <2>3, <2>5, <3>2
    <3>3. CASE k = s
      BY <1>1, <1>5, <2>3, <2>4, <2>5, <3>3
    <3>4. CASE k = p
      BY <1>1, <1>5, <2>3, <2>4, <3>4
    <3>5. CASE k \notin {m, n, s, p}
      <4>1. next'[k] = next[k] /\ k \in Nodes \ {m, n, s} /\ row[k] # None
        BY <1>5, <2>5, <3>5
      <4>2. next[k] \in Nodes \ {n, s} /\ f[k] < f[next[k]]
        BY <1>6, <2>1, <2>5, <4>1 DEF Grows
      <4> QED BY <2>3, <4>1, <4>2
    <3> QED BY <3>1, <3>2, <3>3, <3>4, <3>5
  <2> QED BY <2>2, <2>5 DEF RowsOrdered
<1>9. \A k \in Placed : k \in Nodes \ {m, s}
  BY <1>1 DEF Nodes, Placed
<1> QED BY <1>4, <1>5, <1>7, <1>8, <1>9 DEF Linked

\* Empty rows, each with the whitespace that fills it.
Emptied ==
  /\ prev = [n \in Nodes |-> Opposite(n)]
  /\ next = [n \in Nodes |-> Opposite(n)]
  /\ row = [n \in Nodes |-> InitRow(n)]
  /\ x \in [Nodes -> Int] /\ w \in [Nodes -> Nat]
  /\ \A n \in Spaces : w[n] = InitWidth(n)

\* A row and its first whitespace stand for each other.
LEMMA RowsHaveFillers ==
  /\ \A r \in Rows : /\ Opposite(r) = Filler[r] /\ InitRow(r) = r
                     /\ Filler[r] \in Spaces
                     /\ Opposite(Filler[r]) = r /\ InitRow(Filler[r]) = r
  /\ \A n \in Placed : Opposite(n) = None /\ InitRow(n) = None
  /\ \A n \in Nodes : InitRow(n) # None /\ n \notin Rows =>
       n \in Spaces /\ Opposite(n) \in Rows /\ Filler[Opposite(n)] = n
       /\ InitRow(n) = Opposite(n)
  /\ \A n \in Nodes : Opposite(n) \in Nodes \cup {None} /\ InitRow(n) \in Rows \cup {None}
<1>1. ASSUME NEW r \in Rows
      PROVE  /\ Opposite(r) = Filler[r] /\ InitRow(r) = r /\ Filler[r] \in Spaces
             /\ Filler[r] \notin Rows
             /\ Opposite(Filler[r]) = r /\ InitRow(Filler[r]) = r
  <2>1. Filler[r] \in Spaces /\ Filler[r] \notin Rows /\ r \notin Spaces
    BY JezzAssumption
  <2>2. Opposite(r) = Filler[r] /\ InitRow(r) = r
    BY DEF Opposite, InitRow
  <2>3. \A q \in Rows : Filler[q] = Filler[r] => q = r
    BY JezzAssumption
  <2>4. Opposite(Filler[r]) = r
    BY <2>1, <2>3 DEF Opposite
  <2> QED BY <2>1, <2>2, <2>4 DEF InitRow
<1>2. ASSUME NEW n \in Nodes \ Rows
      PROVE  \/ Opposite(n) = None /\ InitRow(n) = None
             \/ /\ n \in Spaces /\ Opposite(n) \in Rows /\ Filler[Opposite(n)] = n
                /\ InitRow(n) = Opposite(n)
  <2>1. CASE \E r \in Rows : Filler[r] = n
    BY <1>1, <2>1 DEF InitRow
  <2>2. CASE ~\E r \in Rows : Filler[r] = n
    BY <2>2, JezzAssumption DEF Opposite, InitRow, Nodes
  <2> QED BY <2>1, <2>2
<1>3. \A n \in Placed : n \in Nodes \ Rows /\ n \notin Spaces
  BY JezzAssumption DEF Nodes, Placed
<1>4. Rows \subseteq Nodes /\ Spaces \subseteq Nodes /\ None \notin Rows
  BY JezzAssumption DEF Nodes
<1> QED BY <1>1, <1>2, <1>3, <1>4

LEMMA EmptiedIsLinked == Emptied => Linked
<1> SUFFICES ASSUME Emptied PROVE Linked
  OBVIOUS
<1>1. Rows \subseteq Nodes /\ Spaces \subseteq Nodes /\ None \notin Nodes
      /\ Spaces \cap Rows = {} /\ Sites \in Nat \ {0}
  BY JezzAssumption DEF Nodes
<1>2. Fields
  BY RowsHaveFillers DEF Emptied, Fields
<1>3. \A r \in Rows : row[r] = r
  BY <1>1, RowsHaveFillers DEF Emptied
<1>4. ASSUME NEW n \in Nodes, row[n] # None
      PROVE  /\ next[n] \in Nodes /\ row[next[n]] = row[n] /\ prev[next[n]] = n
             /\ prev[n] \in Nodes /\ row[prev[n]] = row[n] /\ next[prev[n]] = n
             /\ n \in Spaces => next[n] \notin Spaces
             /\ n \notin Rows => w[n] > 0 /\ next[n] \in Rows
  <2>1. CASE n \in Rows
    BY <1>1, <2>1, RowsHaveFillers DEF Emptied
  <2>2. CASE n \notin Rows
    BY <1>1, <1>4, <2>2, RowsHaveFillers DEF Emptied, InitWidth
  <2> QED BY <2>1, <2>2
<1>5. RowsOrdered
  <2> DEFINE f == [n \in Nodes |-> IF n \in Rows THEN 0 ELSE 1]
  <2>1. ASSUME NEW n \in Nodes, row[n] # None, next[n] \notin Rows
        PROVE  f[n] < f[next[n]]
    BY <1>4, <2>1
  <2>2. f \in [Nodes -> Nat]
    OBVIOUS
  <2> HIDE DEF f
  <2> QED BY <2>1, <2>2 DEF RowsOrdered
<1> QED BY <1>2, <1>3, <1>4, <1>5 DEF Linked, RowsLinked

LEMMA SameListIsLinked ==
  ASSUME Linked, UNCHANGED list
  PROVE  Linked'
<1>1. UNCHANGED <<prev, next, x, w, row>>
  BY DEF list
<1> QED BY <1>1 DEF Linked, Fields, RowsLinked, RowsOrdered

-----------------------------------------------------------------------------
(***************************************************************************)
(* The calls.                                                              *)
(***************************************************************************)

\* The rows are empty but for obstacles still to be inserted.
LEMMA InitIInv == Init => IInv
<1> SUFFICES ASSUME Init PROVE IInv
  OBVIOUS
<1>1. created \subseteq Cells /\ \A c \in created : c \in Placed /\ c \in Nodes
  BY DEF Init, Placed, Nodes
<1>2. PICK width \in [Cells -> UNION {Widths[c] : c \in Cells}] :
        /\ \A c \in Cells : width[c] \in Widths[c]
        /\ w = [n \in Nodes |-> IF n \in created THEN width[n]
                                ELSE IF n \in Obstacles THEN Block[n].w
                                ELSE InitWidth(n)]
  BY DEF Init
<1>3. /\ \A c \in created : width[c] \in Nat \ {0}
      /\ \A o \in Obstacles : Block[o].w \in Nat \ {0} /\ Block[o].row \in Rows
                             /\ Block[o].x \in Int
      /\ \A n \in Nodes : InitWidth(n) \in Nat
  BY <1>1, <1>2, JezzAssumption, BlockAssumption DEF InitWidth
<1>4. /\ \A n \in created \cup Obstacles : w[n] \in Nat /\ w[n] > 0
      /\ \A n \in Spaces : w[n] = InitWidth(n)
      /\ w \in [Nodes -> Nat]
  <2>1. \A n \in created \cup Obstacles : n \in Nodes /\ n \notin Spaces
    BY <1>1, JezzAssumption DEF Nodes
  <2>2. Spaces \subseteq Nodes
    BY DEF Nodes
  <2> QED BY <1>2, <1>3, <2>1, <2>2
<1>5. Emptied
  BY <1>4 DEF Init, Emptied
<1>6. Linked
  BY <1>5, EmptiedIsLinked
<1>7. DOMAIN todo = Obstacles /\ \A o \in Obstacles : todo[o] \in [rows : SUBSET Rows, x : Int]
  BY <1>3 DEF Init, Goal
<1>8. \A o \in Obstacles : o \in Placed /\ o \in Nodes /\ row[o] = None
  BY <1>5, RowsHaveFillers DEF Emptied, Placed, Nodes
<1>9. stored = <<>> /\ DOMAIN stored = {}
  BY DEF Init
<1>10. CallTyped
  <2>1. /\ pc = "next" /\ job = "start" /\ was = <<>> /\ node = None
        /\ ref = None /\ dir = "HEAD" /\ at = None /\ over = 0 /\ lack = 0 /\ toRight = 0
    BY DEF Init
  <2>2. DOMAIN stored \subseteq created /\ \A c \in DOMAIN stored :
          stored[c] \in [row : Rows \cup {None}, x : Int, w : Nat]
    BY <1>9
  <2>3. DOMAIN todo \subseteq Placed /\ \A n \in DOMAIN todo :
          todo[n] \in [rows : SUBSET Rows, x : Int]
    BY <1>7, <1>8
  <2>4. failed \in BOOLEAN
    BY Zenon DEF Init
  <2>5. {ref, at} \subseteq Nodes \cup {None} /\ {over, lack, toRight} \subseteq Nat
    BY <2>1
  <2> QED BY <1>1, <2>1, <2>2, <2>3, <2>4, <2>5 DEF CallTyped
<1> QED BY <1>4, <1>6, <1>7, <1>8, <1>9, <1>10
         DEF Init, IInv, Awaited, WalkInRow, Walking, CallKnown, CellsKnown, Insertions

\* Removing a cell, with the width it gets, keeps the rows and all widths.
LEMMA RemovalKeepsRows ==
  ASSUME IInv, NEW c \in created, NEW nw \in Nat \ {0}, RemoveNode(c, nw)
  PROVE  /\ Linked' /\ c \in Placed /\ row'[c] = None
         /\ \A n \in Placed : row'[n] = row[n] \/ row'[n] = None
         /\ \A n \in created \cup Obstacles : w'[n] > 0
<1>1. c \in Cells /\ c \in Placed /\ \A n \in created \cup Obstacles : n \in Placed
  BY DEF IInv, CallTyped, Placed
<1>2. /\ Linked' /\ row'[c] = None /\ w'[c] = nw
      /\ \A k \in Placed \ {c} : row'[k] = row[k] /\ w'[k] = w[k]
  BY <1>1, RemoveKeepsLinked DEF IInv
<1> QED BY <1>1, <1>2 DEF IInv, CellsKnown

\* The widths of created cells are positive.
LEMMA WidthOfCell ==
  ASSUME IInv, NEW c \in created
  PROVE  w[c] \in Nat \ {0} /\ c \in Nodes /\ c \in Cells /\ c \in Placed
<1>1. c \in Nodes /\ c \in Cells /\ c \in Placed
  BY DEF IInv, CallTyped, Nodes, Placed
<1> QED BY <1>1 DEF IInv, Linked, Fields, CellsKnown

\* What a call remembers of the nodes.
LEMMA BeginRemembers ==
  ASSUME Linked, NEW j, NEW start, NEW nodes, Begin(j, start, nodes)
  PROVE  was' \in [Placed -> [row : Rows \cup {None}, x : Int]]
<1>1. \A n \in Placed : n \in Nodes
  BY DEF Placed, Nodes
<1> QED BY <1>1 DEF Begin, Linked, Fields

\* A cell to be inserted is in no row.
LEMMA InsertKeepsIInv ==
  ASSUME IInv, NEW c \in Cells, NEW rows \in SUBSET Rows, NEW t \in Targets,
         NEW j \in Insertions, Insert(c, rows, t, j)
  PROVE  IInv'
<1>1. c \in created /\ RemoveNode(c, w[c]) /\ UNCHANGED <<walk, created, stored>>
      /\ Begin(j, "next", [n \in {c} |-> Goal(rows, t)])
  BY DEF Insert
<1>2. /\ Linked' /\ c \in Placed /\ row'[c] = None
      /\ \A n \in created \cup Obstacles : w'[n] > 0
  BY <1>1, WidthOfCell, RemovalKeepsRows
<1>3. was' \in [Placed -> [row : Rows \cup {None}, x : Int]]
  BY <1>1, BeginRemembers DEF IInv
<1>4. /\ pc' = "next" /\ job' = j /\ failed' = FALSE
      /\ DOMAIN todo' = {c} /\ todo'[c] \in [rows : SUBSET Rows, x : Int]
  BY <1>1, JezzAssumption DEF Begin, Goal
<1>5. UNCHANGED <<node, ref, dir, at, over, lack, toRight, created, stored>>
  BY <1>1 DEF walk
<1>6. CallTyped'
  BY <1>2, <1>3, <1>4, <1>5 DEF IInv, CallTyped
<1> QED BY <1>1, <1>2, <1>3, <1>4, <1>5, <1>6
         DEF IInv, Awaited, WalkInRow, Walking, CallKnown, CellsKnown

\* An edit between calls that takes at most a cell out of its row.
LEMMA EditKeepsIInv ==
  ASSUME IInv, Idle, Linked', UNCHANGED <<walk, call>>,
         created \subseteq created', created' \subseteq Cells,
         \A n \in Placed : row'[n] = row[n] \/ row'[n] = None,
         \A n \in created' \cup Obstacles : w'[n] > 0,
         stored' = <<>> \/ DOMAIN stored' = created',
         \A c \in DOMAIN stored' :
           stored'[c] \in [row : Rows \cup {None}, x : Int, w : Nat]
  PROVE  IInv'
<1>1. UNCHANGED <<node, ref, dir, at, over, lack, toRight, pc, job, todo, failed, was>>
  BY DEF walk, call
<1>2. DOMAIN stored' \subseteq created'
  OBVIOUS
<1>3. CallTyped'
  BY <1>1, <1>2 DEF IInv, CallTyped
<1>4. Awaited'
  BY <1>1 DEF IInv, Awaited, CallTyped, Idle
<1>5. WalkInRow' /\ CallKnown' /\ CellsKnown'
  BY <1>1 DEF IInv, Idle, WalkInRow, Walking, CallKnown, CellsKnown
<1> QED BY <1>3, <1>4, <1>5 DEF IInv

LEMMA EditsKeepIInv ==
  ASSUME IInv, ~EditsAfterStore, NEW c \in Cells,
         Remove(c) \/ \E k \in Widths[c] : Remap(c, k) \/ Create(c, k)
  PROVE  IInv'
<1> USE DEF Idle
<1>1. \A k \in Widths[c] : k \in Nat \ {0}
  BY JezzAssumption
<1>2. CASE Remove(c)
  <2>1. c \in created /\ RemoveNode(c, w[c]) /\ UNCHANGED <<walk, call, created, stored>>
    BY <1>2 DEF Remove
  <2>2. /\ Linked' /\ \A n \in Placed : row'[n] = row[n] \/ row'[n] = None
        /\ \A n \in created \cup Obstacles : w'[n] > 0
    BY <2>1, WidthOfCell, RemovalKeepsRows
  <2> QED BY <1>2, <2>1, <2>2, EditKeepsIInv DEF Remove, IInv, CallTyped, CellsKnown
<1>3. ASSUME NEW k \in Widths[c], Remap(c, k)
      PROVE  IInv'
  <2>1. c \in created /\ RemoveNode(c, k) /\ UNCHANGED <<walk, call, created, stored>>
    BY <1>3 DEF Remap
  <2>2. /\ Linked' /\ \A n \in Placed : row'[n] = row[n] \/ row'[n] = None
        /\ \A n \in created \cup Obstacles : w'[n] > 0
    BY <1>1, <2>1, RemovalKeepsRows
  <2> QED BY <1>3, <2>1, <2>2, EditKeepsIInv DEF Remap, IInv, CallTyped, CellsKnown
<1>4. ASSUME NEW k \in Widths[c], Create(c, k)
      PROVE  IInv'
  <2>1. /\ Idle /\ stored = <<>> /\ created' = created \cup {c}
        /\ w' = [w EXCEPT ![c] = k]
        /\ UNCHANGED <<prev, next, x, row, walk, call, stored>>
    BY <1>4 DEF Create
  <2>2. c \in Nodes /\ \A n \in created \cup Obstacles : n \in Nodes
    BY DEF IInv, CallTyped, Nodes
  <2>3. Fields'
    BY <1>1, <2>1, <2>2 DEF IInv, Linked, Fields
  <2>4. RowsLinked'
    <3>1. \A n \in Nodes : w'[n] = w[n] \/ w'[n] > 0
      BY <1>1, <2>1, <2>2 DEF IInv, Linked, Fields
    <3> QED BY <2>1, <3>1 DEF IInv, Linked, RowsLinked
  <2>5. Linked'
    BY <2>1, <2>3, <2>4 DEF IInv, Linked, RowsOrdered
  <2>6. \A n \in created' \cup Obstacles : w'[n] > 0
    BY <1>1, <2>1, <2>2 DEF IInv, Linked, Fields, CellsKnown
  <2>7. created' \subseteq Cells
    BY <2>1 DEF IInv, CallTyped
  <2> QED BY <2>1, <2>5, <2>6, <2>7, EditKeepsIInv DEF IInv, CallTyped
<1> QED BY <1>2, <1>3, <1>4

LEMMA StoreSolutionKeepsIInv ==
  ASSUME IInv, StoreSolution
  PROVE  IInv'
<1>1. /\ Idle /\ UNCHANGED <<list, walk, call, created>>
      /\ stored' = [c \in created |-> [row |-> row[c], x |-> x[c], w |-> w[c]]]
  BY DEF StoreSolution
<1>2. Linked'
  BY <1>1, SameListIsLinked DEF IInv
<1>3. \A c \in created : c \in Nodes
  BY WidthOfCell
<1>4. \A c \in DOMAIN stored' : stored'[c] \in [row : Rows \cup {None}, x : Int, w : Nat]
  BY <1>1, <1>3 DEF IInv, Linked, Fields
<1>5. UNCHANGED <<row, w>>
  BY <1>1 DEF list
<1> QED BY <1>1, <1>2, <1>4, <1>5, EditKeepsIInv DEF IInv, CallTyped, CellsKnown

\* The stored solution knows every cell, so none keeps its links.
LEMMA RestoreSolutionFullKeepsIInv ==
  ASSUME IInv, RestoreSolutionFull
  PROVE  IInv'
<1> DEFINE goals == [n \in {o \in Obstacles : Legalized(o)}
                          \cup {c \in DOMAIN stored : stored[c].row # None} |->
                       IF n \in Obstacles THEN Goal({row[n]}, x[n])
                       ELSE Goal({stored[n].row}, stored[n].x)]
<1>1. created \ DOMAIN stored = {} /\ DOMAIN stored = created
  BY DEF IInv, CellsKnown, RestoreSolutionFull
<1>2. /\ prev' = [n \in Nodes |-> Opposite(n)]
      /\ next' = [n \in Nodes |-> Opposite(n)]
      /\ row' = [n \in Nodes |-> IF n \in Placed THEN None ELSE InitRow(n)]
      /\ w' = [n \in Nodes |-> IF n \in Placed THEN w[n] ELSE InitWidth(n)]
      /\ x' = [n \in Nodes |-> 0]
      /\ Begin("restore", "next", goals)
      /\ UNCHANGED <<walk, created, stored>>
  BY <1>1 DEF RestoreSolutionFull
<1>3. /\ \A n \in Placed : n \in Nodes /\ n \notin Spaces
      /\ \A n \in created \cup Obstacles : n \in Placed
      /\ \A n \in Spaces : n \in Nodes /\ n \notin Placed
      /\ Sites \in Nat
  BY JezzAssumption DEF Placed, Nodes, IInv, CallTyped
<1>4. row' = [n \in Nodes |-> InitRow(n)]
  BY <1>2, RowsHaveFillers
<1>5. /\ w' \in [Nodes -> Nat] /\ \A n \in Spaces : w'[n] = InitWidth(n)
      /\ \A n \in created \cup Obstacles : w'[n] > 0
  BY <1>2, <1>3 DEF InitWidth, IInv, Linked, Fields, CellsKnown
<1>6. Emptied'
  <2>1. x' \in [Nodes -> Int]
    BY <1>2
  <2> QED BY <1>2, <1>4, <1>5, <2>1 DEF Emptied
<1>7. Linked'
  BY <1>6, EmptiedIsLinked, PTL
<1>8. was' \in [Placed -> [row : Rows \cup {None}, x : Int]]
  BY <1>2, BeginRemembers DEF IInv
<1>9. /\ pc' = "next" /\ job' = "restore" /\ failed' = FALSE /\ todo' = goals
  BY <1>2 DEF Begin
<1>10. ASSUME NEW n \in DOMAIN goals
       PROVE  /\ n \in created \cup Obstacles /\ row'[n] = None
              /\ goals[n] \in [rows : SUBSET Rows, x : Int]
  <2>1. CASE n \in Obstacles
    <3>1. row[n] \in Rows /\ x[n] \in Int
      <4>1. Legalized(n)
        BY <1>1, <2>1, JezzAssumption DEF IInv, CallTyped
      <4> QED BY <1>3, <2>1, <4>1 DEF Legalized, IInv, Linked, Fields
    <3> QED BY <1>2, <1>3, <2>1, <3>1 DEF Goal
  <2>2. CASE n \notin Obstacles
    <3>1. n \in created /\ stored[n].row \in Rows /\ stored[n].x \in Int
      BY <1>1, <2>2 DEF IInv, CallTyped
    <3> QED BY <1>2, <1>3, <2>2, <3>1 DEF Goal
  <2> QED BY <2>1, <2>2
<1> HIDE DEF goals
<1>11. UNCHANGED <<node, ref, dir, at, over, lack, toRight, created, stored>>
  BY <1>2 DEF walk
<1>12. CallTyped'
  <2>1. failed' \in BOOLEAN
    BY <1>9
  <2> QED BY <1>3, <1>8, <1>9, <1>10, <1>11, <2>1 DEF IInv, CallTyped
<1> QED BY <1>1, <1>5, <1>7, <1>9, <1>10, <1>11, <1>12
         DEF IInv, Awaited, WalkInRow, Walking, CallKnown, CellsKnown, Insertions

LEMMA RestoreSolutionIncrementalKeepsIInv ==
  ASSUME IInv, RestoreSolutionIncremental
  PROVE  IInv'
<1> DEFINE goals == [c \in DOMAIN stored |-> Goal({}, stored[c].x)]
<1>1. Begin("restore", "compare", goals) /\ UNCHANGED <<list, walk, created, stored>>
  BY DEF RestoreSolutionIncremental
<1>2. Linked'
  BY <1>1, SameListIsLinked DEF IInv
<1>3. was' \in [Placed -> [row : Rows \cup {None}, x : Int]]
  BY <1>1, BeginRemembers DEF IInv
<1>4. pc' = "compare" /\ job' = "restore" /\ failed' \in BOOLEAN /\ todo' = goals
  BY <1>1 DEF Begin
<1>5. /\ DOMAIN goals = DOMAIN stored /\ DOMAIN goals \subseteq created
      /\ \A c \in DOMAIN goals : /\ goals[c].rows = {}
                                /\ goals[c] \in [rows : SUBSET Rows, x : Int]
      /\ \A c \in created : c \in Placed
  BY DEF Goal, IInv, CallTyped, Placed
<1> HIDE DEF goals
<1>6. UNCHANGED <<row, w, node, ref, dir, at, over, lack, toRight, created, stored>>
  BY <1>1 DEF walk, list
<1>7. CallTyped'
  BY <1>3, <1>4, <1>5, <1>6 DEF IInv, CallTyped
<1> QED BY <1>2, <1>4, <1>5, <1>6, <1>7
        DEF IInv, Awaited, WalkInRow, Walking, CallKnown, CellsKnown, Insertions

\* A cell that is not where it was stored waits for its insertion.
LEMMA CompareKeepsIInv ==
  ASSUME IInv, NEW c \in Cells, Compare(c)
  PROVE  IInv'
<1>1. /\ pc = "compare" /\ c \in DOMAIN todo /\ c \in DOMAIN stored /\ c \in created
      /\ UNCHANGED <<walk, pc, job, failed, was, created, stored>>
  BY DEF Compare, First, IInv, Awaited, CallTyped
<1>2. UNCHANGED <<node, ref, dir, at, over, lack, toRight, created, stored>>
  BY <1>1 DEF walk
<1>3. \A n \in DOMAIN todo : n \in Placed
  BY DEF IInv, CallTyped
<1>4. CASE todo' = Without(todo, c) /\ UNCHANGED list
  <2>1. Linked' /\ UNCHANGED <<row, w>>
    BY <1>4, SameListIsLinked DEF IInv, list
  <2>2. /\ DOMAIN todo' = DOMAIN todo \ {c}
        /\ \A n \in DOMAIN todo' : todo'[n] = todo[n]
    BY <1>4 DEF Without
  <2>3. CallTyped'
    BY <1>1, <1>2, <2>2 DEF IInv, CallTyped
  <2> QED BY <1>1, <1>2, <2>1, <2>2, <2>3
           DEF IInv, Awaited, WalkInRow, Walking, CallKnown, CellsKnown
<1>5. CASE /\ RemoveNode(c, w[c])
           /\ todo' = IF stored[c].row = None THEN Without(todo, c)
                      ELSE [todo EXCEPT ![c].rows = {stored[c].row}]
  <2>1. /\ Linked' /\ row'[c] = None
        /\ \A n \in Placed : row'[n] = row[n] \/ row'[n] = None
        /\ \A n \in created \cup Obstacles : w'[n] > 0
    BY <1>1, <1>5, WidthOfCell, RemovalKeepsRows
  <2>2. /\ DOMAIN todo' \subseteq DOMAIN todo
        /\ \A n \in DOMAIN todo' : n # c => todo'[n] = todo[n]
        /\ c \in DOMAIN todo' => todo'[c] \in [rows : SUBSET Rows, x : Int]
    <3>1. stored[c].row \in Rows \cup {None} /\ todo[c] \in [rows : SUBSET Rows, x : Int]
      BY <1>1 DEF IInv, CallTyped
    <3>2. CASE stored[c].row = None
      BY <1>5, <3>2 DEF Without
    <3>3. CASE stored[c].row # None
      BY <1>1, <1>5, <3>1, <3>3
    <3> QED BY <3>2, <3>3
  <2>3. CallTyped'
    BY <1>1, <1>2, <2>2 DEF IInv, CallTyped
  <2>4. Awaited'
    BY <1>1, <1>2, <1>3, <2>1, <2>2 DEF IInv, Awaited
  <2> QED BY <1>1, <1>2, <2>1, <2>2, <2>3, <2>4
           DEF IInv, WalkInRow, Walking, CallKnown, CellsKnown
<1> QED BY <1>4, <1>5 DEF Compare

LEMMA CompareEndsKeepsIInv ==
  ASSUME IInv, CompareEnds
  PROVE  IInv'
<1>1. /\ pc = "compare" /\ pc' = "next" /\ \A c \in DOMAIN todo : todo[c].rows # {}
      /\ UNCHANGED <<list, walk, job, todo, failed, was, created, stored>>
  BY DEF CompareEnds
<1>2. Linked'
  BY <1>1, SameListIsLinked DEF IInv
<1>3. UNCHANGED <<row, w, node, ref, dir, at, over, lack, toRight>>
  BY <1>1 DEF walk, list
<1>4. CallTyped'
  BY <1>1, <1>3 DEF IInv, CallTyped
<1> QED BY <1>1, <1>2, <1>3, <1>4
        DEF IInv, Awaited, WalkInRow, Walking, CallKnown, CellsKnown

-----------------------------------------------------------------------------
(***************************************************************************)
(* The steps of an insertion.                                              *)
(***************************************************************************)

\* The node whose turn it is has a goal and is in no row.
LEMMA TurnIsAwaited ==
  ASSUME IInv, NEW n \in Placed, NEW r \in Rows, Turn(n, r)
  PROVE  /\ pc = "next" /\ n \in DOMAIN todo /\ row[n] = None
         /\ todo[n].x \in Int
         /\ w[n] \in Nat /\ w[n] > 0
<1>1. n \in Nodes
  BY DEF Placed, Nodes
<1> QED BY <1>1 DEF Turn, First, IInv, Awaited, CallTyped, CellsKnown, Linked, Fields

\* What a node is inserted after or into is in the row.
LEMMA ReferencesInRow ==
  ASSUME Linked, NEW n, NEW r \in Rows, NEW m \in References(n, r)
  PROVE  m \in Nodes /\ row[m] = r
<1>1. PICK k \in Overlapping(r, todo[n].x) : m = Reference(k, todo[n].x)
  BY DEF References
<1>2. r \in Nodes /\ row[r] = r /\ r # None
  BY JezzAssumption DEF Linked, RowsLinked, Nodes
<1>3. k \in Nodes /\ row[k] = r
  BY <1>1, <1>2 DEF Overlapping, Linked, RowsLinked
<1> QED BY <1>1, <1>2, <1>3 DEF Reference, Linked, RowsLinked

\* A node that is inserted, or for which there is no room, waits no more.
LEMMA WithoutNode ==
  ASSUME IInv, NEW n \in DOMAIN todo, todo' = Without(todo, n)
  PROVE  /\ DOMAIN todo' = DOMAIN todo \ {n}
         /\ \A k \in DOMAIN todo' : todo'[k] = todo[k]
                                   /\ todo'[k] \in [rows : SUBSET Rows, x : Int]
BY DEF Without, IInv, CallTyped

LEMMA EncloseKeepsIInv ==
  ASSUME IInv, NEW n \in Placed, NEW r \in Rows, Enclose(n, r)
  PROVE  IInv'
<1>1. /\ pc = "next" /\ n \in DOMAIN todo /\ row[n] = None /\ todo[n].x \in Int
      /\ w[n] \in Nat /\ w[n] > 0
  BY TurnIsAwaited DEF Enclose
<1>2. PICK m \in References(n, r), s \in Free : Holds(m, n) /\ SplitWhitespace(m, n, s)
  BY DEF Enclose
<1>3. m \in Spaces /\ row[m] # None
  BY <1>2, ReferencesInRow, JezzAssumption DEF Holds, IInv, Nodes
<1>4. /\ Linked'
      /\ \A k \in Placed \ {n} : row'[k] = row[k]
      /\ \A k \in Placed : w'[k] = w[k]
  BY <1>1, <1>2, <1>3, SplitKeepsLinked DEF IInv
<1>5. /\ DOMAIN todo' = DOMAIN todo \ {n}
      /\ \A k \in DOMAIN todo' : todo'[k] = todo[k]
                                /\ todo'[k] \in [rows : SUBSET Rows, x : Int]
  BY <1>1, WithoutNode DEF Enclose
<1>6. node' = n /\ UNCHANGED <<ref, dir, at, over, lack, toRight, pc, job, failed, was,
                             created, stored>>
  BY DEF Enclose
<1>7. \A k \in created \cup Obstacles \cup DOMAIN todo : k \in Placed
  BY DEF IInv, CallTyped, Placed
<1>8. CallTyped'
  BY <1>5, <1>6 DEF IInv, CallTyped
<1>9. Awaited'
  BY <1>1, <1>4, <1>5, <1>6, <1>7 DEF IInv, Awaited
<1> QED BY <1>1, <1>4, <1>5, <1>6, <1>7, <1>8, <1>9
        DEF IInv, WalkInRow, Walking, CallKnown, CellsKnown

LEMMA ApproachKeepsIInv ==
  ASSUME IInv, NEW n \in Placed, NEW r \in Rows, Approach(n, r)
  PROVE  IInv'
<1>1. /\ pc = "next" /\ n \in DOMAIN todo /\ row[n] = None /\ w[n] \in Nat
  BY TurnIsAwaited DEF Approach
<1>2. PICK m \in References(n, r) : ref' = m /\ at' = m
  BY DEF Approach
<1>3. m \in Nodes /\ row[m] # None
  BY <1>2, ReferencesInRow, JezzAssumption DEF IInv, Nodes
<1>4. /\ node' = n /\ dir' = "HEAD" /\ over' = w[n] /\ pc' = "count"
      /\ UNCHANGED <<list, lack, toRight, job, todo, failed, was, created, stored>>
  BY DEF Approach
<1>5. Linked' /\ UNCHANGED <<row, w>>
  BY <1>4, SameListIsLinked DEF IInv, list
<1>6. CallTyped'
  BY <1>1, <1>2, <1>3, <1>4 DEF IInv, CallTyped
<1> QED BY <1>1, <1>2, <1>3, <1>4, <1>5, <1>6
        DEF IInv, Awaited, WalkInRow, Walking, CallKnown, CellsKnown

\* A row without room.
LEMMA OverflowLeavesGoals ==
  ASSUME IInv, NEW n \in DOMAIN todo, NEW r, Overflow(n, r)
  PROVE  /\ pc' = "next" /\ failed' \in BOOLEAN /\ UNCHANGED <<job, was>>
         /\ DOMAIN todo' \subseteq DOMAIN todo
         /\ DOMAIN todo \subseteq DOMAIN todo' \cup {n}
         /\ \A k \in DOMAIN todo' : todo'[k] \in [rows : SUBSET Rows, x : Int]
<1>1. pc' = "next" /\ UNCHANGED <<job, was>>
  BY DEF Overflow
<1>2. CASE todo[n].rows = {r}
  <2>1. todo' = Without(todo, n) /\ failed' \in BOOLEAN
    BY <1>2 DEF Overflow
  <2> QED BY <1>1, <2>1, WithoutNode
<1>3. CASE todo[n].rows # {r}
  <2>1. todo' = [todo EXCEPT ![n].rows = @ \ {r}] /\ failed' = failed
    BY <1>3 DEF Overflow
  <2>2. failed' \in BOOLEAN
    BY <2>1 DEF IInv, CallTyped
  <2>3. DOMAIN todo' = DOMAIN todo
    BY <2>1
  <2>4. \A k \in DOMAIN todo' : todo'[k] \in [rows : SUBSET Rows, x : Int]
    BY <2>1 DEF IInv, CallTyped
  <2> QED BY <1>1, <2>2, <2>3, <2>4
<1> QED BY <1>2, <1>3

LEMMA NoWhitespaceKeepsIInv ==
  ASSUME IInv, NEW n \in Placed, NEW r \in Rows, NoWhitespace(n, r)
  PROVE  IInv'
<1>1. /\ pc = "next" /\ n \in DOMAIN todo
  BY TurnIsAwaited DEF NoWhitespace
<1>2. /\ Overflow(n, r) /\ node' = n
      /\ UNCHANGED <<list, ref, dir, at, over, lack, toRight, created, stored>>
  BY DEF NoWhitespace
<1>3. /\ pc' = "next" /\ failed' \in BOOLEAN /\ UNCHANGED <<job, was>>
      /\ DOMAIN todo' \subseteq DOMAIN todo
      /\ \A k \in DOMAIN todo' : todo'[k] \in [rows : SUBSET Rows, x : Int]
  BY <1>1, <1>2, OverflowLeavesGoals
<1>4. Linked' /\ UNCHANGED <<row, w>>
  BY <1>2, SameListIsLinked DEF IInv, list
<1>5. CallTyped'
  BY <1>2, <1>3 DEF IInv, CallTyped
<1> QED BY <1>1, <1>2, <1>3, <1>4, <1>5
        DEF IInv, Awaited, WalkInRow, Walking, CallKnown, CellsKnown

\* One step along a row stays in it.
LEMMA LinkInRow ==
  ASSUME Linked, NEW n \in Nodes, row[n] # None, NEW d
  PROVE  Link(d, n) \in Nodes /\ row[Link(d, n)] # None
BY DEF Linked, RowsLinked, Link

LEMMA CountKeepsIInv ==
  ASSUME IInv, Count \/ CountRight
  PROVE  IInv'
<1>1. /\ pc = "count" /\ UNCHANGED <<list, node, ref, toRight, call, created, stored>>
      /\ at \in Nodes /\ row[at] # None /\ ref \in Nodes /\ row[ref] # None
      /\ node \in DOMAIN todo /\ row[node] = None
  BY DEF Count, CountRight, IInv, WalkInRow, Walking
<1>2. Linked' /\ UNCHANGED <<row, w, pc, job, todo, failed, was>>
  BY <1>1, SameListIsLinked DEF IInv, list, call
<1>3. at' \in Nodes /\ row[at'] # None
  BY <1>1, LinkInRow DEF Count, CountRight, IInv, Linked, RowsLinked
<1>4. over' \in Nat /\ lack' \in Nat /\ dir' \in {"HEAD", "TAIL"}
  <2>1. w[at] \in Nat /\ over \in Nat /\ lack \in Nat /\ node \in Nodes /\ w[node] \in Nat
        /\ dir \in {"HEAD", "TAIL"}
    BY <1>1 DEF IInv, CallTyped, Linked, Fields, Placed, Nodes
  <2>2. CASE Count
    BY <2>1, <2>2 DEF Count, Smaller
  <2>3. CASE CountRight
    BY <2>1, <2>3 DEF CountRight
  <2> QED BY <2>2, <2>3
<1>5. CallTyped'
  BY <1>1, <1>2, <1>3, <1>4 DEF IInv, CallTyped
<1> QED BY <1>1, <1>2, <1>3, <1>5
        DEF IInv, Awaited, WalkInRow, Walking, CallKnown, CellsKnown

LEMMA NoRoomKeepsIInv ==
  ASSUME IInv, NoRoom
  PROVE  IInv'
<1>1. /\ pc = "count" /\ node \in DOMAIN todo /\ row[node] = None
      /\ Overflow(node, row[ref]) /\ ClearWalk
      /\ UNCHANGED <<list, node, created, stored>>
  BY DEF NoRoom, Counted, IInv, WalkInRow, Walking
<1>2. /\ pc' = "next" /\ failed' \in BOOLEAN /\ UNCHANGED <<job, was>>
      /\ DOMAIN todo' \subseteq DOMAIN todo
      /\ \A k \in DOMAIN todo' : todo'[k] \in [rows : SUBSET Rows, x : Int]
  BY <1>1, OverflowLeavesGoals
<1>3. Linked' /\ UNCHANGED <<row, w>>
  BY <1>1, SameListIsLinked DEF IInv, list
<1>4. /\ ref' = None /\ at' = None /\ dir' = "HEAD"
      /\ over' = 0 /\ lack' = 0 /\ toRight' = 0
  BY <1>1 DEF ClearWalk
<1>5. CallTyped'
  BY <1>1, <1>2, <1>4 DEF IInv, CallTyped
<1> QED BY <1>1, <1>2, <1>3, <1>5
        DEF IInv, Awaited, WalkInRow, Walking, CallKnown, CellsKnown

\* There is room, and the node is linked in.
LEMMA LinkNodeKeepsIInv ==
  ASSUME IInv, LinkNode
  PROVE  IInv'
<1>1. /\ pc = "count" /\ node \in DOMAIN todo /\ row[node] = None
      /\ ref \in Nodes /\ row[ref] # None
  BY DEF LinkNode, Counted, IInv, WalkInRow, Walking
<1>2. /\ next' = [next EXCEPT ![ref] = node, ![node] = next[ref]]
      /\ prev' = [prev EXCEPT ![next[ref]] = node, ![node] = ref]
      /\ row' = [row EXCEPT ![node] = row[ref]]
      /\ dir' = "HEAD" /\ at' = ref /\ lack' = 0 /\ pc' = "shift"
      /\ UNCHANGED <<x, w, node, ref, job, todo, failed, was, created, stored>>
  BY DEF LinkNode
<1>3. node \in created \cup Obstacles /\ node \in Placed /\ node \in Nodes
  BY <1>1 DEF IInv, Awaited, CallTyped, Placed, Nodes
<1>4. w[node] \in Nat /\ w[node] > 0
  BY <1>3 DEF IInv, Linked, Fields, CellsKnown
<1>5. /\ Linked' /\ row'[node] # None
      /\ \A k \in Nodes \ {node} : row'[k] = row[k]
  BY <1>1, <1>2, <1>3, <1>4, LinkKeepsLinked DEF IInv
<1>6. over' \in Nat /\ toRight' \in Nat
  <2>1. over \in Nat /\ lack \in Nat
    BY DEF IInv, CallTyped
  <2>2. PICK k \in over .. w[node] - lack : over' = k /\ toRight' = w[node] - k
    BY DEF LinkNode
  <2> QED BY <1>4, <2>1, <2>2
<1>7. CallTyped'
  BY <1>1, <1>2, <1>6 DEF IInv, CallTyped
<1>8. \A k \in DOMAIN todo : k \in Nodes
  BY DEF IInv, CallTyped, Placed, Nodes
<1> QED BY <1>1, <1>2, <1>3, <1>5, <1>7, <1>8
        DEF IInv, Awaited, WalkInRow, Walking, CallKnown, CellsKnown

\* A step of the second walk that leaves all placed nodes in their rows.
LEMMA ShiftKeepsIInv ==
  ASSUME IInv, pc = "shift", Linked',
         UNCHANGED <<node, ref, lack, toRight, call, created, stored>>,
         at' \in Nodes, row'[at'] # None, over' \in Nat, dir' \in {"HEAD", "TAIL"},
         \A n \in Placed : row'[n] = row[n] /\ w'[n] = w[n]
  PROVE  IInv'
<1>1. UNCHANGED <<pc, job, todo, failed, was>>
  BY DEF call
<1>2. CallTyped'
  BY <1>1 DEF IInv, CallTyped
<1>3. \A k \in created \cup Obstacles \cup DOMAIN todo : k \in Placed
  BY DEF IInv, CallTyped, Placed
<1> QED BY <1>1, <1>2, <1>3
        DEF IInv, Awaited, WalkInRow, Walking, CallKnown, CellsKnown

LEMMA ShiftStepsKeepIInv ==
  ASSUME IInv, ShiftCell \/ ShrinkWhitespace \/ UseUpWhitespace \/ ShiftRight
  PROVE  IInv'
<1>1. /\ pc = "shift" /\ at \in Nodes /\ row[at] # None /\ row[node] # None
      /\ node \in Nodes /\ over \in Nat /\ toRight \in Nat /\ dir \in {"HEAD", "TAIL"}
      /\ w[at] \in Nat /\ x[at] \in Int
      /\ \A n \in Placed : n \in Nodes /\ n \notin Spaces
  BY JezzAssumption DEF ShiftCell, ShrinkWhitespace, UseUpWhitespace, ShiftRight, IInv,
     WalkInRow, Walking, CallTyped, Placed, Nodes, Linked, Fields
<1>2. CASE ShiftCell
  <2>1. /\ x' = [x EXCEPT ![at] = IF dir = "HEAD" THEN @ - over ELSE @ + over]
        /\ at' = Link(dir, at)
        /\ UNCHANGED <<prev, next, w, row, node, ref, dir, over, lack, toRight, call,
                       created, stored>>
    BY <1>2 DEF ShiftCell
  <2>2. Fields'
    BY <1>1, <2>1 DEF IInv, Linked, Fields
  <2>3. Linked'
    BY <2>1, <2>2 DEF IInv, Linked, RowsLinked, RowsOrdered
  <2>4. at' \in Nodes /\ row[at'] # None
    BY <1>1, <2>1, LinkInRow DEF IInv
  <2> QED BY <1>1, <2>1, <2>3, <2>4, ShiftKeepsIInv
<1>3. CASE ShrinkWhitespace
  <2>1. /\ at \in Spaces /\ w[at] > over
        /\ w' = [w EXCEPT ![at] = @ - over]
        /\ x' = [x EXCEPT ![at] = IF dir = "HEAD" THEN @ ELSE @ + over]
        /\ over' = 0
        /\ at' = Link(dir, at)
        /\ UNCHANGED <<prev, next, row, node, ref, dir, lack, toRight, call, created,
                       stored>>
    BY <1>3 DEF ShrinkWhitespace
  <2>2. w[at] - over \in Nat /\ w[at] - over > 0
    BY <1>1, <2>1
  <2>3. Fields'
    BY <1>1, <2>1, <2>2 DEF IInv, Linked, Fields
  <2>4. \A n \in Nodes : w'[n] = w[n] \/ w'[n] > 0
    BY <2>1, <2>2 DEF IInv, Linked, Fields
  <2>5. Linked'
    BY <2>1, <2>3, <2>4 DEF IInv, Linked, RowsLinked, RowsOrdered
  <2>6. at' \in Nodes /\ row[at'] # None
    BY <1>1, <2>1, LinkInRow DEF IInv
  <2>7. \A n \in Placed : w'[n] = w[n]
    BY <1>1, <2>1 DEF IInv, Linked, Fields
  <2> QED BY <1>1, <2>1, <2>5, <2>6, <2>7, ShiftKeepsIInv
<1>4. CASE UseUpWhitespace
  <2>1. /\ w[at] <= over /\ over' = over - w[at] /\ at' = Link(dir, at)
        /\ UNCHANGED <<node, ref, dir, lack, toRight, call, created, stored>>
    BY <1>4 DEF UseUpWhitespace
  <2>2. /\ Linked'
        /\ \A n \in Placed : row'[n] = row[n] /\ w'[n] = w[n]
        /\ at' \in Nodes /\ row'[at'] # None
    BY <1>1, <1>4, <2>1, UseUpKeepsLinked DEF IInv
  <2> QED BY <1>1, <2>1, <2>2, ShiftKeepsIInv
<1>5. CASE ShiftRight
  <2>1. /\ dir' = "TAIL" /\ at' = next[node] /\ over' = toRight
        /\ UNCHANGED <<list, node, ref, lack, toRight, call, created, stored>>
    BY <1>5 DEF ShiftRight
  <2>2. Linked' /\ UNCHANGED <<row, w>>
    BY <2>1, SameListIsLinked DEF IInv, list
  <2>3. at' \in Nodes /\ row[at'] # None
    BY <1>1, <2>1 DEF IInv, Linked, RowsLinked
  <2> QED BY <1>1, <2>1, <2>2, <2>3, ShiftKeepsIInv
<1> QED BY <1>2, <1>3, <1>4, <1>5

LEMMA SettleKeepsIInv ==
  ASSUME IInv, Settle
  PROVE  IInv'
<1>1. /\ pc = "shift" /\ node \in DOMAIN todo /\ row[node] # None /\ node \in Nodes
  BY DEF Settle, IInv, WalkInRow, Walking, CallTyped, Placed, Nodes
<1>2. /\ x' = [x EXCEPT ![node] = End(prev[node])]
      /\ todo' = Without(todo, node) /\ pc' = "next"
      /\ UNCHANGED <<prev, next, w, row, node, job, failed, was, created, stored>>
      /\ ref' = None /\ at' = None /\ dir' = "HEAD"
      /\ over' = 0 /\ lack' = 0 /\ toRight' = 0
  BY DEF Settle, ClearWalk
<1>3. End(prev[node]) \in Int
  BY <1>1 DEF IInv, Linked, Fields, RowsLinked, End
<1>4. Fields'
  BY <1>2, <1>3 DEF IInv, Linked, Fields
<1>5. Linked'
  BY <1>2, <1>4 DEF IInv, Linked, RowsLinked, RowsOrdered
<1>6. /\ DOMAIN todo' = DOMAIN todo \ {node}
      /\ \A k \in DOMAIN todo' : todo'[k] = todo[k]
                                /\ todo'[k] \in [rows : SUBSET Rows, x : Int]
  BY <1>1, <1>2, WithoutNode
<1>7. CallTyped'
  BY <1>2, <1>6 DEF IInv, CallTyped
<1> QED BY <1>1, <1>2, <1>5, <1>6, <1>7
        DEF IInv, Awaited, WalkInRow, Walking, CallKnown, CellsKnown

-----------------------------------------------------------------------------
(***************************************************************************)
(* The end of a call.                                                      *)
(***************************************************************************)

LEMMA RollbackKeepsIInv ==
  ASSUME IInv, Rollback
  PROVE  IInv'
<1> DEFINE goals == [n \in {node} |-> Goal({was[node].row}, was[node].x)]
<1>1. /\ pc = "next" /\ DOMAIN todo = {} /\ job \in Insertions /\ was[node].row # None
      /\ RemoveNode(node, w[node])
      /\ todo' = goals /\ job' = "rollback" /\ failed' = FALSE
      /\ UNCHANGED <<walk, pc, was, created, stored>>
  BY DEF Rollback, CallEnds
<1>2. node \in created
  BY <1>1 DEF IInv, CallKnown
<1>3. /\ Linked' /\ node \in Placed /\ row'[node] = None
      /\ \A n \in created \cup Obstacles : w'[n] > 0
  BY <1>1, <1>2, WidthOfCell, RemovalKeepsRows
<1>4. was[node].row \in Rows /\ was[node].x \in Int
  BY <1>1, <1>3 DEF IInv, CallKnown
<1>5. DOMAIN goals = {node} /\ goals[node] \in [rows : SUBSET Rows, x : Int]
  BY <1>4 DEF Goal
<1> HIDE DEF goals
<1>6. UNCHANGED <<node, ref, dir, at, over, lack, toRight>> /\ failed' \in BOOLEAN
  BY <1>1 DEF walk
<1>7. CallTyped'
  BY <1>1, <1>3, <1>5, <1>6 DEF IInv, CallTyped
<1> QED BY <1>1, <1>2, <1>3, <1>5, <1>6, <1>7
        DEF IInv, Awaited, WalkInRow, Walking, CallKnown, CellsKnown, Insertions

LEMMA ReturnKeepsIInv ==
  ASSUME IInv, Return
  PROVE  IInv'
<1>1. /\ pc = "next" /\ DOMAIN todo = {} /\ pc' = "idle" /\ job' = "none"
      /\ was' = <<>> /\ node' = None
      /\ UNCHANGED <<list, ref, dir, at, over, lack, toRight, todo, created, stored>>
  BY DEF Return, CallEnds
<1>2. failed' \in BOOLEAN
  BY DEF Return
<1>3. Linked' /\ UNCHANGED <<row, w>>
  BY <1>1, SameListIsLinked DEF IInv, list
<1>4. CallTyped'
  BY <1>1, <1>2 DEF IInv, CallTyped
<1> QED BY <1>1, <1>3, <1>4
        DEF IInv, Awaited, WalkInRow, Walking, CallKnown, CellsKnown, Insertions

-----------------------------------------------------------------------------

\* The invariant holds in every reachable state.
LEMMA NextKeepsIInv ==
  ASSUME ~EditsAfterStore, IInv, [Next]_vars
  PROVE  IInv'
<1>1. ASSUME NEW c \in Cells, NEW t \in Targets,
             \/ \E r \in Rows : Insert(c, {r}, t, "insert")
             \/ Insert(c, Rows, t, "insert")
             \/ Insert(c, Rows, t, "insertInSpace")
      PROVE  IInv'
  <2>1. "insert" \in Insertions /\ "insertInSpace" \in Insertions
    BY DEF Insertions
  <2>2. Rows \in SUBSET Rows /\ \A r \in Rows : {r} \in SUBSET Rows
    OBVIOUS
  <2> QED BY <1>1, <2>1, <2>2, InsertKeepsIInv
<1>2. ASSUME NEW c \in Cells,
             Remove(c) \/ \E k \in Widths[c] : Remap(c, k) \/ Create(c, k)
      PROVE  IInv'
  BY <1>2, EditsKeepIInv
<1>3. CASE Calls
  BY <1>1, <1>2, <1>3, StoreSolutionKeepsIInv, RestoreSolutionFullKeepsIInv,
     RestoreSolutionIncrementalKeepsIInv DEF Calls
<1>4. ASSUME NEW n \in Placed, NEW r \in Rows,
             Enclose(n, r) \/ Approach(n, r) \/ NoWhitespace(n, r)
      PROVE  IInv'
  BY <1>4, EncloseKeepsIInv, ApproachKeepsIInv, NoWhitespaceKeepsIInv
<1>5. CASE Steps
  BY <1>4, <1>5, CompareKeepsIInv, CompareEndsKeepsIInv, CountKeepsIInv, NoRoomKeepsIInv,
     LinkNodeKeepsIInv, ShiftStepsKeepIInv, SettleKeepsIInv, RollbackKeepsIInv,
     ReturnKeepsIInv DEF Steps
<1>6. CASE UNCHANGED vars
  <2>1. UNCHANGED <<list, node, ref, dir, at, over, lack, toRight, pc, job, todo, failed,
                   was, created, stored>>
    BY <1>6 DEF vars, walk, call
  <2>2. Linked' /\ UNCHANGED <<row, w>>
    BY <2>1, SameListIsLinked DEF IInv, list
  <2>3. CallTyped'
    BY <2>1 DEF IInv, CallTyped
  <2> QED BY <2>1, <2>2, <2>3
          DEF IInv, Awaited, WalkInRow, Walking, CallKnown, CellsKnown
<1> QED BY <1>3, <1>5, <1>6 DEF Next

-----------------------------------------------------------------------------
(***************************************************************************)
(* The order of the nodes of a row.                                        *)
(***************************************************************************)

Members(r) == {n \in Nodes \ Rows : row[n] = r}

\* The neighbours of a member of a row, of which one at most is the root.
LEMMA Neighbours ==
  ASSUME Linked, NEW r \in Rows, NEW n \in Members(r)
  PROVE  /\ n \in Nodes /\ n \notin Rows /\ row[n] = r /\ r \in Nodes /\ r # None
         /\ next[n] \in Nodes /\ row[next[n]] = r /\ prev[next[n]] = n
         /\ prev[n] \in Nodes /\ row[prev[n]] = r /\ next[prev[n]] = n
         /\ next[n] \notin Rows => next[n] \in Members(r)
         /\ prev[n] \notin Rows => prev[n] \in Members(r)
         /\ next[n] \in Rows => next[n] = r
         /\ prev[n] \in Rows => prev[n] = r
<1>1. n \in Nodes /\ n \notin Rows /\ row[n] = r /\ r \in Nodes /\ r # None
  BY JezzAssumption DEF Members, Nodes
<1>2. /\ next[n] \in Nodes /\ row[next[n]] = r /\ prev[next[n]] = n
      /\ prev[n] \in Nodes /\ row[prev[n]] = r /\ next[prev[n]] = n
      /\ \A q \in Rows : row[q] = q
  BY <1>1 DEF Linked, RowsLinked
<1> QED BY <1>1, <1>2 DEF Members

\* Numbers that grow along a row are least for the first node.
LEMMA FirstIsLeast ==
  ASSUME Linked, NEW f \in [Nodes -> Nat], Grows(f), NEW r \in Rows,
         NEW n \in Members(r)
  PROVE  next[r] \in Members(r) /\ f[next[r]] <= f[n]
<1> DEFINE S == {f[k] : k \in Members(r)}
<1>1. S \in SUBSET Nat /\ S # {}
  BY DEF Members
<1>2. PICK i \in S : \A j \in S : i <= j
  BY <1>1, HasLeast
<1>3. PICK m \in Members(r) : f[m] = i
  BY <1>2
<1>4. prev[m] \in Rows
  <2> SUFFICES ASSUME prev[m] \notin Rows PROVE FALSE
    OBVIOUS
  <2>1. prev[m] \in Members(r) /\ next[prev[m]] = m /\ m \in Nodes \ Rows
        /\ prev[m] \in Nodes /\ row[prev[m]] # None
    BY Neighbours
  <2>2. f[prev[m]] < f[m]
    BY <2>1 DEF Grows
  <2>3. i <= f[prev[m]]
    BY <1>2, <2>1
  <2> QED BY <1>3, <2>1, <2>2, <2>3
<1>5. next[r] = m
  BY <1>4, Neighbours
<1> QED BY <1>2, <1>3, <1>5

\* Where numbers grow along a row, none lies between those of two neighbours.
LEMMA Consecutive ==
  ASSUME Linked, NEW f \in [Nodes -> Nat], Grows(f), NEW r \in Rows,
         NEW m \in Members(r), NEW n \in Members(r), f[m] <= f[n], m # n
  PROVE  next[m] \notin Rows /\ f[next[m]] <= f[n]
<1> DEFINE Bad(k, j) == /\ k # j /\ f[k] <= f[j]
                        /\ next[k] \in Rows \/ f[j] < f[next[k]]
           S == {f[j] : j \in {i \in Members(r) : \E k \in Members(r) : Bad(k, i)}}
<1>1. \A k \in Members(r) : f[k] \in Nat /\ f[next[k]] \in Nat
  BY Neighbours
<1>2. ASSUME NEW k \in Members(r), NEW j \in Members(r), Bad(k, j)
      PROVE  f[j] \in S
  BY <1>2
<1>3. SUFFICES ASSUME NEW k \in Members(r), NEW j \in Members(r), Bad(k, j),
                      \A i \in S : f[j] <= i
               PROVE  FALSE
  <2>1. S \in SUBSET Nat
    BY <1>1
  <2>2. CASE S = {}
    <3>1. ~Bad(m, n)
      BY <1>2, <2>2
    <3> QED BY <1>1, <3>1
  <2>3. CASE S # {}
    <3>1. PICK i \in S : \A h \in S : i <= h
      BY <2>1, <2>3, HasLeast
    <3> QED BY <1>3, <3>1
  <2> QED BY <2>2, <2>3
<1> HIDE DEF S
<1>4. ASSUME NEW a \in Members(r), NEW b \in Members(r), f[b] < f[j]
      PROVE  ~Bad(a, b)
  BY <1>1, <1>2, <1>3, <1>4
<1> DEFINE p == prev[k]
           q == prev[j]
<1>5. /\ p \notin Rows => /\ p \in Members(r) /\ next[p] = k /\ f[p] < f[k]
                          /\ f[p] \in Nat
      /\ q \notin Rows => /\ q \in Members(r) /\ next[q] = j /\ f[q] < f[j]
                          /\ f[q] \in Nat
      /\ p \in Rows => k = next[r]
      /\ q \in Rows => j = next[r]
      /\ k \notin Rows /\ j \notin Rows
  BY Neighbours DEF Grows
<1>6. \A i \in Members(r) : f[next[r]] <= f[i]
  BY FirstIsLeast
<1>7. f[k] \in Nat /\ f[j] \in Nat /\ f[next[k]] \in Nat
  BY <1>1
<1>8. q \notin Rows
  <2> SUFFICES ASSUME q \in Rows PROVE FALSE
    OBVIOUS
  <2>1. j = next[r] /\ f[k] = f[j] /\ p \notin Rows
    BY <1>3, <1>5, <1>6, <1>7
  <2>2. f[p] < f[next[r]]
    BY <1>5, <2>1
  <2> QED BY <1>5, <1>6, <1>7, <2>1, <2>2
<1>9. q # k
  BY <1>3, <1>5, <1>7, <1>8
<1>10. f[q] < f[k]
  <2> SUFFICES ASSUME f[k] <= f[q] PROVE FALSE
    BY <1>5, <1>7, <1>8
  <2>1. Bad(k, q)
    BY <1>3, <1>5, <1>7, <1>8, <1>9
  <2> QED BY <1>4, <1>5, <1>8, <2>1
<1>11. f[k] = f[j]
  <2> SUFFICES ASSUME f[k] < f[j] PROVE FALSE
    BY <1>3, <1>7
  <2>1. Bad(q, k)
    BY <1>5, <1>7, <1>8, <1>9, <1>10
  <2> QED BY <1>4, <1>5, <1>8, <2>1
<1>12. p \notin Rows
  BY <1>5, <1>6, <1>7, <1>8, <1>10
<1>13. p # q
  BY <1>3, <1>5, <1>8, <1>12
<1>14. Bad(p, q) \/ Bad(q, p)
  BY <1>5, <1>7, <1>8, <1>11, <1>12, <1>13
<1> QED BY <1>4, <1>5, <1>7, <1>8, <1>11, <1>12, <1>14

\* Any two numberings that grow along a row agree on the order of its nodes.
LEMMA SameOrder ==
  ASSUME Linked, NEW f \in [Nodes -> Nat], Grows(f), NEW g \in [Nodes -> Int], Grows(g),
         NEW r \in Rows, NEW m \in Members(r), NEW n \in Members(r), f[m] < f[n]
  PROVE  g[m] < g[n]
<1> DEFINE T == {k \in Members(r) : f[k] < f[n] /\ ~(g[k] < g[n])}
           S == {f[n] - f[k] : k \in T}
<1>1. f[n] \in Nat /\ g[n] \in Int /\ \A k \in Members(r) : f[k] \in Nat /\ g[k] \in Int
  BY Neighbours
<1> SUFFICES ASSUME T # {} PROVE FALSE
  OBVIOUS
<1>2. S \in SUBSET Nat /\ S # {}
  BY <1>1
<1>3. PICK i \in S : \A j \in S : i <= j
  BY <1>2, HasLeast
<1>4. PICK k \in T : i = f[n] - f[k]
  BY <1>3
<1>5. /\ next[k] \notin Rows /\ f[next[k]] <= f[n]
      /\ next[k] \in Members(r) /\ f[k] < f[next[k]] /\ g[k] < g[next[k]]
  <2>1. k # n /\ f[k] <= f[n]
    BY <1>1, <1>4
  <2>2. next[k] \notin Rows /\ f[next[k]] <= f[n]
    BY <1>1, <2>1, Consecutive
  <2>3. k \in Nodes /\ row[k] # None /\ next[k] \in Members(r)
    BY <2>2, Neighbours
  <2> QED BY <2>2, <2>3 DEF Grows
<1>6. next[k] # n
  BY <1>1, <1>4, <1>5
<1>7. f[next[k]] < f[n]
  <2>1. CASE f[next[k]] = f[n]
    <3>1. next[n] \notin Rows /\ f[next[n]] <= f[next[k]] /\ n \in Nodes /\ row[n] # None
          /\ f[next[n]] \in Nat
      BY <1>1, <1>5, <1>6, <2>1, Consecutive, Neighbours
    <3>2. f[n] < f[next[n]]
      BY <3>1 DEF Grows
    <3> QED BY <1>1, <2>1, <3>1, <3>2
  <2> QED BY <1>1, <1>5, <2>1
<1>8. next[k] \in T
  BY <1>1, <1>4, <1>5, <1>7
<1>9. i <= f[n] - f[next[k]]
  BY <1>3, <1>8
<1> QED BY <1>1, <1>4, <1>5, <1>8, <1>9

-----------------------------------------------------------------------------
(***************************************************************************)
(* Rows without gap.                                                       *)
(***************************************************************************)

\* Where what follows a node starts: the root stands for the end of the row.
Start(n) == IF n \in Rows THEN Sites ELSE x[n]

\* The node ends where the next one starts.
Adjoins(n) == Start(next[n]) = End(n)

Gapless == \A n \in Nodes : row[n] # None => Adjoins(n)

\* Roots stand at 0 and take no site, a node in no row has no position, a cell
\* that is not created is in no row, and obstacles keep their width.
Grounded ==
  /\ \A r \in Rows : x[r] = 0 /\ w[r] = 0
  /\ \A n \in Nodes : row[n] = None => x[n] = 0
  /\ \A c \in Cells \ created : row[c] = None
  /\ \A o \in Obstacles : w[o] = Block[o].w

\* Where a member of a row starts and ends.
LEMMA MemberAdjoins ==
  ASSUME Linked, Grounded, Gapless, NEW r \in Rows, NEW n \in Members(r)
  PROVE  /\ x[n] \in Int /\ w[n] \in Nat \ {0} /\ End(n) = x[n] + w[n] /\ End(n) \in Int
         /\ x[n] < End(n)
         /\ next[n] \in Rows => End(n) = Sites
         /\ next[n] \notin Rows => x[next[n]] = End(n)
         /\ prev[n] \in Rows => x[n] = 0
         /\ prev[n] \notin Rows => x[n] = End(prev[n])
<1>1. /\ n \in Nodes /\ n \notin Rows /\ row[n] # None
      /\ prev[n] \in Nodes /\ row[prev[n]] # None /\ next[prev[n]] = n
  BY Neighbours
<1>2. /\ x[n] \in Int /\ w[n] \in Nat \ {0} /\ End(n) = x[n] + w[n]
  BY <1>1 DEF End, Linked, Fields, RowsLinked
<1>3. Adjoins(n) /\ Adjoins(prev[n])
  BY <1>1 DEF Gapless
<1>4. prev[n] \in Rows => End(prev[n]) = 0
  BY DEF Grounded, End
<1> QED BY <1>1, <1>2, <1>3, <1>4 DEF Adjoins, Start

LEMMA MembersFromZero ==
  ASSUME Linked, Grounded, Gapless, NEW r \in Rows, NEW n \in Members(r)
  PROVE  0 <= x[n]
<1>1. PICK f \in [Nodes -> Nat] : Grows(f)
  BY DEF Linked, RowsOrdered, Grows
<1> DEFINE T == {k \in Members(r) : x[k] < 0}
           S == {f[k] : k \in T}
<1> SUFFICES ASSUME T # {} PROVE FALSE
  BY MemberAdjoins
<1>2. S \in SUBSET Nat /\ S # {}
  BY DEF Members
<1>3. PICK i \in S : \A j \in S : i <= j
  BY <1>2, HasLeast
<1>4. PICK k \in T : f[k] = i
  BY <1>3
<1>5. prev[k] \notin Rows
  BY <1>4, MemberAdjoins
<1>6. /\ prev[k] \in Members(r) /\ next[prev[k]] = k /\ k \in Nodes \ Rows
      /\ prev[k] \in Nodes /\ row[prev[k]] # None
  BY <1>4, <1>5, Neighbours
<1>7. f[prev[k]] < f[k] /\ f[prev[k]] \in Nat /\ f[k] \in Nat
  <2> HIDE DEF T, S
  <2> QED BY <1>1, <1>6 DEF Grows
<1>8. x[prev[k]] < x[k] /\ x[prev[k]] \in Int /\ x[k] \in Int
  BY <1>4, <1>5, <1>6, MemberAdjoins
<1>9. f[prev[k]] \in S
  BY <1>4, <1>6, <1>8
<1> QED BY <1>3, <1>4, <1>7, <1>9

\* Numbers that grow along the rows: the positions, after the roots.
Rank == [n \in Nodes |-> IF n \in Rows \/ row[n] = None THEN 0 ELSE x[n] + 1]

LEMMA RankGrows ==
  ASSUME Linked, Grounded, Gapless
  PROVE  /\ Rank \in [Nodes -> Nat] /\ Grows(Rank)
         /\ \A r \in Rows : \A n \in Members(r) : Rank[n] = x[n] + 1
<1>1. ASSUME NEW n \in Nodes \ Rows, row[n] # None
      PROVE  row[n] \in Rows /\ n \in Members(row[n])
  BY <1>1 DEF Linked, Fields, Members
<1>2. ASSUME NEW n \in Nodes \ Rows, row[n] # None
      PROVE  x[n] \in Int /\ 0 <= x[n]
  BY <1>1, <1>2, MembersFromZero, MemberAdjoins
<1>3. Rank \in [Nodes -> Nat]
  BY <1>2 DEF Rank
<1>4. ASSUME NEW r \in Rows, NEW n \in Members(r)
      PROVE  Rank[n] = x[n] + 1 /\ n \notin Rows
  BY Neighbours DEF Rank
<1>5. ASSUME NEW n \in Nodes, row[n] # None, next[n] \notin Rows
      PROVE  Rank[n] < Rank[next[n]]
  <2>1. /\ next[n] \in Nodes /\ row[next[n]] = row[n]
    BY <1>5 DEF Linked, RowsLinked
  <2>2. next[n] \in Members(row[next[n]]) /\ row[next[n]] \in Rows
    BY <1>1, <1>5, <2>1
  <2>3. Rank[next[n]] = x[next[n]] + 1 /\ x[next[n]] \in Int /\ 0 <= x[next[n]]
    BY <1>2, <1>4, <1>5, <2>1, <2>2
  <2>4. CASE n \in Rows
    BY <2>3, <2>4 DEF Rank
  <2>5. CASE n \notin Rows
    <3>1. n \in Members(row[n]) /\ row[n] \in Rows
      BY <1>1, <1>5, <2>5
    <3>2. x[next[n]] = End(n) /\ x[n] < End(n) /\ x[n] \in Int /\ End(n) \in Int
      BY <1>5, <3>1, MemberAdjoins
    <3> QED BY <1>4, <2>3, <3>1, <3>2
  <2> QED BY <2>4, <2>5
<1> QED BY <1>3, <1>4, <1>5 DEF Grows

\* The nodes of a row cover its sites, and no site twice.
LEMMA Layout ==
  ASSUME Linked, Grounded, Gapless, NEW r \in Rows, NEW n \in Members(r)
  PROVE  /\ 0 <= x[n] /\ End(n) <= Sites
         /\ \A m \in Members(r) \ {n} : x[n] <= x[m] =>
              End(n) <= x[m] /\ next[n] \notin Rows
<1>1. ASSUME NEW k \in Members(r), NEW m \in Members(r) \ {k}, x[k] <= x[m]
      PROVE  End(k) <= x[m] /\ next[k] \notin Rows
  <2>1. /\ Rank[k] = x[k] + 1 /\ Rank[m] = x[m] + 1 /\ x[k] \in Int /\ x[m] \in Int
    BY RankGrows, MemberAdjoins
  <2>2. Rank[k] <= Rank[m]
    BY <1>1, <2>1
  <2>3. next[k] \notin Rows /\ Rank[next[k]] <= Rank[m]
    BY <2>2, RankGrows, Consecutive
  <2>4. next[k] \in Members(r)
    BY <2>3, Neighbours
  <2>5. Rank[next[k]] = x[next[k]] + 1 /\ x[next[k]] \in Int /\ x[next[k]] = End(k)
    BY <2>3, <2>4, RankGrows, MemberAdjoins
  <2> QED BY <2>1, <2>3, <2>5
<1>2. End(n) <= Sites
  <2>1. next[n] \notin Rows => x[next[n]] = End(n) /\ next[n] \in Members(r)
    BY Neighbours, MemberAdjoins
  <2>2. next[n] \in Rows => End(n) = Sites
    BY MemberAdjoins
  <2>3. prev[r] \in Members(r) /\ End(prev[r]) = Sites
    <3>1. r \in Nodes /\ row[r] = r /\ row[r] # None
      BY JezzAssumption DEF Linked, RowsLinked, Nodes
    <3>2. prev[r] \in Nodes /\ row[prev[r]] = r /\ next[prev[r]] = r
      BY <3>1 DEF Linked, RowsLinked
    <3>3. Adjoins(prev[r])
      BY <3>1, <3>2 DEF Gapless
    <3>4. End(prev[r]) = Sites
      BY <3>2, <3>3 DEF Adjoins, Start
    <3>5. prev[r] \notin Rows
      <4>1. prev[r] \in Rows => End(prev[r]) = 0
        BY DEF Grounded, End
      <4> QED BY <3>4, <4>1, JezzAssumption
    <3> QED BY <3>2, <3>4, <3>5 DEF Members
  <2>4. next[prev[r]] \in Rows
    BY <2>3, JezzAssumption DEF Linked, RowsLinked, Nodes
  <2>5. CASE n = prev[r]
    BY <2>3, <2>5, MemberAdjoins, JezzAssumption
  <2>6. CASE n # prev[r]
    <3>1. ~(x[prev[r]] <= x[n])
      BY <1>1, <2>3, <2>4, <2>6
    <3>2. x[n] <= x[prev[r]]
      BY <2>3, <3>1, MemberAdjoins
    <3>3. End(n) <= x[prev[r]]
      BY <1>1, <2>3, <2>6, <3>2
    <3>4. x[prev[r]] < End(prev[r])
      BY <2>3, MemberAdjoins
    <3> QED BY <2>3, <3>3, <3>4, MemberAdjoins, JezzAssumption
  <2> QED BY <2>5, <2>6
<1> QED BY <1>1, <1>2, MembersFromZero

\* Every site of a row is taken.
LEMMA SitesTaken ==
  ASSUME Linked, Grounded, Gapless, NEW r \in Rows, NEW t \in 0 .. Sites - 1
  PROVE  \E m \in Members(r) : x[m] <= t /\ t < End(m)
<1>1. t \in Nat /\ t < Sites /\ Sites \in Nat
  BY JezzAssumption
<1> DEFINE T == {m \in Members(r) : x[m] <= t}
           S == {t - x[m] : m \in T}
<1>2. next[r] \in Members(r) /\ x[next[r]] = 0
  <2>1. r \in Nodes /\ row[r] = r /\ row[r] # None
    BY JezzAssumption DEF Linked, RowsLinked, Nodes
  <2>2. next[r] \in Nodes /\ row[next[r]] = r /\ prev[next[r]] = r
    BY <2>1 DEF Linked, RowsLinked
  <2>3. Adjoins(r) /\ End(r) = 0
    BY <2>1 DEF Gapless, Grounded, End
  <2>4. next[r] \notin Rows
    BY <1>1, <2>3 DEF Adjoins, Start
  <2> QED BY <2>2, <2>3, <2>4 DEF Adjoins, Start, Members
<1>3. S \in SUBSET Nat /\ S # {}
  <2>1. next[r] \in T
    BY <1>1, <1>2
  <2>2. \A m \in T : t - x[m] \in Nat
    BY <1>1, MemberAdjoins
  <2> QED BY <2>1, <2>2
<1>4. PICK i \in S : \A j \in S : i <= j
  BY <1>3, HasLeast
<1>5. PICK m \in T : i = t - x[m]
  BY <1>4
<1>6. t < End(m)
  <2> SUFFICES ASSUME End(m) <= t PROVE FALSE
    BY <1>1, MemberAdjoins
  <2>1. next[m] \notin Rows
    BY <1>1, <1>5, MemberAdjoins
  <2>2. next[m] \in Members(r) /\ x[next[m]] = End(m) /\ x[m] < End(m)
        /\ x[m] \in Int /\ End(m) \in Int
    BY <2>1, Neighbours, MemberAdjoins
  <2>3. t - x[next[m]] \in S
    BY <2>2
  <2>4. i <= t - End(m) /\ i = t - x[m]
    BY <1>4, <1>5, <2>2, <2>3
  <2> HIDE DEF S, T
  <2> QED BY <1>1, <2>2, <2>4
<1> QED BY <1>5, <1>6

\* h gives nodes places in the rows that do not overlap.
Fits(h) ==
  \A m \in DOMAIN h : h[m].row # None =>
    /\ 0 <= h[m].x /\ h[m].x + w[m] <= Sites
    /\ \A n \in DOMAIN h \ {m} : h[n].row = h[m].row =>
         h[m].x + w[m] <= h[n].x \/ h[n].x + w[n] <= h[m].x

\* Where the nodes are.
Present == [n \in Placed |-> [row |-> row[n], x |-> x[n]]]

LEMMA PresentFits ==
  ASSUME Linked, Grounded, Gapless
  PROVE  Fits(Present)
<1>1. ASSUME NEW m \in Placed, row[m] # None
      PROVE  row[m] \in Rows /\ m \in Members(row[m])
  BY <1>1, JezzAssumption DEF Members, Placed, Nodes, Linked, Fields
<1>2. ASSUME NEW m \in Placed, row[m] # None
      PROVE  /\ 0 <= x[m] /\ x[m] + w[m] <= Sites
             /\ \A n \in Placed \ {m} : row[n] = row[m] =>
                  x[m] + w[m] <= x[n] \/ x[n] + w[n] <= x[m]
  <2>1. 0 <= x[m] /\ x[m] + w[m] <= Sites
    BY <1>1, <1>2, Layout, MemberAdjoins
  <2>2. ASSUME NEW n \in Placed \ {m}, row[n] = row[m]
        PROVE  x[m] + w[m] <= x[n] \/ x[n] + w[n] <= x[m]
    <3>1. n \in Members(row[m]) /\ m \in Members(row[m]) /\ row[m] \in Rows
      BY <1>1, <1>2, <2>2
    <3>2. CASE x[m] <= x[n]
      BY <3>1, <3>2, Layout, MemberAdjoins
    <3>3. CASE x[n] <= x[m]
      BY <3>1, <3>3, Layout, MemberAdjoins
    <3> QED BY <3>1, <3>2, <3>3, MemberAdjoins
  <2> QED BY <2>1, <2>2
<1> QED BY <1>2 DEF Fits, Present

\* A node whose place no other node takes is held by a whitespace.
LEMMA PlaceIsHeld ==
  ASSUME Linked, Grounded, Gapless, NEW n \in Placed, NEW r \in Rows,
         todo[n].x \in Int, w[n] \in Nat \ {0},
         0 <= todo[n].x, todo[n].x + w[n] <= Sites,
         \A m \in Placed : row[m] = r =>
           End(m) <= todo[n].x \/ todo[n].x + w[n] <= x[m]
  PROVE  References(n, r) # {} /\ \A m \in References(n, r) : Holds(m, n)
<1> DEFINE t == todo[n].x
<1>1. t \in 0 .. Sites - 1 /\ Sites \in Nat /\ t + w[n] \in Int
  BY JezzAssumption
<1>2. Overlapping(r, t) = {m \in Members(r) : x[m] <= t /\ t < End(m)}
  BY <1>1 DEF Overlapping, Members
<1>3. ASSUME NEW m \in Members(r), x[m] <= t, t < End(m)
      PROVE  Reference(m, t) = m /\ Holds(m, n)
  <2>1. /\ m \in Nodes /\ m \notin Rows /\ row[m] = r
        /\ x[m] \in Int /\ End(m) \in Int
    BY Neighbours, MemberAdjoins
  <2>2. m \notin Placed
    BY <1>1, <1>3, <2>1
  <2>3. m \in Spaces /\ m \notin Barriers
    BY <2>1, <2>2, JezzAssumption DEF Nodes, Placed, Barriers
  <2>4. t + w[n] <= End(m)
    <3>1. CASE next[m] \in Rows
      BY <3>1, MemberAdjoins
    <3>2. CASE next[m] \notin Rows
      <4>1. /\ next[m] \in Members(r) /\ next[m] \in Nodes /\ row[next[m]] = r
            /\ x[next[m]] = End(m) /\ next[m] \notin Spaces
        BY <2>1, <2>3, <3>2, Neighbours, MemberAdjoins DEF Linked, RowsLinked
      <4>2. next[m] \in Placed
        BY <3>2, <4>1 DEF Nodes, Placed
      <4>3. End(next[m]) \in Int /\ x[next[m]] < End(next[m])
        BY <4>1, MemberAdjoins
      <4>4. End(next[m]) <= t \/ t + w[n] <= x[next[m]]
        BY <4>1, <4>2
      <4> QED BY <1>1, <1>3, <2>1, <4>1, <4>3, <4>4
    <3> QED BY <3>1, <3>2
  <2> QED BY <1>3, <2>3, <2>4 DEF Reference, Holds
<1>4. \E m \in Members(r) : x[m] <= t /\ t < End(m)
  BY <1>1, SitesTaken
<1> HIDE DEF t
<1>5. References(n, r) = {m \in Members(r) : x[m] <= t /\ t < End(m)}
  BY <1>2, <1>3 DEF References, t
<1> QED BY <1>3, <1>4, <1>5

\* A node beside which nothing changes still ends where the next one starts.
LEMMA StillAdjoins ==
  ASSUME Linked, Gapless, NEW k \in Nodes, row[k] # None,
         next'[k] = next[k], x'[k] = x[k], w'[k] = w[k],
         next[k] \in Rows \/ x'[next[k]] = x[next[k]]
  PROVE  Adjoins(k)'
BY DEF Gapless, Adjoins, Start, End

\* The sites of a removed cell go to the whitespaces beside it, or to a new one.
LEMMA RemoveKeepsGapless ==
  ASSUME Linked, Grounded, Gapless, NEW c \in Cells, NEW nw \in Nat \ {0},
         RemoveNode(c, nw), UNCHANGED created
  PROVE  /\ Gapless' /\ Grounded'
         /\ \A k \in Placed \ {c} : x'[k] = x[k]
         /\ x'[c] = 0
<1>0. PICK p, n : p = prev[c] /\ n = next[c]
  OBVIOUS
<1>1. /\ c \in Nodes /\ c \notin Rows /\ c \notin Spaces /\ c \in Placed
      /\ c \notin Obstacles /\ Rows \subseteq Nodes
      /\ \A k \in Placed : k \in Nodes /\ k \notin Spaces /\ k \notin Rows
      /\ \A k \in Rows : k \notin Spaces /\ k # c
      /\ \A k \in Obstacles : k \notin Spaces /\ k # c /\ k \in Nodes
      /\ \A k \in Cells : k \notin Spaces /\ k \in Nodes
  BY JezzAssumption DEF Nodes, Placed
<1>2. Legalized(c) =>
        /\ p \in Nodes /\ row[p] = row[c] /\ next[p] = c /\ p # c
        /\ n \in Nodes /\ row[n] = row[c] /\ prev[n] = c /\ n # c
        /\ row[c] \in Rows /\ row[c] # None /\ w[c] \in Nat /\ w[c] > 0
        /\ row[p] # None /\ row[n] # None
  <2>1. PICK f \in [Nodes -> Nat] : Grows(f)
    BY DEF Linked, RowsOrdered, Grows
  <2> QED BY <1>0, <1>1, <2>1 DEF Grows, Linked, Fields, RowsLinked, Legalized
<1>3. \A k \in Nodes : row[k] # None => 
        /\ next[k] \in Nodes /\ row[next[k]] = row[k] /\ prev[next[k]] = k
        /\ k \in Spaces => next[k] \notin Spaces
  BY DEF Linked, RowsLinked
<1>4. /\ prev \in [Nodes -> Nodes \cup {None}] /\ next \in [Nodes -> Nodes \cup {None}]
      /\ row \in [Nodes -> Rows \cup {None}] /\ x \in [Nodes -> Int] /\ w \in [Nodes -> Nat]
  BY DEF Linked, Fields
<1>5. CASE ~Legalized(c)
  <2>1. w' = [w EXCEPT ![c] = nw] /\ UNCHANGED <<prev, next, x, row>> /\ row[c] = None
    BY <1>5 DEF RemoveNode, Legalized
  <2>2. Gapless'
    <3>1. ASSUME NEW k \in Nodes, row'[k] # None PROVE Adjoins(k)'
      BY <1>4, <2>1, <3>1, StillAdjoins
    <3> QED BY <3>1 DEF Gapless
  <2>3. Grounded'
    BY <1>1, <1>4, <2>1 DEF Grounded
  <2> QED BY <1>1, <2>1, <2>2, <2>3 DEF Grounded
<1>6. CASE Legalized(c) /\ p \in Spaces /\ n \in Spaces
  <2>0. PICK q : q = next[n]
    OBVIOUS
  <2>1. /\ w' = [w EXCEPT ![p] = @ + w[c] + w[n], ![n] = 0, ![c] = nw]
        /\ x' = [x EXCEPT ![n] = 0, ![c] = 0]
        /\ next' = [next EXCEPT ![p] = q, ![n] = None, ![c] = None]
        /\ row' = [row EXCEPT ![n] = None, ![c] = None]
    BY <1>0, <1>6, <2>0 DEF RemoveNode
  <2>2. /\ n # p /\ q \in Nodes /\ prev[q] = n /\ q # c /\ q # n /\ q \notin Spaces
    <3>1. PICK f \in [Nodes -> Nat] : Grows(f)
      BY DEF Linked, RowsOrdered, Grows
    <3>2. f[p] < f[c] /\ f[c] < f[n] /\ f[p] \in Nat /\ f[c] \in Nat /\ f[n] \in Nat
      BY <1>0, <1>1, <1>2, <1>6, <3>1 DEF Grows
    <3> QED BY <1>2, <1>3, <1>6, <2>0, <3>2
  <2>3. /\ next'[p] = q /\ x'[p] = x[p] /\ w'[p] = w[p] + w[c] + w[n]
        /\ x'[q] = x[q] /\ x'[c] = 0 /\ x'[n] = 0
        /\ row'[c] = None /\ row'[n] = None
        /\ \A k \in Nodes \ {n, c} : row'[k] = row[k] /\ x'[k] = x[k]
        /\ \A k \in Nodes \ {n, c, p} : next'[k] = next[k] /\ w'[k] = w[k]
    BY <1>1, <1>2, <1>4, <1>6, <2>1, <2>2
  <2>4. Adjoins(p)'
    <3>1. Adjoins(p) /\ Adjoins(c) /\ Adjoins(n)
      BY <1>1, <1>2, <1>6 DEF Gapless
    <3>2. x[c] = x[p] + w[p] /\ x[n] = x[c] + w[c] /\ Start(q) = x[n] + w[n]
      BY <1>0, <1>1, <1>2, <1>6, <2>0, <3>1, JezzAssumption DEF Adjoins, Start, End
    <3>3. (IF q \in Rows THEN Sites ELSE x'[q]) = Start(q)
      BY <2>3 DEF Start
    <3>4. x[p] \in Int /\ w[p] \in Nat /\ w[c] \in Nat /\ w[n] \in Nat /\ x[n] \in Int
          /\ x[c] \in Int
      BY <1>1, <1>2, <1>4, <1>6
    <3> QED BY <2>3, <3>2, <3>3, <3>4 DEF Adjoins, End, Start
  <2>5. Gapless'
    <3>1. ASSUME NEW k \in Nodes \ {p}, row'[k] # None PROVE Adjoins(k)'
      <4>1. k \notin {n, c, p} /\ row[k] # None /\ next[k] # n /\ next[k] # c
        BY <1>2, <1>3, <1>6, <2>3, <3>1
      <4> QED BY <1>3, <2>3, <4>1, StillAdjoins
    <3> QED BY <2>4, <3>1 DEF Gapless
  <2>6. Grounded'
    <3>1. \A r \in Rows : x'[r] = 0 /\ w'[r] = 0
      BY <1>1, <1>6, <2>3 DEF Grounded
    <3>2. \A k \in Nodes : row'[k] = None => x'[k] = 0
      BY <2>3 DEF Grounded
    <3>3. \A k \in Cells \ created : row'[k] = None
      BY <1>1, <1>6, <2>3 DEF Grounded
    <3>4. \A o \in Obstacles : w'[o] = Block[o].w
      BY <1>1, <1>6, <2>3 DEF Grounded
    <3> QED BY <3>1, <3>2, <3>3, <3>4 DEF Grounded
  <2> QED BY <1>1, <1>6, <2>3, <2>5, <2>6
<1>7. CASE Legalized(c) /\ p \in Spaces /\ n \notin Spaces
  <2>1. /\ w' = [w EXCEPT ![p] = @ + w[c], ![c] = nw]
        /\ x' = [x EXCEPT ![c] = 0]
        /\ next' = [next EXCEPT ![p] = n, ![c] = None]
        /\ row' = [row EXCEPT ![c] = None]
    BY <1>0, <1>7 DEF RemoveNode
  <2>3. /\ next'[p] = n /\ x'[p] = x[p] /\ w'[p] = w[p] + w[c]
        /\ x'[n] = x[n] /\ x'[c] = 0
        /\ row'[c] = None
        /\ \A k \in Nodes \ {c} : row'[k] = row[k] /\ x'[k] = x[k]
        /\ \A k \in Nodes \ {c, p} : next'[k] = next[k] /\ w'[k] = w[k]
    BY <1>1, <1>2, <1>4, <1>7, <2>1
  <2>4. Adjoins(p)'
    <3>1. Adjoins(p) /\ Adjoins(c)
      BY <1>1, <1>2, <1>7 DEF Gapless
    <3>2. x[c] = x[p] + w[p] /\ Start(n) = x[c] + w[c]
      BY <1>0, <1>1, <1>2, <1>7, <3>1 DEF Adjoins, Start, End
    <3>3. (IF n \in Rows THEN Sites ELSE x'[n]) = Start(n)
      BY <2>3 DEF Start
    <3>4. x[p] \in Int /\ w[p] \in Nat /\ w[c] \in Nat /\ x[c] \in Int
      BY <1>1, <1>2, <1>4, <1>7
    <3> QED BY <2>3, <3>2, <3>3, <3>4 DEF Adjoins, End, Start
  <2>5. Gapless'
    <3>1. ASSUME NEW k \in Nodes \ {p}, row'[k] # None PROVE Adjoins(k)'
      <4>1. k \notin {c, p} /\ row[k] # None /\ next[k] # c
        BY <1>2, <1>3, <1>7, <2>3, <3>1
      <4> QED BY <1>3, <2>3, <4>1, StillAdjoins
    <3> QED BY <2>4, <3>1 DEF Gapless
  <2>6. Grounded'
    <3> QED BY <1>1, <1>7, <2>3 DEF Grounded
  <2> QED BY <1>1, <1>7, <2>3, <2>5, <2>6
<1>8. CASE Legalized(c) /\ p \notin Spaces /\ n \in Spaces
  <2>1. /\ w' = [w EXCEPT ![n] = @ + w[c], ![c] = nw]
        /\ x' = [x EXCEPT ![n] = x[c], ![c] = 0]
        /\ next' = [next EXCEPT ![p] = n, ![c] = None]
        /\ row' = [row EXCEPT ![c] = None]
    BY <1>0, <1>8 DEF RemoveNode
  <2>2. n # p
    BY <1>8
  <2>3. /\ next'[p] = n /\ x'[n] = x[c] /\ w'[n] = w[n] + w[c]
        /\ x'[c] = 0 /\ row'[c] = None /\ next'[n] = next[n]
        /\ \A k \in Nodes \ {c} : row'[k] = row[k]
        /\ \A k \in Nodes \ {c, n} : x'[k] = x[k] /\ w'[k] = w[k]
        /\ \A k \in Nodes \ {c, p} : next'[k] = next[k]
    BY <1>1, <1>2, <1>4, <1>8, <2>1, <2>2
  <2>4. Adjoins(p)' /\ Adjoins(n)'
    <3>1. Adjoins(p) /\ Adjoins(c) /\ Adjoins(n)
      BY <1>1, <1>2, <1>8 DEF Gapless
    <3>2. x[c] = x[p] + w[p] /\ x[n] = x[c] + w[c] /\ Start(next[n]) = x[n] + w[n]
      BY <1>0, <1>1, <1>2, <1>8, <3>1 DEF Adjoins, Start, End
    <3>3. next[n] \in Nodes /\ next[n] # c /\ next[n] # n
      BY <1>2, <1>3, <1>8
    <3>4. (IF next[n] \in Rows THEN Sites ELSE x'[next[n]]) = Start(next[n])
      BY <2>3, <3>3 DEF Start
    <3>5. w[c] \in Nat /\ w[n] \in Nat /\ x[n] \in Int /\ x[c] \in Int
      BY <1>1, <1>2, <1>4, <1>8
    <3>6. x'[p] = x[p] /\ w'[p] = w[p]
      BY <1>2, <1>8, <2>2, <2>3
    <3>7. Adjoins(p)'
      BY <1>1, <1>8, <2>3, <3>2, <3>6 DEF Adjoins, End, Start
    <3>8. Adjoins(n)'
      BY <2>3, <3>2, <3>4, <3>5 DEF Adjoins, End, Start
    <3> QED BY <3>7, <3>8
  <2>5. Gapless'
    <3>1. ASSUME NEW k \in Nodes \ {p, n}, row'[k] # None PROVE Adjoins(k)'
      <4>1. k \notin {c, p, n} /\ row[k] # None /\ next[k] # c
        BY <1>2, <1>3, <1>8, <2>3, <3>1
      <4>2. next[k] # n
        BY <1>2, <1>3, <1>8, <4>1
      <4> QED BY <1>3, <2>3, <4>1, <4>2, StillAdjoins
    <3> QED BY <2>4, <3>1 DEF Gapless
  <2>6. Grounded'
    <3> QED BY <1>1, <1>2, <1>8, <2>3 DEF Grounded
  <2> QED BY <1>1, <1>8, <2>3, <2>5, <2>6
<1>9. CASE Legalized(c) /\ p \notin Spaces /\ n \notin Spaces
  <2>1. PICK s \in Free :
          /\ w' = [w EXCEPT ![s] = w[c], ![c] = nw]
          /\ x' = [x EXCEPT ![s] = x[c], ![c] = 0]
          /\ next' = [next EXCEPT ![p] = s, ![s] = n, ![c] = None]
          /\ row' = [row EXCEPT ![s] = row[c], ![c] = None]
    BY <1>0, <1>9 DEF RemoveNode
  <2>2. /\ s \in Nodes /\ s \in Spaces /\ row[s] = None /\ s \notin Rows /\ s # c
        /\ s # p /\ s # n
    BY <1>1, <1>9, JezzAssumption DEF Free, Nodes
  <2>3. /\ next'[p] = s /\ next'[s] = n /\ x'[s] = x[c] /\ w'[s] = w[c]
        /\ x'[c] = 0 /\ row'[c] = None /\ row'[s] = row[c]
        /\ \A k \in Nodes \ {c, s} : row'[k] = row[k] /\ x'[k] = x[k] /\ w'[k] = w[k]
        /\ \A k \in Nodes \ {c, s, p} : next'[k] = next[k]
    BY <1>1, <1>2, <1>4, <1>9, <2>1, <2>2
  <2>4. Adjoins(p)' /\ Adjoins(s)'
    <3>1. Adjoins(p) /\ Adjoins(c)
      BY <1>1, <1>2, <1>9 DEF Gapless
    <3>2. x[c] = x[p] + w[p] /\ Start(n) = x[c] + w[c]
      BY <1>0, <1>1, <1>2, <1>9, <3>1 DEF Adjoins, Start, End
    <3>3. x'[p] = x[p] /\ w'[p] = w[p] /\ x'[n] = x[n]
      BY <1>2, <1>9, <2>2, <2>3
    <3>4. Adjoins(p)'
      BY <2>2, <2>3, <3>2, <3>3 DEF Adjoins, End, Start
    <3>5. Adjoins(s)'
      BY <2>3, <3>2, <3>3 DEF Adjoins, End, Start
    <3> QED BY <3>4, <3>5
  <2>5. Gapless'
    <3>1. ASSUME NEW k \in Nodes \ {p, s}, row'[k] # None PROVE Adjoins(k)'
      <4>1. k \notin {c, p, s} /\ row[k] # None /\ next[k] # c /\ next[k] # s
        BY <1>2, <1>3, <1>9, <2>2, <2>3, <3>1
      <4> QED BY <1>3, <2>3, <4>1, StillAdjoins
    <3> QED BY <2>4, <3>1 DEF Gapless
  <2>6. Grounded'
    <3> QED BY <1>1, <1>2, <1>9, <2>2, <2>3 DEF Grounded
  <2> QED BY <1>1, <1>9, <2>2, <2>3, <2>5, <2>6
<1> QED BY <1>5, <1>6, <1>7, <1>8, <1>9

\* What is left of a whitespace covers the sites that its new node does not.
LEMMA SplitKeepsGapless ==
  ASSUME Linked, Grounded, Gapless, NEW n \in Placed, row[n] = None, w[n] > 0,
         NEW m \in Spaces, row[m] # None, NEW s \in Free, todo[n].x \in Int,
         Holds(m, n), SplitWhitespace(m, n, s), UNCHANGED created,
         n \in Obstacles \cup created
  PROVE  /\ Gapless' /\ Grounded'
         /\ \A k \in Placed \ {n} : x'[k] = x[k]
         /\ x'[n] = todo[n].x /\ row'[n] = row[m]
<1>0. PICK left, right, p, q :
        /\ left = todo[n].x - x[m] /\ right = End(m) - (todo[n].x + w[n])
        /\ p = prev[m] /\ q = next[m]
  OBVIOUS
<1> DEFINE after == IF right = 0 THEN q ELSE s
<1>1. /\ n \in Nodes /\ n \notin Rows /\ n \notin Spaces
      /\ m \in Nodes /\ m \notin Rows /\ m \notin Placed
      /\ s \in Nodes /\ s \notin Rows /\ s \notin Placed /\ s \in Spaces /\ row[s] = None
      /\ n # m /\ n # s /\ m # s
      /\ p \in Nodes /\ row[p] = row[m] /\ next[p] = m /\ p \notin Spaces
      /\ q \in Nodes /\ row[q] = row[m] /\ prev[q] = m /\ q \notin Spaces
      /\ p \notin {n, m, s} /\ q \notin {n, m, s}
      /\ row[m] \in Rows /\ row[m] # None
      /\ \A k \in Placed : k \in Nodes /\ k \notin Spaces
      /\ \A k \in Rows : k \in Nodes /\ k \notin Spaces /\ k # n
      /\ \A k \in Obstacles \cup Cells : k \in Placed
  BY <1>0, JezzAssumption DEF Linked, Fields, RowsLinked, Nodes, Placed, Free
<1>2. left \in Nat /\ right \in Nat
  BY <1>0, <1>1 DEF Linked, Fields, Holds, End
<1>3. /\ next' = [next EXCEPT ![p] = IF left = 0 THEN n ELSE m,
                              ![m] = IF left = 0 THEN None ELSE n,
                              ![s] = IF right = 0 THEN None ELSE q,
                              ![n] = after]
      /\ row' = [row EXCEPT ![n] = row[m],
                            ![s] = IF right = 0 THEN None ELSE row[m],
                            ![m] = IF left = 0 THEN None ELSE @]
      /\ w' = [w EXCEPT ![m] = left, ![s] = right]
      /\ x' = [x EXCEPT ![m] = IF left = 0 THEN 0 ELSE @,
                        ![s] = IF right = 0 THEN 0 ELSE todo[n].x + w[n],
                        ![n] = todo[n].x]
  BY <1>0 DEF SplitWhitespace
<1>4. /\ left = todo[n].x - x[m] /\ right = End(m) - (todo[n].x + w[n])
      /\ x[m] \in Int /\ w[m] \in Nat /\ w[n] \in Nat /\ End(m) = x[m] + w[m]
      /\ x[p] \in Int /\ w[p] \in Nat
  BY <1>0, <1>1 DEF Linked, Fields, End
<1>5. /\ Start(m) = End(p) /\ Start(q) = End(m) /\ Start(m) = x[m]
  BY <1>0, <1>1 DEF Gapless, Adjoins, Start
<1>6. /\ next'[n] = after /\ row'[n] = row[m] /\ w'[n] = w[n] /\ x'[n] = todo[n].x
      /\ next'[p] = (IF left = 0 THEN n ELSE m) /\ x'[p] = x[p] /\ w'[p] = w[p]
      /\ x'[q] = x[q]
      /\ row'[s] = (IF right = 0 THEN None ELSE row[m]) /\ w'[s] = right
      /\ right # 0 => next'[s] = q /\ x'[s] = todo[n].x + w[n]
      /\ right = 0 => x'[s] = 0
      /\ row'[m] = (IF left = 0 THEN None ELSE row[m]) /\ w'[m] = left
      /\ left # 0 => next'[m] = n /\ x'[m] = x[m]
      /\ left = 0 => x'[m] = 0
      /\ \A k \in Nodes \ {m, n, s} : row'[k] = row[k] /\ w'[k] = w[k] /\ x'[k] = x[k]
      /\ \A k \in Nodes \ {m, n, s, p} : next'[k] = next[k]
  <2>1. /\ next'[n] = after /\ next'[p] = (IF left = 0 THEN n ELSE m)
        /\ right # 0 => next'[s] = q
        /\ left # 0 => next'[m] = n
        /\ \A k \in Nodes \ {m, n, s, p} : next'[k] = next[k]
    BY <1>1, <1>3 DEF Linked, Fields
  <2>2. /\ row'[n] = row[m] /\ row'[s] = (IF right = 0 THEN None ELSE row[m])
        /\ row'[m] = (IF left = 0 THEN None ELSE row[m])
        /\ \A k \in Nodes \ {m, n, s} : row'[k] = row[k]
    BY <1>1, <1>3 DEF Linked, Fields
  <2>3. /\ w'[n] = w[n] /\ w'[s] = right /\ w'[m] = left
        /\ \A k \in Nodes \ {m, n, s} : w'[k] = w[k]
    BY <1>1, <1>3 DEF Linked, Fields
  <2>4. /\ x'[n] = todo[n].x
        /\ x'[s] = (IF right = 0 THEN 0 ELSE todo[n].x + w[n])
        /\ x'[m] = (IF left = 0 THEN 0 ELSE x[m])
        /\ \A k \in Nodes \ {m, n, s} : x'[k] = x[k]
    BY <1>1, <1>3 DEF Linked, Fields
  <2> QED BY <1>1, <2>1, <2>2, <2>3, <2>4
<1>7. ASSUME NEW k \in Nodes, row'[k] # None
      PROVE  Adjoins(k)'
  <2>1. CASE k = n
    <3>1. CASE right = 0
      BY <1>1, <1>4, <1>5, <1>6, <2>1, <3>1 DEF Adjoins, Start, End
    <3>2. CASE right # 0
      BY <1>1, <1>4, <1>5, <1>6, <2>1, <3>2 DEF Adjoins, Start, End
    <3> QED BY <3>1, <3>2
  <2>2. CASE k = m
    BY <1>1, <1>4, <1>6, <1>7, <2>2 DEF Adjoins, Start, End
  <2>3. CASE k = s
    <3>1. right # 0
      BY <1>6, <1>7, <2>3
    <3>2. next'[k] = q /\ x'[k] = todo[n].x + w[n] /\ w'[k] = right /\ x'[q] = x[q]
      BY <1>6, <2>3, <3>1
    <3>3. Start(q) = todo[n].x + w[n] + right
      BY <1>2, <1>4, <1>5
    <3> QED BY <3>2, <3>3 DEF Adjoins, Start, End
  <2>4. CASE k = p
    <3>1. x[m] = x[p] + w[p]
      BY <1>5 DEF End
    <3>2. CASE left = 0
      BY <1>1, <1>4, <1>6, <2>4, <3>1, <3>2 DEF Adjoins, Start, End
    <3>3. CASE left # 0
      BY <1>1, <1>4, <1>6, <2>4, <3>1, <3>3 DEF Adjoins, Start, End
    <3> QED BY <3>2, <3>3
  <2>5. CASE k \notin {m, n, s, p}
    <3>1. /\ row[k] # None /\ next'[k] = next[k] /\ x'[k] = x[k] /\ w'[k] = w[k]
      BY <1>6, <1>7, <2>5
    <3>2. next[k] \in Nodes \ {m, n, s}
      BY <1>0, <1>1, <2>5, <3>1 DEF Linked, RowsLinked
    <3>3. x'[next[k]] = x[next[k]]
      BY <1>6, <3>2
    <3> QED BY <3>1, <3>3, StillAdjoins
  <2> QED BY <2>1, <2>2, <2>3, <2>4, <2>5
<1>8. Gapless'
  BY <1>7 DEF Gapless
<1>9. \A k \in Placed \ {n} : x'[k] = x[k] /\ row'[k] = row[k] /\ w'[k] = w[k]
  BY <1>1, <1>6
<1>10. Grounded'
  <2>1. \A r \in Rows : x'[r] = 0 /\ w'[r] = 0
    BY <1>1, <1>6 DEF Grounded
  <2>2. ASSUME NEW k \in Nodes, row'[k] = None PROVE x'[k] = 0
    BY <1>1, <1>6, <2>2 DEF Grounded
  <2>3. \A c \in Cells \ created : row'[c] = None
    <3>1. \A c \in Cells \ created : c # n /\ c \in Placed
      BY <1>1, JezzAssumption
    <3> QED BY <1>9, <3>1 DEF Grounded
  <2>4. \A o \in Obstacles : w'[o] = Block[o].w
    BY <1>1, <1>6, <1>9 DEF Grounded
  <2> QED BY <2>1, <2>2, <2>3, <2>4 DEF Grounded
<1> QED BY <1>6, <1>8, <1>9, <1>10

\* No node is pushed to a position, and no root takes a site.
AtZero == (\A n \in Nodes : x[n] = 0) /\ (\A r \in Rows : w[r] = 0)

\* Empty rows, filled by their first whitespaces.
LEMMA EmptiedIsGapless == Emptied /\ AtZero => Gapless
<1> SUFFICES ASSUME Emptied, AtZero PROVE Gapless
  OBVIOUS
<1>1. Rows \subseteq Nodes /\ Spaces \subseteq Nodes /\ None \notin Nodes
      /\ Spaces \cap Rows = {} /\ Sites \in Nat
  BY JezzAssumption DEF Nodes
<1>2. ASSUME NEW n \in Nodes, row[n] # None
      PROVE  Adjoins(n)
  <2>1. CASE n \in Rows
    BY <1>1, <2>1, RowsHaveFillers DEF Emptied, AtZero, Adjoins, Start, End
  <2>2. CASE n \notin Rows
    BY <1>1, <1>2, <2>2, RowsHaveFillers DEF Emptied, AtZero, Adjoins, Start, End, InitWidth
  <2> QED BY <2>1, <2>2
<1> QED BY <1>2 DEF Gapless

-----------------------------------------------------------------------------
(***************************************************************************)
(* Where nodes are and where they go during a call.                        *)
(***************************************************************************)

\* Where the stored solution and the obstacles have nodes.
StoredHome ==
  [n \in Obstacles \cup DOMAIN stored |-> IF n \in Obstacles THEN Block[n] ELSE stored[n]]

\* The stored places do not overlap, and a cell stored in no row has none.
StoredFits ==
  /\ Fits(StoredHome)
  /\ \A c \in DOMAIN stored : stored[c].row = None => stored[c].x = 0

\* A stage of a call belongs to certain calls.
CallShape ==
  /\ pc = "idle" => job = "none" /\ DOMAIN todo = {} /\ node = None
  /\ pc = "compare" => job = "restore"
  /\ pc = "next" => job # "none"
  /\ Walking => job = "insert"

\* Obstacles stay at their place but while all nodes are inserted anew.
ObstaclesPut ==
  \A o \in Obstacles : IF o \in DOMAIN todo THEN job \in {"start", "restore"}
                       ELSE row[o] = Block[o].row /\ x[o] = Block[o].x

\* Where a call that brings nodes back brings them.
Home == IF job = "rollback" THEN was ELSE StoredHome

AtHome(n) == n \in DOMAIN Home /\ row[n] = Home[n].row /\ x[n] = Home[n].x

ToCompare(n) == pc = "compare" /\ n \in DOMAIN todo /\ todo[n].rows = {}

\* While nodes are brought back, all others in the rows are where they belong.
Returns ==
  job \in {"start", "restore", "rollback"} =>
    /\ pc \in {"next", "compare"} /\ ~failed
    /\ job = "rollback" => was \in [Placed -> [row : Rows \cup {None}, x : Int]]
                           /\ Fits(was)
    /\ \A n \in Placed : row[n] # None => ToCompare(n) \/ AtHome(n)
    /\ \A n \in DOMAIN todo :
         /\ n \in DOMAIN Home /\ todo[n].x = Home[n].x
         /\ ToCompare(n) \/ (Home[n].row # None /\ todo[n].rows = {Home[n].row})
    /\ \A n \in DOMAIN Home \ DOMAIN todo : row[n] = Home[n].row

\* The numbers g keep the order in which the others than c were.
KeepsOrder(c, g) ==
  \A m, n \in Placed \ {c} :
    row[m] # None /\ row[m] = row[n] /\ was[m].x < was[n].x => g[m] < g[n]

\* Cell c is the one that the insertion places.  Until others are pushed aside,
\* and when none is, they stay in place.
Moving(c) ==
  /\ DOMAIN todo \subseteq {c} /\ node \in {c, None}
  /\ node = c \/ DOMAIN todo = {c}
  /\ failed => DOMAIN todo = {}
  /\ Fits(was)
  /\ \A n \in Placed \ {c} : row[n] = was[n].row
  /\ \A o \in Obstacles : x[o] = was[o].x
  /\ pc # "shift" => KeepsOrder(c, x)
  /\ \/ pc # "shift" /\ DOMAIN todo # {}
     \/ failed
     \/ job = "insertInSpace"
     => \A n \in Placed \ {c} : row[n] # None => x[n] = was[n].x

Moves == job \in Insertions => \E c \in created : Moving(c)

Placing ==
  /\ Grounded /\ (pc # "shift" => Gapless)
  /\ StoredFits /\ CallShape /\ ObstaclesPut /\ Returns /\ Moves

Back == {"start", "restore", "rollback"}

\* A node belongs to a call that brings it back or to an insertion.
LEMMA Jobs ==
  /\ Back \cap Insertions = {} /\ "none" \notin Back \cup Insertions
  /\ "insert" \in Insertions /\ "insertInSpace" \in Insertions
  /\ "insert" # "insertInSpace"
  /\ \A j : j \in {"none", "start", "restore", "rollback"} \cup Insertions =>
       j = "none" \/ j \in Back \/ j \in Insertions
BY DEF Back, Insertions

LEMMA StoredFitsStays ==
  ASSUME StoredFits, UNCHANGED stored, \A n \in Obstacles \cup DOMAIN stored : w'[n] = w[n]
  PROVE  StoredFits'
<1>1. StoredHome' = StoredHome /\ DOMAIN StoredHome = Obstacles \cup DOMAIN stored
  BY DEF StoredHome
<1>2. Fits(StoredHome)'
  <2>1. \A m \in DOMAIN StoredHome : w'[m] = w[m]
    BY <1>1
  <2>2. Fits(StoredHome)
    BY DEF StoredFits
  <2> HIDE DEF StoredHome
  <2> QED BY <1>1, <2>1, <2>2 DEF Fits
<1> QED BY <1>2 DEF StoredFits

\* Nothing in the rows changes.
LEMMA SameListFits ==
  ASSUME Placing, UNCHANGED list, UNCHANGED <<created, stored>>
  PROVE  Grounded' /\ (Gapless => Gapless') /\ StoredFits'
<1>1. UNCHANGED <<prev, next, x, w, row>>
  BY DEF list
<1>2. Grounded'
  BY <1>1 DEF Placing, Grounded
<1>3. Gapless => Gapless'
  BY <1>1 DEF Gapless, Adjoins, Start, End
<1>4. StoredFits'
  BY <1>1, StoredFitsStays DEF Placing
<1> QED BY <1>2, <1>3, <1>4

\* A cell leaves its row.
LEMMA RemovalFits ==
  ASSUME IInv, Placing, pc # "shift", NEW c \in created, NEW nw \in Nat \ {0},
         RemoveNode(c, nw), UNCHANGED <<created, stored>>, nw = w[c] \/ stored = <<>>
  PROVE  /\ Grounded' /\ Gapless' /\ StoredFits'
         /\ c \in Placed /\ c \notin Obstacles
         /\ row'[c] = None /\ x'[c] = 0 /\ w'[c] = nw
         /\ \A k \in Placed \ {c} : row'[k] = row[k] /\ x'[k] = x[k] /\ w'[k] = w[k]
<1>1. c \in Cells /\ c \in Placed /\ c \notin Obstacles
  BY JezzAssumption DEF IInv, CallTyped, Placed
<1>2. Linked /\ Gapless /\ Grounded
  BY DEF IInv, Placing
<1>3. /\ Gapless' /\ Grounded' /\ x'[c] = 0
      /\ \A k \in Placed \ {c} : x'[k] = x[k]
  BY <1>1, <1>2, RemoveKeepsGapless
<1>4. /\ row'[c] = None /\ w'[c] = nw
      /\ \A k \in Placed \ {c} : row'[k] = row[k] /\ w'[k] = w[k]
  BY <1>1, <1>2, RemoveKeepsLinked
<1>5. \A n \in Obstacles \cup DOMAIN stored : w'[n] = w[n]
  <2>1. DOMAIN stored \subseteq created /\ created \subseteq Cells
    BY DEF IInv, CallTyped
  <2>2. stored = <<>> => DOMAIN stored = {}
    OBVIOUS
  <2> QED BY <1>1, <1>4, <2>1, <2>2 DEF Placed
<1>6. StoredFits'
  BY <1>5, StoredFitsStays DEF Placing
<1> QED BY <1>1, <1>3, <1>4, <1>6

\* What a call remembers when it begins.
LEMMA WasFits ==
  ASSUME Linked, Grounded, Gapless, was' = Present, \A n \in Placed : w'[n] = w[n]
  PROVE  Fits(was)'
<1>1. Fits(Present) /\ DOMAIN Present = Placed
  BY PresentFits DEF Present
<1> HIDE DEF Present
<1> QED BY <1>1 DEF Fits

-----------------------------------------------------------------------------
(***************************************************************************)
(* The calls.                                                              *)
(***************************************************************************)

LEMMA InitPlacing == Init => Placing
<1> SUFFICES ASSUME Init PROVE Placing
  OBVIOUS
<1>1. /\ row = [n \in Nodes |-> InitRow(n)] /\ x = [n \in Nodes |-> 0]
      /\ pc = "next" /\ job = "start" /\ failed = FALSE /\ stored = <<>>
      /\ DOMAIN stored = {}
      /\ todo = [o \in Obstacles |-> Goal({Block[o].row}, Block[o].x)]
  BY DEF Init
<1>2. PICK width \in [Cells -> UNION {Widths[c] : c \in Cells}] :
        /\ \A c \in Cells : width[c] \in Widths[c]
        /\ w = [n \in Nodes |-> IF n \in created THEN width[n]
                                ELSE IF n \in Obstacles THEN Block[n].w
                                ELSE InitWidth(n)]
  BY DEF Init
<1>3. /\ \A n \in Placed : n \in Nodes /\ row[n] = None
      /\ \A c \in Cells : c \in Placed /\ c \notin Obstacles /\ c \notin Rows
      /\ \A o \in Obstacles : o \in Placed
      /\ created \subseteq Cells
      /\ \A r \in Rows : r \in Nodes /\ r \notin Spaces /\ r \notin Cells
                         /\ r \notin Obstacles
      /\ Sites \in Nat
  BY <1>1, RowsHaveFillers, JezzAssumption DEF Init, Placed, Nodes
<1>4. /\ \A r \in Rows : w[r] = 0
      /\ \A o \in Obstacles : w[o] = Block[o].w
  <2>1. \A o \in Obstacles : o \in Nodes /\ o \notin created
    BY <1>3
  <2>2. \A r \in Rows : r \in Nodes /\ r \notin created /\ InitWidth(r) = 0
    BY <1>3 DEF InitWidth
  <2> QED BY <1>2, <1>3, <2>1, <2>2
<1>5. Emptied
  <2>1. \A n \in Spaces : n \in Nodes /\ n \notin created /\ n \notin Obstacles
    BY <1>3, JezzAssumption DEF Nodes
  <2>2. \A n \in Spaces : w[n] = InitWidth(n)
    BY <1>2, <2>1
  <2> QED BY <2>2, InitIInv DEF IInv, Linked, Fields, Init, Emptied
<1>6. Grounded
  BY <1>1, <1>3, <1>4 DEF Grounded
<1>7. Gapless
  BY <1>1, <1>4, <1>5, EmptiedIsGapless DEF AtZero
<1>8. StoredFits
  <2>1. DOMAIN StoredHome = Obstacles /\ \A o \in Obstacles : StoredHome[o] = Block[o]
    BY <1>1 DEF StoredHome
  <2>2. Fits(StoredHome)
    <3>1. ASSUME NEW m \in Obstacles
          PROVE  /\ 0 <= Block[m].x /\ Block[m].x + w[m] <= Sites
                 /\ \A n \in Obstacles \ {m} : Block[n].row = Block[m].row =>
                      Block[m].x + w[m] <= Block[n].x \/ Block[n].x + w[n] <= Block[m].x
      <4>1. Block[m].x \in Nat
        BY BlockAssumption
      <4> QED BY <1>4, <4>1, BlockAssumption
    <3> HIDE DEF StoredHome
    <3> QED BY <2>1, <3>1 DEF Fits
  <2> QED BY <1>1, <2>2 DEF StoredFits
<1>9. ObstaclesPut
  BY <1>1 DEF ObstaclesPut
<1>10. Returns
  <2>1. Home = StoredHome
    BY <1>1 DEF Home
  <2>2. DOMAIN Home = Obstacles /\ \A o \in Obstacles : Home[o] = Block[o]
    BY <1>1, <2>1 DEF StoredHome
  <2>3. \A o \in Obstacles : Block[o].row # None
    BY BlockAssumption, JezzAssumption DEF Nodes
  <2>4. DOMAIN todo = Obstacles /\ \A o \in Obstacles :
          todo[o].x = Block[o].x /\ todo[o].rows = {Block[o].row}
    BY <1>1 DEF Goal
  <2> HIDE DEF Home
  <2> QED BY <1>1, <1>3, <2>2, <2>3, <2>4 DEF Returns
<1>11. CallShape /\ Moves
  BY <1>1 DEF CallShape, Walking, Moves, Insertions
<1> QED BY <1>6, <1>7, <1>8, <1>9, <1>10, <1>11 DEF Placing

\* Between calls every obstacle is at its place.
LEMMA IdleObstacles ==
  ASSUME Placing, Idle
  PROVE  \A o \in Obstacles : row[o] = Block[o].row /\ x[o] = Block[o].x
BY DEF Placing, CallShape, ObstaclesPut, Idle

\* Edits between calls.
LEMMA EditPlaces ==
  ASSUME Placing, Idle, UNCHANGED <<walk, call>>, Grounded', Gapless', StoredFits',
         \A o \in Obstacles : row'[o] = row[o] /\ x'[o] = x[o]
  PROVE  Placing'
<1>1. UNCHANGED <<pc, job, todo, node>>
  BY DEF call, walk
<1>2. pc = "idle" /\ job = "none" /\ DOMAIN todo = {} /\ node = None
  BY DEF Idle, Placing, CallShape
<1>3. CallShape'
  BY <1>1, <1>2 DEF CallShape, Walking
<1>4. ObstaclesPut'
  BY <1>1, <1>2, IdleObstacles DEF ObstaclesPut
<1>5. Returns' /\ Moves'
  BY <1>1, <1>2, Jobs DEF Returns, Moves, Back
<1> QED BY <1>3, <1>4, <1>5 DEF Placing

LEMMA EditsPlace ==
  ASSUME IInv, Placing, ~EditsAfterStore, NEW c \in Cells,
         Remove(c) \/ \E k \in Widths[c] : Remap(c, k) \/ Create(c, k)
  PROVE  Placing'
<1>1. \A k \in Widths[c] : k \in Nat \ {0}
  BY JezzAssumption
<1>2. \A o \in Obstacles : o \in Placed /\ o # c
  BY JezzAssumption DEF Placed
<1>3. CASE Remove(c)
  <2>1. /\ c \in created /\ RemoveNode(c, w[c]) /\ Idle
        /\ UNCHANGED <<walk, call, created, stored>>
    BY <1>3 DEF Remove
  <2>2. w[c] \in Nat \ {0} /\ pc # "shift"
    BY <2>1, WidthOfCell DEF Idle
  <2>3. /\ Grounded' /\ Gapless' /\ StoredFits'
        /\ \A k \in Placed \ {c} : row'[k] = row[k] /\ x'[k] = x[k]
    BY <2>1, <2>2, RemovalFits
  <2> QED BY <1>2, <2>1, <2>3, EditPlaces
<1>4. ASSUME NEW k \in Widths[c], Remap(c, k)
      PROVE  Placing'
  <2>1. /\ c \in created /\ RemoveNode(c, k) /\ Idle /\ stored = <<>> /\ pc # "shift"
        /\ UNCHANGED <<walk, call, created, stored>>
    BY <1>4 DEF Remap, Idle
  <2>2. k \in Nat \ {0}
    BY <1>1
  <2>3. /\ Grounded' /\ Gapless' /\ StoredFits'
        /\ \A i \in Placed \ {c} : row'[i] = row[i] /\ x'[i] = x[i]
    BY <2>1, <2>2, RemovalFits
  <2> QED BY <1>2, <2>1, <2>3, EditPlaces
<1>5. ASSUME NEW k \in Widths[c], Create(c, k)
      PROVE  Placing'
  <2>1. /\ Idle /\ stored = <<>> /\ created' = created \cup {c} /\ c \notin created
        /\ w' = [w EXCEPT ![c] = k]
        /\ UNCHANGED <<prev, next, x, row, walk, call, stored>>
    BY <1>5 DEF Create
  <2>2. /\ c \in Nodes /\ c \notin Rows /\ \A o \in Obstacles : o \in Nodes /\ o # c
        /\ row[c] = None /\ w \in [Nodes -> Nat] /\ Rows \subseteq Nodes
    BY <2>1, JezzAssumption DEF Nodes, Placing, Grounded, IInv, Linked, Fields
  <2>3. Grounded'
    BY <2>1, <2>2 DEF Placing, Grounded
  <2>4. Gapless'
    <3>1. ASSUME NEW n \in Nodes, row'[n] # None
          PROVE  Adjoins(n)'
      <4>1. n # c /\ row[n] # None /\ w'[n] = w[n]
        BY <2>1, <2>2, <3>1
      <4> QED BY <2>1, <4>1 DEF Placing, Idle, Gapless, Adjoins, Start, End
    <3> QED BY <3>1 DEF Gapless
  <2>5. StoredFits'
    <3>1. DOMAIN stored = {}
      BY <2>1
    <3>2. \A n \in Obstacles : w'[n] = w[n]
      BY <2>1, <2>2
    <3> QED BY <2>1, <3>1, <3>2, StoredFitsStays DEF Placing
  <2> QED BY <2>1, <2>3, <2>4, <2>5, EditPlaces
<1> QED BY <1>3, <1>4, <1>5

LEMMA StoreSolutionPlaces ==
  ASSUME IInv, Placing, StoreSolution
  PROVE  Placing'
<1>1. /\ Idle /\ UNCHANGED <<list, walk, call, created>>
      /\ stored' = [c \in created |-> [row |-> row[c], x |-> x[c], w |-> w[c]]]
  BY DEF StoreSolution
<1>2. UNCHANGED <<prev, next, x, w, row>> /\ pc # "shift"
  BY <1>1 DEF list, Idle
<1>3. Grounded' /\ Gapless'
  BY <1>1, <1>2 DEF Placing, Grounded, Gapless, Adjoins, Start, End
<1>4. /\ \A c \in created : c \in Nodes /\ c \in Placed /\ c \notin Obstacles
      /\ \A o \in Obstacles : o \in Placed
  BY WidthOfCell, JezzAssumption DEF Placed
<1>5. StoredFits'
  <2>1. /\ DOMAIN StoredHome' = Obstacles \cup created
        /\ \A n \in Obstacles \cup created :
             StoredHome'[n].row = row[n] /\ StoredHome'[n].x = x[n]
    BY <1>1, <1>4, IdleObstacles DEF StoredHome
  <2>2. DOMAIN Present = Placed
        /\ \A n \in Placed : Present[n].row = row[n] /\ Present[n].x = x[n]
    BY DEF Present
  <2>3. Fits(Present)
    BY <1>2, PresentFits DEF IInv, Placing
  <2>4. Fits(StoredHome)'
    <3> HIDE DEF StoredHome, Present
    <3> QED BY <1>2, <1>4, <2>1, <2>2, <2>3 DEF Fits
  <2>5. \A c \in DOMAIN stored' : stored'[c].row = None => stored'[c].x = 0
    BY <1>1, <1>4 DEF Placing, Grounded
  <2> QED BY <2>4, <2>5 DEF StoredFits
<1> QED BY <1>1, <1>2, <1>3, <1>5, EditPlaces

\* An insertion begins.
LEMMA InsertPlaces ==
  ASSUME IInv, Placing, NEW c \in Cells, NEW rows \in SUBSET Rows, NEW t \in Targets,
         NEW j \in Insertions, Insert(c, rows, t, j)
  PROVE  Placing'
<1>1. /\ Idle /\ c \in created /\ RemoveNode(c, w[c])
      /\ Begin(j, "next", [n \in {c} |-> Goal(rows, t)])
      /\ UNCHANGED <<walk, created, stored>>
  BY DEF Insert
<1>2. /\ pc' = "next" /\ job' = j /\ DOMAIN todo' = {c} /\ failed' = FALSE
      /\ was' = Present /\ pc = "idle" /\ pc # "shift"
  BY <1>1 DEF Begin, Present, Idle
<1>3. w[c] \in Nat \ {0}
  BY <1>1, WidthOfCell
<1>4. /\ Grounded' /\ Gapless' /\ StoredFits' /\ c \in Placed /\ c \notin Obstacles
      /\ w'[c] = w[c]
      /\ \A k \in Placed \ {c} : row'[k] = row[k] /\ x'[k] = x[k] /\ w'[k] = w[k]
  BY <1>1, <1>2, <1>3, RemovalFits
<1>5. \A o \in Obstacles : o \in Placed \ {c}
  BY <1>4 DEF Placed
<1>6. node' = None
  BY <1>1, <1>2 DEF walk, Placing, CallShape
<1>7. Fits(was)'
  BY <1>2, <1>4, WasFits DEF IInv, Placing
<1>8. \A n \in Placed : was'[n].row = row[n] /\ was'[n].x = x[n]
  BY <1>2 DEF Present
<1>9. Moving(c)'
  BY <1>2, <1>4, <1>5, <1>6, <1>7, <1>8 DEF Moving, KeepsOrder
<1>10. Moves'
  BY <1>1, <1>9 DEF Moves
<1>11. ObstaclesPut'
  BY <1>1, <1>2, <1>4, <1>5, IdleObstacles DEF ObstaclesPut
<1>12. Returns' /\ CallShape'
  BY <1>2, Jobs DEF Returns, CallShape, Walking, Back
<1> QED BY <1>4, <1>10, <1>11, <1>12 DEF Placing

-----------------------------------------------------------------------------
(***************************************************************************)
(* Restoring a solution.                                                   *)
(***************************************************************************)

LEMMA HomeStays ==
  ASSUME UNCHANGED <<job, was, stored>>
  PROVE  Home' = Home
BY DEF Home, StoredHome

\* The places a restore brings nodes to.
LEMMA RestoreHome ==
  ASSUME job' = "restore", UNCHANGED stored
  PROVE  /\ DOMAIN Home' = Obstacles \cup DOMAIN stored
         /\ \A o \in Obstacles : Home'[o] = Block[o]
         /\ \A c \in DOMAIN stored \ Obstacles : Home'[c] = stored[c]
BY DEF Home, StoredHome

LEMMA RestoreSolutionFullPlaces ==
  ASSUME IInv, Placing, RestoreSolutionFull
  PROVE  Placing'
<1> DEFINE goals == [n \in {o \in Obstacles : Legalized(o)}
                          \cup {c \in DOMAIN stored : stored[c].row # None} |->
                       IF n \in Obstacles THEN Goal({row[n]}, x[n])
                       ELSE Goal({stored[n].row}, stored[n].x)]
<1>1. created \ DOMAIN stored = {} /\ DOMAIN stored = created /\ created \subseteq Cells
      /\ Idle
  BY DEF IInv, CallTyped, CellsKnown, RestoreSolutionFull
<1>2. /\ prev' = [n \in Nodes |-> Opposite(n)]
      /\ next' = [n \in Nodes |-> Opposite(n)]
      /\ row' = [n \in Nodes |-> IF n \in Placed THEN None ELSE InitRow(n)]
      /\ w' = [n \in Nodes |-> IF n \in Placed THEN w[n] ELSE InitWidth(n)]
      /\ x' = [n \in Nodes |-> 0]
      /\ Begin("restore", "next", goals)
      /\ UNCHANGED <<walk, created, stored>>
  BY <1>1 DEF RestoreSolutionFull
<1>3. /\ \A n \in Placed : n \in Nodes /\ n \notin Spaces
      /\ \A n \in Cells \cup Obstacles : n \in Placed
      /\ \A n \in Spaces : n \in Nodes /\ n \notin Placed
      /\ \A r \in Rows : r \in Nodes /\ r \notin Placed /\ r \notin Spaces
      /\ Sites \in Nat
      /\ \A c \in Cells : c \notin Obstacles
  BY JezzAssumption DEF Placed, Nodes
<1>4. Emptied'
  <2>1. row' = [n \in Nodes |-> InitRow(n)]
    BY <1>2, RowsHaveFillers
  <2>2. w' \in [Nodes -> Nat] /\ \A n \in Spaces : w'[n] = InitWidth(n)
    BY <1>2, <1>3 DEF InitWidth, IInv, Linked, Fields
  <2>3. x' \in [Nodes -> Int]
    BY <1>2
  <2> QED BY <1>2, <2>1, <2>2, <2>3 DEF Emptied
<1>5. AtZero'
  BY <1>2, <1>3 DEF AtZero, InitWidth
<1>6. Gapless'
  BY <1>4, <1>5, EmptiedIsGapless, PTL
<1>7. /\ \A n \in Placed : row'[n] = None /\ w'[n] = w[n]
      /\ pc' = "next" /\ job' = "restore" /\ failed' = FALSE /\ todo' = goals
  BY <1>2, <1>3 DEF Begin
<1>8. Grounded'
  BY <1>2, <1>3, <1>5, <1>7 DEF Placing, Grounded, AtZero
<1>9. StoredFits'
  BY <1>1, <1>2, <1>3, <1>7, StoredFitsStays DEF Placing
<1>10. \A o \in Obstacles : o \in DOMAIN goals /\ goals[o] = Goal({Block[o].row}, Block[o].x)
                            /\ Block[o].row # None
  <2>1. ASSUME NEW o \in Obstacles
        PROVE  row[o] = Block[o].row /\ x[o] = Block[o].x /\ Block[o].row \in Rows
    BY <1>1, IdleObstacles, BlockAssumption
  <2>2. \A o \in Obstacles : Legalized(o) /\ Block[o].row # None
    BY <2>1, JezzAssumption DEF Legalized, Nodes
  <2> QED BY <2>1, <2>2
<1>11. ObstaclesPut'
  BY <1>7, <1>10 DEF ObstaclesPut
<1>12. Returns'
  <2>1. /\ DOMAIN Home' = Obstacles \cup created
        /\ \A o \in Obstacles : Home'[o] = Block[o]
        /\ \A c \in created : Home'[c] = stored[c]
    BY <1>1, <1>2, <1>3, <1>7, RestoreHome
  <2>2. ASSUME NEW n \in DOMAIN goals
        PROVE  n \in DOMAIN Home' /\ goals[n].x = Home'[n].x
               /\ Home'[n].row # None /\ goals[n].rows = {Home'[n].row}
    <3>1. CASE n \in Obstacles
      BY <1>10, <2>1, <3>1 DEF Goal
    <3>2. CASE n \notin Obstacles
      BY <1>1, <2>1, <2>2, <3>2 DEF Goal
    <3> QED BY <3>1, <3>2
  <2>3. ASSUME NEW n \in DOMAIN Home', n \notin DOMAIN goals
        PROVE  row'[n] = Home'[n].row
    <3>1. n \in created /\ n \in Placed
      BY <1>1, <1>3, <1>10, <2>1, <2>3
    <3>2. stored[n].row = None
      BY <1>1, <2>3, <3>1
    <3> QED BY <1>7, <2>1, <3>1, <3>2
  <2> HIDE DEF goals, Home
  <2> QED BY <1>7, <2>2, <2>3 DEF Returns
<1>13. CallShape' /\ Moves'
  BY <1>7, Jobs DEF CallShape, Walking, Moves, Back
<1> QED BY <1>6, <1>8, <1>9, <1>11, <1>12, <1>13 DEF Placing

LEMMA RestoreSolutionIncrementalPlaces ==
  ASSUME IInv, Placing, RestoreSolutionIncremental
  PROVE  Placing'
<1> DEFINE goals == [c \in DOMAIN stored |-> Goal({}, stored[c].x)]
<1>1. /\ Idle /\ DOMAIN stored = created /\ created \subseteq Cells
      /\ Begin("restore", "compare", goals) /\ UNCHANGED <<list, walk, created, stored>>
  BY DEF IInv, CallTyped, CellsKnown, RestoreSolutionIncremental
<1>2. /\ pc' = "compare" /\ job' = "restore" /\ failed' = FALSE /\ todo' = goals
      /\ UNCHANGED <<row, x>> /\ pc # "shift"
  BY <1>1 DEF Begin, list, Idle
<1>3. Grounded' /\ Gapless' /\ StoredFits'
  BY <1>1, <1>2, SameListFits DEF Placing
<1>4. \A o \in Obstacles : o \notin DOMAIN goals /\ row[o] = Block[o].row /\ x[o] = Block[o].x
  BY <1>1, IdleObstacles, JezzAssumption
<1>5. ObstaclesPut'
  BY <1>2, <1>4 DEF ObstaclesPut
<1>6. Returns'
  <2>1. /\ DOMAIN Home' = Obstacles \cup created
        /\ \A o \in Obstacles : Home'[o] = Block[o]
        /\ \A c \in created \ Obstacles : Home'[c] = stored[c]
    BY <1>1, <1>2, RestoreHome
  <2>2. DOMAIN goals = created /\ \A c \in created : goals[c].rows = {} /\ goals[c].x = stored[c].x
    BY <1>1 DEF Goal
  <2>3. \A c \in created : c \notin Obstacles
    BY <1>1, JezzAssumption
  <2>4. \A n \in Placed : row[n] # None => n \in Obstacles \/ n \in created
    BY DEF Placing, Grounded, Placed
  <2> HIDE DEF goals, Home
  <2> QED BY <1>2, <1>4, <2>1, <2>2, <2>3, <2>4 DEF Returns, ToCompare, AtHome
<1>7. CallShape' /\ Moves'
  BY <1>2, Jobs DEF CallShape, Walking, Moves, Back
<1> QED BY <1>3, <1>5, <1>6, <1>7 DEF Placing

\* A cell that is where it was stored stays, another leaves its row.
LEMMA ComparePlaces ==
  ASSUME IInv, Placing, NEW c \in Cells, Compare(c)
  PROVE  Placing'
<1>1. /\ pc = "compare" /\ job = "restore" /\ c \in DOMAIN todo /\ todo[c].rows = {}
      /\ c \in DOMAIN stored /\ c \in created
      /\ UNCHANGED <<walk, pc, job, failed, was, created, stored>>
  BY DEF Compare, First, IInv, Awaited, CallTyped, Placing, CallShape
<1>2. /\ Home' = Home /\ c \in DOMAIN Home /\ Home[c] = stored[c]
      /\ c \notin Obstacles /\ c \in Placed
      /\ \A o \in Obstacles : o \in Placed \ {c}
  BY <1>1, HomeStays, JezzAssumption DEF Home, StoredHome, Placed
<1>3. CallShape' /\ Moves'
  BY <1>1, Jobs DEF Placing, CallShape, Walking, Moves, Back
<1>4. DOMAIN todo \subseteq Placed
  BY DEF IInv, CallTyped
<1> HIDE DEF Home
<1>5. Returns
  BY DEF Placing
<1>6. CASE x[c] = stored[c].x /\ row[c] = stored[c].row
           /\ todo' = Without(todo, c) /\ UNCHANGED list
  <2>1. UNCHANGED <<row, x>>
    BY <1>6 DEF list
  <2>2. Grounded' /\ Gapless' /\ StoredFits'
    BY <1>1, <1>6, SameListFits DEF Placing
  <2>3. /\ DOMAIN todo' = DOMAIN todo \ {c}
        /\ \A n \in DOMAIN todo' : todo'[n] = todo[n]
    BY <1>6 DEF Without
  <2>4. ObstaclesPut'
    BY <1>1, <1>2, <2>1, <2>3 DEF Placing, ObstaclesPut
  <2>5. Returns'
    BY <1>1, <1>2, <1>5, <1>6, <2>1, <2>3 DEF Returns, ToCompare, AtHome
  <2> QED BY <1>3, <2>2, <2>4, <2>5 DEF Placing
<1>7. CASE RemoveNode(c, w[c])
           /\ todo' = IF stored[c].row = None THEN Without(todo, c)
                      ELSE [todo EXCEPT ![c].rows = {stored[c].row}]
  <2>1. /\ Grounded' /\ Gapless' /\ StoredFits' /\ row'[c] = None
        /\ \A k \in Placed \ {c} : row'[k] = row[k] /\ x'[k] = x[k]
    BY <1>1, <1>7, WidthOfCell, RemovalFits
  <2>2. /\ \A n \in DOMAIN todo \ {c} : n \in DOMAIN todo' /\ todo'[n] = todo[n]
        /\ DOMAIN todo' \subseteq DOMAIN todo
        /\ c \in DOMAIN todo' <=> stored[c].row # None
        /\ c \in DOMAIN todo' => todo'[c].rows = {stored[c].row} /\ todo'[c].x = todo[c].x
    <3>1. todo[c] \in [rows : SUBSET Rows, x : Int]
      BY <1>1 DEF IInv, CallTyped
    <3>2. CASE stored[c].row = None
      BY <1>1, <1>7, <3>2 DEF Without
    <3>3. CASE stored[c].row # None
      BY <1>1, <1>7, <3>1, <3>3
    <3> QED BY <3>2, <3>3
  <2>3. ObstaclesPut'
    BY <1>1, <1>2, <2>1, <2>2 DEF Placing, ObstaclesPut
  <2>4. Returns'
    <3>1. \A n \in Placed : row'[n] # None => ToCompare(n)' \/ AtHome(n)'
      BY <1>1, <1>2, <1>5, <2>1, <2>2 DEF Returns, ToCompare, AtHome
    <3>2. \A n \in DOMAIN todo' :
            /\ n \in DOMAIN Home /\ todo'[n].x = Home[n].x
            /\ ToCompare(n)' \/ (Home[n].row # None /\ todo'[n].rows = {Home[n].row})
      BY <1>1, <1>2, <1>5, <2>2 DEF Returns, ToCompare
    <3>3. \A n \in DOMAIN Home \ DOMAIN todo' : row'[n] = Home[n].row
      <4>1. DOMAIN Home \subseteq Placed
        <5>1. DOMAIN stored \subseteq Placed
          BY DEF IInv, CallTyped, Placed
        <5> QED BY <1>1, <1>2, <5>1 DEF Home, StoredHome
      <4> QED BY <1>1, <1>2, <1>5, <2>1, <2>2, <4>1 DEF Returns
    <3> QED BY <1>1, <1>2, <1>5, <3>1, <3>2, <3>3 DEF Returns
  <2> QED BY <1>3, <2>1, <2>3, <2>4 DEF Placing
<1> QED BY <1>6, <1>7 DEF Compare

LEMMA CompareEndsPlaces ==
  ASSUME IInv, Placing, CompareEnds
  PROVE  Placing'
<1>1. /\ pc = "compare" /\ pc' = "next" /\ \A c \in DOMAIN todo : todo[c].rows # {}
      /\ UNCHANGED <<list, walk, job, todo, failed, was, created, stored>>
      /\ job = "restore"
  BY DEF CompareEnds, Placing, CallShape
<1>2. UNCHANGED <<row, x>>
  BY <1>1 DEF list
<1>3. Grounded' /\ Gapless' /\ StoredFits'
  BY <1>1, SameListFits DEF Placing
<1>4. ObstaclesPut'
  BY <1>1, <1>2 DEF Placing, ObstaclesPut
<1>5. Returns'
  <2>1. Home' = Home
    BY <1>1, HomeStays
  <2>2. Returns
    BY DEF Placing
  <2> HIDE DEF Home
  <2> QED BY <1>1, <1>2, <2>1, <2>2 DEF Returns, ToCompare, AtHome
<1>6. CallShape' /\ Moves'
  BY <1>1, Jobs DEF CallShape, Walking, Moves, Back
<1> QED BY <1>3, <1>4, <1>5, <1>6 DEF Placing

-----------------------------------------------------------------------------
(***************************************************************************)
(* The steps of an insertion.                                              *)
(***************************************************************************)

\* A node that is brought back finds a whitespace that holds it.
LEMMA ReturnIsHeld ==
  ASSUME IInv, Placing, job \in Back, NEW n \in Placed, NEW r \in Rows, Turn(n, r)
  PROVE  /\ References(n, r) # {} /\ \A m \in References(n, r) : Holds(m, n)
         /\ n \in DOMAIN Home /\ r = Home[n].row /\ todo[n].x = Home[n].x
<1>1. /\ pc = "next" /\ n \in DOMAIN todo /\ row[n] = None /\ r \in todo[n].rows
      /\ todo[n].x \in Int /\ w[n] \in Nat /\ w[n] > 0
  BY TurnIsAwaited DEF Turn
<1>2. Returns /\ StoredFits /\ Linked /\ Gapless /\ Grounded
  BY <1>1 DEF Placing, IInv
<1> HIDE DEF Home
<1>3. /\ n \in DOMAIN Home /\ todo[n].x = Home[n].x /\ Home[n].row # None
      /\ r = Home[n].row
      /\ \A m \in Placed : row[m] # None => AtHome(m)
  BY <1>1, <1>2 DEF Returns, Back, ToCompare
<1>4. Fits(Home)
  BY <1>2 DEF Returns, Back, StoredFits, Home
<1>5. 0 <= todo[n].x /\ todo[n].x + w[n] <= Sites
  BY <1>3, <1>4 DEF Fits
<1>6. ASSUME NEW m \in Placed, row[m] = r
      PROVE  End(m) <= todo[n].x \/ todo[n].x + w[n] <= x[m]
  <2>1. m # n /\ AtHome(m)
    BY <1>1, <1>3, <1>6
  <2>2. m \in DOMAIN Home /\ Home[m].row = Home[n].row /\ Home[m].x = x[m]
    BY <1>3, <1>6, <2>1 DEF AtHome
  <2> QED BY <1>3, <1>4, <2>1, <2>2 DEF Fits, End
<1>7. w[n] \in Nat \ {0}
  BY <1>1
<1> QED BY <1>1, <1>2, <1>3, <1>5, <1>6, <1>7, PlaceIsHeld

LEMMA WasStillFits ==
  ASSUME Fits(was), was' = was, was \in [Placed -> [row : Rows \cup {None}, x : Int]],
         \A n \in Placed : w'[n] = w[n]
  PROVE  Fits(was)'
<1>1. DOMAIN was = Placed
  OBVIOUS
<1> QED BY <1>1 DEF Fits

LEMMA EnclosePlaces ==
  ASSUME IInv, Placing, NEW n \in Placed, NEW r \in Rows, Enclose(n, r)
  PROVE  Placing'
<1>1. /\ pc = "next" /\ n \in DOMAIN todo /\ row[n] = None /\ todo[n].x \in Int
      /\ w[n] \in Nat /\ w[n] > 0 /\ Turn(n, r)
  BY TurnIsAwaited DEF Enclose
<1>2. PICK m \in References(n, r), s \in Free : Holds(m, n) /\ SplitWhitespace(m, n, s)
  BY DEF Enclose
<1>3. m \in Spaces /\ row[m] # None /\ row[m] = r
  BY <1>2, ReferencesInRow, JezzAssumption DEF Holds, IInv, Nodes
<1>4. /\ node' = n /\ UNCHANGED <<pc, job, failed, was, created, stored>>
      /\ todo' = Without(todo, n)
  BY DEF Enclose
<1>5. n \in Obstacles \cup created
  BY <1>1 DEF IInv, Awaited
<1>6. /\ Gapless' /\ Grounded'
      /\ \A k \in Placed \ {n} : x'[k] = x[k]
      /\ x'[n] = todo[n].x /\ row'[n] = r
  BY <1>1, <1>2, <1>3, <1>4, <1>5, SplitKeepsGapless DEF IInv, Placing
<1>7. /\ \A k \in Placed \ {n} : row'[k] = row[k]
      /\ \A k \in Placed : w'[k] = w[k]
  BY <1>1, <1>2, <1>3, SplitKeepsLinked DEF IInv
<1>8. /\ DOMAIN todo' = DOMAIN todo \ {n}
      /\ \A k \in DOMAIN todo' : todo'[k] = todo[k]
  BY <1>4 DEF Without
<1>9. /\ \A k \in Obstacles \cup DOMAIN stored : k \in Placed
      /\ Placing /\ r # None
  BY JezzAssumption DEF IInv, CallTyped, Placed, Nodes
<1>10. StoredFits'
  BY <1>4, <1>7, <1>9, StoredFitsStays DEF Placing
<1>11. CallShape'
  BY <1>1, <1>4 DEF Placing, CallShape, Walking
<1>12. job \in Back \/ job \in Insertions
  BY <1>1, Jobs DEF Placing, CallShape, IInv, CallTyped
<1>13. CASE job \in Back
  <2>1. n \in DOMAIN Home /\ r = Home[n].row /\ todo[n].x = Home[n].x
    BY <1>1, <1>13, ReturnIsHeld
  <2>2. Home' = Home /\ Returns
    BY <1>4, HomeStays DEF Placing
  <2>3. ObstaclesPut'
    <3>1. n \in Obstacles => Home[n] = Block[n]
      BY <1>1 DEF Placing, ObstaclesPut, Home, StoredHome
    <3>2. \A o \in Obstacles : o \in Placed
      BY DEF Placed
    <3> HIDE DEF Home
    <3> QED BY <1>4, <1>6, <1>7, <1>8, <2>1, <3>1, <3>2 DEF Placing, ObstaclesPut
  <2>4. Returns'
    <3>1. DOMAIN Home \subseteq Placed
      <4>1. job = "rollback" => DOMAIN was = Placed
        BY <2>2 DEF Returns
      <4> QED BY <1>9, <4>1 DEF Home, StoredHome
    <3> HIDE DEF Home
    <3>2. \A k \in Placed : row'[k] # None => AtHome(k)'
      BY <1>1, <1>6, <1>7, <1>13, <2>1, <2>2 DEF Returns, Back, ToCompare, AtHome
    <3>3. \A k \in DOMAIN todo' :
            /\ k \in DOMAIN Home /\ todo'[k].x = Home[k].x
            /\ Home[k].row # None /\ todo'[k].rows = {Home[k].row}
      BY <1>1, <1>8, <1>13, <2>2 DEF Returns, Back, ToCompare
    <3>4. \A k \in DOMAIN Home \ DOMAIN todo' : row'[k] = Home[k].row
      BY <1>6, <1>7, <1>8, <1>13, <2>1, <2>2, <3>1 DEF Returns, Back
    <3>5. job = "rollback" => was \in [Placed -> [row : Rows \cup {None}, x : Int]]
                              /\ Fits(was)'
      BY <1>4, <1>7, <2>2, WasStillFits DEF Returns
    <3> QED BY <1>1, <1>4, <1>13, <2>2, <3>2, <3>3, <3>4, <3>5 DEF Returns, Back
  <2>5. Moves'
    BY <1>4, <1>13, Jobs DEF Moves
  <2> QED BY <1>6, <1>10, <1>11, <2>3, <2>4, <2>5 DEF Placing
<1>14. CASE job \in Insertions
  <2>1. PICK c \in created : Moving(c)
    BY <1>14 DEF Placing, Moves
  <2>2. /\ n = c /\ DOMAIN todo' = {} /\ c \notin Obstacles
        /\ \A o \in Obstacles : o \in Placed \ {n}
        /\ was \in [Placed -> [row : Rows \cup {None}, x : Int]]
    BY <1>1, <1>8, <1>14, <2>1, JezzAssumption
    DEF Moving, IInv, CallTyped, CallKnown, Placed
  <2>3. ObstaclesPut'
    BY <1>4, <1>6, <1>7, <1>8, <2>2 DEF Placing, ObstaclesPut
  <2>4. Moving(c)'
    <3>1. Fits(was)'
      BY <1>4, <1>7, <2>1, <2>2, WasStillFits DEF Moving
    <3>2. KeepsOrder(c, x)'
      BY <1>1, <1>4, <1>6, <1>7, <2>1, <2>2 DEF Moving, KeepsOrder
    <3> QED BY <1>1, <1>4, <1>6, <1>7, <2>1, <2>2, <3>1, <3>2 DEF Moving
  <2>5. Moves' /\ Returns'
    BY <1>4, <1>14, <2>4, Jobs DEF Moves, Returns, Back
  <2> QED BY <1>6, <1>10, <1>11, <2>3, <2>5 DEF Placing
<1> QED BY <1>12, <1>13, <1>14

\* An insertion goes on, and nothing in the rows changes.
LEMMA InsertionPlaces ==
  ASSUME IInv, Placing, job \in Insertions, pc \in {"next", "count"}, DOMAIN todo # {},
         UNCHANGED <<list, was, job, created, stored>>,
         pc' \in {"next", "count"}, pc' = "count" => job = "insert",
         DOMAIN todo' \subseteq DOMAIN todo, node' \in DOMAIN todo,
         failed' = failed \/ DOMAIN todo' = {}
  PROVE  Placing'
<1>1. PICK c \in created : Moving(c)
  BY DEF Placing, Moves
<1>2. /\ UNCHANGED <<row, x, w>> /\ pc # "shift" /\ ~failed /\ node' = c
      /\ DOMAIN todo = {c} /\ c \in Placed /\ c \notin Obstacles /\ c # None
      /\ was \in [Placed -> [row : Rows \cup {None}, x : Int]]
  <2>1. UNCHANGED <<row, x, w>> /\ pc # "shift"
    BY DEF list
  <2>2. c \in Cells /\ was \in [Placed -> [row : Rows \cup {None}, x : Int]]
    BY DEF IInv, CallTyped, CallKnown
  <2>3. c \in Placed /\ c \notin Obstacles /\ c # None
    BY <2>2, JezzAssumption DEF Placed, Nodes
  <2>4. DOMAIN todo = {c}
    BY <1>1 DEF Moving
  <2>5. node' = c
    BY <2>4
  <2>6. ~failed
    BY <1>1 DEF Moving
  <2> QED BY <2>1, <2>2, <2>3, <2>4, <2>5, <2>6
<1>3. Grounded' /\ Gapless' /\ StoredFits'
  BY <1>2, SameListFits DEF Placing
<1>4. ObstaclesPut'
  BY <1>2 DEF Placing, ObstaclesPut
<1>5. Moving(c)'
  <2>1. Fits(was)'
    BY <1>1, <1>2, WasStillFits DEF Moving
  <2>2. KeepsOrder(c, x)'
    BY <1>1, <1>2 DEF Moving, KeepsOrder
  <2> QED BY <1>1, <1>2, <2>1, <2>2 DEF Moving
<1>6. Moves' /\ Returns' /\ CallShape'
  BY <1>1, <1>5, Jobs DEF Moves, Returns, CallShape, Walking, Back
<1> QED BY <1>3, <1>4, <1>6 DEF Placing

\* A call that brings nodes back pushes none aside and finds room.
LEMMA ApproachPlaces ==
  ASSUME IInv, Placing, NEW n \in Placed, NEW r \in Rows, Approach(n, r)
  PROVE  Placing' /\ job \in Insertions
<1>1. /\ pc = "next" /\ Turn(n, r) /\ n \in DOMAIN todo
  BY TurnIsAwaited DEF Approach
<1>2. job \in Insertions
  BY <1>1, ReturnIsHeld, Jobs DEF Approach, Placing, CallShape, IInv, CallTyped
<1>3. job = "insert"
  BY <1>2 DEF Approach, Insertions
<1>4. /\ node' = n /\ pc' = "count"
      /\ UNCHANGED <<list, job, todo, failed, was, created, stored>>
  BY DEF Approach
<1> QED BY <1>1, <1>2, <1>3, <1>4, InsertionPlaces

LEMMA NoWhitespacePlaces ==
  ASSUME IInv, Placing, NEW n \in Placed, NEW r \in Rows, NoWhitespace(n, r)
  PROVE  Placing'
<1>1. /\ pc = "next" /\ Turn(n, r) /\ n \in DOMAIN todo
  BY TurnIsAwaited DEF NoWhitespace
<1>2. job \in Insertions
  BY <1>1, ReturnIsHeld, Jobs DEF NoWhitespace, Placing, CallShape, IInv, CallTyped
<1>3. /\ node' = n /\ Overflow(n, r)
      /\ UNCHANGED <<list, created, stored>>
  BY DEF NoWhitespace
<1>4. PICK c \in created : Moving(c)
  BY <1>2 DEF Placing, Moves
<1>5. DOMAIN todo = {n}
  BY <1>1, <1>4 DEF Moving
<1>6. /\ DOMAIN todo' \subseteq DOMAIN todo /\ pc' = "next" /\ UNCHANGED <<job, was>>
      /\ failed' = failed \/ DOMAIN todo' = {}
  BY <1>1, <1>3, <1>5 DEF Overflow, Without
<1> QED BY <1>1, <1>2, <1>3, <1>6, InsertionPlaces

\* The node that is inserted while others are counted or pushed.
LEMMA WalkMoves ==
  ASSUME IInv, Placing, Walking
  PROVE  /\ job = "insert" /\ node \in created /\ node \in Placed /\ node \notin Obstacles
         /\ DOMAIN todo = {node} /\ Moving(node) /\ ~failed
         /\ was \in [Placed -> [row : Rows \cup {None}, x : Int]]
         /\ w[node] \in Nat \ {0} /\ node \in Nodes \ Rows /\ node \notin Spaces
<1>1. job = "insert" /\ job \in Insertions /\ node \in DOMAIN todo
  BY DEF Placing, CallShape, Insertions, IInv, WalkInRow
<1>2. PICK c \in created : Moving(c)
  BY <1>1 DEF Placing, Moves
<1>3. c = node /\ DOMAIN todo = {node} /\ failed \in BOOLEAN
  BY <1>1, <1>2 DEF Moving, IInv, CallTyped
<1>4. /\ node \in Cells /\ node \in Placed /\ node \notin Obstacles
      /\ node \in Nodes \ Rows /\ node \notin Spaces
  BY <1>2, <1>3, JezzAssumption DEF IInv, CallTyped, Placed, Nodes
<1>5. w[node] \in Nat \ {0}
  BY <1>2, <1>3, WidthOfCell
<1>6. ~failed
  BY <1>2, <1>3 DEF Moving
<1> QED BY <1>1, <1>2, <1>3, <1>4, <1>5, <1>6 DEF IInv, CallKnown

LEMMA CountPlaces ==
  ASSUME IInv, Placing, Count \/ CountRight
  PROVE  Placing'
<1>1. /\ pc = "count" /\ Walking /\ UNCHANGED <<list, node, call, created, stored>>
  BY DEF Count, CountRight, Walking
<1>2. UNCHANGED <<pc, job, todo, failed, was>>
  BY <1>1 DEF call
<1>3. job = "insert" /\ job \in Insertions /\ DOMAIN todo = {node}
  BY <1>1, WalkMoves, Jobs
<1> QED BY <1>1, <1>2, <1>3, InsertionPlaces

LEMMA NoRoomPlaces ==
  ASSUME IInv, Placing, NoRoom
  PROVE  Placing'
<1>1. /\ pc = "count" /\ Walking /\ UNCHANGED <<list, node, created, stored>>
      /\ Overflow(node, row[ref])
  BY DEF NoRoom, Counted, Walking
<1>2. job = "insert" /\ job \in Insertions /\ DOMAIN todo = {node}
  BY <1>1, WalkMoves, Jobs
<1>3. /\ DOMAIN todo' \subseteq DOMAIN todo /\ pc' = "next" /\ UNCHANGED <<job, was>>
      /\ failed' = failed \/ DOMAIN todo' = {}
  BY <1>1, <1>2 DEF Overflow, Without
<1> QED BY <1>1, <1>2, <1>3, InsertionPlaces

\* The others are in place when a move is given up, and the cell goes back.
LEMMA RollbackPlaces ==
  ASSUME IInv, Placing, Rollback
  PROVE  Placing'
<1> DEFINE goals == [n \in {node} |-> Goal({was[node].row}, was[node].x)]
<1>1. /\ pc = "next" /\ DOMAIN todo = {} /\ job \in Insertions /\ was[node].row # None
      /\ failed \/ job = "insertInSpace"
      /\ RemoveNode(node, w[node])
      /\ todo' = goals /\ job' = "rollback" /\ failed' = FALSE
      /\ UNCHANGED <<walk, pc, was, created, stored>>
  BY DEF Rollback, CallEnds
<1>2. PICK c \in created : Moving(c)
  BY <1>1 DEF Placing, Moves
<1>3. /\ node = c /\ w[node] \in Nat \ {0}
      /\ was \in [Placed -> [row : Rows \cup {None}, x : Int]]
  <2>1. node = c
    BY <1>1, <1>2 DEF Moving
  <2>2. w[c] \in Nat \ {0}
    BY WidthOfCell
  <2> QED BY <1>1, <2>1, <2>2 DEF IInv, CallKnown
<1>4. /\ Grounded' /\ Gapless' /\ StoredFits' /\ node \in Placed /\ node \notin Obstacles
      /\ row'[node] = None /\ w'[node] = w[node]
      /\ \A k \in Placed \ {node} : row'[k] = row[k] /\ x'[k] = x[k] /\ w'[k] = w[k]
  BY <1>1, <1>3, RemovalFits
<1>5. \A k \in Placed \ {node} : /\ row'[k] = was[k].row
                                 /\ row'[k] # None => x'[k] = was[k].x
  BY <1>1, <1>2, <1>3, <1>4 DEF Moving
<1>6. DOMAIN goals = {node} /\ goals[node].rows = {was[node].row}
      /\ goals[node].x = was[node].x
  BY DEF Goal
<1> HIDE DEF goals
<1>7. ObstaclesPut'
  <2>1. \A o \in Obstacles : o \in Placed \ {node}
    BY <1>4 DEF Placed
  <2> QED BY <1>1, <1>4, <1>6, <2>1 DEF Placing, ObstaclesPut
<1>8. Fits(was)'
  BY <1>1, <1>2, <1>3, <1>4, WasStillFits DEF Moving
<1>9. Returns'
  <2>1. Home' = was /\ DOMAIN was = Placed
    BY <1>1, <1>3 DEF Home
  <2> HIDE DEF Home
  <2>2. \A k \in Placed : row'[k] # None => AtHome(k)'
    BY <1>4, <1>5, <2>1 DEF AtHome
  <2> QED BY <1>1, <1>3, <1>4, <1>5, <1>6, <1>8, <2>1, <2>2 DEF Returns
<1>10. CallShape' /\ Moves'
  BY <1>1, Jobs DEF CallShape, Walking, Moves, Back
<1> QED BY <1>4, <1>7, <1>9, <1>10 DEF Placing

LEMMA ReturnPlaces ==
  ASSUME IInv, Placing, Return
  PROVE  Placing'
<1>1. /\ pc = "next" /\ DOMAIN todo = {} /\ pc' = "idle" /\ job' = "none"
      /\ node' = None
      /\ UNCHANGED <<list, todo, created, stored>>
  BY DEF Return, CallEnds
<1>2. UNCHANGED <<row, x>> /\ pc # "shift"
  BY <1>1 DEF list
<1>3. Grounded' /\ Gapless' /\ StoredFits'
  BY <1>1, <1>2, SameListFits DEF Placing
<1>4. ObstaclesPut'
  BY <1>1, <1>2 DEF Placing, ObstaclesPut
<1>5. CallShape' /\ Moves' /\ Returns'
  BY <1>1, Jobs DEF CallShape, Walking, Moves, Returns, Back
<1> QED BY <1>3, <1>4, <1>5 DEF Placing

-----------------------------------------------------------------------------
(***************************************************************************)
(* The walks: what the first one counts is there for the second to take.   *)
(***************************************************************************)

\* What a count of k leaves once node n has been counted.
Rest(n, k) == IF n \in Spaces THEN k - Smaller(w[n], k) ELSE k

\* Walking on from any node of S one comes through S to e, and L tells what is
\* left to find at each node of the way.
Trail(d, S, L, e) ==
  /\ S \subseteq Nodes \ Barriers /\ e \in Nodes
  /\ \A n \in S : /\ row[n] # None /\ Link(d, n) \in S \cup {e}
                  /\ L[Link(d, n)] = Rest(n, L[n])

LeftTrail(S, L, e) ==
  /\ Trail("HEAD", S, L, e)
  /\ ref \in S \cup {e} /\ L[ref] = w[node]
  /\ \A n \in S : x[n] < End(ref)

RightTrail(S, L, e) ==
  /\ Trail("TAIL", S, L, e)
  /\ next[ref] \in S \cup {e} /\ L[next[ref]] = w[node]
  /\ \A n \in S : End(ref) <= x[n]

\* The first walk has come to e, and k sites are still to be found.
LeftCounted(e, k) ==
  \E S \in SUBSET Nodes, L \in [Nodes -> Nat] :
    /\ LeftTrail(S, L, e) /\ L[e] = k
    /\ e \in Rows \/ (x[e] < End(ref) /\ \A n \in S : x[e] < x[n])

RightCounted(e, k) ==
  \E S \in SUBSET Nodes, L \in [Nodes -> Nat] :
    /\ RightTrail(S, L, e) /\ L[e] = k
    /\ e \in Rows \/ (End(ref) <= x[e] /\ \A n \in S : x[n] < x[e])

Counting ==
  pc = "count" => IF dir = "HEAD" THEN LeftCounted(at, over)
                  ELSE (\E e \in Nodes : LeftCounted(e, lack)) /\ RightCounted(at, over)

\* What lies ahead has the sites that the second walk still needs.
Ahead(S, L, e, behind) ==
  over = 0 \/ (at \in S \cup {e} /\ behind \notin S /\ over <= L[at] - L[e])

OnTheRight(f, S, L, e) == Trail("TAIL", S, L, e) /\ \A n \in S : f[node] < f[n]

OnTheLeft(f, T, M, b) == Trail("HEAD", T, M, b) /\ \A n \in T : f[n] < f[node]

RoomLeft(f) ==
  \E T \in SUBSET Nodes, M \in [Nodes -> Nat], b \in Nodes :
    OnTheLeft(f, T, M, b) /\ Ahead(T, M, b, next[at])

RoomRight(f) ==
  \E S \in SUBSET Nodes, L \in [Nodes -> Nat], e \in Nodes :
    /\ OnTheRight(f, S, L, e)
    /\ IF dir = "HEAD"
       THEN next[node] \in S \cup {e} /\ L[next[node]] = w[node]
            /\ toRight <= w[node] - L[e]
       ELSE Ahead(S, L, e, prev[at])

Shifting ==
  pc = "shift" =>
    \E f \in [Nodes -> Nat] :
      /\ Grows(f) /\ KeepsOrder(node, f)
      /\ RoomRight(f) /\ (dir = "HEAD" => RoomLeft(f))

\* While the second walk goes left, the nodes overlap by what is still needed
\* where the walk is, and the sites to be taken on the right are missing.
LeftGap ==
  LET edge == Start(next[node]) - (w[node] - toRight)
  IN  /\ \A n \in Nodes \ {node, at} : row[n] # None /\ next[n] # node => Adjoins(n)
      /\ End(at) - over = IF next[at] = node THEN edge ELSE Start(next[at])
      /\ next[at] # node => End(prev[node]) = edge

RightGap ==
  LET edge == End(prev[node]) + w[node]
  IN  /\ \A n \in Nodes \ {node} :
           row[n] # None /\ next[n] \notin {node, at} => Adjoins(n)
      /\ Start(at) + over = IF prev[at] = node THEN edge ELSE End(prev[at])
      /\ prev[at] # node => Start(next[node]) = edge

Gap == pc = "shift" => at # node /\ IF dir = "HEAD" THEN LeftGap ELSE RightGap

Walks == Counting /\ Shifting /\ Gap

LEMMA RestIsNat ==
  ASSUME NEW n, NEW k \in Nat, n \in Spaces => w[n] \in Nat
  PROVE  Rest(n, k) \in Nat /\ Rest(n, k) <= k
BY DEF Rest, Smaller

\* Nothing that the first walk has counted changes when the rows do not.
LEMMA CountedStays ==
  ASSUME UNCHANGED <<prev, next, row, x, w, ref, node>>, NEW e, NEW k
  PROVE  /\ LeftCounted(e, k) => LeftCounted(e, k)'
         /\ RightCounted(e, k) => RightCounted(e, k)'
BY DEF LeftCounted, RightCounted, LeftTrail, RightTrail, Trail, Link, Rest, End

\* A node that was passed on the way to the left is added to what was counted.
LEMMA CountOnLeft ==
  ASSUME Linked, Grounded, Gapless, NEW a \in Nodes, row[a] # None, a \notin Barriers,
         NEW k \in Nat, LeftCounted(a, k)
  PROVE  LeftCounted(prev[a], Rest(a, k))
<1>1. PICK S \in SUBSET Nodes, L \in [Nodes -> Nat] :
        /\ LeftTrail(S, L, a) /\ L[a] = k
        /\ a \in Rows \/ (x[a] < End(ref) /\ \A n \in S : x[a] < x[n])
  BY DEF LeftCounted
<1>2. PICK b, j : b = prev[a] /\ j = Rest(a, k)
  OBVIOUS
<1> DEFINE T == S \cup {a}
           M == [L EXCEPT ![b] = j]
<1>3. /\ a \notin Rows /\ x[a] < End(ref) /\ \A n \in S : x[a] < x[n]
      /\ x[a] \in Int /\ \A n \in S : x[n] \in Int /\ n \in Nodes /\ n \notin Rows
      /\ End(ref) \in Int
  <2>1. S \subseteq Nodes \ Barriers /\ ref \in S \cup {a}
    BY <1>1 DEF LeftTrail, Trail
  <2> QED BY <1>1, <2>1 DEF Barriers, Linked, Fields, End
<1>4. a \notin S
  BY <1>3
<1>5. /\ b \in Nodes /\ row[b] # None /\ next[b] = a
      /\ b \notin Rows => x[b] < x[a] /\ x[b] \in Int
  <2>1. row[a] \in Rows /\ a \in Members(row[a])
    BY <1>3 DEF Linked, Fields, Members
  <2>2. b \in Nodes /\ row[b] = row[a] /\ next[b] = a
        /\ (b \notin Rows => b \in Members(row[a]))
    BY <1>2, <2>1, Neighbours
  <2>3. b \notin Rows => x[a] = End(b)
    BY <1>2, <2>1, MemberAdjoins
  <2>4. b \notin Rows => x[b] < End(b) /\ x[b] \in Int
    BY <2>1, <2>2, MemberAdjoins
  <2> QED BY <2>2, <2>3, <2>4
<1>6. b \notin T
  <2>1. CASE b \in Rows
    BY <1>3, <2>1
  <2>2. CASE b \notin Rows
    BY <1>3, <1>5, <2>2
  <2> QED BY <2>1, <2>2
<1>7. j \in Nat
  BY <1>2, RestIsNat DEF Linked, Fields
<1>8. M \in [Nodes -> Nat] /\ M[b] = j /\ \A n \in T : M[n] = L[n]
  BY <1>1, <1>5, <1>6, <1>7
<1> HIDE DEF M
<1>9. \A n \in S : prev[n] # b /\ prev[n] \in S \cup {a} /\ row[n] # None
                   /\ L[prev[n]] = Rest(n, L[n])
  <2>1. \A n \in S : prev[n] \in S \cup {a} /\ row[n] # None /\ L[prev[n]] = Rest(n, L[n])
    BY <1>1 DEF LeftTrail, Trail, Link
  <2> QED BY <1>6, <2>1
<1>10. Trail("HEAD", T, M, b)
  <2>1. \A n \in S : M[prev[n]] = Rest(n, M[n])
    BY <1>8, <1>9
  <2>2. M[prev[a]] = Rest(a, M[a])
    BY <1>1, <1>2, <1>8
  <2>3. S \subseteq Nodes \ Barriers
    BY <1>1 DEF LeftTrail, Trail
  <2> QED BY <1>2, <1>5, <1>9, <2>1, <2>2, <2>3 DEF Trail, Link
<1>11. LeftTrail(T, M, b)
  <2>1. ref \in T /\ M[ref] = w[node]
    BY <1>1, <1>8 DEF LeftTrail
  <2>2. \A n \in T : x[n] < End(ref)
    BY <1>1, <1>3 DEF LeftTrail
  <2> QED BY <1>10, <2>1, <2>2 DEF LeftTrail
<1>12. b \in Rows \/ (x[b] < End(ref) /\ \A n \in T : x[b] < x[n])
  BY <1>3, <1>5
<1>13. LeftCounted(b, j)
  <2> HIDE DEF T
  <2>1. T \in SUBSET Nodes
    BY DEF T
  <2> QED BY <1>8, <1>11, <1>12, <2>1 DEF LeftCounted
<1> QED BY <1>2, <1>13

LEMMA CountOnRight ==
  ASSUME Linked, Grounded, Gapless, NEW a \in Nodes, row[a] # None, a \notin Barriers,
         ref \in Nodes, NEW k \in Nat, RightCounted(a, k)
  PROVE  RightCounted(next[a], Rest(a, k))
<1>1. PICK S \in SUBSET Nodes, L \in [Nodes -> Nat] :
        /\ RightTrail(S, L, a) /\ L[a] = k
        /\ a \in Rows \/ (End(ref) <= x[a] /\ \A n \in S : x[n] < x[a])
  BY DEF RightCounted
<1>2. PICK b, j : b = next[a] /\ j = Rest(a, k)
  OBVIOUS
<1> DEFINE T == S \cup {a}
           M == [L EXCEPT ![b] = j]
<1>3. /\ a \notin Rows /\ End(ref) <= x[a] /\ \A n \in S : x[n] < x[a]
      /\ x[a] \in Int /\ \A n \in S : x[n] \in Int /\ n \in Nodes /\ n \notin Rows
      /\ End(ref) \in Int
  <2>1. S \subseteq Nodes \ Barriers
    BY <1>1 DEF RightTrail, Trail
  <2> QED BY <1>1, <2>1 DEF Barriers, Linked, Fields, End
<1>4. a \notin S
  BY <1>3
<1>5. /\ b \in Nodes /\ row[b] # None
      /\ b \notin Rows => x[a] < x[b] /\ x[b] \in Int
  <2>1. row[a] \in Rows /\ a \in Members(row[a])
    BY <1>3 DEF Linked, Fields, Members
  <2>2. b \in Nodes /\ row[b] = row[a]
        /\ (b \notin Rows => b \in Members(row[a]))
    BY <1>2, <2>1, Neighbours
  <2>3. b \notin Rows => x[b] = End(a)
    BY <1>2, <2>1, MemberAdjoins
  <2>4. x[a] < End(a) /\ End(a) \in Int
    BY <2>1, MemberAdjoins
  <2> QED BY <2>2, <2>3, <2>4, <1>3
<1>6. b \notin T
  <2>1. CASE b \in Rows
    BY <1>3, <2>1
  <2>2. CASE b \notin Rows
    BY <1>3, <1>5, <2>2
  <2> QED BY <2>1, <2>2
<1>7. j \in Nat
  BY <1>2, RestIsNat DEF Linked, Fields
<1>8. M \in [Nodes -> Nat] /\ M[b] = j /\ \A n \in T : M[n] = L[n]
  BY <1>1, <1>5, <1>6, <1>7
<1> HIDE DEF M
<1>9. \A n \in S : next[n] # b /\ next[n] \in S \cup {a} /\ row[n] # None
                   /\ L[next[n]] = Rest(n, L[n])
  <2>1. \A n \in S : next[n] \in S \cup {a} /\ row[n] # None /\ L[next[n]] = Rest(n, L[n])
    BY <1>1 DEF RightTrail, Trail, Link
  <2> QED BY <1>6, <2>1
<1>10. Trail("TAIL", T, M, b)
  <2>1. \A n \in S : M[next[n]] = Rest(n, M[n])
    BY <1>8, <1>9
  <2>2. M[next[a]] = Rest(a, M[a])
    BY <1>1, <1>2, <1>8
  <2>3. S \subseteq Nodes \ Barriers
    BY <1>1 DEF RightTrail, Trail
  <2> QED BY <1>2, <1>5, <1>9, <2>1, <2>2, <2>3 DEF Trail, Link
<1>11. RightTrail(T, M, b)
  <2>1. next[ref] \in T /\ M[next[ref]] = w[node]
    BY <1>1, <1>8 DEF RightTrail
  <2>2. \A n \in T : End(ref) <= x[n]
    BY <1>1, <1>3 DEF RightTrail
  <2> QED BY <1>10, <2>1, <2>2 DEF RightTrail
<1>12. b \in Rows \/ (End(ref) <= x[b] /\ \A n \in T : x[n] < x[b])
  BY <1>3, <1>5
<1>13. RightCounted(b, j)
  <2> HIDE DEF T
  <2>1. T \in SUBSET Nodes
    BY DEF T
  <2> QED BY <1>8, <1>11, <1>12, <2>1 DEF RightCounted
<1> QED BY <1>2, <1>13

LEMMA NoWalk == pc \notin {"count", "shift"} => Walks
BY DEF Walks, Counting, Shifting, Gap

\* The first walk begins at the reference node.
LEMMA ApproachWalks ==
  ASSUME IInv, Placing, NEW n \in Placed, NEW r \in Rows, Approach(n, r)
  PROVE  Walks'
<1>1. PICK m \in References(n, r) : ref' = m /\ at' = m
  BY DEF Approach
<1>2. /\ node' = n /\ dir' = "HEAD" /\ over' = w[n] /\ pc' = "count" /\ pc = "next"
      /\ UNCHANGED <<prev, next, row, x, w>>
  BY DEF Approach, Turn, list
<1>3. /\ m \in Nodes /\ row[m] # None /\ n \in Nodes /\ w[n] \in Nat
      /\ Linked /\ Grounded /\ Gapless
  BY <1>1, <1>2, ReferencesInRow, JezzAssumption
  DEF IInv, Placing, Nodes, Placed, Linked, Fields
<1>4. PICK k : k = w[n]
  OBVIOUS
<1> DEFINE L == [i \in Nodes |-> k]
<1>5. L \in [Nodes -> Nat] /\ L[m] = k
  BY <1>3, <1>4
<1> HIDE DEF L
<1>6. m \in Rows \/ x[m] < End(m)
  <2> SUFFICES ASSUME m \notin Rows PROVE x[m] < End(m)
    OBVIOUS
  <2>1. row[m] \in Rows /\ m \in Members(row[m])
    BY <1>3 DEF Linked, Fields, Members
  <2> QED BY <1>3, <2>1, MemberAdjoins
<1>7. LeftTrail({}, L, m)'
  BY <1>1, <1>2, <1>3, <1>4, <1>5 DEF LeftTrail, Trail
<1>8. m \in Rows \/ x'[m] < End(ref)'
  BY <1>1, <1>2, <1>6 DEF End
<1>9. LeftCounted(m, k)'
  BY <1>5, <1>7, <1>8 DEF LeftCounted
<1>10. Counting'
  BY <1>1, <1>2, <1>4, <1>9 DEF Counting
<1> QED BY <1>2, <1>10 DEF Walks, Shifting, Gap

LEMMA CountWalks ==
  ASSUME IInv, Placing, Walks, Count
  PROVE  Walks'
<1>1. /\ pc = "count" /\ at \notin Barriers /\ over # 0
      /\ over' = Rest(at, over) /\ at' = Link(dir, at)
      /\ UNCHANGED <<list, node, ref, dir, lack, pc>>
  BY DEF Count, WalkEnds, Rest, call
<1>2. /\ UNCHANGED <<prev, next, row, x, w, ref, node>>
  BY <1>1 DEF list
<1>3. /\ Linked /\ Grounded /\ Gapless /\ at \in Nodes /\ row[at] # None /\ over \in Nat
      /\ ref \in Nodes /\ dir \in {"HEAD", "TAIL"}
  BY <1>1 DEF IInv, Placing, WalkInRow, Walking, CallTyped
<1>4. PICK e, k : e = at' /\ k = over'
  OBVIOUS
<1>5. Counting'
  <2>1. CASE dir = "HEAD"
    <3>1. LeftCounted(e, k)
      BY <1>1, <1>3, <1>4, <2>1, CountOnLeft DEF Walks, Counting, Link
    <3>2. LeftCounted(e, k)'
      BY <1>2, <3>1, CountedStays
    <3> QED BY <1>1, <1>4, <2>1, <3>2 DEF Counting
  <2>2. CASE dir = "TAIL"
    <3>1. RightCounted(e, k)
      BY <1>1, <1>3, <1>4, <2>2, CountOnRight DEF Walks, Counting, Link
    <3>2. PICK b \in Nodes : LeftCounted(b, lack)
      BY <1>1, <2>2 DEF Walks, Counting
    <3>3. PICK h : h = lack
      OBVIOUS
    <3>4. RightCounted(e, k)' /\ LeftCounted(b, h)'
      BY <1>2, <3>1, <3>2, <3>3, CountedStays
    <3> QED BY <1>1, <1>4, <2>2, <3>3, <3>4 DEF Counting
  <2> QED BY <1>3, <2>1, <2>2
<1> QED BY <1>1, <1>5 DEF Walks, Shifting, Gap

LEMMA CountRightWalks ==
  ASSUME IInv, Placing, Walks, CountRight
  PROVE  Walks'
<1>1. /\ pc = "count" /\ dir = "HEAD" /\ lack' = over /\ dir' = "TAIL"
      /\ at' = next[ref] /\ over' = w[node] /\ pc' = pc
      /\ UNCHANGED <<list, node, ref>>
  BY DEF CountRight, call
<1>2. /\ UNCHANGED <<prev, next, row, x, w, ref, node>>
  BY <1>1 DEF list
<1>3. /\ Linked /\ Grounded /\ Gapless /\ at \in Nodes /\ ref \in Nodes /\ row[ref] # None
      /\ w[node] \in Nat
  BY <1>1, WalkMoves DEF IInv, Placing, WalkInRow, Walking
<1>4. PICK e, k, b, h : e = next[ref] /\ k = w[node] /\ b = at /\ h = over
  OBVIOUS
<1>5. LeftCounted(b, h)' /\ b \in Nodes
  <2>1. LeftCounted(b, h)
    BY <1>1, <1>4 DEF Walks, Counting
  <2> QED BY <1>2, <1>3, <1>4, <2>1, CountedStays
<1>6. RightCounted(e, k)
  <2> DEFINE L == [i \in Nodes |-> k]
  <2>1. L \in [Nodes -> Nat] /\ e \in Nodes /\ L[e] = k
    BY <1>3, <1>4 DEF Linked, RowsLinked
  <2> HIDE DEF L
  <2>2. RightTrail({}, L, e)
    BY <1>4, <2>1 DEF RightTrail, Trail
  <2>3. e \in Rows \/ End(ref) <= x[e]
    <3>1. Adjoins(ref)
      BY <1>3 DEF Gapless
    <3>2. e \notin Rows => x[e] = End(ref)
      BY <1>4, <3>1 DEF Adjoins, Start
    <3>3. x[e] \in Int
      BY <2>1, <1>3 DEF Linked, Fields
    <3> QED BY <3>2, <3>3
  <2> QED BY <2>1, <2>2, <2>3 DEF RightCounted
<1>7. RightCounted(e, k)'
  BY <1>2, <1>6, CountedStays
<1>8. Counting'
  BY <1>1, <1>4, <1>5, <1>7 DEF Counting
<1> QED BY <1>1, <1>8 DEF Walks, Shifting, Gap

-----------------------------------------------------------------------------
(***************************************************************************)
(* The node is linked in.                                                  *)
(***************************************************************************)

\* What was counted on a side is still there once the node is linked in.
LEMMA TrailBesideNode ==
  ASSUME IInv, Placing, LinkNode, NEW S \in SUBSET Nodes, NEW L \in [Nodes -> Nat],
         NEW e \in Nodes, NEW d \in {"HEAD", "TAIL"}, Trail(d, S, L, e),
         \A n \in S : n # (IF d = "HEAD" THEN next[ref] ELSE ref)
  PROVE  Trail(d, S, L, e)'
<1>1. /\ next' = [next EXCEPT ![ref] = node, ![node] = next[ref]]
      /\ prev' = [prev EXCEPT ![next[ref]] = node, ![node] = ref]
      /\ row' = [row EXCEPT ![node] = row[ref]]
      /\ UNCHANGED <<x, w, node, ref>> /\ pc = "count"
  BY DEF LinkNode, Counted
<1>2. row[node] = None /\ Linked
  BY <1>1 DEF IInv, WalkInRow
<1>3. \A n \in S : n \in Nodes /\ n # node /\ row[n] # None /\ n \notin Barriers
                   /\ Link(d, n) \in S \cup {e} /\ L[Link(d, n)] = Rest(n, L[n])
  BY <1>2 DEF Trail
<1>4. \A n \in S : row'[n] # None /\ Link(d, n)' = Link(d, n) /\ Rest(n, L[n])' = Rest(n, L[n])
  <2>1. ASSUME NEW n \in S PROVE row'[n] # None
    BY <1>1, <1>2, <1>3 DEF Linked, Fields
  <2>2. ASSUME NEW n \in S PROVE Link(d, n)' = Link(d, n)
    BY <1>1, <1>2, <1>3 DEF Linked, Fields, Link
  <2>3. ASSUME NEW n \in S PROVE Rest(n, L[n])' = Rest(n, L[n])
    BY <1>1 DEF Rest
  <2> QED BY <2>1, <2>2, <2>3
<1> QED BY <1>3, <1>4 DEF Trail

\* A step of the second walk leaves every node in its row and moves no obstacle.
LEMMA ShiftPlaces ==
  ASSUME IInv, Placing, Walking, pc' = "shift", Grounded',
         UNCHANGED <<job, todo, failed, was, node, created, stored>>,
         \A k \in Placed : w'[k] = w[k],
         \A k \in Placed \ {node} : row'[k] = row[k],
         \A o \in Obstacles : x'[o] = x[o]
  PROVE  Placing'
<1>1. /\ job = "insert" /\ node \in created /\ node \in Placed /\ node \notin Obstacles
      /\ DOMAIN todo = {node} /\ Moving(node) /\ ~failed
      /\ was \in [Placed -> [row : Rows \cup {None}, x : Int]]
  BY WalkMoves
<1>2. \A o \in Obstacles : o \in Placed \ {node}
  BY <1>1 DEF Placed
<1>3. StoredFits'
  <2>1. \A n \in Obstacles \cup DOMAIN stored : n \in Placed
    BY DEF IInv, CallTyped, Placed
  <2> QED BY <2>1, StoredFitsStays DEF Placing
<1>4. ObstaclesPut'
  BY <1>1, <1>2 DEF Placing, ObstaclesPut
<1>5. PICK c : c = node
  OBVIOUS
<1>6. Moving(c)'
  <2>1. Fits(was)'
    BY <1>1, WasStillFits DEF Moving
  <2>2. /\ DOMAIN todo' = {c} /\ node' = c /\ ~failed' /\ job' # "insertInSpace"
        /\ \A n \in Placed \ {c} : row'[n] = was'[n].row
        /\ \A o \in Obstacles : x'[o] = was'[o].x
    BY <1>1, <1>5 DEF Moving
  <2> QED BY <2>1, <2>2 DEF Moving
<1>7. Moves' /\ Returns' /\ CallShape'
  BY <1>1, <1>5, <1>6, Jobs DEF Moves, Returns, CallShape, Walking, Back
<1> QED BY <1>3, <1>4, <1>7 DEF Placing

LEMMA LinkNodePlaces ==
  ASSUME IInv, Placing, LinkNode
  PROVE  Placing'
<1>1. /\ row' = [row EXCEPT ![node] = row[ref]] /\ pc' = "shift"
      /\ UNCHANGED <<x, w, node, ref, job, todo, failed, was, created, stored>>
      /\ Walking
  BY DEF LinkNode, Counted, Walking
<1>2. /\ node \in created /\ node \in Nodes \ Rows /\ created \subseteq Cells
      /\ \A k \in Placed : k \in Nodes
      /\ row \in [Nodes -> Rows \cup {None}]
  BY <1>1, WalkMoves DEF IInv, CallTyped, Linked, Fields, Placed, Nodes
<1>3. \A k \in Nodes \ {node} : row'[k] = row[k]
  BY <1>1, <1>2
<1>4. \A k \in Nodes : row'[k] = None => row[k] = None
  <2>1. row[node] = None
    BY DEF LinkNode, Counted, IInv, WalkInRow
  <2> QED BY <1>3, <2>1
<1>5. Grounded'
  <2>1. \A c \in Cells \ created : c \in Nodes /\ c # node
    BY <1>2, JezzAssumption DEF Nodes
  <2> QED BY <1>1, <1>3, <1>4, <2>1 DEF Placing, Grounded
<1> QED BY <1>1, <1>2, <1>3, <1>5, ShiftPlaces

\* Numbers for the nodes that show where the new node is among the others.
LEMMA LinkNodeOrder ==
  ASSUME IInv, Placing, LinkNode
  PROVE  \E f \in [Nodes -> Nat] :
           /\ Grows(f)' /\ KeepsOrder(node, f)'
           /\ f[node] = 2 * End(ref) + 1 /\ End(ref) \in Nat
           /\ \A n \in Nodes \ Rows : n # node /\ row[n] # None => f[n] = 2 * x[n] + 2
<1>1. /\ next' = [next EXCEPT ![ref] = node, ![node] = next[ref]]
      /\ row' = [row EXCEPT ![node] = row[ref]]
      /\ UNCHANGED <<x, w, node, ref, was>> /\ pc = "count" /\ Walking
  BY DEF LinkNode, Counted, Walking
<1>2. /\ row[node] = None /\ Linked /\ Grounded /\ Gapless /\ node \in Nodes \ Rows
      /\ ref \in Nodes /\ row[ref] # None /\ ref # node /\ Moving(node)
  BY <1>1, WalkMoves DEF IInv, WalkInRow, Placing
<1>3. /\ Rank \in [Nodes -> Nat] /\ Grows(Rank)
      /\ \A n \in Nodes \ Rows : row[n] # None => Rank[n] = x[n] + 1 /\ x[n] \in Int
      /\ \A r \in Rows : Rank[r] = 0
  BY <1>2, RankGrows, JezzAssumption DEF Rank, Nodes, Linked, Fields
<1> HIDE DEF Rank
<1>4. /\ End(ref) \in Nat
      /\ ref \in Rows => End(ref) = 0
      /\ ref \notin Rows => x[ref] < End(ref)
      /\ next[ref] \notin Rows => x[next[ref]] = End(ref)
      /\ next[ref] \in Nodes /\ next[ref] # node /\ row[next[ref]] # None
  <2>1. next[ref] \in Nodes /\ next[ref] # node /\ row[next[ref]] # None
    BY <1>2 DEF Linked, RowsLinked
  <2>2. Adjoins(ref)
    BY <1>2 DEF Gapless
  <2>3. next[ref] \notin Rows => x[next[ref]] = End(ref)
    BY <2>2 DEF Adjoins, Start
  <2>4. CASE ref \in Rows
    BY <1>2, <2>1, <2>3, <2>4 DEF Grounded, End
  <2>5. CASE ref \notin Rows
    <3>1. row[ref] \in Rows /\ ref \in Members(row[ref])
      BY <1>2, <2>5 DEF Linked, Fields, Members
    <3>2. 0 <= x[ref] /\ x[ref] < End(ref) /\ x[ref] \in Int /\ End(ref) \in Int
      BY <1>2, <3>1, Layout, MemberAdjoins
    <3> QED BY <2>1, <2>3, <2>5, <3>2
  <2> QED BY <2>4, <2>5
<1>5. PICK c, i, g : c = node /\ i = 2 * End(ref) + 1 /\ g = Rank
  OBVIOUS
<1> DEFINE f == [n \in Nodes |-> IF n = c THEN i ELSE 2 * g[n]]
<1>6. f \in [Nodes -> Nat] /\ f[c] = i /\ \A n \in Nodes \ {c} : f[n] = 2 * g[n]
  BY <1>2, <1>3, <1>4, <1>5
<1> HIDE DEF f
<1>7. ASSUME NEW n \in Nodes, row'[n] # None, next'[n] \notin Rows
      PROVE  f[n] < f[next'[n]]
  <2>1. CASE n = c
    <3>1. next'[n] = next[ref] /\ next[ref] \notin Rows
      BY <1>1, <1>2, <1>5, <1>7, <2>1 DEF Linked, Fields
    <3>2. g[next[ref]] = End(ref) + 1
      BY <1>3, <1>4, <1>5, <3>1
    <3> QED BY <1>4, <1>5, <1>6, <2>1, <3>1, <3>2
  <2>2. CASE n = ref
    <3>1. next'[n] = c
      BY <1>1, <1>2, <1>5, <2>2 DEF Linked, Fields
    <3>2. g[ref] \in Nat /\ g[ref] <= End(ref)
      <4>1. CASE ref \in Rows
        BY <1>3, <1>4, <1>5, <4>1
      <4>2. CASE ref \notin Rows
        BY <1>2, <1>3, <1>4, <1>5, <4>2
      <4> QED BY <4>1, <4>2
    <3> QED BY <1>2, <1>4, <1>5, <1>6, <2>2, <3>1, <3>2
  <2>3. CASE n # c /\ n # ref
    <3>1. next'[n] = next[n] /\ row[n] # None
      BY <1>1, <1>2, <1>5, <1>7, <2>3 DEF Linked, Fields
    <3>2. next[n] \in Nodes /\ next[n] # c /\ g[n] < g[next[n]]
      BY <1>2, <1>3, <1>5, <1>7, <3>1 DEF Linked, RowsLinked, Grows
    <3>3. g[n] \in Nat /\ g[next[n]] \in Nat
      BY <1>3, <1>5, <3>2
    <3> QED BY <1>6, <2>3, <3>1, <3>2, <3>3
  <2> QED BY <2>1, <2>2, <2>3
<1>8. Grows(f)'
  BY <1>7 DEF Grows
<1>9. \A n \in Nodes \ Rows : n # c /\ row[n] # None => f[n] = 2 * x[n] + 2
  BY <1>3, <1>5, <1>6
<1>10. KeepsOrder(c, f)'
  <2>1. \A n \in Placed \ {c} : n \in Nodes \ Rows /\ row'[n] = row[n]
    BY <1>1, <1>2, <1>5, JezzAssumption DEF Placed, Nodes, Linked, Fields
  <2>2. KeepsOrder(c, x)
    BY <1>1, <1>2, <1>5 DEF Moving
  <2>3. ASSUME NEW m \in Placed \ {c}, NEW n \in Placed \ {c},
               row'[m] # None, row'[m] = row'[n], was'[m].x < was'[n].x
        PROVE  f[m] < f[n]
    <3>1. row[m] # None /\ row[n] # None /\ x[m] < x[n]
      BY <1>1, <2>1, <2>2, <2>3 DEF KeepsOrder
    <3>2. f[m] = 2 * x[m] + 2 /\ f[n] = 2 * x[n] + 2 /\ x[m] \in Int /\ x[n] \in Int
      BY <1>3, <1>9, <2>1, <3>1
    <3> QED BY <3>1, <3>2
  <2> QED BY <2>3 DEF KeepsOrder
<1> QED BY <1>1, <1>4, <1>5, <1>6, <1>8, <1>9, <1>10

LEMMA LinkNodeWalks ==
  ASSUME IInv, Placing, Walks, LinkNode
  PROVE  Walks'
<1>1. /\ next' = [next EXCEPT ![ref] = node, ![node] = next[ref]]
      /\ prev' = [prev EXCEPT ![next[ref]] = node, ![node] = ref]
      /\ row' = [row EXCEPT ![node] = row[ref]]
      /\ dir' = "HEAD" /\ at' = ref /\ pc' = "shift"
      /\ UNCHANGED <<x, w, node, ref, was>> /\ pc = "count" /\ Walking /\ dir = "TAIL"
  BY DEF LinkNode, Counted, Walking
<1>2. /\ row[node] = None /\ Linked /\ Grounded /\ Gapless /\ node \in Nodes \ Rows
      /\ ref \in Nodes /\ row[ref] # None /\ ref # node /\ w[node] \in Nat
      /\ over \in Nat /\ lack \in Nat /\ at \in Nodes
      /\ next[ref] \in Nodes /\ row[next[ref]] # None /\ next[ref] # node
  BY <1>1, WalkMoves DEF IInv, WalkInRow, Placing, CallTyped, Linked, RowsLinked
<1>3. PICK k \in over .. w[node] - lack : over' = k /\ toRight' = w[node] - k
  BY DEF LinkNode
<1>4. PICK f \in [Nodes -> Nat] :
        /\ Grows(f)' /\ KeepsOrder(node, f)'
        /\ f[node] = 2 * End(ref) + 1 /\ End(ref) \in Nat
        /\ \A n \in Nodes \ Rows : n # node /\ row[n] # None => f[n] = 2 * x[n] + 2
  BY LinkNodeOrder
<1>5. PICK T \in SUBSET Nodes, M \in [Nodes -> Nat], b \in Nodes :
        LeftTrail(T, M, b) /\ M[b] = lack
  BY <1>1 DEF Walks, Counting, LeftCounted
<1>6. PICK S \in SUBSET Nodes, L \in [Nodes -> Nat], e \in Nodes :
        RightTrail(S, L, e) /\ L[e] = over
  BY <1>1, <1>2 DEF Walks, Counting, RightCounted
<1>7. /\ \A n \in T : n \in Nodes \ Rows /\ n # node /\ row[n] # None /\ x[n] < End(ref)
                      /\ x[n] \in Int
      /\ \A n \in S : n \in Nodes \ Rows /\ n # node /\ row[n] # None /\ End(ref) <= x[n]
                      /\ x[n] \in Int
  BY <1>2, <1>5, <1>6 DEF LeftTrail, RightTrail, Trail, Barriers, Linked, Fields
<1>8. Adjoins(ref) /\ next[ref] # ref
  <2>1. Adjoins(ref)
    BY <1>2 DEF Gapless
  <2>2. next[ref] # ref
    <3>1. PICK g \in [Nodes -> Nat] : Grows(g)
      BY <1>2 DEF Linked, RowsOrdered, Grows
    <3>2. CASE ref \notin Rows
      <4>1. next[ref] = ref => g[ref] < g[ref] /\ g[ref] \in Nat
        BY <1>2, <3>1, <3>2 DEF Grows
      <4> QED BY <4>1
    <3>3. CASE ref \in Rows
      BY <1>2, <2>1, <3>3, JezzAssumption DEF Adjoins, Start, Grounded, End
    <3> QED BY <3>2, <3>3
  <2> QED BY <2>1, <2>2
<1>9. \A n \in T : n # next[ref]
  BY <1>7, <1>8 DEF Adjoins, Start
<1>10. \A n \in S : n # ref
  <2>1. ref \notin Rows => x[ref] < End(ref)
    <3>1. ref \notin Rows => w[ref] \in Nat /\ w[ref] > 0 /\ x[ref] \in Int
      BY <1>2 DEF Linked, Fields, RowsLinked
    <3> QED BY <3>1 DEF End
  <2> QED BY <1>4, <1>7, <2>1
<1>11. OnTheLeft(f, T, M, b)'
  <2>1. Trail("HEAD", T, M, b)'
    BY <1>5, <1>9, TrailBesideNode DEF LeftTrail
  <2>2. \A n \in T : f[n] < f[node]
    BY <1>4, <1>7
  <2> QED BY <1>1, <2>1, <2>2 DEF OnTheLeft
<1>12. OnTheRight(f, S, L, e)'
  <2>1. Trail("TAIL", S, L, e)'
    BY <1>6, <1>10, TrailBesideNode DEF RightTrail
  <2>2. \A n \in S : f[node] < f[n]
    BY <1>4, <1>7
  <2> QED BY <1>1, <2>1, <2>2 DEF OnTheRight
<1>13. /\ next'[ref] = node /\ next'[node] = next[ref]
       /\ prev'[node] = ref
       /\ \A n \in Nodes \ {node, ref} : next'[n] = next[n]
       /\ \A n \in Nodes \ {node} : row'[n] = row[n]
  BY <1>1, <1>2 DEF Linked, Fields
<1>14. RoomLeft(f)'
  <2>1. k \in Nat /\ k <= w[node] - lack
    BY <1>2, <1>3
  <2>2. Ahead(T, M, b, next[at])'
    <3>1. ref \in T \cup {b} /\ M[ref] = w[node]
      BY <1>5 DEF LeftTrail
    <3>2. node \notin T
      BY <1>7
    <3> QED BY <1>1, <1>3, <1>5, <1>13, <2>1, <3>1, <3>2 DEF Ahead
  <2> QED BY <1>11, <2>2 DEF RoomLeft
<1>15. RoomRight(f)'
  <2>1. toRight' <= w[node] - over
    BY <1>2, <1>3
  <2>2. next[ref] \in S \cup {e} /\ L[next[ref]] = w[node]
    BY <1>6 DEF RightTrail
  <2> QED BY <1>1, <1>6, <1>12, <1>13, <2>1, <2>2 DEF RoomRight
<1>16. Shifting'
  BY <1>4, <1>1, <1>14, <1>15 DEF Shifting
<1>17. Gap'
  <2>1. PICK a, c, q : a = ref /\ c = node /\ q = next[ref]
    OBVIOUS
  <2>2. \A n \in Nodes \ {c, a} : row'[n] # None /\ next'[n] # c => Adjoins(n)'
    <3>1. \A n \in Nodes \ {c, a} : row'[n] # None => Adjoins(n)
      BY <1>2, <1>13, <2>1 DEF Gapless
    <3> QED BY <1>1, <1>13, <2>1, <3>1 DEF Adjoins, Start, End
  <2>3. End(a)' - k = Start(q)' - (w'[c] - toRight')
    <3>1. End(a)' = End(a) /\ Start(q)' = Start(q)
      BY <1>1 DEF End, Start
    <3>2. Start(q) = End(a)
      BY <1>8, <2>1 DEF Adjoins
    <3>3. w'[c] - toRight' = k
      <4>1. k \in Int
        BY <1>3
      <4> QED BY <1>1, <1>2, <1>3, <2>1, <4>1
    <3> QED BY <3>1, <3>2, <3>3
  <2> QED BY <1>1, <1>2, <1>3, <1>13, <2>1, <2>2, <2>3 DEF Gap, LeftGap
<1> QED BY <1>1, <1>16, <1>17 DEF Walks, Counting

-----------------------------------------------------------------------------
(***************************************************************************)
(* The second walk.                                                        *)
(***************************************************************************)

Push == ShiftCell \/ ShrinkWhitespace \/ UseUpWhitespace

\* The links of node a with its neighbours p and n stay, or it is taken out.
Relinked(p, a, n) ==
  \/ UNCHANGED <<prev, next, row>>
  \/ /\ next' = [next EXCEPT ![p] = n, ![a] = None]
     /\ prev' = [prev EXCEPT ![n] = p, ![a] = None]
     /\ row' = [row EXCEPT ![a] = None]

\* What every push does.
LEMMA PushChanges ==
  ASSUME IInv, Push
  PROVE  /\ pc = "shift" /\ pc' = "shift" /\ Walking
         /\ at \in Nodes \ Barriers /\ at \notin Rows /\ row[at] # None
         /\ over \in Nat /\ over # 0
         /\ over' = Rest(at, over) /\ at' = Link(dir, at)
         /\ Relinked(prev[at], at, next[at])
         /\ \A k \in Nodes \ {at} : w'[k] = w[k] /\ x'[k] = x[k]
         /\ \A k \in Placed : w'[k] = w[k]
         /\ UNCHANGED <<node, ref, dir, lack, toRight, job, todo, failed, was, created,
                        stored>>
<1>1. /\ pc = "shift" /\ over # 0 /\ at \notin Barriers /\ at \in Cells \cup Spaces
      /\ at' = Link(dir, at)
      /\ UNCHANGED <<node, ref, dir, lack, toRight, call, created, stored>>
  BY DEF Push, ShiftCell, ShrinkWhitespace, UseUpWhitespace, WalkEnds
<1>2. UNCHANGED <<pc, job, todo, failed, was>>
  BY <1>1 DEF call
<1>3. /\ at \in Nodes /\ row[at] # None /\ over \in Nat /\ at \notin Rows
      /\ w[at] \in Nat /\ x \in [Nodes -> Int] /\ w \in [Nodes -> Nat]
      /\ \A k \in Placed : k \in Nodes /\ k \notin Spaces
      /\ \A k \in Cells : k \notin Spaces
  BY <1>1, JezzAssumption
  DEF IInv, WalkInRow, Walking, CallTyped, Linked, Fields, Barriers, Placed, Nodes
<1>4. CASE ShiftCell
  <2>1. /\ x' = [x EXCEPT ![at] = IF dir = "HEAD" THEN @ - over ELSE @ + over]
        /\ UNCHANGED <<prev, next, w, row, over>> /\ at \in Cells
    BY <1>4 DEF ShiftCell
  <2>2. over' = Rest(at, over)
    BY <1>3, <2>1 DEF Rest
  <2> QED BY <1>1, <1>2, <1>3, <2>1, <2>2 DEF Relinked, Walking
<1>5. CASE ShrinkWhitespace
  <2>1. /\ at \in Spaces /\ w[at] > over
        /\ w' = [w EXCEPT ![at] = @ - over]
        /\ x' = [x EXCEPT ![at] = IF dir = "HEAD" THEN @ ELSE @ + over]
        /\ over' = 0
        /\ UNCHANGED <<prev, next, row>>
    BY <1>5 DEF ShrinkWhitespace
  <2>2. over' = Rest(at, over)
    BY <1>3, <2>1 DEF Rest, Smaller
  <2> QED BY <1>1, <1>2, <1>3, <2>1, <2>2 DEF Relinked, Walking
<1>6. CASE UseUpWhitespace
  <2>1. /\ at \in Spaces /\ w[at] <= over
        /\ next' = [next EXCEPT ![prev[at]] = next[at], ![at] = None]
        /\ prev' = [prev EXCEPT ![next[at]] = prev[at], ![at] = None]
        /\ row' = [row EXCEPT ![at] = None]
        /\ w' = [w EXCEPT ![at] = 0]
        /\ x' = [x EXCEPT ![at] = 0]
        /\ over' = over - w[at]
    BY <1>6 DEF UseUpWhitespace
  <2>2. over' = Rest(at, over)
    BY <1>3, <2>1 DEF Rest, Smaller
  <2> QED BY <1>1, <1>2, <1>3, <2>1, <2>2 DEF Relinked, Walking
<1> QED BY <1>4, <1>5, <1>6 DEF Push

LEMMA PushPlaces ==
  ASSUME IInv, Placing, Push
  PROVE  Placing'
<1>1. /\ pc' = "shift" /\ Walking /\ at \in Nodes /\ at \notin Barriers /\ row[at] # None
      /\ Relinked(prev[at], at, next[at])
      /\ \A k \in Nodes \ {at} : w'[k] = w[k] /\ x'[k] = x[k]
      /\ \A k \in Placed : w'[k] = w[k]
      /\ UNCHANGED <<node, ref, dir, lack, toRight, job, todo, failed, was, created, stored>>
  BY PushChanges
<1>2. /\ \A k \in Rows \cup Obstacles : k # at /\ k \in Nodes
      /\ \A k \in Placed : k \in Nodes
      /\ \A k \in Cells \cup Obstacles : k \in Placed
      /\ row \in [Nodes -> Rows \cup {None}] /\ x \in [Nodes -> Int] /\ w \in [Nodes -> Nat]
  BY <1>1 DEF Barriers, Nodes, Placed, IInv, Linked, Fields
<1>3. /\ \A k \in Placed : row'[k] = row[k]
      /\ \A k \in Nodes : row'[k] = None => row[k] = None \/ x'[k] = 0
  <2>1. CASE UseUpWhitespace
    <3>1. /\ at \in Spaces /\ row' = [row EXCEPT ![at] = None] /\ x' = [x EXCEPT ![at] = 0]
      BY <2>1 DEF UseUpWhitespace
    <3>2. \A k \in Placed : k # at
      BY <3>1, JezzAssumption DEF Placed
    <3> QED BY <1>1, <1>2, <3>1, <3>2
  <2>2. CASE ShiftCell \/ ShrinkWhitespace
    BY <1>1, <2>2 DEF ShiftCell, ShrinkWhitespace
  <2> QED BY <2>1, <2>2 DEF Push
<1>4. Grounded'
  <2>1. \A k \in Nodes : row'[k] = None => x'[k] = 0
    BY <1>1, <1>3 DEF Placing, Grounded
  <2>2. \A r \in Rows : x'[r] = 0 /\ w'[r] = 0
    BY <1>1, <1>2 DEF Placing, Grounded
  <2>3. \A k \in Cells \ created' : row'[k] = None
    BY <1>1, <1>2, <1>3 DEF Placing, Grounded
  <2>4. \A o \in Obstacles : w'[o] = Block[o].w
    BY <1>1, <1>2 DEF Placing, Grounded
  <2> QED BY <2>1, <2>2, <2>3, <2>4 DEF Grounded
<1> QED BY <1>1, <1>2, <1>3, <1>4, ShiftPlaces

\* Node a, its neighbours p and q, and the node that is inserted: numbers that
\* grow along the rows tell them apart.
LEMMA BesideWalk ==
  ASSUME IInv, Placing, Walking, pc = "shift", NEW f \in [Nodes -> Nat], Grows(f),
         NEW a \in Nodes \ Rows, row[a] # None
  PROVE  /\ prev[a] \in Nodes /\ row[prev[a]] # None /\ next[prev[a]] = a
         /\ next[a] \in Nodes /\ row[next[a]] # None /\ prev[next[a]] = a
         /\ prev[a] # a /\ next[a] # a /\ prev[a] \notin {next[a]} \ Rows
         /\ f[a] < f[node] => prev[a] # node
         /\ f[node] < f[a] => next[a] # node
         /\ prev[a] \notin Rows => f[prev[a]] < f[a]
         /\ next[a] \notin Rows => f[a] < f[next[a]]
<1>1. /\ prev[a] \in Nodes /\ row[prev[a]] # None /\ next[prev[a]] = a
      /\ next[a] \in Nodes /\ row[next[a]] # None /\ prev[next[a]] = a
  BY DEF IInv, Linked, RowsLinked
<1>2. /\ f[prev[a]] < f[a]
      /\ next[a] \notin Rows => f[a] < f[next[a]]
      /\ f[a] \in Nat /\ f[prev[a]] \in Nat /\ f[next[a]] \in Nat
  BY <1>1 DEF Grows
<1>3. node \in Nodes \ Rows
  BY WalkMoves
<1>4. prev[a] # a /\ next[a] # a /\ prev[a] \notin {next[a]} \ Rows
  BY <1>2
<1>5. f[node] \in Nat
  BY <1>3
<1>6. f[a] < f[node] => prev[a] # node
  BY <1>2, <1>5
<1>7. f[node] < f[a] => next[a] # node
  BY <1>2, <1>3, <1>5
<1> QED BY <1>1, <1>2, <1>4, <1>6, <1>7

\* The numbers still grow once a node is taken out.
LEMMA StillGrows ==
  ASSUME Linked, NEW f \in [Nodes -> Nat], Grows(f), NEW a \in Nodes \ Rows, row[a] # None,
         Relinked(prev[a], a, next[a])
  PROVE  Grows(f)'
<1>1. CASE UNCHANGED <<prev, next, row>>
  BY <1>1 DEF Grows
<1>2. CASE /\ next' = [next EXCEPT ![prev[a]] = next[a], ![a] = None]
           /\ row' = [row EXCEPT ![a] = None]
  <2>1. PICK p, q : p = prev[a] /\ q = next[a]
    OBVIOUS
  <2>2. /\ p \in Nodes /\ row[p] # None /\ next[p] = a /\ q \in Nodes
        /\ \A k \in Nodes \ {a} : row[k] # None => next[k] # q \/ q \in Rows
    BY <2>1 DEF Linked, RowsLinked
  <2>3. f[p] < f[a] /\ (q \notin Rows => f[a] < f[q]) /\ f[p] \in Nat /\ f[a] \in Nat
        /\ f[q] \in Nat
    BY <2>1, <2>2 DEF Grows
  <2>4. ASSUME NEW k \in Nodes, row'[k] # None, next'[k] \notin Rows
        PROVE  f[k] < f[next'[k]]
    <3>1. k # a /\ row[k] # None
      BY <1>2, <2>4 DEF Linked, Fields
    <3>2. CASE k = p
      <4>1. next'[k] = q
        BY <1>2, <2>1, <2>2, <3>1, <3>2 DEF Linked, Fields
      <4> QED BY <2>3, <2>4, <3>2, <4>1
    <3>3. CASE k # p
      <4>1. next'[k] = next[k]
        BY <1>2, <2>1, <3>1, <3>3 DEF Linked, Fields
      <4> QED BY <2>4, <3>1, <4>1 DEF Grows
    <3> QED BY <3>2, <3>3
  <2> QED BY <2>4 DEF Grows
<1> QED BY <1>1, <1>2 DEF Relinked

\* The rest of a way stays when a node that is not on it is pushed.
LEMMA TrailStays ==
  ASSUME Linked, NEW a \in Nodes, row[a] # None, Relinked(prev[a], a, next[a]),
         \A k \in Nodes \ {a} : w'[k] = w[k],
         NEW d \in {"HEAD", "TAIL"}, NEW S \in SUBSET Nodes, NEW L \in [Nodes -> Nat],
         NEW e \in Nodes, Trail(d, S, L, e), \A n \in S : Link(d, n) # a \/ n = a,
         a \in S => Link(d, a) # a
  PROVE  Trail(d, S \ {a}, L, e)'
<1>1. \A n \in S \ {a} : /\ n \in Nodes /\ n # a /\ row[n] # None /\ n \notin Barriers
                         /\ Link(d, n) \in (S \ {a}) \cup {e} /\ L[Link(d, n)] = Rest(n, L[n])
  BY DEF Trail
<1>2. ASSUME NEW n \in S \ {a}
      PROVE  row'[n] # None /\ Link(d, n)' = Link(d, n) /\ Rest(n, L[n])' = Rest(n, L[n])
  <2>1. n \in Nodes /\ n # a /\ row[n] # None /\ Link(d, n) # a
    BY <1>1
  <2>2. row'[n] # None
    BY <2>1 DEF Relinked, Linked, Fields
  <2>3. Rest(n, L[n])' = Rest(n, L[n])
    BY <2>1 DEF Rest
  <2>4. Link(d, n)' = Link(d, n)
    <3>1. /\ d = "HEAD" => n # next[a]
          /\ d = "TAIL" => n # prev[a]
      BY <2>1 DEF Link, Linked, RowsLinked
    <3>2. CASE d = "HEAD"
      BY <2>1, <3>1, <3>2 DEF Link, Relinked, Linked, Fields
    <3>3. CASE d = "TAIL"
      BY <2>1, <3>1, <3>3 DEF Link, Relinked, Linked, Fields
    <3> QED BY <3>2, <3>3
  <2> QED BY <2>2, <2>3, <2>4
<1>3. S \ {a} \subseteq Nodes \ Barriers
  BY DEF Trail
<1> QED BY <1>1, <1>2, <1>3 DEF Trail

\* After a push of node a the walk has come to b and j is what remains.
LEMMA StillAhead ==
  ASSUME NEW a \in Nodes, NEW S \in SUBSET Nodes, NEW L \in [Nodes -> Nat], NEW e \in Nodes,
         NEW d \in {"HEAD", "TAIL"}, Trail(d, S, L, e), a \in S, w[a] \in Nat,
         NEW k \in Nat, k # 0, k <= L[a] - L[e], Link(d, a) # a
  PROVE  /\ Link(d, a) \in (S \ {a}) \cup {e}
         /\ Rest(a, k) = 0 \/ Rest(a, k) <= L[Link(d, a)] - L[e]
<1>1. Link(d, a) \in (S \ {a}) \cup {e} /\ L[Link(d, a)] = Rest(a, L[a])
  BY DEF Trail
<1>2. L[a] \in Nat /\ L[e] \in Nat
  OBVIOUS
<1>3. CASE a \in Spaces
  <2>1. PICK i, l, m : i = w[a] /\ l = L[a] /\ m = L[e]
    OBVIOUS
  <2>2. i \in Nat /\ l \in Nat /\ m \in Nat /\ k <= l - m
    BY <1>2, <2>1
  <2>3. k - Smaller(i, k) = 0 \/ k - Smaller(i, k) <= (l - Smaller(i, l)) - m
    BY <2>2 DEF Smaller
  <2> QED BY <1>1, <1>3, <2>1, <2>3 DEF Rest
<1>4. CASE a \notin Spaces
  BY <1>1, <1>4 DEF Rest
<1> QED BY <1>1, <1>3, <1>4

\* The walk has not come to the end of its way while sites are still needed.
LEMMA OnTheWay ==
  ASSUME NEW S \in SUBSET Nodes, NEW L \in [Nodes -> Nat], NEW e \in Nodes,
         NEW behind, Ahead(S, L, e, behind), over \in Nat, over # 0
  PROVE  at \in S /\ behind \notin S /\ over <= L[at] - L[e]
<1>1. at \in S \cup {e} /\ behind \notin S /\ over <= L[at] - L[e]
  BY DEF Ahead
<1>2. CASE at = e
  <2>1. L[e] - L[e] = 0
    <3>1. L[e] \in Nat
      OBVIOUS
    <3> QED BY <3>1
  <2> QED BY <1>1, <1>2, <2>1
<1> QED BY <1>1, <1>2

\* A push keeps the way that was counted on both sides of the new node.
LEMMA PushShifts ==
  ASSUME IInv, Placing, Walks, Push
  PROVE  Shifting'
<1>1. /\ pc = "shift" /\ pc' = "shift" /\ Walking
      /\ at \in Nodes \ Barriers /\ at \notin Rows /\ row[at] # None
      /\ over \in Nat /\ over # 0
      /\ over' = Rest(at, over) /\ at' = Link(dir, at)
      /\ Relinked(prev[at], at, next[at])
      /\ \A k \in Nodes \ {at} : w'[k] = w[k] /\ x'[k] = x[k]
      /\ \A k \in Placed : w'[k] = w[k]
      /\ UNCHANGED <<node, ref, dir, lack, toRight, job, todo, failed, was, created, stored>>
  BY PushChanges
<1>2. /\ Linked /\ w[at] \in Nat /\ node \in Placed /\ node \in Nodes \ Rows
      /\ dir \in {"HEAD", "TAIL"}
  BY <1>1, WalkMoves DEF IInv, Linked, Fields, CallTyped
<1>3. PICK f \in [Nodes -> Nat] :
        /\ Grows(f) /\ KeepsOrder(node, f)
        /\ RoomRight(f) /\ (dir = "HEAD" => RoomLeft(f))
  BY <1>1 DEF Walks, Shifting
<1>4. PICK a, p, q, c, i, j : a = at /\ p = prev[at] /\ q = next[at] /\ c = node
                              /\ i = over /\ j = Rest(at, over)
  OBVIOUS
<1>5. Grows(f)'
  BY <1>1, <1>2, <1>3, StillGrows
<1>6. KeepsOrder(c, f)'
  <2>1. \A k \in Nodes : row'[k] # None => row'[k] = row[k]
    BY <1>1, <1>2 DEF Relinked, Linked, Fields
  <2>2. \A k \in Placed : k \in Nodes
    BY DEF Placed, Nodes
  <2> QED BY <1>1, <1>3, <1>4, <2>1, <2>2 DEF KeepsOrder
<1>7. PICK S \in SUBSET Nodes, L \in [Nodes -> Nat], e \in Nodes :
        /\ OnTheRight(f, S, L, e)
        /\ IF dir = "HEAD"
           THEN next[node] \in S \cup {e} /\ L[next[node]] = w[node]
                /\ toRight <= w[node] - L[e]
           ELSE Ahead(S, L, e, prev[at])
  BY <1>3 DEF RoomRight
<1>8. /\ p \in Nodes /\ q \in Nodes /\ next[p] = a /\ prev[q] = a /\ p # a /\ q # a
      /\ f[a] < f[c] => p # c
      /\ f[c] < f[a] => q # c
      /\ p \notin Rows => f[p] < f[a]
      /\ q \notin Rows => f[a] < f[q]
      /\ f[a] \in Nat /\ f[c] \in Nat /\ f[p] \in Nat /\ f[q] \in Nat
      /\ a \in Nodes \ Rows /\ c \in Nodes \ Rows
  BY <1>1, <1>2, <1>3, <1>4, BesideWalk
<1>9. \A n \in Nodes : row[n] # None =>
        /\ prev[n] = a => n = q
        /\ next[n] = a => n = p
  BY <1>2, <1>4 DEF Linked, RowsLinked
<1>10. CASE dir = "HEAD"
  <2>1. PICK T \in SUBSET Nodes, M \in [Nodes -> Nat], b \in Nodes :
          OnTheLeft(f, T, M, b) /\ Ahead(T, M, b, next[at])
    BY <1>3, <1>10 DEF RoomLeft
  <2>2. a \in T /\ q \notin T /\ i <= M[a] - M[b]
    BY <1>1, <1>4, <2>1, OnTheWay
  <2>3. /\ Trail("HEAD", T, M, b) /\ Trail("TAIL", S, L, e)
        /\ \A n \in T : f[n] < f[c] /\ row[n] # None /\ n \in Nodes \ Rows
        /\ \A n \in S : f[c] < f[n] /\ row[n] # None /\ n \in Nodes \ Rows /\ f[n] \in Nat
    BY <1>4, <1>7, <2>1 DEF OnTheLeft, OnTheRight, Trail, Barriers
  <2>4. f[a] < f[c] /\ a \notin S
    BY <1>8, <2>2, <2>3
  <2>5. \A n \in S : next[n] # a
    <3>1. p \notin S
      BY <1>8, <2>3, <2>4
    <3> QED BY <1>9, <2>3, <3>1
  <2>6. Trail("TAIL", S, L, e)'
    <3>1. Trail("TAIL", S \ {a}, L, e)'
      BY <1>1, <1>2, <1>4, <2>3, <2>4, <2>5, TrailStays DEF Link
    <3>2. S \ {a} = S
      BY <2>4
    <3> QED BY <3>1, <3>2
  <2>7. Trail("HEAD", T \ {a}, M, b)'
    <3>1. \A n \in T : prev[n] # a \/ n = a
      BY <1>9, <2>2, <2>3
    <3> QED BY <1>1, <1>2, <1>4, <1>8, <2>2, <2>3, <3>1, TrailStays DEF Link
  <2>8. /\ p \in (T \ {a}) \cup {b}
        /\ j = 0 \/ j <= M[p] - M[b]
    BY <1>1, <1>2, <1>4, <1>8, <2>2, <2>3, StillAhead DEF Link
  <2>9. next'[p] \notin T \ {a}
    <3>1. next'[p] = a \/ next'[p] = q
      BY <1>1, <1>2, <1>4, <1>8 DEF Relinked, Linked, Fields
    <3> QED BY <2>2, <3>1
  <2>10. at' = p /\ over' = j
    BY <1>1, <1>4, <1>10 DEF Link
  <2>11. Ahead(T \ {a}, M, b, next[at])'
    BY <2>8, <2>9, <2>10 DEF Ahead
  <2>12. OnTheLeft(f, T \ {a}, M, b)'
    BY <1>1, <1>4, <2>3, <2>7 DEF OnTheLeft
  <2>13. RoomLeft(f)'
    BY <2>11, <2>12 DEF RoomLeft
  <2>14. OnTheRight(f, S, L, e)'
    BY <1>1, <1>4, <2>3, <2>6 DEF OnTheRight
  <2>15. next'[c] = next[c] /\ w'[c] = w[c]
    BY <1>1, <1>2, <1>4, <1>8, <2>4 DEF Relinked, Linked, Fields
  <2>16. RoomRight(f)'
    BY <1>1, <1>4, <1>7, <1>10, <2>14, <2>15 DEF RoomRight
  <2> QED BY <1>1, <1>4, <1>5, <1>6, <2>13, <2>16 DEF Shifting
<1>11. CASE dir = "TAIL"
  <2>1. Ahead(S, L, e, prev[at])
    BY <1>7, <1>11
  <2>2. a \in S /\ p \notin S /\ i <= L[a] - L[e]
    BY <1>1, <1>4, <2>1, OnTheWay
  <2>3. /\ Trail("TAIL", S, L, e)
        /\ \A n \in S : f[c] < f[n] /\ row[n] # None /\ n \in Nodes \ Rows
    BY <1>4, <1>7 DEF OnTheRight, Trail, Barriers
  <2>4. Trail("TAIL", S \ {a}, L, e)'
    <3>1. \A n \in S : next[n] # a \/ n = a
      BY <1>9, <2>2, <2>3
    <3> QED BY <1>1, <1>2, <1>4, <1>8, <2>2, <2>3, <3>1, TrailStays DEF Link
  <2>5. /\ q \in (S \ {a}) \cup {e}
        /\ j = 0 \/ j <= L[q] - L[e]
    BY <1>1, <1>2, <1>4, <1>8, <2>2, <2>3, StillAhead DEF Link
  <2>6. prev'[q] \notin S \ {a}
    <3>1. prev'[q] = a \/ prev'[q] = p
      BY <1>1, <1>2, <1>4, <1>8 DEF Relinked, Linked, Fields
    <3> QED BY <2>2, <3>1
  <2>7. at' = q /\ over' = j
    BY <1>1, <1>4, <1>11 DEF Link
  <2>8. Ahead(S \ {a}, L, e, prev[at])'
    BY <2>5, <2>6, <2>7 DEF Ahead
  <2>9. OnTheRight(f, S \ {a}, L, e)'
    BY <1>1, <1>4, <2>3, <2>4 DEF OnTheRight
  <2>10. RoomRight(f)'
    BY <1>1, <1>11, <2>8, <2>9 DEF RoomRight
  <2> QED BY <1>1, <1>4, <1>5, <1>6, <1>11, <2>10 DEF Shifting
<1> QED BY <1>2, <1>10, <1>11

\* The second walk goes on, on its side of the new node.
LEMMA SideOfWalk ==
  ASSUME IInv, Placing, Walks, Push
  PROVE  \E f \in [Nodes -> Nat] :
           Grows(f) /\ IF dir = "HEAD" THEN f[at] < f[node] ELSE f[node] < f[at]
<1>1. /\ pc = "shift" /\ over \in Nat /\ over # 0
  BY PushChanges
<1>2. PICK f \in [Nodes -> Nat] :
        /\ Grows(f) /\ RoomRight(f) /\ (dir = "HEAD" => RoomLeft(f))
  BY <1>1 DEF Walks, Shifting
<1>3. CASE dir = "HEAD"
  <2>1. PICK T \in SUBSET Nodes, M \in [Nodes -> Nat], b \in Nodes :
          OnTheLeft(f, T, M, b) /\ Ahead(T, M, b, next[at])
    BY <1>2, <1>3 DEF RoomLeft
  <2>2. at \in T
    BY <1>1, <2>1, OnTheWay
  <2> QED BY <1>2, <1>3, <2>1, <2>2 DEF OnTheLeft
<1>4. CASE dir # "HEAD"
  <2>1. PICK S \in SUBSET Nodes, L \in [Nodes -> Nat], e \in Nodes :
          OnTheRight(f, S, L, e) /\ Ahead(S, L, e, prev[at])
    BY <1>2, <1>4 DEF RoomRight
  <2>2. at \in S
    BY <1>1, <2>1, OnTheWay
  <2> QED BY <1>2, <1>4, <2>1, <2>2 DEF OnTheRight
<1> QED BY <1>3, <1>4

\* Going left: the walk makes room for what it takes, node by node.
LEMMA PushLeftGap ==
  ASSUME IInv, Placing, Walks, Push, dir = "HEAD"
  PROVE  Gap'
<1>1. /\ pc = "shift" /\ pc' = "shift" /\ Walking /\ dir' = "HEAD"
      /\ at \in Nodes \ Barriers /\ at \notin Rows /\ row[at] # None
      /\ over \in Nat /\ at' = prev[at]
      /\ \A k \in Nodes \ {at} : w'[k] = w[k] /\ x'[k] = x[k]
      /\ UNCHANGED <<node, toRight>>
  BY PushChanges DEF Link
<1>2. /\ Linked /\ w[node] \in Nat /\ node \in Nodes \ Rows /\ row[node] # None
      /\ at # node /\ LeftGap
      /\ prev \in [Nodes -> Nodes \cup {None}] /\ next \in [Nodes -> Nodes \cup {None}]
      /\ row \in [Nodes -> Rows \cup {None}] /\ x \in [Nodes -> Int] /\ w \in [Nodes -> Nat]
      /\ toRight \in Nat
  BY <1>1, WalkMoves DEF IInv, WalkInRow, Linked, Fields, Walks, Gap, CallTyped
<1>3. PICK f \in [Nodes -> Nat] : Grows(f) /\ f[at] < f[node]
  BY SideOfWalk
<1>4. PICK a, p, q, c, b, l, edge, k : /\ a = at /\ p = prev[at] /\ q = next[at]
        /\ c = node /\ b = next[node] /\ l = prev[node]
        /\ edge = Start(next[node]) - (w[node] - toRight) /\ k = over
  OBVIOUS
<1>5. /\ p \in Nodes /\ q \in Nodes /\ next[p] = a /\ prev[q] = a /\ p # a /\ q # a
      /\ p # c /\ a # c /\ a \in Nodes /\ a \notin Rows /\ row[p] # None /\ row[a] # None
      /\ c \in Nodes /\ c \notin Rows /\ row[c] # None
  BY <1>1, <1>2, <1>3, <1>4, BesideWalk
<1>6. /\ b \in Nodes /\ b # a /\ row[b] # None /\ prev[b] = c
      /\ l \in Nodes /\ row[l] # None /\ next[l] = c /\ l # p
  BY <1>2, <1>4, <1>5 DEF Linked, RowsLinked
<1>7. /\ \A n \in Nodes \ {c, a} : row[n] # None /\ next[n] # c => Adjoins(n)
      /\ End(a) - k = IF q = c THEN edge ELSE Start(q)
      /\ q # c => End(l) = edge
  BY <1>2, <1>4 DEF LeftGap
<1>8. /\ Start(a) = End(p) /\ Start(a) = x[a] /\ End(a) = x[a] + w[a] /\ k \in Nat
      /\ x[a] \in Int /\ w[a] \in Nat /\ End(p) \in Int
  <2>1. Adjoins(p)
    BY <1>5, <1>7
  <2> QED BY <1>1, <1>2, <1>4, <1>5, <2>1 DEF Adjoins, Start, End
<1>9. \A n \in Nodes \ {a} : Start(n)' = Start(n) /\ End(n)' = End(n)
  BY <1>1, <1>4 DEF Start, End
<1>10. q # c => l # a
  BY <1>4, <1>5, <1>6
<1>11. \A n \in Nodes \ {p} : row[n] # None => next[n] # a
  BY <1>2, <1>4 DEF Linked, RowsLinked
<1>12. edge = Start(b)' - (w'[c] - toRight')
  BY <1>1, <1>4, <1>5, <1>6, <1>9 DEF Start
<1>13. CASE ShiftCell \/ ShrinkWhitespace
  <2>1. /\ UNCHANGED <<prev, next, row>>
        /\ \/ x'[a] = x[a] /\ w'[a] = w[a] - k /\ over' = 0
           \/ x'[a] = x[a] - k /\ w'[a] = w[a] /\ over' = k
    <3>1. CASE ShiftCell
      BY <1>1, <1>2, <1>4, <1>5, <3>1 DEF ShiftCell
    <3>2. CASE ShrinkWhitespace
      BY <1>1, <1>2, <1>4, <1>5, <3>2 DEF ShrinkWhitespace
    <3> QED BY <1>13, <3>1, <3>2
  <2>2. /\ End(a)' = End(a) - k /\ Start(a)' = End(p) - over'
        /\ End(p)' = End(p)
    <3>1. End(a)' = x'[a] + w'[a] /\ Start(a)' = x'[a]
      BY <1>5 DEF End, Start
    <3>2. End(p)' = End(p)
      BY <1>5, <1>9
    <3>3. Start(a)' = End(p) - over'
      BY <1>8, <2>1, <3>1
    <3>4. End(a)' = End(a) - k
      BY <1>8, <2>1, <3>1
    <3> QED BY <3>2, <3>3, <3>4
  <2>3. \A n \in Nodes \ {c, p} : row'[n] # None /\ next'[n] # c => Adjoins(n)'
    <3>1. ASSUME NEW n \in Nodes \ {c, p, a}, row'[n] # None, next'[n] # c
          PROVE  Adjoins(n)'
      <4>1. Adjoins(n) /\ next'[n] = next[n] /\ next[n] # a /\ next[n] \in Nodes
        BY <1>7, <1>11, <2>1, <3>1, <1>2 DEF Linked, RowsLinked
      <4>2. PICK m : m = next[n]
        OBVIOUS
      <4>3. Start(m)' = Start(m) /\ End(n)' = End(n)
        BY <1>9, <4>1, <4>2
      <4> QED BY <4>1, <4>2, <4>3 DEF Adjoins, Start
    <3>2. ASSUME next'[a] # c
          PROVE  Adjoins(a)'
      <4>1. next'[a] = q /\ q # c
        BY <1>4, <2>1, <3>2
      <4>2. Start(q)' = Start(q)
        BY <1>5, <1>9
      <4> QED BY <1>7, <2>2, <4>1, <4>2 DEF Adjoins, Start
    <3> QED BY <1>5, <3>1, <3>2
  <2>4. End(p)' - over' = Start(a)'
    BY <2>2
  <2>5. End(l)' = edge
    <3>1. CASE q = c
      <4>1. l = a
        BY <1>4, <1>5, <3>1
      <4> QED BY <1>7, <2>2, <3>1, <4>1
    <3>2. CASE q # c
      BY <1>6, <1>7, <1>9, <1>10, <3>2
    <3> QED BY <3>1, <3>2
  <2>6. /\ at' = p /\ next'[p] = a /\ prev'[c] = l /\ next'[c] = b /\ node' = c
    BY <1>1, <1>4, <1>5, <2>1
  <2>7. LeftGap'
    <3>1. next'[at'] = a /\ next'[node'] = b /\ prev'[node'] = l
      BY <2>6
    <3> QED BY <1>5, <1>12, <2>3, <2>4, <2>5, <2>6, <3>1 DEF LeftGap, Start, End
  <2> QED BY <1>1, <1>5, <2>6, <2>7 DEF Gap
<1>14. CASE UseUpWhitespace
  <2>1. /\ next' = [next EXCEPT ![p] = q, ![a] = None]
        /\ prev' = [prev EXCEPT ![q] = p, ![a] = None]
        /\ row' = [row EXCEPT ![a] = None]
        /\ over' = k - w[a]
    BY <1>4, <1>14 DEF UseUpWhitespace
  <2>2. /\ at' = p /\ node' = c /\ next'[p] = q /\ next'[c] = b
        /\ q # c => prev'[c] = l
        /\ q = c => prev'[c] = p
        /\ row'[a] = None
        /\ \A n \in Nodes \ {a} : row'[n] = row[n]
        /\ \A n \in Nodes \ {a, p} : next'[n] = next[n]
    BY <1>1, <1>2, <1>4, <1>5, <2>1
  <2>3. \A n \in Nodes \ {c, p} : row'[n] # None /\ next'[n] # c => Adjoins(n)'
    <3>1. ASSUME NEW n \in Nodes \ {c, p, a}, row'[n] # None, next'[n] # c
          PROVE  Adjoins(n)'
      <4>1. Adjoins(n) /\ next'[n] = next[n] /\ next[n] # a /\ next[n] \in Nodes
        BY <1>7, <1>11, <2>2, <3>1, <1>2 DEF Linked, RowsLinked
      <4>2. PICK m : m = next[n]
        OBVIOUS
      <4>3. Start(m)' = Start(m) /\ End(n)' = End(n)
        BY <1>9, <4>1, <4>2
      <4> QED BY <4>1, <4>2, <4>3 DEF Adjoins, Start
    <3> QED BY <2>2, <3>1
  <2>4. End(p)' - over' = IF q = c THEN edge ELSE Start(q)'
    <3>1. End(p)' = End(p) /\ Start(q)' = Start(q)
      BY <1>5, <1>9
    <3>2. End(p) - over' = End(a) - k
      BY <1>8, <2>1
    <3> QED BY <1>7, <3>1, <3>2
  <2>5. q # c => End(l)' = edge
    BY <1>6, <1>7, <1>9, <1>10
  <2>6. LeftGap'
    <3>1. CASE q = c
      <4>1. next'[at'] = c /\ next'[node'] = b
        BY <2>2, <3>1
      <4> QED BY <1>5, <1>12, <2>2, <2>3, <2>4, <3>1, <4>1 DEF LeftGap, Start, End
    <3>2. CASE q # c
      <4>1. next'[at'] = q /\ next'[node'] = b /\ prev'[node'] = l
        BY <2>2, <3>2
      <4> QED BY <1>5, <1>12, <2>2, <2>3, <2>4, <2>5, <3>2, <4>1 DEF LeftGap, Start, End
    <3> QED BY <3>1, <3>2
  <2> QED BY <1>1, <1>5, <2>2, <2>6 DEF Gap
<1> QED BY <1>13, <1>14 DEF Push

\* Going right: what the walk has passed adjoins again.
LEMMA PushRightGap ==
  ASSUME IInv, Placing, Walks, Push, dir # "HEAD"
  PROVE  Gap'
<1>1. /\ pc = "shift" /\ pc' = "shift" /\ Walking /\ dir' # "HEAD"
      /\ at \in Nodes \ Barriers /\ at \notin Rows /\ row[at] # None
      /\ over \in Nat /\ at' = next[at]
      /\ \A k \in Nodes \ {at} : w'[k] = w[k] /\ x'[k] = x[k]
      /\ UNCHANGED node
  BY PushChanges DEF Link
<1>2. /\ Linked /\ w[node] \in Nat /\ node \in Nodes \ Rows /\ row[node] # None
      /\ at # node /\ RightGap
      /\ prev \in [Nodes -> Nodes \cup {None}] /\ next \in [Nodes -> Nodes \cup {None}]
      /\ row \in [Nodes -> Rows \cup {None}] /\ x \in [Nodes -> Int] /\ w \in [Nodes -> Nat]
  BY <1>1, WalkMoves DEF IInv, WalkInRow, Linked, Fields, Walks, Gap
<1>3. PICK f \in [Nodes -> Nat] : Grows(f) /\ f[node] < f[at]
  BY SideOfWalk
<1>4. PICK a, p, q, c, b, l, edge, k : /\ a = at /\ p = prev[at] /\ q = next[at]
        /\ c = node /\ b = next[node] /\ l = prev[node]
        /\ edge = End(prev[node]) + w[node] /\ k = over
  OBVIOUS
<1>5. /\ p \in Nodes /\ q \in Nodes /\ next[p] = a /\ prev[q] = a /\ p # a /\ q # a
      /\ q # c /\ a # c /\ a \in Nodes /\ a \notin Rows /\ row[p] # None /\ row[a] # None
      /\ c \in Nodes /\ c \notin Rows /\ row[c] # None /\ row[q] # None
  BY <1>1, <1>2, <1>3, <1>4, BesideWalk
<1>6. /\ b \in Nodes /\ row[b] # None /\ prev[b] = c /\ b # q
      /\ l \in Nodes /\ row[l] # None /\ next[l] = c /\ l # a
  BY <1>2, <1>4, <1>5 DEF Linked, RowsLinked
<1>7. /\ \A n \in Nodes \ {c} : row[n] # None /\ next[n] \notin {c, a} => Adjoins(n)
      /\ Start(a) + k = IF p = c THEN edge ELSE End(p)
      /\ p # c => Start(b) = edge
  BY <1>2, <1>4 DEF RightGap
<1>8. /\ Start(q) = End(a) /\ Start(a) = x[a] /\ End(a) = x[a] + w[a] /\ k \in Nat
      /\ x[a] \in Int /\ w[a] \in Nat /\ End(a) \in Int
  <2>1. Adjoins(a)
    BY <1>4, <1>5, <1>7
  <2> QED BY <1>1, <1>2, <1>4, <1>5, <2>1 DEF Adjoins, Start, End
<1>9. \A n \in Nodes \ {a} : Start(n)' = Start(n) /\ End(n)' = End(n)
  BY <1>1, <1>4 DEF Start, End
<1>10. p # c => b # a
  BY <1>4, <1>5, <1>6
<1>11. \A n \in Nodes \ {p} : row[n] # None => next[n] # a
  BY <1>2, <1>4 DEF Linked, RowsLinked
<1>12. edge = End(l)' + w'[c]
  BY <1>1, <1>4, <1>5, <1>6, <1>9
<1>13. CASE ShiftCell \/ ShrinkWhitespace
  <2>1. /\ UNCHANGED <<prev, next, row>>
        /\ x'[a] = x[a] + k
        /\ \/ w'[a] = w[a] - k /\ over' = 0
           \/ w'[a] = w[a] /\ over' = k
    <3>1. CASE ShiftCell
      BY <1>1, <1>2, <1>4, <1>5, <3>1 DEF ShiftCell
    <3>2. CASE ShrinkWhitespace
      BY <1>1, <1>2, <1>4, <1>5, <3>2 DEF ShrinkWhitespace
    <3> QED BY <1>13, <3>1, <3>2
  <2>2. /\ Start(a)' = Start(a) + k /\ End(a)' = Start(q) + over'
    <3>1. End(a)' = x'[a] + w'[a] /\ Start(a)' = x'[a]
      BY <1>5 DEF End, Start
    <3>2. Start(a)' = Start(a) + k
      BY <1>8, <2>1, <3>1
    <3>3. End(a)' = Start(q) + over'
      BY <1>8, <2>1, <3>1
    <3> QED BY <3>2, <3>3
  <2>3. \A n \in Nodes \ {c} : row'[n] # None /\ next'[n] \notin {c, q} => Adjoins(n)'
    <3>1. ASSUME NEW n \in Nodes \ {c, p}, row'[n] # None, next'[n] \notin {c, q}
          PROVE  Adjoins(n)'
      <4>1. /\ Adjoins(n) /\ next'[n] = next[n] /\ next[n] # a /\ next[n] \in Nodes
            /\ n # a
        BY <1>4, <1>7, <1>11, <2>1, <3>1, <1>2 DEF Linked, RowsLinked
      <4>2. PICK m : m = next[n]
        OBVIOUS
      <4>3. Start(m)' = Start(m) /\ End(n)' = End(n)
        BY <1>9, <4>1, <4>2
      <4> QED BY <4>1, <4>2, <4>3 DEF Adjoins, Start
    <3>2. ASSUME p # c
          PROVE  Adjoins(p)'
      <4>1. next'[p] = a /\ End(p)' = End(p)
        BY <1>5, <1>9, <2>1
      <4> QED BY <1>7, <2>2, <3>2, <4>1 DEF Adjoins, Start
    <3> QED BY <1>5, <3>1, <3>2
  <2>4. Start(q)' + over' = End(a)'
    <3>1. Start(q)' = Start(q)
      BY <1>5, <1>9
    <3> QED BY <2>2, <3>1
  <2>5. Start(b)' = edge
    <3>1. CASE p = c
      <4>1. b = a
        BY <1>4, <1>5, <3>1
      <4> QED BY <1>7, <2>2, <3>1, <4>1
    <3>2. CASE p # c
      BY <1>6, <1>7, <1>9, <1>10, <3>2
    <3> QED BY <3>1, <3>2
  <2>6. /\ at' = q /\ prev'[q] = a /\ prev'[c] = l /\ next'[c] = b /\ node' = c
    BY <1>1, <1>4, <1>5, <2>1
  <2>7. RightGap'
    <3>1. prev'[at'] = a /\ next'[node'] = b /\ prev'[node'] = l
      BY <2>6
    <3> QED BY <1>5, <1>12, <2>3, <2>4, <2>5, <2>6, <3>1 DEF RightGap, Start, End
  <2> QED BY <1>1, <1>5, <2>6, <2>7 DEF Gap
<1>14. CASE UseUpWhitespace
  <2>1. /\ next' = [next EXCEPT ![p] = q, ![a] = None]
        /\ prev' = [prev EXCEPT ![q] = p, ![a] = None]
        /\ row' = [row EXCEPT ![a] = None]
        /\ over' = k - w[a]
    BY <1>4, <1>14 DEF UseUpWhitespace
  <2>2. /\ at' = q /\ node' = c /\ prev'[q] = p /\ prev'[c] = l
        /\ p # c => next'[c] = b
        /\ p = c => next'[c] = q
        /\ row'[a] = None /\ next'[p] = q
        /\ \A n \in Nodes \ {a} : row'[n] = row[n]
        /\ \A n \in Nodes \ {a, p} : next'[n] = next[n]
    BY <1>1, <1>2, <1>4, <1>5, <2>1
  <2>3. \A n \in Nodes \ {c} : row'[n] # None /\ next'[n] \notin {c, q} => Adjoins(n)'
    <3>1. ASSUME NEW n \in Nodes \ {c, p, a}, row'[n] # None, next'[n] \notin {c, q}
          PROVE  Adjoins(n)'
      <4>1. Adjoins(n) /\ next'[n] = next[n] /\ next[n] # a /\ next[n] \in Nodes
        BY <1>7, <1>11, <2>2, <3>1, <1>2 DEF Linked, RowsLinked
      <4>2. PICK m : m = next[n]
        OBVIOUS
      <4>3. Start(m)' = Start(m) /\ End(n)' = End(n)
        BY <1>9, <4>1, <4>2
      <4> QED BY <4>1, <4>2, <4>3 DEF Adjoins, Start
    <3> QED BY <2>2, <3>1
  <2>4. Start(q)' + over' = IF p = c THEN edge ELSE End(p)'
    <3>1. Start(q)' = Start(q)
      BY <1>5, <1>9
    <3>2. Start(q) + over' = Start(a) + k
      BY <1>8, <2>1
    <3>3. p # c => End(p)' = End(p)
      BY <1>5, <1>9
    <3> QED BY <1>7, <3>1, <3>2, <3>3
  <2>5. p # c => Start(b)' = edge
    BY <1>6, <1>7, <1>9, <1>10
  <2>6. RightGap'
    <3>1. CASE p = c
      <4>1. prev'[at'] = c /\ prev'[node'] = l
        BY <2>2, <3>1
      <4> QED BY <1>5, <1>12, <2>2, <2>3, <2>4, <3>1, <4>1 DEF RightGap, Start, End
    <3>2. CASE p # c
      <4>1. prev'[at'] = p /\ next'[node'] = b /\ prev'[node'] = l
        BY <2>2, <3>2
      <4> QED BY <1>5, <1>12, <2>2, <2>3, <2>4, <2>5, <3>2, <4>1 DEF RightGap, Start, End
    <3> QED BY <3>1, <3>2
  <2> QED BY <1>1, <1>5, <2>2, <2>6 DEF Gap
<1> QED BY <1>13, <1>14 DEF Push

\* Where the walk ends nothing is needed any more.
LEMMA NothingIsLeft ==
  ASSUME IInv, Placing, Walks, pc = "shift", WalkEnds
  PROVE  over = 0
<1>1. over \in Nat
  BY DEF IInv, CallTyped
<1> SUFFICES ASSUME over # 0 PROVE FALSE
  OBVIOUS
<1>2. at \in Barriers
  BY DEF WalkEnds
<1>3. PICK f \in [Nodes -> Nat] : RoomRight(f) /\ (dir = "HEAD" => RoomLeft(f))
  BY DEF Walks, Shifting
<1>4. CASE dir = "HEAD"
  <2>1. PICK T \in SUBSET Nodes, M \in [Nodes -> Nat], b \in Nodes :
          OnTheLeft(f, T, M, b) /\ Ahead(T, M, b, next[at])
    BY <1>3, <1>4 DEF RoomLeft
  <2>2. at \in T
    BY <1>1, <2>1, OnTheWay
  <2> QED BY <1>2, <2>1, <2>2 DEF OnTheLeft, Trail
<1>5. CASE dir # "HEAD"
  <2>1. PICK S \in SUBSET Nodes, L \in [Nodes -> Nat], e \in Nodes :
          OnTheRight(f, S, L, e) /\ Ahead(S, L, e, prev[at])
    BY <1>3, <1>5 DEF RoomRight
  <2>2. at \in S
    BY <1>1, <2>1, OnTheWay
  <2> QED BY <1>2, <2>1, <2>2 DEF OnTheRight, Trail
<1> QED BY <1>4, <1>5

LEMMA PushWalks ==
  ASSUME IInv, Placing, Walks, Push
  PROVE  Walks'
<1>1. pc' = "shift"
  BY PushChanges
<1> QED BY <1>1, PushShifts, PushLeftGap, PushRightGap DEF Walks, Counting

\* The walk to the left is done, and the one to the right begins.
LEMMA ShiftRightWalks ==
  ASSUME IInv, Placing, Walks, ShiftRight
  PROVE  Placing' /\ Walks'
<1>1. /\ pc = "shift" /\ WalkEnds /\ dir = "HEAD" /\ pc' = "shift" /\ Walking
      /\ dir' = "TAIL" /\ at' = next[node] /\ over' = toRight
      /\ UNCHANGED <<prev, next, x, w, row, node, ref, lack, toRight, job, todo, failed,
                     was, created, stored>>
  BY DEF ShiftRight, list, call, Walking
<1>2. /\ Linked /\ w[node] \in Nat /\ node \in Nodes \ Rows /\ row[node] # None
      /\ over = 0 /\ at # node /\ LeftGap /\ toRight \in Nat
      /\ at \in Nodes /\ row[at] # None
  BY <1>1, WalkMoves, NothingIsLeft
  DEF IInv, WalkInRow, Walks, Gap, CallTyped
<1>3. PICK f \in [Nodes -> Nat] :
        /\ Grows(f) /\ KeepsOrder(node, f) /\ RoomRight(f)
  BY <1>1 DEF Walks, Shifting
<1>4. PICK S \in SUBSET Nodes, L \in [Nodes -> Nat], e \in Nodes :
        /\ OnTheRight(f, S, L, e)
        /\ next[node] \in S \cup {e} /\ L[next[node]] = w[node]
        /\ toRight <= w[node] - L[e]
  BY <1>1, <1>3 DEF RoomRight
<1>5. PICK c, q, l : c = node /\ q = next[node] /\ l = prev[node]
  OBVIOUS
<1>6. /\ q \in Nodes /\ row[q] # None /\ prev[q] = c /\ q # c
      /\ l \in Nodes /\ row[l] # None /\ next[l] = c
  <2>1. /\ q \in Nodes /\ row[q] # None /\ prev[q] = c
        /\ l \in Nodes /\ row[l] # None /\ next[l] = c
    BY <1>2, <1>5 DEF Linked, RowsLinked
  <2>2. q # c
    <3>1. q \notin Rows => f[c] < f[q] /\ f[c] \in Nat
      BY <1>2, <1>3, <1>5 DEF Grows
    <3> QED BY <1>2, <1>5, <3>1
  <2> QED BY <2>1, <2>2
<1>7. Placing'
  <2>1. Grounded'
    BY <1>1 DEF Placing, Grounded
  <2> QED BY <1>1, <2>1, ShiftPlaces
<1>8. Shifting'
  <2>1. Grows(f)' /\ KeepsOrder(c, f)'
    BY <1>1, <1>3, <1>5 DEF Grows, KeepsOrder
  <2>2. OnTheRight(f, S, L, e)'
    BY <1>1, <1>4 DEF OnTheRight, Trail, Link, Rest
  <2>3. c \notin S
    <3>1. c \in S => f[c] < f[c] /\ f[c] \in Nat
      BY <1>2, <1>4, <1>5 DEF OnTheRight
    <3> QED BY <3>1
  <2>4. Ahead(S, L, e, prev[at])'
    <3>1. at' = q /\ prev'[q] = c
      BY <1>1, <1>5, <1>6
    <3> QED BY <1>1, <1>4, <1>5, <2>3, <3>1 DEF Ahead
  <2>5. RoomRight(f)'
    BY <1>1, <2>2, <2>4 DEF RoomRight
  <2> QED BY <1>1, <1>5, <2>1, <2>5 DEF Shifting
<1>9. Gap'
  <2>1. PICK a, b, edge : a = at /\ b = next[at] /\ edge = Start(next[node]) - (w[node] - toRight)
    OBVIOUS
  <2>2. /\ \A n \in Nodes \ {c, a} : row[n] # None /\ next[n] # c => Adjoins(n)
        /\ End(a) - over = IF b = c THEN edge ELSE Start(b)
        /\ b # c => End(l) = edge
    BY <1>2, <1>5, <2>1 DEF LeftGap
  <2>3. End(a) = IF b = c THEN edge ELSE Start(b)
    <3>1. End(a) \in Int
      BY <1>2, <2>1 DEF Linked, Fields, End
    <3> QED BY <1>2, <2>2, <3>1
  <2>4. End(l) = edge
    <3>1. b = c => l = a
      BY <1>2, <1>5, <2>1 DEF Linked, RowsLinked
    <3> QED BY <2>2, <2>3, <3>1
  <2>5. \A n \in Nodes \ {c} : row[n] # None /\ next[n] # c => Adjoins(n)
    <3>1. b # c => Adjoins(a)
      BY <2>1, <2>3 DEF Adjoins
    <3> QED BY <2>1, <2>2, <3>1
  <2>6. Start(q) + toRight = End(l) + w[c]
    <3>1. Start(q) \in Int /\ w[c] \in Nat /\ toRight \in Nat
      BY <1>2, <1>5, <1>6, JezzAssumption DEF Start, Linked, Fields
    <3>2. edge = Start(q) - (w[c] - toRight)
      BY <1>5, <2>1
    <3> QED BY <2>4, <3>1, <3>2
  <2>7. \A n \in Nodes : Adjoins(n)' = Adjoins(n) /\ Start(n)' = Start(n) /\ End(n)' = End(n)
    BY <1>1 DEF Adjoins, Start, End
  <2>8. /\ at' = q /\ prev'[q] = c /\ node' = c /\ over' = toRight /\ prev'[c] = l
        /\ next' = next /\ row' = row /\ w' = w
    BY <1>1, <1>5, <1>6
  <2>9. RightGap'
    <3>1. \A n \in Nodes \ {c} : row'[n] # None /\ next'[n] \notin {c, q} => Adjoins(n)'
      BY <2>5, <2>7, <2>8
    <3>2. Start(q)' + over' = End(l)' + w'[c]
      BY <1>6, <2>6, <2>7, <2>8
    <3>3. prev'[at'] = c /\ prev'[node'] = l
      BY <2>8
    <3> QED BY <2>8, <3>1, <3>2, <3>3 DEF RightGap, Start, End
  <2> QED BY <1>1, <1>5, <1>6, <2>8, <2>9 DEF Gap
<1> QED BY <1>1, <1>7, <1>8, <1>9 DEF Walks, Counting

\* The new node fills the gap that is left, and its row is without gap again.
LEMMA SettleGapless ==
  ASSUME IInv, Placing, Walks, Settle
  PROVE  Gapless' /\ Grounded'
<1>1. /\ pc = "shift" /\ WalkEnds /\ dir = "TAIL" /\ Walking
      /\ x' = [x EXCEPT ![node] = End(prev[node])]
      /\ UNCHANGED <<prev, next, w, row, node, created>>
  BY DEF Settle, Walking
<1>2. /\ Linked /\ w[node] \in Nat /\ node \in Nodes \ Rows /\ row[node] # None
      /\ over = 0 /\ at # node /\ RightGap /\ node \notin Rows
      /\ at \in Nodes /\ row[at] # None
      /\ x \in [Nodes -> Int]
  BY <1>1, WalkMoves, NothingIsLeft
  DEF IInv, WalkInRow, Walks, Gap, Linked, Fields
<1>3. PICK a, p, c, b, l, edge : /\ a = at /\ p = prev[at]
        /\ c = node /\ b = next[node] /\ l = prev[node] /\ edge = End(prev[node]) + w[node]
  OBVIOUS
<1>4. /\ p \in Nodes /\ row[p] # None /\ next[p] = a
      /\ b \in Nodes /\ row[b] # None /\ prev[b] = c
      /\ l \in Nodes /\ row[l] # None /\ next[l] = c
      /\ b # c /\ l # c
  <2>1. /\ p \in Nodes /\ row[p] # None /\ next[p] = a
        /\ b \in Nodes /\ row[b] # None /\ prev[b] = c
        /\ l \in Nodes /\ row[l] # None /\ next[l] = c
    BY <1>2, <1>3 DEF Linked, RowsLinked
  <2>2. b # c
    <3>1. PICK f \in [Nodes -> Nat] : Grows(f)
      BY <1>2 DEF Linked, RowsOrdered, Grows
    <3>2. b \notin Rows => f[c] < f[b] /\ f[c] \in Nat
      BY <1>2, <1>3, <3>1 DEF Grows
    <3> QED BY <1>2, <1>3, <3>2
  <2> QED BY <1>3, <2>1, <2>2
<1>5. /\ \A n \in Nodes \ {c} : row[n] # None /\ next[n] \notin {c, a} => Adjoins(n)
      /\ Start(a) = IF p = c THEN edge ELSE End(p)
      /\ p # c => Start(b) = edge
  <2>1. Start(a) + over = IF p = c THEN edge ELSE End(p)
    BY <1>2, <1>3 DEF RightGap
  <2>2. Start(a) \in Int
    BY <1>2, <1>3, JezzAssumption DEF Start
  <2>3. Start(a) = IF p = c THEN edge ELSE End(p)
    BY <1>2, <2>1, <2>2
  <2> QED BY <1>2, <1>3, <2>3 DEF RightGap
<1>6. Start(b) = edge
  <2>1. p = c => b = a
    BY <1>3, <1>4
  <2> QED BY <1>5, <2>1
<1>7. \A n \in Nodes \ {c} : row[n] # None /\ next[n] # c => Adjoins(n)
  <2>1. ASSUME NEW n \in Nodes \ {c}, row[n] # None, next[n] = a
        PROVE  Adjoins(n)
    <3>1. n = p
      BY <1>2, <1>3, <2>1 DEF Linked, RowsLinked
    <3> QED BY <1>5, <2>1, <3>1 DEF Adjoins
  <2> QED BY <1>5, <2>1
<1>8. /\ \A n \in Nodes \ {c} : x'[n] = x[n] /\ Start(n)' = Start(n) /\ End(n)' = End(n)
      /\ x'[c] = End(l) /\ Start(c)' = End(l) /\ End(c)' = edge
  <2>1. x'[c] = End(l) /\ \A n \in Nodes \ {c} : x'[n] = x[n]
    BY <1>1, <1>2, <1>3
  <2>2. \A n \in Nodes \ {c} : Start(n)' = Start(n) /\ End(n)' = End(n)
    BY <1>1, <2>1 DEF Start, End
  <2>3. Start(c)' = x'[c] /\ End(c)' = x'[c] + w[c]
    BY <1>1, <1>2, <1>3 DEF Start, End
  <2> QED BY <1>3, <2>1, <2>2, <2>3
<1>9. ASSUME NEW n \in Nodes, row'[n] # None
      PROVE  Adjoins(n)'
  <2>1. PICK m : m = next[n]
    OBVIOUS
  <2>2. m \in Nodes /\ row[n] # None /\ next'[n] = m
    BY <1>1, <1>2, <1>9, <2>1 DEF Linked, RowsLinked
  <2>3. Start(m)' = End(n)'
    <3>1. CASE n = c
      BY <1>3, <1>4, <1>6, <1>8, <2>1, <3>1
    <3>2. CASE m = c
      <4>1. prev[next[n]] = n
        BY <1>2, <2>2 DEF Linked, RowsLinked
      <4>2. n = l
        BY <1>3, <2>1, <3>2, <4>1
      <4> QED BY <1>4, <1>8, <3>2, <4>2
    <3>3. CASE n # c /\ m # c
      <4>1. Start(m) = End(n)
        BY <1>7, <2>1, <2>2, <3>3 DEF Adjoins
      <4> QED BY <1>8, <2>2, <3>3, <4>1
    <3> QED BY <3>1, <3>2, <3>3
  <2> QED BY <2>2, <2>3 DEF Adjoins, Start
<1>10. Grounded'
  <2>1. Rows \subseteq Nodes
    BY DEF Nodes
  <2> QED BY <1>1, <1>2, <1>3, <1>8, <2>1 DEF Placing, Grounded
<1> QED BY <1>9, <1>10 DEF Gapless

\* Numbers that grow along the rows tell how the nodes of a row lie.
OrderIsPlace ==
  \A f \in [Nodes -> Nat], r \in Rows :
    Grows(f) => \A m, n \in Members(r) : f[m] < f[n] => x[m] < x[n]

LEMMA OrderOfPlaces == Linked /\ Grounded /\ Gapless => OrderIsPlace
<1> SUFFICES ASSUME Linked, Grounded, Gapless, NEW f \in [Nodes -> Nat], Grows(f),
                    NEW r \in Rows, NEW m \in Members(r), NEW n \in Members(r), f[m] < f[n]
             PROVE  x[m] < x[n]
  BY DEF OrderIsPlace
<1>1. /\ Rank \in [Nodes -> Nat] /\ Grows(Rank)
      /\ Rank[m] = x[m] + 1 /\ Rank[n] = x[n] + 1
  BY RankGrows
<1> HIDE DEF Rank
<1>2. Rank \in [Nodes -> Int]
  BY <1>1
<1>3. Rank[m] < Rank[n]
  BY <1>1, <1>2, SameOrder
<1>4. x[m] \in Int /\ x[n] \in Int
  BY MemberAdjoins
<1> QED BY <1>1, <1>3, <1>4

LEMMA SettlePlaces ==
  ASSUME IInv, Placing, Walks, Settle
  PROVE  Placing'
<1>1. /\ pc = "shift" /\ Walking /\ pc' = "next" /\ todo' = Without(todo, node)
      /\ x' = [x EXCEPT ![node] = End(prev[node])]
      /\ UNCHANGED <<prev, next, w, row, node, job, failed, was, created, stored>>
  BY DEF Settle, Walking
<1>2. Gapless' /\ Grounded'
  BY SettleGapless
<1>3. /\ job = "insert" /\ node \in created /\ node \in Placed /\ node \notin Obstacles
      /\ DOMAIN todo = {node} /\ Moving(node) /\ ~failed
      /\ was \in [Placed -> [row : Rows \cup {None}, x : Int]]
      /\ x \in [Nodes -> Int] /\ Linked
  BY <1>1, WalkMoves DEF IInv, Linked, Fields
<1>4. DOMAIN todo' = {}
  BY <1>1, <1>3 DEF Without
<1>5. /\ \A o \in Obstacles : o \in Placed \ {node} /\ x'[o] = x[o]
      /\ \A n \in Placed : n \in Nodes \ Rows
  BY <1>1, <1>3, JezzAssumption DEF Placed, Nodes
<1>6. StoredFits'
  <2>1. \A n \in Obstacles \cup DOMAIN stored : n \in Placed
    BY DEF IInv, CallTyped, Placed
  <2> QED BY <1>1, <2>1, StoredFitsStays DEF Placing
<1>7. ObstaclesPut'
  BY <1>1, <1>3, <1>4, <1>5 DEF Placing, ObstaclesPut
<1>8. PICK c : c = node
  OBVIOUS
<1>9. KeepsOrder(c, x)'
  <2>1. PICK f \in [Nodes -> Nat] : Grows(f) /\ KeepsOrder(node, f)
    BY <1>1 DEF Walks, Shifting
  <2>2. Linked' /\ Grows(f)'
    <3>1. Grows(f)'
      BY <1>1, <2>1 DEF Grows
    <3> QED BY <3>1, SettleKeepsIInv DEF IInv
  <2>3. ASSUME NEW m \in Placed \ {c}, NEW n \in Placed \ {c},
               row'[m] # None, row'[m] = row'[n], was'[m].x < was'[n].x
        PROVE  x'[m] < x'[n]
    <3>1. f[m] < f[n]
      BY <1>1, <1>8, <2>1, <2>3 DEF KeepsOrder
    <3>2. PICK r : r = row[m]
      OBVIOUS
    <3>3. r \in Rows /\ m \in Members(r)' /\ n \in Members(r)'
      BY <1>1, <1>3, <1>5, <2>3, <3>2 DEF Members, Linked, Fields
    <3>4. OrderIsPlace'
      BY <1>2, <2>2, OrderOfPlaces, PTL
    <3> QED BY <2>2, <3>1, <3>3, <3>4 DEF OrderIsPlace
  <2> QED BY <2>3 DEF KeepsOrder
<1>10. Moving(c)'
  <2>1. Fits(was)'
    BY <1>1, <1>3, WasStillFits DEF Moving
  <2>2. /\ DOMAIN todo' = {} /\ node' = c /\ ~failed' /\ job' # "insertInSpace"
        /\ \A n \in Placed \ {c} : row'[n] = was'[n].row
        /\ \A o \in Obstacles : x'[o] = was'[o].x
    BY <1>1, <1>3, <1>4, <1>5, <1>8 DEF Moving
  <2> QED BY <1>9, <2>1, <2>2 DEF Moving
<1>11. Moves' /\ Returns' /\ CallShape'
  BY <1>1, <1>3, <1>8, <1>10, Jobs DEF Moves, Returns, CallShape, Walking, Back
<1> QED BY <1>2, <1>6, <1>7, <1>11 DEF Placing

-----------------------------------------------------------------------------

\* The second part of the inductive invariant: what lies where, during a call
\* and between calls.
JInv == IInv /\ Placing /\ Walks

LEMMA InitJInv == Init => JInv
<1>1. Init => Walks
  BY NoWalk DEF Init
<1> QED BY <1>1, InitIInv, InitPlacing DEF JInv

LEMMA CallsPlace ==
  ASSUME ~EditsAfterStore, IInv, Placing, Calls
  PROVE  Placing'
<1>1. ASSUME NEW c \in Cells, NEW t \in Targets,
             \/ \E r \in Rows : Insert(c, {r}, t, "insert")
             \/ Insert(c, Rows, t, "insert")
             \/ Insert(c, Rows, t, "insertInSpace")
      PROVE  Placing'
  <2>1. "insert" \in Insertions /\ "insertInSpace" \in Insertions
    BY DEF Insertions
  <2>2. Rows \in SUBSET Rows /\ \A r \in Rows : {r} \in SUBSET Rows
    OBVIOUS
  <2> QED BY <1>1, <2>1, <2>2, InsertPlaces
<1>2. ASSUME NEW c \in Cells,
             Remove(c) \/ \E k \in Widths[c] : Remap(c, k) \/ Create(c, k)
      PROVE  Placing'
  BY <1>2, EditsPlace
<1> QED BY <1>1, <1>2, StoreSolutionPlaces, RestoreSolutionFullPlaces,
        RestoreSolutionIncrementalPlaces DEF Calls

LEMMA StepsPlace ==
  ASSUME IInv, Placing, Walks, Steps
  PROVE  Placing'
<1>1. ASSUME NEW n \in Placed, NEW r \in Rows,
             Enclose(n, r) \/ Approach(n, r) \/ NoWhitespace(n, r)
      PROVE  Placing'
  BY <1>1, EnclosePlaces, ApproachPlaces, NoWhitespacePlaces
<1> QED BY <1>1, ComparePlaces, CompareEndsPlaces, CountPlaces, NoRoomPlaces,
        LinkNodePlaces, PushPlaces, ShiftRightWalks, SettlePlaces, RollbackPlaces,
        ReturnPlaces DEF Steps, Push

\* A call that begins, or a step that ends a walk or takes none.
LEMMA OffTheWalk ==
  ASSUME IInv, Calls \/ (\E c \in Cells : Compare(c)) \/ CompareEnds \/ NoRoom \/ Settle
               \/ Rollback \/ Return \/ \E n \in Placed, r \in Rows :
                                          Enclose(n, r) \/ NoWhitespace(n, r)
  PROVE  Walks'
<1>1. CASE Calls
  <2>1. pc' \in {"idle", "next", "compare"}
    BY <1>1 DEF Calls, Insert, Remove, Remap, Create, StoreSolution, RestoreSolutionFull,
       RestoreSolutionIncremental, Idle, Begin, call
  <2> QED BY <2>1 DEF Walks, Counting, Shifting, Gap
<1>2. CASE (\E c \in Cells : Compare(c)) \/ CompareEnds \/ NoRoom \/ Settle
           \/ Rollback \/ Return
  <2>1. pc' \in {"idle", "next", "compare"}
    BY <1>2 DEF Compare, CompareEnds, NoRoom, Overflow, Settle, Rollback, CallEnds, Return
  <2> QED BY <2>1 DEF Walks, Counting, Shifting, Gap
<1>3. ASSUME NEW n \in Placed, NEW r \in Rows, Enclose(n, r) \/ NoWhitespace(n, r)
      PROVE  Walks'
  <2>1. pc' = "next"
    BY <1>3 DEF Enclose, NoWhitespace, Turn, Overflow
  <2> QED BY <2>1 DEF Walks, Counting, Shifting, Gap
<1> QED BY <1>1, <1>2, <1>3

\* The walk to the left or to the right stays where it is.
LEMMA ShiftingStays ==
  ASSUME Shifting,
         UNCHANGED <<prev, next, w, row, node, dir, at, over, toRight, pc, created, was>>
  PROVE  Shifting'
<1>1. SUFFICES ASSUME pc = "shift" PROVE Shifting'
  BY DEF Shifting
<1>2. PICK f \in [Nodes -> Nat] :
        /\ Grows(f) /\ KeepsOrder(node, f) /\ RoomRight(f)
        /\ dir = "HEAD" => RoomLeft(f)
  BY <1>1 DEF Shifting
<1>3. Grows(f)'
  BY <1>2 DEF Grows
<1>4. KeepsOrder(node, f)'
  BY <1>2 DEF KeepsOrder, Placed
<1>5. RoomRight(f)'
  <2>1. PICK S \in SUBSET Nodes, L \in [Nodes -> Nat], e \in Nodes :
          /\ OnTheRight(f, S, L, e)
          /\ IF dir = "HEAD"
             THEN next[node] \in S \cup {e} /\ L[next[node]] = w[node]
                  /\ toRight <= w[node] - L[e]
             ELSE Ahead(S, L, e, prev[at])
    BY <1>2 DEF RoomRight
  <2>2. OnTheRight(f, S, L, e)'
    BY <2>1 DEF OnTheRight, Trail, Link, Rest
  <2>3. dir # "HEAD" => Ahead(S, L, e, prev[at])'
    BY <2>1 DEF Ahead
  <2> QED BY <2>1, <2>2, <2>3 DEF RoomRight
<1>6. dir' = "HEAD" => RoomLeft(f)'
  <2> SUFFICES ASSUME dir = "HEAD" PROVE RoomLeft(f)'
    OBVIOUS
  <2>1. PICK T \in SUBSET Nodes, M \in [Nodes -> Nat], b \in Nodes :
          OnTheLeft(f, T, M, b) /\ Ahead(T, M, b, next[at])
    BY <1>2 DEF RoomLeft
  <2>2. OnTheLeft(f, T, M, b)'
    BY <2>1 DEF OnTheLeft, Trail, Link, Rest
  <2>3. Ahead(T, M, b, next[at])'
    BY <2>1 DEF Ahead
  <2> QED BY <2>2, <2>3 DEF RoomLeft
<1> QED BY <1>2, <1>3, <1>4, <1>5, <1>6 DEF Shifting

LEMMA NextKeepsJInv ==
  ASSUME ~EditsAfterStore, JInv, [Next]_vars
  PROVE  JInv'
<1>1. IInv /\ Placing /\ Walks
  BY DEF JInv
<1>2. IInv'
  BY <1>1, NextKeepsIInv
<1>3. CASE Calls
  BY <1>1, <1>2, <1>3, CallsPlace, OffTheWalk DEF JInv
<1>4. CASE Steps
  <2>1. Placing'
    BY <1>1, <1>4, StepsPlace
  <2>2. Walks'
    <3>1. ASSUME NEW n \in Placed, NEW r \in Rows, Approach(n, r)
          PROVE  Walks'
      BY <1>1, <3>1, ApproachWalks
    <3>2. CASE \E n \in Placed, r \in Rows :
                 Enclose(n, r) \/ Approach(n, r) \/ NoWhitespace(n, r)
      BY <1>1, <3>1, <3>2, OffTheWalk
    <3> QED BY <1>1, <1>4, <3>2, OffTheWalk, CountWalks, CountRightWalks, LinkNodeWalks,
            PushWalks, ShiftRightWalks DEF Steps, Push
  <2> QED BY <1>2, <2>1, <2>2 DEF JInv
<1>5. CASE UNCHANGED vars
  <2>1. UNCHANGED <<prev, next, x, w, row, node, ref, dir, at, over, lack, toRight, pc, job,
                    todo, failed, was, created, stored>>
    BY <1>5 DEF vars, list, walk, call
  <2>2. Placing'
    <3>1. Grounded' /\ (pc # "shift" => Gapless')
      BY <1>1, <2>1 DEF Placing, Grounded, Gapless, Adjoins, Start, End
    <3>2. StoredFits'
      BY <1>1, <2>1, StoredFitsStays DEF Placing
    <3>3. CallShape' /\ ObstaclesPut'
      BY <1>1, <2>1 DEF Placing, CallShape, Walking, ObstaclesPut
    <3>4. Returns'
      <4>1. Home' = Home /\ Returns
        BY <1>1, <2>1, HomeStays DEF Placing
      <4>2. Fits(was)' = Fits(was)
        BY <2>1 DEF Fits
      <4> HIDE DEF Home
      <4> QED BY <2>1, <4>1, <4>2 DEF Returns, ToCompare, AtHome
    <3>5. Moves'
      BY <1>1, <2>1 DEF Placing, Moves, Moving, KeepsOrder, Fits
    <3> QED BY <2>1, <3>1, <3>2, <3>3, <3>4, <3>5 DEF Placing
  <2>3. Walks'
    <3>1. Counting'
      BY <1>1, <2>1 DEF Walks, Counting, LeftCounted, RightCounted, LeftTrail, RightTrail,
         Trail, Link, Rest, End
    <3>2. Shifting'
      BY <1>1, <2>1, ShiftingStays DEF Walks
    <3>3. Gap'
      BY <1>1, <2>1 DEF Walks, Gap, LeftGap, RightGap, Adjoins, Start, End
    <3> QED BY <3>1, <3>2, <3>3 DEF Walks
  <2> QED BY <1>2, <2>2, <2>3 DEF JInv
<1> QED BY <1>3, <1>4, <1>5 DEF Next

\* Rows are consistent where they are without gap.
LEMMA GaplessIsConsistent ==
  ASSUME JInv
  PROVE  RowsConsistent
<1> SUFFICES ASSUME pc \in {"idle", "next", "compare"}, NEW n \in Nodes, row[n] # None
             PROVE  /\ n \notin Rows => w[n] > 0
                    /\ next[n] \in Nodes /\ Joined(n, next[n], row[n])
                    /\ prev[n] \in Nodes /\ next[prev[n]] = n
  BY DEF RowsConsistent
<1>1. RowsLinked /\ Gapless
  BY DEF JInv, IInv, Linked, Placing
<1>2. /\ n \notin Rows => w[n] > 0
      /\ next[n] \in Nodes /\ row[next[n]] = row[n] /\ prev[next[n]] = n
      /\ prev[n] \in Nodes /\ next[prev[n]] = n
      /\ n \in Spaces => next[n] \notin Spaces
  BY <1>1 DEF RowsLinked
<1>3. IF next[n] \in Rows THEN End(n) = Sites ELSE x[next[n]] = End(n)
  BY <1>1 DEF Gapless, Adjoins, Start
<1> QED BY <1>2, <1>3 DEF Joined

\* At the end of an insertion the others are in the rows and in the order in
\* which they were; at the end of a rollback they are where they were.
LEMMA OthersAreInOrder ==
  ASSUME JInv
  PROVE  OthersKeepOrder
<1> SUFFICES ASSUME CallEnds, job \in {"rollback"} \cup Insertions
             PROVE  LET others == Placed \ {node}
                    IN  /\ \A n \in others : row[n] = was[n].row
                        /\ \A o \in Obstacles : x[o] = was[o].x
                        /\ \A m, n \in others :
                             row[m] # None /\ row[m] = row[n] /\ was[m].x < was[n].x =>
                               x[m] < x[n]
                        /\ failed => \A n \in others : Legalized(n) => x[n] = was[n].x
  BY DEF OthersKeepOrder
<1>1. pc = "next" /\ DOMAIN todo = {} /\ \A o \in Obstacles : o \in Placed
  BY DEF CallEnds, Placed
<1>2. CASE job \in Insertions
  <2>1. PICK c \in created : Moving(c)
    BY <1>2 DEF JInv, Placing, Moves
  <2>2. node = c
    BY <1>1, <2>1 DEF Moving
  <2> QED BY <1>1, <2>1, <2>2 DEF Moving, KeepsOrder, Legalized
<1>3. CASE job = "rollback"
  <2>1. Home = was /\ Returns /\ ObstaclesPut
    BY <1>3 DEF Home, JInv, Placing
  <2>2. /\ \A n \in Placed : row[n] # None => AtHome(n)
        /\ DOMAIN was = Placed
        /\ \A n \in Placed : row[n] = was[n].row
    <3> HIDE DEF Home
    <3> QED BY <1>1, <1>3, <2>1 DEF Returns, ToCompare
  <2>3. \A n \in Placed : row[n] # None => x[n] = was[n].x
    <3> HIDE DEF Home
    <3> QED BY <2>1, <2>2 DEF AtHome
  <2>4. \A o \in Obstacles : row[o] # None
    BY <1>1, <2>1, BlockAssumption, JezzAssumption DEF ObstaclesPut, Nodes
  <2> QED BY <1>1, <2>2, <2>3, <2>4 DEF Legalized
<1> QED BY <1>2, <1>3

\* A call that brings nodes back has brought each to its place when it ends.
LEMMA AllAreHome ==
  ASSUME JInv, CallEnds, job \in Back
  PROVE  /\ ~failed
         /\ \A n \in DOMAIN Home :
              row[n] = Home[n].row /\ (row[n] # None => x[n] = Home[n].x)
         /\ job = "rollback" => DOMAIN Home = Placed
         /\ DOMAIN Home \subseteq Placed
<1>1. pc = "next" /\ DOMAIN todo = {}
  BY DEF CallEnds
<1>2. Returns
  BY DEF JInv, Placing
<1>3. job = "rollback" => DOMAIN was = Placed
  BY <1>2 DEF Returns
<1>4. job = "rollback" => DOMAIN Home = Placed
  BY <1>3 DEF Home
<1>5. DOMAIN Home \subseteq Placed
  <2>1. Obstacles \cup DOMAIN stored \subseteq Placed
    BY DEF JInv, IInv, CallTyped, Placed
  <2> QED BY <1>4, <2>1 DEF Home, StoredHome
<1> HIDE DEF Home
<1> QED BY <1>1, <1>2, <1>4, <1>5 DEF Returns, Back, ToCompare, AtHome

LEMMA RollbackIsExact ==
  ASSUME JInv
  PROVE  RollbackExact
<1> SUFFICES ASSUME CallEnds, job = "rollback"
             PROVE  /\ ~failed
                    /\ \A n \in Placed :
                         row[n] = was[n].row /\ (Legalized(n) => x[n] = was[n].x)
  BY DEF RollbackExact
<1>1. job \in Back /\ Home = was
  BY DEF Back, Home
<1> HIDE DEF Home
<1> QED BY <1>1, AllAreHome DEF Legalized

LEMMA RestoreIsExact ==
  ASSUME JInv
  PROVE  RestoreExact
<1> SUFFICES ASSUME CallEnds, job = "restore"
             PROVE  /\ ~failed
                    /\ \A c \in DOMAIN stored :
                         row[c] = stored[c].row /\ x[c] = stored[c].x
  BY DEF RestoreExact
<1>1. /\ job \in Back
      /\ \A c \in DOMAIN stored : c \in DOMAIN Home /\ Home[c] = stored[c] /\ c \in Nodes
  BY JezzAssumption DEF Back, Home, StoredHome, JInv, IInv, CallTyped, Nodes
<1>2. ~failed /\ \A c \in DOMAIN stored :
        row[c] = stored[c].row /\ (row[c] # None => x[c] = stored[c].x)
  <2> HIDE DEF Home
  <2> QED BY <1>1, AllAreHome
<1>3. \A c \in DOMAIN stored : row[c] = None => x[c] = 0 /\ stored[c].x = 0
  BY <1>1, <1>2 DEF JInv, Placing, Grounded, StoredFits
<1> QED BY <1>2, <1>3

(***************************************************************************)
(* The theorems.                                                           *)
(***************************************************************************)

\* Links lead to nodes, counters of a walk never go below 0, goals are rows and
\* positions, as long as no cell is new to the stored solution.
THEOREM TypeCorrect ==
  ASSUME ~EditsAfterStore
  PROVE  Spec => []TypeOK
<1>1. IInv /\ [Next]_vars => IInv'
  BY NextKeepsIInv
<1>2. IInv => TypeOK
  BY DEF IInv, Linked, Fields, CallTyped, TypeOK
<1> QED BY <1>1, <1>2, InitIInv, PTL DEF Spec

\* However cells are inserted, pushed aside, removed, remapped, created, moved
\* back and restored, the links of every row agree in both directions at every
\* step, no node in a row links to one outside it, no two whitespaces meet and
\* none is empty: for any rows, widths, obstacles and targets.
THEOREM ListsNeverBreak ==
  ASSUME ~EditsAfterStore
  PROVE  Spec => []RowsLinked
<1>1. IInv /\ [Next]_vars => IInv'
  BY NextKeepsIInv
<1>2. IInv => RowsLinked
  BY DEF IInv, Linked
<1> QED BY <1>1, <1>2, InitIInv, PTL DEF Spec

\* No circle of links leaves out the root of its row: following the links from a
\* node, the walks of an insertion meet the end of the row.
THEOREM NoCircleOffTheRoot ==
  ASSUME ~EditsAfterStore
  PROVE  Spec => []RowsOrdered
<1>1. IInv /\ [Next]_vars => IInv'
  BY NextKeepsIInv
<1>2. IInv => RowsOrdered
  BY DEF IInv, Linked
<1> QED BY <1>1, <1>2, InitIInv, PTL DEF Spec

\* Whenever no insertion is under way, the nodes of every row cover its sites
\* from the first to the last without gap or overlap: a cell is pushed aside only
\* by sites that the first walk has found, and the new one fills exactly what the
\* second walk has opened.
THEOREM RowsAreCovered ==
  ASSUME ~EditsAfterStore
  PROVE  Spec => []RowsConsistent
<1>1. JInv /\ [Next]_vars => JInv'
  BY NextKeepsJInv
<1>2. JInv => RowsConsistent
  BY GaplessIsConsistent
<1> QED BY <1>1, <1>2, InitJInv, PTL DEF Spec

\* An insertion leaves the other cells of a row in their order and the obstacles
\* in place, and moves no one when it fails.
THEOREM OrderIsKept ==
  ASSUME ~EditsAfterStore
  PROVE  Spec => []OthersKeepOrder
<1>1. JInv /\ [Next]_vars => JInv'
  BY NextKeepsJInv
<1>2. JInv => OthersKeepOrder
  BY OthersAreInOrder
<1> QED BY <1>1, <1>2, InitJInv, PTL DEF Spec

\* A rolled back move finds room for the cell where it was and leaves every cell
\* where it was.
THEOREM RollbackRestores ==
  ASSUME ~EditsAfterStore
  PROVE  Spec => []RollbackExact
<1>1. JInv /\ [Next]_vars => JInv'
  BY NextKeepsJInv
<1>2. JInv => RollbackExact
  BY RollbackIsExact
<1> QED BY <1>1, <1>2, InitJInv, PTL DEF Spec

\* Restoring a stored solution, in full or by comparison, never finds a stored
\* place taken and ends with every cell where it was stored.
THEOREM StoredSolutionReturns ==
  ASSUME ~EditsAfterStore
  PROVE  Spec => []RestoreExact
<1>1. JInv /\ [Next]_vars => JInv'
  BY NextKeepsJInv
<1>2. JInv => RestoreExact
  BY RestoreIsExact
<1> QED BY <1>1, <1>2, InitJInv, PTL DEF Spec

=============================================================================
