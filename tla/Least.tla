-------------------------------- MODULE Least --------------------------------
(***************************************************************************)
(* Facts that the proofs share: the least element of a set of naturals,    *)
(* which the first match of a search is; a smallest one among finite sets; *)
(* and the bounds of a finite set of times or places.                      *)
(***************************************************************************)
EXTENDS Integers, FiniteSetTheorems, WellFoundedInduction, TLAPS

\* A non-empty set of naturals has a least element.
LEMMA HasLeast ==
  ASSUME NEW S \in SUBSET Nat, S # {}
  PROVE  \E i \in S : \A j \in S : i <= j
<1>1. IsWellFoundedOn(OpToRel(<, Nat), Nat)
  BY NatLessThanWellFounded
<1>2. PICK i \in S : \A j \in S : ~ (<<j, i>> \in OpToRel(<, Nat))
  BY <1>1, WFMin
<1>3. \A j \in S : ~ (j < i)
  BY <1>2 DEF OpToRel
<1> QED BY <1>3

\* Among subsets of a finite set there is one that includes no other.
LEMMA HasSmallestSet ==
  ASSUME NEW S, IsFiniteSet(S), NEW B, B # {}, \A T \in B : T \subseteq S
  PROVE  \E T \in B : \A U \in B : U \subseteq T => U = T
<1>1. IsWellFoundedOn(StrictSubsetOrdering(S), SUBSET S)
  BY FS_StrictSubsetOrderingWellFounded, FS_FiniteSubsetsOfFinite
<1> B \subseteq SUBSET S
  OBVIOUS
<1>2. PICK T \in B : \A U \in B : ~ (<<U, T>> \in StrictSubsetOrdering(S))
  BY <1>1, WFMin
<1>3. \A U \in B : U \subseteq T => U = T
  BY <1>2 DEF StrictSubsetOrdering
<1> QED BY <1>3

\* A finite set of integers that is not empty has a greatest element.
LEMMA HasGreatest ==
  ASSUME NEW S \in SUBSET Int, IsFiniteSet(S), S # {}
  PROVE  \E i \in S : \A j \in S : i >= j
<1> DEFINE B == {T \in SUBSET S : T # {} /\ ~ \E i \in T : \A j \in T : i >= j}
<1>1. CASE B # {}
  <2>1. PICK T \in B : \A U \in B : U \subseteq T => U = T
    <3>1. \A T \in B : T \subseteq S
      OBVIOUS
    <3> HIDE DEF B
    <3> QED BY <1>1, <3>1, HasSmallestSet
  <2>2. PICK i \in T : TRUE
    OBVIOUS
  <2>3. T \ {i} \notin B /\ T \ {i} \in SUBSET S
    BY <2>1, <2>2
  <2>4. CASE T \ {i} = {}
    BY <2>2, <2>4
  <2>5. CASE \E k \in T \ {i} : \A j \in T \ {i} : k >= j
    <3>1. PICK k \in T \ {i} : \A j \in T \ {i} : k >= j
      BY <2>5
    <3>2. i >= k \/ k >= i
      BY <3>1
    <3>3. (\A j \in T : i >= j) \/ (\A j \in T : k >= j)
      BY <3>1, <3>2
    <3> QED BY <2>2, <3>1, <3>3
  <2> QED BY <2>3, <2>4, <2>5
<1>2. CASE B = {}
  BY <1>2
<1> QED BY <1>1, <1>2

\* It has a least element, too.
LEMMA HasSmallest ==
  ASSUME NEW S \in SUBSET Int, IsFiniteSet(S), S # {}
  PROVE  \E i \in S : \A j \in S : i <= j
<1> DEFINE B == {T \in SUBSET S : T # {} /\ ~ \E i \in T : \A j \in T : i <= j}
<1>1. CASE B # {}
  <2>1. PICK T \in B : \A U \in B : U \subseteq T => U = T
    <3>1. \A T \in B : T \subseteq S
      OBVIOUS
    <3> HIDE DEF B
    <3> QED BY <1>1, <3>1, HasSmallestSet
  <2>2. PICK i \in T : TRUE
    OBVIOUS
  <2>3. T \ {i} \notin B /\ T \ {i} \in SUBSET S
    BY <2>1, <2>2
  <2>4. CASE T \ {i} = {}
    BY <2>2, <2>4
  <2>5. CASE \E k \in T \ {i} : \A j \in T \ {i} : k <= j
    <3>1. PICK k \in T \ {i} : \A j \in T \ {i} : k <= j
      BY <2>5
    <3>2. i <= k \/ k <= i
      BY <3>1
    <3>3. (\A j \in T : i <= j) \/ (\A j \in T : k <= j)
      BY <3>1, <3>2
    <3> QED BY <2>2, <3>1, <3>3
  <2> QED BY <2>3, <2>4, <2>5
<1>2. CASE B = {}
  BY <1>2
<1> QED BY <1>1, <1>2

=============================================================================
