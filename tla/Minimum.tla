------------------------------ MODULE Minimum ------------------------------
(***************************************************************************)
(* The least element of a set of numbers.  The program takes it wherever   *)
(* it says ORDER BY id or looks for the first free address; and a number   *)
(* that a loop over a list would be the first to fail at is one.           *)
(***************************************************************************)
EXTENDS Integers, FiniteSets, TLAPS, FiniteSetTheorems, WellFoundedInduction

\* Among the finite sets of members up to x, one is minimal for inclusion: its x is the least.
LEMMA MinimumExists ==
  ASSUME NEW S, S \subseteq Nat, IsFiniteSet(S), S # {}
  PROVE  \E x \in S : \A y \in S : x <= y
<1> DEFINE Upto(x) == {y \in S : y <= x}
<1> DEFINE F == {Upto(x) : x \in S}
<1>1. S \subseteq Nat /\ IsFiniteSet(S)
  OBVIOUS
<1>2. IsWellFoundedOn(StrictSubsetOrdering(S), FiniteSubsetsOf(S))
  BY FS_StrictSubsetOrderingWellFounded
<1>3. F \subseteq FiniteSubsetsOf(S) /\ F # {}
  <2>1. FiniteSubsetsOf(S) = SUBSET S
    BY <1>1, FS_FiniteSubsetsOfFinite
  <2>2. \A x \in S : Upto(x) \in SUBSET S
    OBVIOUS
  <2>3. PICK x \in S : TRUE
    OBVIOUS
  <2>4. Upto(x) \in F
    BY <2>3
  <2>5. \A V \in F : V \in SUBSET S
    BY <2>2
  <2> HIDE DEF F
  <2> QED BY <2>1, <2>4, <2>5
<1>4. PICK U \in F : \A V \in F : ~(<<V, U>> \in StrictSubsetOrdering(S))
  <2> HIDE DEF F
  <2> QED BY <1>2, <1>3, WFMin
<1>5. PICK x \in S : U = Upto(x)
  BY <1>4
<1>6. ASSUME NEW y \in S PROVE x <= y
  <2> SUFFICES ASSUME y < x PROVE FALSE
    BY <1>1
  <2>0. x \in Nat /\ y \in Nat /\ \A z \in S : z \in Nat
    BY <1>1
  <2>a. \A z \in Upto(y) : z \in Upto(x)
    BY <2>0
  <2>b. x \in Upto(x)
    BY <2>0
  <2>c. x \notin Upto(y)
    BY <2>0
  <2>1. Upto(y) \subseteq Upto(x) /\ Upto(y) # Upto(x)
        /\ Upto(x) \in SUBSET S /\ Upto(y) \in SUBSET S
    BY <2>a, <2>b, <2>c
  <2>2. <<Upto(y), Upto(x)>> \in StrictSubsetOrdering(S)
    BY <2>1 DEF StrictSubsetOrdering
  <2> QED BY <1>4, <1>5, <2>2
<1> QED BY <1>6

\* A set that has 0, and with a number below m the next, has all numbers up to m.
LEMMA Upward ==
  ASSUME NEW m \in Nat, NEW S, 0 \in S, \A n \in 0 .. m : n < m /\ n \in S => n + 1 \in S
  PROVE  0 .. m \subseteq S
<1> DEFINE Out == {n \in 0 .. m : n \notin S}
<1>1. SUFFICES ASSUME Out # {} PROVE FALSE
  OBVIOUS
<1>2. IsFiniteSet(0 .. m)
  BY FS_Interval
<1>3. IsFiniteSet(Out) /\ Out \subseteq Nat
  BY <1>2, FS_Subset
<1>4. PICK n \in Out : \A k \in Out : n <= k
  <2> HIDE DEF Out
  <2> QED BY <1>1, <1>3, MinimumExists
<1>5. n \in 0 .. m /\ n # 0
  BY <1>4
<1>6. n - 1 \in 0 .. m /\ n - 1 < m /\ n - 1 \notin Out /\ (n - 1) + 1 = n
  BY <1>4, <1>5
<1> QED BY <1>4, <1>6
=============================================================================
