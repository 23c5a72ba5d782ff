----------------------------- MODULE WellOrder ------------------------------
(***************************************************************************)
(* Least and greatest numbers of sets: facts about naturals and finite     *)
(* sets that the theorems on equities and on transport chains rest on.     *)
(* Neither is proved by an induction theorem on a predicate: each takes a  *)
(* minimal member of a set of finite sets.                                 *)
(***************************************************************************)
EXTENDS FiniteSetTheorems, WellFoundedInduction, FiniteSetsExt, TLAPS

\* A set of natural numbers that is not empty has a least element: the interval
\* below it is minimal for strict inclusion among finite sets.
LEMMA LeastNumber ==
    ASSUME NEW T \in SUBSET Nat, T # {}
    PROVE  \E i \in T : \A j \in T : i <= j
<1> DEFINE family == {1 .. i : i \in T}
<1>1. family # {} /\ family \subseteq FiniteSubsetsOf(Nat)
  <2>1. ASSUME NEW i \in T PROVE 1 .. i \in FiniteSubsetsOf(Nat)
    BY FS_Interval DEF FiniteSubsetsOf
  <2> QED
    BY <2>1
<1> HIDE DEF family
<1>2. PICK x \in family : \A y \in family : <<y, x>> \notin StrictSubsetOrdering(Nat)
  BY <1>1, FS_StrictSubsetOrderingWellFounded, WFMin
<1>3. PICK i \in T : x = 1 .. i
  BY <1>2 DEF family
<1>4. ASSUME NEW j \in T, j < i PROVE FALSE
  <2>1. 1 .. j \in family
    BY DEF family
  <2>2. /\ 1 .. j \in SUBSET Nat /\ 1 .. i \in SUBSET Nat
        /\ 1 .. j \subseteq 1 .. i
        /\ i \in 1 .. i /\ i \notin 1 .. j
    BY <1>4
  <2>3. <<1 .. j, 1 .. i>> \in StrictSubsetOrdering(Nat)
    BY <2>2 DEF StrictSubsetOrdering
  <2> QED
    BY <2>1, <2>3, <1>2, <1>3
<1> QED
  BY <1>4

\* A finite set of natural numbers that is not empty has a greatest element: in
\* a least counterexample, the greatest of the others would still be exceeded.
LEMMA GreatestNumber ==
    ASSUME NEW S \in SUBSET Nat, IsFiniteSet(S), S # {}
    PROVE  \E x \in S : \A y \in S : x >= y
<1> DEFINE bad == {U \in FiniteSubsetsOf(Nat) : U # {} /\ ~ \E x \in U : \A y \in U : x >= y}
<1> SUFFICES ASSUME bad # {} PROVE FALSE
  BY DEF FiniteSubsetsOf
<1>1. bad \subseteq FiniteSubsetsOf(Nat)
  OBVIOUS
<1>2. PICK U \in bad : \A V \in bad : <<V, U>> \notin StrictSubsetOrdering(Nat)
  <2> HIDE DEF bad
  <2> QED
    BY <1>1, FS_StrictSubsetOrderingWellFounded, WFMin
<1>3. PICK a \in U : TRUE
  OBVIOUS
<1>4. U \in SUBSET Nat /\ IsFiniteSet(U) /\ U # {} /\ a \in Nat
  BY <1>3 DEF FiniteSubsetsOf
<1>5. /\ U \ {a} \in SUBSET Nat
      /\ IsFiniteSet(U \ {a})
      /\ <<U \ {a}, U>> \in StrictSubsetOrdering(Nat)
  BY <1>3, <1>4, FS_RemoveElement DEF StrictSubsetOrdering
<1>6. U \ {a} \notin bad
  <2> HIDE DEF bad
  <2> QED
    BY <1>2, <1>5
<1>7. U \ {a} # {}
  <2> SUFFICES ASSUME U \ {a} = {} PROVE FALSE
    OBVIOUS
  <2>1. U = {a}
    BY <1>3
  <2> QED
    BY <2>1, <1>2, <1>4
<1>8. PICK b \in U \ {a} : \A y \in U \ {a} : b >= y
  BY <1>5, <1>6, <1>7 DEF FiniteSubsetsOf
<1>9. \E x \in U : \A y \in U : x >= y
  <2>1. CASE a >= b
    BY <2>1, <1>3, <1>4, <1>8
  <2>2. CASE ~(a >= b)
    BY <2>2, <1>3, <1>4, <1>8
  <2> QED
    BY <2>1, <2>2
<1> QED
  BY <1>2, <1>9

\* What Max picks from a finite set of natural numbers.
LEMMA MaxOfFinite ==
    ASSUME NEW S \in SUBSET Nat, IsFiniteSet(S), S # {}
    PROVE  /\ Max(S) \in S
           /\ \A y \in S : y <= Max(S)
<1>1. \E x \in S : \A y \in S : x >= y
  BY GreatestNumber
<1>2. Max(S) \in S /\ \A y \in S : Max(S) >= y
  BY <1>1 DEF Max
<1> QED
  BY <1>2
============================================================================
