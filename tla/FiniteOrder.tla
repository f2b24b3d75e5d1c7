---------------------------- MODULE FiniteOrder ----------------------------
(***************************************************************************)
(* Facts about least and greatest elements that the proofs of the other    *)
(* modules rest on.                                                        *)
(***************************************************************************)
EXTENDS Integers, FiniteSets, FiniteSetsExt, FiniteSetTheorems,
        WellFoundedInduction, TLAPS

\* A non-empty set of naturals has a least element, and Min returns it.
LEMMA MinOfNaturals ==
    ASSUME NEW S \in SUBSET Nat, S # {}
    PROVE  Min(S) \in S /\ \A y \in S : Min(S) <= y
<1> DEFINE R == {p \in Nat \X Nat : p[1] < p[2]}
<1>1. IsWellFoundedOn(R, Nat)
  <2>1. R = OpToRel(<, Nat)
    BY DEF OpToRel
  <2> QED  BY <2>1, NatLessThanWellFounded
<1>2. \E x \in S : \A y \in S : ~ (<<y, x>> \in R)
  <2> HIDE DEF R
  <2> QED  BY <1>1, WFMin
<1>3. \E x \in S : \A y \in S : x <= y
  <2>1. PICK x \in S : \A y \in S : ~ (<<y, x>> \in R)
    BY <1>2
  <2>2. ASSUME NEW y \in S PROVE x <= y
    <3>1. ~ (y < x)
      BY <2>1
    <3> QED  BY <3>1
  <2> QED  BY <2>2
<1> QED  BY <1>3 DEF Min

\* A non-empty finite set of integers has a greatest element, and Max returns it.
LEMMA MaxOfFinite ==
    ASSUME NEW S \in SUBSET Int, IsFiniteSet(S), S # {}
    PROVE  Max(S) \in S /\ \A y \in S : Max(S) >= y
<1> DEFINE Greatest(x, T) == x \in T /\ \A y \in T : x >= y
           Bad == {T \in SUBSET S : T # {} /\ ~ \E x \in T : Greatest(x, T)}
           R == StrictSubsetOrdering(S)
<1>1. IsWellFoundedOn(R, SUBSET S)
  BY FS_StrictSubsetOrderingWellFounded, FS_FiniteSubsetsOfFinite
<1>2. ASSUME Bad # {} PROVE FALSE
  <2>1. PICK T \in Bad : \A U \in Bad : ~ (<<U, T>> \in R)
    <3> HIDE DEF R, Bad
    <3>1. Bad \subseteq SUBSET S
      BY DEF Bad
    <3> QED  BY <1>1, <1>2, <3>1, WFMin
  <2>2. PICK t \in T : TRUE
    OBVIOUS
  <2>3. <<T \ {t}, T>> \in R
    BY <2>2 DEF StrictSubsetOrdering
  <2>4. T \ {t} \notin Bad
    BY <2>1, <2>3
  <2>5. CASE T \ {t} = {}
    BY <2>2, <2>5
  <2>6. CASE T \ {t} # {}
    <3>1. PICK x \in T \ {t} : Greatest(x, T \ {t})
      BY <2>4, <2>6
    <3>2. Greatest(x, T) \/ Greatest(t, T)
      BY <3>1, <2>2
    <3> QED  BY <3>1, <3>2, <2>2
  <2> QED  BY <2>5, <2>6
<1>3. \E x \in S : \A y \in S : x >= y
  BY <1>2
<1> QED  BY <1>3 DEF Max
=============================================================================
