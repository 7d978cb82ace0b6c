----------------------------- MODULE NaturalSets -----------------------------
(***************************************************************************)
(* Two facts about sets of natural numbers that stand in for induction:    *)
(* both are about a set, which a definition can be folded into, and not    *)
(* about a predicate.                                                      *)
(***************************************************************************)
EXTENDS Integers, WellFoundedInduction, TLAPS

\* A set of naturals has a least element.
LEMMA LeastNatural ==
  ASSUME NEW S, S \subseteq Nat, S # {}
  PROVE  \E x \in S : \A y \in S : x <= y
<1> DEFINE less == {ss \in Nat \X Nat : ss[1] < ss[2]}
<1>1. IsWellFoundedOn(less, Nat)
  BY NatLessThanWellFounded DEF OpToRel
<1>2. PICK x \in S : \A y \in S : ~(<<y, x>> \in less)
  <2> HIDE DEF less
  <2> QED BY <1>1, WFMin
<1>3. \A y \in S : ~(y < x)
  BY <1>2
<1> QED BY <1>3

\* A set that holds 0, and with every number the next one, holds them all.
LEMMA AllNaturals ==
  ASSUME NEW S, 0 \in S, \A n \in Nat : n \in S => n + 1 \in S
  PROVE  Nat \subseteq S
<1> DEFINE rest == {n \in Nat : n \notin S}
<1>1. ASSUME rest # {} PROVE FALSE
  <2>1. PICK least \in rest : \A n \in rest : least <= n
    BY <1>1, LeastNatural
  <2>2. least \in Nat /\ least # 0 /\ least - 1 \in Nat
    BY <2>1
  <2>3. least - 1 \in S
    <3>1. ~(least <= least - 1)
      BY <2>2
    <3> QED BY <2>1, <2>2, <3>1
  <2>4. (least - 1) + 1 \in S /\ (least - 1) + 1 = least
    BY <2>2, <2>3
  <2> QED BY <2>1, <2>4
<1> QED BY <1>1
=============================================================================
