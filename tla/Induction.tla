------------------------------ MODULE Induction ------------------------------
(***************************************************************************)
(* Induction over the natural numbers.  The library states it for a formula    *)
(* with a parameter; here the set of the numbers the formula holds for stands  *)
(* in its place, so that a proof by induction names that set and cites one of  *)
(* these lemmas.                                                               *)
(***************************************************************************)
EXTENDS Integers, WellFoundedInduction, TLAPS

\* A set of natural numbers has a least element.
LEMMA LeastNatural ==
  ASSUME NEW S, S \subseteq Nat, S # {}
  PROVE  \E x \in S : \A y \in S : x <= y
<1>1. PICK x \in S : \A y \in S : ~ (<<y, x>> \in OpToRel(<, Nat))
  BY NatLessThanWellFounded, WFMin
<1>2. \A y \in S : ~ (y < x)
  BY <1>1 DEF OpToRel
<1> QED
  BY <1>2

\* Induction over the natural numbers, with the set of the numbers it holds for in
\* place of the formula.
LEMMA NatSetInduction ==
  ASSUME NEW S, 0 \in S, \A m \in Nat : m \in S => m + 1 \in S
  PROVE  \A m \in Nat : m \in S
<1> SUFFICES ASSUME Nat \ S # {} PROVE FALSE
  OBVIOUS
<1>1. PICK x \in Nat \ S : \A y \in Nat \ S : x <= y
  BY LeastNatural
<1>2. x # 0 /\ x - 1 \in Nat
  BY <1>1
<1>3. x - 1 \in S
  BY <1>1, <1>2
<1>4. (x - 1) + 1 \in S
  BY <1>2, <1>3
<1> QED
  BY <1>1, <1>4

\* The same, from all smaller numbers at once.
LEMMA StrongSetInduction ==
  ASSUME NEW S, \A m \in Nat : (\A k \in 0..m - 1 : k \in S) => m \in S
  PROVE  \A m \in Nat : m \in S
<1> SUFFICES ASSUME Nat \ S # {} PROVE FALSE
  OBVIOUS
<1>1. PICK x \in Nat \ S : \A y \in Nat \ S : x <= y
  BY LeastNatural
<1>2. \A k \in 0..x - 1 : k \in S
  BY <1>1
<1> QED
  BY <1>1, <1>2

=============================================================================
