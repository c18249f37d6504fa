----------------------------- MODULE Induction -----------------------------
(***************************************************************************)
(* Induction over the natural numbers in the form the proofs of this       *)
(* project use it: the property is a set, so that nothing but a set has to *)
(* be instantiated.                                                        *)
(***************************************************************************)
EXTENDS Integers, WellFoundedInduction, TLAPS

\* A set of naturals that is not empty has a least element.
LEMMA LeastNat ==
  ASSUME NEW T, T \subseteq Nat, T # {}
  PROVE  \E x \in T : \A y \in T : x <= y
<1> DEFINE R == {p \in Nat \X Nat : p[1] < p[2]}
<1>1. IsWellFoundedOn(R, Nat)
  <2>1. R = OpToRel(<, Nat)
    BY DEF OpToRel
  <2> QED BY <2>1, NatLessThanWellFounded
<1>2. PICK x \in T : \A y \in T : ~ (<<y, x>> \in R)
  <2> HIDE DEF R
  <2> QED BY <1>1, WFMin
<1>3. ASSUME NEW y \in T, ~(x <= y) PROVE FALSE
  <2>1. x \in Nat /\ y \in Nat /\ y < x
    BY <1>3
  <2>2. <<y, x>> \in R
    BY <2>1
  <2> QED BY <1>2, <2>2
<1> QED BY <1>3

\* What holds of 0 and passes from n to n + 1 holds of every natural number.
LEMMA SetInduction ==
  ASSUME NEW S, 0 \in S, \A n \in Nat : n \in S => n + 1 \in S
  PROVE  Nat \subseteq S
<1>1. SUFFICES ASSUME Nat \ S # {} PROVE FALSE
  OBVIOUS
<1>2. PICK x \in Nat \ S : \A y \in Nat \ S : x <= y
  BY <1>1, LeastNat
<1>3. x # 0 /\ x - 1 \in Nat /\ x - 1 \notin Nat \ S
  BY <1>2
<1> QED BY <1>3

\* F says how to go on, from a value in U and to which number.
IsStep(F, U) == F \in [U \X Nat -> U]

\* g starts at base and goes on from i - 1 to i as F says.
Unfolds(g, U, base, F, n) ==
  /\ g \in [0 .. n -> U]
  /\ g[0] = base
  /\ \A i \in 1 .. n : g[i] = F[<<g[i - 1], i>>]

\* A function may be defined by recursion, up to every n.
LEMMA RecursionExists ==
  ASSUME NEW U, NEW base \in U, NEW F, IsStep(F, U), NEW n \in Nat
  PROVE  \E g : Unfolds(g, U, base, F, n)
<1> DEFINE Follows(g, m) == g[0] = base /\ \A i \in 1 .. m : g[i] = F[<<g[i - 1], i>>]
           S == {m \in Nat : \E g \in [0 .. m -> U] : Follows(g, m)}
<1>0. F \in [U \X Nat -> U]
  BY DEF IsStep
<1>1. 0 \in S
  <2> DEFINE first == [i \in 0 .. 0 |-> base]
  <2>1. first \in [0 .. 0 -> U] /\ Follows(first, 0)
    OBVIOUS
  <2> QED BY <2>1
<1>2. ASSUME NEW m \in Nat, m \in S PROVE m + 1 \in S
  <2>1. PICK g \in [0 .. m -> U] : Follows(g, m)
    BY <1>2
  <2> DEFINE next == [i \in 0 .. (m + 1) |-> IF i = m + 1 THEN F[<<g[m], m + 1>>] ELSE g[i]]
  <2>2. m \in 0 .. m /\ m + 1 \in Nat /\ 0 # m + 1 /\ 0 \in 0 .. (m + 1)
    OBVIOUS
  <2>3. F[<<g[m], m + 1>>] \in U
    BY <1>0, <2>2
  <2>4. next \in [0 .. (m + 1) -> U]
    BY <2>3
  <2>5. ASSUME NEW i \in 1 .. (m + 1) PROVE next[i] = F[<<next[i - 1], i>>]
    <3>1. i \in 0 .. (m + 1) /\ i - 1 \in 0 .. (m + 1) /\ i - 1 # m + 1
      OBVIOUS
    <3>2. next[i - 1] = g[i - 1]
      BY <3>1
    <3>3. CASE i = m + 1
      <4>1. next[i] = F[<<g[m], i>>] /\ i - 1 = m
        BY <3>1, <3>3
      <4> HIDE DEF next
      <4> QED BY <3>2, <4>1
    <3>4. CASE i # m + 1
      <4>1. next[i] = g[i] /\ i \in 1 .. m
        BY <3>1, <3>4
      <4> HIDE DEF next
      <4> QED BY <2>1, <3>2, <4>1
    <3> QED BY <3>3, <3>4
  <2>6. next[0] = base
    BY <2>1, <2>2
  <2> HIDE DEF next
  <2>7. Follows(next, m + 1)
    BY <2>5, <2>6
  <2> QED BY <2>2, <2>4, <2>7
<1> HIDE DEF S
<1>3. n \in S
  BY <1>1, <1>2, SetInduction
<1> QED BY <1>3 DEF S, Unfolds

============================================================================
