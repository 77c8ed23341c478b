----------------------------- MODULE NatLemmas -----------------------------
(***************************************************************************)
(* Facts about numbers that several proofs need.                           *)
(*                                                                         *)
(* Induction is said of a set instead of a predicate: a set that holds     *)
(* zero, and with each number the next, holds them all.  It needs no       *)
(* operator as a parameter and can be used for any property P by way of    *)
(* the set {n \in Nat : P(n)}.                                             *)
(***************************************************************************)
EXTENDS Integers, TLAPS, WellFoundedInduction

\* A set of natural numbers that is not empty has a least element.
LEMMA LeastElement ==
    ASSUME NEW T \in SUBSET Nat, T # {}
    PROVE  \E x \in T : \A y \in T : x <= y
<1>1. PICK x \in T : \A y \in T : <<y, x>> \notin OpToRel(<, Nat)
  BY NatLessThanWellFounded, WFMin, Zenon
<1>2. \A y \in T : ~ (y < x)
  BY <1>1, Zenon DEF OpToRel
<1> QED
  BY <1>2

\* Induction from zero, without a bound.
LEMMA NatSetInduction ==
    ASSUME NEW T, 0 \in T, \A n \in Nat : n \in T => n + 1 \in T
    PROVE  Nat \subseteq T
<1> SUFFICES ASSUME NEW m \in Nat, m \notin T PROVE FALSE
  OBVIOUS
<1>1. PICK x \in Nat \ T : \A y \in Nat \ T : x <= y
  BY LeastElement
<1>2. x # 0 /\ x \in Nat
  OBVIOUS
<1>3. x - 1 \in Nat /\ x - 1 \in T
  BY <1>1, <1>2
<1>4. (x - 1) + 1 \in T
  BY <1>3
<1> QED
  BY <1>2, <1>4

\* Induction up to a bound, the form in which sequences need it.
LEMMA UpToInduction ==
    ASSUME NEW k \in Nat, NEW T, 0 \in T,
           \A n \in 0..k : n \in T /\ n < k => n + 1 \in T
    PROVE  0..k \subseteq T
<1> DEFINE U == {n \in Nat : n <= k => n \in T}
<1>1. 0 \in U
  OBVIOUS
<1>2. \A n \in Nat : n \in U => n + 1 \in U
  OBVIOUS
<1>3. Nat \subseteq U
  <2> HIDE DEF U
  <2> QED
    BY <1>1, <1>2, NatSetInduction
<1> QED
  BY <1>3

\* A number has one quotient and one remainder.
LEMMA Quotient ==
    ASSUME NEW b \in Nat \ {0}, NEW q \in Int, NEW r \in 0..(b - 1)
    PROVE  (q * b + r) \div b = q /\ (q * b + r) % b = r
  <1> DEFINE n == q * b + r
             d == n \div b
             m == n % b
  <1>1. q * b \in Int /\ n \in Int
    OBVIOUS
  <1> HIDE DEF n
  <1>2. d \in Int /\ m \in 0..(b - 1) /\ n = b * d + m
    BY <1>1
  <1> HIDE DEF d, m
  <1>3. n = b * q + r
    BY DEF n
  <1>4. b * (q - d) = m - r
    BY <1>1, <1>2, <1>3
  <1>5. ~(q - d >= 1)
    <2>1. ASSUME q - d >= 1 PROVE b * (q - d) >= b
      BY <1>2, <2>1
    <2> QED  BY <1>2, <1>4, <2>1
  <1>6. ~(d - q >= 1)
    <2>1. ASSUME d - q >= 1 PROVE b * (d - q) >= b
      BY <1>2, <2>1
    <2>2. b * (d - q) = r - m
      BY <1>2, <1>4
    <2> QED  BY <1>2, <2>1, <2>2
  <1>7. d = q
    BY <1>2, <1>5, <1>6
  <1>8. m = r
    BY <1>2, <1>3, <1>7
  <1> QED  BY <1>7, <1>8 DEF d, m, n
=============================================================================
