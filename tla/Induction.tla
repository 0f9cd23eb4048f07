------------------------------ MODULE Induction ------------------------------
(* Two forms of induction that name no operator, for use by the proofs of   *)
(* the other modules.                                                       *)
EXTENDS Integers, NaturalsInduction, WellFoundedInduction, TLAPS

(* Induction over the naturals, stated of a set.                            *)
LEMMA NaturalsByInduction ==
    ASSUME NEW S, 0 \in S, \A n \in Nat : n \in S => n + 1 \in S
    PROVE  Nat \subseteq S
<1> DEFINE less == OpToRel(<, Nat)
           T == Nat \ S
<1>1. SUFFICES ASSUME T # {} PROVE FALSE
    OBVIOUS
<1>2. IsWellFoundedOn(less, Nat)
    BY NatLessThanWellFounded
<1>3. \A m, n \in Nat : m < n => <<m, n>> \in less
    BY DEF OpToRel
<1> HIDE DEF less
<1>4. PICK x \in T : \A y \in T : ~(<<y, x>> \in less)
    BY <1>1, <1>2, WFMin, T \subseteq Nat
<1>5. x \in Nat /\ x # 0
    BY <1>4
<1>6. x - 1 \in Nat /\ x - 1 < x /\ (x - 1) + 1 = x
    BY <1>5
<1>7. x - 1 \in S
    BY <1>3, <1>4, <1>5, <1>6
<1> QED BY <1>4, <1>6, <1>7

(* What is computed step by step from a start.                              *)
Runs(f, n, a, next) == f = [i \in 0..n |-> IF i = 0 THEN a ELSE next[i][f[i - 1]]]

LEMMA Iteration ==
    ASSUME NEW N \in Nat, NEW U, NEW a \in U, NEW next \in [1..N -> [U -> U]]
    PROVE  \E f \in [0..N -> U] : Runs(f, N, a, next)
<1> DEFINE P(n) == \E f \in [0..n -> U] : Runs(f, n, a, next)
           S == {n \in Nat : n <= N => P(n)}
<1>1. 0 \in S
  <2> DEFINE f == [i \in 0..0 |-> a]
  <2>1. f \in [0..0 -> U] /\ f = [i \in 0..0 |-> IF i = 0 THEN a ELSE next[i][f[i - 1]]]
      OBVIOUS
  <2> HIDE DEF f
  <2>2. P(0)
      BY <2>1 DEF Runs
  <2> QED BY <2>2
<1>2. ASSUME NEW n \in Nat, n \in S PROVE n + 1 \in S
  <2> SUFFICES ASSUME n + 1 <= N PROVE P(n + 1)
      BY <1>2
  <2>1. PICK f \in [0..n -> U] : Runs(f, n, a, next)
      BY <1>2
  <2> DEFINE g == [i \in 0..(n + 1) |-> IF i = n + 1 THEN next[n + 1][f[n]] ELSE f[i]]
  <2>2. next[n + 1] \in [U -> U] /\ f[n] \in U
      OBVIOUS
  <2>3. g \in [0..(n + 1) -> U]
      BY <2>2
  <2>4. \A i \in 0..n : f[i] = IF i = 0 THEN a ELSE next[i][f[i - 1]]
      BY <2>1 DEF Runs
  <2>5. ASSUME NEW i \in 0..(n + 1) PROVE g[i] = IF i = 0 THEN a ELSE next[i][g[i - 1]]
    <3>1. CASE i = n + 1
        BY <3>1
    <3>2. CASE i \in 0..n
      <4>1. i = 0 \/ (i - 1 \in 0..n /\ i - 1 # n + 1 /\ i - 1 \in 0..(n + 1))
          BY <3>2
      <4> QED BY <2>4, <3>2, <4>1
    <3> QED BY <3>1, <3>2
  <2>6. g = [i \in 0..(n + 1) |-> g[i]]
      OBVIOUS
  <2> HIDE DEF g
  <2>7. Runs(g, n + 1, a, next)
      BY <2>5, <2>6 DEF Runs
  <2> QED BY <2>3, <2>7
<1> HIDE DEF P
<1>3. N \in S
  <2> HIDE DEF S
  <2> QED BY <1>1, <1>2, NaturalsByInduction
<1> QED BY <1>3 DEF P

(* The naturals up to a bound.                                             *)
LEMMA UpTo ==
    ASSUME NEW N \in Nat, NEW S, 0 \in S, \A i \in 1..N : i - 1 \in S => i \in S
    PROVE  \A i \in 0..N : i \in S
<1> DEFINE T == {i \in Nat : i <= N => i \in S}
<1>1. 0 \in T
    OBVIOUS
<1>2. ASSUME NEW i \in Nat, i \in T PROVE i + 1 \in T
  <2>1. CASE i + 1 <= N
    <3>1. i + 1 \in 1..N /\ (i + 1) - 1 = i /\ i \in S
        BY <1>2, <2>1
    <3> QED BY <3>1
  <2> QED BY <2>1
<1> HIDE DEF T
<1>3. Nat \subseteq T
    BY <1>1, <1>2, NaturalsByInduction
<1> QED BY <1>3 DEF T

(* A set of numbers has a least one.                                       *)
LEMMA LeastNumber ==
  ASSUME NEW T, T \subseteq Nat, T # {}
  PROVE  \E m \in T : \A i \in T : m <= i
<1> DEFINE less == OpToRel(<, Nat)
<1>1. IsWellFoundedOn(less, Nat)
  BY NatLessThanWellFounded
<1>2. \A m, n \in Nat : m < n => <<m, n>> \in less
  BY DEF OpToRel
<1> HIDE DEF less
<1>3. PICK m \in T : \A i \in T : ~(<<i, m>> \in less)
  BY <1>1, WFMin
<1>4. \A i \in T : i \in Nat /\ m \in Nat /\ ~(i < m)
  BY <1>2, <1>3
<1> QED BY <1>4

=============================================================================
