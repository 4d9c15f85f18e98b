----------------------------- MODULE Recursion ------------------------------
(***************************************************************************)
(* Induction over the naturals, and functions defined by recursion on a    *)
(* number, stated for sets and functions instead of predicates and         *)
(* operators.                                                              *)
(***************************************************************************)
EXTENDS Integers, WellFoundedInduction, TLAPS

(* A set of naturals that is not empty has a least member.                 *)
LEMMA LeastNumber ==
  ASSUME NEW S, S \subseteq Nat, S # {}
  PROVE  \E m \in S : \A j \in S : m <= j
<1> DEFINE R == {p \in Nat \X Nat : p[1] < p[2]}
<1>1. IsWellFoundedOn(R, Nat)
  BY NatLessThanWellFounded, Zenon DEF OpToRel
<1>2. PICK m \in S : \A j \in S : <<j, m>> \notin R
  <2> HIDE DEF R
  <2> QED
    BY <1>1, WFMin
<1>3. \A j \in S : ~(j < m)
  BY <1>2
<1> QED
  BY <1>3

(* Induction up to a number.                                               *)
LEMMA InductionUpTo ==
  ASSUME NEW N \in Nat, NEW S, 0 \in S,
         \A n \in 0..(N - 1) : n \in S => n + 1 \in S
  PROVE  \A n \in 0..N : n \in S
<1> DEFINE T == {n \in 0..N : n \notin S}
<1> SUFFICES ASSUME T # {} PROVE FALSE
  OBVIOUS
<1>1. T \subseteq Nat
  OBVIOUS
<1>2. PICK m \in T : \A j \in T : m <= j
  <2> HIDE DEF T
  <2> QED
    BY <1>1, LeastNumber
<1>3. m \in 1..N /\ m \notin S
  OBVIOUS
<1>4. m - 1 \in 0..(N - 1) /\ m - 1 \in S /\ (m - 1) + 1 = m
  BY <1>2, <1>3
<1> QED
  BY <1>3, <1>4

(* A function of the numbers up to N whose values stay in a set if one     *)
(* step does.                                                              *)
LEMMA StepsStayIn ==
  ASSUME NEW V, NEW N \in Nat, NEW f, f[0] \in V,
         \A n \in 1..N : f[n - 1] \in V => f[n] \in V
  PROVE  \A n \in 0..N : f[n] \in V
<1> DEFINE S == {n \in 0..N : f[n] \in V}
<1>1. 0 \in S
  OBVIOUS
<1>2. ASSUME NEW n \in 0..(N - 1), n \in S PROVE n + 1 \in S
  <2>1. n + 1 \in 1..N /\ (n + 1) - 1 = n
    OBVIOUS
  <2> QED
    BY <1>2, <2>1
<1>3. \A n \in 0..N : n \in S
  <2> HIDE DEF S
  <2> QED
    BY <1>1, <1>2, InductionUpTo
<1> QED
  BY <1>3

(* f starts with a base and goes on step by step, and stays in V.          *)
Recurs(f, N, V, base, step) ==
  /\ f \in [0..N -> V]
  /\ f[0] = base
  /\ \A n \in 1..N : f[n] = step[n][f[n - 1]]

(* Such a function exists.                                                 *)
LEMMA StepByStep ==
  ASSUME NEW V, NEW N \in Nat, NEW base \in V, NEW step \in [1..N -> [V -> V]]
  PROVE  \E f : Recurs(f, N, V, base, step)
<1> DEFINE S == {n \in 0..N : \E f : Recurs(f, n, V, base, step)}
<1>1. 0 \in S
  <2> DEFINE h == [m \in 0..0 |-> base]
  <2>1. h \in [0..0 -> V] /\ h[0] = base /\ 1..0 = {}
    OBVIOUS
  <2> HIDE DEF h
  <2>2. Recurs(h, 0, V, base, step)
    BY <2>1 DEF Recurs
  <2> QED
    BY <2>2
<1>2. ASSUME NEW n \in 0..(N - 1), n \in S PROVE n + 1 \in S
  <2>1. PICK f : Recurs(f, n, V, base, step)
    BY <1>2
  <2>0. /\ f \in [0..n -> V] /\ f[0] = base
        /\ \A m \in 1..n : f[m] = step[m][f[m - 1]]
    BY <2>1 DEF Recurs
  <2> DEFINE g == [m \in 0..(n + 1) |->
                     IF m = n + 1 THEN step[n + 1][f[n]] ELSE f[m]]
  <2>2. f[n] \in V /\ step[n + 1][f[n]] \in V
    BY <2>0
  <2>3. g \in [0..(n + 1) -> V]
    BY <2>0, <2>2
  <2>4. ASSUME NEW m \in 1..(n + 1) PROVE g[m] = step[m][g[m - 1]]
    <3>1. CASE m = n + 1
      BY <3>1
    <3>2. CASE m # n + 1
      <4>1. m \in 1..n /\ g[m] = f[m] /\ g[m - 1] = f[m - 1]
        BY <3>2
      <4> QED
        BY <2>0, <4>1
    <3> QED
      BY <3>1, <3>2
  <2>5. g[0] = base
    BY <2>0
  <2> HIDE DEF g
  <2>6. Recurs(g, n + 1, V, base, step)
    BY <2>3, <2>4, <2>5 DEF Recurs
  <2>7. n + 1 \in 0..N
    OBVIOUS
  <2> QED
    BY <2>6, <2>7
<1>3. N \in S
  <2> HIDE DEF S
  <2>1. \A n \in 0..N : n \in S
    BY <1>1, <1>2, InductionUpTo
  <2> QED
    BY <2>1
<1> QED
  BY <1>3
=============================================================================
