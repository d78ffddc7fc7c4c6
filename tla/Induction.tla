------------------------------ MODULE Induction ------------------------------
(***************************************************************************)
(* Induction over the natural numbers and over an interval, stated with    *)
(* sets, so that it can be cited with any set of numbers, and functions    *)
(* that are defined by recursion over an interval.                         *)
(***************************************************************************)
EXTENDS Naturals, WellFoundedInduction, TLAPS

(* Induction over the natural numbers. *)
LEMMA SetInduction ==
    ASSUME NEW S, 0 \in S, \A n \in Nat : n \in S => n + 1 \in S
    PROVE  Nat \subseteq S
  <1> DEFINE R == OpToRel(<, Nat)
             T == Nat \ S
  <1>1. IsWellFoundedOn(R, Nat)
    BY NatLessThanWellFounded
  <1>2. \A x, y \in Nat : x < y => <<x, y>> \in R
    BY DEF OpToRel
  <1> HIDE DEF R
  <1>3. SUFFICES ASSUME T # {} PROVE FALSE
    OBVIOUS
  <1>4. PICK x \in T : \A y \in T : ~(<<y, x>> \in R)
    BY <1>1, <1>3, WFMin
  <1>5. x # 0 /\ x - 1 \in Nat /\ x - 1 < x /\ (x - 1) + 1 = x
    BY <1>4
  <1>6. x - 1 \notin T
    BY <1>2, <1>4, <1>5
  <1> QED
    BY <1>4, <1>5, <1>6

(* Induction over 0..n. *)
LEMMA UpTo ==
    ASSUME NEW n \in Nat, NEW S, 0 \in S, \A i \in 1..n : i - 1 \in S => i \in S
    PROVE  0..n \subseteq S
  <1> DEFINE T == {i \in Nat : i <= n => i \in S}
  <1>1. 0 \in T
    OBVIOUS
  <1>2. ASSUME NEW i \in Nat, i \in T
        PROVE  i + 1 \in T
    <2> SUFFICES ASSUME i + 1 <= n
                 PROVE  i + 1 \in S
      OBVIOUS
    <2>1. i + 1 \in 1..n /\ (i + 1) - 1 = i /\ i \in S
      BY <1>2
    <2> QED
      BY <2>1
  <1> HIDE DEF T
  <1>3. Nat \subseteq T
    BY <1>1, <1>2, SetInduction
  <1> QED
    BY <1>3 DEF T

(* Functions that are given by a first value and by steps. *)
Stepping(G, n) == [1..n -> [G -> G]]

StepsFrom(f, G, b, n, st) ==
    f \in [0..n -> G] /\ f[0] = b /\ \A i \in 1..n : f[i] = st[i][f[i - 1]]

SameSteps(f, g, n) == f[0] = g[0] /\ \A i \in 1..n : f[i - 1] = g[i - 1] => f[i] = g[i]

(* There is one. *)
LEMMA Recursion ==
    ASSUME NEW G, NEW b \in G, NEW n \in Nat, NEW st \in Stepping(G, n)
    PROVE  \E f : StepsFrom(f, G, b, n, st)
  <1> USE DEF Stepping
  <1> DEFINE Good(m, f) == f[0] = b /\ \A i \in 1..m : f[i] = st[i][f[i - 1]]
             S == {m \in Nat : m <= n => \E f \in [0..m -> G] : Good(m, f)}
  <1>1. 0 \in S
    <2> DEFINE f == [i \in 0..0 |-> b]
    <2>1. f \in [0..0 -> G] /\ Good(0, f)
      OBVIOUS
    <2> QED
      BY <2>1
  <1>2. ASSUME NEW m \in Nat, m \in S
        PROVE  m + 1 \in S
    <2> SUFFICES ASSUME m + 1 <= n
                 PROVE  \E f \in [0..m + 1 -> G] : Good(m + 1, f)
      OBVIOUS
    <2>1. PICK f \in [0..m -> G] : Good(m, f)
      BY <1>2
    <2>2. m + 1 \in 1..n /\ f[m] \in G /\ st[m + 1][f[m]] \in G
      OBVIOUS
    <2>3. PICK y \in G : y = st[m + 1][f[m]]
      BY <2>2
    <2> DEFINE g == [i \in 0..m + 1 |-> IF i <= m THEN f[i] ELSE y]
    <2>4. g \in [0..m + 1 -> G] /\ (\A i \in 0..m : g[i] = f[i]) /\ g[m + 1] = y
      OBVIOUS
    <2> HIDE DEF g
    <2>5. g[m + 1] = st[m + 1][g[m]] /\ g[0] = b
      BY <2>1, <2>3, <2>4
    <2>6. ASSUME NEW i \in 1..m
          PROVE  g[i] = st[i][g[i - 1]]
      <3>1. i \in 0..m /\ i - 1 \in 0..m
        OBVIOUS
      <3> QED
        BY <2>1, <2>4, <3>1
    <2>7. \A i \in 1..m + 1 : i \in 1..m \/ i = m + 1
      OBVIOUS
    <2> QED
      BY <2>4, <2>5, <2>6, <2>7
  <1> HIDE DEF S
  <1>3. Nat \subseteq S
    BY <1>1, <1>2, SetInduction
  <1>4. PICK f \in [0..n -> G] : Good(n, f)
    BY <1>3 DEF S
  <1> QED
    BY <1>4 DEF StepsFrom

(* There is one only. *)
LEMMA SameRecursion ==
    ASSUME NEW n \in Nat, NEW f, NEW g, SameSteps(f, g, n)
    PROVE  f[n] = g[n]
  <1> USE DEF SameSteps
  <1> DEFINE S == {i \in 0..n : f[i] = g[i]}
  <1>1. 0 \in S
    OBVIOUS
  <1>2. \A i \in 1..n : i - 1 \in S => i \in S
    OBVIOUS
  <1> HIDE DEF S
  <1>3. 0..n \subseteq S
    BY <1>1, <1>2, UpTo
  <1> QED
    BY <1>3 DEF S
=============================================================================
