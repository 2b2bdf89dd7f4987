------------------------------ MODULE Induction ------------------------------
(***************************************************************************)
(* Induction over the natural numbers with sets in place of predicates:    *)
(* the least element, what holds at 0 and is carried on, and the functions *)
(* that a recursive definition names.                                      *)
(***************************************************************************)
EXTENDS Integers, WellFoundedInduction, TLAPS

\* Every nonempty set of natural numbers has a least element.
LEMMA Least ==
  ASSUME NEW T, T \subseteq Nat, T # {}
  PROVE  \E m \in T : \A n \in T : m <= n
<1> DEFINE R == OpToRel(<, Nat)
<1>1. IsWellFoundedOn(R, Nat)
  BY NatLessThanWellFounded
<1>2. ASSUME NEW x \in Nat, NEW y \in Nat, ~(<<y, x>> \in R) PROVE x <= y
  <2>1. ~(y < x)
    BY <1>2 DEF OpToRel
  <2> QED
    BY <2>1
<1> HIDE DEF R
<1>3. PICK x \in T : \A y \in T : ~(<<y, x>> \in R)
  BY <1>1, WFMin
<1>4. \A y \in T : x <= y
  BY <1>2, <1>3
<1> QED
  BY <1>4

\* A set that has 0 and, with every number, the next has them all.
LEMMA SetInduction ==
  ASSUME NEW S, 0 \in S, \A n \in Nat : n \in S => n + 1 \in S
  PROVE  Nat \subseteq S
<1> SUFFICES ASSUME Nat \ S # {} PROVE FALSE
  OBVIOUS
<1>1. PICK m \in Nat \ S : \A n \in Nat \ S : m <= n
  BY Least
<1>2. m # 0 /\ m - 1 \in Nat /\ m - 1 \in S
  BY <1>1
<1>3. m - 1 + 1 \in S
  BY <1>2
<1> QED
  BY <1>1, <1>3

\* g starts with a and goes on with F[1], F[2], ...
Iterates(g, a, n, F) == g[0] = a /\ \A i \in 1..n : g[i] = F[i][g[i - 1]]

\* From a, the functions F[1], F[2], ... can be applied one after another.
LEMMA Iteration ==
  ASSUME NEW A, NEW a \in A, NEW n \in Nat, NEW F \in [1..n -> [A -> A]]
  PROVE  \E g \in [0..n -> A] : Iterates(g, a, n, F)
<1> DEFINE Runs(g, k) == g[0] = a /\ \A i \in 1..k : g[i] = F[i][g[i - 1]]
           S == {k \in Nat : k <= n => \E g \in [0..k -> A] : Runs(g, k)}
<1>1. 0 \in S
  <2> DEFINE g == [i \in 0..0 |-> a]
  <2>1. g \in [0..0 -> A] 
    OBVIOUS
  <2>2. Runs(g, 0)
    BY 0 \in 0..0
  <2> QED
    BY <2>1, <2>2
<1>2. ASSUME NEW k \in Nat, k \in S PROVE k + 1 \in S
  <2> SUFFICES ASSUME k + 1 <= n PROVE \E g \in [0..(k + 1) -> A] : Runs(g, k + 1)
    OBVIOUS
  <2>1. PICK g \in [0..k -> A] : Runs(g, k)
    BY <1>2
  <2> DEFINE h == [i \in 0..(k + 1) |-> IF i = k + 1 THEN F[k + 1][g[k]] ELSE g[i]]
  <2>2. F[k + 1][g[k]] \in A
    <3>1. k + 1 \in 1..n /\ k \in 0..k
      OBVIOUS
    <3>2. g[k] \in A /\ F[k + 1] \in [A -> A]
      BY <3>1
    <3> QED
      BY <3>2
  <2>3. h \in [0..(k + 1) -> A]
    BY <2>2
  <2>4. h[0] = a /\ \A i \in 0..k : h[i] = g[i]
    BY <2>1
  <2>5. ASSUME NEW i \in 1..(k + 1) PROVE h[i] = F[i][h[i - 1]]
    <3>1. CASE i = k + 1
      <4>1. h[k + 1] = F[k + 1][g[k]] /\ h[k] = g[k] /\ i - 1 = k
        BY <2>4, <3>1
      <4> QED
        BY <4>1, <3>1
    <3>2. CASE i # k + 1
      <4>1. i \in 1..k /\ i - 1 \in 0..k /\ i \in 0..k
        BY <3>2
      <4>2. h[i] = g[i] /\ h[i - 1] = g[i - 1]
        BY <2>4, <4>1
      <4> QED
        BY <4>1, <4>2, <2>1
    <3> QED
      BY <3>1, <3>2
  <2> HIDE DEF h
  <2> QED
    BY <2>3, <2>4, <2>5
<1>3. n \in S
  <2> HIDE DEF S
  <2> QED
    BY <1>1, <1>2, SetInduction
<1>4. \E g \in [0..n -> A] : Runs(g, n)
  BY <1>3
<1> QED
  BY <1>4 DEF Iterates

\* f and g begin alike and go on alike.
Alike(f, g, n) == f[0] = g[0] /\ \A i \in 1..n : f[i - 1] = g[i - 1] => f[i] = g[i]

\* Two functions that begin alike and go on alike are alike.
LEMMA SameIteration ==
  ASSUME NEW n \in Nat, NEW f, NEW g, Alike(f, g, n)
  PROVE  \A i \in 0..n : f[i] = g[i]
<1> DEFINE T == {i \in Nat : i <= n => f[i] = g[i]}
<1>1. 0 \in T
  BY DEF Alike
<1>2. ASSUME NEW i \in Nat, i \in T PROVE i + 1 \in T
  <2> SUFFICES ASSUME i + 1 <= n PROVE f[i + 1] = g[i + 1]
    OBVIOUS
  <2>1. f[i] = g[i] /\ i + 1 \in 1..n /\ i + 1 - 1 = i
    BY <1>2
  <2> QED
    BY <2>1 DEF Alike
<1>3. Nat \subseteq T
  <2> HIDE DEF T
  <2> QED
    BY <1>1, <1>2, SetInduction
<1> QED
  BY <1>3
==============================================================================
