------------------------------ MODULE Induction ------------------------------
(***************************************************************************)
(* Induction on the naturals, stated of sets instead of predicates, and    *)
(* the functions that are defined by it. Theorems with an operator as      *)
(* parameter are of no use to the provers; those here have none.           *)
(***************************************************************************)
EXTENDS Naturals, WellFoundedInduction, TLAPS

\* A set of naturals that is not empty has a least one.
LEMMA LeastExists ==
    ASSUME NEW S \in SUBSET Nat, S # {}
    PROVE  \E x \in S : \A y \in S : x <= y
<1> DEFINE R == OpToRel(<, Nat)
<1>1. IsWellFoundedOn(R, Nat)
  BY NatLessThanWellFounded
<1> HIDE DEF R
<1>2. PICK x \in S : \A y \in S : ~(<<y, x>> \in R)
  BY <1>1, WFMin
<1>3. \A y \in S : ~(y < x)
  BY <1>2 DEF R, OpToRel
<1> QED
  BY <1>3

\* A set of naturals with 0 and each successor holds them all: the least number
\* that is missing would have a predecessor that is not.
LEMMA AllNaturals ==
    ASSUME NEW S \in SUBSET Nat, 0 \in S, \A n \in S : n + 1 \in S
    PROVE  S = Nat
<1> SUFFICES ASSUME Nat \ S # {} PROVE FALSE
  OBVIOUS
<1>1. \E x \in Nat \ S : \A y \in Nat \ S : x <= y
  BY LeastExists
<1>2. PICK x \in Nat \ S : \A y \in Nat \ S : ~(y < x)
  BY <1>1
<1>3. x # 0 /\ x - 1 \in Nat /\ x - 1 < x
  BY <1>2
<1>4. x - 1 \in S
  BY <1>2, <1>3
<1> QED
  BY <1>2, <1>3, <1>4

\* The same for what is true up to some number.
LEMMA AllUpTo ==
    ASSUME NEW n \in Nat, NEW S, 0 \in S, \A k \in 0 .. n - 1 : k \in S => k + 1 \in S
    PROVE  0..n \subseteq S
<1> DEFINE T == {k \in Nat : k <= n => k \in S}
<1>1. T = Nat
  <2>1. 0 \in T /\ \A k \in T : k + 1 \in T
    OBVIOUS
  <2> HIDE DEF T
  <2>2. T \in SUBSET Nat
    BY DEF T
  <2> QED
    BY <2>1, <2>2, AllNaturals
<1> QED
  BY <1>1

-----------------------------------------------------------------------------
(* Recursion: from a value and a step to the function *)

Iterates(f, base, step, n, S) ==
    /\ f \in [0..n -> S]
    /\ f[0] = base
    /\ \A k \in 1..n : f[k] = step[k][f[k - 1]]

\* There is such a function,
LEMMA IteratesExists ==
    ASSUME NEW S, NEW n \in Nat, NEW base \in S, NEW step \in [1..n -> [S -> S]]
    PROVE  \E f : Iterates(f, base, step, n, S)
<1> DEFINE T == {m \in 0..n : \E f : Iterates(f, base, step, m, S)}
<1>1. 0 \in T
  <2>1. Iterates([k \in 0..0 |-> base], base, step, 0, S)
    BY DEF Iterates
  <2> QED
    BY <2>1
<1>2. ASSUME NEW m \in 0 .. n - 1, m \in T
      PROVE  m + 1 \in T
  <2>1. PICK f : Iterates(f, base, step, m, S)
    BY <1>2
  <2> DEFINE g == [k \in 0..(m + 1) |-> IF k <= m THEN f[k] ELSE step[m + 1][f[m]]]
  <2>2. f \in [0..m -> S] /\ f[0] = base /\ \A k \in 1..m : f[k] = step[k][f[k - 1]]
    BY <2>1 DEF Iterates
  <2>3. m + 1 \in 1..n /\ m \in 0..m
    OBVIOUS
  <2>4. f[m] \in S
    BY <2>2, <2>3
  <2>5. step[m + 1][f[m]] \in S
    BY <2>3, <2>4
  <2>6. \A k \in 0..(m + 1) : k <= m => k \in 0..m
    OBVIOUS
  <2>7. g \in [0..(m + 1) -> S] /\ g[0] = base
    BY <2>2, <2>5, <2>6
  <2>8. ASSUME NEW k \in 1..(m + 1)
        PROVE  g[k] = step[k][g[k - 1]]
    <3>1. g[k - 1] = f[k - 1]
      OBVIOUS
    <3>2. CASE k <= m
      BY <2>2, <3>1, <3>2
    <3>3. CASE k = m + 1
      BY <3>1, <3>3
    <3> QED
      BY <3>2, <3>3
  <2>9. Iterates(g, base, step, m + 1, S)
    BY <2>7, <2>8 DEF Iterates
  <2> QED
    BY <2>3, <2>9
<1>3. 0..n \subseteq T
  <2> HIDE DEF T
  <2> QED
    BY <1>1, <1>2, AllUpTo
<1> QED
  BY <1>3

\* and only one.
LEMMA IteratesUnique ==
    ASSUME NEW S, NEW n \in Nat, NEW base, NEW step, NEW f, NEW g,
           Iterates(f, base, step, n, S), Iterates(g, base, step, n, S)
    PROVE  f = g
<1> DEFINE T == {k \in 0..n : f[k] = g[k]}
<1>1. 0 \in T
  BY DEF Iterates
<1>2. ASSUME NEW k \in 0 .. n - 1, k \in T
      PROVE  k + 1 \in T
  <2>1. k + 1 \in 1..n /\ (k + 1) - 1 = k
    OBVIOUS
  <2> QED
    BY <1>2, <2>1 DEF Iterates
<1>3. 0..n \subseteq T
  <2> HIDE DEF T
  <2> QED
    BY <1>1, <1>2, AllUpTo
<1> QED
  BY <1>3 DEF Iterates
=============================================================================
