------------------------------ MODULE FoldLemmas ------------------------------
(***************************************************************************)
(* Induction over the naturals, stated for sets rather than predicates,    *)
(* and what a function defined by recursion on them is.                    *)
(***************************************************************************)
EXTENDS Naturals, WellFoundedInduction, TLAPS

(* A set of naturals has a least element. *)
LEMMA Least ==
    ASSUME NEW T, T \subseteq Nat, T # {}
    PROVE  \E m \in T : \A n \in T : m <= n
<1> DEFINE R == OpToRel(<, Nat)
<1>1. IsWellFoundedOn(R, Nat)
  BY NatLessThanWellFounded DEF OpToRel
<1>2. PICK m \in T : \A n \in T : <<n, m>> \notin R
  <2> HIDE DEF R
  <2> QED
    BY <1>1, WFMin
<1>3. \A n \in T : ~(n < m)
  BY <1>2 DEF OpToRel
<1>4. QED
  BY <1>3

(* Induction, for the set of the numbers that have the property. *)
LEMMA Induction ==
    ASSUME NEW T, 0 \in T, \A n \in Nat : n \in T => n + 1 \in T
    PROVE  Nat \subseteq T
<1> SUFFICES ASSUME Nat \ T # {} PROVE FALSE
  OBVIOUS
<1>1. PICK m \in Nat \ T : \A n \in Nat \ T : m <= n
  BY Least
<1>2. m # 0 /\ m - 1 \in Nat /\ m - 1 \in T
  BY <1>1
<1>3. QED
  BY <1>2, m - 1 + 1 = m

(* f starts from base and goes through the steps of F, which are functions on S. *)
Folds(f, n, S, base, F) == f[0] = base /\ \A k \in 1..n : f[k - 1] \in S => f[k] = F[k][f[k - 1]]

(* Such a function exists ... *)
LEMMA FoldExists ==
    ASSUME NEW n \in Nat, NEW S, NEW base \in S, NEW F \in [1..n -> [S -> S]]
    PROVE  \E f \in [0..n -> S] : Folds(f, n, S, base, F)
<1> DEFINE T == {m \in Nat : m <= n => \E f \in [0..m -> S] : Folds(f, m, S, base, F)}
<1>1. 0 \in T
  <2>1. [k \in 0..0 |-> base] \in [0..0 -> S] /\ Folds([k \in 0..0 |-> base], 0, S, base, F)
    BY DEF Folds
  <2>2. QED
    BY <2>1
<1>2. ASSUME NEW m \in Nat, m \in T PROVE m + 1 \in T
  <2> SUFFICES ASSUME m + 1 <= n PROVE \E f \in [0..(m + 1) -> S] : Folds(f, m + 1, S, base, F)
    OBVIOUS
  <2>1. PICK f \in [0..m -> S] : Folds(f, m, S, base, F)
    BY <1>2
  <2> DEFINE g == [k \in 0..(m + 1) |-> IF k = m + 1 THEN F[m + 1][f[m]] ELSE f[k]]
  <2>2. g \in [0..(m + 1) -> S]
    <3>1. F[m + 1] \in [S -> S] /\ f[m] \in S
      OBVIOUS
    <3>2. QED
      BY <3>1
  <2>3. Folds(g, m + 1, S, base, F)
    <3>1. g[0] = base
      BY <2>1 DEF Folds
    <3>2. ASSUME NEW k \in 1..(m + 1), g[k - 1] \in S PROVE g[k] = F[k][g[k - 1]]
      <4>1. CASE k = m + 1
        BY <4>1
      <4>2. CASE k \in 1..m
        <5>1. g[k] = f[k] /\ g[k - 1] = f[k - 1]
          BY <4>2
        <5>2. f[k] = F[k][f[k - 1]]
          BY <2>1, <3>2, <4>2, <5>1 DEF Folds
        <5>3. QED
          BY <5>1, <5>2
      <4>3. QED
        BY <4>1, <4>2
    <3>3. QED
      BY <3>1, <3>2 DEF Folds
  <2>4. QED
    BY <2>2, <2>3
<1>3. n \in T
  <2> HIDE DEF T
  <2> QED
    BY <1>1, <1>2, Induction
<1>4. QED
  BY <1>3

(* ... and is the only one. *)
LEMMA FoldUnique ==
    ASSUME NEW n \in Nat, NEW S, NEW base \in S, NEW F \in [1..n -> [S -> S]], NEW f, NEW g,
           Folds(f, n, S, base, F), Folds(g, n, S, base, F)
    PROVE  \A k \in 0..n : f[k] = g[k] /\ f[k] \in S
<1> DEFINE T == {m \in Nat : m <= n => f[m] = g[m] /\ f[m] \in S}
<1>1. 0 \in T
  BY DEF Folds
<1>2. ASSUME NEW m \in Nat, m \in T PROVE m + 1 \in T
  <2> SUFFICES ASSUME m + 1 <= n PROVE f[m + 1] = g[m + 1] /\ f[m + 1] \in S
    OBVIOUS
  <2>1. m + 1 \in 1..n /\ (m + 1) - 1 = m /\ f[m] = g[m] /\ f[m] \in S
    BY <1>2
  <2>2. f[m + 1] = F[m + 1][f[m]] /\ g[m + 1] = F[m + 1][g[m]]
    BY <2>1 DEF Folds
  <2>3. F[m + 1][f[m]] \in S
    BY <2>1
  <2>4. QED
    BY <2>1, <2>2, <2>3
<1>3. Nat \subseteq T
  <2> HIDE DEF T
  <2> QED
    BY <1>1, <1>2, Induction
<1>4. QED
  BY <1>3
==============================================================================
