------------------------------ MODULE Induction ------------------------------
(***************************************************************************)
(* Induction over the naturals, stated over sets, and what it says of      *)
(* recursive functions: their value is that of the equation they are       *)
(* defined with.  To prove P(n) for all n, cite SetInduction with S the    *)
(* set {n \in Nat : P(n)}.                                                 *)
(***************************************************************************)
EXTENDS Integers, FiniteSetsExt, WellFoundedInduction, TLAPS

(* A set that holds 0 and the successor of each number it holds, holds     *)
(* every natural number.                                                   *)
LEMMA SetInduction ==
  ASSUME NEW S, 0 \in S, \A n \in Nat : n \in S => n + 1 \in S
  PROVE  Nat \subseteq S
<1> SUFFICES ASSUME Nat \ S # {} PROVE FALSE
  OBVIOUS
<1> DEFINE R == {p \in Nat \X Nat : p[1] < p[2]}
<1>1. IsWellFoundedOn(R, Nat)
  BY NatLessThanWellFounded DEF OpToRel
<1>2. PICK x \in Nat \ S : \A y \in Nat \ S : <<y, x>> \notin R
  <2> HIDE DEF R
  <2> QED BY <1>1, WFMin
<1>3. x # 0 /\ x - 1 \in Nat /\ x - 1 \notin S
  BY <1>2
<1>4. <<x - 1, x>> \in R
  BY <1>3
<1> QED BY <1>2, <1>3, <1>4

(* The operator Min of the community modules: a set of naturals that is    *)
(* not empty has a least element.                                          *)
LEMMA MinNat ==
  ASSUME NEW S \in SUBSET Nat, S # {}
  PROVE  Min(S) \in S /\ \A y \in S : Min(S) <= y
<1> DEFINE R == {p \in Nat \X Nat : p[1] < p[2]}
<1>1. IsWellFoundedOn(R, Nat)
  BY NatLessThanWellFounded DEF OpToRel
<1>2. PICK x \in S : \A y \in S : <<y, x>> \notin R
  <2> HIDE DEF R
  <2> QED BY <1>1, WFMin
<1>3. ASSUME NEW y \in S PROVE x <= y
  <2>1. x \in Nat /\ y \in Nat /\ <<y, x>> \notin R
    BY <1>2
  <2> QED BY <2>1
<1> QED BY <1>3 DEF Min

(* f starts with b, and step leads from each of its values up to the n-th  *)
(* to the next one.                                                        *)
Unfolds(f, b, step, n) ==
  f[0] = b /\ \A i \in 1..n : f[i] = step[<<f[i - 1], i>>]

(* Recursion: whatever the first value and the step, there is a function   *)
(* on 0..n that starts with the one and goes on with the other.            *)
LEMMA RecursionTo ==
  ASSUME NEW V, NEW b \in V, NEW step \in [V \X Nat -> V], NEW n \in Nat
  PROVE  \E g \in [0..n -> V] : Unfolds(g, b, step, n)
<1> USE DEF Unfolds
<1> DEFINE P(m) == \E g \in [0..m -> V] : Unfolds(g, b, step, m)
           S == {m \in Nat : P(m)}
<1>1. 0 \in S
  <2> DEFINE g0 == [i \in 0..0 |-> b]
  <2>1. g0 \in [0..0 -> V] /\ g0[0] = b /\ \A i \in 1..0 : FALSE
    OBVIOUS
  <2> HIDE DEF g0
  <2>2. P(0)
    BY <2>1
  <2> QED BY <2>2
<1>2. ASSUME NEW m \in Nat, m \in S PROVE m + 1 \in S
  <2>1. PICK g \in [0..m -> V] : g[0] = b /\ \A i \in 1..m : g[i] = step[<<g[i - 1], i>>]
    BY <1>2
  <2> DEFINE h == [i \in 0..(m + 1) |-> IF i = m + 1 THEN step[<<g[m], m + 1>>] ELSE g[i]]
  <2>2. g[m] \in V /\ <<g[m], m + 1>> \in V \X Nat
    BY <2>1
  <2>3. step[<<g[m], m + 1>>] \in V
    BY <2>2
  <2>4. h \in [0..(m + 1) -> V]
    BY <2>1, <2>3
  <2>5. h[0] = b
    BY <2>1
  <2>6. ASSUME NEW i \in 1..(m + 1) PROVE h[i] = step[<<h[i - 1], i>>]
    <3>1. CASE i = m + 1
      <4>1. h[i] = step[<<g[m], i>>] /\ h[i - 1] = g[m]
        BY <3>1
      <4> HIDE DEF h
      <4> QED BY <4>1
    <3>2. CASE i # m + 1
      <4>1. i \in 1..m /\ i - 1 \in 0..m /\ i - 1 # m + 1
        BY <3>2
      <4>2. h[i] = g[i] /\ h[i - 1] = g[i - 1]
        BY <4>1, <3>2
      <4>3. g[i] = step[<<g[i - 1], i>>]
        BY <4>1, <2>1
      <4> HIDE DEF h
      <4> QED BY <4>2, <4>3
    <3> QED BY <3>1, <3>2
  <2> HIDE DEF h
  <2>7. P(m + 1)
    BY <2>4, <2>5, <2>6
  <2> QED BY <2>7
<1>3. n \in S
  <2> HIDE DEF S
  <2> QED BY <1>1, <1>2, SetInduction
<1> QED BY <1>3

(* Recursion over all the naturals.                                        *)
LEMMA Recursion ==
  ASSUME NEW V, NEW b \in V, NEW step \in [V \X Nat -> V]
  PROVE  \E f \in [Nat -> V] : \A n \in Nat : Unfolds(f, b, step, n)
<1> DEFINE Good(g, m) == g \in [0..m -> V] /\ Unfolds(g, b, step, m)
           G == [m \in Nat |-> CHOOSE g : Good(g, m)]
           f == [m \in Nat |-> G[m][m]]
<1>1. ASSUME NEW m \in Nat PROVE Good(G[m], m)
  <2>1. PICK g \in [0..m -> V] : Unfolds(g, b, step, m)
    BY RecursionTo
  <2>2. Good(g, m)
    BY <2>1
  <2> HIDE DEF Good
  <2> QED BY <2>2
<1> HIDE DEF G
<1> USE DEF Unfolds
<1>2. ASSUME NEW m \in Nat, NEW k \in Nat, m <= k PROVE G[m][m] = G[k][m]
  <2> DEFINE T == {i \in Nat : i <= m => G[m][i] = G[k][i]}
  <2>0. Good(G[m], m) /\ Good(G[k], k)
    BY <1>1
  <2>1. 0 \in T
    BY <2>0
  <2>2. ASSUME NEW i \in Nat, i \in T PROVE i + 1 \in T
    <3> SUFFICES ASSUME i + 1 <= m PROVE G[m][i + 1] = G[k][i + 1]
      OBVIOUS
    <3>1. i + 1 \in 1..m /\ i + 1 \in 1..k /\ (i + 1) - 1 = i
      BY <1>2
    <3>2. G[m][i] = G[k][i]
      BY <2>2
    <3>3. G[m][i + 1] = step[<<G[m][i], i + 1>>]
      BY <2>0, <3>1
    <3>4. G[k][i + 1] = step[<<G[k][i], i + 1>>]
      BY <2>0, <3>1
    <3> QED BY <3>2, <3>3, <3>4
  <2>3. m \in T
    <3> HIDE DEF T
    <3> QED BY <2>1, <2>2, SetInduction
  <2> QED BY <2>3
<1>3. f \in [Nat -> V] /\ f[0] = b
  BY <1>1
<1>4. ASSUME NEW i \in Nat \ {0} PROVE f[i] = step[<<f[i - 1], i>>]
  <2>1. Good(G[i], i) /\ i \in 1..i /\ i - 1 \in Nat /\ i \in Nat /\ i - 1 <= i
    BY <1>1
  <2>2. G[i][i] = step[<<G[i][i - 1], i>>]
    BY <2>1
  <2>3. G[i - 1][i - 1] = G[i][i - 1]
    BY <2>1, <1>2
  <2>4. f[i] = G[i][i] /\ f[i - 1] = G[i - 1][i - 1]
    BY <2>1
  <2> HIDE DEF f
  <2> QED BY <2>2, <2>3, <2>4
<1> HIDE DEF f
<1>5. \A n \in Nat : Unfolds(f, b, step, n)
  BY <1>3, <1>4
<1> QED BY <1>3, <1>5
=============================================================================
