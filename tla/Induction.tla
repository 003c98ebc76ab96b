------------------------------ MODULE Induction ------------------------------
(* Induction on sets of numbers, and what it says of functions that are     *)
(* defined by recursion on numbers: a set can be a parameter of a lemma, and*)
(* is the property that induction establishes.                              *)
EXTENDS Integers, WellFoundedInduction, TLAPS

Less == {p \in Nat \X Nat : p[1] < p[2]}

(* A set of numbers has a least element.                                    *)
LEMMA Least ==
  ASSUME NEW T, T \subseteq Nat, T # {}
  PROVE  \E x \in T : \A y \in T : x <= y
<1>1. IsWellFoundedOn(Less, Nat)
  BY NatLessThanWellFounded DEF OpToRel, Less
<1>2. PICK x \in T : \A y \in T : ~(<<y, x>> \in Less)
  BY <1>1, WFMin
<1>3. ASSUME NEW y \in T PROVE x <= y
  <2>1. <<y, x>> \in Nat \X Nat /\ x \in Nat /\ y \in Nat
    BY <1>3
  <2>2. ~(y < x)
    BY <1>2, <2>1 DEF Less
  <2> QED BY <2>1, <2>2
<1> QED BY <1>3

(* What holds of 0 and passes on from each number to the next holds of all. *)
LEMMA Induct ==
  ASSUME NEW T, 0 \in T, \A m \in Nat : m \in T => m + 1 \in T
  PROVE  Nat \subseteq T
<1>1. ASSUME NEW m \in Nat, m \notin T PROVE FALSE
  <2>1. PICK x \in Nat \ T : \A y \in Nat \ T : x <= y
    BY <1>1, Least
  <2>2. x # 0 /\ x - 1 \in Nat
    BY <2>1
  <2>3. x - 1 \in T
    BY <2>1, <2>2
  <2> QED BY <2>1, <2>2, <2>3
<1> QED BY <1>1

(* The functions that begin with a and go from each value to the next.      *)
Recursion(S, a, m, G) ==
  {f \in [0..m -> S] : f[0] = a /\ \A j \in 1..m : f[j] = G[<<j, f[j - 1]>>]}

(* There is one.                                                            *)
LEMMA RecursionExists ==
  ASSUME NEW S, NEW a \in S, NEW m \in Nat, NEW G \in [(1..m) \X S -> S]
  PROVE  Recursion(S, a, m, G) # {}
<1> DEFINE T == {l \in Nat : l <= m =>
                   \E f \in [0..l -> S] : f[0] = a /\ \A j \in 1..l : f[j] = G[<<j, f[j - 1]>>]}
<1>1. 0 \in T
  <2>1. [j \in 0..0 |-> a] \in [0..0 -> S] /\ [j \in 0..0 |-> a][0] = a /\ 1..0 = {}
    OBVIOUS
  <2> QED BY <2>1
<1>2. ASSUME NEW l \in Nat, l \in T, l + 1 <= m
      PROVE  \E g \in [0..l + 1 -> S] : g[0] = a /\ \A j \in 1..l + 1 : g[j] = G[<<j, g[j - 1]>>]
  <2>1. PICK f \in [0..l -> S] : f[0] = a /\ \A j \in 1..l : f[j] = G[<<j, f[j - 1]>>]
    BY <1>2
  <2>2. f[l] \in S /\ l + 1 \in 1..m /\ G[<<l + 1, f[l]>>] \in S
    BY <1>2, <2>1
  <2> DEFINE g == [j \in 0..l + 1 |-> IF j = l + 1 THEN G[<<l + 1, f[l]>>] ELSE f[j]]
  <2>3. g \in [0..l + 1 -> S]
    BY <2>1, <2>2
  <2>4. g[0] = a /\ g[l + 1] = G[<<l + 1, f[l]>>] /\ \A j \in 0..l : g[j] = f[j]
    BY <2>1
  <2>5. ASSUME NEW j \in 1..l + 1 PROVE g[j] = G[<<j, g[j - 1]>>]
    <3>1. CASE j = l + 1
      <4>1. j - 1 = l /\ l \in 0..l
        BY <3>1
      <4> QED BY <2>4, <3>1, <4>1
    <3>2. CASE j # l + 1
      <4>1. j \in 1..l /\ j \in 0..l /\ j - 1 \in 0..l
        BY <3>2
      <4> HIDE DEF g
      <4> QED BY <2>1, <2>4, <4>1
    <3> QED BY <3>1, <3>2
  <2> HIDE DEF g
  <2> QED BY <2>3, <2>4, <2>5
<1>3. Nat \subseteq T
  <2>1. \A l \in Nat : l \in T => l + 1 \in T
    BY <1>2
  <2> HIDE DEF T
  <2> QED BY <1>1, <2>1, Induct
<1>4. \E f \in [0..m -> S] : f[0] = a /\ \A j \in 1..m : f[j] = G[<<j, f[j - 1]>>]
  BY <1>3
<1> QED BY <1>4 DEF Recursion

(* There is only one, as far as it is defined.                              *)
LEMMA RecursionUnique ==
  ASSUME NEW m \in Nat, NEW f, NEW g, NEW G, f[0] = g[0],
         \A j \in 1..m : f[j] = G[<<j, f[j - 1]>>] /\ g[j] = G[<<j, g[j - 1]>>]
  PROVE  \A l \in 0..m : f[l] = g[l]
<1> DEFINE T == {l \in Nat : l <= m => f[l] = g[l]}
<1>1. 0 \in T
  OBVIOUS
<1>2. ASSUME NEW l \in Nat, l \in T, l + 1 <= m PROVE f[l + 1] = g[l + 1]
  <2>1. l + 1 \in 1..m /\ (l + 1) - 1 = l /\ f[l] = g[l]
    BY <1>2
  <2>2. f[l + 1] = G[<<l + 1, f[(l + 1) - 1]>>] /\ g[l + 1] = G[<<l + 1, g[(l + 1) - 1]>>]
    BY <2>1
  <2> QED BY <2>1, <2>2
<1>3. Nat \subseteq T
  <2>1. ASSUME NEW l \in Nat, l \in T PROVE l + 1 \in T
    <3>1. l + 1 \in Nat
      OBVIOUS
    <3>2. l + 1 <= m => f[l + 1] = g[l + 1]
      BY <1>2, <2>1
    <3> QED BY <3>1, <3>2
  <2> HIDE DEF T
  <2> QED BY <1>1, <2>1, Induct
<1> QED BY <1>3

=============================================================================
