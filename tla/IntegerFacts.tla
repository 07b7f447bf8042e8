---------------------------- MODULE IntegerFacts ----------------------------
(***************************************************************************)
(* Facts about the integers that the proofs of several modules rest on:    *)
(* induction over the naturals, functions that are defined by iterating    *)
(* another one, and the arithmetic of division with remainder.             *)
(***************************************************************************)
EXTENDS Integers, WellFoundedInduction, TLAPS

(***************************************************************************)
(* A set of naturals that is not empty has a least element.                *)
(***************************************************************************)
LEMMA LeastNatural ==
  ASSUME NEW S \in SUBSET Nat, S # {}
  PROVE  \E n \in S : \A m \in S : n =< m
<1> DEFINE Less == OpToRel(<, Nat)
<1>1. IsWellFoundedOn(Less, Nat)
  BY NatLessThanWellFounded
<1> HIDE DEF Less
<1>2. PICK n \in S : \A m \in S : ~(<<m, n>> \in Less)
  BY <1>1, WFMin
<1>3. \A m \in S : m < n => <<m, n>> \in Less
  BY DEF Less, OpToRel
<1>4. \A m \in S : ~(m < n)
  BY <1>2, <1>3, Zenon
<1> QED  BY <1>4

(***************************************************************************)
(* Induction, for a property that is given as the set of the numbers that  *)
(* have it: no operator is passed, so any proof can cite it.               *)
(***************************************************************************)
LEMMA SetInduction ==
  ASSUME NEW S, 0 \in S, \A n \in Nat : n \in S => n + 1 \in S
  PROVE  \A n \in Nat : n \in S
<1> SUFFICES ASSUME NEW n \in Nat, n \notin S PROVE FALSE
  OBVIOUS
<1> DEFINE T == {m \in Nat : m \notin S}
<1>1. PICK m \in T : \A k \in T : m =< k
  BY LeastNatural
<1>2. m # 0 /\ m - 1 \in Nat /\ m - 1 \in S
  BY <1>1
<1> QED  BY <1>1, <1>2

IsIteration(g, X, x0, f) ==
  /\ g \in [Nat -> X]
  /\ g[0] = x0
  /\ \A n \in Nat : g[n + 1] = f[g[n]]

(***************************************************************************)
(* Iterating a function from a start value defines a function on the       *)
(* naturals. This is what a loop and a recursive function on Nat are       *)
(* proved with: CHOOSE returns a function with the property once there is  *)
(* one.                                                                    *)
(***************************************************************************)
LEMMA Iteration ==
  ASSUME NEW X, NEW x0 \in X, NEW f \in [X -> X]
  PROVE  \E g : IsIteration(g, X, x0, f)
<1> DEFINE Run(n)  == {r \in [0 .. n -> X] :
                         r[0] = x0 /\ \A i \in 1 .. n : r[i] = f[r[i - 1]]}
           HasRun  == {n \in Nat : Run(n) # {}}
           Agree   == {n \in Nat : \A a, b \in Nat : n =< a /\ n =< b =>
                         \A r \in Run(a), s \in Run(b) : r[n] = s[n]}
<1>1. \A n \in Nat : n \in HasRun
  <2>1. 0 \in HasRun
    <3>1. [i \in 0 .. 0 |-> x0] \in Run(0)
      OBVIOUS
    <3> QED  BY <3>1
  <2>2. ASSUME NEW n \in Nat, n \in HasRun PROVE n + 1 \in HasRun
    <3>1. PICK r : r \in Run(n)
      BY <2>2
    <3>2. [i \in 0 .. n + 1 |-> IF i = n + 1 THEN f[r[n]] ELSE r[i]]
            \in Run(n + 1)
      <4> DEFINE s == [i \in 0 .. n + 1 |-> IF i = n + 1 THEN f[r[n]] ELSE r[i]]
      <4>1. s \in [0 .. n + 1 -> X]
        BY <3>1
      <4>2. s[0] = x0 
        BY <3>1
      <4>3. ASSUME NEW i \in 1 .. n + 1 PROVE s[i] = f[s[i - 1]]
        BY <3>1
      <4> QED  BY <4>1, <4>2, <4>3
    <3> QED  BY <3>2
  <2> HIDE DEF HasRun
  <2> QED  BY <2>1, <2>2, SetInduction
<1>2. \A n \in Nat : n \in Agree
  <2>1. 0 \in Agree
    OBVIOUS
  <2>2. ASSUME NEW n \in Nat, n \in Agree PROVE n + 1 \in Agree
    <3>1. ASSUME NEW a \in Nat, NEW b \in Nat, n + 1 =< a, n + 1 =< b,
                 NEW r \in Run(a), NEW s \in Run(b)
          PROVE  r[n + 1] = s[n + 1]
      <4> HIDE DEF Run
      <4>1. n =< a /\ n =< b
        BY <3>1
      <4>2. r[n] = s[n]
        BY <2>2, <4>1
      <4> USE DEF Run
      <4>3. n + 1 \in 1 .. a /\ n + 1 \in 1 .. b /\ (n + 1) - 1 = n
        BY <3>1
      <4>4. r[n + 1] = f[r[n + 1 - 1]] /\ s[n + 1] = f[s[n + 1 - 1]]
        BY <4>3
      <4> QED  BY <4>2, <4>3, <4>4
    <3> HIDE DEF Run
    <3> QED  BY <3>1
  <2> HIDE DEF Agree
  <2> QED  BY <2>1, <2>2, SetInduction
<1> DEFINE run == [n \in Nat |-> CHOOSE r : r \in Run(n)]
           g   == [n \in Nat |-> run[n][n]]
<1>3. \A n \in Nat : run[n] \in Run(n)
  BY <1>1
<1> HIDE DEF run
<1>4. g \in [Nat -> X]
  <2> SUFFICES ASSUME NEW n \in Nat PROVE run[n][n] \in X
    OBVIOUS
  <2>1. run[n] \in [0 .. n -> X] /\ n \in 0 .. n
    BY <1>3
  <2> QED  BY <2>1
<1>5. ASSUME NEW n \in Nat
      PROVE  g[n] = IF n = 0 THEN x0 ELSE f[g[n - 1]]
  <2>1. CASE n = 0
    BY <1>3, <2>1
  <2>2. CASE n # 0
    <3>1. n - 1 \in Nat /\ n \in 1 .. n
      BY <2>2
    <3>2. run[n][n] = f[run[n][n - 1]]
      BY <1>3, <3>1
    <3>3. run[n][n - 1] = run[n - 1][n - 1]
      <4> HIDE DEF Run
      <4>1. n - 1 \in Agree /\ n - 1 =< n - 1 /\ n - 1 =< n
        BY <1>2, <3>1
      <4>2. run[n] \in Run(n) /\ run[n - 1] \in Run(n - 1)
        BY <1>3, <3>1
      <4> QED  BY <3>1, <4>1, <4>2
    <3> QED  BY <2>2, <3>1, <3>2, <3>3
  <2> QED  BY <2>1, <2>2
<1> HIDE DEF g
<1>6. g[0] = x0
  BY <1>5
<1>7. ASSUME NEW n \in Nat PROVE g[n + 1] = f[g[n]]
  BY <1>5
<1> QED  BY <1>4, <1>6, <1>7 DEF IsIteration


-----------------------------------------------------------------------------
(***************************************************************************)
(* The only multiple of b between -b and b is zero.                        *)
(***************************************************************************)
LEMMA MultipleOutOfRange ==
  ASSUME NEW b \in Nat \ {0}, NEW k \in Int, -b < b * k, b * k < b
  PROVE  k = 0
<1>1. CASE k >= 1
  BY <1>1
<1>2. CASE k =< -1
  BY <1>2
<1> QED  BY <1>1, <1>2

(***************************************************************************)
(* Division with remainder, as \div and % define it.                       *)
(***************************************************************************)
LEMMA Division ==
  ASSUME NEW b \in Nat \ {0}, NEW a \in Int
  PROVE  /\ a \div b \in Int
         /\ a % b \in 0 .. b - 1
         /\ a = b * (a \div b) + (a % b)
OBVIOUS

(***************************************************************************)
(* There is only one quotient and one remainder.                           *)
(***************************************************************************)
LEMMA DivisionIsUnique ==
  ASSUME NEW b \in Nat \ {0}, NEW q \in Int, NEW r \in 0 .. b - 1
  PROVE  (b * q + r) % b = r /\ (b * q + r) \div b = q
<1> DEFINE a == b * q + r
           p == a \div b
           s == a % b
<1>1. a \in Int
  OBVIOUS
<1>2. p \in Int /\ s \in 0 .. b - 1 /\ a = b * p + s
  BY <1>1, Division
<1>3. b * q + r = b * p + s
  BY <1>2
<1> HIDE DEF a, p, s
<1>4. b * (q - p) = s - r
  BY <1>2, <1>3
<1>5. q - p = 0
  BY <1>2, <1>4, MultipleOutOfRange
<1>6. p = q /\ s = r
  BY <1>2, <1>3, <1>5
<1> QED  BY <1>6 DEF a, p, s

(***************************************************************************)
(* A multiple of the divisor does not change the remainder.                *)
(***************************************************************************)
LEMMA AddMultiple ==
  ASSUME NEW b \in Nat \ {0}, NEW a \in Int, NEW k \in Int
  PROVE  (a + b * k) % b = a % b
<1> DEFINE q == a \div b
           r == a % b
<1>1. q \in Int /\ r \in 0 .. b - 1 /\ a = b * q + r
  BY Division
<1> HIDE DEF q, r
<1>2. a + b * k = b * (q + k) + r
  BY <1>1
<1>3. q + k \in Int
  BY <1>1
<1>4. (b * (q + k) + r) % b = r
  BY <1>1, <1>3, DivisionIsUnique
<1>5. (a + b * k) % b = r
  BY <1>2, <1>4
<1> QED  BY <1>5 DEF r

(***************************************************************************)
(* A remainder can be taken early in a sum and in a difference: the        *)
(* columns of siamese wrap around at any time.                             *)
(***************************************************************************)
LEMMA SumOfResidue ==
  ASSUME NEW b \in Nat \ {0}, NEW a \in Int, NEW c \in Int
  PROVE  ((a % b) + c) % b = (a + c) % b /\ (c + (a % b)) % b = (c + a) % b
         /\ (c - (a % b)) % b = (c - a) % b
<1> DEFINE q == a \div b
           r == a % b
<1>1. q \in Int /\ r \in 0 .. b - 1 /\ a = b * q + r
  BY Division
<1> HIDE DEF q, r
<1>2. a + c = (r + c) + b * q /\ c + a = (c + r) + b * q
  BY <1>1
<1>3. c - r = (c - a) + b * q
  BY <1>1
<1>4. r + c \in Int /\ c - a \in Int
  BY <1>1
<1>5. ((r + c) + b * q) % b = (r + c) % b
  BY <1>1, <1>4, AddMultiple
<1>6. ((c - a) + b * q) % b = (c - a) % b
  BY <1>1, <1>4, AddMultiple
<1>7. c + r = r + c /\ c + a = a + c
  BY <1>1
<1> QED  BY <1>2, <1>3, <1>5, <1>6, <1>7 DEF r

(***************************************************************************)
(* Numbers with the same remainder that are less than the divisor apart    *)
(* are equal.                                                              *)
(***************************************************************************)
LEMMA SameResidue ==
  ASSUME NEW b \in Nat \ {0}, NEW a \in Int, NEW c \in Int,
         a % b = c % b, -b < a - c, a - c < b
  PROVE  a = c
<1> DEFINE q == a \div b
           p == c \div b
           r == a % b
<1>1. q \in Int /\ p \in Int /\ r \in 0 .. b - 1 /\ a = b * q + r
      /\ c = b * p + r
  BY Division
<1> HIDE DEF q, p, r
<1>2. b * (q - p) = a - c
  BY <1>1
<1>3. q - p = 0
  BY <1>1, <1>2, MultipleOutOfRange
<1> QED  BY <1>1, <1>3

(***************************************************************************)
(* Multiplying by a natural keeps an order.                                *)
(***************************************************************************)
LEMMA ProductAtLeast ==
  ASSUME NEW a \in Nat, NEW b \in Int, NEW c \in Int, b =< c
  PROVE  a * b =< a * c
<1>1. a * (c - b) >= 0
  OBVIOUS
<1>2. a * (c - b) = a * c - a * b
  OBVIOUS
<1> QED BY <1>1, <1>2
=============================================================================
