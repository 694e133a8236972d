----------------------------- MODULE Iteration -----------------------------
(***************************************************************************)
(* Induction in the form the proofs use it, a set of naturals has a least  *)
(* element and a step function has iterates; and division with remainder.  *)
(***************************************************************************)
EXTENDS Naturals, NaturalsInduction, WellFoundedInduction, TLAPS

(* The least element of a set of naturals.                                 *)
LEMMA LeastOf ==
  ASSUME NEW S \in SUBSET Nat, S # {}
  PROVE  \E i \in S : \A j \in S : i <= j
<1>1. PICK i \in S : \A j \in S : ~(<<j, i>> \in OpToRel(<, Nat))
  BY NatLessThanWellFounded, WFMin
<1>2. \A j \in S : ~(j < i)
  BY <1>1 DEF OpToRel
<1> QED BY <1>2

(* The iterates of the step function g, from b on.                         *)
IsIterate(f, S, b, g) ==
  f \in [Nat -> S] /\ f[0] = b /\ \A n \in Nat : f[n + 1] = g[n][f[n]]

(* A step function and a first value have a sequence of iterates.          *)
LEMMA Iterates ==
  ASSUME NEW S, NEW b \in S, NEW g \in [Nat -> [S -> S]]
  PROVE  \E f : IsIterate(f, S, b, g)
<1> DEFINE Part(n, f) == f[0] = b /\ \A j \in 0..(n - 1) : f[j + 1] = g[j][f[j]]
           bad == {n \in Nat : ~\E f \in [0..n -> S] : Part(n, f)}
<1>1. bad = {}
  <2> SUFFICES ASSUME bad # {} PROVE FALSE
    OBVIOUS
  <2>1. PICK n \in bad : \A j \in bad : n <= j
    <3>1. bad \in SUBSET Nat
      OBVIOUS
    <3> QED BY <3>1, LeastOf
  <2>2. CASE n = 0
    <3>1. [j \in 0..0 |-> b] \in [0..0 -> S] /\ Part(0, [j \in 0..0 |-> b])
      OBVIOUS
    <3> QED BY <2>1, <2>2, <3>1
  <2>3. CASE n # 0
    <3>1. n \in Nat /\ n - 1 \in Nat /\ n - 1 \notin bad
      <4>1. n \in Nat
        OBVIOUS
      <4> HIDE DEF bad
      <4> QED BY <2>1, <2>3, <4>1
    <3>2. PICK f \in [0..(n - 1) -> S] : Part(n - 1, f)
      BY <3>1
    <3> DEFINE h == [j \in 0..n |-> IF j = n THEN g[n - 1][f[n - 1]] ELSE f[j]]
    <3>3. h \in [0..n -> S]
      <4>1. g[n - 1] \in [S -> S] /\ f[n - 1] \in S
        BY <3>1
      <4> QED BY <3>1, <4>1
    <3>4. Part(n, h)
      <4>1. h[0] = b
        BY <2>3, <3>1, <3>2
      <4>2. ASSUME NEW j \in 0..(n - 1) PROVE h[j + 1] = g[j][h[j]]
        <5>1. h[j] = f[j]
          BY <3>1
        <5>2. CASE j = n - 1
          BY <3>1, <5>1, <5>2
        <5>3. CASE j # n - 1
          <6>1. j \in 0..(n - 1 - 1) /\ j + 1 # n /\ j + 1 \in 0..n
            BY <3>1, <5>3
          <6>2. h[j + 1] = f[j + 1]
            BY <6>1
          <6> QED BY <3>2, <5>1, <6>1, <6>2
        <5> QED BY <5>2, <5>3
      <4> QED BY <4>1, <4>2
    <3> QED BY <2>1, <3>3, <3>4
  <2> QED BY <2>2, <2>3
<1>2. \A n \in Nat : \E f \in [0..n -> S] : Part(n, f)
  BY <1>1
<1> DEFINE F(n) == CHOOSE f \in [0..n -> S] : Part(n, f)
           q == [n \in Nat |-> F(n)[n]]
<1>3. \A n \in Nat : F(n) \in [0..n -> S] /\ Part(n, F(n))
  BY <1>2
<1>4. ASSUME NEW n \in Nat PROVE \A j \in 0..n : F(n)[j] = F(n + 1)[j]
  <2> DEFINE apart == {j \in 0..n : F(n)[j] # F(n + 1)[j]}
  <2> SUFFICES ASSUME apart # {} PROVE FALSE
    OBVIOUS
  <2>1. apart \in SUBSET Nat
    OBVIOUS
  <2>2. PICK j \in apart : \A i \in apart : j <= i
    BY <2>1, LeastOf
  <2> DEFINE f == F(n)
             h == F(n + 1)
  <2> HIDE DEF F
  <2>3. Part(n, f) /\ Part(n + 1, h)
    BY <1>3
  <2>4. j # 0
    BY <2>2, <2>3
  <2>5. j - 1 \in 0..(n - 1) /\ j - 1 \notin apart /\ j \in 0..n
    BY <2>2, <2>4
  <2>6. f[j - 1] = h[j - 1]
    BY <2>5
  <2>7. f[j - 1 + 1] = g[j - 1][f[j - 1]]
    BY <2>3, <2>5
  <2>8. h[j - 1 + 1] = g[j - 1][h[j - 1]]
    BY <2>3, <2>5
  <2>9. j - 1 + 1 = j
    BY <2>5
  <2> QED BY <2>2, <2>6, <2>7, <2>8, <2>9
<1> HIDE DEF F
<1>5. q \in [Nat -> S]
  BY <1>3
<1>6. q[0] = b
  BY <1>3
<1>7. ASSUME NEW n \in Nat PROVE q[n + 1] = g[n][q[n]]
  <2>1. Part(n + 1, F(n + 1))
    BY <1>3
  <2>2. F(n + 1)[n + 1] = g[n][F(n + 1)[n]]
    BY <2>1
  <2>3. F(n + 1)[n] = F(n)[n]
    BY <1>4
  <2> QED BY <2>2, <2>3
<1> QED BY <1>5, <1>6, <1>7 DEF IsIterate
-----------------------------------------------------------------------------
(* Division with remainder.                                                *)
LEMMA DivMod ==
  ASSUME NEW d \in Nat \ {0}, NEW a \in Nat
  PROVE  /\ a \div d \in Nat /\ a % d \in 0..(d - 1)
         /\ a = d * (a \div d) + (a % d)
OBVIOUS

(* What divides leaves a quotient.                                         *)
LEMMA Multiple ==
  ASSUME NEW d \in Nat \ {0}, NEW a \in Nat, a % d = 0
  PROVE  a \div d \in Nat /\ a = d * (a \div d)
BY DivMod

(* Quotient and remainder are unique.                                      *)
LEMMA DivModOf ==
  ASSUME NEW d \in Nat \ {0}, NEW q \in Nat, NEW r \in 0..(d - 1)
  PROVE  (d * q + r) \div d = q /\ (d * q + r) % d = r
<1>1. PICK a \in Nat : a = d * q + r
  OBVIOUS
<1>2. PICK p \in Nat, s \in 0..(d - 1) : p = a \div d /\ s = a % d /\ a = d * p + s
  BY DivMod
<1>3. d * q + r = d * p + s
  BY <1>1, <1>2
<1>4. p = q
  BY <1>3
<1>5. s = r
  BY <1>3, <1>4
<1> QED BY <1>1, <1>2, <1>4, <1>5
=============================================================================
