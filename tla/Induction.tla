----------------------------- MODULE Induction ------------------------------
(***************************************************************************)
(* What the proofs of several components need about the natural numbers:   *)
(* induction and recursion, stated with sets and functions and not with    *)
(* operators, and the arithmetic of quotients and remainders.              *)
(***************************************************************************)
EXTENDS Integers, FiniteSetsExt, WellFoundedInduction, TLAPS

(* A set of naturals that is not empty has a least element.                *)
LEMMA LeastElement ==
    ASSUME NEW T \in SUBSET Nat, T # {}
    PROVE  \E n \in T : \A m \in T : n <= m
<1> DEFINE R == {ss \in Nat \X Nat : ss[1] < ss[2]}
<1>1. IsWellFoundedOn(R, Nat)
  BY NatLessThanWellFounded DEF OpToRel
<1>2. PICK x \in T : \A y \in T : <<y, x>> \notin R
  BY <1>1, WFMin
<1>3. \A y \in T : ~ (y < x)
  BY <1>2
<1> QED
  BY <1>3

(* A set with 0 that is closed under "one more", up to N, has all of them. *)
LEMMA InductionUpTo ==
    ASSUME NEW N \in Nat, NEW T,
           0 \in T, \A n \in 0 .. N - 1 : n \in T => n + 1 \in T
    PROVE  \A n \in 0 .. N : n \in T
<1> DEFINE Bad == {n \in 0 .. N : n \notin T}
<1>1. SUFFICES ASSUME Bad # {} PROVE FALSE
  OBVIOUS
<1>2. PICK n \in Bad : \A m \in Bad : n <= m
  <2>1. Bad \in SUBSET Nat
    OBVIOUS
  <2> HIDE DEF Bad
  <2> QED
    BY <1>1, <2>1, LeastElement
<1>3. n \in 1 .. N /\ n - 1 \in 0 .. N - 1
  OBVIOUS
<1>4. n - 1 \in T
  BY <1>2, <1>3
<1> QED
  BY <1>3, <1>4

LEMMA InductionOnNat ==
    ASSUME NEW T, 0 \in T, \A n \in Nat : n \in T => n + 1 \in T
    PROVE  \A n \in Nat : n \in T
<1> TAKE N \in Nat
<1>1. \A n \in 0 .. N - 1 : n \in T => n + 1 \in T
  OBVIOUS
<1>2. \A n \in 0 .. N : n \in T
  BY <1>1, InductionUpTo
<1> QED
  BY <1>2

(* A function from 0 .. N, or from Nat, to S can be defined by recursion:  *)
(* its value at 0, and how each value gives the next.                      *)
StepUpTo(step, N, S) == step \in [S \X (1 .. N) -> S]
ByRecursionUpTo(f, N, S, a, step) ==
    f \in [0 .. N -> S] /\ f[0] = a /\ \A n \in 1 .. N : f[n] = step[<<f[n - 1], n>>]
StepOnNat(step, S) == step \in [S \X Nat -> S]
ByRecursionOnNat(f, S, a, step) ==
    f \in [Nat -> S] /\ f[0] = a /\ \A n \in Nat \ {0} : f[n] = step[<<f[n - 1], n>>]

LEMMA RecursionUpTo ==
    ASSUME NEW N \in Nat, NEW S, NEW a \in S, NEW step, StepUpTo(step, N, S)
    PROVE  \E f : ByRecursionUpTo(f, N, S, a, step)
<1> USE DEF StepUpTo, ByRecursionUpTo
<1> DEFINE Ok(f, m) == ByRecursionUpTo(f, m, S, a, step)
           T == {m \in 0 .. N : \E f : Ok(f, m)}
<1>1. 0 \in T
  <2> DEFINE f == [i \in 0 .. 0 |-> a]
  <2>1. Ok(f, 0)
    OBVIOUS
  <2> HIDE DEF Ok, f
  <2> QED
    BY <2>1
<1>2. ASSUME NEW m \in 0 .. N - 1, m \in T PROVE m + 1 \in T
  <2>1. PICK f : Ok(f, m)
    BY <1>2
  <2>2. f[m] \in S /\ <<f[m], m + 1>> \in S \X (1 .. N)
    BY <2>1
  <2> DEFINE g == [i \in 0 .. m + 1 |-> IF i = m + 1 THEN step[<<f[m], m + 1>>] ELSE f[i]]
  <2>3. step[<<f[m], m + 1>>] \in S
    BY <2>2
  <2>4. \A i \in 0 .. m : g[i] = f[i] /\ f[i] \in S
    <3> TAKE i \in 0 .. m
    <3>1. i \in 0 .. m + 1 /\ i # m + 1
      OBVIOUS
    <3> QED
      BY <2>1, <3>1
  <2>5. g[m + 1] = step[<<f[m], m + 1>>]
    OBVIOUS
  <2>6. g \in [0 .. m + 1 -> S]
    <3>1. ASSUME NEW i \in 0 .. m + 1 PROVE g[i] \in S
      <4>1. CASE i = m + 1
        BY <2>3, <2>5, <4>1
      <4>2. CASE i # m + 1
        <5>1. i \in 0 .. m
          BY <4>2
        <5> QED
          BY <2>4, <5>1
      <4> QED
        BY <4>1, <4>2
    <3> QED
      BY <3>1
  <2>7. g[0] = a
    BY <2>1, <2>4
  <2>8. ASSUME NEW n \in 1 .. m + 1 PROVE g[n] = step[<<g[n - 1], n>>]
    <3>1. CASE n = m + 1
      <4>1. n - 1 = m /\ m \in 0 .. m
        BY <3>1
      <4> QED
        BY <3>1, <4>1, <2>4, <2>5
    <3>2. CASE n # m + 1
      <4>1. n \in 1 .. m /\ n \in 0 .. m /\ n - 1 \in 0 .. m
        BY <3>2
      <4>2. f[n] = step[<<f[n - 1], n>>]
        BY <2>1, <4>1
      <4> HIDE DEF g
      <4> QED
        BY <4>1, <4>2, <2>4
    <3> QED
      BY <3>1, <3>2
  <2>9. Ok(g, m + 1)
    BY <2>6, <2>7, <2>8
  <2> HIDE DEF Ok, g
  <2> QED
    BY <2>9
<1>3. N \in T
  <2> HIDE DEF T
  <2> QED
    BY <1>1, <1>2, InductionUpTo
<1> QED
  BY <1>3

(* The same on all of Nat.                                                 *)
LEMMA RecursionOnNat ==
    ASSUME NEW S, NEW a \in S, NEW step, StepOnNat(step, S)
    PROVE  \E f : ByRecursionOnNat(f, S, a, step)
<1> DEFINE Ok(f, m) == ByRecursionUpTo(f, m, S, a, step)
           Upto(m) == CHOOSE f : Ok(f, m)
           F == [m \in Nat |-> Upto(m)[m]]
<1>1. ASSUME NEW m \in Nat PROVE Ok(Upto(m), m)
  <2> DEFINE st == [x \in S \X (1 .. m) |-> step[x]]
  <2>1. StepUpTo(st, m, S)
    BY DEF StepUpTo, StepOnNat
  <2>2. PICK f : ByRecursionUpTo(f, m, S, a, st)
    <3> HIDE DEF st
    <3> QED
      BY <2>1, RecursionUpTo
  <2>3. f \in [0 .. m -> S] /\ f[0] = a
    BY <2>2 DEF ByRecursionUpTo
  <2>4. ASSUME NEW n \in 1 .. m PROVE f[n] = step[<<f[n - 1], n>>]
    <3>1. n - 1 \in 0 .. m
      OBVIOUS
    <3>2. <<f[n - 1], n>> \in S \X (1 .. m)
      BY <2>3, <3>1
    <3>3. st[<<f[n - 1], n>>] = step[<<f[n - 1], n>>]
      BY <3>2
    <3>4. f[n] = st[<<f[n - 1], n>>]
      BY <2>2 DEF ByRecursionUpTo
    <3> QED
      BY <3>3, <3>4
  <2>5. Ok(f, m)
    BY <2>3, <2>4 DEF ByRecursionUpTo
  <2> HIDE DEF Ok
  <2> QED
    BY <2>5
<1> USE DEF StepOnNat, ByRecursionUpTo, ByRecursionOnNat
<1>2. ASSUME NEW m \in Nat, NEW k \in Nat, m <= k
      PROVE  Upto(k)[m] = Upto(m)[m]
  <2> DEFINE f == Upto(m)
             g == Upto(k)
             T == {i \in 0 .. m : f[i] = g[i]}
  <2>1. Ok(f, m) /\ Ok(g, k)
    BY <1>1
  <2> HIDE DEF Upto, f, g
  <2>2. 0 \in T
    BY <2>1
  <2>3. ASSUME NEW i \in 0 .. m - 1, i \in T PROVE i + 1 \in T
    <3>1. i + 1 \in 1 .. m /\ i + 1 \in 1 .. k /\ (i + 1) - 1 = i /\ i + 1 \in 0 .. m
      BY <1>2
    <3>2. f[i + 1] = step[<<f[i], i + 1>>]
      BY <2>1, <3>1
    <3>3. g[i + 1] = step[<<g[i], i + 1>>]
      BY <2>1, <3>1
    <3> QED
      BY <2>3, <3>1, <3>2, <3>3
  <2>4. m \in T
    <3> HIDE DEF T
    <3> QED
      BY <2>2, <2>3, InductionUpTo
  <2> QED
    BY <2>4 DEF f, g
<1>3. F \in [Nat -> S]
  <2> SUFFICES ASSUME NEW m \in Nat PROVE Upto(m)[m] \in S
    OBVIOUS
  <2>1. Upto(m) \in [0 .. m -> S]
    BY <1>1
  <2> HIDE DEF Upto
  <2> QED
    BY <2>1
<1>4. F[0] = a
  <2>1. Upto(0)[0] = a
    BY <1>1
  <2> HIDE DEF Upto
  <2> QED
    BY <2>1
<1>5. ASSUME NEW n \in Nat \ {0} PROVE F[n] = step[<<F[n - 1], n>>]
  <2>1. n - 1 \in Nat /\ n \in 1 .. n /\ n - 1 <= n
    OBVIOUS
  <2>2. Upto(n)[n] = step[<<Upto(n)[n - 1], n>>]
    BY <1>1, <2>1
  <2>3. Upto(n)[n - 1] = Upto(n - 1)[n - 1]
    BY <1>2, <2>1
  <2> HIDE DEF Upto
  <2> QED
    BY <2>1, <2>2, <2>3
<1> HIDE DEF F
<1> QED
  BY <1>3, <1>4, <1>5

-----------------------------------------------------------------------------
(* Quotient and remainder.                                                 *)
LEMMA Division ==
    ASSUME NEW a \in Int, NEW b \in Nat \ {0}
    PROVE  a = b * (a \div b) + (a % b) /\ a % b \in 0 .. b - 1 /\ a \div b \in Int
<1>1. a % b \in 0 .. b - 1 /\ a \div b \in Int
  OBVIOUS
<1>2. a = b * (a \div b) + (a % b)
  BY Z3
<1> QED
  BY <1>1, <1>2

LEMMA DivisionUnique ==
    ASSUME NEW b \in Nat \ {0}, NEW q \in Int, NEW r \in 0 .. b - 1
    PROVE  (b * q + r) % b = r /\ (b * q + r) \div b = q
  OBVIOUS

LEMMA MinFacts ==
    ASSUME NEW S \in SUBSET Nat, S # {}
    PROVE  Min(S) \in S /\ \A m \in S : Min(S) <= m
  BY LeastElement, Zenon DEF Min

=============================================================================
