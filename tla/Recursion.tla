----------------------------- MODULE Recursion ------------------------------
(***************************************************************************)
(* Induction and recursion over the naturals, in the form the provers can  *)
(* use: instead of an induction theorem, whose hypothesis is an operator,  *)
(* the least counterexample of a set of them.                              *)
(***************************************************************************)
EXTENDS Integers, TLAPS, WellFoundedInduction

(* A set of naturals that is not empty has a least element. *)
LEMMA Least ==
  ASSUME NEW T, T \subseteq Nat, T # {}
  PROVE  \E m \in T : \A k \in T : m <= k
<1> DEFINE R == OpToRel(<, Nat)
<1>1. \A p, q \in Nat : p < q => <<p, q>> \in R
  BY DEF OpToRel
<1>2. IsWellFoundedOn(R, Nat)
  BY NatLessThanWellFounded
<1> HIDE DEF R
<1>3. PICK m \in T : \A k \in T : ~(<<k, m>> \in R)
  BY <1>2, WFMin
<1>4. ASSUME NEW k \in T
      PROVE  m <= k
  <2>1. m \in Nat /\ k \in Nat
    OBVIOUS
  <2>2. ~(k < m)
    BY <1>1, <1>3, <2>1
  <2> QED
    BY <2>1, <2>2
<1> QED
  BY <1>4

(* Induction up to n, over the set of the numbers that are as wanted. *)
LEMMA UpTo ==
  ASSUME NEW n \in Nat, NEW Good, 0 \in Good,
         \A k \in 1 .. n : k - 1 \in Good => k \in Good
  PROVE  0 .. n \subseteq Good
<1> DEFINE Bad == {k \in 0 .. n : k \notin Good}
<1> SUFFICES ASSUME Bad # {} PROVE FALSE
  OBVIOUS
<1>1. Bad \subseteq Nat
  OBVIOUS
<1>2. PICK m \in Bad : \A k \in Bad : m <= k
  BY <1>1, Least, Zenon
<1>3. m \in 1 .. n
  OBVIOUS
<1>4. m - 1 \in Good
  <2>1. m - 1 \in 0 .. n /\ ~(m <= m - 1)
    BY <1>3
  <2> QED
    BY <1>2, <2>1
<1> QED
  BY <1>3, <1>4

(* f starts with a and takes its steps with g, up to n. *)
Follows(f, a, g, n) == f[0] = a /\ \A i \in 1 .. n : f[i] = g[i][f[i - 1]]

(* A function defined by recursion over 0 .. n exists. *)
LEMMA Recursive ==
  ASSUME NEW D, NEW a \in D, NEW n \in Nat, NEW g \in [1 .. n -> [D -> D]]
  PROVE  \E f \in [0 .. n -> D] : Follows(f, a, g, n)
<1> DEFINE Sound(k, f) == Follows(f, a, g, k)
           Good == {k \in 0 .. n : \E f \in [0 .. k -> D] : Sound(k, f)}
<1>1. 0 \in Good
  <2> DEFINE h == [i \in 0 .. 0 |-> a]
  <2>1. h \in [0 .. 0 -> D] /\ Sound(0, h)
    BY DEF Follows
  <2> HIDE DEF h, Sound
  <2> QED
    BY <2>1
<1>2. ASSUME NEW k \in 1 .. n, k - 1 \in Good
      PROVE  k \in Good
  <2>1. PICK f \in [0 .. k - 1 -> D] : Sound(k - 1, f)
    BY <1>2
  <2> DEFINE h == [i \in 0 .. k |-> IF i = k THEN g[k][f[k - 1]] ELSE f[i]]
  <2>2. g[k][f[k - 1]] \in D
    OBVIOUS
  <2>3. h \in [0 .. k -> D]
    BY <2>2
  <2>4. Sound(k, h)
    <3>1. h[0] = a
      BY <2>1 DEF Follows
    <3>2. ASSUME NEW i \in 1 .. k
          PROVE  h[i] = g[i][h[i - 1]]
      <4>1. i \in 0 .. k /\ i - 1 \in 0 .. k - 1 /\ i - 1 \in 0 .. k /\ i - 1 # k
        OBVIOUS
      <4>2. CASE i = k
        BY <4>1, <4>2
      <4>3. CASE i # k
        <5>1. i \in 1 .. k - 1
          BY <4>3
        <5> QED
          BY <2>1, <4>1, <4>3, <5>1 DEF Follows
      <4> QED
        BY <4>2, <4>3
    <3> QED
      BY <3>1, <3>2 DEF Follows
  <2> HIDE DEF h, Sound
  <2> QED
    BY <2>3, <2>4
<1>3. n \in Good
  <2> HIDE DEF Good
  <2>1. 0 .. n \subseteq Good
    BY <1>1, <1>2, UpTo
  <2> QED
    BY <2>1
<1> QED
  BY <1>3
=============================================================================
