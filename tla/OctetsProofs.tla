---------------------------- MODULE OctetsProofs ----------------------------
(***************************************************************************)
(* Proofs that the functions on bytes do what they are for: roots and      *)
(* their texts for every length of a root and every field, and the first   *)
(* difference of any two byte strings.                                     *)
(***************************************************************************)
EXTENDS MCOctets, Recursion, SequenceTheorems

-----------------------------------------------------------------------------
(* The first difference. *)

(* What byte_diff_detail returns: up to there the strings agree, and there *)
(* one of them ends or they differ.                                        *)
LEMMA FirstDiffIs ==
  ASSUME NEW s \in Seq(Bytes), NEW t \in Seq(Bytes),
         NEW m, m = FirstDiff(s, t)
  PROVE  /\ m \in 0 .. Len(s) /\ m \in 0 .. Len(t)
         /\ \A i \in 1 .. m : s[i] = t[i]
         /\ m < Len(s) /\ m < Len(t) => s[m + 1] # t[m + 1]
<1> DEFINE n == LeastLength(s, t)
           D == {i \in 1 .. n : s[i] # t[i]}
<1>1. /\ Len(s) \in Nat /\ Len(t) \in Nat
      /\ n \in Nat /\ n <= Len(s) /\ n <= Len(t) /\ (n = Len(s) \/ n = Len(t))
  BY DEF LeastLength
<1>2. m = IF D = {} THEN n ELSE (CHOOSE i \in D : \A j \in D : i <= j) - 1
  BY DEF FirstDiff
<1> HIDE DEF n
<1>3. CASE D = {}
  BY <1>1, <1>2, <1>3
<1>4. CASE D # {}
  <2>1. D \subseteq Nat
    BY <1>1
  <2> HIDE DEF D
  <2>2. \E i \in D : \A j \in D : i <= j
    BY <1>4, <2>1, Least
  <2> DEFINE d == CHOOSE i \in D : \A j \in D : i <= j
  <2>3. d \in D /\ \A j \in D : d <= j
    BY <2>2
  <2>4. m = d - 1
    BY <1>2, <1>4
  <2> HIDE DEF d
  <2>5. d \in 1 .. n /\ s[d] # t[d]
    BY <2>3 DEF D
  <2>6. ASSUME NEW i \in 1 .. d - 1
        PROVE  s[i] = t[i]
    <3>1. i \in 1 .. n /\ ~(d <= i)
      BY <1>1, <2>5
    <3> QED
      BY <2>3, <3>1 DEF D
  <2> QED
    BY <1>1, <2>4, <2>5, <2>6
<1> QED
  BY <1>3, <1>4

LEMMA CommonPrefixesIs ==
  ASSUME NEW s \in Seq(Bytes), NEW t \in Seq(Bytes)
  PROVE  CommonPrefixes({s, t}) =
           {SubSeq(s, 1, l) : l \in {l \in 0 .. Len(s) :
              l <= Len(t) /\ \A i \in 1 .. l : s[i] = t[i]}}
<1> DEFINE Agree(l) == l <= Len(t) /\ \A i \in 1 .. l : s[i] = t[i]
<1>1. Len(s) \in Nat /\ Len(t) \in Nat
  OBVIOUS
<1>2. ASSUME NEW l \in 0 .. Len(s)
      PROVE  IsPrefix(SubSeq(s, 1, l), s) /\ (IsPrefix(SubSeq(s, 1, l), t) <=> Agree(l))
  <2> DEFINE p == SubSeq(s, 1, l)
  <2>1. /\ p \in Seq(Bytes) /\ Len(p) = l /\ \A i \in 1 .. l : p[i] = s[i]
        /\ SubSeq(p, 1, l) = p
    <3>1. /\ p \in Seq(Bytes) /\ Len(p) = l /\ \A i \in 1 .. l : p[i] = s[i]
      BY <1>1
    <3> HIDE DEF p
    <3> QED
      BY <3>1, SubSeqFull
  <2> HIDE DEF p
  <2>2. IsPrefix(p, s)
    BY <1>1, <2>1 DEF IsPrefix, p
  <2>3. IsPrefix(p, t) <=> l <= Len(t) /\ p = SubSeq(t, 1, l)
    BY <2>1 DEF IsPrefix
  <2>4. ASSUME l <= Len(t)
        PROVE  p = SubSeq(t, 1, l) <=> \A i \in 1 .. l : s[i] = t[i]
    <3> DEFINE q == SubSeq(t, 1, l)
    <3>1. q \in Seq(Bytes) /\ Len(q) = l /\ \A i \in 1 .. l : q[i] = t[i]
      BY <1>1, <2>4
    <3> HIDE DEF q
    <3>2. (\A i \in 1 .. l : p[i] = q[i]) => p = q
      BY <2>1, <3>1, SeqEqual
    <3> QED
      BY <2>1, <3>1, <3>2 DEF q
  <2> QED
    BY <2>2, <2>3, <2>4 DEF p
<1>3. ASSUME NEW l \in 0 .. Len(t), IsPrefix(SubSeq(t, 1, l), s)
      PROVE  l \in 0 .. Len(s) /\ SubSeq(t, 1, l) = SubSeq(s, 1, l)
  <2> DEFINE q == SubSeq(t, 1, l)
  <2>1. q \in Seq(Bytes) /\ Len(q) = l
    BY <1>1
  <2>2. SubSeq(q, 1, l) = q
    BY <2>1, SubSeqFull
  <2> HIDE DEF q
  <2>3. l <= Len(s) /\ SubSeq(q, 1, l) = SubSeq(s, 1, l)
    BY <1>3, <2>1 DEF IsPrefix, q
  <2> QED
    BY <1>1, <2>2, <2>3 DEF q
<1> HIDE DEF Agree
<1>4. CommonPrefixes({s, t}) =
        {p \in {SubSeq(s, 1, l) : l \in 0 .. Len(s)}
                 \cup {SubSeq(t, 1, l) : l \in 0 .. Len(t)} :
           IsPrefix(p, s) /\ IsPrefix(p, t)}
  BY DEF CommonPrefixes, Prefixes
<1>5. CommonPrefixes({s, t}) = {SubSeq(s, 1, l) : l \in {l \in 0 .. Len(s) : Agree(l)}}
  BY <1>2, <1>3, <1>4
<1> QED
  BY <1>5 DEF Agree

LEMMA LongestIsFirstDiff ==
  ASSUME NEW s \in Seq(Bytes), NEW t \in Seq(Bytes)
  PROVE  FirstDiff(s, t) = Len(LongestCommonPrefix({s, t}))
<1> DEFINE m == FirstDiff(s, t)
           P == CommonPrefixes({s, t})
           L == {l \in 0 .. Len(s) : l <= Len(t) /\ \A i \in 1 .. l : s[i] = t[i]}
           lcp == LongestCommonPrefix({s, t})
<1>1. Len(s) \in Nat /\ Len(t) \in Nat
  OBVIOUS
<1>2. /\ m \in 0 .. Len(s) /\ m \in 0 .. Len(t)
      /\ \A i \in 1 .. m : s[i] = t[i]
      /\ m < Len(s) /\ m < Len(t) => s[m + 1] # t[m + 1]
  BY FirstDiffIs
<1>3. P = {SubSeq(s, 1, l) : l \in L}
  BY CommonPrefixesIs
<1>4. \A l \in L : Len(SubSeq(s, 1, l)) = l
  BY <1>1
<1>5. lcp = CHOOSE p \in P : \A q \in P : Len(q) <= Len(p)
  BY DEF LongestCommonPrefix
<1> HIDE DEF m, P, lcp
<1>6. m \in L
  BY <1>1, <1>2
<1>7. ASSUME NEW l \in L
      PROVE  l <= m
  <2> SUFFICES ASSUME ~(l <= m) PROVE FALSE
    OBVIOUS
  <2>1. m + 1 \in 1 .. l /\ m < Len(s) /\ m < Len(t)
    BY <1>1, <1>2
  <2> QED
    BY <1>2, <2>1
<1> HIDE DEF L
<1>8. \E p \in P : \A q \in P : Len(q) <= Len(p)
  BY <1>3, <1>4, <1>6, <1>7
<1>9. lcp \in P /\ \A q \in P : Len(q) <= Len(lcp)
  BY <1>5, <1>8
<1>10. PICK l \in L : Len(lcp) = l
  BY <1>3, <1>4, <1>9
<1>11. m <= l
  BY <1>3, <1>4, <1>6, <1>9, <1>10
<1>12. l \in Nat /\ m \in Nat
  BY <1>1, <1>2 DEF L
<1> QED
  BY <1>7, <1>10, <1>11, <1>12 DEF m, lcp

(* The byte strings of a run stay byte strings. *)
OctetsType == text \in Seq(Alphabet) /\ got \in Seq(Bytes) /\ want \in Seq(Bytes)

LEMMA OctetsInvariance == Spec => []OctetsType
<1>1. Init => OctetsType
  BY DEF Init, OctetsType
<1>2. OctetsType /\ [Next]_vars => OctetsType'
  <2> SUFFICES ASSUME OctetsType, [Next]_vars PROVE OctetsType'
    OBVIOUS
  <2>1. CASE GrowText
    BY <2>1 DEF GrowText, OctetsType
  <2>2. CASE GrowGot
    BY <2>2 DEF GrowGot, OctetsType
  <2>3. CASE GrowWant
    BY <2>3 DEF GrowWant, OctetsType
  <2>4. CASE UNCHANGED vars
    BY <2>4 DEF vars, OctetsType
  <2> QED
    BY <2>1, <2>2, <2>3, <2>4, Zenon DEF Next
<1> QED
  BY <1>1, <1>2, PTL DEF Spec

(***************************************************************************)
(* The position reported for two byte strings of any lengths is where what *)
(* they have in common ends (byte_diff_detail, src/verdict.rs:12-22).      *)
(***************************************************************************)
THEOREM DiffWhereTheyPart == Spec => []FirstDiffIsFirst
<1>1. OctetsType => FirstDiffIsFirst
  BY LongestIsFirstDiff DEF OctetsType, FirstDiffIsFirst
<1> QED
  BY <1>1, OctetsInvariance, PTL

-----------------------------------------------------------------------------
(* Digits. *)

LEMMA DigitsDiffer ==
  ASSUME NEW v \in 0 .. 15, NEW w \in 0 .. 15,
         {HexDigit[v + 1], UpperHexDigit[v + 1]}
           \cap {HexDigit[w + 1], UpperHexDigit[w + 1]} # {}
  PROVE  v = w
BY DEF HexDigit, UpperHexDigit

LEMMA NoDigit ==
  ASSUME NEW v \in 0 .. 15
  PROVE  /\ {HexDigit[v + 1], UpperHexDigit[v + 1]} \cap {"x", "+"} = {}
         /\ v = 0 => HexDigit[v + 1] = "0" /\ UpperHexDigit[v + 1] = "0"
BY DEF HexDigit, UpperHexDigit

(* Every digit has a value, and is one of the two ways to write it. *)
LEMMA ValueOfDigit ==
  ASSUME NEW c, IsHexDigit(c)
  PROVE  /\ DigitValue[c] \in 0 .. 15
         /\ c \in {HexDigit[DigitValue[c] + 1], UpperHexDigit[DigitValue[c] + 1]}
<1>1. PICK i \in 1 .. 16 : c \in {HexDigit[i], UpperHexDigit[i]}
  BY DEF IsHexDigit, DigitValue
<1> DEFINE j == CHOOSE k \in 1 .. 16 : c \in {HexDigit[k], UpperHexDigit[k]}
<1>2. j \in 1 .. 16 /\ c \in {HexDigit[j], UpperHexDigit[j]}
  BY <1>1
<1>3. DigitValue[c] = j - 1
  BY DEF IsHexDigit, DigitValue
<1> HIDE DEF j
<1>4. DigitValue[c] + 1 = j
  BY <1>2, <1>3
<1> QED
  BY <1>2, <1>3, <1>4

LEMMA DigitOfValue ==
  ASSUME NEW v \in 0 .. 15
  PROVE  IsHexDigit(HexDigit[v + 1]) /\ DigitValue[HexDigit[v + 1]] = v
<1>1. IsHexDigit(HexDigit[v + 1])
  BY DEF IsHexDigit, DigitValue
<1>2. DigitValue[HexDigit[v + 1]] = v
  BY <1>1, ValueOfDigit, DigitsDiffer
<1> QED
  BY <1>1, <1>2

LEMMA NotDigit == ~IsHexDigit("x") /\ ~IsHexDigit("+")
BY ValueOfDigit, NoDigit

LEMMA ZeroDigit ==
  /\ IsHexDigit("0") /\ DigitValue["0"] = 0
  /\ \A c : IsHexDigit(c) /\ DigitValue[c] = 0 => c = "0"
BY ValueOfDigit, NoDigit, DigitOfValue

(* A byte and its two digits. *)
LEMMA DigitsOfByte ==
  ASSUME NEW h \in 0 .. 15, NEW l \in 0 .. 15
  PROVE  /\ 16 * h + l \in 0 .. 255
         /\ (16 * h + l) \div 16 = h /\ (16 * h + l) % 16 = l
<1> DEFINE b == 16 * h + l
<1>1. b \in Nat /\ 16 * h <= b /\ b < 16 * h + 16
  OBVIOUS
<1>2. b \div 16 = h /\ b = 16 * (b \div 16) + (b % 16)
  <2> HIDE DEF b
  <2> QED
    BY <1>1
<1>3. b % 16 \in Int
  <2> HIDE DEF b
  <2> QED
    BY <1>1
<1> QED
  BY <1>2, <1>3

LEMMA ByteOfDigits ==
  ASSUME NEW b \in 0 .. 255
  PROVE  /\ b \div 16 \in 0 .. 15 /\ b % 16 \in 0 .. 15
         /\ 16 * (b \div 16) + (b % 16) = b
OBVIOUS

-----------------------------------------------------------------------------
(* Sequences of pairs. *)

LEMMA FlattenPairs ==
  ASSUME NEW S, NEW n \in Nat, n # 0, NEW f \in [1 .. n -> Seq(S)],
         \A k \in 1 .. n : Len(f[k]) = 2
  PROVE  /\ FlattenSeq(f) \in Seq(S) /\ Len(FlattenSeq(f)) = 2 * n
         /\ \A k \in 1 .. n : /\ FlattenSeq(f)[2 * k - 1] = f[k][1]
                              /\ FlattenSeq(f)[2 * k] = f[k][2]
<1> DEFINE g == [k \in 1 .. n |-> [s \in Seq(S) |-> s \o f[k]]]
           Defines(h) == h = [i \in 1 .. n |-> IF i = 1 THEN f[i] ELSE h[i - 1] \o f[i]]
           flatten == CHOOSE h : Defines(h)
<1>1. FlattenSeq(f) = flatten[n]
  <2>1. Len(f) = n /\ n # 0
    OBVIOUS
  <2> QED
    BY <2>1, Zenon DEF FlattenSeq
<1>2. PICK h \in [0 .. n -> Seq(S)] : h[0] = <<>> /\ \A i \in 1 .. n : h[i] = h[i - 1] \o f[i]
  <2> DEFINE D == Seq(S)
             a == <<>>
  <2>1. n \in Nat /\ a \in D /\ g \in [1 .. n -> [D -> D]]
    OBVIOUS
  <2> HIDE DEF g, D, a
  <2>2. \E h \in [0 .. n -> D] : Follows(h, a, g, n)
    BY <2>1, Recursive
  <2>3. PICK h \in [0 .. n -> D] : h[0] = a /\ \A i \in 1 .. n : h[i] = g[i][h[i - 1]]
    BY <2>2 DEF Follows
  <2>4. ASSUME NEW i \in 1 .. n
        PROVE  h[i] = h[i - 1] \o f[i]
    <3>1. i - 1 \in 0 .. n
      OBVIOUS
    <3> QED
      BY <2>3, <3>1 DEF D, g
  <2> QED
    BY <2>3, <2>4 DEF D, a
<1> DEFINE e == [i \in 1 .. n |-> h[i]]
<1>4. Defines(e)
  <2>1. h[1] = f[1]
    <3>1. 1 \in 1 .. n /\ 1 - 1 = 0
      OBVIOUS
    <3>2. h[1] = <<>> \o f[1] /\ f[1] \in Seq(S)
      BY <1>2, <3>1
    <3> QED
      BY <3>2, ConcatEmptySeq
  <2>2. ASSUME NEW i \in 1 .. n, i # 1
        PROVE  h[i] = e[i - 1] \o f[i]
    <3>1. i - 1 \in 1 .. n
      BY <2>2
    <3> QED
      BY <1>2, <3>1
  <2> QED
    BY <2>1, <2>2
<1>5. Defines(flatten)
  BY <1>4, Zenon
<1> DEFINE Good == {k \in 0 .. n : k # 0 =>
                      /\ flatten[k] \in Seq(S) /\ Len(flatten[k]) = 2 * k
                      /\ \A j \in 1 .. k : /\ flatten[k][2 * j - 1] = f[j][1]
                                           /\ flatten[k][2 * j] = f[j][2]}
<1>6. \A i \in 1 .. n : flatten[i] = IF i = 1 THEN f[i] ELSE flatten[i - 1] \o f[i]
  <2> HIDE DEF flatten
  <2> QED
    BY <1>5
<1> HIDE DEF flatten
<1>7. 0 \in Good
  OBVIOUS
<1>8. ASSUME NEW k \in 1 .. n, k - 1 \in Good
      PROVE  k \in Good
  <2>1. f[k] \in Seq(S) /\ Len(f[k]) = 2
    OBVIOUS
  <2>2. CASE k = 1
    <3>1. flatten[k] = f[k] /\ \A j \in 1 .. k : j = k
      BY <1>6, <2>2
    <3> QED
      BY <2>1, <2>2, <3>1
  <2>3. CASE k # 1
    <3> DEFINE s == flatten[k - 1]
               t == f[k]
    <3>1. /\ s \in Seq(S) /\ Len(s) = 2 * (k - 1)
          /\ \A j \in 1 .. k - 1 : s[2 * j - 1] = f[j][1] /\ s[2 * j] = f[j][2]
      BY <1>8, <2>3
    <3> DEFINE u == s \o t
    <3>2. flatten[k] = u
      BY <1>6, <2>3
    <3> HIDE DEF s
    <3>3. /\ u \in Seq(S) /\ Len(u) = 2 * k
          /\ \A i \in 1 .. 2 * k : u[i] = IF i <= 2 * (k - 1) THEN s[i]
                                          ELSE t[i - 2 * (k - 1)]
      <4>1. t \in Seq(S) /\ Len(t) = 2 /\ Len(s) + Len(t) = 2 * k
        BY <2>1, <3>1
      <4> HIDE DEF t
      <4>2. /\ u \in Seq(S) /\ Len(u) = Len(s) + Len(t)
            /\ \A i \in 1 .. Len(s) + Len(t) :
                 u[i] = IF i <= Len(s) THEN s[i] ELSE t[i - Len(s)]
        BY <3>1, <4>1, ConcatProperties
      <4> QED
        BY <3>1, <4>1, <4>2
    <3> HIDE DEF u, t, Good
    <3>4. ASSUME NEW j \in 1 .. k
          PROVE  u[2 * j - 1] = f[j][1] /\ u[2 * j] = f[j][2]
      <4>1. 2 * j - 1 \in 1 .. 2 * k /\ 2 * j \in 1 .. 2 * k
        OBVIOUS
      <4>2. CASE j = k
        <5>1. /\ ~(2 * k - 1 <= 2 * (k - 1)) /\ ~(2 * k <= 2 * (k - 1))
              /\ 2 * k - 1 - 2 * (k - 1) = 1 /\ 2 * k - 2 * (k - 1) = 2
          OBVIOUS
        <5> QED
          BY <3>3, <4>1, <4>2, <5>1 DEF u, t
      <4>3. CASE j # k
        <5>1. j \in 1 .. k - 1 /\ 2 * j - 1 <= 2 * (k - 1) /\ 2 * j <= 2 * (k - 1)
          BY <4>3
        <5> QED
          BY <3>1, <3>3, <4>1, <5>1 DEF u
      <4> QED
        BY <4>2, <4>3
    <3>5. k \in 0 .. n
      OBVIOUS
    <3> QED
      BY <3>2, <3>3, <3>4, <3>5, Zenon DEF Good
  <2> QED
    BY <2>2, <2>3
<1>9. n \in Good
  <2> HIDE DEF Good
  <2>1. 0 .. n \subseteq Good
    BY <1>7, <1>8, UpTo
  <2> QED
    BY <2>1
<1> QED
  BY <1>1, <1>9

-----------------------------------------------------------------------------
(* Roots and their texts. *)

(* The characters hex_string writes, and those of the prefix. *)
Written == {HexDigit[v + 1] : v \in 0 .. 15} \cup {"0", "x"}

Lower(c) == IF IsHexDigit(c) THEN HexDigit[DigitValue[c] + 1] ELSE c

LEMMA LowerOfDigit ==
  ASSUME NEW c, NEW v \in 0 .. 15, Lower(c) = HexDigit[v + 1]
  PROVE  IsHexDigit(c) /\ DigitValue[c] = v
<1>1. IsHexDigit(HexDigit[v + 1]) /\ DigitValue[HexDigit[v + 1]] = v
  BY DigitOfValue
<1>2. CASE IsHexDigit(c)
  <2>1. DigitValue[c] \in 0 .. 15
    BY <1>2, ValueOfDigit
  <2>2. DigitValue[HexDigit[DigitValue[c] + 1]] = DigitValue[c]
    BY <2>1, DigitOfValue
  <2> QED
    BY <1>1, <1>2, <2>2 DEF Lower
<1>3. CASE ~IsHexDigit(c)
  BY <1>1, <1>3 DEF Lower
<1> QED
  BY <1>2, <1>3

LEMMA LowerOfX ==
  ASSUME NEW c
  PROVE  Lower(c) = "x" <=> c = "x"
<1>1. IsHexDigit(c) => Lower(c) # "x" /\ c # "x"
  BY ValueOfDigit, NoDigit, NotDigit DEF Lower
<1>2. ~IsHexDigit(c) => Lower(c) = c
  BY DEF Lower
<1> QED
  BY <1>1, <1>2

LEMMA LowerOfZero ==
  ASSUME NEW c
  PROVE  Lower(c) = "0" <=> c = "0"
<1>1. HexDigit[0 + 1] = "0"
  BY NoDigit
<1>2. ASSUME Lower(c) = "0" PROVE c = "0"
  <2>1. Lower(c) = HexDigit[0 + 1] /\ 0 \in 0 .. 15
    BY <1>1, <1>2
  <2> QED
    BY <2>1, LowerOfDigit, ZeroDigit
<1>3. Lower("0") = "0"
  <2>1. DigitValue["0"] + 1 = 0 + 1
    BY ZeroDigit
  <2> QED
    BY <1>1, <2>1, ZeroDigit DEF Lower
<1> QED
  BY <1>2, <1>3

LEMMA Lowered ==
  ASSUME NEW A, NEW t \in Seq(A)
  PROVE  /\ InLowerCase(t) = [i \in 1 .. Len(t) |-> Lower(t[i])]
         /\ InLowerCase(t) \in Seq(A \cup Written) /\ Len(InLowerCase(t)) = Len(t)
<1>1. DOMAIN t = 1 .. Len(t) /\ Len(t) \in Nat
  OBVIOUS
<1>2. InLowerCase(t) = [i \in 1 .. Len(t) |-> Lower(t[i])]
  BY <1>1 DEF InLowerCase, Lower
<1>3. ASSUME NEW i \in 1 .. Len(t)
      PROVE  Lower(t[i]) \in A \cup Written
  <2>1. t[i] \in A
    OBVIOUS
  <2> QED
    BY <2>1, ValueOfDigit DEF Lower, Written
<1>4. InLowerCase(t) \in [1 .. Len(t) -> A \cup Written]
  BY <1>2, <1>3
<1>5. InLowerCase(t) \in Seq(A \cup Written)
  BY <1>1, <1>4
<1>6. Len(InLowerCase(t)) = Len(t)
  BY <1>1, <1>4, <1>5
<1> QED
  BY <1>2, <1>5, <1>6

LEMMA StripPrefixIs ==
  ASSUME NEW A, NEW t \in Seq(A)
  PROVE  IF Len(t) >= 2 /\ t[1] = "0" /\ t[2] = "x"
         THEN /\ StripPrefix(t) \in Seq(A) /\ Len(StripPrefix(t)) = Len(t) - 2
              /\ \A i \in 1 .. Len(t) - 2 : StripPrefix(t)[i] = t[i + 2]
         ELSE StripPrefix(t) = t
<1> DEFINE p == <<"0", "x">>
<1>1. Len(t) \in Nat
  OBVIOUS
<1>2. IsPrefix(p, t) <=> Len(t) >= 2 /\ t[1] = "0" /\ t[2] = "x"
  <2>1. Len(p) = 2 /\ SubSeq(p, 1, 2) = p
    <3>1. p \in Seq({"0", "x"}) /\ Len(p) = 2
      OBVIOUS
    <3> HIDE DEF p
    <3> QED
      BY <3>1, SubSeqFull
  <2>2. ASSUME Len(t) >= 2
        PROVE  SubSeq(t, 1, 2) = <<t[1], t[2]>>
    <3> DEFINE q == SubSeq(t, 1, 2)
    <3>1. q \in Seq(A) /\ Len(q) = 2 /\ q[1] = t[1] /\ q[2] = t[2]
      BY <1>1, <2>2
    <3> HIDE DEF q
    <3>2. q = <<q[1], q[2]>>
      BY <3>1
    <3> QED
      BY <3>1, <3>2 DEF q
  <2> QED
    BY <1>1, <2>1, <2>2 DEF IsPrefix
<1>3. CASE IsPrefix(p, t)
  <2>1. StripPrefix(t) = SubSeq(t, 3, Len(t)) /\ Len(t) >= 2
    BY <1>2, <1>3 DEF StripPrefix
  <2>2. /\ SubSeq(t, 3, Len(t)) \in Seq(A) /\ Len(SubSeq(t, 3, Len(t))) = Len(t) - 2
        /\ \A i \in 1 .. Len(t) - 2 : SubSeq(t, 3, Len(t))[i] = t[i + 2]
    <3> DEFINE m == 3
               n == Len(t)
    <3>1. m \in Int /\ n \in Int /\ \A i \in m .. n : t[i] \in A
      OBVIOUS
    <3>2. m <= n + 1 /\ n - m + 1 = n - 2 /\ \A i \in 1 .. n - 2 : m + i - 1 = i + 2
      BY <1>1, <2>1
    <3> DEFINE u == SubSeq(t, m, n)
    <3>3. /\ u \in Seq(A) /\ Len(u) = IF m <= n THEN n - m + 1 ELSE 0
          /\ \A i \in 1 .. n - m + 1 : u[i] = t[m + i - 1]
      <4> HIDE DEF m, n
      <4> QED
        BY <3>1, SubSeqProperties
    <3>4. Len(u) = n - 2
      <4>1. m = 3 /\ n \in Nat /\ n >= 2
        BY <1>1, <2>1
      <4> HIDE DEF u, m, n
      <4> QED
        BY <3>3, <4>1
    <3> HIDE DEF u, m
    <3>5. \A i \in 1 .. n - 2 : u[i] = t[i + 2]
      BY <3>2, <3>3
    <3> QED
      BY <3>3, <3>4, <3>5 DEF u, m
  <2> QED
    BY <1>2, <1>3, <2>1, <2>2
<1>4. CASE ~IsPrefix(p, t)
  BY <1>2, <1>4 DEF StripPrefix
<1> QED
  BY <1>3, <1>4

(* The root whose digits a text of the right length spells. *)
RootOf(hex) == [k \in 1 .. RootBytes |->
                  16 * DigitValue[hex[2 * k - 1]] + DigitValue[hex[2 * k]]]

IsDigits(hex) == Len(hex) = 2 * RootBytes /\ \A i \in 1 .. 2 * RootBytes : IsHexDigit(hex[i])

(* Every place in the text of a root is one of the two of a byte. *)
LEMMA Places ==
  ASSUME NEW i \in 1 .. 2 * RootBytes
  PROVE  \E k \in 1 .. RootBytes : i = 2 * k - 1 \/ i = 2 * k
<1> DEFINE k == (i + 1) \div 2
<1>1. RootBytes \in Nat
  BY OctetsAssumption
<1>2. k \in 1 .. RootBytes /\ (i = 2 * k - 1 \/ i = 2 * k)
  BY <1>1
<1> QED
  BY <1>2

LEMMA DecodeRootIs ==
  ASSUME NEW A, NEW t \in Seq(A), StripPrefix(t) \in Seq(A)
  PROVE  DecodeRoot(t) = IF IsDigits(StripPrefix(t)) THEN RootOf(StripPrefix(t)) ELSE NotARoot
<1> DEFINE hex == StripPrefix(t)
           out == [k \in 1 .. RootBytes |-> FromStrRadix(SubSeq(hex, 2 * k - 1, 2 * k))]
<1>1. RootBytes \in Nat \ {0}
  BY OctetsAssumption
<1>2. DecodeRoot(t) = IF \/ Len(hex) # 2 * RootBytes
                         \/ \E i \in DOMAIN hex : ~IsHexDigit(hex[i])
                         \/ \E k \in 1 .. RootBytes : out[k] = -1
                      THEN NotARoot ELSE out
  BY DEF DecodeRoot
<1>3. DOMAIN hex = 1 .. Len(hex)
  OBVIOUS
<1>4. ASSUME IsDigits(hex), NEW k \in 1 .. RootBytes
      PROVE  /\ out[k] = 16 * DigitValue[hex[2 * k - 1]] + DigitValue[hex[2 * k]]
             /\ out[k] # -1
  <2> DEFINE l == 2 * k - 1
             r == 2 * k
             pair == SubSeq(hex, l, r)
  <2>1. /\ l \in 1 .. 2 * RootBytes /\ r \in 1 .. 2 * RootBytes /\ l <= r
        /\ l \in Int /\ r \in Int /\ r - l + 1 = 2 /\ l + 1 - 1 = l /\ l + 2 - 1 = r
    BY <1>1
  <2>2. IsHexDigit(hex[l]) /\ IsHexDigit(hex[r])
    <3> HIDE DEF l, r
    <3> QED
      BY <1>4, <2>1 DEF IsDigits
  <2>3. pair[1] = hex[l] /\ pair[2] = hex[r]
    <3>1. \A i \in l .. r : hex[i] \in A
      BY <1>3, <1>4, <2>1 DEF IsDigits
    <3>2. \A i \in 1 .. r - l + 1 : SubSeq(hex, l, r)[i] = hex[l + i - 1]
      <4> HIDE DEF l, r, hex
      <4> QED
        BY <2>1, <3>1, SubSeqProperties
    <3>3. 1 \in 1 .. r - l + 1 /\ 2 \in 1 .. r - l + 1
      BY <2>1
    <3> HIDE DEF l, r, hex
    <3> QED
      BY <2>1, <3>2, <3>3
  <2>4. FromStrRadix(pair) = 16 * DigitValue[pair[1]] + DigitValue[pair[2]]
    <3> HIDE DEF pair
    <3>1. IsHexDigit(pair[1]) /\ IsHexDigit(pair[2])
      BY <2>2, <2>3
    <3>2. pair[1] # "+"
      BY <3>1, NotDigit
    <3> QED
      BY <3>1, <3>2 DEF FromStrRadix
  <2>5. out[k] = FromStrRadix(pair)
    OBVIOUS
  <2>6. DigitValue[hex[l]] \in 0 .. 15 /\ DigitValue[hex[r]] \in 0 .. 15
    BY <2>2, ValueOfDigit
  <2> HIDE DEF out, hex, pair
  <2>7. out[k] = 16 * DigitValue[hex[l]] + DigitValue[hex[r]]
    BY <2>3, <2>4, <2>5
  <2> DEFINE dl == DigitValue[hex[l]]
             dr == DigitValue[hex[r]]
  <2>8. 16 * dl + dr # -1
    <3> HIDE DEF l, r, dl, dr
    <3>1. dl \in 0 .. 15 /\ dr \in 0 .. 15
      BY <2>6 DEF dl, dr
    <3> QED
      BY <3>1
  <2> QED
    BY <2>7, <2>8
<1>5. CASE IsDigits(hex)
  <2>1. out = RootOf(hex)
    <3>1. \A k \in 1 .. RootBytes :
            out[k] = 16 * DigitValue[hex[2 * k - 1]] + DigitValue[hex[2 * k]]
      BY <1>4, <1>5
    <3>2. out = [k \in 1 .. RootBytes |-> out[k]]
      OBVIOUS
    <3> HIDE DEF out, hex
    <3> QED
      BY <3>1, <3>2 DEF RootOf
  <2>2. \A k \in 1 .. RootBytes : out[k] # -1
    BY <1>4, <1>5
  <2> HIDE DEF out, hex
  <2>3. Len(hex) = 2 * RootBytes /\ \A i \in DOMAIN hex : IsHexDigit(hex[i])
    BY <1>3, <1>5 DEF IsDigits
  <2> QED
    BY <1>2, <1>5, <2>1, <2>2, <2>3 DEF hex
<1>6. CASE ~IsDigits(hex)
  <2>1. Len(hex) # 2 * RootBytes \/ \E i \in DOMAIN hex : ~IsHexDigit(hex[i])
    BY <1>3, <1>6 DEF IsDigits
  <2> HIDE DEF out, hex
  <2> QED
    BY <1>2, <1>6, <2>1 DEF hex
<1> QED
  BY <1>5, <1>6

(* What hex_string writes for each byte, and where. *)
LEMMA HexStringIs ==
  ASSUME NEW root \in [1 .. RootBytes -> 0 .. 255]
  PROVE  /\ HexString(root) \in Seq(Written) /\ Len(HexString(root)) = 2 * RootBytes
         /\ \A k \in 1 .. RootBytes :
              /\ HexString(root)[2 * k - 1] = HexDigit[(root[k] \div 16) + 1]
              /\ HexString(root)[2 * k] = HexDigit[(root[k] % 16) + 1]
<1> DEFINE f == [i \in DOMAIN root |->
                   <<HexDigit[(root[i] \div 16) + 1], HexDigit[(root[i] % 16) + 1]>>]
<1>1. RootBytes \in Nat /\ RootBytes # 0
  BY OctetsAssumption
<1>2. DOMAIN f = 1 .. RootBytes
  OBVIOUS
<1>3. ASSUME NEW k \in 1 .. RootBytes
      PROVE  /\ f[k] \in Seq(Written) /\ Len(f[k]) = 2
             /\ f[k][1] = HexDigit[(root[k] \div 16) + 1]
             /\ f[k][2] = HexDigit[(root[k] % 16) + 1]
  <2>1. root[k] \div 16 \in 0 .. 15 /\ root[k] % 16 \in 0 .. 15
    <3>1. root[k] \in 0 .. 255
      OBVIOUS
    <3> QED
      BY <3>1, ByteOfDigits
  <2>2. HexDigit[(root[k] \div 16) + 1] \in Written /\ HexDigit[(root[k] % 16) + 1] \in Written
    BY <2>1 DEF Written
  <2> QED
    BY <2>2
<1>4. HexString(root) = FlattenSeq(f)
  BY DEF HexString
<1> HIDE DEF f
<1>5. f \in [1 .. RootBytes -> Seq(Written)]
  <2>1. f = [k \in 1 .. RootBytes |-> f[k]]
    BY <1>2 DEF f
  <2> QED
    BY <1>3, <2>1
<1>6. /\ FlattenSeq(f) \in Seq(Written) /\ Len(FlattenSeq(f)) = 2 * RootBytes
      /\ \A k \in 1 .. RootBytes : /\ FlattenSeq(f)[2 * k - 1] = f[k][1]
                                   /\ FlattenSeq(f)[2 * k] = f[k][2]
  BY <1>1, <1>3, <1>5, FlattenPairs
<1> QED
  BY <1>3, <1>4, <1>6

LEMMA RootOfDigits ==
  ASSUME NEW hex, IsDigits(hex)
  PROVE  /\ RootOf(hex) \in [1 .. RootBytes -> 0 .. 255]
         /\ \A i \in 1 .. 2 * RootBytes : HexString(RootOf(hex))[i] = Lower(hex[i])
<1> DEFINE r == RootOf(hex)
<1>1. RootBytes \in Nat
  BY OctetsAssumption
<1>2. ASSUME NEW i \in 1 .. 2 * RootBytes
      PROVE  DigitValue[hex[i]] \in 0 .. 15 /\ Lower(hex[i]) = HexDigit[DigitValue[hex[i]] + 1]
  BY ValueOfDigit DEF IsDigits, Lower
<1>3. \A k \in 1 .. RootBytes : 2 * k - 1 \in 1 .. 2 * RootBytes /\ 2 * k \in 1 .. 2 * RootBytes
  BY <1>1
<1>4. ASSUME NEW k \in 1 .. RootBytes
      PROVE  /\ r[k] \in 0 .. 255
             /\ r[k] \div 16 = DigitValue[hex[2 * k - 1]] /\ r[k] % 16 = DigitValue[hex[2 * k]]
  <2>1. r[k] = 16 * DigitValue[hex[2 * k - 1]] + DigitValue[hex[2 * k]]
    BY DEF RootOf
  <2>2. DigitValue[hex[2 * k - 1]] \in 0 .. 15 /\ DigitValue[hex[2 * k]] \in 0 .. 15
    BY <1>2, <1>3
  <2> HIDE DEF r
  <2> QED
    BY <2>1, <2>2, DigitsOfByte
<1>5. r \in [1 .. RootBytes -> 0 .. 255]
  <2>1. r = [k \in 1 .. RootBytes |-> r[k]]
    BY DEF RootOf
  <2> HIDE DEF r
  <2> QED
    BY <1>4, <2>1
<1> HIDE DEF r
<1>6. ASSUME NEW k \in 1 .. RootBytes
      PROVE  /\ HexString(r)[2 * k - 1] = Lower(hex[2 * k - 1])
             /\ HexString(r)[2 * k] = Lower(hex[2 * k])
  <2>1. /\ HexString(r)[2 * k - 1] = HexDigit[(r[k] \div 16) + 1]
        /\ HexString(r)[2 * k] = HexDigit[(r[k] % 16) + 1]
    BY <1>5, HexStringIs
  <2>2. /\ HexString(r)[2 * k - 1] = HexDigit[DigitValue[hex[2 * k - 1]] + 1]
        /\ HexString(r)[2 * k] = HexDigit[DigitValue[hex[2 * k]] + 1]
    BY <1>4, <2>1
  <2>3. 2 * k - 1 \in 1 .. 2 * RootBytes /\ 2 * k \in 1 .. 2 * RootBytes
    BY <1>3
  <2> QED
    BY <1>2, <2>2, <2>3
<1>7. \A i \in 1 .. 2 * RootBytes : HexString(r)[i] = Lower(hex[i])
  BY <1>6, Places
<1> QED
  BY <1>5, <1>7 DEF r

LEMMA Prefixed ==
  ASSUME NEW S, NEW p \in Seq(S), Len(p) = 2, NEW s \in Seq(S)
  PROVE  /\ p \o s \in Seq(S) /\ Len(p \o s) = 2 + Len(s)
         /\ \A i \in 1 .. 2 + Len(s) : (p \o s)[i] = IF i <= 2 THEN p[i] ELSE s[i - 2]
<1> DEFINE u == p \o s
           n == Len(p)
<1>1. /\ u \in Seq(S) /\ Len(u) = n + Len(s)
      /\ \A i \in 1 .. n + Len(s) : u[i] = IF i <= n THEN p[i] ELSE s[i - n]
  BY ConcatProperties
<1>2. n = 2
  OBVIOUS
<1> HIDE DEF u, n
<1>3. /\ u \in Seq(S) /\ Len(u) = 2 + Len(s)
      /\ \A i \in 1 .. 2 + Len(s) : u[i] = IF i <= 2 THEN p[i] ELSE s[i - 2]
  BY <1>1, <1>2
<1> QED
  BY <1>3 DEF u

(* A field that is taken for a root denotes it. *)
LEMMA TakenIsDenoted ==
  ASSUME NEW A, NEW t \in Seq(A), DecodeRoot(t) # NotARoot
  PROVE  Denotes(t, DecodeRoot(t))
<1> DEFINE hex == StripPrefix(t)
           S == A \cup Written
<1>1. RootBytes \in Nat /\ Len(t) \in Nat
  BY OctetsAssumption
<1>2. hex \in Seq(A)
  BY StripPrefixIs
<1>3. IsDigits(hex) /\ DecodeRoot(t) = RootOf(hex)
  BY <1>2, DecodeRootIs
<1> DEFINE r == RootOf(hex)
           digits == HexString(r)
<1> HIDE DEF hex
<1>4. /\ digits \in Seq(S) /\ Len(digits) = 2 * RootBytes
      /\ \A i \in 1 .. 2 * RootBytes : digits[i] = Lower(hex[i])
  <2>1. digits \in Seq(Written) /\ Len(digits) = 2 * RootBytes
    BY <1>3, RootOfDigits, HexStringIs
  <2>2. digits \in Seq(S)
    <3> HIDE DEF digits
    <3> QED
      BY <2>1
  <2> QED
    BY <1>3, <2>1, <2>2, RootOfDigits
<1> DEFINE low == InLowerCase(t)
<1>5. low \in Seq(S) /\ Len(low) = Len(t) /\ \A i \in 1 .. Len(t) : low[i] = Lower(t[i])
  BY Lowered
<1>6. Len(hex) = 2 * RootBytes
  BY <1>3 DEF IsDigits
<1>7. CASE Len(t) >= 2 /\ t[1] = "0" /\ t[2] = "x"
  <2> DEFINE p == <<"0", "x">>
             all == p \o digits
  <2>1. Len(t) = 2 * RootBytes + 2 /\ \A i \in 1 .. 2 * RootBytes : hex[i] = t[i + 2]
    BY <1>1, <1>6, <1>7, StripPrefixIs DEF hex
  <2>2. p \in Seq(S) /\ Len(p) = 2
    BY DEF Written
  <2>3. p[1] = "0" /\ p[2] = "x"
    OBVIOUS
  <2> HIDE DEF digits, low, p
  <2>4. /\ all \in Seq(S) /\ Len(all) = 2 + 2 * RootBytes
        /\ \A i \in 1 .. 2 + 2 * RootBytes : all[i] = IF i <= 2 THEN p[i] ELSE digits[i - 2]
    <3> HIDE DEF S
    <3> QED
      BY <1>4, <2>2, Prefixed
  <2> HIDE DEF all
  <2>5. low[1] = "0" /\ low[2] = "x"
    <3>1. Lower(t[1]) = "0" /\ Lower(t[2]) = "x"
      BY <1>7, LowerOfX, LowerOfZero
    <3>2. 1 \in 1 .. Len(t) /\ 2 \in 1 .. Len(t)
      BY <1>1, <1>7
    <3> QED
      BY <1>5, <3>1, <3>2
  <2>6. ASSUME NEW i \in 1 .. 2 + 2 * RootBytes
        PROVE  low[i] = all[i]
    <3>1. CASE i <= 2
      <4>1. i = 1 \/ i = 2
        BY <3>1
      <4> QED
        BY <2>3, <2>4, <2>5, <3>1, <4>1
    <3>2. CASE ~(i <= 2)
      <4>1. i - 2 \in 1 .. 2 * RootBytes /\ i - 2 + 2 = i /\ i \in 1 .. Len(t)
        BY <1>1, <2>1, <3>2
      <4>2. hex[i - 2] = t[i]
        BY <2>1, <4>1
      <4> QED
        BY <1>4, <1>5, <2>4, <3>2, <4>1, <4>2
    <3> QED
      BY <3>1, <3>2
  <2>7. low = all
    <3> HIDE DEF S
    <3>1. Len(low) = Len(all) /\ Len(low) = 2 + 2 * RootBytes
      BY <1>1, <1>5, <2>1, <2>4
    <3> QED
      BY <1>5, <2>4, <2>6, <3>1, SeqEqual
  <2> QED
    BY <1>3, <2>7 DEF Denotes, low, all, digits, p
<1>8. CASE ~(Len(t) >= 2 /\ t[1] = "0" /\ t[2] = "x")
  <2>1. hex = t
    BY <1>8, StripPrefixIs DEF hex
  <2> HIDE DEF digits, low, S
  <2>2. Len(low) = Len(digits) /\ \A i \in 1 .. Len(low) : low[i] = digits[i]
    BY <1>4, <1>5, <1>6, <2>1
  <2>3. low = digits
    BY <1>4, <1>5, <2>2, SeqEqual
  <2> QED
    BY <1>3, <2>3 DEF Denotes, low, digits
<1> QED
  BY <1>7, <1>8

(* A field that denotes a root is taken for it. *)
LEMMA DenotedIsTaken ==
  ASSUME NEW A, NEW t \in Seq(A), NEW root \in [1 .. RootBytes -> 0 .. 255],
         Denotes(t, root)
  PROVE  DecodeRoot(t) = root
<1> DEFINE hex == StripPrefix(t)
           digits == HexString(root)
           low == InLowerCase(t)
<1>1. RootBytes \in Nat \ {0} /\ Len(t) \in Nat
  BY OctetsAssumption
<1>2. /\ digits \in Seq(Written) /\ Len(digits) = 2 * RootBytes
      /\ \A k \in 1 .. RootBytes :
           /\ digits[2 * k - 1] = HexDigit[(root[k] \div 16) + 1]
           /\ digits[2 * k] = HexDigit[(root[k] % 16) + 1]
  BY HexStringIs
<1>3. Len(low) = Len(t) /\ \A i \in 1 .. Len(t) : low[i] = Lower(t[i])
  BY Lowered
<1>4. low = digits \/ low = <<"0", "x">> \o digits
  BY DEF Denotes
<1> HIDE DEF digits, low
<1>5. ASSUME NEW h, Len(h) = 2 * RootBytes,
             \A i \in 1 .. 2 * RootBytes : Lower(h[i]) = digits[i]
      PROVE  IsDigits(h) /\ RootOf(h) = root
  <2>1. ASSUME NEW k \in 1 .. RootBytes
        PROVE  /\ IsHexDigit(h[2 * k - 1]) /\ IsHexDigit(h[2 * k])
               /\ 16 * DigitValue[h[2 * k - 1]] + DigitValue[h[2 * k]] = root[k]
    <3> DEFINE u == root[k] \div 16
               v == root[k] % 16
    <3>1. u \in 0 .. 15 /\ v \in 0 .. 15 /\ 16 * u + v = root[k]
      <4>1. root[k] \in 0 .. 255
        OBVIOUS
      <4> QED
        BY <4>1, ByteOfDigits
    <3>2. 2 * k - 1 \in 1 .. 2 * RootBytes /\ 2 * k \in 1 .. 2 * RootBytes
      BY <1>1
    <3>3. Lower(h[2 * k - 1]) = HexDigit[u + 1] /\ Lower(h[2 * k]) = HexDigit[v + 1]
      BY <1>2, <1>5, <3>2
    <3> HIDE DEF u, v
    <3>4. /\ IsHexDigit(h[2 * k - 1]) /\ DigitValue[h[2 * k - 1]] = u
          /\ IsHexDigit(h[2 * k]) /\ DigitValue[h[2 * k]] = v
      BY <3>1, <3>3, LowerOfDigit
    <3> QED
      BY <3>1, <3>4
  <2>2. IsDigits(h)
    <3>1. \A i \in 1 .. 2 * RootBytes : IsHexDigit(h[i])
      BY <2>1, Places
    <3> QED
      BY <1>5, <3>1 DEF IsDigits
  <2>3. RootOf(h) = root
    <3>1. root = [k \in 1 .. RootBytes |-> root[k]]
      OBVIOUS
    <3> QED
      BY <2>1, <3>1 DEF RootOf
  <2> QED
    BY <2>2, <2>3
<1>6. CASE low = digits
  <2>1. Len(t) = 2 * RootBytes /\ \A i \in 1 .. 2 * RootBytes : Lower(t[i]) = digits[i]
    BY <1>2, <1>3, <1>6
  <2>2. IsDigits(t) /\ RootOf(t) = root
    BY <1>5, <2>1
  <2>3. t[2] # "x"
    <3>1. 2 \in 1 .. 2 * RootBytes
      BY <1>1
    <3> QED
      BY <2>2, <3>1, NotDigit DEF IsDigits
  <2>4. hex = t
    BY <2>3, StripPrefixIs
  <2> QED
    BY <2>2, <2>4, DecodeRootIs
<1>7. CASE low = <<"0", "x">> \o digits
  <2> DEFINE p == <<"0", "x">>
             S == Written
  <2>1. p \in Seq(S) /\ Len(p) = 2 /\ p[1] = "0" /\ p[2] = "x"
    BY DEF Written
  <2> HIDE DEF p, S
  <2>2. /\ Len(p \o digits) = 2 + 2 * RootBytes
        /\ \A i \in 1 .. 2 + 2 * RootBytes :
             (p \o digits)[i] = IF i <= 2 THEN p[i] ELSE digits[i - 2]
    <3>1. digits \in Seq(S)
      BY <1>2 DEF S
    <3> QED
      BY <1>2, <2>1, <3>1, Prefixed
  <2>3. low = p \o digits
    BY <1>7 DEF p
  <2>4. Len(t) = 2 + 2 * RootBytes
    BY <1>3, <2>2, <2>3
  <2>5. \A i \in 1 .. 2 + 2 * RootBytes : Lower(t[i]) = IF i <= 2 THEN p[i] ELSE digits[i - 2]
    BY <1>3, <2>2, <2>3, <2>4
  <2>6. t[1] = "0" /\ t[2] = "x"
    <3>1. 1 \in 1 .. 2 + 2 * RootBytes /\ 2 \in 1 .. 2 + 2 * RootBytes
      BY <1>1
    <3>2. Lower(t[1]) = "0" /\ Lower(t[2]) = "x"
      BY <2>1, <2>5, <3>1
    <3> QED
      BY <3>2, LowerOfX, LowerOfZero
  <2>7. /\ hex \in Seq(A) /\ Len(hex) = 2 * RootBytes
        /\ \A i \in 1 .. 2 * RootBytes : hex[i] = t[i + 2]
    <3>1. Len(t) >= 2 /\ Len(t) - 2 = 2 * RootBytes
      BY <1>1, <2>4
    <3>2. /\ hex \in Seq(A) /\ Len(hex) = Len(t) - 2
          /\ \A i \in 1 .. Len(t) - 2 : hex[i] = t[i + 2]
      BY <2>6, <3>1, StripPrefixIs
    <3> HIDE DEF hex
    <3> QED
      BY <3>1, <3>2
  <2> HIDE DEF hex
  <2>8. ASSUME NEW i \in 1 .. 2 * RootBytes
        PROVE  Lower(hex[i]) = digits[i]
    <3>1. i + 2 \in 1 .. 2 + 2 * RootBytes /\ ~(i + 2 <= 2) /\ i + 2 - 2 = i
      BY <1>1
    <3> QED
      BY <2>5, <2>7, <3>1
  <2>9. IsDigits(hex) /\ RootOf(hex) = root
    BY <1>5, <2>7, <2>8
  <2> QED
    BY <2>7, <2>9, DecodeRootIs DEF hex
<1> QED
  BY <1>4, <1>6, <1>7

(***************************************************************************)
(* A root field of any length, over any alphabet, is taken for a root of   *)
(* any length exactly when it denotes one, and then for that one           *)
(* (decode_root and hex_string, src/ssz_static.rs:31-60).                  *)
(***************************************************************************)
THEOREM RootsReadAsWritten == Spec => []RootFaithful
<1>1. ASSUME OctetsType
      PROVE  RootFaithful
  <2>1. ASSUME NEW root \in Spelled
        PROVE  root \in [1 .. RootBytes -> 0 .. 255]
    <3> DEFINE values == {DigitValue[c] : c \in Alphabet \cap DOMAIN DigitValue}
    <3>1. values \subseteq 0 .. 15
      BY ValueOfDigit DEF IsHexDigit
    <3>2. root \in [1 .. RootBytes -> {16 * h + l : h \in values, l \in values}]
      BY DEF Spelled
    <3> HIDE DEF values
    <3>3. ASSUME NEW h \in values, NEW l \in values
          PROVE  16 * h + l \in 0 .. 255
      BY <3>1, DigitsOfByte
    <3> DEFINE B == {16 * h + l : h \in values, l \in values}
    <3>4. ASSUME NEW b \in B
          PROVE  b \in 0 .. 255
      <4>1. PICK h \in values, l \in values : b = 16 * h + l
        OBVIOUS
      <4> QED
        BY <3>3, <4>1
    <3>5. root \in [1 .. RootBytes -> B]
      BY <3>2
    <3> HIDE DEF B
    <3> QED
      BY <3>4, <3>5
  <2>2. text \in Seq(Alphabet)
    BY <1>1 DEF OctetsType
  <2> QED
    BY <2>1, <2>2, TakenIsDenoted, DenotedIsTaken DEF RootFaithful
<1> QED
  BY <1>1, OctetsInvariance, PTL
=============================================================================
