---------------------------- MODULE NumberProofs ----------------------------
(***************************************************************************)
(* Proofs about numbers: the widths of the program's integers, and what    *)
(* the decoder of a slots blob computes (decode_slots_count), for a word   *)
(* of any number of bytes.                                                 *)
(***************************************************************************)
EXTENDS Properties, Recursion, SequenceTheorems

Digits == 0 .. ByteBase - 1

-----------------------------------------------------------------------------
(* Arithmetic. *)

LEMMA Quotient ==
  ASSUME NEW n \in Nat, NEW d \in Nat \ {0}, NEW q \in Nat, q * d <= n, n < q * d + d
  PROVE  n \div d = q
OBVIOUS

LEMMA DivMod ==
  ASSUME NEW n \in Nat, NEW d \in Nat \ {0}
  PROVE  /\ n \div d \in Nat /\ n % d \in 0 .. d - 1
         /\ n = (n \div d) * d + (n % d)
<1>1. n \div d \in Nat
  OBVIOUS
<1>2. n % d \in 0 .. d - 1
  <2>1. n % d \in Int /\ 0 <= n % d /\ n % d < d
    OBVIOUS
  <2> QED
    BY <2>1
<1>3. n = (n \div d) * d + (n % d)
  OBVIOUS
<1> QED
  BY <1>1, <1>2, <1>3

(* Dividing by a product is dividing twice. *)
LEMMA DivTwice ==
  ASSUME NEW n \in Nat, NEW d \in Nat \ {0}, NEW b \in Nat \ {0}
  PROVE  n \div (b * d) = (n \div d) \div b
<1> DEFINE q == n \div d
           r == n % d
           p == q \div b
           s == q % b
<1>1. /\ q \in Nat /\ r \in 0 .. d - 1 /\ n = q * d + r
      /\ p \in Nat /\ s \in 0 .. b - 1 /\ q = p * b + s
  BY DivMod
<1> HIDE DEF q, r, p, s
<1>2. b * d \in Nat \ {0}
  OBVIOUS
<1>3. n = p * (b * d) + (s * d + r)
  <2>1. n = (p * b + s) * d + r
    BY <1>1
  <2> QED
    BY <1>1, <2>1
<1>4. s * d + r \in 0 .. b * d - 1
  <2>1. s * d <= (b - 1) * d /\ s * d \in Nat
    BY <1>1
  <2>2. (b - 1) * d = b * d - d
    OBVIOUS
  <2> QED
    BY <1>1, <2>1, <2>2
<1>5. n \div (b * d) = p
  <2> DEFINE e == b * d
             f == s * d + r
  <2>1. e \in Nat \ {0} /\ f \in 0 .. e - 1 /\ n = p * e + f
    BY <1>2, <1>3, <1>4
  <2> HIDE DEF e, f
  <2>2. n \div e = p
    <3>1. p * e <= n /\ n < p * e + e
      <4>1. p * e \in Nat
        BY <1>1, <2>1
      <4> QED
        BY <2>1, <4>1
    <3> QED
      BY <1>1, <2>1, <3>1, Quotient
  <2> QED
    BY <2>2 DEF e
<1> QED
  BY <1>5 DEF p, q

(* A quotient and a remainder that fit are those of the division. *)
LEMMA Divided ==
  ASSUME NEW q \in Nat, NEW b \in Nat \ {0}, NEW r \in 0 .. b - 1
  PROVE  (q * b + r) \div b = q /\ (q * b + r) % b = r
<1> DEFINE n == q * b + r
<1>1. q * b \in Nat
  OBVIOUS
<1>2. n \in Nat /\ q * b <= n /\ n < q * b + b
  BY <1>1
<1>3. n \div b = q
  <2> HIDE DEF n
  <2> QED
    BY <1>2, Quotient
<1>4. n = (n \div b) * b + (n % b)
  <2> HIDE DEF n
  <2> QED
    BY <1>2, DivMod
<1>5. n % b = r
  <2>1. n % b \in Int
    BY <1>2
  <2> QED
    BY <1>1, <1>3, <1>4, <2>1
<1> QED
  BY <1>3, <1>5

-----------------------------------------------------------------------------
(* Powers of the base. *)
LEMMA PowerDefined ==
  /\ Power \in [0 .. WordBytes -> Nat]
  /\ Power[0] = 1
  /\ \A k \in 1 .. WordBytes : Power[k] = ByteBase * Power[k - 1]
<1> DEFINE g == [k \in 1 .. WordBytes |-> [v \in Nat |-> ByteBase * v]]
           Defines(f) == f = [k \in 0 .. WordBytes |->
                                IF k = 0 THEN 1 ELSE ByteBase * f[k - 1]]
<1>1. g \in [1 .. WordBytes -> [Nat -> Nat]]
  BY WordAssumption
<1>2. PICK f \in [0 .. WordBytes -> Nat] :
        f[0] = 1 /\ \A k \in 1 .. WordBytes : f[k] = g[k][f[k - 1]]
  <2> DEFINE N == Nat
  <2>1. WordBytes \in Nat /\ 1 \in N /\ g \in [1 .. WordBytes -> [N -> N]]
    BY <1>1, WordAssumption
  <2> HIDE DEF g, N
  <2>2. \E f \in [0 .. WordBytes -> N] : Follows(f, 1, g, WordBytes)
    BY <2>1, Recursive
  <2> QED
    BY <2>2 DEF N, Follows
<1>3. Defines(f)
  <2>1. ASSUME NEW k \in 1 .. WordBytes
        PROVE  f[k] = ByteBase * f[k - 1]
    <3>1. k - 1 \in 0 .. WordBytes
      BY WordAssumption
    <3> QED
      BY <1>2, <3>1
  <2>2. \A k \in 0 .. WordBytes : k # 0 => k \in 1 .. WordBytes
    OBVIOUS
  <2> QED
    BY <1>2, <2>1, <2>2
<1>4. Defines(Power)
  <2>1. Power = CHOOSE p : p = [k \in 0 .. WordBytes |->
                                  IF k = 0 THEN 1 ELSE ByteBase * p[k - 1]]
    BY Zenon DEF Power
  <2> QED
    BY <1>3, <2>1, Zenon
<1>5. /\ DOMAIN Power = 0 .. WordBytes
      /\ Power[0] = 1
      /\ \A k \in 1 .. WordBytes : Power[k] = ByteBase * Power[k - 1]
  BY <1>4, WordAssumption
<1>6. \A k \in 0 .. WordBytes : Power[k] \in Nat
  <2> DEFINE Good == {k \in 0 .. WordBytes : Power[k] \in Nat}
  <2>1. 0 \in Good
    BY <1>5, WordAssumption
  <2>2. ASSUME NEW k \in 1 .. WordBytes, k - 1 \in Good
        PROVE  k \in Good
    BY <1>5, <2>2, WordAssumption
  <2> HIDE DEF Good
  <2>3. 0 .. WordBytes \subseteq Good
    BY <2>1, <2>2, WordAssumption, UpTo
  <2> QED
    BY <2>3 DEF Good
<1> QED
  BY <1>4, <1>5, <1>6

LEMMA PowerType ==
  ASSUME NEW k \in 0 .. WordBytes
  PROVE  Power[k] \in Nat \ {0}
<1> DEFINE Good == {i \in 0 .. WordBytes : Power[i] \in Nat \ {0}}
<1>1. 0 \in Good
  BY PowerDefined, WordAssumption
<1>2. ASSUME NEW i \in 1 .. WordBytes, i - 1 \in Good
      PROVE  i \in Good
  <2>1. Power[i] = ByteBase * Power[i - 1] /\ Power[i - 1] \in Nat \ {0}
    BY <1>2, PowerDefined
  <2> QED
    BY <2>1, WordAssumption
<1> HIDE DEF Good
<1>3. 0 .. WordBytes \subseteq Good
  BY <1>1, <1>2, WordAssumption, UpTo
<1> QED
  BY <1>3 DEF Good

(* A shorter number is not greater than the greatest of the word. *)
LEMMA PowerGrows ==
  ASSUME NEW k \in 0 .. WordBytes
  PROVE  Power[k] <= Power[WordBytes]
<1> DEFINE Good == {i \in 0 .. WordBytes : Power[WordBytes - i] <= Power[WordBytes]}
<1>1. 0 \in Good
  BY PowerType, WordAssumption
<1>2. ASSUME NEW i \in 1 .. WordBytes, i - 1 \in Good
      PROVE  i \in Good
  <2> DEFINE j == WordBytes - i
  <2>1. j \in 0 .. WordBytes /\ j + 1 \in 1 .. WordBytes /\ j + 1 = WordBytes - (i - 1)
    BY WordAssumption
  <2>2. Power[j + 1] = ByteBase * Power[j] /\ Power[j] \in Nat
    BY <2>1, PowerDefined, PowerType
  <2>3. Power[j + 1] <= Power[WordBytes]
    BY <1>2, <2>1
  <2>4. Power[WordBytes] \in Nat
    BY PowerType, WordAssumption
  <2>5. Power[j] <= ByteBase * Power[j]
    BY <2>2, WordAssumption
  <2>6. Power[j] <= Power[WordBytes]
    BY <2>2, <2>3, <2>4, <2>5, WordAssumption
  <2> QED
    BY <2>6
<1> HIDE DEF Good
<1>3. 0 .. WordBytes \subseteq Good
  BY <1>1, <1>2, WordAssumption, UpTo
<1>4. WordBytes - k \in 0 .. WordBytes /\ WordBytes - (WordBytes - k) = k
  BY WordAssumption
<1> QED
  BY <1>3, <1>4 DEF Good

(* A u64 has more than one value. *)
LEMMA U64MaxType == U64Max \in Nat \ {0}
<1>1. /\ Power[1] = ByteBase * Power[0]
      /\ Power[0] = 1
      /\ 1 \in 0 .. WordBytes /\ WordBytes \in 0 .. WordBytes
  BY PowerDefined, WordAssumption
<1>2. Power[1] <= Power[WordBytes] /\ Power[WordBytes] \in Nat
  BY <1>1, PowerGrows, PowerType
<1> QED
  BY <1>1, <1>2, WordAssumption DEF U64Max

-----------------------------------------------------------------------------
(* The accumulator of decode_slots_count. *)
LEMMA AccumulatorDefined ==
  ASSUME NEW bytes \in Seq(Digits)
  PROVE  /\ Accumulator(bytes) \in [0 .. Len(bytes) -> Nat]
         /\ Accumulator(bytes)[0] = 0
         /\ \A k \in 1 .. Len(bytes) :
              Accumulator(bytes)[k] =
                (Accumulator(bytes)[k - 1] * ByteBase + bytes[k]) % (U64Max + 1)
<1> DEFINE n == Len(bytes)
           step(v, k) == (v * ByteBase + bytes[k]) % (U64Max + 1)
           g == [k \in 1 .. n |-> [v \in Nat |-> step(v, k)]]
           Defines(f) == f = [k \in 0 .. n |-> IF k = 0 THEN 0 ELSE step(f[k - 1], k)]
<1>1. n \in Nat /\ \A k \in 1 .. n : bytes[k] \in Digits
  BY LenProperties
<1>2. ASSUME NEW v \in Nat, NEW k \in 1 .. n
      PROVE  step(v, k) \in Nat
  <2>1. bytes[k] \in Nat
    BY <1>1 DEF Digits
  <2>2. v * ByteBase \in Nat
    BY WordAssumption
  <2> DEFINE w == v * ByteBase + bytes[k]
             m == U64Max + 1
  <2>3. w \in Nat /\ m \in Nat \ {0}
    BY <2>1, <2>2, U64MaxType
  <2> HIDE DEF w, m
  <2>4. w % m \in Nat
    BY <2>3
  <2> QED
    BY <2>4 DEF w, m
<1> HIDE DEF n, step
<1>3. g \in [1 .. n -> [Nat -> Nat]]
  BY <1>2
<1>4. PICK f \in [0 .. n -> Nat] :
        f[0] = 0 /\ \A k \in 1 .. n : f[k] = g[k][f[k - 1]]
  <2> DEFINE N == Nat
             zero == 0
  <2>1. n \in Nat /\ zero \in N /\ g \in [1 .. n -> [N -> N]]
    BY <1>1, <1>3
  <2> HIDE DEF g, N, zero
  <2>2. \E f \in [0 .. n -> N] : Follows(f, zero, g, n)
    BY <2>1, Recursive
  <2> QED
    BY <2>2 DEF N, zero, Follows
<1>5. Defines(f)
  <2>1. ASSUME NEW k \in 1 .. n
        PROVE  f[k] = step(f[k - 1], k)
    <3>1. k - 1 \in 0 .. n
      BY <1>1
    <3> QED
      BY <1>4, <3>1
  <2>2. \A k \in 0 .. n : k # 0 => k \in 1 .. n
    BY <1>1
  <2> QED
    BY <1>4, <2>1, <2>2
<1>6. Defines(Accumulator(bytes))
  <2>1. Accumulator(bytes) = CHOOSE v : v = [k \in 0 .. n |->
                                        IF k = 0 THEN 0 ELSE step(v[k - 1], k)]
    BY Zenon DEF Accumulator, n, step
  <2> QED
    BY <1>5, <2>1, Zenon
<1> DEFINE v == Accumulator(bytes)
<1> HIDE DEF v
<1>7. /\ DOMAIN v = 0 .. n
      /\ v[0] = 0
      /\ \A k \in 1 .. n : v[k] = step(v[k - 1], k)
  BY <1>1, <1>6 DEF v
<1>8. \A k \in 0 .. n : v[k] \in Nat
  <2> DEFINE Good == {k \in 0 .. n : v[k] \in Nat}
  <2>1. 0 \in Good
    BY <1>1, <1>7
  <2>2. ASSUME NEW k \in 1 .. n, k - 1 \in Good
        PROVE  k \in Good
    BY <1>2, <1>7, <2>2
  <2> HIDE DEF Good
  <2>3. 0 .. n \subseteq Good
    BY <1>1, <2>1, <2>2, UpTo
  <2> QED
    BY <2>3 DEF Good
<1>9. v = [k \in 0 .. n |-> v[k]]
  BY <1>6 DEF v
<1> QED
  BY <1>7, <1>8, <1>9 DEF v, n, step

(* Of a blob that fits the word, no shift drops a bit. *)
LEMMA NothingDropped ==
  ASSUME NEW bytes \in Seq(Digits), Len(bytes) \in 1 .. WordBytes
  PROVE  /\ \A k \in 0 .. Len(bytes) : Accumulator(bytes)[k] < Power[k]
         /\ \A k \in 1 .. Len(bytes) :
              Accumulator(bytes)[k] = Accumulator(bytes)[k - 1] * ByteBase + bytes[k]
<1> DEFINE n == Len(bytes)
           v == Accumulator(bytes)
<1>1. /\ n \in 1 .. WordBytes /\ WordBytes \in Nat /\ n \in Nat
      /\ \A k \in 1 .. n : bytes[k] \in Digits
      /\ v \in [0 .. n -> Nat] /\ v[0] = 0
      /\ \A k \in 1 .. n : v[k] = (v[k - 1] * ByteBase + bytes[k]) % (U64Max + 1)
  BY AccumulatorDefined, LenProperties, WordAssumption
<1> HIDE DEF n, v
<1>2. ASSUME NEW k \in 1 .. n, v[k - 1] < Power[k - 1]
      PROVE  v[k] < Power[k] /\ v[k] = v[k - 1] * ByteBase + bytes[k]
  <2> DEFINE a == v[k - 1]
             b == bytes[k]
             p == Power[k - 1]
             w == a * ByteBase + b
  <2>1. /\ a \in Nat /\ b \in 0 .. ByteBase - 1 /\ p \in Nat \ {0} /\ a < p
        /\ Power[k] = ByteBase * p /\ Power[k] <= Power[WordBytes]
        /\ Power[WordBytes] \in Nat /\ ByteBase \in Nat
        /\ v[k] = w % (U64Max + 1)
    <3>1. k - 1 \in 0 .. n /\ k - 1 \in 0 .. WordBytes /\ k \in 0 .. WordBytes
           /\ k \in 1 .. WordBytes
      BY <1>1
    <3>2. a \in Nat /\ b \in 0 .. ByteBase - 1 /\ v[k] = w % (U64Max + 1)
      BY <1>1, <3>1 DEF Digits
    <3>3. /\ p \in Nat \ {0} /\ Power[k] = ByteBase * p /\ Power[k] <= Power[WordBytes]
          /\ Power[WordBytes] \in Nat
      BY <1>1, <3>1, PowerDefined, PowerType, PowerGrows
    <3> QED
      BY <1>2, <3>2, <3>3, WordAssumption
  <2> HIDE DEF a, b, p
  <2>2. w \in Nat /\ w < ByteBase * p
    <3>1. a * ByteBase <= (p - 1) * ByteBase /\ a * ByteBase \in Nat
      BY <2>1
    <3>2. (p - 1) * ByteBase = ByteBase * p - ByteBase /\ ByteBase * p \in Nat
      BY <2>1
    <3> QED
      BY <2>1, <3>1, <3>2
  <2>3. w % (U64Max + 1) = w
    <3> DEFINE m == U64Max + 1
    <3>1. m \in Nat \ {0} /\ w < m
      <4>1. m = Power[WordBytes]
        BY <2>1 DEF U64Max
      <4> HIDE DEF w, m
      <4> QED
        BY <2>1, <2>2, <4>1
    <3> HIDE DEF w, m
    <3>2. w % m = w
      BY <2>2, <3>1
    <3> QED
      BY <3>2 DEF m
  <2> QED
    BY <2>1, <2>2, <2>3 DEF a, b
<1>3. \A k \in 0 .. n : v[k] < Power[k]
  <2> DEFINE Good == {k \in 0 .. n : v[k] < Power[k]}
  <2>1. 0 \in Good
    BY <1>1, PowerDefined
  <2>2. ASSUME NEW k \in 1 .. n, k - 1 \in Good
        PROVE  k \in Good
    BY <1>2, <2>2
  <2> HIDE DEF Good
  <2>3. 0 .. n \subseteq Good
    BY <1>1, <2>1, <2>2, UpTo
  <2> QED
    BY <2>3 DEF Good
<1>4. ASSUME NEW k \in 1 .. n
      PROVE  v[k] = v[k - 1] * ByteBase + bytes[k]
  <2>1. k - 1 \in 0 .. n
    BY <1>1
  <2> QED
    BY <1>2, <1>3, <2>1
<1> QED
  BY <1>3, <1>4 DEF n, v

-----------------------------------------------------------------------------
(* The contract's powers are the runner's. *)
LEMMA SamePower == C!Power = Power
  BY Zenon DEF C!Power, Power

(* The digits of the number represented, from the first one on. *)
LEMMA DigitsFollow ==
  ASSUME NEW bytes \in Seq(Digits), NEW n \in Nat, C!Represents(bytes, n)
  PROVE  /\ \A k \in 0 .. Len(bytes) :
              n \div Power[Len(bytes) - k] = Accumulator(bytes)[k]
         /\ n = SlotsCount(bytes)
<1> DEFINE L == Len(bytes)
           v == Accumulator(bytes)
           q(k) == n \div Power[L - k]
<1>1. /\ L \in 1 .. WordBytes /\ L \in Nat /\ WordBytes \in Nat
      /\ n < Power[L]
      /\ \A k \in 1 .. L : bytes[k] = q(k) % ByteBase
  <2>1. Len(bytes) \in Nat /\ DOMAIN bytes = 1 .. Len(bytes)
    BY LenProperties
  <2>2. WordBytes \in Nat
    BY WordAssumption
  <2> QED
    BY <2>1, <2>2, SamePower DEF C!Represents
<1>2. /\ v[0] = 0
      /\ \A k \in 1 .. L : v[k] = v[k - 1] * ByteBase + bytes[k]
  BY <1>1, AccumulatorDefined, NothingDropped
<1> HIDE DEF L, v
<1>3. \A k \in 0 .. L : L - k \in 0 .. WordBytes /\ Power[L - k] \in Nat \ {0}
  BY <1>1, PowerType
<1>4. q(0) = 0
  <2> DEFINE p == Power[L - 0]
  <2>1. p \in Nat \ {0} /\ n < p
    BY <1>1, <1>3
  <2> HIDE DEF p
  <2>2. n \div p = 0
    BY <2>1
  <2> QED
    BY <2>2 DEF p
<1>5. ASSUME NEW k \in 1 .. L
      PROVE  q(k - 1) = q(k) \div ByteBase /\ q(k) \in Nat
  <2>1. /\ k \in 0 .. L /\ k - 1 \in 0 .. L
        /\ L - (k - 1) \in 1 .. WordBytes /\ L - (k - 1) - 1 = L - k
    BY <1>1
  <2>2. Power[L - (k - 1)] = ByteBase * Power[L - k] /\ Power[L - k] \in Nat \ {0}
    BY <1>3, <2>1, PowerDefined
  <2> DEFINE p == Power[L - k]
  <2>3. q(k - 1) = n \div (ByteBase * p)
    BY <2>2
  <2>4. p \in Nat \ {0} /\ ByteBase \in Nat \ {0}
    BY <2>2, WordAssumption
  <2> HIDE DEF p
  <2>5. n \div (ByteBase * p) = (n \div p) \div ByteBase /\ n \div p \in Nat
    BY <2>4, DivTwice, DivMod
  <2> QED
    BY <2>3, <2>5 DEF p
<1> HIDE DEF q
<1>6. ASSUME NEW k \in 1 .. L, q(k - 1) = v[k - 1]
      PROVE  q(k) = v[k]
  <2>1. q(k) = (q(k) \div ByteBase) * ByteBase + (q(k) % ByteBase)
    BY <1>5, WordAssumption, DivMod
  <2> QED
    BY <1>1, <1>2, <1>5, <1>6, <2>1
<1>7. \A k \in 0 .. L : q(k) = v[k]
  <2> DEFINE Good == {k \in 0 .. L : q(k) = v[k]}
  <2>1. 0 \in Good
    BY <1>1, <1>2, <1>4
  <2>2. ASSUME NEW k \in 1 .. L, k - 1 \in Good
        PROVE  k \in Good
    BY <1>6, <2>2
  <2> HIDE DEF Good
  <2>3. 0 .. L \subseteq Good
    BY <1>1, <2>1, <2>2, UpTo
  <2> QED
    BY <2>3 DEF Good
<1>8. q(L) = n
  <2>1. L - L = 0 /\ Power[0] = 1
    BY <1>1, PowerDefined
  <2> QED
    BY <2>1 DEF q
<1>9. n = v[L]
  BY <1>1, <1>7, <1>8
<1> QED
  BY <1>7, <1>9 DEF SlotsCount, L, v, q

(* What the accumulator ends in has the bytes of the blob for its digits. *)
LEMMA DigitsGiven ==
  ASSUME NEW bytes \in Seq(Digits), SlotsBlobOK(bytes)
  PROVE  SlotsCount(bytes) \in Nat /\ C!Represents(bytes, SlotsCount(bytes))
<1> DEFINE L == Len(bytes)
           v == Accumulator(bytes)
           n == v[L]
           q(k) == n \div Power[L - k]
<1>1. /\ L \in 1 .. WordBytes /\ L \in Nat /\ WordBytes \in Nat
      /\ \A k \in 1 .. L : bytes[k] \in 0 .. ByteBase - 1
      /\ L > 1 => bytes[1] # 0
  BY LenProperties, WordAssumption DEF SlotsBlobOK, Digits
<1>2. /\ v[0] = 0
      /\ \A k \in 1 .. L : v[k] = v[k - 1] * ByteBase + bytes[k]
      /\ \A k \in 0 .. L : v[k] \in Nat
      /\ \A k \in 0 .. L : v[k] < Power[k]
  BY <1>1, AccumulatorDefined, NothingDropped
<1> HIDE DEF L, v
<1>3. n \in Nat /\ n < Power[L]
  BY <1>1, <1>2
<1>4. \A k \in 0 .. L : L - k \in 0 .. WordBytes /\ Power[L - k] \in Nat \ {0}
  BY <1>1, PowerType
<1>5. ASSUME NEW k \in 1 .. L
      PROVE  v[k] \div ByteBase = v[k - 1] /\ v[k] % ByteBase = bytes[k]
  <2> DEFINE a == v[k - 1]
             b == bytes[k]
  <2>1. a \in Nat /\ b \in 0 .. ByteBase - 1 /\ v[k] = a * ByteBase + b
        /\ ByteBase \in Nat \ {0}
    BY <1>1, <1>2, WordAssumption
  <2> HIDE DEF a, b
  <2>2. (a * ByteBase + b) \div ByteBase = a /\ (a * ByteBase + b) % ByteBase = b
    BY <2>1, Divided
  <2> QED
    BY <2>1, <2>2 DEF a, b
<1>6. q(L) = v[L]
  <2>1. L - L = 0 /\ Power[0] = 1
    BY <1>1, PowerDefined
  <2> QED
    BY <1>3, <2>1
<1> HIDE DEF n
<1>7. ASSUME NEW k \in 1 .. L, q(k) = v[k]
      PROVE  q(k - 1) = v[k - 1]
  <2>1. /\ k \in 0 .. L /\ k - 1 \in 0 .. L
        /\ L - (k - 1) \in 1 .. WordBytes /\ L - (k - 1) - 1 = L - k
    BY <1>1
  <2>2. Power[L - (k - 1)] = ByteBase * Power[L - k] /\ Power[L - k] \in Nat \ {0}
    BY <1>4, <2>1, PowerDefined
  <2> DEFINE p == Power[L - k]
  <2>3. q(k - 1) = n \div (ByteBase * p) /\ n \div p = v[k]
    BY <1>7, <2>2
  <2>4. p \in Nat \ {0} /\ ByteBase \in Nat \ {0}
    BY <2>2, WordAssumption
  <2> HIDE DEF p, q
  <2>5. n \div (ByteBase * p) = (n \div p) \div ByteBase
    BY <1>3, <2>4, DivTwice
  <2> QED
    BY <1>5, <2>3, <2>5
<1> HIDE DEF q
<1>8. \A k \in 0 .. L : q(k) = v[k]
  <2> DEFINE Good == {k \in 0 .. L : q(L - k) = v[L - k]}
  <2>1. 0 \in Good
    BY <1>1, <1>6
  <2>2. ASSUME NEW k \in 1 .. L, k - 1 \in Good
        PROVE  k \in Good
    <3> DEFINE j == L - (k - 1)
    <3>1. j \in 1 .. L /\ j - 1 = L - k /\ k \in 0 .. L
      BY <1>1
    <3>2. q(j) = v[j]
      BY <2>2
    <3>3. q(j - 1) = v[j - 1]
      BY <1>7, <3>1, <3>2
    <3> QED
      BY <3>1, <3>3
  <2> HIDE DEF Good
  <2>3. 0 .. L \subseteq Good
    BY <1>1, <2>1, <2>2, UpTo
  <2>4. ASSUME NEW k \in 0 .. L
        PROVE  q(k) = v[k]
    <3>1. L - k \in 0 .. L /\ L - (L - k) = k
      BY <1>1
    <3>2. L - k \in Good
      BY <2>3, <3>1
    <3> QED
      BY <3>1, <3>2 DEF Good
  <2> QED
    BY <2>4
<1>9. \A k \in 1 .. L : bytes[k] = q(k) % ByteBase
  <2>1. \A k \in 1 .. L : k \in 0 .. L
    BY <1>1
  <2> QED
    BY <1>5, <1>8, <2>1
<1>10. L > 1 => n >= Power[L - 1]
  <2> SUFFICES ASSUME L > 1 PROVE n >= Power[L - 1]
    OBVIOUS
  <2> DEFINE p == Power[L - 1]
  <2>1. /\ 1 \in 1 .. L /\ 1 \in 0 .. L /\ bytes[1] \in Nat \ {0}
        /\ p \in Nat \ {0}
    BY <1>1, <1>4
  <2>2. n \div p = v[1] /\ v[1] = v[0] * ByteBase + bytes[1]
    BY <1>2, <1>8, <2>1 DEF q
  <2>3. v[1] = bytes[1]
    BY <1>2, <2>1, <2>2, WordAssumption
  <2> DEFINE d == bytes[1]
  <2> HIDE DEF p, d
  <2>4. n \div p = d /\ d \in Nat \ {0} /\ p \in Nat \ {0}
    BY <2>1, <2>2, <2>3 DEF d
  <2>5. n >= p
    <3>1. (n \div p) * p <= n
      BY <1>3, <2>4
    <3>2. d * p >= p
      BY <2>4
    <3>3. d * p <= n /\ d * p \in Nat
      BY <2>4, <3>1
    <3> QED
      BY <1>3, <2>4, <3>2, <3>3
  <2> QED
    BY <2>5 DEF p
<1>11. SlotsCount(bytes) = n
  BY DEF SlotsCount, n, v, L
<1>12. DOMAIN bytes = 1 .. L
  BY LenProperties DEF L
<1> QED
  BY <1>1, <1>3, <1>9, <1>10, <1>11, <1>12, SamePower DEF C!Represents, L, q

(***************************************************************************)
(* decode_slots_count and the refusals before it accept exactly the blobs  *)
(* that represent a number, and decode them to that number, for any length *)
(* of the word (src/blocks.rs:48-62).                                      *)
(***************************************************************************)
THEOREM SlotsDecoded ==
  ASSUME NEW bytes \in Seq(Digits), NEW n \in Nat
  PROVE  C!Represents(bytes, n) <=> SlotsBlobOK(bytes) /\ n = SlotsCount(bytes)
<1>1. ASSUME C!Represents(bytes, n)
      PROVE  SlotsBlobOK(bytes) /\ n = SlotsCount(bytes)
  <2>1. n = SlotsCount(bytes)
    BY <1>1, DigitsFollow
  <2>2. ASSUME Len(bytes) > 1
        PROVE  bytes[1] # 0
    <3> DEFINE p == Power[Len(bytes) - 1]
    <3>1. /\ Len(bytes) \in 1 .. WordBytes /\ WordBytes \in Nat /\ n >= p
          /\ bytes[1] = (n \div p) % ByteBase
      BY <1>1, <2>2, LenProperties, WordAssumption, SamePower DEF C!Represents
    <3>2. /\ p \in Nat \ {0} /\ 1 \in 1 .. Len(bytes) /\ 1 \in 0 .. Len(bytes)
          /\ 0 \in 0 .. Len(bytes)
      BY <3>1, PowerType
    <3>3. /\ n \div p = Accumulator(bytes)[1]
          /\ Accumulator(bytes)[1] = Accumulator(bytes)[0] * ByteBase + bytes[1]
          /\ Accumulator(bytes)[0] = 0
          /\ bytes[1] \in Nat
      BY <1>1, <3>1, <3>2, DigitsFollow, AccumulatorDefined, NothingDropped DEF Digits
    <3>4. n \div p = bytes[1]
      BY <3>3, WordAssumption
    <3> HIDE DEF p
    <3>5. n \div p # 0
      <4> DEFINE d == n \div p
                 r == n % p
      <4>1. n = d * p + r /\ r \in 0 .. p - 1 /\ d \in Nat
        BY <3>2, DivMod
      <4> HIDE DEF d, r
      <4>2. d # 0
        <5>1. SUFFICES ASSUME d = 0 PROVE FALSE
          OBVIOUS
        <5>2. n = r
          BY <3>2, <4>1, <5>1
        <5> QED
          BY <3>1, <3>2, <4>1, <5>2
      <4> QED
        BY <4>2 DEF d
    <3> QED
      BY <3>4, <3>5
  <2>3. Len(bytes) \in 1 .. WordBytes
    BY <1>1 DEF C!Represents
  <2> QED
    BY <2>1, <2>2, <2>3 DEF SlotsBlobOK
<1>2. ASSUME SlotsBlobOK(bytes), n = SlotsCount(bytes)
      PROVE  C!Represents(bytes, n)
  BY <1>2, DigitsGiven
<1> QED
  BY <1>1, <1>2
=============================================================================
