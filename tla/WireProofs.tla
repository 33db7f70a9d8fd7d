----------------------------- MODULE WireProofs -----------------------------
(***************************************************************************)
(* Proofs about the lines as characters, for texts of any length over any  *)
(* alphabet.                                                               *)
(***************************************************************************)
EXTENDS Wire, Recursion, SequenceTheorems

-----------------------------------------------------------------------------
(* Sequences. *)

LEMMA Beginning ==
  ASSUME NEW S, NEW s \in Seq(S), NEW k \in 0 .. Len(s)
  PROVE  /\ SubSeq(s, 1, k) \in Seq(S) /\ Len(SubSeq(s, 1, k)) = k
         /\ \A i \in 1 .. k : SubSeq(s, 1, k)[i] = s[i]
OBVIOUS

LEMMA LastFront ==
  ASSUME NEW S, NEW s \in Seq(S), s # <<>>
  PROVE  /\ Front(s) \in Seq(S) /\ Last(s) \in S /\ s = Append(Front(s), Last(s))
         /\ Len(Front(s)) = Len(s) - 1 /\ Len(s) \in Nat \ {0}
<1>1. Len(s) \in Nat \ {0}
  BY EmptySeq
<1> DEFINE f == SubSeq(s, 1, Len(s) - 1)
<1>2. f \in Seq(S) /\ Len(f) = Len(s) - 1 /\ \A i \in 1 .. Len(s) - 1 : f[i] = s[i]
  <2>1. Len(s) - 1 \in 0 .. Len(s)
    BY <1>1
  <2> QED
    BY <2>1, Beginning
<1>3. s[Len(s)] \in S
  BY <1>1
<1> HIDE DEF f
<1> DEFINE t == Append(f, s[Len(s)])
<1>4. t \in Seq(S) /\ Len(t) = Len(s) /\ \A i \in 1 .. Len(s) : t[i] = s[i]
  BY <1>1, <1>2, <1>3
<1> HIDE DEF t
<1>5. s = t
  BY <1>4, SeqEqual
<1> QED
  BY <1>1, <1>2, <1>3, <1>5 DEF Front, Last, f, t

LEMMA FrontAppend ==
  ASSUME NEW S, NEW s \in Seq(S), NEW x \in S
  PROVE  Front(Append(s, x)) = s /\ Last(Append(s, x)) = x /\ Append(s, x) # <<>>
<1> DEFINE t == Append(s, x)
<1>1. t \in Seq(S) /\ Len(t) = Len(s) + 1 /\ t # <<>> /\ t[Len(s) + 1] = x
  OBVIOUS
<1>2. t = Append(Front(t), Last(t)) /\ Front(t) \in Seq(S) /\ Last(t) \in S
  <2> HIDE DEF t
  <2> QED
    BY <1>1, LastFront
<1>3. Front(t) = s /\ Last(t) = x
  <2> DEFINE f == Front(t)
             l == Last(t)
  <2>1. Append(f, l) = Append(s, x) /\ f \in Seq(S) /\ l \in S
    BY <1>2
  <2> HIDE DEF f, l, t
  <2>2. f = s /\ l = x
    BY <2>1, AppendInjective
  <2> QED
    BY <2>2 DEF f, l
<1> QED
  BY <1>1, <1>3

(* The beginnings of a sequence, one element longer each. *)
LEMMA Beginnings ==
  ASSUME NEW S, NEW s \in Seq(S)
  PROVE  /\ SubSeq(s, 1, 0) = <<>> /\ SubSeq(s, 1, Len(s)) = s
         /\ \A k \in 0 .. Len(s) : SubSeq(s, 1, k) \in Seq(S) /\ Len(SubSeq(s, 1, k)) = k
         /\ \A k \in 1 .. Len(s) : /\ s[k] \in S
                                   /\ SubSeq(s, 1, k) = Append(SubSeq(s, 1, k - 1), s[k])
<1>1. Len(s) \in Nat
  OBVIOUS
<1>2. ASSUME NEW k \in 0 .. Len(s)
      PROVE  SubSeq(s, 1, k) \in Seq(S) /\ Len(SubSeq(s, 1, k)) = k
             /\ \A i \in 1 .. k : SubSeq(s, 1, k)[i] = s[i]
  BY Beginning
<1>3. ASSUME NEW k \in 1 .. Len(s)
      PROVE  s[k] \in S /\ SubSeq(s, 1, k) = Append(SubSeq(s, 1, k - 1), s[k])
  <2> DEFINE a == SubSeq(s, 1, k)
             b == SubSeq(s, 1, k - 1)
  <2>1. a \in Seq(S) /\ Len(a) = k /\ \A i \in 1 .. k : a[i] = s[i]
    BY <1>2
  <2>2. b \in Seq(S) /\ Len(b) = k - 1 /\ \A i \in 1 .. k - 1 : b[i] = s[i]
    <3>1. k - 1 \in 0 .. Len(s)
      BY <1>1
    <3> QED
      BY <1>2, <3>1
  <2>3. s[k] \in S
    OBVIOUS
  <2> DEFINE c == Append(b, s[k])
  <2> HIDE DEF a, b
  <2>4. c \in Seq(S) /\ Len(c) = k /\ \A i \in 1 .. k : c[i] = s[i]
    BY <1>1, <2>2, <2>3
  <2> HIDE DEF c
  <2>5. a = c
    BY <2>1, <2>4, SeqEqual
  <2> QED
    BY <2>3, <2>5 DEF a, b, c
<1>4. SubSeq(s, 1, 0) = <<>>
  OBVIOUS
<1>5. SubSeq(s, 1, Len(s)) = s
  BY SubSeqFull
<1> QED
  BY <1>2, <1>3, <1>4, <1>5

(* What holds of the empty sequence, and of a longer one when it holds of  *)
(* the one before, holds of every one.                                     *)
LEMMA Growing ==
  ASSUME NEW S, NEW s \in Seq(S), NEW Good, <<>> \in Good,
         \A k \in 1 .. Len(s) : SubSeq(s, 1, k - 1) \in Good =>
                                  Append(SubSeq(s, 1, k - 1), s[k]) \in Good
  PROVE  s \in Good
<1> DEFINE Upto == {k \in 0 .. Len(s) : SubSeq(s, 1, k) \in Good}
<1>1. Len(s) \in Nat
  OBVIOUS
<1>2. 0 \in Upto
  <2>1. SubSeq(s, 1, 0) = <<>> /\ 0 \in 0 .. Len(s)
    BY <1>1, Beginnings
  <2> QED
    BY <2>1
<1>3. ASSUME NEW k \in 1 .. Len(s), k - 1 \in Upto
      PROVE  k \in Upto
  <2>1. SubSeq(s, 1, k) = Append(SubSeq(s, 1, k - 1), s[k])
    BY Beginnings
  <2>2. SubSeq(s, 1, k - 1) \in Good
    BY <1>3
  <2>3. SubSeq(s, 1, k) \in Good
    BY <2>1, <2>2
  <2> QED
    BY <1>1, <2>3
<1>4. 0 .. Len(s) \subseteq Upto
  <2> HIDE DEF Upto
  <2> QED
    BY <1>1, <1>2, <1>3, UpTo
<1>5. Len(s) \in Upto
  BY <1>1, <1>4
<1> QED
  BY <1>5, Beginnings

LEMMA Nothing == \A S : \E e \in Seq(S) : e = <<>>
BY EmptySeq

(* The library's ConcatAssociative, in a form the provers instantiate. *)
Regroups(r, s, t) == r \o (s \o t) = (r \o s) \o t

LEMMA Regroup ==
  ASSUME NEW S, NEW r \in Seq(S), NEW s \in Seq(S), NEW t \in Seq(S)
  PROVE  Regroups(r, s, t)
BY ConcatAssociative DEF Regroups

LEMMA AppendConcat ==
  ASSUME NEW S, NEW s \in Seq(S), NEW t \in Seq(S), NEW x \in S
  PROVE  s \o Append(t, x) = Append(s \o t, x) /\ Append(t, x) # <<>>
<1> DEFINE a == s \o Append(t, x)
           b == Append(s \o t, x)
           n == Len(s) + Len(t) + 1
<1>1. a \in Seq(S) /\ b \in Seq(S) /\ Len(a) = n /\ Len(b) = n
  OBVIOUS
<1>2. \A i \in 1 .. n : a[i] = b[i]
  OBVIOUS
<1>3. a = b
  <2> HIDE DEF a, b
  <2> QED
    BY <1>1, <1>2, SeqEqual
<1> QED
  BY <1>3

(* Functions that take the same steps up to n agree there. *)
LEMMA SameSteps ==
  ASSUME NEW n \in Nat, NEW f, NEW h, f[0] = h[0],
         \A k \in 1 .. n : f[k - 1] = h[k - 1] => f[k] = h[k]
  PROVE  f[n] = h[n]
<1> DEFINE Good == {k \in 0 .. n : f[k] = h[k]}
<1>1. 0 \in Good
  OBVIOUS
<1>2. ASSUME NEW k \in 1 .. n, k - 1 \in Good
      PROVE  k \in Good
  BY <1>2
<1>3. 0 .. n \subseteq Good
  <2> HIDE DEF Good
  <2> QED
    BY <1>1, <1>2, UpTo
<1> QED
  BY <1>3

-----------------------------------------------------------------------------
(* Split, character by character. *)

LEMMA PiecesGrow ==
  ASSUME NEW S, NEW seps, NEW p \in Seq(Seq(S \ seps)) \ {<<>>}, NEW c \in S
  PROVE  /\ Append(p, <<>>) \in Seq(Seq(S \ seps)) \ {<<>>}
         /\ c \notin seps => Append(Front(p), Append(Last(p), c)) \in Seq(Seq(S \ seps)) \ {<<>>}
<1> DEFINE T == Seq(S \ seps)
<1>1. <<>> \in T
  OBVIOUS
<1>2. \A t \in T : c \notin seps => Append(t, c) \in T
  OBVIOUS
<1> HIDE DEF T
<1>3. \A q \in Seq(T), t \in T : Append(q, t) \in Seq(T) \ {<<>>}
  BY AppendProperties
<1>4. p \in Seq(T) /\ Front(p) \in Seq(T) /\ Last(p) \in T
  <2>1. p \in Seq(T) /\ p # <<>>
    BY DEF T
  <2> QED
    BY <2>1, LastFront
<1>5. Append(p, <<>>) \in Seq(T) \ {<<>>}
  BY <1>1, <1>3, <1>4
<1>6. c \notin seps => Append(Front(p), Append(Last(p), c)) \in Seq(T) \ {<<>>}
  BY <1>2, <1>3, <1>4
<1> QED
  BY <1>5, <1>6 DEF T

(* The pieces p with one more character. *)
Divided(p, c, seps) ==
  IF c \in seps THEN Append(p, <<>>) ELSE Append(Front(p), Append(Last(p), c))

Divides(f, s, seps) ==
  f[0] = << <<>> >> /\ \A k \in 1 .. Len(s) : f[k] = Divided(f[k - 1], s[k], seps)

LEMMA PiecesDefined ==
  ASSUME NEW S, NEW s \in Seq(S), NEW seps
  PROVE  /\ Divides(Pieces(s, seps), s, seps)
         /\ Pieces(s, seps)[Len(s)] \in Seq(Seq(S \ seps)) \ {<<>>}
<1> DEFINE n == Len(s)
           D == Seq(Seq(S \ seps)) \ {<<>>}
           a == << <<>> >>
           step(p, k) == Divided(p, s[k], seps)
           g == [k \in 1 .. n |-> [p \in D |-> step(p, k)]]
           Defines(f) == f = [k \in 0 .. n |-> IF k = 0 THEN a ELSE step(f[k - 1], k)]
<1>1. n \in Nat /\ \A k \in 1 .. n : s[k] \in S
  BY LenProperties
<1>2. a \in D
  OBVIOUS
<1>3. ASSUME NEW p \in D, NEW k \in 1 .. n
      PROVE  step(p, k) \in D
  BY <1>1, PiecesGrow DEF Divided
<1> HIDE DEF n, D, a, step
<1>4. g \in [1 .. n -> [D -> D]]
  BY <1>3
<1>5. PICK f \in [0 .. n -> D] : f[0] = a /\ \A k \in 1 .. n : f[k] = g[k][f[k - 1]]
  <2> HIDE DEF g
  <2>1. \E f \in [0 .. n -> D] : Follows(f, a, g, n)
    BY <1>1, <1>2, <1>4, Recursive
  <2> QED
    BY <2>1 DEF Follows
<1>6. Defines(f)
  <2>1. ASSUME NEW k \in 1 .. n
        PROVE  f[k] = step(f[k - 1], k)
    <3>1. k - 1 \in 0 .. n
      BY <1>1
    <3> QED
      BY <1>5, <3>1
  <2>2. \A k \in 0 .. n : k # 0 => k \in 1 .. n
    BY <1>1
  <2> QED
    BY <1>5, <2>1, <2>2
<1> DEFINE v == Pieces(s, seps)
<1>7. Defines(v)
  <2>1. v = CHOOSE v_1 : v_1 = [k \in 0 .. n |-> IF k = 0 THEN a ELSE step(v_1[k - 1], k)]
    BY Zenon DEF Pieces, Divided, n, a, step
  <2> QED
    BY <1>6, <2>1, Zenon
<1> HIDE DEF v
<1>8. v[0] = a /\ \A k \in 1 .. n : v[k] = step(v[k - 1], k)
  BY <1>1, <1>7
<1>9. \A k \in 0 .. n : v[k] \in D
  <2> DEFINE Good == {k \in 0 .. n : v[k] \in D}
  <2>1. 0 \in Good
    BY <1>1, <1>2, <1>8
  <2>2. ASSUME NEW k \in 1 .. n, k - 1 \in Good
        PROVE  k \in Good
    BY <1>3, <1>8, <2>2
  <2> HIDE DEF Good
  <2>3. 0 .. n \subseteq Good
    BY <1>1, <2>1, <2>2, UpTo
  <2> QED
    BY <2>3 DEF Good
<1>10. v[n] \in D
  BY <1>1, <1>9
<1> QED
  BY <1>8, <1>10 DEF v, n, D, a, step, Divides

LEMMA SplitEmpty == \A seps : Split(<<>>, seps) = << <<>> >>
<1> TAKE seps
<1>1. <<>> \in Seq({}) /\ Len(<<>>) = 0
  OBVIOUS
<1>2. Pieces(<<>>, seps)[0] = << <<>> >>
  BY <1>1, PiecesDefined DEF Divides
<1> QED
  BY <1>1, <1>2 DEF Split

LEMMA SplitType ==
  ASSUME NEW S, NEW s \in Seq(S), NEW seps
  PROVE  Split(s, seps) \in Seq(Seq(S \ seps)) /\ Split(s, seps) # <<>>
BY PiecesDefined DEF Split

LEMMA SplitAppend ==
  ASSUME NEW S, NEW s \in Seq(S), NEW c \in S, NEW seps
  PROVE  Split(Append(s, c), seps) = Divided(Split(s, seps), c, seps)
<1> DEFINE t == Append(s, c)
           n == Len(s)
           f == Pieces(s, seps)
           h == Pieces(t, seps)
<1>1. t \in Seq(S) /\ Len(t) = n + 1 /\ n \in Nat /\ t[n + 1] = c
      /\ \A k \in 1 .. n : t[k] = s[k]
  BY AppendProperties
<1> HIDE DEF t
<1>2. Divides(f, s, seps)
  BY PiecesDefined
<1>3. Divides(h, t, seps)
  BY <1>1, PiecesDefined
<1> HIDE DEF f, h
<1>4. f[n] = h[n]
  <2>1. ASSUME NEW k \in 1 .. n, f[k - 1] = h[k - 1]
        PROVE  f[k] = h[k]
    <3>1. k \in 1 .. Len(t)
      BY <1>1
    <3>2. f[k] = Divided(f[k - 1], s[k], seps) /\ h[k] = Divided(h[k - 1], t[k], seps)
      BY <1>2, <1>3, <3>1 DEF Divides
    <3> QED
      BY <1>1, <2>1, <3>2
  <2>2. f[0] = h[0]
    BY <1>2, <1>3 DEF Divides
  <2> HIDE DEF n
  <2> QED
    BY <1>1, <2>1, <2>2, SameSteps, Zenon
<1>5. h[n + 1] = Divided(h[n], c, seps)
  <2>1. n + 1 \in 1 .. Len(t) /\ (n + 1) - 1 = n
    BY <1>1
  <2> QED
    BY <1>1, <1>3, <2>1 DEF Divides
<1>6. Split(t, seps) = h[n + 1] /\ Split(s, seps) = f[n]
  BY <1>1 DEF Split, f, h
<1> QED
  BY <1>4, <1>5, <1>6 DEF t

LEMMA SplitPieces ==
  ASSUME NEW S, NEW s \in Seq(S), NEW seps
  PROVE  /\ Split(s, seps) \in Seq(Seq(S)) /\ Front(Split(s, seps)) \in Seq(Seq(S))
         /\ Last(Split(s, seps)) \in Seq(S)
         /\ Split(s, seps) = Append(Front(Split(s, seps)), Last(Split(s, seps)))
<1> DEFINE p == Split(s, seps)
           T == Seq(S \ seps)
<1>1. p \in Seq(T) /\ p # <<>>
  BY SplitType
<1>2. T \subseteq Seq(S)
  <2>1. ASSUME NEW t \in T
        PROVE  t \in Seq(S)
    <3>1. S \ seps \subseteq S
      OBVIOUS
    <3> HIDE DEF T
    <3>2. t \in Seq(S \ seps)
      BY DEF T
    <3> QED
      BY <3>1, <3>2, SeqMonotonic
  <2> QED
    BY <2>1
<1> HIDE DEF p, T
<1>3. p \in Seq(Seq(S))
  BY <1>1, <1>2, SeqMonotonic
<1>4. Front(p) \in Seq(Seq(S)) /\ Last(p) \in Seq(S) /\ p = Append(Front(p), Last(p))
  BY <1>1, <1>3, LastFront
<1> QED
  BY <1>3, <1>4 DEF p

(* Characters that are not separators lengthen the last piece. *)
Lengthened(p, t) == Append(Front(p), Last(p) \o t)

LEMMA SplitTail ==
  ASSUME NEW S, NEW seps, NEW s \in Seq(S), NEW t \in Seq(S \ seps)
  PROVE  Split(s \o t, seps) = Lengthened(Split(s, seps), t)
<1> DEFINE p == Split(s, seps)
           f == Front(p)
           l == Last(p)
           R == S \ seps
           Good == {u \in Seq(R) : Split(s \o u, seps) = Append(f, l \o u)}
<1>1. p \in Seq(Seq(S)) /\ f \in Seq(Seq(S)) /\ l \in Seq(S) /\ p = Append(f, l)
  BY SplitPieces
<1> HIDE DEF p, f, l
<1>2. <<>> \in Good
  <2>1. s \o <<>> = s /\ l \o <<>> = l
    BY <1>1, ConcatEmptySeq
  <2> QED
    BY <1>1, <2>1 DEF p
<1>3. ASSUME NEW u \in Good, NEW x \in R
      PROVE  Append(u, x) \in Good
  <2>1. u \in Seq(S) /\ x \in S /\ x \notin seps /\ Append(u, x) \in Seq(R)
    OBVIOUS
  <2>2. s \o Append(u, x) = Append(s \o u, x) /\ l \o Append(u, x) = Append(l \o u, x)
    BY <1>1, <2>1, AppendConcat
  <2>3. s \o u \in Seq(S) /\ l \o u \in Seq(S)
    BY <1>1, <2>1
  <2> DEFINE v == s \o u
             w == l \o u
  <2>4. Split(v, seps) = Append(f, w)
    OBVIOUS
  <2> HIDE DEF v, w, Good, R
  <2>5. Front(Append(f, w)) = f /\ Last(Append(f, w)) = w
    BY <1>1, <2>3, FrontAppend DEF w
  <2>6. Split(Append(v, x), seps) = Divided(Append(f, w), x, seps)
    BY <2>1, <2>3, <2>4, SplitAppend DEF v
  <2>7. Split(Append(v, x), seps) = Append(f, Append(w, x))
    BY <2>1, <2>5, <2>6 DEF Divided
  <2> QED
    BY <2>1, <2>2, <2>7 DEF v, w, Good
<1>4. t \in Seq(R)
  OBVIOUS
<1>5. \A k \in 1 .. Len(t) : SubSeq(t, 1, k - 1) \in Good =>
                              Append(SubSeq(t, 1, k - 1), t[k]) \in Good
  BY <1>3, <1>4, ElementOfSeq
<1> HIDE DEF Good, R
<1>6. t \in Good
  BY <1>2, <1>4, <1>5, Growing, Zenon
<1> QED
  BY <1>6 DEF Good, f, l, p, Lengthened

LEMMA SplitPlain ==
  ASSUME NEW S, NEW seps, NEW t \in Seq(S \ seps)
  PROVE  Split(t, seps) = <<t>>
<1>1. <<>> \in Seq(S) /\ <<>> \in Seq(Seq(S)) /\ <<>> \o t = t
  BY ConcatEmptySeq
<1>2. Split(<<>>, seps) = Append(<<>>, <<>>)
  BY SplitEmpty
<1>3. Front(Append(<<>>, <<>>)) = <<>> /\ Last(Append(<<>>, <<>>)) = <<>>
  BY <1>1, FrontAppend
<1>4. Split(<<>> \o t, seps) = Lengthened(Split(<<>>, seps), t)
  <2>1. PICK e \in Seq(S) : e = <<>>
    BY <1>1
  <2>2. Split(e \o t, seps) = Lengthened(Split(e, seps), t)
    BY SplitTail
  <2> QED
    BY <2>1, <2>2
<1>5. Lengthened(Append(<<>>, <<>>), t) = Append(<<>>, t)
  BY <1>1, <1>3 DEF Lengthened
<1> QED
  BY <1>1, <1>2, <1>4, <1>5

(* What stands before a separator and what stands behind are split apart. *)
Cut(s, c, t) == Append(s, c) \o t

LEMMA SplitCut ==
  ASSUME NEW S, NEW seps, NEW s \in Seq(S), NEW c \in S \cap seps, NEW t \in Seq(S)
  PROVE  Split(Cut(s, c, t), seps) = Split(s, seps) \o Split(t, seps)
<1> DEFINE p == Split(s, seps)
           b == Append(s, c)
           T == Seq(S)
           Good == {u \in Seq(S) : Split(b \o u, seps) = p \o Split(u, seps)}
<1>1. p \in Seq(T)
  BY SplitPieces
<1>2. b \in Seq(S) /\ Split(b, seps) = Append(p, <<>>)
  <2>1. Split(b, seps) = Divided(p, c, seps)
    BY SplitAppend
  <2> QED
    BY <2>1 DEF Divided
<1> HIDE DEF p, b
<1>3. <<>> \in Good
  <2>1. b \o <<>> = b
    BY <1>2, ConcatEmptySeq
  <2>2. Split(<<>>, seps) = << <<>> >>
    BY SplitEmpty
  <2>3. Append(p, <<>>) = p \o << <<>> >>
    BY <1>1, AppendIsConcat
  <2>4. Split(b \o <<>>, seps) = p \o Split(<<>>, seps)
    BY <1>2, <2>1, <2>2, <2>3, Zenon
  <2>5. <<>> \in Seq(S)
    OBVIOUS
  <2> QED
    BY <2>4, <2>5
<1>4. ASSUME NEW u \in Good, NEW x \in S
      PROVE  Append(u, x) \in Good
  <2> DEFINE q == Split(u, seps)
             f == Front(q)
             l == Last(q)
             v == b \o u
             w == p \o f
  <2>1. u \in Seq(S) /\ Split(v, seps) = p \o q /\ Append(u, x) \in Seq(S)
    OBVIOUS
  <2>2. q \in Seq(T) /\ f \in Seq(T) /\ l \in T /\ q = Append(f, l)
    BY <2>1, SplitPieces
  <2> HIDE DEF q, f, l
  <2>3. v \in Seq(S) /\ b \o Append(u, x) = Append(v, x)
    BY <1>2, <2>1, AppendConcat
  <2>4. w \in Seq(T) /\ p \o q = Append(w, l)
    <3> HIDE DEF T
    <3> QED
      BY <1>1, <2>2, AppendConcat
  <2> HIDE DEF v, w, Good
  <2>5. Split(Append(v, x), seps) = Divided(p \o q, x, seps)
    BY <2>1, <2>3, SplitAppend
  <2>6. Split(Append(u, x), seps) = Divided(q, x, seps)
    BY <2>1, SplitAppend DEF q
  <2>7. Divided(p \o q, x, seps) = p \o Divided(q, x, seps)
    <3>1. CASE x \in seps
      <4>1. <<>> \in T
        OBVIOUS
      <4> HIDE DEF T
      <4>2. p \o Append(q, <<>>) = Append(p \o q, <<>>)
        BY <1>1, <2>2, <4>1, AppendConcat
      <4> QED
        BY <3>1, <4>2 DEF Divided
    <3>2. CASE x \notin seps
      <4> DEFINE m == Append(l, x)
      <4>1. m \in T
        BY <2>2
      <4> HIDE DEF m, T
      <4>2. Front(p \o q) = w /\ Last(p \o q) = l /\ Front(q) = f /\ Last(q) = l
        BY <2>2, <2>4, FrontAppend
      <4>3. p \o Append(f, m) = Append(w, m)
        BY <1>1, <2>2, <4>1, AppendConcat DEF w
      <4> QED
        BY <3>2, <4>2, <4>3 DEF Divided, m
    <3> QED
      BY <3>1, <3>2
  <2>8. Split(b \o Append(u, x), seps) = p \o Split(Append(u, x), seps)
    BY <2>3, <2>5, <2>6, <2>7
  <2> QED
    BY <2>1, <2>8 DEF Good
<1>5. \A k \in 1 .. Len(t) : SubSeq(t, 1, k - 1) \in Good =>
                              Append(SubSeq(t, 1, k - 1), t[k]) \in Good
  BY <1>4, ElementOfSeq
<1> HIDE DEF Good
<1>6. t \in Good
  BY <1>3, <1>5, Growing, Zenon
<1> QED
  BY <1>6 DEF Good, b, p, Cut

-----------------------------------------------------------------------------
(* Join, piece by piece. *)

(* The text t with p as its piece k.                                       *)
Glued(t, k, p, sep) == t \o (IF k = 1 THEN <<>> ELSE <<sep>>) \o p

Joins(f, s, sep) ==
  f[0] = <<>> /\ \A k \in 1 .. Len(s) : f[k] = Glued(f[k - 1], k, s[k], sep)

LEMMA JoinedDefined ==
  ASSUME NEW S, NEW s \in Seq(Seq(S)), NEW sep \in S
  PROVE  Joins(Joined(s, sep), s, sep) /\ Joined(s, sep)[Len(s)] \in Seq(S)
<1> DEFINE n == Len(s)
           D == Seq(S)
           a == <<>>
           step(t, k) == Glued(t, k, s[k], sep)
           g == [k \in 1 .. n |-> [t \in D |-> step(t, k)]]
           Defines(f) == f = [k \in 0 .. n |-> IF k = 0 THEN a ELSE step(f[k - 1], k)]
<1>1. n \in Nat /\ \A k \in 1 .. n : s[k] \in Seq(S)
  BY LenProperties
<1>2. a \in D
  OBVIOUS
<1>3. ASSUME NEW t \in D, NEW k \in 1 .. n
      PROVE  step(t, k) \in D
  <2>1. s[k] \in Seq(S)
    BY <1>1
  <2> QED
    BY <2>1 DEF Glued
<1> HIDE DEF n, D, a, step
<1>4. g \in [1 .. n -> [D -> D]]
  BY <1>3
<1>5. PICK f \in [0 .. n -> D] : f[0] = a /\ \A k \in 1 .. n : f[k] = g[k][f[k - 1]]
  <2> HIDE DEF g
  <2>1. \E f \in [0 .. n -> D] : Follows(f, a, g, n)
    BY <1>1, <1>2, <1>4, Recursive
  <2> QED
    BY <2>1 DEF Follows
<1>6. Defines(f)
  <2>1. ASSUME NEW k \in 1 .. n
        PROVE  f[k] = step(f[k - 1], k)
    <3>1. k - 1 \in 0 .. n
      BY <1>1
    <3> QED
      BY <1>5, <3>1
  <2>2. \A k \in 0 .. n : k # 0 => k \in 1 .. n
    BY <1>1
  <2> QED
    BY <1>5, <2>1, <2>2
<1> DEFINE v == Joined(s, sep)
<1>7. Defines(v)
  <2>1. v = CHOOSE u : u = [k \in 0 .. n |-> IF k = 0 THEN a ELSE step(u[k - 1], k)]
    BY Zenon DEF Joined, Glued, n, a, step
  <2> QED
    BY <1>6, <2>1, Zenon
<1> HIDE DEF v
<1>8. v[0] = a /\ \A k \in 1 .. n : v[k] = step(v[k - 1], k)
  BY <1>1, <1>7
<1>9. v[n] \in D
  <2> DEFINE Good == {k \in 0 .. n : v[k] \in D}
  <2>1. 0 \in Good
    BY <1>1, <1>2, <1>8
  <2>2. ASSUME NEW k \in 1 .. n, k - 1 \in Good
        PROVE  k \in Good
    BY <1>3, <1>8, <2>2
  <2> HIDE DEF Good
  <2>3. 0 .. n \subseteq Good
    BY <1>1, <2>1, <2>2, UpTo
  <2> QED
    BY <1>1, <2>3 DEF Good
<1> QED
  BY <1>8, <1>9 DEF v, n, D, a, step, Joins

LEMMA JoinType ==
  ASSUME NEW S, NEW s \in Seq(Seq(S)), NEW sep \in S
  PROVE  Join(s, sep) \in Seq(S)
BY JoinedDefined DEF Join

LEMMA JoinEmpty == \A sep : Join(<<>>, sep) = <<>>
<1> TAKE sep
<1>1. <<>> \in Seq(Seq({sep})) /\ sep \in {sep} /\ Len(<<>>) = 0
  OBVIOUS
<1>2. Joins(Joined(<<>>, sep), <<>>, sep)
  BY <1>1, JoinedDefined
<1> QED
  BY <1>1, <1>2 DEF Join, Joins

LEMMA JoinAppend ==
  ASSUME NEW S, NEW s \in Seq(Seq(S)), NEW c \in Seq(S), NEW sep \in S
  PROVE  Join(Append(s, c), sep) = Glued(Join(s, sep), Len(s) + 1, c, sep)
<1> DEFINE t == Append(s, c)
           n == Len(s)
           f == Joined(s, sep)
           h == Joined(t, sep)
<1>1. t \in Seq(Seq(S)) /\ Len(t) = n + 1 /\ n \in Nat /\ t[n + 1] = c
      /\ \A k \in 1 .. n : t[k] = s[k]
  BY AppendProperties
<1> HIDE DEF t
<1>2. Joins(f, s, sep)
  BY JoinedDefined
<1>3. Joins(h, t, sep)
  BY <1>1, JoinedDefined
<1> HIDE DEF f, h
<1>4. f[n] = h[n]
  <2>1. ASSUME NEW k \in 1 .. n, f[k - 1] = h[k - 1]
        PROVE  f[k] = h[k]
    <3>1. k \in 1 .. Len(t)
      BY <1>1
    <3>2. f[k] = Glued(f[k - 1], k, s[k], sep) /\ h[k] = Glued(h[k - 1], k, t[k], sep)
      BY <1>2, <1>3, <3>1 DEF Joins
    <3> QED
      BY <1>1, <2>1, <3>2
  <2>2. f[0] = h[0]
    BY <1>2, <1>3 DEF Joins
  <2> HIDE DEF n
  <2> QED
    BY <1>1, <2>1, <2>2, SameSteps, Zenon
<1>5. h[n + 1] = Glued(h[n], n + 1, c, sep)
  <2>1. n + 1 \in 1 .. Len(t) /\ (n + 1) - 1 = n
    BY <1>1
  <2> QED
    BY <1>1, <1>3, <2>1 DEF Joins
<1>6. Join(t, sep) = h[n + 1] /\ Join(s, sep) = f[n]
  BY <1>1 DEF Join, f, h
<1> QED
  BY <1>4, <1>5, <1>6 DEF t

-----------------------------------------------------------------------------
(* Words, piece by piece. *)

(* The words t with the piece p.                                           *)
Worded(t, p) == IF p = <<>> THEN t ELSE Append(t, p)

Fills(f, s) ==
  f[0] = <<>> /\ \A k \in 1 .. Len(s) : f[k] = Worded(f[k - 1], s[k])

LEMMA FilledDefined ==
  ASSUME NEW S, NEW s \in Seq(Seq(S))
  PROVE  Fills(Filled(s), s) /\ Filled(s)[Len(s)] \in Seq(Seq(S))
<1> DEFINE n == Len(s)
           D == Seq(Seq(S))
           a == <<>>
           step(t, k) == Worded(t, s[k])
           g == [k \in 1 .. n |-> [t \in D |-> step(t, k)]]
           Defines(f) == f = [k \in 0 .. n |-> IF k = 0 THEN a ELSE step(f[k - 1], k)]
<1>1. n \in Nat /\ \A k \in 1 .. n : s[k] \in Seq(S)
  BY LenProperties
<1>2. a \in D
  OBVIOUS
<1>3. ASSUME NEW t \in D, NEW k \in 1 .. n
      PROVE  step(t, k) \in D
  <2>1. s[k] \in Seq(S)
    BY <1>1
  <2> QED
    BY <2>1 DEF Worded
<1> HIDE DEF n, D, a, step
<1>4. g \in [1 .. n -> [D -> D]]
  BY <1>3
<1>5. PICK f \in [0 .. n -> D] : f[0] = a /\ \A k \in 1 .. n : f[k] = g[k][f[k - 1]]
  <2> HIDE DEF g
  <2>1. \E f \in [0 .. n -> D] : Follows(f, a, g, n)
    BY <1>1, <1>2, <1>4, Recursive
  <2> QED
    BY <2>1 DEF Follows
<1>6. Defines(f)
  <2>1. ASSUME NEW k \in 1 .. n
        PROVE  f[k] = step(f[k - 1], k)
    <3>1. k - 1 \in 0 .. n
      BY <1>1
    <3> QED
      BY <1>5, <3>1
  <2>2. \A k \in 0 .. n : k # 0 => k \in 1 .. n
    BY <1>1
  <2> QED
    BY <1>5, <2>1, <2>2
<1> DEFINE v == Filled(s)
<1>7. Defines(v)
  <2>1. v = CHOOSE u : u = [k \in 0 .. n |-> IF k = 0 THEN a ELSE step(u[k - 1], k)]
    BY Zenon DEF Filled, Worded, n, a, step
  <2> QED
    BY <1>6, <2>1, Zenon
<1> HIDE DEF v
<1>8. v[0] = a /\ \A k \in 1 .. n : v[k] = step(v[k - 1], k)
  BY <1>1, <1>7
<1>9. v[n] \in D
  <2> DEFINE Good == {k \in 0 .. n : v[k] \in D}
  <2>1. 0 \in Good
    BY <1>1, <1>2, <1>8
  <2>2. ASSUME NEW k \in 1 .. n, k - 1 \in Good
        PROVE  k \in Good
    BY <1>3, <1>8, <2>2
  <2> HIDE DEF Good
  <2>3. 0 .. n \subseteq Good
    BY <1>1, <2>1, <2>2, UpTo
  <2> QED
    BY <1>1, <2>3 DEF Good
<1> QED
  BY <1>8, <1>9 DEF v, n, D, a, step, Fills

LEMMA WordsType ==
  ASSUME NEW S, NEW s \in Seq(Seq(S))
  PROVE  Words(s) \in Seq(Seq(S))
BY FilledDefined DEF Words

LEMMA WordsEmpty == Words(<<>>) = <<>>
<1>1. <<>> \in Seq(Seq({})) /\ Len(<<>>) = 0
  OBVIOUS
<1>2. Fills(Filled(<<>>), <<>>)
  BY <1>1, FilledDefined
<1> QED
  BY <1>1, <1>2 DEF Words, Fills

LEMMA WordsAppend ==
  ASSUME NEW S, NEW s \in Seq(Seq(S)), NEW c \in Seq(S)
  PROVE  Words(Append(s, c)) = Worded(Words(s), c)
<1> DEFINE t == Append(s, c)
           n == Len(s)
           f == Filled(s)
           h == Filled(t)
<1>1. t \in Seq(Seq(S)) /\ Len(t) = n + 1 /\ n \in Nat /\ t[n + 1] = c
      /\ \A k \in 1 .. n : t[k] = s[k]
  BY AppendProperties
<1> HIDE DEF t
<1>2. Fills(f, s)
  BY FilledDefined
<1>3. Fills(h, t)
  BY <1>1, FilledDefined
<1> HIDE DEF f, h
<1>4. f[n] = h[n]
  <2>1. ASSUME NEW k \in 1 .. n, f[k - 1] = h[k - 1]
        PROVE  f[k] = h[k]
    <3>1. k \in 1 .. Len(t)
      BY <1>1
    <3>2. f[k] = Worded(f[k - 1], s[k]) /\ h[k] = Worded(h[k - 1], t[k])
      BY <1>2, <1>3, <3>1 DEF Fills
    <3> QED
      BY <1>1, <2>1, <3>2
  <2>2. f[0] = h[0]
    BY <1>2, <1>3 DEF Fills
  <2> HIDE DEF n
  <2> QED
    BY <1>1, <2>1, <2>2, SameSteps, Zenon
<1>5. h[n + 1] = Worded(h[n], c)
  <2>1. n + 1 \in 1 .. Len(t) /\ (n + 1) - 1 = n
    BY <1>1
  <2> QED
    BY <1>1, <1>3, <2>1 DEF Fills
<1>6. Words(t) = h[n + 1] /\ Words(s) = f[n]
  BY <1>1 DEF Words, f, h
<1> QED
  BY <1>4, <1>5, <1>6 DEF t

-----------------------------------------------------------------------------
(* Ink, character by character. *)

(* What is seen, with one more character.                                  *)
Seen(t, c) == IF c \in Breaks \cup {Blank} THEN t ELSE Append(t, c)

Inks(f, s) ==
  f[0] = <<>> /\ \A k \in 1 .. Len(s) : f[k] = Seen(f[k - 1], s[k])

LEMMA InkedDefined ==
  ASSUME NEW S, NEW s \in Seq(S)
  PROVE  Inks(Inked(s), s) /\ Inked(s)[Len(s)] \in Seq(S)
<1> DEFINE n == Len(s)
           D == Seq(S)
           a == <<>>
           step(t, k) == Seen(t, s[k])
           g == [k \in 1 .. n |-> [t \in D |-> step(t, k)]]
           Defines(f) == f = [k \in 0 .. n |-> IF k = 0 THEN a ELSE step(f[k - 1], k)]
<1>1. n \in Nat /\ \A k \in 1 .. n : s[k] \in S
  BY LenProperties
<1>2. a \in D
  OBVIOUS
<1>3. ASSUME NEW t \in D, NEW k \in 1 .. n
      PROVE  step(t, k) \in D
  <2>1. s[k] \in S
    BY <1>1
  <2> QED
    BY <2>1 DEF Seen
<1> HIDE DEF n, D, a, step
<1>4. g \in [1 .. n -> [D -> D]]
  BY <1>3
<1>5. PICK f \in [0 .. n -> D] : f[0] = a /\ \A k \in 1 .. n : f[k] = g[k][f[k - 1]]
  <2> HIDE DEF g
  <2>1. \E f \in [0 .. n -> D] : Follows(f, a, g, n)
    BY <1>1, <1>2, <1>4, Recursive
  <2> QED
    BY <2>1 DEF Follows
<1>6. Defines(f)
  <2>1. ASSUME NEW k \in 1 .. n
        PROVE  f[k] = step(f[k - 1], k)
    <3>1. k - 1 \in 0 .. n
      BY <1>1
    <3> QED
      BY <1>5, <3>1
  <2>2. \A k \in 0 .. n : k # 0 => k \in 1 .. n
    BY <1>1
  <2> QED
    BY <1>5, <2>1, <2>2
<1> DEFINE v == Inked(s)
<1>7. Defines(v)
  <2>1. v = CHOOSE u : u = [k \in 0 .. n |-> IF k = 0 THEN a ELSE step(u[k - 1], k)]
    BY Zenon DEF Inked, Seen, n, a, step
  <2> QED
    BY <1>6, <2>1, Zenon
<1> HIDE DEF v
<1>8. v[0] = a /\ \A k \in 1 .. n : v[k] = step(v[k - 1], k)
  BY <1>1, <1>7
<1>9. v[n] \in D
  <2> DEFINE Good == {k \in 0 .. n : v[k] \in D}
  <2>1. 0 \in Good
    BY <1>1, <1>2, <1>8
  <2>2. ASSUME NEW k \in 1 .. n, k - 1 \in Good
        PROVE  k \in Good
    BY <1>3, <1>8, <2>2
  <2> HIDE DEF Good
  <2>3. 0 .. n \subseteq Good
    BY <1>1, <2>1, <2>2, UpTo
  <2> QED
    BY <1>1, <2>3 DEF Good
<1> QED
  BY <1>8, <1>9 DEF v, n, D, a, step, Inks

LEMMA InkType ==
  ASSUME NEW S, NEW s \in Seq(S)
  PROVE  Ink(s) \in Seq(S)
BY InkedDefined DEF Ink

LEMMA InkEmpty == Ink(<<>>) = <<>>
<1>1. <<>> \in Seq({}) /\ Len(<<>>) = 0
  OBVIOUS
<1>2. Inks(Inked(<<>>), <<>>)
  BY <1>1, InkedDefined
<1> QED
  BY <1>1, <1>2 DEF Ink, Inks

LEMMA InkAppend ==
  ASSUME NEW S, NEW s \in Seq(S), NEW c \in S
  PROVE  Ink(Append(s, c)) = Seen(Ink(s), c)
<1> DEFINE t == Append(s, c)
           n == Len(s)
           f == Inked(s)
           h == Inked(t)
<1>1. t \in Seq(S) /\ Len(t) = n + 1 /\ n \in Nat /\ t[n + 1] = c
      /\ \A k \in 1 .. n : t[k] = s[k]
  BY AppendProperties
<1> HIDE DEF t
<1>2. Inks(f, s)
  BY InkedDefined
<1>3. Inks(h, t)
  BY <1>1, InkedDefined
<1> HIDE DEF f, h
<1>4. f[n] = h[n]
  <2>1. ASSUME NEW k \in 1 .. n, f[k - 1] = h[k - 1]
        PROVE  f[k] = h[k]
    <3>1. k \in 1 .. Len(t)
      BY <1>1
    <3>2. f[k] = Seen(f[k - 1], s[k]) /\ h[k] = Seen(h[k - 1], t[k])
      BY <1>2, <1>3, <3>1 DEF Inks
    <3> QED
      BY <1>1, <2>1, <3>2
  <2>2. f[0] = h[0]
    BY <1>2, <1>3 DEF Inks
  <2> HIDE DEF n
  <2> QED
    BY <1>1, <2>1, <2>2, SameSteps, Zenon
<1>5. h[n + 1] = Seen(h[n], c)
  <2>1. n + 1 \in 1 .. Len(t) /\ (n + 1) - 1 = n
    BY <1>1
  <2> QED
    BY <1>1, <1>3, <2>1 DEF Inks
<1>6. Ink(t) = h[n + 1] /\ Ink(s) = f[n]
  BY <1>1 DEF Ink, f, h
<1> QED
  BY <1>4, <1>5, <1>6 DEF t

-----------------------------------------------------------------------------
(* Flatten. *)

LEMMA Widen ==
  ASSUME NEW S, NEW T, NEW s \in Seq(S), S \subseteq T
  PROVE  s \in Seq(T)
BY SeqMonotonic

LEMMA BlankIsPlain == Blank \notin Breaks /\ LineEnds \subseteq Breaks /\ Tab \in Breaks
BY DEF Blank, Breaks, LineEnds, Tab, CR, LF

LEMMA FlattenType ==
  ASSUME NEW S, Blank \in S, NEW d \in Seq(S)
  PROVE  Flatten(d) \in Seq(S \ Breaks)
<1> DEFINE p == Split(d, Breaks)
           R == S \ Breaks
<1>1. p \in Seq(Seq(R))
  BY SplitType
<1>2. Blank \in R
  BY BlankIsPlain
<1> HIDE DEF p, R
<1>3. Words(p) \in Seq(Seq(R))
  BY <1>1, WordsType
<1>4. Join(Words(p), Blank) \in Seq(R)
  BY <1>2, <1>3, JoinType
<1> QED
  BY <1>4 DEF Flatten, p, R

(* A line break adds nothing, any other character itself and at most a     *)
(* blank before it.                                                        *)
LEMMA FlattenAppend ==
  ASSUME NEW S, Blank \in S, NEW d \in Seq(S), NEW c \in S
  PROVE  \/ c \in Breaks /\ Flatten(Append(d, c)) = Flatten(d)
         \/ Flatten(Append(d, c)) = Append(Flatten(d), c)
         \/ Flatten(Append(d, c)) = Append(Append(Flatten(d), Blank), c)
<1> DEFINE p == Split(d, Breaks)
           f == Front(p)
           l == Last(p)
           w == Words(f)
           j == Join(w, Blank)
           q == Split(Append(d, c), Breaks)
<1>1. /\ p \in Seq(Seq(S)) /\ f \in Seq(Seq(S)) /\ l \in Seq(S) /\ p = Append(f, l)
  BY SplitPieces
<1>2. q = Divided(p, c, Breaks)
  BY SplitAppend
<1>3. Flatten(d) = Join(Words(p), Blank) /\ Flatten(Append(d, c)) = Join(Words(q), Blank)
  BY DEF Flatten
<1>4. w \in Seq(Seq(S)) /\ j \in Seq(S)
  <2> HIDE DEF f
  <2>1. w \in Seq(Seq(S))
    BY <1>1, WordsType
  <2> HIDE DEF w
  <2> QED
    BY <2>1, JoinType
<1>5. Words(p) = Worded(w, l)
  <2> HIDE DEF p, f, l
  <2> QED
    BY <1>1, WordsAppend
<1>6. CASE c \in Breaks
  <2>1. q = Append(p, <<>>)
    BY <1>2, <1>6 DEF Divided
  <2>2. Words(q) = Worded(Words(p), <<>>)
    <3>1. PICK e \in Seq(S) : e = <<>>
      BY Nothing
    <3> HIDE DEF p
    <3>2. Words(Append(p, e)) = Worded(Words(p), e)
      BY <1>1, WordsAppend
    <3> QED
      BY <2>1, <3>1, <3>2
  <2>3. Words(q) = Words(p)
    BY <2>2 DEF Worded
  <2> QED
    BY <1>3, <1>6, <2>3
<1>7. CASE c \notin Breaks
  <2> DEFINE m == Append(l, c)
             k == Len(w) + 1
             glue == IF k = 1 THEN <<>> ELSE <<Blank>>
  <2>1. q = Append(f, m)
    BY <1>2, <1>7 DEF Divided
  <2>2. m \in Seq(S) /\ m # <<>>
    <3> HIDE DEF l
    <3> QED
      BY <1>1, AppendProperties
  <2>3. Words(q) = Append(w, m)
    <3> HIDE DEF f, m
    <3>1. Words(Append(f, m)) = Worded(w, m)
      BY <1>1, <2>2, WordsAppend
    <3> QED
      BY <2>1, <2>2, <3>1 DEF Worded
  <2>4. Flatten(Append(d, c)) = Glued(j, k, m, Blank)
    <3> HIDE DEF w, m
    <3>1. Join(Append(w, m), Blank) = Glued(j, k, m, Blank)
      BY <1>4, <2>2, JoinAppend
    <3> QED
      BY <1>3, <2>3, <3>1
  <2>5. k = 1 <=> w = <<>>
    BY <1>4
  <2>6. CASE l = <<>>
    <3>1. Flatten(d) = j /\ m = <<c>>
      BY <1>3, <1>5, <2>6 DEF Worded
    <3>2. CASE w = <<>>
      <4>1. Flatten(Append(d, c)) = (j \o <<>>) \o <<c>>
        BY <2>4, <2>5, <3>1, <3>2 DEF Glued
      <4> HIDE DEF j
      <4>2. j \o <<>> = j /\ j \o <<c>> = Append(j, c)
        BY <1>4, ConcatEmptySeq, AppendIsConcat
      <4> QED
        BY <3>1, <4>1, <4>2
    <3>3. CASE w # <<>>
      <4>1. Flatten(Append(d, c)) = (j \o <<Blank>>) \o <<c>>
        BY <2>4, <2>5, <3>1, <3>3 DEF Glued
      <4> DEFINE i == Append(j, Blank)
      <4> HIDE DEF j
      <4>2. i \in Seq(S) /\ j \o <<Blank>> = i
        BY <1>4, AppendIsConcat
      <4> HIDE DEF i
      <4>3. i \o <<c>> = Append(i, c)
        BY <4>2, AppendIsConcat
      <4> QED
        BY <3>1, <4>1, <4>2, <4>3 DEF i
    <3> QED
      BY <3>2, <3>3
  <2>7. CASE l # <<>>
    <3>1. Words(p) = Append(w, l)
      BY <1>5, <2>7 DEF Worded
    <3>2. Flatten(d) = Glued(j, k, l, Blank)
      <4> HIDE DEF w, l
      <4>1. Join(Append(w, l), Blank) = Glued(j, k, l, Blank)
        BY <1>1, <1>4, JoinAppend
      <4> QED
        BY <1>3, <3>1, <4>1
    <3> DEFINE b == j \o glue
    <3>3. b \in Seq(S)
      <4>1. glue \in Seq(S)
        OBVIOUS
      <4> HIDE DEF glue, j
      <4> QED
        BY <1>4, <4>1
    <3>4. Flatten(d) = b \o l /\ Flatten(Append(d, c)) = b \o m
      BY <2>4, <3>2 DEF Glued
    <3> HIDE DEF b, l
    <3>5. b \o Append(l, c) = Append(b \o l, c)
      BY <1>1, <3>3, AppendConcat
    <3> QED
      BY <3>4, <3>5
  <2> QED
    BY <2>6, <2>7
<1> QED
  BY <1>6, <1>7

(* What can be seen of a detail is in its flattened form. *)
LEMMA FlattenKeepsInk ==
  ASSUME NEW S, Blank \in S, NEW d \in Seq(S)
  PROVE  Ink(Flatten(d)) = Ink(d)
<1> DEFINE Good == {u \in Seq(S) : Ink(Flatten(u)) = Ink(u)}
<1>1. <<>> \in Good
  <2>1. Split(<<>>, Breaks) = << <<>> >>
    BY SplitEmpty
  <2>2. Words(<< <<>> >>) = <<>>
    <3>1. PICK e \in Seq(Seq(S)) : e = <<>>
      BY Nothing
    <3>2. PICK x \in Seq(S) : x = <<>>
      BY Nothing
    <3>3. Words(Append(e, x)) = Worded(Words(e), x)
      BY WordsAppend
    <3>4. Append(e, x) = << <<>> >>
      BY <3>1, <3>2
    <3> QED
      BY <3>1, <3>2, <3>3, <3>4, WordsEmpty DEF Worded
  <2>3. Flatten(<<>>) = <<>>
    BY <2>1, <2>2, JoinEmpty DEF Flatten
  <2> QED
    BY <2>3
<1>2. ASSUME NEW u \in Good, NEW x \in S
      PROVE  Append(u, x) \in Good
  <2> DEFINE F == Flatten(u)
             G == Flatten(Append(u, x))
  <2>1. u \in Seq(S) /\ Append(u, x) \in Seq(S) /\ Ink(F) = Ink(u)
    OBVIOUS
  <2>2. F \in Seq(S)
    <3>1. S \ Breaks \subseteq S
      OBVIOUS
    <3>2. F \in Seq(S \ Breaks)
      BY <2>1, FlattenType
    <3> HIDE DEF F
    <3> QED
      BY <3>1, <3>2, Widen
  <2>3. \/ x \in Breaks /\ G = F
        \/ G = Append(F, x)
        \/ G = Append(Append(F, Blank), x)
    BY <2>1, FlattenAppend
  <2> HIDE DEF F, G, Good
  <2>4. Ink(Append(u, x)) = Seen(Ink(u), x)
    BY <2>1, InkAppend
  <2>5. Ink(Append(F, x)) = Seen(Ink(F), x)
    BY <2>2, InkAppend
  <2>6. Ink(Append(Append(F, Blank), x)) = Seen(Ink(F), x)
    <3> DEFINE H == Append(F, Blank)
    <3>1. H \in Seq(S)
      BY <2>2
    <3>2. Ink(H) = Seen(Ink(F), Blank)
      BY <2>2, InkAppend
    <3> HIDE DEF H
    <3>3. Ink(Append(H, x)) = Seen(Ink(H), x)
      BY <3>1, InkAppend
    <3>4. Seen(Ink(F), Blank) = Ink(F)
      BY DEF Seen
    <3> QED
      BY <3>2, <3>3, <3>4 DEF H
  <2>7. x \in Breaks => Seen(Ink(u), x) = Ink(u)
    BY DEF Seen
  <2>8. Ink(G) = Ink(Append(u, x))
    BY <2>1, <2>3, <2>4, <2>5, <2>6, <2>7
  <2> QED
    BY <2>1, <2>8 DEF G, Good
<1>3. \A k \in 1 .. Len(d) : SubSeq(d, 1, k - 1) \in Good =>
                              Append(SubSeq(d, 1, k - 1), d[k]) \in Good
  BY <1>2, ElementOfSeq
<1> HIDE DEF Good
<1>4. d \in Good
  BY <1>1, <1>3, Growing, Zenon
<1> QED
  BY <1>4 DEF Good

-----------------------------------------------------------------------------
(* Lines on their way. *)

(* A line written behind what is on its way becomes the last of its lines. *)
Ended(d, r) == d \o r \o <<LF>>

Ahead(p, r) == Append(Append(Front(p), r), <<>>)

LEMMA LineWritten ==
  ASSUME NEW S, LF \in S, NEW h \in Seq(S), NEW d \in Seq(S), NEW r \in Seq(S \ {LF}),
         Last(Split(h \o d, {LF})) = <<>>
  PROVE  Split(h \o Ended(d, r), {LF}) = Ahead(Split(h \o d, {LF}), r)
<1> DEFINE ends == {LF}
           x == h \o d
           y == x \o r
           p == Split(x, ends)
<1>1. LF \in S /\ LF \in ends
  OBVIOUS
<1>2. h \in Seq(S) /\ d \in Seq(S) /\ r \in Seq(S \ ends) /\ r \in Seq(S)
  <2>1. S \ ends \subseteq S
    OBVIOUS
  <2>2. r \in Seq(S \ ends)
    OBVIOUS
  <2> HIDE DEF ends
  <2> QED
    BY <2>1, <2>2, Widen
<1>3. Last(p) = <<>>
  OBVIOUS
<1> HIDE DEF ends
<1>4. x \in Seq(S) /\ y \in Seq(S)
  <2>1. x \in Seq(S)
    BY <1>2
  <2> HIDE DEF x
  <2> QED
    BY <1>2, <2>1
<1>5. h \o (d \o r \o <<LF>>) = Append(y, LF)
  <2> DEFINE z == d \o r
  <2>1. z \in Seq(S)
    BY <1>2
  <2>2. h \o z = y
    <3>1. Regroups(h, d, r)
      BY <1>2, Regroup
    <3> QED
      BY <3>1, Zenon DEF Regroups
  <2> HIDE DEF z
  <2>3. z \o <<LF>> = Append(z, LF)
    BY <1>1, <2>1, AppendIsConcat
  <2>4. h \o Append(z, LF) = Append(h \o z, LF)
    BY <1>1, <1>2, <2>1, AppendConcat
  <2>5. h \o (z \o <<LF>>) = Append(y, LF)
    BY <2>2, <2>3, <2>4, Zenon
  <2> QED
    BY <2>5, Zenon DEF z
<1> HIDE DEF x
<1>6. Split(y, ends) = Append(Front(p), r)
  <2>1. Split(y, ends) = Lengthened(p, r)
    BY <1>2, <1>4, SplitTail
  <2>2. <<>> \o r = r
    BY <1>2, ConcatEmptySeq
  <2> QED
    BY <1>3, <2>1, <2>2, Zenon DEF Lengthened
<1> HIDE DEF y
<1>7. Split(Append(y, LF), ends) = Append(Split(y, ends), <<>>)
  <2>1. Split(Append(y, LF), ends) = Divided(Split(y, ends), LF, ends)
    BY <1>1, <1>4, SplitAppend
  <2> QED
    BY <1>1, <2>1 DEF Divided
<1> QED
  BY <1>5, <1>6, <1>7, Zenon DEF p, x, ends, Ended, Ahead

(* At a line end the reader has the first of the lines, the others are     *)
(* still on their way.                                                     *)
LEMMA LineRead ==
  ASSUME NEW S, LF \in S, NEW h \in Seq(S \ {LF}), NEW d \in Seq(S), d # <<>>
  PROVE  /\ h \o d = Append(h, Head(d)) \o Tail(d)
         /\ Head(d) = LF => Split(h \o d, {LF}) = <<h>> \o Split(Tail(d), {LF})
<1> DEFINE ends == {LF}
           e == Head(d)
           t == Tail(d)
<1>1. LF \in S \cap ends
  OBVIOUS
<1>2. d \in Seq(S) /\ h \in Seq(S \ ends) /\ h \in Seq(S)
  <2>1. S \ ends \subseteq S
    OBVIOUS
  <2>2. h \in Seq(S \ ends)
    OBVIOUS
  <2> HIDE DEF ends
  <2> QED
    BY <2>1, <2>2, Widen
<1>3. t \in Seq(S) /\ e \in S /\ d = <<e>> \o t
  <2>1. t \in Seq(S) /\ e \in S /\ Len(t) = Len(d) - 1 /\ Len(d) \in Nat \ {0}
        /\ \A i \in 1 .. Len(t) : t[i] = d[i + 1]
    BY <1>2, HeadTailProperties, EmptySeq
  <2>2. e = d[1]
    BY <2>1
  <2> DEFINE b == <<e>>
  <2>3. b \in Seq(S) /\ Len(b) = 1 /\ b[1] = e
    BY <2>1
  <2> HIDE DEF e, t, b, ends
  <2>4. b \o t \in Seq(S) /\ Len(b \o t) = Len(d)
        /\ \A i \in 1 .. Len(d) : (b \o t)[i] = IF i <= 1 THEN b[i] ELSE t[i - 1]
    <3>1. /\ b \o t \in Seq(S) /\ Len(b \o t) = Len(b) + Len(t)
          /\ \A i \in 1 .. Len(b) + Len(t) :
               (b \o t)[i] = IF i <= Len(b) THEN b[i] ELSE t[i - Len(b)]
      BY <2>1, <2>3, ConcatProperties
    <3> HIDE DEF b
    <3>2. Len(b) + Len(t) = Len(d)
      BY <2>1, <2>3
    <3> QED
      BY <2>3, <3>1, <3>2
  <2>5. \A i \in 1 .. Len(d) : (b \o t)[i] = d[i]
    <3>1. \A i \in 1 .. Len(d) : i <= 1 => i = 1
      OBVIOUS
    <3>2. \A i \in 1 .. Len(d) : ~(i <= 1) => i - 1 \in 1 .. Len(t) /\ (i - 1) + 1 = i
      BY <2>1
    <3> QED
      BY <2>1, <2>2, <2>3, <2>4, <3>1, <3>2
  <2>6. b \o t = d
    BY <1>2, <2>4, <2>5, SeqEqual
  <2> QED
    BY <2>1, <2>6 DEF b
<1> HIDE DEF ends, e, t
<1>4. h \o d = Cut(h, e, t)
  <2> DEFINE b == <<e>>
  <2>1. b \in Seq(S) /\ h \o b = Append(h, e) /\ d = b \o t
    BY <1>2, <1>3, AppendIsConcat
  <2> HIDE DEF b
  <2>2. (h \o b) \o t = h \o (b \o t)
    <3>1. h \in Seq(S) /\ b \in Seq(S) /\ t \in Seq(S)
      BY <1>2, <1>3, <2>1
    <3>2. Regroups(h, b, t)
      BY <3>1, Regroup
    <3> QED
      BY <3>2, Zenon DEF Regroups
  <2> QED
    BY <2>1, <2>2, Zenon DEF Cut
<1>5. e = LF => Split(h \o d, ends) = <<h>> \o Split(t, ends)
  <2>1. Split(Cut(h, LF, t), ends) = Split(h, ends) \o Split(t, ends)
    BY <1>1, <1>2, <1>3, SplitCut
  <2>2. Split(h, ends) = <<h>>
    BY <1>2, SplitPlain
  <2> QED
    BY <1>4, <2>1, <2>2
<1> QED
  BY <1>4, <1>5, Zenon DEF Cut, e, t, ends

-----------------------------------------------------------------------------
(* Three fields. *)

LEMMA AppendOne ==
  ASSUME NEW S, NEW s \in Seq(S), NEW x \in S
  PROVE  /\ Append(s, x) \in Seq(S) /\ Len(Append(s, x)) = Len(s) + 1
         /\ s \o <<x>> = Append(s, x)
         /\ \A i \in 1 .. Len(s) : Append(s, x)[i] = s[i]
         /\ Append(s, x)[Len(s) + 1] = x
<1>1. s \o <<x>> = Append(s, x)
  BY AppendIsConcat
<1> QED
  BY <1>1, AppendProperties

LEMMA Threes ==
  ASSUME NEW a, NEW b, NEW c
  PROVE  /\ Append(<<a>>, b) = <<a, b>> /\ Append(<<a, b>>, c) = <<a, b, c>>
         /\ <<a>> \o <<b>> = <<a, b>> /\ <<a, b>> \o <<c>> = <<a, b, c>>
<1> DEFINE S == {a, b, c}
           x == <<a>>
           u == <<a, b>>
           v == <<a, b, c>>
<1>1. x \in Seq(S) /\ Len(x) = 1 /\ x[1] = a
      /\ a \in S /\ b \in S /\ c \in S
  OBVIOUS
<1>2. u \in Seq(S) /\ Len(u) = 2 /\ u[1] = a /\ u[2] = b
  OBVIOUS
<1>3. v \in Seq(S) /\ Len(v) = 3 /\ v[1] = a /\ v[2] = b /\ v[3] = c
  OBVIOUS
<1> HIDE DEF x, u, v, S
<1>4. Append(x, b) = u /\ x \o <<b>> = u
  <2> DEFINE y == Append(x, b)
  <2>1. y \in Seq(S) /\ Len(y) = 2 /\ y[1] = a /\ y[2] = b /\ x \o <<b>> = y
    <3>1. /\ y \in Seq(S) /\ Len(y) = Len(x) + 1 /\ x \o <<b>> = y
          /\ \A i \in 1 .. Len(x) : y[i] = x[i]
          /\ y[Len(x) + 1] = b
      BY <1>1, AppendOne, Zenon
    <3> HIDE DEF y
    <3> QED
      BY <1>1, <3>1
  <2> HIDE DEF y
  <2>2. y = u
    <3>1. \A i \in 1 .. 2 : i = 1 \/ i = 2
      OBVIOUS
    <3>2. \A i \in 1 .. 2 : y[i] = u[i]
      BY <1>2, <2>1, <3>1
    <3> QED
      BY <1>2, <2>1, <3>2, SeqEqual
  <2> QED
    BY <2>1, <2>2 DEF y
<1>5. Append(u, c) = v /\ u \o <<c>> = v
  <2> DEFINE y == Append(u, c)
  <2>1. y \in Seq(S) /\ Len(y) = 3 /\ y[1] = a /\ y[2] = b /\ y[3] = c /\ u \o <<c>> = y
    <3>1. /\ y \in Seq(S) /\ Len(y) = Len(u) + 1 /\ u \o <<c>> = y
          /\ \A i \in 1 .. Len(u) : y[i] = u[i]
          /\ y[Len(u) + 1] = c
      <4>1. u \in Seq(S) /\ c \in S
        BY <1>1, <1>2
      <4> QED
        BY <4>1, AppendOne, Zenon
    <3> HIDE DEF y
    <3> QED
      BY <1>2, <3>1
  <2> HIDE DEF y
  <2>2. y = v
    <3>1. \A i \in 1 .. 3 : i = 1 \/ i = 2 \/ i = 3
      OBVIOUS
    <3>2. \A i \in 1 .. 3 : y[i] = v[i]
      BY <1>3, <2>1, <3>1
    <3> QED
      BY <1>3, <2>1, <3>2, SeqEqual
  <2> QED
    BY <2>1, <2>2 DEF y
<1> QED
  BY <1>4, <1>5 DEF x, u, v

-----------------------------------------------------------------------------
(* The line of an answer. *)

Word(v) == IF v.passed THEN "pass" ELSE "fail"

Signs == Characters \cup {"pass", "fail", Blank, Tab, LF}

LEMMA JoinThree ==
  ASSUME NEW S, NEW a \in Seq(S), NEW b \in Seq(S), NEW c \in Seq(S), NEW sep \in S
  PROVE  /\ Join(<<a, b, c>>, sep) = Cut(Cut(a, sep, b), sep, c)
         /\ Cut(a, sep, b) \in Seq(S) /\ Cut(Cut(a, sep, b), sep, c) \in Seq(S)
<1> DEFINE T == Seq(S)
           e1 == Append(<<>>, a)
           e2 == Append(e1, b)
           e3 == Append(e2, c)
           j == Append(a, sep) \o b
<1>1. a \in T /\ b \in T /\ c \in T
  OBVIOUS
<1>2. e3 = <<a, b, c>>
  <2>1. e1 = <<a>>
    OBVIOUS
  <2>2. Append(<<a>>, b) = <<a, b>> /\ Append(<<a, b>>, c) = <<a, b, c>>
    BY Threes
  <2> QED
    BY <2>1, <2>2, Zenon
<1>3. j \in Seq(S) /\ Append(j, sep) \o c \in Seq(S)
  <2>1. j \in Seq(S)
    OBVIOUS
  <2> HIDE DEF j
  <2> QED
    BY <2>1
<1>4. e1 \in Seq(T) /\ Len(e1) = 1 /\ Join(e1, sep) = a
  <2>1. PICK e \in Seq(T) : e = <<>>
    BY Nothing
  <2>2. Len(e) = 0 /\ Len(e) + 1 = 1
    BY <2>1
  <2>3. Join(Append(e, a), sep) = Glued(Join(e, sep), Len(e) + 1, a, sep)
    BY JoinAppend
  <2>4. Join(e, sep) = <<>>
    BY <2>1, JoinEmpty
  <2>5. Glued(<<>>, 1, a, sep) = <<>> \o <<>> \o a
    BY DEF Glued
  <2>6. <<>> \o <<>> \o a = a
    BY ConcatEmptySeq
  <2>7. Join(Append(e, a), sep) = a
    BY <2>2, <2>3, <2>4, <2>5, <2>6, Zenon
  <2> HIDE DEF T
  <2>8. Append(e, a) \in Seq(T) /\ Len(Append(e, a)) = 1
    BY <1>1, <2>2, AppendProperties
  <2> QED
    BY <2>1, <2>7, <2>8, Zenon
<1> HIDE DEF e1, T
<1>5. e2 \in Seq(T) /\ Len(e2) = 2
  <2>1. e2 \in Seq(T) /\ Len(e2) = Len(e1) + 1
    BY <1>1, <1>4, AppendOne, Zenon
  <2> HIDE DEF e2
  <2> QED
    BY <1>4, <2>1
<1>6. Join(e2, sep) = j
  <2>1. Join(e2, sep) = Glued(Join(e1, sep), Len(e1) + 1, b, sep)
    BY <1>4, JoinAppend DEF T
  <2>2. Len(e1) + 1 = 2
    BY <1>4
  <2>3. Glued(a, 2, b, sep) = a \o <<sep>> \o b
    BY DEF Glued
  <2>4. a \o <<sep>> = Append(a, sep)
    BY AppendIsConcat
  <2> QED
    BY <1>4, <2>1, <2>2, <2>3, <2>4, Zenon
<1> HIDE DEF e2, j
<1>7. Join(e3, sep) = Append(j, sep) \o c
  <2>1. Join(e3, sep) = Glued(Join(e2, sep), Len(e2) + 1, c, sep)
    BY <1>5, JoinAppend DEF T
  <2>2. Len(e2) + 1 = 3
    BY <1>5
  <2>3. Glued(j, 3, c, sep) = j \o <<sep>> \o c
    BY DEF Glued
  <2>4. j \o <<sep>> = Append(j, sep)
    BY <1>3, AppendIsConcat
  <2> QED
    BY <1>6, <2>1, <2>2, <2>3, <2>4, Zenon
<1> QED
  BY <1>2, <1>3, <1>7, Zenon DEF j, Cut

(* An answer is one line of three fields. *)
LEMMA AnswerLine ==
  ASSUME NEW v \in Verdicts
  PROVE  /\ ResponseLine(v) \in Seq(Signs \ LineEnds)
         /\ Split(ResponseLine(v), {Tab}) = << <<Word(v)>>, <<v.bucket>>, Flatten(v.detail) >>
         /\ Ink(Flatten(v.detail)) = Ink(v.detail)
<1> DEFINE S == Characters \cup {"pass", "fail", Blank, Tab}
           P == S \ Breaks
           L == Signs \ LineEnds
           a == <<Word(v)>>
           b == <<v.bucket>>
           c == Flatten(v.detail)
<1>1. v.bucket \in Characters \ Breaks /\ v.detail \in Seq(Characters)
  BY WireAssumption
<1>2. v.detail \in Seq(S) /\ Blank \in S
  BY <1>1, Widen
<1>3. a \in Seq(P) /\ b \in Seq(P) /\ c \in Seq(P)
  <2>1. Word(v) \in P
    BY DEF Word, Breaks, Tab, CR, LF
  <2>2. v.bucket \in P
    BY <1>1
  <2>3. c \in Seq(P)
    BY <1>2, FlattenType
  <2> HIDE DEF P, c
  <2> QED
    BY <2>1, <2>2, <2>3
<1>4. Ink(c) = Ink(v.detail)
  BY <1>2, FlattenKeepsInk
<1>5. P \subseteq L \ {Tab} /\ Tab \in L
  BY DEF Signs, LineEnds, Breaks, Tab, CR, LF
<1> HIDE DEF P, L, a, b, c
<1>6. /\ a \in Seq(L \ {Tab}) /\ b \in Seq(L \ {Tab}) /\ c \in Seq(L \ {Tab})
      /\ a \in Seq(L) /\ b \in Seq(L) /\ c \in Seq(L)
  BY <1>3, <1>5, Widen
<1> DEFINE j == Cut(a, Tab, b)
           line == Cut(j, Tab, c)
<1>7. ResponseLine(v) = line /\ j \in Seq(L) /\ line \in Seq(L)
  <2>1. ResponseLine(v) = Join(<<a, b, c>>, Tab)
    BY DEF ResponseLine, Word, a, b, c
  <2>2. Tab \in L /\ a \in Seq(L) /\ b \in Seq(L) /\ c \in Seq(L)
    BY <1>5, <1>6
  <2>3. Join(<<a, b, c>>, Tab) = line /\ j \in Seq(L) /\ line \in Seq(L)
    BY <2>2, JoinThree
  <2> QED
    BY <2>1, <2>3, Zenon
<1>8. Split(a, {Tab}) = <<a>> /\ Split(b, {Tab}) = <<b>> /\ Split(c, {Tab}) = <<c>>
  BY <1>6, SplitPlain
<1>9. Tab \in L \cap {Tab}
  BY <1>5
<1>10. \A x \in Seq(L), y \in Seq(L) :
         Split(Cut(x, Tab, y), {Tab}) = Split(x, {Tab}) \o Split(y, {Tab})
  <2> TAKE x \in Seq(L), y \in Seq(L)
  <2> DEFINE tabs == {Tab}
  <2>1. Tab \in L \cap tabs
    BY <1>9
  <2> HIDE DEF tabs
  <2>2. Split(Cut(x, Tab, y), tabs) = Split(x, tabs) \o Split(y, tabs)
    BY <2>1, SplitCut
  <2> QED
    BY <2>2 DEF tabs
<1>11. /\ Split(j, {Tab}) = Split(a, {Tab}) \o Split(b, {Tab})
       /\ Split(line, {Tab}) = Split(j, {Tab}) \o Split(c, {Tab})
  BY <1>6, <1>7, <1>10, Zenon
<1>12. (<<a>> \o <<b>>) \o <<c>> = <<a, b, c>>
  <2>1. <<a>> \o <<b>> = <<a, b>> /\ <<a, b>> \o <<c>> = <<a, b, c>>
    BY Threes
  <2> QED
    BY <2>1, Zenon
<1>13. Split(ResponseLine(v), {Tab}) = <<a, b, c>>
  BY <1>7, <1>8, <1>11, <1>12, Zenon
<1> QED
  BY <1>4, <1>7, <1>13, Zenon DEF L, a, b, c

-----------------------------------------------------------------------------
(* The answers. *)

AnswersType ==
  /\ said \in Seq(Verdicts)
  /\ down \in Seq(Signs \ {CR})
  /\ half \in Seq(Signs \ LineEnds)
  /\ heard \in Seq(Seq(Seq(Signs)))

LEMMA AnswerLineType ==
  ASSUME NEW v \in Verdicts
  PROVE  ResponseLine(v) \in Seq(Signs \ {CR}) /\ ResponseLine(v) \in Seq(Signs \ {LF})
<1>1. Signs \ LineEnds \subseteq Signs \ {CR} /\ Signs \ LineEnds \subseteq Signs \ {LF}
  BY DEF LineEnds
<1>2. ResponseLine(v) \in Seq(Signs \ LineEnds)
  BY AnswerLine
<1> QED
  BY <1>1, <1>2, Widen

LEMMA AnswersTyped == Spec => []AnswersType
<1>1. Init => AnswersType
  BY DEF Init, AnswersType
<1>2. AnswersType /\ [Next]_vars => AnswersType'
  <2> SUFFICES ASSUME AnswersType, [Next]_vars
               PROVE  AnswersType'
    OBVIOUS
  <2>1. CASE UNCHANGED answerVars
    BY <2>1 DEF AnswersType, answerVars
  <2>2. CASE WriteLine
    <3>1. PICK v \in Verdicts : /\ said' = Append(said, v)
                                /\ down' = down \o ResponseLine(v) \o <<LF>>
      BY <2>2 DEF WriteLine
    <3>2. ResponseLine(v) \in Seq(Signs \ {CR})
      BY AnswerLineType
    <3>3. <<LF>> \in Seq(Signs \ {CR})
      BY DEF Signs, LF, CR
    <3>4. down' \in Seq(Signs \ {CR})
      <4> DEFINE T == Signs \ {CR}
                 r == ResponseLine(v)
                 e == <<LF>>
      <4>1. down \in Seq(T) /\ r \in Seq(T) /\ e \in Seq(T)
        BY <3>2, <3>3 DEF AnswersType
      <4> HIDE DEF T, r, e
      <4>2. down \o r \o e \in Seq(T)
        BY <4>1
      <4> QED
        BY <3>1, <4>2 DEF T, r, e
    <3>5. said' \in Seq(Verdicts)
      BY <3>1 DEF AnswersType
    <3>6. UNCHANGED <<half, heard>>
      BY <2>2 DEF WriteLine
    <3> QED
      BY <3>4, <3>5, <3>6 DEF AnswersType
  <2>3. CASE HearCharacter
    <3>1. down # <<>> /\ down' = Tail(down) /\ said' = said
      BY <2>3 DEF HearCharacter
    <3>2. down' \in Seq(Signs \ {CR}) /\ Head(down) \in Signs \ {CR}
      BY <3>1, HeadTailProperties DEF AnswersType
    <3>3. CASE /\ Head(down) \in LineEnds
               /\ heard' = Append(heard, Split(half, {Tab}))
               /\ half' = <<>>
      <4>1. Split(half, {Tab}) \in Seq(Seq(Signs))
        <5>1. half \in Seq(Signs)
          <6>1. Signs \ LineEnds \subseteq Signs
            OBVIOUS
          <6> QED
            BY <6>1, Widen DEF AnswersType
        <5> QED
          BY <5>1, SplitPieces
      <4> QED
        BY <3>1, <3>2, <3>3, <4>1 DEF AnswersType
    <3>4. CASE /\ Head(down) \notin LineEnds
               /\ half' = Append(half, Head(down))
               /\ UNCHANGED heard
      BY <3>1, <3>2, <3>4 DEF AnswersType
    <3> QED
      BY <2>3, <3>3, <3>4 DEF HearCharacter
  <2> QED
    BY <2>1, <2>2, <2>3, Zenon DEF Next, RequestNext, AnswerNext, SendLine, SendLastLine,
       CutOff, ReadCharacter, ReadEnd, vars
<1> QED
  BY <1>1, <1>2, PTL DEF Spec

LEMMA SignsHold == LF \in Signs
BY DEF Signs

LEMMA Narrow ==
  ASSUME AnswersType
  PROVE  /\ half \in Seq(Signs) /\ half \in Seq(Signs \ {LF}) /\ down \in Seq(Signs)
         /\ \A v \in Verdicts : ResponseLine(v) \in Seq(Signs)
<1>1. Signs \ LineEnds \subseteq Signs \ {LF} /\ Signs \ {LF} \subseteq Signs
      /\ Signs \ {CR} \subseteq Signs
  BY DEF LineEnds
<1>2. half \in Seq(Signs \ {LF}) /\ half \in Seq(Signs) /\ down \in Seq(Signs)
  BY <1>1, Widen DEF AnswersType
<1>3. ASSUME NEW v \in Verdicts
      PROVE  ResponseLine(v) \in Seq(Signs)
  BY <1>1, AnswerLineType, Widen
<1> QED
  BY <1>2, <1>3

(* Reader and writer stay in step: an answer that is written becomes the   *)
(* last of the lines on their way, and a line end is where the first of    *)
(* them is complete.                                                       *)
THEOREM AnswersKeepStep == Spec => []AnswersInStep
<1> DEFINE lines == Split(half \o down, {LF})
           T == Seq(Signs)
<1>1. Init => AnswersInStep
  <2> SUFFICES ASSUME Init
               PROVE  AnswersInStep
    OBVIOUS
  <2>1. half \o down = <<>> /\ Len(heard) = 0 /\ Len(said) = 0
    BY DEF Init
  <2>2. lines = << <<>> >>
    BY <2>1, SplitEmpty
  <2>3. Len(lines) = 1 /\ Last(lines) = <<>>
    <3>1. Len(lines) = 1 /\ lines[1] = <<>>
      BY <2>2
    <3> QED
      BY <3>1 DEF Last
  <2> QED
    BY <2>1, <2>3 DEF AnswersInStep
<1>2. AnswersInStep /\ AnswersType /\ AnswersType' /\ [Next]_vars => AnswersInStep'
  <2> SUFFICES ASSUME AnswersInStep, AnswersType, AnswersType', [Next]_vars
               PROVE  AnswersInStep'
    OBVIOUS
  <2> DEFINE n == Len(said)
             m == Len(heard)
             f == Front(lines)
  <2>1. /\ n \in Nat /\ m \in Nat /\ m <= n
        /\ Len(lines) = n - m + 1 /\ Last(lines) = <<>>
        /\ \A i \in 1 .. m : heard[i] = Split(ResponseLine(said[i]), {Tab})
        /\ \A i \in 1 .. n - m : lines[i] = ResponseLine(said[m + i])
    <3>1. n \in Nat /\ m \in Nat
      BY DEF AnswersType
    <3> QED
      BY <3>1, Zenon DEF AnswersInStep
  <2>2. half \o down \in T
    <3>1. half \in T /\ down \in T
      BY Narrow
    <3> QED
      BY <3>1
  <2>3. lines \in Seq(T) /\ f \in Seq(T) /\ lines = Append(f, <<>>)
    BY <2>1, <2>2, SplitPieces
  <2>4. CASE UNCHANGED answerVars
    BY <2>4 DEF AnswersInStep, answerVars
  <2>5. CASE WriteLine
    <3>1. PICK v \in Verdicts : /\ said' = Append(said, v)
                                /\ down' = down \o ResponseLine(v) \o <<LF>>
      BY <2>5 DEF WriteLine
    <3>2. heard' = heard /\ half' = half
      BY <2>5 DEF WriteLine
    <3> DEFINE r == ResponseLine(v)
               g == Append(f, r)
               q == Append(g, <<>>)
    <3>3. r \in T /\ <<>> \in T
      BY Narrow, EmptySeq
    <3>4. (lines)' = q
      <4>1. r \in Seq(Signs \ {LF}) /\ half \in T /\ down \in T
        BY Narrow, AnswerLineType
      <4>2. Split(half \o (down \o r \o <<LF>>), {LF}) = Append(Append(Front(lines), r), <<>>)
        <5>1. Last(Split(half \o down, {LF})) = <<>>
          BY <2>1
        <5> HIDE DEF r
        <5>2. r \in Seq(Signs \ {LF}) /\ half \in Seq(Signs) /\ down \in Seq(Signs)
          BY <4>1
        <5>3. Split(half \o Ended(down, r), {LF}) = Ahead(lines, r)
          BY <5>1, <5>2, SignsHold, LineWritten
        <5> QED
          BY <5>3, Zenon DEF Ended, Ahead
      <4> QED
        BY <3>1, <3>2, <4>2, Zenon
    <3>5. /\ Len(said') = n + 1 /\ said'[n + 1] = v
          /\ \A i \in 1 .. n : said'[i] = said[i]
      <4>1. said \in Seq(Verdicts)
        BY DEF AnswersType
      <4> QED
        BY <3>1, <4>1, AppendProperties
    <3> HIDE DEF T, lines, f, r, n, m
    <3>6. Len(f) = n - m /\ \A i \in 1 .. n - m : f[i] = lines[i]
      <4>1. Len(lines) = Len(f) + 1 /\ \A i \in 1 .. Len(f) : lines[i] = f[i]
        BY <2>3, <3>3, AppendProperties
      <4>2. Len(f) \in Nat
        BY <2>3
      <4>3. Len(f) = n - m
        BY <2>1, <4>1, <4>2
      <4> QED
        BY <4>1, <4>3
    <3>7. /\ g \in Seq(T) /\ Len(g) = n - m + 1 /\ g[n - m + 1] = r
          /\ \A i \in 1 .. n - m : g[i] = f[i]
      BY <2>3, <3>3, <3>6, AppendProperties
    <3> HIDE DEF g
    <3>8. /\ Len(q) = n - m + 2 /\ Last(q) = <<>>
          /\ \A i \in 1 .. n - m + 1 : q[i] = g[i]
      <4>1. Len(q) = Len(g) + 1 /\ \A i \in 1 .. Len(g) : q[i] = g[i]
        BY <3>3, <3>7, AppendProperties
      <4>2. Last(q) = <<>>
        BY <3>3, <3>7, FrontAppend
      <4> HIDE DEF q
      <4> QED
        BY <2>1, <3>7, <4>1, <4>2
    <3> HIDE DEF q
    <3>9. \A i \in 1 .. m : heard'[i] = Split(ResponseLine(said'[i]), {Tab})
      <4>1. \A i \in 1 .. m : i \in 1 .. n
        BY <2>1
      <4> QED
        BY <2>1, <3>2, <3>5, <4>1
    <3>10. \A i \in 1 .. n + 1 - m : q[i] = ResponseLine(said'[m + i])
      <4> TAKE i \in 1 .. n + 1 - m
      <4>1. i \in 1 .. n - m + 1
        BY <2>1
      <4>2. CASE i = n - m + 1
        <5>1. m + i = n + 1
          BY <2>1, <4>2
        <5> QED
          BY <3>5, <3>7, <3>8, <4>1, <4>2, <5>1 DEF r
      <4>3. CASE i # n - m + 1
        <5>1. i \in 1 .. n - m /\ m + i \in 1 .. n
          BY <2>1, <4>1, <4>3
        <5> QED
          BY <2>1, <3>5, <3>6, <3>7, <3>8, <4>1, <5>1
      <4> QED
        BY <4>2, <4>3
    <3>11. m <= n + 1 /\ Len(q) = n + 1 - m + 1
      BY <2>1, <3>8
    <3>12. Len(heard') = m
      BY <3>2 DEF m
    <3>13. /\ Len(heard') <= Len(said')
           /\ Len(q) = Len(said') - Len(heard') + 1
           /\ Last(q) = <<>>
           /\ \A i \in 1 .. Len(heard') : heard'[i] = Split(ResponseLine(said'[i]), {Tab})
           /\ \A i \in 1 .. Len(said') - Len(heard') :
                q[i] = ResponseLine(said'[Len(heard') + i])
      <4>1. Len(heard') = m /\ Len(said') = n + 1 /\ n \in Nat /\ m \in Nat
        BY <2>1, <3>5, <3>12
      <4>2. m <= n + 1 /\ Len(q) = n + 1 - m + 1 /\ Last(q) = <<>>
        BY <3>8, <3>11
      <4>3. /\ Len(heard') <= Len(said')
            /\ Len(q) = Len(said') - Len(heard') + 1
        BY <4>1, <4>2
      <4>4. \A i \in 1 .. Len(heard') : heard'[i] = Split(ResponseLine(said'[i]), {Tab})
        BY <3>9, <4>1
      <4>5. \A i \in 1 .. Len(said') - Len(heard') :
              q[i] = ResponseLine(said'[Len(heard') + i])
        BY <3>10, <4>1
      <4> QED
        BY <4>2, <4>3, <4>4, <4>5, Zenon
    <3> QED
      BY <3>4, <3>13, Zenon DEF AnswersInStep, lines
  <2>6. CASE HearCharacter
    <3>1. /\ down # <<>> /\ down' = Tail(down) /\ said' = said
      BY <2>6 DEF HearCharacter
    <3>2. half \in Seq(Signs \ {LF}) /\ down \in Seq(Signs)
      BY Narrow
    <3>3. CASE /\ Head(down) \in LineEnds
               /\ heard' = Append(heard, Split(half, {Tab}))
               /\ half' = <<>>
      <4> DEFINE t == Tail(down)
                 q == Split(t, {LF})
                 b == <<half>>
      <4>1. t \in T /\ Head(down) = LF
        <5>1. t \in T
          BY <3>1, <3>2, HeadTailProperties
        <5>2. Head(down) \in Signs \ {CR}
          BY <3>1, HeadTailProperties DEF AnswersType
        <5> QED
          BY <3>3, <5>1, <5>2 DEF LineEnds
      <4>2. lines = b \o q
        BY <3>1, <3>2, <4>1, SignsHold, LineRead
      <4>3. q \in Seq(T) /\ Len(q) \in Nat \ {0} /\ Last(q) \in T
            /\ q = Append(Front(q), Last(q)) /\ Front(q) \in Seq(T)
        <5>1. q \in Seq(T) /\ Last(q) \in T /\ q = Append(Front(q), Last(q)) /\ Front(q) \in Seq(T)
          BY <4>1, SplitPieces
        <5>2. q # <<>>
          BY <4>1, SplitType
        <5> HIDE DEF q, T
        <5> QED
          BY <5>1, <5>2, EmptySeq
      <4>4. (lines)' = q
        <5>1. <<>> \o t = t
          BY <4>1, ConcatEmptySeq
        <5> QED
          BY <3>1, <3>3, <5>1
      <4>5. b \in Seq(T) /\ Len(b) = 1 /\ b[1] = half
        BY Narrow
      <4>6. /\ Len(heard') = m + 1 /\ heard'[m + 1] = Split(half, {Tab})
            /\ \A i \in 1 .. m : heard'[i] = heard[i]
        <5>1. heard \in Seq(Seq(T)) /\ Split(half, {Tab}) \in Seq(T)
          BY Narrow, SplitPieces DEF AnswersType
        <5> HIDE DEF T
        <5> QED
          BY <3>3, <5>1, AppendProperties
      <4> HIDE DEF T, lines, f, n, m, q, b
      <4>7. /\ Len(lines) = Len(b) + Len(q)
            /\ \A i \in 1 .. Len(b) + Len(q) :
                 lines[i] = IF i <= Len(b) THEN b[i] ELSE q[i - Len(b)]
        BY <4>2, <4>3, <4>5, ConcatProperties
      <4>8. /\ m + 1 <= n /\ Len(q) = n - (m + 1) + 1 /\ half = ResponseLine(said[m + 1])
        <5>1. Len(q) = n - m /\ 1 \in 1 .. n - m
          <6>1. Len(q) \in Nat \ {0} /\ Len(b) = 1 /\ Len(lines) = Len(b) + Len(q)
            BY <4>3, <4>5, <4>7, Zenon
          <6>2. n \in Nat /\ m \in Nat /\ Len(lines) = n - m + 1
            BY <2>1
          <6> QED
            BY <6>1, <6>2
        <5>2. lines[1] = half
          BY <4>3, <4>5, <4>7
        <5> QED
          BY <2>1, <5>1, <5>2
      <4>9. Last(q) = <<>>
        <5>1. b \o Append(Front(q), Last(q)) = Append(b \o Front(q), Last(q))
          BY <4>3, <4>5, AppendConcat
        <5>2. b \o Front(q) \in Seq(T)
          BY <4>3, <4>5, ConcatProperties
        <5>3. Last(Append(b \o Front(q), Last(q))) = Last(q)
          BY <4>3, <5>2, FrontAppend
        <5>4. lines = Append(b \o Front(q), Last(q))
          BY <4>2, <4>3, <5>1, Zenon
        <5> QED
          BY <2>1, <5>3, <5>4, Zenon
      <4>10. \A i \in 1 .. m + 1 : heard'[i] = Split(ResponseLine(said[i]), {Tab})
        <5> TAKE i \in 1 .. m + 1
        <5>1. i = m + 1 \/ i \in 1 .. m
          BY <2>1
        <5> QED
          BY <2>1, <4>6, <4>8, <5>1
      <4>11. \A i \in 1 .. n - (m + 1) : q[i] = ResponseLine(said[m + 1 + i])
        <5> TAKE i \in 1 .. n - (m + 1)
        <5>1. i + 1 \in 1 .. n - m /\ i + 1 \in 1 .. 1 + Len(q) /\ ~(i + 1 <= 1) /\ (i + 1) - 1 = i
              /\ m + (i + 1) = m + 1 + i
          BY <2>1, <4>8
        <5>2. lines[i + 1] = q[i]
          BY <4>5, <4>7, <5>1
        <5> QED
          BY <2>1, <5>1, <5>2
      <4>12. Len(said') = n /\ said' = said
        BY <3>1 DEF n
      <4> QED
        BY <4>4, <4>6, <4>8, <4>9, <4>10, <4>11, <4>12 DEF AnswersInStep, lines
    <3>4. CASE /\ Head(down) \notin LineEnds
               /\ half' = Append(half, Head(down))
               /\ UNCHANGED heard
      <4>1. (half \o down)' = half \o down
        BY <3>1, <3>2, <3>4, SignsHold, LineRead
      <4> QED
        BY <3>1, <3>4, <4>1 DEF AnswersInStep
    <3> QED
      BY <2>6, <3>3, <3>4 DEF HearCharacter
  <2> QED
    BY <2>4, <2>5, <2>6, Zenon DEF Next, RequestNext, AnswerNext, SendLine, SendLastLine,
       CutOff, ReadCharacter, ReadEnd, vars
<1> QED
  BY <1>1, <1>2, AnswersTyped, PTL DEF Spec

(* Every answer is heard as one line of its three fields, and what can be  *)
(* seen of the detail is in the third.                                     *)
THEOREM AnswersReadAsSaid == Spec => []AnswersReadBack
<1>1. AnswersInStep /\ AnswersType => AnswersReadBack
  <2> SUFFICES ASSUME AnswersInStep, AnswersType
               PROVE  AnswersReadBack
    OBVIOUS
  <2>1. said \in Seq(Verdicts) /\ heard \in Seq(Seq(Seq(Signs)))
    BY DEF AnswersType
  <2>2. /\ Len(heard) <= Len(said)
        /\ \A i \in 1 .. Len(heard) : heard[i] = Split(ResponseLine(said[i]), {Tab})
    BY DEF AnswersInStep
  <2>3. ASSUME NEW i \in DOMAIN heard
        PROVE  /\ i \in DOMAIN said
               /\ Len(heard[i]) = 3
               /\ heard[i][1] = <<Word(said[i])>>
               /\ heard[i][2] = <<said[i].bucket>>
               /\ Ink(heard[i][3]) = Ink(said[i].detail)
    <3>1. i \in 1 .. Len(heard) /\ i \in 1 .. Len(said) /\ i \in DOMAIN said
      BY <2>1, <2>2, LenProperties
    <3> DEFINE v == said[i]
    <3>2. v \in Verdicts
      BY <2>1, <3>1
    <3> HIDE DEF v
    <3>3. /\ Split(ResponseLine(v), {Tab}) = << <<Word(v)>>, <<v.bucket>>, Flatten(v.detail) >>
          /\ Ink(Flatten(v.detail)) = Ink(v.detail)
      BY <3>2, AnswerLine
    <3>4. heard[i] = << <<Word(v)>>, <<v.bucket>>, Flatten(v.detail) >>
      BY <2>2, <3>1, <3>3, Zenon DEF v
    <3> DEFINE b == v.bucket
               w == Word(v)
               c == Flatten(v.detail)
    <3>5. heard[i] = << <<w>>, <<b>>, c >>
      BY <3>4
    <3> HIDE DEF b, w, c
    <3>6. Len(heard[i]) = 3 /\ heard[i][1] = <<w>> /\ heard[i][2] = <<b>> /\ heard[i][3] = c
      BY <3>5
    <3> QED
      BY <3>1, <3>3, <3>6, Zenon DEF v, b, w, c
  <2>4. ASSUME down = <<>>
        PROVE  Len(heard) = Len(said)
    <3>1. half \in Seq(Signs \ {LF}) /\ half \o <<>> = half
      BY Narrow, ConcatEmptySeq
    <3>2. Split(half, {LF}) = <<half>>
      BY <3>1, SplitPlain
    <3>3. Len(Split(half \o down, {LF})) = 1
      BY <2>4, <3>1, <3>2
    <3>4. Len(Split(half \o down, {LF})) = Len(said) - Len(heard) + 1
      BY Zenon DEF AnswersInStep
    <3>5. Len(said) \in Nat /\ Len(heard) \in Nat
      BY <2>1
    <3> DEFINE k == Len(Split(half \o down, {LF}))
    <3>6. k = 1 /\ k = Len(said) - Len(heard) + 1
      BY <3>3, <3>4
    <3> HIDE DEF k
    <3> QED
      BY <3>5, <3>6
  <2> QED
    BY <2>3, <2>4, Zenon DEF AnswersReadBack, Word
<1> QED
  BY <1>1, AnswersTyped, AnswersKeepStep, PTL

-----------------------------------------------------------------------------
(* Beginnings of texts. *)

LEMMA Greatest ==
  ASSUME NEW n \in Nat, NEW T, T \subseteq 0 .. n, 0 \in T
  PROVE  Max(T) \in T /\ \A x \in T : x <= Max(T)
<1> DEFINE U == {n - x : x \in T}
<1>1. U \subseteq Nat /\ n - 0 \in U
  OBVIOUS
<1>2. PICK u \in U : \A y \in U : u <= y
  BY <1>1, Least
<1>3. PICK m \in T : u = n - m
  BY <1>2
<1>4. ASSUME NEW x \in T
      PROVE  m >= x
  <2>1. n - x \in U /\ x \in Nat /\ m \in Nat
    OBVIOUS
  <2>2. n - m <= n - x
    BY <1>2, <1>3, <2>1
  <2> QED
    BY <2>1, <2>2
<1>5. Max(T) = CHOOSE x \in T : \A y \in T : x >= y
  BY DEF Max
<1>6. Max(T) \in T /\ \A y \in T : Max(T) >= y
  BY <1>3, <1>4, <1>5, Zenon
<1> HIDE DEF U
<1>7. \A x \in T : x \in Int
  OBVIOUS
<1>8. ASSUME NEW M \in T, \A y \in T : M >= y
      PROVE  \A x \in T : x <= M
  BY <1>7, <1>8
<1> QED
  BY <1>6, <1>8

(* TrimEnd takes the line ends from the end of a text, and nothing else. *)
Trimmed(s, k) ==
  /\ TrimEnd(s) = SubSeq(s, 1, k)
  /\ k = 0 \/ s[k] \notin LineEnds
  /\ \A i \in k + 1 .. Len(s) : s[i] \in LineEnds

LEMMA TrimEndIs ==
  ASSUME NEW S, NEW s \in Seq(S)
  PROVE  \E k \in 0 .. Len(s) : Trimmed(s, k)
<1> DEFINE T == {0} \cup {i \in DOMAIN s : s[i] \notin LineEnds}
           m == Max(T)
<1>1. DOMAIN s = 1 .. Len(s) /\ Len(s) \in Nat
  OBVIOUS
<1>2. T \subseteq 0 .. Len(s) /\ 0 \in T
  BY <1>1
<1>3. m \in T /\ \A x \in T : x <= m
  <2> HIDE DEF T
  <2> QED
    BY <1>1, <1>2, Greatest
<1>4. TrimEnd(s) = SubSeq(s, 1, m)
  BY Zenon DEF TrimEnd
<1> HIDE DEF m
<1>5. m \in 0 .. Len(s) /\ (m = 0 \/ s[m] \notin LineEnds)
  BY <1>2, <1>3
<1>6. ASSUME NEW i \in m + 1 .. Len(s)
      PROVE  s[i] \in LineEnds
  <2>1. i \in 1 .. Len(s) /\ ~(i <= m)
    BY <1>1, <1>5
  <2> QED
    BY <1>1, <1>3, <2>1
<1> QED
  BY <1>4, <1>5, <1>6 DEF Trimmed

Begins(s, t, S) == \E v \in Seq(S) : t = s \o v

LEMMA Rest ==
  ASSUME NEW S, NEW s \in Seq(S), NEW k \in 0 .. Len(s)
  PROVE  /\ SubSeq(s, 1, k) \in Seq(S) /\ Len(SubSeq(s, 1, k)) = k
         /\ Begins(SubSeq(s, 1, k), s, S)
<1>1. SubSeq(s, 1, k) \in Seq(S) /\ Len(SubSeq(s, 1, k)) = k
  BY Beginning
<1> DEFINE v == SubSeq(s, k + 1, Len(s))
<1>2. v \in Seq(S)
  <2>1. k + 1 \in Int /\ Len(s) \in Int /\ \A i \in k + 1 .. Len(s) : s[i] \in S
    OBVIOUS
  <2> QED
    BY <2>1, SubSeqProperties
<1>3. SubSeq(s, 1, k) \o v = s
  <2>1. 1 \in 1 .. Len(s) + 1 /\ k \in 1 - 1 .. Len(s) /\ Len(s) \in k .. Len(s)
    OBVIOUS
  <2>2. SubSeq(s, 1, k) \o v = SubSeq(s, 1, Len(s))
    BY <2>1, ConcatAdjacentSubSeq
  <2>3. SubSeq(s, 1, Len(s)) = s
    BY SubSeqFull
  <2> QED
    BY <2>2, <2>3, Zenon
<1>4. Begins(SubSeq(s, 1, k), s, S)
  BY <1>2, <1>3, Zenon DEF Begins
<1> QED
  BY <1>1, <1>4

LEMMA BeginsWith ==
  ASSUME NEW S, NEW s \in Seq(S), NEW v \in Seq(S)
  PROVE  /\ IsPrefix(s, s \o v) /\ Len(s) <= Len(s \o v) /\ s \o v \in Seq(S)
         /\ \A i \in 1 .. Len(s) : (s \o v)[i] = s[i]
<1> DEFINE t == s \o v
<1>1. /\ t \in Seq(S) /\ Len(t) = Len(s) + Len(v) /\ Len(s) \in Nat /\ Len(v) \in Nat
      /\ \A i \in 1 .. Len(s) : t[i] = s[i]
  OBVIOUS
<1> HIDE DEF t
<1> DEFINE b == SubSeq(t, 1, Len(s))
<1>2. b \in Seq(S) /\ Len(b) = Len(s) /\ \A i \in 1 .. Len(s) : b[i] = t[i]
  <2>1. Len(s) \in 0 .. Len(t)
    BY <1>1
  <2> QED
    BY <1>1, <2>1, Beginning
<1> HIDE DEF b
<1>3. b = s
  BY <1>1, <1>2, SeqEqual
<1>4. SubSeq(s, 1, Len(s)) = s
  BY SubSeqFull
<1>5. Len(s) <= Len(t)
  BY <1>1
<1>6. IsPrefix(s, t)
  BY <1>3, <1>4, <1>5, Zenon DEF IsPrefix, b
<1> QED
  BY <1>1, <1>5, <1>6 DEF t

LEMMA BeginningIs ==
  ASSUME NEW S, NEW s \in Seq(S), NEW t \in Seq(S), IsPrefix(s, t)
  PROVE  Len(s) \in 0 .. Len(t) /\ s = SubSeq(t, 1, Len(s))
<1>1. SubSeq(s, 1, Len(s)) = s
  BY SubSeqFull
<1>2. Len(s) <= Len(t) /\ SubSeq(s, 1, Len(s)) = SubSeq(t, 1, Len(s))
  BY Zenon DEF IsPrefix
<1> QED
  BY <1>1, <1>2

(* The pieces p, with text and pieces behind them. *)
Continued(p, w, g) == Lengthened(p, w) \o g

Extends(q, p, S) == \E w \in Seq(S), g \in Seq(Seq(S)) : q = Continued(p, w, g)

(* The pieces of a beginning are those of the whole, but for the last.     *)
LEMMA SplitBegins ==
  ASSUME NEW S, NEW seps, NEW s \in Seq(S), NEW whole \in Seq(S), Begins(s, whole, S)
  PROVE  Extends(Split(whole, seps), Split(s, seps), S)
<1>0. PICK t \in Seq(S) : whole = s \o t
  BY DEF Begins
<1> DEFINE p == Split(s, seps)
           T == Seq(S)
           Good == {u \in T : \E w \in T, g \in Seq(T) :
                               Split(s \o u, seps) = Continued(p, w, g)}
<1>1. p \in Seq(T) /\ Front(p) \in Seq(T) /\ Last(p) \in T /\ p = Append(Front(p), Last(p))
  BY SplitPieces
<1>2. \A w \in T : Lengthened(p, w) \in Seq(T)
  <2> TAKE w \in T
  <2> DEFINE m == Last(p) \o w
  <2> HIDE DEF p
  <2>1. m \in T
    BY <1>1
  <2> HIDE DEF m, T
  <2>2. Append(Front(p), m) \in Seq(T)
    BY <1>1, <2>1, AppendProperties
  <2> QED
    BY <2>2, Zenon DEF m, Lengthened
<1> HIDE DEF p
<1>3. <<>> \in Good
  <2>1. s \o <<>> = s /\ Last(p) \o <<>> = Last(p) /\ <<>> \in T /\ <<>> \in Seq(T)
    BY <1>1, ConcatEmptySeq, EmptySeq
  <2>2. Lengthened(p, <<>>) = p
    BY <1>1, <2>1, Zenon DEF Lengthened
  <2>3. p \o <<>> = p
    BY <1>1, ConcatEmptySeq
  <2>4. Split(s \o <<>>, seps) = Continued(p, <<>>, <<>>)
    BY <2>1, <2>2, <2>3, Zenon DEF Continued, p
  <2> QED
    BY <2>1, <2>4
<1>4. ASSUME NEW u \in Good, NEW x \in S
      PROVE  Append(u, x) \in Good
  <2> DEFINE v == s \o u
  <2>1. u \in T /\ Append(u, x) \in T
    OBVIOUS
  <2>2. v \in T /\ s \o Append(u, x) = Append(v, x)
    BY <2>1, AppendConcat
  <2>3. PICK w \in T, g \in Seq(T) : Split(v, seps) = Continued(p, w, g)
    OBVIOUS
  <2> HIDE DEF v
  <2> DEFINE q == Lengthened(p, w)
  <2>4. q \in Seq(T) /\ Split(v, seps) = q \o g
    BY <1>2, <2>3 DEF Continued
  <2>5. Split(Append(v, x), seps) = Divided(q \o g, x, seps)
    BY <2>2, <2>4, SplitAppend
  <2>6. \E y \in T, h \in Seq(T) : Divided(q \o g, x, seps) = Continued(p, y, h)
    <3>1. CASE x \in seps
      <4>1. <<>> \in T
        BY EmptySeq
      <4>2. Append(g, <<>>) \in Seq(T) /\ q \o Append(g, <<>>) = Append(q \o g, <<>>)
        <5> HIDE DEF T, q
        <5> QED
          BY <2>4, <4>1, AppendConcat, AppendProperties
      <4>3. Divided(q \o g, x, seps) = Continued(p, w, Append(g, <<>>))
        BY <3>1, <4>2, Zenon DEF Divided, Continued
      <4> QED
        BY <4>2, <4>3
    <3>2. CASE x \notin seps /\ g = <<>>
      <4> DEFINE y == Append(w, x)
                 l == Last(p)
                 f == Front(p)
      <4>1. y \in T
        OBVIOUS
      <4>2. q \o g = q
        BY <2>4, <3>2, ConcatEmptySeq
      <4>3. l \o y = Append(l \o w, x) /\ l \o w \in T /\ l \o y \in T
        <5>1. l \in T
          BY <1>1
        <5> HIDE DEF l
        <5>2. l \o y = Append(l \o w, x)
          <6>1. l \in Seq(S) /\ w \in Seq(S)
            BY <5>1
          <6> HIDE DEF T
          <6>2. l \o Append(w, x) = Append(l \o w, x)
            BY <6>1, AppendConcat
          <6> QED
            BY <6>2, Zenon
        <5> HIDE DEF y
        <5>3. l \o w \in T /\ l \o y \in T
          BY <4>1, <5>1
        <5> QED
          BY <5>2, <5>3
      <4>4. Front(q) = f /\ Last(q) = l \o w
        <5> DEFINE z == l \o w
        <5>1. z \in T /\ f \in Seq(T)
          BY <1>1, <4>3
        <5> HIDE DEF z, f, T
        <5>2. Front(Append(f, z)) = f /\ Last(Append(f, z)) = z
          BY <5>1, FrontAppend
        <5> QED
          BY <5>2, Zenon DEF Lengthened, z, f
      <4>5. Divided(q, x, seps) = Lengthened(p, y)
        BY <3>2, <4>3, <4>4, Zenon DEF Divided, Lengthened
      <4>6. Lengthened(p, y) \o <<>> = Lengthened(p, y)
        BY <1>2, <4>1, ConcatEmptySeq
      <4>7. Divided(q \o g, x, seps) = Continued(p, y, <<>>)
        BY <4>2, <4>5, <4>6, Zenon DEF Continued
      <4> QED
        BY <4>1, <4>7, EmptySeq
    <3>3. CASE x \notin seps /\ g # <<>>
      <4> DEFINE a == Front(g)
                 l == Last(g)
                 b == q \o a
                 m == Append(l, x)
                 h == Append(a, m)
      <4>1. a \in Seq(T) /\ l \in T /\ g = Append(a, l)
        BY <3>3, LastFront
      <4>2. m \in T
        BY <4>1
      <4> HIDE DEF T, q, a, l, m
      <4>3. b \in Seq(T) /\ q \o g = Append(b, l)
        BY <2>4, <4>1, AppendConcat
      <4>4. q \o h = Append(b, m) /\ h \in Seq(T)
        BY <2>4, <4>1, <4>2, AppendConcat, AppendProperties
      <4> HIDE DEF b, h
      <4>5. Front(q \o g) = b /\ Last(q \o g) = l
        BY <4>1, <4>3, FrontAppend
      <4>6. Divided(q \o g, x, seps) = q \o h
        BY <3>3, <4>4, <4>5, Zenon DEF Divided, m
      <4>7. Divided(q \o g, x, seps) = Continued(p, w, h)
        BY <4>6, Zenon DEF Continued, q
      <4> QED
        BY <4>4, <4>7
    <3> QED
      BY <3>1, <3>2, <3>3
  <2>7. \E y \in T, h \in Seq(T) : Split(s \o Append(u, x), seps) = Continued(p, y, h)
    BY <2>2, <2>5, <2>6, Zenon
  <2> QED
    BY <2>1, <2>7
<1>5. \A k \in 1 .. Len(t) : SubSeq(t, 1, k - 1) \in Good =>
                              Append(SubSeq(t, 1, k - 1), t[k]) \in Good
  BY <1>4, ElementOfSeq
<1> HIDE DEF Good
<1>6. t \in Good
  BY <1>3, <1>5, Growing, Zenon
<1>7. Extends(Split(s \o t, seps), p, S)
  BY <1>6, Zenon DEF Good, Extends, T
<1> QED
  BY <1>0, <1>7, Zenon DEF p

-----------------------------------------------------------------------------
(* Words and lines of requests. *)

LEMMA WordsConcat ==
  ASSUME NEW S, NEW f \in Seq(Seq(S)), NEW g \in Seq(Seq(S))
  PROVE  Words(f \o g) = Words(f) \o Words(g)
<1> DEFINE T == Seq(S)
           a == Words(f)
           Good == {h \in Seq(T) : Words(f \o h) = a \o Words(h)}
<1>1. a \in Seq(T)
  BY WordsType
<1>2. <<>> \in Good
  <2>1. f \o <<>> = f /\ a \o <<>> = a /\ <<>> \in Seq(T)
    <3> HIDE DEF a
    <3> QED
      BY <1>1, ConcatEmptySeq, EmptySeq
  <2>2. Words(f \o <<>>) = a \o Words(<<>>)
    BY <2>1, WordsEmpty, Zenon DEF a
  <2> QED
    BY <2>1, <2>2
<1> HIDE DEF a
<1>3. ASSUME NEW h \in Good, NEW x \in T
      PROVE  Append(h, x) \in Good
  <2> DEFINE v == f \o h
             b == Words(h)
  <2>1. h \in Seq(T) /\ Words(v) = a \o b /\ Append(h, x) \in Seq(T)
    OBVIOUS
  <2>2. v \in Seq(T) /\ f \o Append(h, x) = Append(v, x)
    <3>1. f \in Seq(T) /\ h \in Seq(T) /\ x \in T
      BY <2>1
    <3> HIDE DEF T, Good
    <3>2. f \o Append(h, x) = Append(f \o h, x)
      BY <3>1, AppendConcat
    <3>3. f \o h \in Seq(T)
      BY <3>1, ConcatProperties
    <3> QED
      BY <3>2, <3>3, Zenon
  <2>3. b \in Seq(T)
    BY <2>1, WordsType
  <2> HIDE DEF v, b
  <2>4. Words(Append(v, x)) = Worded(a \o b, x)
    BY <2>1, <2>2, WordsAppend
  <2>5. Words(Append(h, x)) = Worded(b, x)
    BY <2>1, WordsAppend DEF b
  <2> HIDE DEF T
  <2>6. a \o Append(b, x) = Append(a \o b, x)
    BY <1>1, <2>3, AppendConcat
  <2>7. a \o Worded(b, x) = Worded(a \o b, x)
    BY <2>6, Zenon DEF Worded
  <2>8. Words(f \o Append(h, x)) = a \o Words(Append(h, x))
    BY <2>2, <2>4, <2>5, <2>7, Zenon
  <2> QED
    BY <2>1, <2>8
<1>4. \A k \in 1 .. Len(g) : SubSeq(g, 1, k - 1) \in Good =>
                              Append(SubSeq(g, 1, k - 1), g[k]) \in Good
  BY <1>3, ElementOfSeq
<1> HIDE DEF Good
<1>5. g \in Good
  BY <1>2, <1>4, Growing, Zenon
<1> QED
  BY <1>5 DEF Good, a

LEMMA WordsOne ==
  ASSUME NEW S, NEW l \in Seq(S)
  PROVE  Words(<<l>>) = IF l = <<>> THEN <<>> ELSE <<l>>
<1>1. PICK e \in Seq(Seq(S)) : e = <<>>
  BY Nothing
<1>2. Words(Append(e, l)) = Worded(Words(e), l)
  BY WordsAppend
<1>3. Append(<<>>, l) = <<l>>
  OBVIOUS
<1> QED
  BY <1>1, <1>2, <1>3, WordsEmpty, Zenon DEF Worded

(* Splitting undoes joining. *)
LEMMA SplitJoin ==
  ASSUME NEW S, NEW sep \in S, NEW ps \in Seq(Seq(S \ {sep})), ps # <<>>
  PROVE  Split(Join(ps, sep), {sep}) = ps
<1> DEFINE R == Seq(S \ {sep})
           seps == {sep}
           Good == {u \in Seq(R) : u # <<>> => Split(Join(u, sep), seps) = u}
<1>1. sep \in S \cap seps /\ R = Seq(S \ seps)
  OBVIOUS
<1>2. R \subseteq Seq(S)
  <2>1. ASSUME NEW t \in R
        PROVE  t \in Seq(S)
    <3>1. S \ {sep} \subseteq S
      OBVIOUS
    <3>2. t \in Seq(S \ {sep})
      OBVIOUS
    <3> HIDE DEF R
    <3> QED
      BY <3>1, <3>2, Widen
  <2> QED
    BY <2>1
<1>3. <<>> \in Good
  OBVIOUS
<1> HIDE DEF seps
<1>4. ASSUME NEW u \in Good, NEW x \in R
      PROVE  Append(u, x) \in Good
  <2> DEFINE j == Join(u, sep)
             k == Len(u) + 1
  <2>1. u \in Seq(R) /\ (u # <<>> => Split(j, seps) = u) /\ Append(u, x) \in Seq(R)
    OBVIOUS
  <2> HIDE DEF Good
  <2>2. u \in Seq(Seq(S)) /\ x \in Seq(S)
    <3> HIDE DEF R
    <3> QED
      BY <1>2, <2>1, Widen
  <2>3. j \in Seq(S)
    BY <2>2, JoinType
  <2>4. Join(Append(u, x), sep) = Glued(j, k, x, sep)
    BY <2>2, JoinAppend
  <2>5. Split(x, seps) = <<x>>
    BY <1>1, SplitPlain
  <2>6. Split(Join(Append(u, x), sep), seps) = Append(u, x)
    <3>1. CASE u = <<>>
      <4>1. k = 1 /\ j = <<>>
        BY <3>1, JoinEmpty
      <4>2. Glued(<<>>, 1, x, sep) = <<>> \o <<>> \o x
        BY DEF Glued
      <4>3. <<>> \o <<>> \o x = x /\ Append(<<>>, x) = <<x>>
        BY <2>2, ConcatEmptySeq
      <4> QED
        BY <2>4, <2>5, <3>1, <4>1, <4>2, <4>3, Zenon
    <3>2. CASE u # <<>>
      <4>1. k # 1
        BY <2>1, <3>2, EmptySeq
      <4>2. j \o <<sep>> = Append(j, sep)
        BY <2>3, AppendIsConcat
      <4>3. Glued(j, k, x, sep) = Cut(j, sep, x)
        BY <4>1, <4>2, Zenon DEF Glued, Cut
      <4> HIDE DEF j
      <4>4. Split(Cut(j, sep, x), seps) = Split(j, seps) \o Split(x, seps)
        BY <1>1, <2>2, <2>3, SplitCut
      <4>5. u \o <<x>> = Append(u, x)
        <5> HIDE DEF R
        <5> QED
          BY <2>1, AppendIsConcat
      <4> QED
        BY <2>1, <2>4, <2>5, <3>2, <4>3, <4>4, <4>5, Zenon
    <3> QED
      BY <3>1, <3>2
  <2> QED
    BY <2>1, <2>6, Zenon DEF Good
<1>5. ps \in Seq(R)
  OBVIOUS
<1>6. \A k \in 1 .. Len(ps) : SubSeq(ps, 1, k - 1) \in Good =>
                               Append(SubSeq(ps, 1, k - 1), ps[k]) \in Good
  <2>1. \A k \in 1 .. Len(ps) : ps[k] \in R
    BY <1>5, ElementOfSeq
  <2> QED
    BY <1>4, <2>1
<1> HIDE DEF Good, R
<1>7. ps \in Good
  BY <1>3, <1>5, <1>6, Growing, Zenon
<1> QED
  BY <1>7 DEF Good, seps

(* The characters of requests and their line ends. *)
Letters == Characters \cup {Tab, LF, CR}

LEMMA RequestFields ==
  ASSUME NEW r \in Requests
  PROVE  /\ r \in Seq(Seq((Letters \ {LF}) \ {Tab})) /\ Len(r) = Width /\ r # <<>>
         /\ Width \in Nat \ {0, 1}
         /\ r[Width] = <<>> \/ Last(r[Width]) # CR
<1>1. /\ r \in Seq(Seq(Characters \ {Tab, LF})) /\ Len(r) = Width /\ Width \in Nat \ {0, 1}
      /\ r[Width] = <<>> \/ Last(r[Width]) # CR
  BY WireAssumption
<1> DEFINE A == Characters \ {Tab, LF}
           B == (Letters \ {LF}) \ {Tab}
<1>2. A \subseteq B
  BY DEF Letters
<1> HIDE DEF A, B
<1>3. Seq(A) \subseteq Seq(B)
  BY <1>2, Widen
<1>4. r \in Seq(Seq(A))
  BY <1>1 DEF A
<1>5. r \in Seq(Seq(B))
  <2> DEFINE U == Seq(A)
             V == Seq(B)
  <2> HIDE DEF U, V
  <2>1. U \subseteq V /\ r \in Seq(U)
    BY <1>3, <1>4 DEF U, V
  <2> QED
    BY <2>1, Widen DEF V
<1>6. r # <<>>
  BY <1>1
<1> QED
  BY <1>1, <1>5, <1>6 DEF B

(* A request is one line that splits into its fields, and is not trimmed.  *)
LEMMA RequestLine ==
  ASSUME NEW r \in Requests
  PROVE  /\ Join(r, Tab) \in Seq(Letters \ {LF}) /\ Join(r, Tab) # <<>>
         /\ Split(Join(r, Tab), {Tab}) = r
         /\ Join(r, Tab)[Len(Join(r, Tab))] \notin LineEnds
<1> DEFINE L == Letters \ {LF}
           j == Join(r, Tab)
           W == Seq(L \ {Tab})
           T == Seq(L)
           f == Front(r)
           c == Last(r)
           a == Join(f, Tab)
           b == Append(a, Tab)
<1>1. r \in Seq(W) /\ Len(r) = Width /\ r # <<>> /\ Width \in Nat \ {0, 1}
      /\ (r[Width] = <<>> \/ Last(r[Width]) # CR)
  BY RequestFields
<1>2. Tab \in L
  BY DEF Letters, Tab, LF
<1>3. Split(j, {Tab}) = r
  <2> HIDE DEF L
  <2> QED
    BY <1>1, <1>2, SplitJoin
<1>4. W \subseteq T
  <2>1. L \ {Tab} \subseteq L
    OBVIOUS
  <2> HIDE DEF L
  <2> QED
    BY <2>1, Widen
<1>5. /\ f \in Seq(T) /\ Len(f) = Width - 1 /\ c \in T /\ r = Append(f, c) /\ r \in Seq(T)
  <2>1. r \in Seq(T)
    <3> HIDE DEF W, T
    <3> QED
      BY <1>1, <1>4, Widen
  <2> HIDE DEF W, T
  <2> QED
    BY <1>1, <2>1, LastFront
<1>6. c = r[Width]
  BY <1>1 DEF Last
<1> HIDE DEF f, c, L
<1>7. a \in T /\ j \in T
  BY <1>2, <1>5, JoinType
<1>8. j = Cut(a, Tab, c)
  <2>1. Join(Append(f, c), Tab) = Glued(a, Len(f) + 1, c, Tab)
    BY <1>2, <1>5, JoinAppend
  <2>2. Len(f) + 1 # 1
    BY <1>1, <1>5
  <2> HIDE DEF a
  <2>3. a \o <<Tab>> = Append(a, Tab)
    BY <1>2, <1>7, AppendIsConcat
  <2>4. Glued(a, Len(f) + 1, c, Tab) = Cut(a, Tab, c)
    BY <2>2, <2>3, Zenon DEF Glued, Cut
  <2> QED
    BY <1>5, <2>1, <2>4, Zenon
<1> HIDE DEF a
<1>9. b \in T /\ Len(b) = Len(a) + 1 /\ b[Len(b)] = Tab /\ Len(a) \in Nat
  BY <1>2, <1>7, AppendProperties
<1> HIDE DEF b, j
<1>10. j = b \o c /\ Len(j) = Len(b) + Len(c) /\ Len(c) \in Nat
  <2>1. j = b \o c
    BY <1>8, Zenon DEF Cut, b
  <2>2. b \in Seq(L) /\ c \in Seq(L)
    BY <1>5, <1>9
  <2>3. Len(b \o c) = Len(b) + Len(c)
    BY <2>2, ConcatProperties
  <2>4. Len(c) \in Nat
    BY <2>2
  <2> QED
    BY <2>1, <2>3, <2>4, Zenon
<1>11. j # <<>>
  BY <1>7, <1>9, <1>10
<1>12. j[Len(j)] \notin LineEnds
  <2>1. \A i \in 1 .. Len(b) + Len(c) : j[i] = IF i <= Len(b) THEN b[i] ELSE c[i - Len(b)]
    BY <1>5, <1>9, <1>10, ConcatProperties
  <2>2. CASE c = <<>>
    <3>1. Len(c) = 0
      BY <2>2
    <3>2. j[Len(j)] = Tab
      BY <1>9, <1>10, <2>1, <3>1
    <3> QED
      BY <3>2 DEF LineEnds, Tab, CR, LF
  <2>3. CASE c # <<>>
    <3>1. Len(c) \in Nat \ {0}
      BY <1>5, <2>3, EmptySeq
    <3>2. j[Len(j)] = c[Len(c)]
      <4>1. Len(j) \in 1 .. Len(b) + Len(c) /\ ~(Len(j) <= Len(b)) /\ Len(j) - Len(b) = Len(c)
        BY <1>9, <1>10, <3>1
      <4> QED
        BY <2>1, <4>1
    <3>3. c[Len(c)] # CR
      BY <1>1, <1>6, <2>3 DEF Last
    <3>4. c[Len(c)] \in L
      BY <1>5, <3>1
    <3> QED
      BY <3>2, <3>3, <3>4 DEF LineEnds, L
  <2> QED
    BY <2>2, <2>3
<1> QED
  BY <1>3, <1>7, <1>11, <1>12 DEF j, L

(* The line ends behind a request are trimmed, and the request is not.     *)
LEMMA TrimEndKeeps ==
  ASSUME NEW S, NEW j \in Seq(S), j # <<>>, j[Len(j)] \notin LineEnds, CR \in S
  PROVE  TrimEnd(j) = j /\ TrimEnd(Append(j, CR)) = j
<1> DEFINE n == Len(j)
           s == Append(j, CR)
<1>1. n \in Nat \ {0} /\ SubSeq(j, 1, n) = j
  BY EmptySeq, SubSeqFull
<1>2. /\ s \in Seq(S) /\ Len(s) = n + 1 /\ s[n + 1] = CR
      /\ \A i \in 1 .. n : s[i] = j[i]
  BY AppendProperties
<1>3. Front(s) = j
  BY FrontAppend
<1> HIDE DEF s
<1>4. TrimEnd(j) = j
  <2>1. PICK k \in 0 .. n : Trimmed(j, k)
    BY TrimEndIs
  <2>2. k = n
    <3>1. j[n] \notin LineEnds /\ \A i \in k + 1 .. n : j[i] \in LineEnds
      BY <2>1 DEF Trimmed
    <3> HIDE DEF n
    <3> QED
      BY <1>1, <2>1, <3>1
  <2> QED
    BY <1>1, <2>1, <2>2, Zenon DEF Trimmed
<1>5. TrimEnd(s) = j
  <2>1. PICK k \in 0 .. Len(s) : Trimmed(s, k)
    BY <1>2, TrimEndIs
  <2>2. k = n
    <3>1. s[n] \notin LineEnds /\ s[n + 1] \in LineEnds
      BY <1>1, <1>2 DEF LineEnds
    <3>2. /\ k = 0 \/ s[k] \notin LineEnds
          /\ \A i \in k + 1 .. Len(s) : s[i] \in LineEnds
      BY <2>1 DEF Trimmed
    <3> HIDE DEF n
    <3> QED
      BY <1>1, <1>2, <2>1, <3>1, <3>2
  <2>3. Len(s) - 1 = n
    BY <1>1, <1>2
  <2> QED
    BY <1>3, <2>1, <2>2, <2>3, Zenon DEF Trimmed, Front
<1> QED
  BY <1>4, <1>5 DEF s

(* However its line is terminated, a request is taken as it was asked.     *)
LEMMA RequestTaken ==
  ASSUME NEW r \in Requests, NEW l \in Written(r)
  PROVE  /\ l \in Seq(Letters \ {LF}) /\ l # <<>>
         /\ SplitFields(l, Width) = r
         /\ Chomp(l) = Join(r, Tab) /\ Join(r, Tab) \in Written(r)
<1> DEFINE L == Letters \ {LF}
           j == Join(r, Tab)
           s == Append(j, CR)
<1>1. /\ j \in Seq(L) /\ j # <<>> /\ Split(j, {Tab}) = r /\ j[Len(j)] \notin LineEnds
      /\ Len(r) = Width
  BY RequestLine, RequestFields
<1>2. CR \in L
  BY DEF Letters, CR, LF
<1>3. l = j \/ l = s
  BY Zenon DEF Written
<1>4. j \in Written(r)
  BY Zenon DEF Written
<1> HIDE DEF L, j
<1>5. TrimEnd(j) = j /\ TrimEnd(s) = j
  BY <1>1, <1>2, TrimEndKeeps
<1>6. s \in Seq(L) /\ s # <<>> /\ Front(s) = j /\ Last(s) = CR
  BY <1>1, <1>2, FrontAppend, AppendProperties
<1> HIDE DEF s
<1>7. TrimEnd(l) = j /\ l \in Seq(L) /\ l # <<>>
  BY <1>1, <1>3, <1>5, <1>6
<1>8. SplitFields(l, Width) = r
  BY <1>1, <1>7, Zenon DEF SplitFields
<1>9. Chomp(l) = j
  <2>1. CASE l = j
    <3>1. Last(j) # CR
      BY <1>1 DEF Last, LineEnds
    <3> QED
      BY <2>1, <3>1 DEF Chomp
  <2>2. CASE l = s
    BY <1>6, <2>2 DEF Chomp
  <2> QED
    BY <1>3, <2>1, <2>2
<1> QED
  BY <1>4, <1>7, <1>8, <1>9 DEF L, j

(* Of a beginning of a line either a field is missing, or all are there    *)
(* and the last one may be shorter.                                        *)
LEMMA RequestCut ==
  ASSUME NEW r \in Requests, NEW l \in Seq(Letters \ {LF}),
         IsPrefix(l, Append(Join(r, Tab), CR))
  PROVE  SplitFields(l, Width) = Refused \/ Shortened(SplitFields(l, Width), r)
<1> DEFINE L == Letters \ {LF}
           T == Seq(L)
           j == Join(r, Tab)
           s == Append(j, CR)
           n == Len(j)
           tabs == {Tab}
<1>1. j \in T /\ Split(j, tabs) = r /\ Len(r) = Width /\ Width \in Nat \ {0, 1}
  BY RequestLine, RequestFields
<1>2. CR \in L /\ l \in T
  BY DEF Letters, CR, LF
<1>3. IsPrefix(l, s)
  OBVIOUS
<1> HIDE DEF L, j, tabs
<1>4. /\ s \in T /\ Len(s) = n + 1 /\ s[n + 1] = CR /\ n \in Nat
      /\ \A i \in 1 .. n : s[i] = j[i]
  BY <1>1, <1>2, AppendProperties
<1> HIDE DEF s
<1>5. Len(l) \in 0 .. n + 1 /\ l = SubSeq(s, 1, Len(l))
  BY <1>2, <1>3, <1>4, BeginningIs
<1>6. \A i \in 1 .. Len(l) : l[i] = s[i]
  <2>1. Len(l) \in 0 .. Len(s)
    BY <1>4, <1>5
  <2>2. \A i \in 1 .. Len(l) : SubSeq(s, 1, Len(l))[i] = s[i]
    BY <1>4, <2>1, Beginning
  <2> QED
    BY <1>5, <2>2
<1>7. PICK k \in 0 .. Len(l) : Trimmed(l, k)
  BY <1>2, TrimEndIs
<1> DEFINE b == SubSeq(l, 1, k)
<1>8. TrimEnd(l) = b /\ (k = 0 \/ l[k] \notin LineEnds)
  BY <1>7, Zenon DEF Trimmed
<1>9. k \in 0 .. n
  <2>1. CASE k = n + 1
    <3>1. l[k] = CR
      BY <1>4, <1>5, <1>6, <1>7, <2>1
    <3> QED
      BY <1>4, <1>8, <2>1, <3>1 DEF LineEnds
  <2> HIDE DEF n
  <2>2. CASE k # n + 1
    BY <1>4, <1>5, <1>7, <2>2
  <2> QED
    BY <2>1, <2>2
<1>10. b \in T /\ b = SubSeq(j, 1, k)
  <2> DEFINE c == SubSeq(j, 1, k)
  <2>1. b \in T /\ Len(b) = k /\ \A i \in 1 .. k : b[i] = l[i]
    BY <1>2, <1>7, Beginning
  <2>2. c \in T /\ Len(c) = k /\ \A i \in 1 .. k : c[i] = j[i]
    BY <1>1, <1>9, Beginning
  <2> HIDE DEF b, c, n
  <2>3. \A i \in 1 .. k : b[i] = c[i]
    BY <1>4, <1>5, <1>6, <1>7, <1>9, <2>1, <2>2
  <2>4. b = c
    BY <2>1, <2>2, <2>3, SeqEqual
  <2> QED
    BY <2>1, <2>4 DEF c
<1> HIDE DEF b
<1>11. Begins(b, j, L)
  <2>1. Begins(SubSeq(j, 1, k), j, L)
    BY <1>1, <1>9, Rest
  <2> QED
    BY <1>10, <2>1, Zenon
<1> DEFINE p == Split(b, tabs)
           f == Front(p)
           c == Last(p)
<1>12. PICK w \in T, g \in Seq(T) : Split(j, tabs) = Continued(p, w, g)
  <2>1. Extends(Split(j, tabs), p, L)
    BY <1>1, <1>10, <1>11, SplitBegins
  <2> QED
    BY <2>1, Zenon DEF Extends
<1>13. r = Append(f, c \o w) \o g
  BY <1>1, <1>12, Zenon DEF Continued, Lengthened
<1>14. p \in Seq(T) /\ p # <<>>
  BY <1>10, SplitPieces, SplitType
<1>15. SplitFields(l, Width) = IF Len(p) = Width THEN p ELSE Refused
  BY <1>8, Zenon DEF SplitFields, tabs
<1> HIDE DEF p
<1>16. /\ f \in Seq(T) /\ c \in T /\ p = Append(f, c) /\ Len(f) = Len(p) - 1
       /\ Len(p) \in Nat \ {0}
  BY <1>14, LastFront
<1>17. f = SubSeq(p, 1, Len(p) - 1) /\ c = p[Len(p)]
  BY DEF Front, Last
<1> HIDE DEF f, c
<1>18. ASSUME Len(p) = Width
       PROVE  Shortened(p, r)
  <2> DEFINE d == c \o w
             q == Append(f, d)
  <2>1. d \in T /\ IsPrefix(c, d)
    BY <1>16, BeginsWith
  <2> HIDE DEF T, d
  <2>2. q \in Seq(T) /\ Len(q) = Len(f) + 1 /\ q # <<>> /\ Front(q) = f /\ Last(q) = d
    BY <1>16, <2>1, AppendProperties, FrontAppend
  <2>3. r = q \o g
    BY <1>13, Zenon DEF d
  <2> HIDE DEF q
  <2>4. Len(r) = Len(q) + Len(g) /\ Len(g) \in Nat
    <3>1. q \in Seq(T) /\ g \in Seq(T)
      BY <2>2
    <3>2. Len(q \o g) = Len(q) + Len(g)
      BY <3>1, ConcatProperties
    <3>3. Len(g) \in Nat
      BY <3>1, LenProperties
    <3> QED
      BY <2>3, <3>2, <3>3, Zenon
  <2>5. Len(q) = Width /\ Len(g) = 0
    BY <1>1, <1>16, <1>18, <2>2, <2>4
  <2>6. g = <<>> /\ q \o <<>> = q
    BY <2>2, <2>5, EmptySeq, ConcatEmptySeq
  <2>7. r = q
    BY <2>3, <2>6, Zenon
  <2>8. SubSeq(r, 1, Width - 1) = f /\ r[Width] = d
    BY <2>2, <2>5, <2>7, Zenon DEF Front, Last
  <2>9. SubSeq(p, 1, Width - 1) = f /\ p[Width] = c
    BY <1>17, <1>18
  <2> QED
    BY <1>18, <2>1, <2>8, <2>9, Zenon DEF Shortened
<1> QED
  BY <1>15, <1>18

-----------------------------------------------------------------------------
(* Requests on their way. *)

(* The words of the pieces p are those before the last, and the last. *)
LEMMA WordsLengthened ==
  ASSUME NEW S, NEW p \in Seq(Seq(S)), p # <<>>, NEW w \in Seq(S)
  PROVE  /\ Words(p) = Worded(Words(Front(p)), Last(p))
         /\ Words(Lengthened(p, w)) = Worded(Words(Front(p)), Last(p) \o w)
<1> DEFINE T == Seq(S)
           f == Front(p)
           l == Last(p)
           m == l \o w
<1>1. f \in Seq(T) /\ l \in T /\ p = Append(f, l)
  BY LastFront
<1> HIDE DEF f, l
<1>2. m \in T
  BY <1>1
<1> HIDE DEF m
<1>3. Words(Append(f, l)) = Worded(Words(f), l) /\ Words(Append(f, m)) = Worded(Words(f), m)
  BY <1>1, <1>2, WordsAppend
<1> QED
  BY <1>1, <1>3, Zenon DEF Lengthened, f, l, m

LEMMA WordsAhead ==
  ASSUME NEW S, NEW p \in Seq(Seq(S)), p # <<>>, Last(p) = <<>>, NEW r \in Seq(S)
  PROVE  /\ Words(Ahead(p, r)) = Worded(Words(p), r)
         /\ Last(Ahead(p, r)) = <<>> /\ Ahead(p, r) # <<>> /\ Ahead(p, r) \in Seq(Seq(S))
<1> DEFINE T == Seq(S)
           f == Front(p)
           g == Append(f, r)
           q == Append(g, <<>>)
<1>1. f \in Seq(T) /\ p = Append(f, <<>>) /\ <<>> \in T
  BY LastFront, EmptySeq
<1> HIDE DEF f
<1>2. Words(p) = Words(f)
  <2>1. PICK e \in T : e = <<>>
    BY <1>1
  <2>2. Words(Append(f, e)) = Worded(Words(f), e)
    BY <1>1, WordsAppend
  <2> QED
    BY <1>1, <2>1, <2>2, Zenon DEF Worded
<1>3. Words(g) = Worded(Words(f), r)
  BY <1>1, WordsAppend
<1>4. g \in Seq(T)
  <2> HIDE DEF T
  <2>1. r \in T
    BY DEF T
  <2> QED
    BY <1>1, <2>1, AppendProperties
<1> HIDE DEF g
<1>5. Words(q) = Words(g)
  <2>1. PICK e \in T : e = <<>>
    BY <1>1
  <2>2. Words(Append(g, e)) = Worded(Words(g), e)
    BY <1>4, <2>1, WordsAppend
  <2> QED
    BY <2>1, <2>2, Zenon DEF Worded
<1>6. Last(q) = <<>> /\ q # <<>> /\ q \in Seq(T)
  <2> HIDE DEF T
  <2> QED
    BY <1>1, <1>4, FrontAppend, AppendProperties
<1> QED
  BY <1>2, <1>3, <1>5, <1>6, Zenon DEF Ahead, f, g, q

Sent(u, r, t) == u \o Join(r, Tab) \o t

Told(q, p, r) == \E x \in Written(r) : Words(q) = Append(Words(p), x)

(* However a request is terminated, it is one more word, and no line is    *)
(* begun behind it.                                                        *)
LEMMA RequestSent ==
  ASSUME NEW h \in Seq(Letters \ {LF}), NEW u \in Seq(Letters), NEW r \in Requests,
         Last(Split(h \o u, {LF})) = <<>>, NEW t \in Terminators
  PROVE  /\ Sent(u, r, t) \in Seq(Letters)
         /\ Last(Split(h \o Sent(u, r, t), {LF})) = <<>>
         /\ Told(Split(h \o Sent(u, r, t), {LF}), Split(h \o u, {LF}), r)
<1> DEFINE R == Letters \ {LF}
           ends == {LF}
           S == Letters
           j == Join(r, Tab)
           s == Append(j, CR)
           p == Split(h \o u, ends)
           v == Ended(u, j)
<1>1. LF \in S /\ CR \in S /\ S \ ends = R
  BY DEF Letters
<1>2. j \in Seq(R) /\ s \in Seq(R) /\ j # <<>> /\ s # <<>> /\ j \in Written(r) /\ s \in Written(r)
  <2>1. j \in Written(r) /\ s \in Written(r)
    BY Zenon DEF Written
  <2> QED
    BY <2>1, RequestTaken
<1>3. h \in Seq(S) /\ u \in Seq(S) /\ j \in Seq(S) /\ s \in Seq(S) /\ h \in Seq(R)
  <2>1. R \subseteq S
    OBVIOUS
  <2>2. h \in Seq(R)
    OBVIOUS
  <2> HIDE DEF R, S, j, s
  <2>3. u \in Seq(S)
    BY DEF S
  <2> QED
    BY <1>2, <2>1, <2>2, <2>3, Widen
<1>4. Last(p) = <<>>
  OBVIOUS
<1> HIDE DEF R, S, ends, j
<1>5. p \in Seq(Seq(S)) /\ p # <<>>
  <2> DEFINE x == h \o u
  <2>1. x \in Seq(S)
    BY <1>3
  <2> HIDE DEF x
  <2>2. Split(x, ends) \in Seq(Seq(S)) /\ Split(x, ends) # <<>>
    BY <2>1, SplitPieces, SplitType
  <2> QED
    BY <2>2 DEF x
<1>6. ASSUME NEW x \in Seq(R), x \in Seq(S), x # <<>>, x \in Written(r)
      PROVE  /\ Ended(u, x) \in Seq(S)
             /\ Last(Split(h \o Ended(u, x), ends)) = <<>>
             /\ Words(Split(h \o Ended(u, x), ends)) = Append(Words(p), x)
  <2>1. Split(h \o Ended(u, x), ends) = Ahead(p, x)
    <3>1. x \in Seq(S \ {LF}) /\ Last(Split(h \o u, {LF})) = <<>>
      BY <1>1, <1>4 DEF ends
    <3>2. Split(h \o Ended(u, x), {LF}) = Ahead(Split(h \o u, {LF}), x)
      BY <1>1, <1>3, <3>1, LineWritten
    <3> QED
      BY <3>2, Zenon DEF ends
  <2> HIDE DEF p
  <2>2. Words(Ahead(p, x)) = Worded(Words(p), x) /\ Last(Ahead(p, x)) = <<>>
    BY <1>4, <1>5, <1>6, WordsAhead
  <2>3. Ended(u, x) \in Seq(S)
    <3> DEFINE e == <<LF>>
    <3>1. e \in Seq(S)
      BY <1>1
    <3> HIDE DEF e
    <3>2. u \o x \o e \in Seq(S)
      BY <1>3, <1>6, <3>1
    <3> QED
      BY <3>2, Zenon DEF Ended, e
  <2> QED
    BY <1>6, <2>1, <2>2, <2>3, Zenon DEF Worded
<1>7. CASE t = <<LF>>
  <2>1. Sent(u, r, t) = Ended(u, j)
    BY <1>7, Zenon DEF Sent, Ended, j
  <2>2. /\ Ended(u, j) \in Seq(S)
        /\ Last(Split(h \o Ended(u, j), ends)) = <<>>
        /\ Words(Split(h \o Ended(u, j), ends)) = Append(Words(p), j)
    BY <1>2, <1>3, <1>6
  <2> QED
    BY <1>2, <2>1, <2>2, Zenon DEF Told, S, p, ends
<1>8. CASE t = <<CR, LF>>
  <2>1. Sent(u, r, t) = Ended(u, s)
    <3> DEFINE x == u \o j
               a == <<CR>>
               e == <<LF>>
    <3>1. x \in Seq(S) /\ a \in Seq(S) /\ e \in Seq(S)
      BY <1>1, <1>3
    <3>2. a \o e = <<CR, LF>>
      BY Threes
    <3>3. x \o a = Append(x, CR) /\ u \o s = Append(x, CR)
      <4>1. u \o s = Append(x, CR)
        BY <1>1, <1>3, AppendConcat
      <4> HIDE DEF x, s
      <4>2. x \o a = Append(x, CR)
        BY <1>1, <3>1, AppendIsConcat
      <4> QED
        BY <4>1, <4>2
    <3> HIDE DEF x, a, e, s
    <3>4. x \o (a \o e) = (x \o a) \o e
      <4>1. Regroups(x, a, e)
        BY <3>1, Regroup
      <4> QED
        BY <4>1, Zenon DEF Regroups
    <3>5. x \o t = (u \o s) \o e
      BY <1>8, <3>2, <3>3, <3>4, Zenon
    <3> QED
      BY <3>5, Zenon DEF Sent, Ended, x, j, e
  <2> HIDE DEF s
  <2>2. /\ Ended(u, s) \in Seq(S)
        /\ Last(Split(h \o Ended(u, s), ends)) = <<>>
        /\ Words(Split(h \o Ended(u, s), ends)) = Append(Words(p), s)
    BY <1>2, <1>3, <1>6
  <2> QED
    BY <1>2, <2>1, <2>2, Zenon DEF Told, S, p, ends
<1>9. CASE t = <<LF, LF>>
  <2>1. PICK z \in Seq(R) : z = <<>>
    BY Nothing
  <2>2. z \in Seq(S) /\ z \in Seq(S \ {LF})
    BY <1>1, <2>1, EmptySeq DEF ends
  <2>3. /\ v \in Seq(S)
        /\ Last(Split(h \o v, ends)) = <<>>
        /\ Words(Split(h \o v, ends)) = Append(Words(p), j)
    BY <1>2, <1>3, <1>6
  <2>4. Sent(u, r, t) = Ended(v, z)
    <3> DEFINE x == u \o j
               e == <<LF>>
    <3>1. x \in Seq(S) /\ e \in Seq(S)
      BY <1>1, <1>3
    <3>2. e \o e = <<LF, LF>>
      BY Threes
    <3> HIDE DEF x, e
    <3>3. x \o (e \o e) = (x \o e) \o e
      <4>1. Regroups(x, e, e)
        BY <3>1, Regroup
      <4> QED
        BY <4>1, Zenon DEF Regroups
    <3>4. v = x \o e
      BY Zenon DEF Ended, x, e
    <3>5. v \o z = v
      BY <2>1, <2>3, ConcatEmptySeq
    <3>6. x \o t = (v \o z) \o e
      BY <1>9, <3>2, <3>3, <3>4, <3>5, Zenon
    <3> QED
      BY <3>6, Zenon DEF Sent, Ended, x, j, e
  <2> DEFINE q == Split(h \o v, ends)
  <2> HIDE DEF v
  <2>5. q \in Seq(Seq(S)) /\ q # <<>>
    <3> DEFINE x == h \o v
    <3>1. x \in Seq(S)
      BY <1>3, <2>3
    <3> HIDE DEF x
    <3>2. Split(x, ends) \in Seq(Seq(S)) /\ Split(x, ends) # <<>>
      BY <3>1, SplitPieces, SplitType
    <3> QED
      BY <3>2 DEF x
  <2>6. Split(h \o Ended(v, z), ends) = Ahead(q, z)
    <3>1. Last(Split(h \o v, {LF})) = <<>>
      BY <2>3 DEF ends
    <3>2. Split(h \o Ended(v, z), {LF}) = Ahead(Split(h \o v, {LF}), z)
      BY <1>1, <1>3, <2>2, <2>3, <3>1, LineWritten
    <3> QED
      BY <3>2, Zenon DEF ends
  <2>7. Words(Ahead(q, z)) = Worded(Words(q), z) /\ Last(Ahead(q, z)) = <<>>
    <3>1. Last(q) = <<>>
      BY <2>3
    <3> HIDE DEF q
    <3> QED
      BY <2>2, <2>5, <3>1, WordsAhead
  <2>8. Words(Ahead(q, z)) = Append(Words(p), j)
    BY <2>1, <2>3, <2>7, Zenon DEF Worded
  <2>9. Ended(v, z) \in Seq(S)
    <3> DEFINE e == <<LF>>
    <3>1. e \in Seq(S)
      BY <1>1
    <3> HIDE DEF e
    <3>2. v \o z \o e \in Seq(S)
      BY <2>2, <2>3, <3>1
    <3> QED
      BY <3>2, Zenon DEF Ended, e
  <2> QED
    BY <1>2, <2>4, <2>6, <2>7, <2>8, <2>9, Zenon DEF Told, S, p, ends
<1> QED
  BY <1>7, <1>8, <1>9, Zenon DEF Terminators

RequestsType ==
  /\ asked \in Seq(Requests)
  /\ up \in Seq(Letters)
  /\ begun \in Seq(Letters \ {LF})
  /\ taken \in Seq(Seq(Seq(Letters)) \cup {Refused})

LEMMA TookType ==
  ASSUME RequestsType, NEW l \in Seq(Letters)
  PROVE  Took(l) \in Seq(Seq(Seq(Letters)) \cup {Refused})
<1> DEFINE U == Seq(Seq(Letters)) \cup {Refused}
           b == TrimEnd(l)
<1>1. b \in Seq(Letters)
  <2>1. PICK k \in 0 .. Len(l) : Trimmed(l, k)
    BY TrimEndIs
  <2> QED
    BY <2>1, Beginning DEF Trimmed
<1> HIDE DEF b
<1>2. Split(b, {Tab}) \in Seq(Seq(Letters))
  BY <1>1, SplitPieces
<1>3. SplitFields(l, Width) \in U
  BY <1>2, Zenon DEF SplitFields, b
<1> HIDE DEF U
<1>4. taken \in Seq(U)
  BY DEF RequestsType, U
<1>5. Took(l) \in Seq(U)
  BY <1>3, <1>4, AppendProperties DEF Took
<1> QED
  BY <1>5 DEF U

LEMMA ChompType ==
  ASSUME NEW S, NEW l \in Seq(S)
  PROVE  Chomp(l) \in Seq(S)
BY LastFront DEF Chomp

LEMMA RequestsTyped == Spec => []RequestsType
<1>1. Init => RequestsType
  BY DEF Init, RequestsType
<1>2. RequestsType /\ [Next]_vars => RequestsType'
  <2> SUFFICES ASSUME RequestsType, [Next]_vars
               PROVE  RequestsType'
    OBVIOUS
  <2>1. CASE UNCHANGED requestVars
    BY <2>1 DEF RequestsType, requestVars
  <2>2. ASSUME NEW r \in Requests
        PROVE  Join(r, Tab) \in Seq(Letters)
    <3>1. Join(r, Tab) \in Seq(Letters \ {LF}) /\ Letters \ {LF} \subseteq Letters
      BY RequestLine
    <3> QED
      BY <3>1, Widen
  <2>3. begun \in Seq(Letters)
    <3>1. Letters \ {LF} \subseteq Letters
      OBVIOUS
    <3> QED
      BY <3>1, Widen DEF RequestsType
  <2>4. CASE SendLine
    <3>1. PICK r \in Requests, t \in Terminators : /\ asked' = Append(asked, r)
                                                   /\ up' = up \o Join(r, Tab) \o t
      BY <2>4 DEF SendLine
    <3>2. t \in Seq(Letters)
      <4> DEFINE S == Letters
      <4>1. LF \in S /\ CR \in S
        BY DEF Letters
      <4> HIDE DEF S
      <4>2. <<LF>> \in Seq(S) /\ <<CR, LF>> \in Seq(S) /\ <<LF, LF>> \in Seq(S)
        BY <4>1
      <4>3. t \in Seq(S)
        BY <4>2, Zenon DEF Terminators
      <4> QED
        BY <4>3 DEF S
    <3> DEFINE j == Join(r, Tab)
    <3>3. j \in Seq(Letters) /\ up \in Seq(Letters)
      BY <2>2 DEF RequestsType
    <3> HIDE DEF j
    <3>4. up \o j \o t \in Seq(Letters)
      BY <3>2, <3>3
    <3> QED
      BY <2>4, <3>1, <3>4 DEF SendLine, RequestsType, j
  <2>5. CASE SendLastLine
    <3>1. PICK r \in Requests : asked' = Append(asked, r) /\ up' = up \o Join(r, Tab)
      BY <2>5 DEF SendLastLine
    <3> DEFINE j == Join(r, Tab)
    <3>2. j \in Seq(Letters) /\ up \in Seq(Letters)
      BY <2>2 DEF RequestsType
    <3> HIDE DEF j
    <3>3. up \o j \in Seq(Letters)
      BY <3>2
    <3> QED
      BY <2>5, <3>1, <3>3 DEF SendLastLine, RequestsType, j
  <2>6. CASE CutOff
    <3>1. PICK n \in 0 .. Len(up) - 1 : up' = SubSeq(up, 1, n)
      BY <2>6 DEF CutOff
    <3>2. n \in 0 .. Len(up)
      BY DEF RequestsType
    <3>3. up' \in Seq(Letters)
      BY <3>1, <3>2, Beginning DEF RequestsType
    <3> QED
      BY <2>6, <3>3 DEF CutOff, RequestsType
  <2>7. CASE ReadCharacter
    <3>1. up' \in Seq(Letters) /\ Head(up) \in Letters
      BY <2>7, HeadTailProperties DEF ReadCharacter, RequestsType
    <3>2. Took(Chomp(begun)) \in Seq(Seq(Seq(Letters)) \cup {Refused})
      BY <2>3, ChompType, TookType
    <3>3. taken' \in Seq(Seq(Seq(Letters)) \cup {Refused}) /\ begun' \in Seq(Letters \ {LF})
      <4>1. CASE Head(up) = LF /\ taken' = Took(Chomp(begun)) /\ begun' = <<>>
        BY <3>2, <4>1
      <4>2. CASE Head(up) # LF /\ begun' = Append(begun, Head(up)) /\ taken' = taken
        BY <3>1, <4>2 DEF RequestsType
      <4> QED
        BY <2>7, <4>1, <4>2 DEF ReadCharacter
    <3> QED
      BY <2>7, <3>1, <3>3 DEF ReadCharacter, RequestsType
  <2>8. CASE ReadEnd
    <3>1. taken' \in Seq(Seq(Seq(Letters)) \cup {Refused})
      BY <2>3, <2>8, TookType DEF ReadEnd
    <3> QED
      BY <2>8, <3>1 DEF ReadEnd, RequestsType
  <2> QED
    BY <2>1, <2>4, <2>5, <2>6, <2>7, <2>8, Zenon DEF Next, RequestNext, AnswerNext,
       WriteLine, HearCharacter, vars
<1> QED
  BY <1>1, <1>2, PTL DEF Spec

(* What is left of a line that is cut off is the beginning of one. *)
LEMMA RequestBegins ==
  ASSUME NEW r \in Requests, NEW l \in Seq(Letters), NEW w \in Seq(Letters),
         l \o w \in Written(r)
  PROVE  IsPrefix(l, Append(Join(r, Tab), CR))
<1> DEFINE j == Join(r, Tab)
           s == Append(j, CR)
           m == l \o w
           S == Letters
<1>1. m = j \/ m = s
  BY Zenon DEF Written
<1> HIDE DEF j, S
<1>2. l \in Seq(S) /\ w \in Seq(S) /\ CR \in S
  BY DEF S, Letters
<1>3. m \in Seq(S) /\ IsPrefix(l, m)
  BY <1>2, BeginsWith
<1>4. CASE m = j
  <2> DEFINE v == Append(w, CR)
  <2>1. v \in Seq(S)
    BY <1>2
  <2>2. l \o v = Append(m, CR)
    BY <1>2, AppendConcat
  <2> HIDE DEF v
  <2>3. IsPrefix(l, l \o v)
    BY <1>2, <2>1, BeginsWith
  <2> QED
    BY <1>4, <2>2, <2>3, Zenon DEF j
<1> QED
  BY <1>1, <1>3, <1>4 DEF j

LEMMA LastConcat ==
  ASSUME NEW S, NEW b \in Seq(S), NEW q \in Seq(S), q # <<>>
  PROVE  Last(b \o q) = Last(q)
<1> DEFINE f == Front(q)
           l == Last(q)
           c == b \o f
<1>1. f \in Seq(S) /\ l \in S /\ q = Append(f, l)
  BY LastFront
<1> HIDE DEF f, l
<1>2. b \o Append(f, l) = Append(c, l)
  BY <1>1, AppendConcat
<1>3. c \in Seq(S)
  BY <1>1, ConcatProperties
<1> HIDE DEF c
<1>4. Last(Append(c, l)) = l
  BY <1>1, <1>3, FrontAppend
<1> QED
  BY <1>1, <1>2, <1>4, Zenon DEF l

(* The two ends of the requests stay in step: a request that is sent       *)
(* becomes one more word of the lines on their way, what cuts a line off   *)
(* cuts off all that follows, and a line that is read is the first of      *)
(* those words or empty.                                                   *)
THEOREM RequestsKeepStep == Spec => []RequestsInStep
<1> DEFINE S == Letters
           T == Seq(S)
           ends == {LF}
           lines == Split(begun \o up, ends)
           told == Words(lines)
           n == Len(taken)
           m == Len(told)
           a == Len(asked)
           Whole(r, x) == x \in Written(r)
           Partial(r, x) == IsPrefix(x, Append(Join(r, Tab), CR))
           Done(i) == taken[i] = Refused \/ Shortened(taken[i], asked[i])
<1>1. Init => RequestsInStep
  <2> SUFFICES ASSUME Init
               PROVE  RequestsInStep
    OBVIOUS
  <2>1. begun \o up = <<>> /\ Len(taken) = 0 /\ Len(asked) = 0 /\ ~cut /\ ~ended
    BY DEF Init
  <2>2. lines = << <<>> >>
    BY <2>1, SplitEmpty
  <2>3. told = <<>>
    <3>1. PICK e \in T : e = <<>>
      BY Nothing
    <3>2. Words(<<e>>) = <<>>
      BY <3>1, WordsOne
    <3> QED
      BY <2>2, <3>1, <3>2, Zenon
  <2>4. Last(lines) = <<>> /\ Len(told) = 0
    BY <2>2, <2>3 DEF Last
  <2> HIDE DEF told
  <2>5. \A i \in 1 .. Len(told) : FALSE
    BY <2>4
  <2>6. \A i \in 1 .. Len(taken) : FALSE
    BY <2>1
  <2>7. Len(taken) + Len(told) <= Len(asked) /\ Len(taken) + Len(told) = Len(asked)
    BY <2>1, <2>4
  <2> QED
    BY <2>1, <2>4, <2>5, <2>6, <2>7, Zenon DEF RequestsInStep, told, lines, ends
<1>2. RequestsInStep /\ RequestsType /\ RequestsType' /\ [Next]_vars => RequestsInStep'
  <2> SUFFICES ASSUME RequestsInStep, RequestsType, RequestsType', [Next]_vars
               PROVE  RequestsInStep'
    OBVIOUS
  <2>1. /\ asked \in Seq(Requests) /\ asked' \in Seq(Requests)
        /\ up \in T /\ up' \in T /\ begun \in Seq(S \ ends) /\ begun \in T
        /\ LF \in S
    <3>1. S \ ends \subseteq S /\ LF \in S
      BY DEF Letters
    <3>2. begun \in Seq(S \ ends)
      BY DEF RequestsType
    <3>3. begun \in T
      <4> HIDE DEF S, ends
      <4> QED
        BY <3>1, <3>2, Widen
    <3> QED
      BY <3>1, <3>2, <3>3 DEF RequestsType
  <2>2. lines \in Seq(T) /\ lines # <<>> /\ told \in Seq(T)
    <3> DEFINE x == begun \o up
    <3>1. x \in T
      BY <2>1
    <3> HIDE DEF x, S, ends
    <3>2. Split(x, ends) \in Seq(T) /\ Split(x, ends) # <<>>
      BY <3>1, SplitPieces, SplitType
    <3>3. Words(Split(x, ends)) \in Seq(T)
      BY <3>2, WordsType
    <3> QED
      BY <3>2, <3>3 DEF x
  <2>3. n \in Nat /\ m \in Nat /\ a \in Nat
    <3>1. n \in Nat /\ a \in Nat
      BY DEF RequestsType
    <3>2. m \in Nat
      <4> HIDE DEF told
      <4> QED
        BY <2>2
    <3> QED
      BY <3>1, <3>2
  <2>4. /\ cut => ended
        /\ ~ended => Last(lines) = <<>>
        /\ n + m <= a
        /\ ~cut => n + m = a
        /\ \A i \in 1 .. m : \/ Whole(asked[n + i], told[i])
                             \/ /\ cut /\ i = m /\ Last(lines) # <<>>
                                /\ Partial(asked[n + i], told[i])
        /\ \A i \in 1 .. n : \/ taken[i] = asked[i]
                             \/ cut /\ up = <<>> /\ begun = <<>> /\ i = n /\ Done(i)
    BY Zenon DEF RequestsInStep
  <2>5. ASSUME ~cut \/ up # <<>> \/ begun # <<>>
        PROVE  \A i \in 1 .. n : taken[i] = asked[i]
    BY <2>4, <2>5
  <2>6. CASE UNCHANGED requestVars
    BY <2>6 DEF RequestsInStep, requestVars
  <2>7. ASSUME NEW q, NEW r \in Requests, NEW x \in Written(r), ~ended, q = (lines)',
               Words(q) = Append(told, x), asked' = Append(asked, r),
               ~ended' => Last(q) = <<>>, cut' = cut, taken' = taken
        PROVE  RequestsInStep'
    <3> DEFINE z == Words(q)
    <3>1. ~cut /\ n + m = a
      BY <2>4, <2>7
    <3>2. /\ Len(asked') = a + 1 /\ asked'[a + 1] = r
          /\ \A i \in 1 .. a : asked'[i] = asked[i]
      BY <2>1, <2>7, AppendProperties
    <3>3. /\ Len(z) = m + 1 /\ z[m + 1] = x
          /\ \A i \in 1 .. m : z[i] = told[i]
      <4>1. x \in T
        <5>1. x \in Seq(S \ {LF}) /\ S \ {LF} \subseteq S
          BY RequestTaken
        <5> HIDE DEF S
        <5> QED
          BY <5>1, Widen
      <4>2. told \in Seq(T) /\ z = Append(told, x)
        BY <2>2, <2>7
      <4> HIDE DEF T, z, told
      <4> QED
        BY <4>1, <4>2, AppendProperties DEF m
    <3> HIDE DEF z, told, lines, m, n, a, Whole, Partial, Done
    <3>4. \A i \in 1 .. m + 1 : Whole(asked'[n + i], z[i])
      <4> TAKE i \in 1 .. m + 1
      <4>1. CASE i = m + 1
        <5>1. n + i = a + 1
          BY <2>3, <3>1, <4>1
        <5> QED
          BY <2>7, <3>2, <3>3, <4>1, <5>1 DEF Whole
      <4>2. CASE i # m + 1
        <5>1. i \in 1 .. m /\ n + i \in 1 .. a
          BY <2>3, <3>1, <4>2
        <5> QED
          BY <2>4, <3>1, <3>2, <3>3, <5>1
      <4> QED
        BY <4>1, <4>2
    <3>5. \A i \in 1 .. n : taken'[i] = asked'[i]
      <4>1. \A i \in 1 .. n : i \in 1 .. a
        BY <2>3, <3>1
      <4> QED
        BY <2>5, <2>7, <3>1, <3>2, <4>1
    <3>6. n + (m + 1) = a + 1
      BY <2>3, <3>1
    <3>7. Len(taken') = n
      BY <2>7 DEF n
    <3>8. /\ cut' => ended'
          /\ Len(taken') + Len(z) <= Len(asked')
          /\ Len(taken') + Len(z) = Len(asked')
      BY <2>3, <2>7, <3>1, <3>2, <3>3, <3>6, <3>7
    <3>9. \A i \in 1 .. Len(z) : z[i] \in Written(asked'[Len(taken') + i])
      BY <3>3, <3>4, <3>7 DEF Whole
    <3>10. \A i \in 1 .. Len(taken') : taken'[i] = asked'[i]
      BY <3>5, <3>7
    <3> QED
      BY <2>7, <3>8, <3>9, <3>10, Zenon DEF RequestsInStep, lines, ends, z
  <2>8. CASE SendLine
    <3>1. PICK r \in Requests, t \in Terminators : /\ asked' = Append(asked, r)
                                                   /\ up' = Sent(up, r, t)
      BY <2>8, Zenon DEF SendLine, Sent
    <3>2. ~ended /\ UNCHANGED <<ended, cut, begun, taken>>
      BY <2>8 DEF SendLine
    <3>3. Last(Split(begun \o up, {LF})) = <<>> /\ begun \in Seq(S \ {LF})
      BY <2>1, <2>4, <3>2
    <3>4. Last((lines)') = <<>> /\ Told((lines)', lines, r)
      <4>1. /\ Last(Split(begun \o Sent(up, r, t), {LF})) = <<>>
            /\ Told(Split(begun \o Sent(up, r, t), {LF}), Split(begun \o up, {LF}), r)
        BY <2>1, <3>3, RequestSent
      <4> QED
        BY <3>1, <3>2, <4>1, Zenon
    <3>5. PICK x \in Written(r) : Words((lines)') = Append(told, x)
      BY <3>4, Zenon DEF Told
    <3> HIDE DEF lines
    <3> QED
      BY <2>7, <3>1, <3>2, <3>4, <3>5
  <2>9. CASE SendLastLine
    <3>1. PICK r \in Requests : asked' = Append(asked, r) /\ up' = up \o Join(r, Tab)
      BY <2>9 DEF SendLastLine
    <3>2. ~ended /\ UNCHANGED <<cut, begun, taken>> /\ ended'
      BY <2>9 DEF SendLastLine
    <3> DEFINE j == Join(r, Tab)
               f == Front(lines)
               x == begun \o up
    <3>3. j \in Written(r) /\ j \in Seq(S \ ends) /\ j \in T /\ j # <<>>
      <4>1. j \in Written(r)
        BY Zenon DEF Written
      <4>2. j \in Seq(S \ ends) /\ j # <<>> /\ S \ ends \subseteq S
        BY <4>1, RequestTaken
      <4> HIDE DEF S, ends, j
      <4> QED
        BY <4>1, <4>2, Widen
    <3> HIDE DEF j
    <3>4. Split(x \o j, ends) = Lengthened(Split(x, ends), j)
      <4>1. x \in T
        BY <2>1
      <4> HIDE DEF x, S, ends
      <4> QED
        BY <3>3, <4>1, SplitTail
    <3>5. begun \o (up \o j) = x \o j
      <4>1. begun \in T /\ up \in T /\ j \in T
        BY <2>1, <3>3
      <4>2. Regroups(begun, up, j)
        BY <4>1, Regroup
      <4> QED
        BY <4>2, Zenon DEF Regroups
    <3>6. (lines)' = Lengthened(lines, j)
      BY <3>1, <3>2, <3>4, <3>5, Zenon DEF j
    <3> HIDE DEF lines
    <3>7. Last(lines) = <<>> /\ <<>> \o j = j
      BY <2>4, <3>2, <3>3, ConcatEmptySeq
    <3>8. Words(Lengthened(lines, j)) = Append(told, j)
      <4>1. /\ Words(lines) = Worded(Words(f), Last(lines))
            /\ Words(Lengthened(lines, j)) = Worded(Words(f), Last(lines) \o j)
        BY <2>2, <3>3, WordsLengthened
      <4> QED
        BY <3>3, <3>7, <4>1, Zenon DEF Worded
    <3> QED
      BY <2>7, <3>1, <3>2, <3>3, <3>6, <3>8
  <2>10. CASE CutOff
    <3>1. PICK k \in 0 .. Len(up) - 1 : up' = SubSeq(up, 1, k)
      BY <2>10 DEF CutOff
    <3>2. ~ended /\ ended' /\ cut' /\ UNCHANGED <<begun, asked, taken>>
      BY <2>10 DEF CutOff
    <3>3. ~cut /\ n + m = a
      BY <2>4, <3>2
    <3> DEFINE q == (lines)'
               f == Front(q)
               l == Last(q)
               b == Words(f)
    <3>4. q \in Seq(T) /\ q # <<>>
      <4> DEFINE x == begun \o up'
      <4>1. x \in T
        BY <2>1
      <4> HIDE DEF x, S, ends
      <4>2. Split(x, ends) \in Seq(T) /\ Split(x, ends) # <<>>
        BY <4>1, SplitPieces, SplitType
      <4> QED
        BY <3>2, <4>2 DEF x
    <3>5. Extends(lines, q, S)
      <4> DEFINE x == begun \o up'
                 y == begun \o up
      <4>1. PICK v \in T : up = up' \o v
        <5>1. k \in 0 .. Len(up)
          BY <2>1
        <5>2. Begins(SubSeq(up, 1, k), up, S)
          BY <2>1, <5>1, Rest
        <5> QED
          BY <3>1, <5>2, Zenon DEF Begins
      <4>2. y = x \o v
        <5>1. begun \o (up' \o v) = (begun \o up') \o v
          <6>1. begun \in Seq(S) /\ up' \in Seq(S) /\ v \in Seq(S)
            BY <2>1
          <6> HIDE DEF S
          <6>2. Regroups(begun, up', v)
            BY <6>1, Regroup
          <6> QED
            BY <6>2, Zenon DEF Regroups
        <5> QED
          BY <4>1, <5>1, Zenon
      <4>3. x \in T /\ y \in T
        BY <2>1
      <4> HIDE DEF x, y
      <4>4. Begins(x, y, S)
        BY <4>2, Zenon DEF Begins
      <4> HIDE DEF S, ends
      <4>5. Extends(Split(y, ends), Split(x, ends), S)
        BY <4>3, <4>4, SplitBegins
      <4> QED
        BY <3>2, <4>5, Zenon DEF x, y
    <3>6. PICK w \in T, g \in Seq(T) : lines = Continued(q, w, g)
      BY <3>5, Zenon DEF Extends
    <3> DEFINE d == l \o w
               c == Worded(b, d)
               z == Words(g)
    <3> HIDE DEF q, lines
    <3>7. f \in Seq(T) /\ l \in T
      BY <3>4, LastFront
    <3> HIDE DEF f, l
    <3>8. d \in T /\ b \in Seq(T) /\ z \in Seq(T)
      BY <3>7, WordsType
    <3>9. Lengthened(q, w) \in Seq(T)
      <4> HIDE DEF T, d
      <4>1. Append(f, d) \in Seq(T)
        BY <3>7, <3>8, AppendProperties
      <4> QED
        BY <4>1, Zenon DEF Lengthened, d, f, l
    <3>10. Words(q) = Worded(b, l) /\ Words(Lengthened(q, w)) = c
      BY <3>4, WordsLengthened DEF f, l
    <3>11. told = c \o z
      <4> DEFINE u == Lengthened(q, w)
      <4> HIDE DEF u, c, z
      <4>1. Words(u \o g) = Words(u) \o Words(g)
        BY <3>9, WordsConcat DEF u
      <4> QED
        BY <3>6, <3>10, <4>1, Zenon DEF Continued, u, z
    <3> DEFINE y == Words(q)
    <3>12. /\ Len(y) \in Nat /\ Len(y) <= m
           /\ \A i \in 1 .. Len(y) : \/ y[i] = told[i]
                                     \/ i = Len(y) /\ l # <<>> /\ y[i] = l /\ told[i] = l \o w
      <4> HIDE DEF T, y, told
      <4>1. CASE l = <<>>
        <5>1. y = b
          BY <3>10, <4>1, Zenon DEF Worded, y
        <5>2. c \in Seq(T) /\ Len(b) <= Len(c) /\ \A i \in 1 .. Len(b) : c[i] = b[i]
          <6>1. c = b \/ c = Append(b, d)
            BY Zenon DEF Worded
          <6> HIDE DEF b, c, d
          <6> DEFINE e == Append(b, d)
          <6>2. e \in Seq(T) /\ Len(e) = Len(b) + 1 /\ Len(b) \in Nat
                /\ \A i \in 1 .. Len(b) : e[i] = b[i]
            BY <3>8, AppendProperties
          <6> HIDE DEF e
          <6>3. CASE c = b
            BY <3>8, <6>2, <6>3
          <6>4. CASE c = e
            BY <6>2, <6>4
          <6> QED
            BY <6>1, <6>3, <6>4 DEF e
        <5> HIDE DEF b, c, z
        <5>3. /\ Len(told) = Len(c) + Len(z) /\ Len(c) \in Nat /\ Len(z) \in Nat
              /\ \A i \in 1 .. Len(c) : told[i] = c[i]
          <6>1. /\ Len(c \o z) = Len(c) + Len(z) /\ Len(c) \in Nat /\ Len(z) \in Nat
                /\ \A i \in 1 .. Len(c) : (c \o z)[i] = c[i]
            BY <3>8, <5>2
          <6> QED
            BY <3>11, <6>1, Zenon
        <5>4. Len(b) \in Nat
          BY <3>8
        <5> QED
          BY <5>1, <5>2, <5>3, <5>4 DEF m
      <4>2. CASE l # <<>>
        <5>1. d # <<>>
          <6>1. Len(l) \in Nat \ {0} /\ Len(l) <= Len(d) /\ Len(d) \in Nat
            <7>1. Len(l) \in Nat \ {0} /\ Len(w) \in Nat /\ Len(d) = Len(l) + Len(w)
              BY <3>7, <4>2, EmptySeq, ConcatProperties DEF T
            <7> HIDE DEF d
            <7> QED
              BY <7>1
          <6> HIDE DEF d
          <6> QED
            BY <6>1
        <5>2. y = Append(b, l) /\ c = Append(b, d)
          BY <3>10, <4>2, <5>1, Zenon DEF Worded, y
        <5> DEFINE e == Len(b)
        <5>3. /\ Len(y) = e + 1 /\ y[e + 1] = l /\ e \in Nat
              /\ \A i \in 1 .. e : y[i] = b[i]
          <6> HIDE DEF b
          <6> QED
            BY <3>7, <3>8, <5>2, AppendProperties
        <5>4. /\ c \in Seq(T) /\ Len(c) = e + 1 /\ c[e + 1] = d
              /\ \A i \in 1 .. e : c[i] = b[i]
          <6> HIDE DEF b, c, d
          <6> QED
            BY <3>8, <5>2, AppendProperties
        <5> HIDE DEF b, c, z, e
        <5>5. /\ Len(told) = Len(c) + Len(z) /\ Len(z) \in Nat
              /\ \A i \in 1 .. Len(c) : told[i] = c[i]
          <6>1. c \in Seq(T) /\ z \in Seq(T)
            BY <3>8, <5>4
          <6>2. Len(c \o z) = Len(c) + Len(z) /\ Len(z) \in Nat
            BY <6>1
          <6>3. \A i \in 1 .. Len(c) : (c \o z)[i] = c[i]
            BY <6>1
          <6> QED
            BY <3>11, <6>2, <6>3, Zenon
        <5>6. Len(y) <= m /\ Len(y) \in Nat
          BY <5>3, <5>4, <5>5 DEF m
        <5>7. \A i \in 1 .. Len(y) : i = e + 1 \/ i \in 1 .. e
          BY <5>3
        <5>8. told[e + 1] = d /\ \A i \in 1 .. e : told[i] = y[i]
          BY <5>3, <5>4, <5>5
        <5> QED
          BY <4>2, <5>3, <5>6, <5>7, <5>8
      <4> QED
        BY <4>1, <4>2
    <3>13. ASSUME NEW i \in 1 .. Len(y)
           PROVE  \/ Whole(asked[n + i], y[i])
                  \/ cut' /\ i = Len(y) /\ l # <<>> /\ Partial(asked[n + i], y[i])
      <4>1. i \in 1 .. m /\ n + i \in 1 .. a
        BY <2>3, <2>4, <3>12
      <4>2. Whole(asked[n + i], told[i]) /\ asked[n + i] \in Requests
        BY <2>1, <2>4, <3>3, <4>1
      <4> DEFINE r == asked[n + i]
      <4> HIDE DEF y, r, d
      <4>3. CASE y[i] = told[i]
        BY <4>2, <4>3 DEF r
      <4>4. CASE i = Len(y) /\ l # <<>> /\ y[i] = l /\ told[i] = l \o w
        <5>1. r \in Requests /\ l \o w \in Written(r)
          BY <4>2, <4>4 DEF r
        <5>2. IsPrefix(l, Append(Join(r, Tab), CR))
          BY <3>7, <5>1, RequestBegins
        <5> QED
          BY <3>2, <4>4, <5>2 DEF r
      <4> QED
        BY <3>12, <4>3, <4>4
    <3>14. \A i \in 1 .. n : taken[i] = asked[i]
      BY <2>5, <3>3
    <3> HIDE DEF y, Done
    <3>15. Len(taken') = n /\ Len(asked') = a /\ n + Len(y) <= a
      <4>1. n + Len(y) <= a
        BY <2>3, <2>4, <3>12
      <4> QED
        BY <3>2, <4>1
    <3>16. /\ \A i \in 1 .. Len(y) : \/ y[i] \in Written(asked'[Len(taken') + i])
                                     \/ /\ cut' /\ i = Len(y) /\ Last(q) # <<>>
                                        /\ IsPrefix(y[i], Append(Join(asked'[Len(taken') + i], Tab), CR))
           /\ \A i \in 1 .. Len(taken') : taken'[i] = asked'[i]
           /\ Len(taken') + Len(y) <= Len(asked')
      BY <3>2, <3>13, <3>14, <3>15, Zenon DEF l
    <3> QED
      BY <3>2, <3>16, Zenon DEF RequestsInStep, lines, ends, q, y
  <2>11. CASE ReadCharacter
    <3>1. up # <<>> /\ up' = Tail(up) /\ UNCHANGED <<ended, cut, asked>>
      BY <2>11 DEF ReadCharacter
    <3>2. \A i \in 1 .. n : taken[i] = asked[i]
      BY <2>5, <3>1
    <3> DEFINE t == Tail(up)
               q == Split(t, ends)
               b == <<begun>>
               z == Words(q)
    <3>3. t \in T
      BY <2>1, <3>1, HeadTailProperties
    <3>4. /\ begun \o up = Append(begun, Head(up)) \o t
          /\ Head(up) = LF => lines = b \o q
      BY <2>1, <3>1, LineRead
    <3>5. CASE Head(up) # LF /\ begun' = Append(begun, Head(up)) /\ taken' = taken
      <4>1. (begun \o up)' = begun \o up
        BY <3>1, <3>4, <3>5
      <4> HIDE DEF Done
      <4>2. (lines)' = lines
        BY <4>1, Zenon
      <4> HIDE DEF lines
      <4> QED
        BY <2>4, <3>1, <3>2, <3>5, <4>2 DEF RequestsInStep, lines
    <3>6. CASE Head(up) = LF /\ taken' = Took(Chomp(begun)) /\ begun' = <<>>
      <4>1. (lines)' = q /\ lines = b \o q
        <5>1. <<>> \o t = t
          BY <3>3, ConcatEmptySeq
        <5> QED
          BY <3>1, <3>4, <3>6, <5>1
      <4>2. q \in Seq(T) /\ q # <<>> /\ b \in Seq(T)
        <5>1. b \in Seq(T)
          BY <2>1
        <5> HIDE DEF S, ends, t
        <5> QED
          BY <3>3, <5>1, SplitPieces, SplitType
      <4> HIDE DEF q, t
      <4>3. Last(lines) = Last(q)
        <5> HIDE DEF T, b, lines
        <5>1. Last(b \o q) = Last(q)
          BY <4>2, LastConcat
        <5> QED
          BY <4>1, <5>1, Zenon
      <4>4. told = Words(b) \o z /\ z \in Seq(T)
        <5> HIDE DEF b
        <5>1. Words(b \o q) = Words(b) \o Words(q) /\ Words(q) \in Seq(T)
          BY <4>2, WordsConcat, WordsType
        <5> QED
          BY <4>1, <5>1, Zenon
      <4>5. Words(b) = IF begun = <<>> THEN <<>> ELSE b
        BY <2>1, WordsOne
      <4> HIDE DEF Done
      <4>6. CASE begun = <<>>
        <5>1. told = z
          <6>1. <<>> \o z = z
            <7> HIDE DEF T, z
            <7> QED
              BY <4>4, ConcatEmptySeq
          <6> QED
            BY <4>4, <4>5, <4>6, <6>1, Zenon
        <5>2. taken' = taken
          BY <3>6, <4>6 DEF Took, Chomp
        <5> HIDE DEF lines
        <5>3. Words(q) = told /\ Last(q) = Last(lines)
          BY <4>3, <5>1
        <5> HIDE DEF told, z
        <5>4. /\ \A i \in 1 .. Len(Words(q)) :
                   \/ Words(q)[i] \in Written(asked'[Len(taken') + i])
                   \/ /\ cut' /\ i = Len(Words(q)) /\ Last(q) # <<>>
                      /\ IsPrefix(Words(q)[i], Append(Join(asked'[Len(taken') + i], Tab), CR))
              /\ \A i \in 1 .. Len(taken') : taken'[i] = asked'[i]
              /\ Len(taken') + Len(Words(q)) <= Len(asked')
              /\ ~cut' => Len(taken') + Len(Words(q)) = Len(asked')
              /\ cut' => ended'
              /\ ~ended' => Last(q) = <<>>
          BY <2>4, <3>1, <3>2, <5>2, <5>3, Zenon
        <5> QED
          BY <4>1, <5>4, Zenon DEF RequestsInStep, lines, ends
      <4>7. CASE begun # <<>>
        <5>1. /\ Len(told) = Len(z) + 1 /\ Len(z) \in Nat /\ told[1] = begun
              /\ \A i \in 1 .. Len(z) : told[i + 1] = z[i]
          <6>1. told = b \o z
            BY <4>4, <4>5, <4>7, Zenon
          <6>2. Len(b) = 1 /\ b[1] = begun
            OBVIOUS
          <6> HIDE DEF T, b, z, told
          <6>3. /\ Len(b \o z) = Len(b) + Len(z) /\ Len(z) \in Nat
                /\ \A i \in 1 .. Len(b) + Len(z) :
                     (b \o z)[i] = IF i <= Len(b) THEN b[i] ELSE z[i - Len(b)]
            BY <4>2, <4>4, ConcatProperties
          <6>4. /\ Len(told) = Len(z) + 1 /\ Len(z) \in Nat
                /\ \A i \in 1 .. 1 + Len(z) : told[i] = IF i <= 1 THEN b[i] ELSE z[i - 1]
            BY <6>1, <6>2, <6>3
          <6>5. \A i \in 1 .. Len(z) : i + 1 \in 1 .. 1 + Len(z) /\ ~(i + 1 <= 1) /\ (i + 1) - 1 = i
            BY <6>4
          <6> QED
            BY <6>2, <6>4, <6>5
        <5>2. 1 \in 1 .. m
          BY <2>3, <5>1
        <5>3. Last(q) # <<>> => Len(z) # 0
          <6> DEFINE f == Front(q)
                     l == Last(q)
          <6>1. f \in Seq(T) /\ l \in T /\ q = Append(f, l)
            BY <4>2, LastFront
          <6> HIDE DEF f, l
          <6>2. Words(Append(f, l)) = Worded(Words(f), l) /\ Words(f) \in Seq(T)
            BY <6>1, WordsAppend, WordsType
          <6> DEFINE w == Words(f)
          <6>3. l # <<>> => z = Append(w, l)
            BY <6>1, <6>2, Zenon DEF Worded
          <6> HIDE DEF w, z, T
          <6>4. Len(Append(w, l)) = Len(w) + 1 /\ Len(w) \in Nat
            BY <6>1, <6>2, AppendProperties DEF w
          <6> QED
            BY <6>3, <6>4 DEF l
        <5> DEFINE r == asked[n + 1]
        <5> HIDE DEF told, z, lines
        <5>4. Whole(r, begun)
          <6>1. \/ Whole(asked[n + 1], told[1])
                \/ 1 = m /\ Last(lines) # <<>>
            BY <2>4, <5>2
          <6>2. ~(1 = m /\ Last(lines) # <<>>)
            BY <4>3, <5>1, <5>3
          <6> QED
            BY <5>1, <6>1, <6>2
        <5>5. r \in Requests
          <6>1. n + 1 \in 1 .. a
            BY <2>3, <2>4, <5>2
          <6> QED
            BY <2>1, <6>1
        <5> HIDE DEF r
        <5>6. taken' = Append(taken, r)
          <6> DEFINE j == Join(r, Tab)
          <6>1. Chomp(begun) = j /\ j \in Written(r)
            BY <5>4, <5>5, RequestTaken
          <6>2. j # <<>> /\ SplitFields(j, Width) = r
            BY <5>5, <6>1, RequestTaken
          <6> HIDE DEF j
          <6> QED
            BY <3>6, <6>1, <6>2 DEF Took
        <5>7. /\ Len(taken') = n + 1 /\ taken'[n + 1] = r
              /\ \A i \in 1 .. n : taken'[i] = taken[i]
          <6> DEFINE U == Seq(Seq(Letters)) \cup {Refused} \cup {r}
          <6>1. taken \in Seq(Seq(Seq(Letters)) \cup {Refused})
            BY DEF RequestsType
          <6>2. taken \in Seq(U) /\ r \in U
            <7>1. Seq(Seq(Letters)) \cup {Refused} \subseteq U
              OBVIOUS
            <7> DEFINE V == Seq(Seq(Letters)) \cup {Refused}
            <7>2. V \subseteq U /\ taken \in Seq(V) /\ r \in U
              BY <6>1, <7>1
            <7> HIDE DEF U, V
            <7> QED
              BY <7>2, Widen
          <6> HIDE DEF U
          <6> QED
            BY <5>6, <6>2, AppendProperties
        <5> HIDE DEF n, m, a
        <5>8. m = Len(z) + 1 /\ Len(z) \in Nat
          BY <5>1 DEF m
        <5>9. \A i \in 1 .. n + 1 : taken'[i] = asked'[i]
          <6>1. \A i \in 1 .. n + 1 : i = n + 1 \/ i \in 1 .. n
            BY <2>3
          <6> QED
            BY <3>1, <3>2, <5>7, <6>1 DEF r
        <5>10. ASSUME NEW i \in 1 .. Len(z)
               PROVE  \/ Whole(asked'[n + 1 + i], z[i])
                      \/ /\ cut' /\ i = Len(z) /\ Last(q) # <<>>
                         /\ Partial(asked'[n + 1 + i], z[i])
          <6>1. i + 1 \in 1 .. m /\ n + (i + 1) = n + 1 + i /\ (i + 1 = m => i = Len(z))
            BY <2>3, <5>8
          <6>2. told[i + 1] = z[i]
            BY <5>1
          <6> HIDE DEF Whole, Partial
          <6> QED
            BY <2>4, <3>1, <4>3, <6>1, <6>2
        <5>11. /\ Len(taken') + Len(z) <= Len(asked')
               /\ ~cut' => Len(taken') + Len(z) = Len(asked')
          <6>1. n + 1 + Len(z) <= a /\ (~cut => n + 1 + Len(z) = a)
            BY <2>3, <2>4, <5>8
          <6> QED
            BY <3>1, <5>7, <6>1 DEF a
        <5>12. /\ cut' => ended'
               /\ ~ended' => Last(q) = <<>>
          BY <2>4, <3>1, <4>3
        <5>13. /\ \A i \in 1 .. Len(z) :
                    \/ z[i] \in Written(asked'[Len(taken') + i])
                    \/ /\ cut' /\ i = Len(z) /\ Last(q) # <<>>
                       /\ IsPrefix(z[i], Append(Join(asked'[Len(taken') + i], Tab), CR))
               /\ \A i \in 1 .. Len(taken') : taken'[i] = asked'[i]
          BY <5>7, <5>9, <5>10, Zenon
        <5> QED
          BY <4>1, <5>11, <5>12, <5>13, Zenon DEF RequestsInStep, lines, ends, z
      <4> QED
        BY <4>6, <4>7
    <3> QED
      BY <2>11, <3>5, <3>6 DEF ReadCharacter
  <2>12. CASE ReadEnd
    <3>1. /\ up = <<>> /\ ended /\ begun # <<>> /\ taken' = Took(begun) /\ begun' = <<>>
          /\ UNCHANGED <<up, ended, cut, asked>>
      BY <2>12 DEF ReadEnd
    <3>2. \A i \in 1 .. n : taken[i] = asked[i]
      BY <2>5, <3>1
    <3>3. lines = <<begun>>
      <4>1. begun \o <<>> = begun
        BY <2>1, ConcatEmptySeq
      <4>2. Split(begun, ends) = <<begun>>
        <5> HIDE DEF S, ends
        <5> QED
          BY <2>1, SplitPlain
      <4> QED
        BY <3>1, <4>1, <4>2, Zenon
    <3>4. told = <<begun>>
      BY <2>1, <3>1, <3>3, WordsOne
    <3>5. m = 1 /\ told[1] = begun
      BY <3>4
    <3>6. (lines)' = << <<>> >> /\ Words((lines)') = <<>>
      <4>1. (begun \o up)' = <<>>
        BY <3>1
      <4>2. (lines)' = << <<>> >>
        BY <4>1, SplitEmpty
      <4>3. PICK e \in T : e = <<>>
        BY Nothing
      <4>4. Words(<<e>>) = <<>>
        BY <4>3, WordsOne
      <4> QED
        BY <4>2, <4>3, <4>4, Zenon
    <3> DEFINE r == asked[n + 1]
               x == SplitFields(begun, Width)
    <3> HIDE DEF told, lines
    <3>7. r \in Requests
      <4>1. n + 1 \in 1 .. a
        BY <2>3, <2>4, <3>5
      <4> QED
        BY <2>1, <4>1
    <3>8. \/ x = r
          \/ cut /\ (x = Refused \/ Shortened(x, r))
      <4>1. \/ Whole(r, begun)
            \/ cut /\ Partial(r, begun)
        <5>1. 1 \in 1 .. m
          BY <3>5
        <5> QED
          BY <2>4, <3>5, <5>1
      <4> HIDE DEF r
      <4>2. CASE begun \in Written(r)
        BY <3>7, <4>2, RequestTaken
      <4>3. CASE cut /\ IsPrefix(begun, Append(Join(r, Tab), CR))
        <5>1. begun \in Seq(Letters \ {LF})
          BY <2>1
        <5> QED
          BY <3>7, <4>3, <5>1, RequestCut
      <4> QED
        BY <4>1, <4>2, <4>3
    <3> HIDE DEF r, x, Done
    <3>9. taken' = Append(taken, x)
      BY <3>1 DEF Took, x
    <3>10. /\ Len(taken') = n + 1 /\ taken'[n + 1] = x
           /\ \A i \in 1 .. n : taken'[i] = taken[i]
      <4> DEFINE U == Seq(Seq(Letters)) \cup {Refused} \cup {x}
      <4>1. taken \in Seq(Seq(Seq(Letters)) \cup {Refused})
        BY DEF RequestsType
      <4>2. taken \in Seq(U) /\ x \in U
        <5> DEFINE V == Seq(Seq(Letters)) \cup {Refused}
        <5>1. V \subseteq U /\ taken \in Seq(V) /\ x \in U
          BY <4>1
        <5> HIDE DEF U, V
        <5> QED
          BY <5>1, Widen
      <4> HIDE DEF U
      <4> QED
        BY <3>9, <4>2, AppendProperties
    <3>11. Len(<<>>) = 0 /\ Len(Words((lines)')) = 0
      BY <3>6
    <3> HIDE DEF n, m, a
    <3>12. n + 1 <= a /\ (~cut => n + 1 = a)
      BY <2>4, <3>5
    <3>13. \A i \in 1 .. n + 1 :
             \/ taken'[i] = asked'[i]
             \/ i = n + 1 /\ cut /\ (taken'[i] = Refused \/ Shortened(taken'[i], asked'[i]))
      <4>1. \A i \in 1 .. n + 1 : i = n + 1 \/ i \in 1 .. n
        BY <2>3
      <4> QED
        BY <3>1, <3>2, <3>8, <3>10, <4>1, Zenon DEF r
    <3> DEFINE z == Words((lines)')
    <3>14. Len(z) = 0
      BY <3>11
    <3> HIDE DEF z
    <3>15. /\ Len(taken') + Len(z) <= Len(asked')
           /\ ~cut' => Len(taken') + Len(z) = Len(asked')
           /\ cut' => ended'
           /\ ~(~ended')
      <4>1. Len(asked') = a /\ n + 1 + 0 = n + 1
        BY <2>3, <3>1 DEF a
      <4> QED
        BY <2>4, <3>1, <3>10, <3>12, <3>14, <4>1
    <3>16. \A i \in 1 .. Len(z) : FALSE
      BY <3>14
    <3>17. \A i \in 1 .. Len(taken') :
             \/ taken'[i] = asked'[i]
             \/ /\ cut' /\ up' = <<>> /\ begun' = <<>> /\ i = Len(taken')
                /\ taken'[i] = Refused \/ Shortened(taken'[i], asked'[i])
      BY <3>1, <3>10, <3>13, Zenon
    <3> QED
      BY <3>15, <3>16, <3>17, Zenon DEF RequestsInStep, lines, ends, z
  <2> QED
    BY <2>6, <2>8, <2>9, <2>10, <2>11, <2>12, Zenon DEF Next, RequestNext, AnswerNext,
       WriteLine, HearCharacter, vars
<1> QED
  BY <1>1, <1>2, RequestsTyped, PTL DEF Spec

(* Every request is taken once, in order and as it was asked.              *)
THEOREM RequestsTakenAsAsked == Spec => []RequestsReadBack
<1>1. RequestsInStep /\ RequestsType => RequestsReadBack
  <2> SUFFICES ASSUME RequestsInStep, RequestsType
               PROVE  RequestsReadBack
    OBVIOUS
  <2> DEFINE told == Words(Split(begun \o up, {LF}))
             n == Len(taken)
             m == Len(told)
             a == Len(asked)
             Done(i) == taken[i] = Refused \/ Shortened(taken[i], asked[i])
  <2>1. taken \in Seq(Seq(Seq(Letters)) \cup {Refused}) /\ asked \in Seq(Requests)
    BY DEF RequestsType
  <2>2. DOMAIN taken = 1 .. n /\ DOMAIN asked = 1 .. a /\ n \in Nat /\ a \in Nat
    <3> DEFINE U == Seq(Seq(Letters)) \cup {Refused}
    <3>1. taken \in Seq(U)
      BY <2>1
    <3> HIDE DEF U
    <3> QED
      BY <2>1, <3>1, LenProperties
  <2>3. m \in Nat
    <3> DEFINE x == begun \o up
    <3>1. x \in Seq(Letters)
      <4>1. Letters \ {LF} \subseteq Letters
        OBVIOUS
      <4>2. begun \in Seq(Letters) /\ up \in Seq(Letters)
        BY <4>1, Widen DEF RequestsType
      <4> QED
        BY <4>2
    <3> HIDE DEF x
    <3>2. Split(x, {LF}) \in Seq(Seq(Letters))
      BY <3>1, SplitPieces
    <3> DEFINE p == Split(x, {LF})
    <3> HIDE DEF p
    <3>3. Words(p) \in Seq(Seq(Letters))
      BY <3>2, WordsType DEF p
    <3>4. Len(Words(p)) \in Nat
      BY <3>3
    <3> QED
      BY <3>4 DEF p, x
  <2>4. /\ n + m <= a
        /\ ~cut => n + m = a
        /\ \A i \in 1 .. n : \/ taken[i] = asked[i]
                             \/ cut /\ i = n /\ Done(i)
    BY Zenon DEF RequestsInStep
  <2> HIDE DEF m
  <2>5. n <= a
    <3>1. n \in Nat /\ a \in Nat /\ n + m <= a
      BY <2>2, <2>4
    <3> HIDE DEF n, a
    <3> QED
      BY <2>3, <3>1
  <2>6. \A i \in DOMAIN taken :
          \/ i \in DOMAIN asked /\ taken[i] = asked[i]
          \/ cut /\ i = n /\ i \in DOMAIN asked /\ Done(i)
    <3>1. \A i \in 1 .. n : i \in 1 .. a
      BY <2>2, <2>5
    <3> HIDE DEF Done
    <3> QED
      BY <2>2, <2>4, <3>1
  <2>7. ASSUME up = <<>>, begun = <<>>, ~cut
        PROVE  n = a
    <3>1. begun \o up = <<>>
      BY <2>7
    <3>2. Split(begun \o up, {LF}) = << <<>> >>
      BY <3>1, SplitEmpty
    <3>3. PICK e \in Seq(Letters) : e = <<>>
      BY Nothing
    <3>4. Words(<<e>>) = <<>>
      BY <3>3, WordsOne
    <3>5. m = 0
      BY <3>2, <3>3, <3>4 DEF m
    <3> HIDE DEF n, a
    <3> QED
      BY <2>2, <2>4, <2>7, <3>5
  <2> QED
    BY <2>6, <2>7, Zenon DEF RequestsReadBack
<1> QED
  BY <1>1, RequestsTyped, RequestsKeepStep, PTL
=============================================================================
