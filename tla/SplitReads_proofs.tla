-------------------------- MODULE SplitReads_proofs --------------------------
(***************************************************************************)
(* Proofs about what is made of a text that arrives cut anywhere, for the  *)
(* three readers of MC_SplitReads whose result is a list: HttpReader,      *)
(* RequestParser and HttpChunked, for every text, every size of a block    *)
(* or buffer and every cut.  What each holds is always a piece of the      *)
(* text, from where the last one handed over ends to where it is read; the *)
(* invariants say so of every list the code keeps.                         *)
(***************************************************************************)
EXTENDS MC_SplitReads, SequencesExt, SequenceTheorems, WellFoundedInduction, TLAPS

-----------------------------------------------------------------------------
(***************************************************************************)
(* Lists.  FlattenSeq is a recursive function: what it computes is shown   *)
(* by the least number at which it would fail.                             *)
(***************************************************************************)
\* A set of numbers that is not empty has a least one.
LEMMA LeastNat ==
  ASSUME NEW U, U \subseteq Nat, U # {}
  PROVE \E x \in U : \A y \in U : x <= y
  <1> DEFINE R == OpToRel(<, Nat)
  <1>1. IsWellFoundedOn(R, Nat)
    BY NatLessThanWellFounded
  <1> HIDE DEF R
  <1>2. \E x \in U : \A y \in U : ~ (<<y, x>> \in R)
    BY <1>1, WFMin
  <1>3. PICK x \in U : \A y \in U : ~ (<<y, x>> \in R)
    BY <1>2
  <1>4. ASSUME NEW y \in U PROVE x <= y
    <2>1. x \in Nat /\ y \in Nat
      OBVIOUS
    <2>2. ~(y < x)
      BY <2>1, <1>3 DEF R, OpToRel
    <2> QED
      BY <2>1, <2>2
  <1> QED
    BY <1>4

\* A set of numbers that holds 0 and every successor holds all: induction over
\* a set in place of a formula.
LEMMA AllNat ==
  ASSUME NEW U, 0 \in U, \A n \in Nat : n \in U => n + 1 \in U
  PROVE \A n \in Nat : n \in U
  <1> DEFINE Out == Nat \ U
  <1> SUFFICES ASSUME Out # {} PROVE FALSE
    OBVIOUS
  <1>1. PICK x \in Out : \A y \in Out : x <= y
    BY LeastNat
  <1>2. x \in Nat /\ x # 0
    OBVIOUS
  <1>3. x - 1 \in Nat /\ x - 1 \notin Out
    BY <1>1, <1>2
  <1>4. (x - 1) + 1 \in U
    BY <1>3
  <1> QED
    BY <1>2, <1>4

\* The function FlattenSeq is made of.
Flat(s, g) == g = [i \in 1 .. Len(s) |-> IF i = 1 THEN s[i] ELSE g[i - 1] \o s[i]]

\* The i-th member of the function by which FlattenSeq is defined.
LEMMA FlatAt ==
  ASSUME NEW s, NEW g, Flat(s, g), NEW i \in 1 .. Len(s)
  PROVE  g[i] = IF i = 1 THEN s[i] ELSE g[i - 1] \o s[i]
  BY Zenon DEF Flat

\* It exists.
LEMMA FlatExists ==
  ASSUME NEW S, NEW s \in Seq(Seq(S)) PROVE \E g : Flat(s, g)
  <1> DEFINE Up(g, n) == g = [i \in 1 .. n |-> IF i = 1 THEN s[i] ELSE g[i - 1] \o s[i]]
             U == {n \in Nat : \E g : Up(g, n)}
  <1>1. 0 \in U
    <2>1. Up([i \in 1 .. 0 |-> <<>>], 0)
      OBVIOUS
    <2> QED
      BY <2>1
  <1>2. ASSUME NEW n \in Nat, n \in U PROVE n + 1 \in U
    <2>1. PICK g : Up(g, n)
      BY <1>2
    <2> DEFINE h == [i \in 1 .. n + 1 |-> IF i <= n THEN g[i] ELSE IF i = 1 THEN s[i] ELSE g[i - 1] \o s[i]]
    <2>2. ASSUME NEW i \in 1 .. n + 1
          PROVE  h[i] = IF i = 1 THEN s[i] ELSE h[i - 1] \o s[i]
      <3>1. CASE i = n + 1
        BY <3>1
      <3>2. CASE i <= n
        <4>1. g[i] = IF i = 1 THEN s[i] ELSE g[i - 1] \o s[i]
          <5>1. i \in 1 .. n
            BY <3>2
          <5> QED
            BY <2>1, <5>1, Zenon
        <4> QED
          BY <3>2, <4>1
      <3> QED
        BY <3>1, <3>2
    <2>3. Up(h, n + 1)
      BY <2>2
    <2> HIDE DEF h, Up
    <2>4. \E f : Up(f, n + 1)
      BY <2>3
    <2> QED
      BY <2>4
  <1>3. Len(s) \in U
    <2> HIDE DEF U
    <2> QED
      BY <1>1, <1>2, AllNat
  <1> QED
    BY <1>3 DEF Flat

\* FlattenSeq is its last value.
LEMMA FlattenBy ==
  ASSUME NEW S, NEW s \in Seq(Seq(S))
  PROVE \E g : /\ Flat(s, g)
               /\ FlattenSeq(s) = IF s = <<>> THEN <<>> ELSE g[Len(s)]
  <1> DEFINE g == CHOOSE g : Flat(s, g)
  <1>1. Flat(s, g)
    BY FlatExists, Zenon
  <1>2. s # <<>> => Len(s) # 0
    OBVIOUS
  <1>4. s = <<>> => Len(s) = 0
    OBVIOUS
  <1>3. FlattenSeq(s) = IF s = <<>> THEN <<>> ELSE g[Len(s)]
    <2>1. CASE s = <<>>
      BY <1>4, <2>1, Zenon DEF FlattenSeq
    <2>2. CASE s # <<>>
      <3>1. FlattenSeq(s) = g[Len(s)]
        BY <1>2, <2>2, Zenon DEF FlattenSeq, Flat, g
      <3> QED
        BY <3>1, <2>2
    <2> QED
      BY <2>1, <2>2
  <1> QED
    BY <1>1, <1>3

\* Every value of that function is a sequence, and two of them agree as far as
\* their lists do.
LEMMA FlatPrefix ==
  ASSUME NEW S, NEW s \in Seq(Seq(S)), NEW t \in Seq(Seq(S)), NEW n \in Nat,
         n <= Len(s), n <= Len(t), \A i \in 1 .. n : s[i] = t[i],
         NEW g, Flat(s, g), NEW h, Flat(t, h)
  PROVE  \A i \in 1 .. n : g[i] = h[i] /\ g[i] \in Seq(S)
  <1> DEFINE U == {k \in Nat : 1 <= k /\ k <= n => g[k] = h[k] /\ g[k] \in Seq(S)}
  <1>1. 0 \in U
    OBVIOUS
  <1>2. ASSUME NEW k \in Nat, k \in U PROVE k + 1 \in U
    <2> SUFFICES ASSUME k + 1 <= n PROVE g[k + 1] = h[k + 1] /\ g[k + 1] \in Seq(S)
      OBVIOUS
    <2>1. k + 1 \in 1 .. Len(s) /\ k + 1 \in 1 .. Len(t) /\ k + 1 \in 1 .. n
      OBVIOUS
    <2>2. g[k + 1] = IF k + 1 = 1 THEN s[k + 1] ELSE g[k + 1 - 1] \o s[k + 1]
      BY <2>1, FlatAt
    <2>3. h[k + 1] = IF k + 1 = 1 THEN t[k + 1] ELSE h[k + 1 - 1] \o t[k + 1]
      BY <2>1, FlatAt
    <2>4. s[k + 1] = t[k + 1] /\ s[k + 1] \in Seq(S)
      BY <2>1
    <2>5. CASE k = 0
      BY <2>2, <2>3, <2>4, <2>5
    <2>6. CASE k # 0
      <3>1. g[k] = h[k] /\ g[k] \in Seq(S) /\ k + 1 - 1 = k /\ k + 1 # 1
        BY <1>2, <2>6
      <3>2. g[k] \o s[k + 1] \in Seq(S)
        BY <3>1, <2>4
      <3> QED
        BY <3>1, <3>2, <2>2, <2>3, <2>4
    <2> QED
      BY <2>5, <2>6
  <1>3. \A k \in Nat : k \in U
    <2> HIDE DEF U
    <2> QED
      BY <1>1, <1>2, AllNat
  <1> QED
    BY <1>3

\* The text of no lists.
LEMMA FlattenEmpty == FlattenSeq(<<>>) = <<>>
  BY DEF FlattenSeq

\* The text of lists over S is a list over S.
LEMMA FlattenType ==
  ASSUME NEW S, NEW s \in Seq(Seq(S)) PROVE FlattenSeq(s) \in Seq(S)
  <1>1. PICK g : /\ Flat(s, g)
                 /\ FlattenSeq(s) = IF s = <<>> THEN <<>> ELSE g[Len(s)]
    BY FlattenBy
  <1>2. CASE s # <<>>
    <2>1. Len(s) \in Nat /\ Len(s) \in 1 .. Len(s)
      BY <1>2
    <2>2. g[Len(s)] \in Seq(S)
      BY <1>1, <2>1, FlatPrefix
    <2> QED
      BY <1>1, <1>2, <2>2
  <1>3. CASE s = <<>>
    BY <1>1, <1>3
  <1> QED
    BY <1>2, <1>3

\* One more block at the end.
LEMMA FlattenAppend ==
  ASSUME NEW S, NEW s \in Seq(Seq(S)), NEW e \in Seq(S)
  PROVE  FlattenSeq(Append(s, e)) = FlattenSeq(s) \o e
  <1> DEFINE t == Append(s, e)
  <1>0. t \in Seq(Seq(S)) /\ Len(t) = Len(s) + 1 /\ Len(s) \in Nat /\ t # <<>>
        /\ t[Len(s) + 1] = e /\ \A i \in 1 .. Len(s) : s[i] = t[i]
    BY AppendProperties
  <1> HIDE DEF t
  <1>1. PICK g : /\ Flat(s, g)
                 /\ FlattenSeq(s) = IF s = <<>> THEN <<>> ELSE g[Len(s)]
    BY FlattenBy
  <1>2. PICK h : /\ Flat(t, h)
                 /\ FlattenSeq(t) = IF t = <<>> THEN <<>> ELSE h[Len(t)]
    BY <1>0, FlattenBy
  <1>3. \A i \in 1 .. Len(s) : g[i] = h[i] /\ g[i] \in Seq(S)
    <2>1. Len(s) <= Len(s) /\ Len(s) <= Len(t)
      BY <1>0
    <2> QED
      BY <1>0, <1>1, <1>2, <2>1, FlatPrefix
  <1>4. h[Len(s) + 1] = IF Len(s) + 1 = 1 THEN t[Len(s) + 1] ELSE h[Len(s) + 1 - 1] \o t[Len(s) + 1]
    <2>1. Len(s) + 1 \in 1 .. Len(t)
      BY <1>0
    <2> QED
      BY <1>2, <2>1, FlatAt
  <1>5. FlattenSeq(t) = h[Len(s) + 1]
    BY <1>0, <1>2
  <1>6. CASE s = <<>>
    BY <1>0, <1>1, <1>4, <1>5, <1>6
  <1>7. CASE s # <<>>
    <2>1. Len(s) \in 1 .. Len(s) /\ Len(s) + 1 - 1 = Len(s) /\ Len(s) + 1 # 1
      BY <1>7
    <2>2. h[Len(s)] = g[Len(s)]
      BY <1>3, <2>1
    <2> QED
      <3>1. FlattenSeq(s) = g[Len(s)]
        BY <1>1, <1>7
      <3>2. h[Len(s) + 1] = h[Len(s)] \o e
        BY <1>0, <1>4, <2>1
      <3> QED
        BY <1>5, <2>2, <3>1, <3>2 DEF t
  <1> QED
    BY <1>6, <1>7 DEF t
\* Two lists of blocks, one behind the other.
LEMMA FlattenConcat ==
  ASSUME NEW S, NEW s \in Seq(Seq(S)), NEW t \in Seq(Seq(S))
  PROVE  FlattenSeq(s \o t) = FlattenSeq(s) \o FlattenSeq(t)
  <1> DEFINE U == {n \in Nat : \A u \in Seq(Seq(S)) :
                     Len(u) = n => FlattenSeq(s \o u) = FlattenSeq(s) \o FlattenSeq(u)}
  <1>1. 0 \in U
    <2> SUFFICES ASSUME NEW u \in Seq(Seq(S)), Len(u) = 0
                 PROVE  FlattenSeq(s \o u) = FlattenSeq(s) \o FlattenSeq(u)
      OBVIOUS
    <2>1. u = <<>> /\ s \o u = s
      OBVIOUS
    <2>2. FlattenSeq(s) \o <<>> = FlattenSeq(s)
      BY FlattenType
    <2> QED
      BY <2>1, <2>2, FlattenEmpty
  <1>2. ASSUME NEW n \in Nat, n \in U PROVE n + 1 \in U
    <2> SUFFICES ASSUME NEW u \in Seq(Seq(S)), Len(u) = n + 1
                 PROVE  FlattenSeq(s \o u) = FlattenSeq(s) \o FlattenSeq(u)
      OBVIOUS
    <2>0. u # <<>>
      OBVIOUS
    <2>a. PICK v \in Seq(Seq(S)), e \in Seq(S) : u = Append(v, e)
      BY <2>0, SequenceEmptyOrAppend
    <2>1. v \in Seq(Seq(S)) /\ Len(v) = n /\ e \in Seq(S) /\ u = Append(v, e)
      <3>1. Len(u) = Len(v) + 1 /\ Len(v) \in Nat
        BY <2>a, AppendProperties
      <3> QED
        BY <2>a, <3>1
    <2>2. FlattenSeq(s \o v) = FlattenSeq(s) \o FlattenSeq(v)
      BY <1>2, <2>1
    <2>3. s \o v \in Seq(Seq(S)) /\ s \o u = Append(s \o v, e)
      BY <2>1
    <2>4. FlattenSeq(s \o u) = FlattenSeq(s \o v) \o e
      BY <2>1, <2>3, FlattenAppend
    <2>5. FlattenSeq(u) = FlattenSeq(v) \o e
      BY <2>1, FlattenAppend
    <2>6. FlattenSeq(s) \in Seq(S) /\ FlattenSeq(v) \in Seq(S)
      BY <2>1, FlattenType
    <2> QED
      <3>1. (FlattenSeq(s) \o FlattenSeq(v)) \o e = FlattenSeq(s) \o (FlattenSeq(v) \o e)
        BY <2>1, <2>6, ConcatAssociative
      <3> QED
        BY <2>2, <2>4, <2>5, <3>1
  <1>3. \A n \in Nat : n \in U
    <2> HIDE DEF U
    <2> QED
      BY <1>1, <1>2, AllNat
  <1> QED
    BY <1>3

\* The text of one list.
LEMMA FlattenOne ==
  ASSUME NEW S, NEW e \in Seq(S) PROVE FlattenSeq(<<e>>) = e
  <1>1. <<>> \in Seq(Seq(S)) /\ Append(<<>>, e) = <<e>> /\ <<>> \o e = e
    OBVIOUS
  <1> QED
    BY <1>1, FlattenAppend, FlattenEmpty
\* Division with a remainder.
LEMMA Quotient ==
  ASSUME NEW n \in Nat, NEW b \in Nat \ {0}
  PROVE  n \div b \in Nat /\ (n \div b) * b <= n /\ n < (n \div b) * b + b
  OBVIOUS

\* Multiples of a block length.
LEMMA Multiples ==
  ASSUME NEW b \in Nat \ {0}, NEW j \in Nat, NEW k \in Nat, j < k
  PROVE  j * b \in Nat /\ k * b \in Nat /\ j * b + b <= k * b /\ (j + 1) * b = j * b + b
  <1>1. PICK d \in Nat : k = j + 1 + d
    <2>1. k - j - 1 \in Nat /\ k = j + 1 + (k - j - 1)
      OBVIOUS
    <2> QED
      BY <2>1
  <1>2. k * b = j * b + b + d * b
    BY <1>1
  <1>3. d * b \in Nat
    OBVIOUS
  <1> QED
    BY <1>2, <1>3

\* A list cut into its whole blocks of b.
Blocks(d, b, k) == [i \in 1 .. k |-> SubSeq(d, (i - 1) * b + 1, i * b)]

\* k whole blocks have the length of a block.
LEMMA BlocksWhole ==
  ASSUME NEW S, NEW d \in Seq(S), NEW b \in Nat \ {0}, NEW k \in Nat, k * b <= Len(d)
  PROVE  /\ Blocks(d, b, k) \in Seq(Seq(S)) /\ Len(Blocks(d, b, k)) = k
         /\ \A i \in 1 .. k : Len(Blocks(d, b, k)[i]) = b
  <1>1. ASSUME NEW i \in 1 .. k
        PROVE  SubSeq(d, (i - 1) * b + 1, i * b) \in Seq(S) /\ Len(SubSeq(d, (i - 1) * b + 1, i * b)) = b
    <2>1. i \in Nat /\ i - 1 \in Nat /\ i - 1 < i /\ i <= k /\ i - 1 + 1 = i
      OBVIOUS
    <2>2. (i - 1) * b \in Nat /\ i * b = (i - 1) * b + b
      BY <2>1, Multiples
    <2>3. i * b <= k * b
      <3>1. CASE i = k
        BY <3>1
      <3>2. CASE i < k
        <4>1. i * b + b <= k * b /\ i * b \in Nat /\ k * b \in Nat
          BY <3>2, <2>1, Multiples
        <4> QED
          BY <4>1
      <3> QED
        BY <2>1, <3>1, <3>2
    <2> DEFINE m == (i - 1) * b
               n == i * b
    <2>4. m \in Nat /\ n \in Nat /\ n = m + b /\ n <= Len(d)
      BY <2>2, <2>3
    <2> HIDE DEF m, n
    <2>5. \A j \in m + 1 .. n : d[j] \in S
      BY <2>4
    <2>6. SubSeq(d, m + 1, n) \in Seq(S) /\ Len(SubSeq(d, m + 1, n)) = b
      BY <2>4, <2>5, SubSeqProperties
    <2> QED
      BY <2>6 DEF m, n
  <1> QED
    BY <1>1 DEF Blocks

\* k whole blocks are the beginning of what they are cut from.
LEMMA BlocksText ==
  ASSUME NEW S, NEW d \in Seq(S), NEW b \in Nat \ {0}, NEW k \in Nat, k * b <= Len(d)
  PROVE  FlattenSeq(Blocks(d, b, k)) = SubSeq(d, 1, k * b)
  <1> DEFINE U == {n \in Nat : n <= k => FlattenSeq(Blocks(d, b, n)) = SubSeq(d, 1, n * b)}
  <1>1. 0 \in U
    <2>1. Blocks(d, b, 0) = <<>> /\ SubSeq(d, 1, 0 * b) = <<>>
      BY DEF Blocks
    <2> QED
      BY <2>1, FlattenEmpty
  <1>2. ASSUME NEW n \in Nat, n \in U PROVE n + 1 \in U
    <2> SUFFICES ASSUME n + 1 <= k
                 PROVE  FlattenSeq(Blocks(d, b, n + 1)) = SubSeq(d, 1, (n + 1) * b)
      OBVIOUS
    <2>1. n * b \in Nat /\ k * b \in Nat /\ n * b + b <= k * b /\ (n + 1) * b = n * b + b
      BY Multiples
    <2> DEFINE m == n * b
               e == SubSeq(d, m + 1, m + b)
    <2>2. m \in Nat /\ m + b <= Len(d) /\ (n + 1) * b = m + b
      BY <2>1
    <2>3. Blocks(d, b, n) \in Seq(Seq(S)) /\ Len(Blocks(d, b, n)) = n
      BY <2>2, BlocksWhole
    <2>4. Blocks(d, b, n + 1) \in Seq(Seq(S)) /\ Len(Blocks(d, b, n + 1)) = n + 1
      BY <2>2, BlocksWhole
    <2>5. \A i \in 1 .. n : Blocks(d, b, n + 1)[i] = Blocks(d, b, n)[i]
      BY DEF Blocks
    <2>6. Blocks(d, b, n + 1)[n + 1] = e
      <3>1. n + 1 \in 1 .. n + 1 /\ n + 1 - 1 = n
        OBVIOUS
      <3>2. Blocks(d, b, n + 1)[n + 1] = SubSeq(d, (n + 1 - 1) * b + 1, (n + 1) * b)
        BY <3>1 DEF Blocks
      <3> QED
        BY <2>2, <3>1, <3>2
    <2> HIDE DEF m
    <2>7. e \in Seq(S)
      <3>1. \A j \in m + 1 .. m + b : d[j] \in S
        BY <2>2
      <3> QED
        BY <2>2, <3>1, SubSeqProperties
    <2> HIDE DEF e
    <2>8. Blocks(d, b, n + 1) = Append(Blocks(d, b, n), e)
      BY <2>3, <2>4, <2>5, <2>6, <2>7
    <2>9. FlattenSeq(Blocks(d, b, n + 1)) = SubSeq(d, 1, m) \o e
      <3>1. FlattenSeq(Blocks(d, b, n)) = SubSeq(d, 1, m)
        BY <1>2 DEF m
      <3> QED
        BY <2>3, <2>7, <2>8, <3>1, FlattenAppend
    <2>10. SubSeq(d, 1, m) \o e = SubSeq(d, 1, m + b)
      BY <2>2, ConcatAdjacentSubSeq DEF e
    <2> QED
      BY <2>2, <2>9, <2>10
  <1>3. \A n \in Nat : n \in U
    <2> HIDE DEF U
    <2> QED
      BY <1>1, <1>2, AllNat
  <1> QED
    BY <1>3

-----------------------------------------------------------------------------
(***************************************************************************)
(* A text that arrives in pieces.                                          *)
(***************************************************************************)
\* A list that is a text from behind its n-th to its m-th element.
Piece(S, text, s, n, m) ==
    s \in Seq(S) /\ n + Len(s) = m /\ \A i \in 1 .. Len(s) : s[i] = text[n + i]

\* A cut of a text is a piece of it.
LEMMA PieceOf ==
  ASSUME NEW S, NEW text \in Seq(S), NEW n \in Nat, NEW m \in Nat, n <= m, m <= Len(text)
  PROVE  Piece(S, text, SubSeq(text, n + 1, m), n, m)
  <1>1. \A i \in n + 1 .. m : text[i] \in S
    OBVIOUS
  <1>2. /\ SubSeq(text, n + 1, m) \in Seq(S) /\ Len(SubSeq(text, n + 1, m)) = m - n
        /\ \A i \in 1 .. m - (n + 1) + 1 : SubSeq(text, n + 1, m)[i] = text[n + 1 + i - 1]
    BY <1>1, SubSeqProperties
  <1> QED
    BY <1>2 DEF Piece

\* The empty list is a piece anywhere.
LEMMA PieceEmpty ==
  ASSUME NEW S, NEW text, NEW n \in Nat
  PROVE  Piece(S, text, <<>>, n, n)
  BY DEF Piece

\* How long a piece is.
LEMMA PieceLength ==
  ASSUME NEW S, NEW text, NEW s, NEW n \in Nat, NEW m \in Nat, Piece(S, text, s, n, m)
  PROVE  s \in Seq(S) /\ Len(s) \in Nat /\ Len(s) = m - n /\ n <= m /\ m = n + Len(s)
  BY DEF Piece

\* Two pieces, one behind the other, are a piece.
LEMMA PieceJoin ==
  ASSUME NEW S, NEW text, NEW n \in Nat, NEW m \in Nat, NEW k \in Nat,
         NEW s, Piece(S, text, s, n, m), NEW t, Piece(S, text, t, m, k)
  PROVE  Piece(S, text, s \o t, n, k)
  <1>1. /\ s \in Seq(S) /\ t \in Seq(S) /\ Len(s) \in Nat /\ Len(t) \in Nat
        /\ m = n + Len(s) /\ k = m + Len(t)
    BY DEF Piece
  <1>2. /\ s \o t \in Seq(S) /\ Len(s \o t) = Len(s) + Len(t)
        /\ \A i \in 1 .. Len(s) + Len(t) : (s \o t)[i] = IF i <= Len(s) THEN s[i] ELSE t[i - Len(s)]
    BY <1>1, ConcatProperties
  <1>3. ASSUME NEW i \in 1 .. Len(s) + Len(t) PROVE (s \o t)[i] = text[n + i]
    <2>1. CASE i <= Len(s)
      <3>1. i \in 1 .. Len(s)
        BY <1>1, <2>1
      <3> QED
        BY <1>2, <2>1, <3>1 DEF Piece
    <2>2. CASE i > Len(s)
      <3>1. i - Len(s) \in 1 .. Len(t) /\ m + (i - Len(s)) = n + i /\ ~(i <= Len(s))
        BY <1>1, <2>2
      <3>2. t[i - Len(s)] = text[m + (i - Len(s))]
        BY <3>1 DEF Piece
      <3> QED
        BY <1>2, <3>1, <3>2
    <2> QED
      BY <1>1, <2>1, <2>2
  <1> QED
    BY <1>1, <1>2, <1>3 DEF Piece

\* A piece that is cut is two pieces.
LEMMA PieceCut ==
  ASSUME NEW S, NEW text, NEW s, NEW n \in Nat, NEW m \in Nat, Piece(S, text, s, n, m),
         NEW i \in Nat, i <= Len(s)
  PROVE  /\ Piece(S, text, SubSeq(s, 1, i), n, n + i)
         /\ Piece(S, text, SubSeq(s, i + 1, Len(s)), n + i, m)
  <1>1. s \in Seq(S) /\ Len(s) \in Nat /\ m = n + Len(s)
    BY DEF Piece
  <1>2. Piece(S, s, SubSeq(s, 1, i), 0, i) /\ Piece(S, s, SubSeq(s, i + 1, Len(s)), i, Len(s))
    <2>1. Piece(S, s, SubSeq(s, 0 + 1, i), 0, i)
      BY <1>1, PieceOf
    <2>2. Piece(S, s, SubSeq(s, i + 1, Len(s)), i, Len(s))
      BY <1>1, PieceOf
    <2> QED
      BY <2>1, <2>2
  <1>5. SubSeq(s, 1, i) \in Seq(S) /\ Len(SubSeq(s, 1, i)) = i
    BY <1>2, PieceLength
  <1>3. Piece(S, text, SubSeq(s, 1, i), n, n + i)
    <2>1. ASSUME NEW j \in 1 .. Len(SubSeq(s, 1, i)) PROVE SubSeq(s, 1, i)[j] = text[n + j]
      <3>1. j \in 1 .. Len(s) /\ SubSeq(s, 1, i)[j] = s[0 + j] /\ 0 + j = j
        BY <1>1, <1>2 DEF Piece
      <3> QED
        BY <3>1 DEF Piece
    <2> QED
      BY <1>5, <2>1 DEF Piece
  <1>4. Piece(S, text, SubSeq(s, i + 1, Len(s)), n + i, m)
    <2>0. SubSeq(s, i + 1, Len(s)) \in Seq(S) /\ Len(SubSeq(s, i + 1, Len(s))) = Len(s) - i
      BY <1>1, <1>2, PieceLength
    <2>1. ASSUME NEW j \in 1 .. Len(SubSeq(s, i + 1, Len(s)))
          PROVE  SubSeq(s, i + 1, Len(s))[j] = text[n + i + j]
      <3>1. /\ i + j \in 1 .. Len(s) /\ n + i + j = n + (i + j)
            /\ SubSeq(s, i + 1, Len(s))[j] = s[i + j]
        BY <1>1, <1>2 DEF Piece
      <3> QED
        BY <3>1 DEF Piece
    <2> QED
      <3>1. n + i + Len(SubSeq(s, i + 1, Len(s))) = m
        <4>1. n + i + (Len(s) - i) = m
          BY <1>1
        <4> QED
          BY <2>0, <4>1
      <3> QED
        BY <2>0, <2>1, <3>1 DEF Piece
  <1> QED
    BY <1>3, <1>4

\* The parts of a joined piece are pieces.
LEMMA PieceSplit ==
  ASSUME NEW S, NEW text, NEW n \in Nat, NEW m \in Nat,
         NEW s \in Seq(S), NEW t \in Seq(S), Piece(S, text, s \o t, n, m)
  PROVE  Piece(S, text, s, n, n + Len(s)) /\ Piece(S, text, t, n + Len(s), m)
  <1>1. /\ s \o t \in Seq(S) /\ Len(s \o t) = Len(s) + Len(t) /\ Len(s) \in Nat /\ Len(t) \in Nat
        /\ \A i \in 1 .. Len(s) + Len(t) : (s \o t)[i] = IF i <= Len(s) THEN s[i] ELSE t[i - Len(s)]
    BY ConcatProperties
  <1>2. \A i \in 1 .. Len(s) + Len(t) : (s \o t)[i] = text[n + i]
    BY <1>1 DEF Piece
  <1>3. n + (Len(s) + Len(t)) = m
    BY <1>1 DEF Piece
  <1>4. ASSUME NEW i \in 1 .. Len(s) PROVE s[i] = text[n + i]
    BY <1>1, <1>2
  <1>5. ASSUME NEW i \in 1 .. Len(t) PROVE t[i] = text[n + Len(s) + i]
    <2>1. /\ Len(s) + i \in 1 .. Len(s) + Len(t) /\ ~(Len(s) + i <= Len(s)) /\ Len(s) + i - Len(s) = i
          /\ n + (Len(s) + i) = n + Len(s) + i
      BY <1>1
    <2>2. (s \o t)[Len(s) + i] = t[Len(s) + i - Len(s)]
      BY <1>1, <2>1
    <2> QED
      BY <1>2, <2>1, <2>2
  <1> QED
    BY <1>1, <1>3, <1>4, <1>5 DEF Piece

\* Two pieces of a text from and to the same places are equal.
LEMMA PieceSame ==
  ASSUME NEW S, NEW text, NEW n \in Nat, NEW m \in Nat,
         NEW s, Piece(S, text, s, n, m), NEW t, Piece(S, text, t, n, m)
  PROVE  s = t
  <1>1. s \in Seq(S) /\ t \in Seq(S) /\ Len(s) = Len(t) /\ \A i \in 1 .. Len(s) : s[i] = t[i]
    BY DEF Piece
  <1> QED
    BY <1>1, SeqEqual

-----------------------------------------------------------------------------
(***************************************************************************)
(* Arithmetic of size_t, and whole blocks of a text.                       *)
(***************************************************************************)
\* size_t arithmetic that does not wrap.
LEMMA ModSmall ==
  ASSUME NEW x \in Nat, NEW w \in Nat, x < w PROVE x % w = x
  OBVIOUS

\* size_t arithmetic that wraps once.
LEMMA ModBelow ==
  ASSUME NEW x \in Int, NEW w \in Nat, x < 0, 0 <= x + w PROVE x % w = x + w
  OBVIOUS

\* A list cut at m.
LEMMA SplitAt ==
  ASSUME NEW S, NEW d \in Seq(S), NEW m \in Nat, m <= Len(d)
  PROVE  /\ SubSeq(d, 1, m) \in Seq(S) /\ Len(SubSeq(d, 1, m)) = m
         /\ SubSeq(d, m + 1, Len(d)) \in Seq(S) /\ Len(SubSeq(d, m + 1, Len(d))) = Len(d) - m
         /\ SubSeq(d, 1, m) \o SubSeq(d, m + 1, Len(d)) = d
  <1>0. Len(d) \in Nat
    OBVIOUS
  <1>1. Piece(S, d, SubSeq(d, m + 1, Len(d)), m, Len(d)) /\ Piece(S, d, SubSeq(d, 0 + 1, m), 0, m)
    <2>1. 0 \in Nat /\ 0 <= m /\ m <= Len(d) /\ Len(d) <= Len(d)
      BY <1>0
    <2> QED
      BY <1>0, <2>1, PieceOf
  <1>2. SubSeq(d, 1, m) \o SubSeq(d, m + 1, Len(d)) = SubSeq(d, 1, Len(d))
    <2>1. 1 \in 1 .. Len(d) + 1 /\ m \in 1 - 1 .. Len(d) /\ Len(d) \in m .. Len(d)
      BY <1>0
    <2> QED
      BY <2>1, ConcatAdjacentSubSeq
  <1>3. SubSeq(d, 1, Len(d)) = d
    BY SubSeqFull
  <1>5. /\ SubSeq(d, m + 1, Len(d)) \in Seq(S) /\ Len(SubSeq(d, m + 1, Len(d))) = Len(d) - m
    BY <1>0, <1>1, PieceLength
  <1>6. /\ SubSeq(d, 1, m) \in Seq(S) /\ Len(SubSeq(d, 1, m)) = m
    <2>1. Piece(S, d, SubSeq(d, 1, m), 0, m)
      BY <1>1
    <2>2. SubSeq(d, 1, m) \in Seq(S) /\ Len(SubSeq(d, 1, m)) = m - 0
      BY <2>1, PieceLength
    <2> QED
      BY <2>2
  <1>7. SubSeq(d, 1, m) \o SubSeq(d, m + 1, Len(d)) = d
    BY <1>2, <1>3, Zenon
  <1> QED
    BY <1>5, <1>6, <1>7, Zenon

\* Two lists joined, a part of a list, and the text of a list of lists: names
\* under which the provers do not expand them.
Cat(s, t) == s \o t
Cut(s, m, n) == SubSeq(s, m, n)
All(s) == FlattenSeq(s)

\* The length of a concatenation.
LEMMA CatType ==
  ASSUME NEW S, NEW s \in Seq(S), NEW t \in Seq(S)
  PROVE  Cat(s, t) \in Seq(S) /\ Len(Cat(s, t)) = Len(s) + Len(t)
  BY DEF Cat

\* The elements of a concatenation.
LEMMA CatElement ==
  ASSUME NEW S, NEW s \in Seq(S), NEW t \in Seq(S), NEW i \in 1 .. Len(s) + Len(t)
  PROVE  Cat(s, t)[i] = IF i <= Len(s) THEN s[i] ELSE t[i - Len(s)]
  BY ConcatProperties DEF Cat

\* The empty list is neutral.
LEMMA CatEmpty ==
  ASSUME NEW S, NEW s \in Seq(S)
  PROVE  Cat(<<>>, s) = s /\ Cat(s, <<>>) = s
  BY DEF Cat

\* Concatenation is associative.
LEMMA CatAssociative ==
  ASSUME NEW S, NEW s \in Seq(S), NEW t \in Seq(S), NEW u \in Seq(S)
  PROVE  Cat(Cat(s, t), u) = Cat(s, Cat(t, u))
  BY ConcatAssociative DEF Cat

\* Two cuts that make up a list.
LEMMA CutHalves ==
  ASSUME NEW S, NEW d \in Seq(S), NEW m \in Nat, m <= Len(d)
  PROVE  /\ Cut(d, 1, m) \in Seq(S) /\ Len(Cut(d, 1, m)) = m
         /\ Cut(d, m + 1, Len(d)) \in Seq(S) /\ Len(Cut(d, m + 1, Len(d))) = Len(d) - m
         /\ Cat(Cut(d, 1, m), Cut(d, m + 1, Len(d))) = d
  BY SplitAt DEF Cut, Cat

\* The text of no lists.
LEMMA AllEmpty == All(<<>>) = <<>>
  BY FlattenEmpty DEF All

\* The type of a text.
LEMMA AllType ==
  ASSUME NEW S, NEW s \in Seq(Seq(S)) PROVE All(s) \in Seq(S)
  BY FlattenType DEF All

\* The text of one list.
LEMMA AllOne ==
  ASSUME NEW S, NEW e \in Seq(S) PROVE <<e>> \in Seq(Seq(S)) /\ All(<<e>>) = e
  BY FlattenOne DEF All

\* The text of two lists of lists is that of the first and of the second.
LEMMA AllCat ==
  ASSUME NEW S, NEW s \in Seq(Seq(S)), NEW t \in Seq(Seq(S))
  PROVE  All(Cat(s, t)) = Cat(All(s), All(t))
  BY FlattenConcat DEF Cat, All

\* Lists whose members all have length k.
Full(s, k) == \A i \in 1 .. Len(s) : Len(s[i]) = k

\* Full blocks behind full blocks.
LEMMA FullCat ==
  ASSUME NEW S, NEW s \in Seq(Seq(S)), NEW t \in Seq(Seq(S)), NEW k, Full(s, k), Full(t, k)
  PROVE  Full(Cat(s, t), k)
  <1> DEFINE Lists == Seq(S)
  <1>t. s \in Seq(Lists) /\ t \in Seq(Lists)
    OBVIOUS
  <1> HIDE DEF Lists
  <1>0. Len(s) \in Nat /\ Len(t) \in Nat /\ Len(Cat(s, t)) = Len(s) + Len(t)
    <2>1. Len(Cat(s, t)) = Len(s) + Len(t)
      BY <1>t, CatType
    <2>2. Len(s) \in Nat /\ Len(t) \in Nat
      BY <1>t
    <2> QED
      BY <2>1, <2>2
  <1>1. ASSUME NEW i \in 1 .. Len(s) + Len(t) PROVE Len(Cat(s, t)[i]) = k
    <2>1. Cat(s, t)[i] = IF i <= Len(s) THEN s[i] ELSE t[i - Len(s)]
      BY <1>t, CatElement
    <2>2. CASE i <= Len(s)
      <3>1. i \in 1 .. Len(s)
        BY <1>0, <2>2
      <3> QED
        BY <2>1, <2>2, <3>1 DEF Full
    <2>3. CASE ~(i <= Len(s))
      <3>1. i - Len(s) \in 1 .. Len(t)
        BY <1>0, <2>3
      <3> QED
        BY <2>1, <2>3, <3>1 DEF Full
    <2> QED
      BY <2>2, <2>3
  <1> QED
    BY <1>0, <1>1 DEF Full

\* n blocks of length k are whole in a text of length len, and end at m.
Fills(len, k, n, m) == m \in Nat /\ m = n * k /\ m <= len /\ len < m + k

\* How many whole blocks there are is the quotient.
LEMMA FillsQuotient ==
  ASSUME NEW len \in Nat, NEW k \in Nat \ {0}
  PROVE  len \div k \in Nat /\ Fills(len, k, len \div k, (len \div k) * k)
  <1>1. len \div k \in Nat /\ (len \div k) * k <= len /\ len < (len \div k) * k + k
    BY Quotient
  <1> DEFINE n == len \div k
  <1>2. n * k \in Nat
    <2>1. n \in Nat
      BY <1>1
    <2> HIDE DEF n
    <2> QED
      BY <2>1
  <1> HIDE DEF n
  <1> QED
    BY <1>1, <1>2 DEF Fills, n

\* The whole blocks at the beginning of d, and their text.
LEMMA BlocksOfFill ==
  ASSUME NEW S, NEW d \in Seq(S), NEW k \in Nat \ {0}, NEW n \in Nat, NEW m, Fills(Len(d), k, n, m)
  PROVE  /\ Blocks(d, k, n) \in Seq(Seq(S)) /\ Full(Blocks(d, k, n), k)
         /\ All(Blocks(d, k, n)) = Cut(d, 1, m)
  <1>1. m \in Nat /\ m = n * k /\ m <= Len(d)
    BY DEF Fills
  <1> QED
    BY <1>1, BlocksWhole, BlocksText DEF Full, All, Cut

\* s elements complete the block begun with r, and n whole blocks follow.
LEMMA CutBlocks ==
  ASSUME NEW S, NEW r \in Seq(S), NEW d \in Seq(S), NEW k \in Nat \ {0}, NEW s \in Nat,
         Len(r) + s = k, s <= Len(d),
         NEW b, b = Cut(d, s + 1, Len(d)), NEW n \in Nat, NEW m, Fills(Len(b), k, n, m),
         NEW out, out = Cat(<<Cat(r, Cut(d, 1, s))>>, Blocks(b, k, n)),
         NEW more, more = Cut(b, m + 1, Len(b))
  PROVE  /\ out \in Seq(Seq(S)) /\ more \in Seq(S) /\ Len(more) < k
         /\ Cat(All(out), more) = Cat(r, d)
         /\ Full(out, k)
  <1> DEFINE x == Cut(d, 1, s)
             h == Cat(r, x)
  <1>1. x \in Seq(S) /\ Len(x) = s /\ b \in Seq(S) /\ d = Cat(x, b)
    BY CutHalves
  <1> HIDE DEF x
  <1>2. h \in Seq(S) /\ Len(h) = k
    BY <1>1, CatType
  <1> HIDE DEF h
  <1>3. Len(b) \in Nat
    BY <1>1
  <1>4. m \in Nat /\ m <= Len(b) /\ Len(b) < m + k
    BY DEF Fills
  <1> DEFINE y == Cut(b, 1, m)
             bs == Blocks(b, k, n)
  <1>5. y \in Seq(S) /\ more \in Seq(S) /\ Len(more) = Len(b) - m /\ Cat(y, more) = b
    BY <1>1, <1>4, CutHalves
  <1>6. /\ bs \in Seq(Seq(S)) /\ Full(bs, k) /\ All(bs) = y
    BY <1>1, BlocksOfFill
  <1> HIDE DEF y, bs
  <1>7. out = Cat(<<h>>, bs)
    BY DEF h, x, bs
  <1>8. <<h>> \in Seq(Seq(S)) /\ All(<<h>>) = h
    BY <1>2, AllOne
  <1>9. Full(<<h>>, k)
    BY <1>2 DEF Full
  <1> DEFINE one == <<h>>
  <1>10. one \in Seq(Seq(S)) /\ All(one) = h /\ Full(one, k) /\ out = Cat(one, bs)
    BY <1>7, <1>8, <1>9
  <1> HIDE DEF one
  <1>11. out \in Seq(Seq(S)) /\ All(out) = Cat(h, y) /\ Full(out, k)
    BY <1>6, <1>10, CatType, AllCat, FullCat
  <1>12. Cat(Cat(h, y), more) = Cat(h, b)
    BY <1>2, <1>5, CatAssociative
  <1>13. Cat(h, b) = Cat(r, d)
    BY <1>1, CatAssociative DEF h
  <1>14. Len(more) < k
    BY <1>3, <1>4, <1>5
  <1> QED
    BY <1>5, <1>11, <1>12, <1>13, <1>14

-----------------------------------------------------------------------------
(***************************************************************************)
(* HttpReader: an answer with a Content-Length.  That the blocks are the   *)
(* body is not inductive: the invariant says where in the answer every     *)
(* byte is that was read and not yet handed over.                          *)
(***************************************************************************)
\* Short names: the lengths of the body and of a block.
BodyLen == m_uContentLength
BlockLen == m_iBlockSize
\* What procBlocks() makes of the bytes d behind the kept bytes rb.
Cuts(rb, d) == Answer!ProcBlocks(rb, d, FALSE)

\* procBlocks() on bytes that are not the last ones.
LEMMA ProcCuts ==
  ASSUME NEW S, NEW rb \in Seq(S), NEW d \in Seq(S), BlockLen \in Nat \ {0}, Word \in Nat,
         Len(rb) + Len(d) + BlockLen < Word
  PROVE  LET p == Cuts(rb, d)
         IN /\ p.out \in Seq(Seq(S)) /\ p.rest \in Seq(S)
            /\ Cat(All(p.out), p.rest) = Cat(rb, d)
            /\ Len(rb) <= BlockLen => Len(p.rest) <= BlockLen /\ Full(p.out, BlockLen)
  <1> DEFINE s == (BlockLen - Len(rb)) % Word
             fits == s <= Len(d)
             b == Cut(d, s + 1, Len(d))
             n == Len(b) \div BlockLen
             m == n * BlockLen
             out == Cat(<<Cat(rb, Cut(d, 1, s))>>, Blocks(b, BlockLen, n))
             more == Cut(b, m + 1, Len(b))
  <1>0. Len(rb) \in Nat /\ Len(d) \in Nat
    OBVIOUS
  <1>1. Len(rb) > BlockLen => s = BlockLen - Len(rb) + Word
    <2>1. Len(rb) > BlockLen => BlockLen - Len(rb) \in Int /\ BlockLen - Len(rb) < 0 /\ 0 <= BlockLen - Len(rb) + Word
      BY <1>0
    <2> QED
      BY <2>1, ModBelow
  <1>2. Len(rb) <= BlockLen => s = BlockLen - Len(rb)
    <2>1. Len(rb) <= BlockLen => BlockLen - Len(rb) \in Nat /\ BlockLen - Len(rb) < Word
      BY <1>0
    <2> QED
      BY <2>1, ModSmall
  <1>3. Cuts(rb, d) = IF fits THEN [out |-> out, rest |-> Cat(<<>>, more)]
                                     ELSE [out |-> <<>>, rest |-> Cat(rb, d)]
    BY DEF Cuts, Answer!ProcBlocks, BlockLen, Cat, Cut, Blocks
  <1>4. s \in Int /\ (Len(rb) > BlockLen => ~fits)
    BY <1>0, <1>1, <1>2
  <1>5. CASE ~fits
    <2>1. Cuts(rb, d) = [out |-> <<>>, rest |-> Cat(rb, d)]
      BY <1>3, <1>5
    <2>2. Cat(rb, d) \in Seq(S) /\ Len(Cat(rb, d)) = Len(rb) + Len(d) /\ Cat(<<>>, Cat(rb, d)) = Cat(rb, d)
      BY CatType, CatEmpty
    <2>3. Len(rb) <= BlockLen => Len(rb) + Len(d) <= BlockLen
      BY <1>0, <1>2, <1>5
    <2>4. <<>> \in Seq(Seq(S)) /\ Full(<<>>, BlockLen)
      BY DEF Full
    <2> HIDE DEF fits, s
    <2> DEFINE p == Cuts(rb, d)
               c == Cat(rb, d)
    <2>5. p.out = <<>> /\ p.rest = c
      BY <2>1
    <2>6. c \in Seq(S) /\ Len(c) = Len(rb) + Len(d) /\ Cat(<<>>, c) = c
      BY <2>2
    <2> HIDE DEF p, c
    <2>7. p.out \in Seq(Seq(S)) /\ Full(p.out, BlockLen)
      BY <2>4, <2>5
    <2>8. Cat(All(p.out), p.rest) = c
      BY <2>5, <2>6, AllEmpty
    <2>9. Len(rb) <= BlockLen => Len(p.rest) <= BlockLen
      BY <2>3, <2>5, <2>6
    <2> QED
      BY <2>5, <2>6, <2>7, <2>8, <2>9 DEF p, c
  <1>6. CASE fits
    <2>1. Len(rb) <= BlockLen /\ s = BlockLen - Len(rb) /\ s \in Nat /\ Len(rb) + s = BlockLen /\ s <= Len(d)
      BY <1>0, <1>2, <1>4, <1>6
    <2>2. Cuts(rb, d) = [out |-> out, rest |-> Cat(<<>>, more)]
      BY <1>3, <1>6
    <2> HIDE DEF fits, s
    <2>3. Len(b) \in Nat
      <3>1. b \in Seq(S)
        BY <2>1, CutHalves
      <3> QED
        BY <3>1
    <2>4. n \in Nat /\ Fills(Len(b), BlockLen, n, m)
      <3> DEFINE len == Len(b)
      <3> HIDE DEF b
      <3> QED
        BY <2>3, FillsQuotient
    <2> HIDE DEF m, n
    <2> DEFINE bb == b
               oo == out
               mm == more
    <2>5. bb = Cut(d, s + 1, Len(d)) /\ oo = Cat(<<Cat(rb, Cut(d, 1, s))>>, Blocks(bb, BlockLen, n)) /\ mm = Cut(bb, m + 1, Len(bb))
      OBVIOUS
    <2>6. Fills(Len(bb), BlockLen, n, m)
      BY <2>4
    <2> HIDE DEF bb, oo, mm
    <2>7. /\ oo \in Seq(Seq(S)) /\ mm \in Seq(S) /\ Len(mm) < BlockLen
          /\ Cat(All(oo), mm) = Cat(rb, d)
          /\ Full(oo, BlockLen)
      BY <2>1, <2>4, <2>5, <2>6, CutBlocks
    <2>8. Cuts(rb, d) = [out |-> oo, rest |-> mm]
      BY <2>2, <2>7, CatEmpty DEF oo, mm
    <2>9. Len(mm) <= BlockLen
      BY <2>7
    <2> DEFINE p == Cuts(rb, d)
    <2>10. p.out = oo /\ p.rest = mm
      BY <2>8
    <2> HIDE DEF p
    <2> QED
      BY <2>7, <2>9, <2>10 DEF p
  <1> QED
    BY <1>5, <1>6

\* What procBlocks() hands over at the end of the body.
Ends(rb) == Answer!ProcBlocks(rb, <<>>, TRUE)
\* What Push() makes of the bytes of one read.
Taking(rb, d) == IF d = <<>> THEN [out |-> <<>>, rest |-> rb] ELSE Cuts(rb, d)

\* No member is longer than k, and only the last may be shorter.
Tight(s, k) == /\ \A i \in 1 .. Len(s) : Len(s[i]) <= k
               /\ \A i \in 1 .. Len(s) - 1 : Len(s[i]) = k

\* Full blocks before blocks of which only the last may be short.
LEMMA TightCat ==
  ASSUME NEW S, NEW s \in Seq(Seq(S)), NEW t \in Seq(Seq(S)), NEW k \in Nat, Full(s, k), Tight(t, k)
  PROVE  Tight(Cat(s, t), k)
  <1> DEFINE Lists == Seq(S)
  <1>t. s \in Seq(Lists) /\ t \in Seq(Lists)
    OBVIOUS
  <1> HIDE DEF Lists
  <1>0. Len(s) \in Nat /\ Len(t) \in Nat
    BY <1>t
  <1>1. Len(Cat(s, t)) = Len(s) + Len(t)
    BY <1>t, CatType
  <1>2. ASSUME NEW i \in 1 .. Len(s) + Len(t)
        PROVE  Len(Cat(s, t)[i]) <= k /\ (i < Len(s) + Len(t) => Len(Cat(s, t)[i]) = k)
    <2>1. Cat(s, t)[i] = IF i <= Len(s) THEN s[i] ELSE t[i - Len(s)]
      BY <1>t, CatElement
    <2>2. CASE i <= Len(s)
      <3>1. i \in 1 .. Len(s)
        BY <1>0, <2>2
      <3>2. Len(Cat(s, t)[i]) = k
        BY <2>1, <2>2, <3>1 DEF Full
      <3> QED
        BY <3>2
    <2>3. CASE ~(i <= Len(s))
      <3>1. i - Len(s) \in 1 .. Len(t) /\ (i < Len(s) + Len(t) => i - Len(s) \in 1 .. Len(t) - 1)
        BY <1>0, <2>3
      <3> QED
        BY <2>1, <2>3, <3>1 DEF Tight
    <2> QED
      BY <2>2, <2>3
  <1>3. \A i \in 1 .. Len(s) + Len(t) - 1 : i \in 1 .. Len(s) + Len(t) /\ i < Len(s) + Len(t)
    BY <1>0
  <1> QED
    BY <1>1, <1>2, <1>3 DEF Tight

\* Full blocks are not longer than a block.
LEMMA FullTight ==
  ASSUME NEW S, NEW s \in Seq(Seq(S)), NEW k \in Nat, Full(s, k)
  PROVE  Tight(s, k)
  <1>0. Len(s) \in Nat /\ \A i \in 1 .. Len(s) - 1 : i \in 1 .. Len(s)
    OBVIOUS
  <1>1. \A i \in 1 .. Len(s) : Len(s[i]) = k
    BY DEF Full
  <1> QED
    BY <1>0, <1>1 DEF Tight

\* The first blocks of blocks of which only the last may be short.
LEMMA TightCut ==
  ASSUME NEW S, NEW s \in Seq(Seq(S)), NEW k \in Nat, Tight(s, k), NEW n \in Nat, n <= Len(s)
  PROVE  Tight(Cut(s, 1, n), k)
  <1> DEFINE Lists == Seq(S)
             c == Cut(s, 1, n)
  <1>t. s \in Seq(Lists)
    OBVIOUS
  <1> HIDE DEF Lists
  <1>0. Len(s) \in Nat /\ 0 + 1 = 1
    BY <1>t
  <1>1. Piece(Lists, s, c, 0, n)
    BY <1>0, <1>t, PieceOf DEF Cut
  <1>2. Len(c) = n /\ \A i \in 1 .. n : c[i] = s[i]
    BY <1>1 DEF Piece
  <1> HIDE DEF c
  <1>3. /\ \A i \in 1 .. n : i \in 1 .. Len(s)
        /\ \A i \in 1 .. n - 1 : i \in 1 .. n /\ i \in 1 .. Len(s) - 1
    BY <1>0
  <1>4. \A i \in 1 .. n : Len(c[i]) <= k
    BY <1>2, <1>3 DEF Tight
  <1>5. \A i \in 1 .. n - 1 : Len(c[i]) = k
    BY <1>2, <1>3 DEF Tight
  <1>6. Tight(c, k)
    BY <1>2, <1>4, <1>5 DEF Tight
  <1> QED
    BY <1>6 DEF c

\* A list of two.
LEMMA AppendOne ==
  ASSUME NEW S, NEW x \in S, NEW y \in S
  PROVE  Append(<<x>>, y) = <<x, y>>
  <1> DEFINE a == Append(<<x>>, y)
  b == <<x, y>>
  <1>1. a \in Seq(S) /\ Len(a) = 2 /\ a[1] = x /\ a[2] = y
    OBVIOUS
  <1>2. b \in Seq(S) /\ Len(b) = 2 /\ b[1] = x /\ b[2] = y
    OBVIOUS
  <1> HIDE DEF a, b
  <1>3. \A i \in 1 .. Len(a) : a[i] = b[i]
    <2>1. \A i \in 1 .. 2 : i = 1 \/ i = 2
      OBVIOUS
    <2> QED
    BY <1>1, <1>2, <2>1
  <1>4. a = b
    BY <1>1, <1>2, <1>3, SeqEqual
  <1> QED
    BY <1>4 DEF a, b

\* At the end procBlocks() hands over what is left.
LEMMA EndsWith ==
  ASSUME NEW S, NEW rb \in Seq(S), BlockLen \in Nat \ {0}, Word \in Nat, Len(rb) + BlockLen < Word
  PROVE  /\ Ends(rb).out \in Seq(Seq(S)) /\ Ends(rb).rest = <<>>
         /\ All(Ends(rb).out) = rb
         /\ Len(rb) <= BlockLen => Tight(Ends(rb).out, BlockLen)
  <1> DEFINE s == (BlockLen - Len(rb)) % Word
             p == Ends(rb)
  <1>0. Len(rb) \in Nat
    OBVIOUS
  <1>1. Len(rb) > BlockLen => s = BlockLen - Len(rb) + Word
    <2>1. Len(rb) > BlockLen => BlockLen - Len(rb) \in Int /\ BlockLen - Len(rb) < 0 /\ 0 <= BlockLen - Len(rb) + Word
      BY <1>0
    <2> QED
      BY <2>1, ModBelow
  <1>2. Len(rb) <= BlockLen => s = BlockLen - Len(rb)
    <2>1. Len(rb) <= BlockLen => BlockLen - Len(rb) \in Nat /\ BlockLen - Len(rb) < Word
      BY <1>0
    <2> QED
      BY <2>1, ModSmall
  <1>3. s <= 0 <=> Len(rb) = BlockLen
    BY <1>0, <1>1, <1>2
  <1> DEFINE one == <<rb>>
             two == <<rb, <<>>>>
  <1>4. one \in Seq(Seq(S)) /\ All(one) = rb
    BY AllOne
  <1> DEFINE nil == <<>>
             no == <<nil>>
  <1>5. no \in Seq(Seq(S)) /\ All(no) = <<>> /\ two = Cat(one, no)
    <2>1. nil \in Seq(S)
      OBVIOUS
    <2>2. two = <<rb>> \o <<nil>>
      OBVIOUS
    <2>3. no \in Seq(Seq(S)) /\ All(no) = nil
      <3> HIDE DEF nil
      <3> QED
        BY <2>1, AllOne
    <2> QED
      BY <2>2, <2>3 DEF Cat
  <1> HIDE DEF no
  <1>6. two \in Seq(Seq(S)) /\ All(two) = rb
    <2>1. two \in Seq(Seq(S))
      BY <1>5
    <2>2. All(Cat(one, no)) = Cat(rb, <<>>)
      BY <1>4, <1>5, AllCat
    <2> QED
      BY <1>5, <2>1, <2>2, CatEmpty
  <1>7. CASE Len(rb) = BlockLen
    <2>1. s = 0
      BY <1>0, <1>2, <1>7
    <2>2. Answer!ProcBlocks(rb, <<>>, TRUE).out = Append(<<rb \o SubSeq(<<>>, 1, s)>> \o Blocks(SubSeq(<<>>, s + 1, 0), BlockLen, Len(SubSeq(<<>>, s + 1, 0)) \div BlockLen), <<>>)
      BY <1>3, <1>7 DEF Answer!ProcBlocks, BlockLen, Blocks
    <2>3. /\ SubSeq(<<>>, 1, s) = <<>> /\ SubSeq(<<>>, s + 1, 0) = <<>>
          /\ Len(SubSeq(<<>>, s + 1, 0)) \div BlockLen = 0
      <3>1. SubSeq(<<>>, 1, 0) = <<>> /\ SubSeq(<<>>, 1, s) = SubSeq(<<>>, 1, 0)
        BY <2>1
      <3>2. Len(<<>>) \div BlockLen = 0
        <4>1. 0 \div BlockLen = 0 /\ Len(<<>>) = 0
          OBVIOUS
        <4> QED
          BY <4>1
      <3>3. SubSeq(<<>>, s + 1, 0) = SubSeq(<<>>, 1, 0)
        BY <2>1
      <3>4. SubSeq(<<>>, 1, s) = <<>> /\ SubSeq(<<>>, s + 1, 0) = <<>>
        BY <3>1, <3>3
      <3>5. Len(SubSeq(<<>>, s + 1, 0)) \div BlockLen = 0
        <4> HIDE DEF s
        <4> QED
          BY <3>2, <3>4
      <3> QED
        BY <3>4, <3>5
    <2>4. Blocks(<<>>, BlockLen, 0) = <<>> /\ rb \o <<>> = rb
      BY DEF Blocks
    <2>5. Append(<<rb>> \o <<>>, <<>>) = two
      <3>1. <<rb>> \o <<>> = <<rb>>
        OBVIOUS
      <3>2. Append(<<rb>>, <<>>) = <<rb, <<>>>>
        <4>1. <<>> \in Seq(S)
          OBVIOUS
        <4> QED
          BY <4>1, AppendOne
      <3> QED
        BY <3>1, <3>2
    <2>6. p.out = two /\ p.rest = <<>>
      <3>1. p.rest = <<>>
        BY DEF Ends, Answer!ProcBlocks
      <3> HIDE DEF s
      <3> QED
        BY <2>2, <2>3, <2>4, <2>5, <3>1 DEF Ends
    <2>7. Tight(two, BlockLen)
      BY <1>7 DEF Tight
    <2> HIDE DEF p, two
    <2> QED
      BY <1>6, <2>6, <2>7 DEF p
  <1>8. CASE Len(rb) # BlockLen
    <2>1. ~(s <= 0)
      BY <1>3, <1>8
    <2>2. p.out = Append(<<>>, rb) /\ p.rest = <<>>
      BY <2>1 DEF Ends, Answer!ProcBlocks, BlockLen
    <2>3. Append(<<>>, rb) = one
      OBVIOUS
    <2>4. Len(rb) <= BlockLen => Tight(one, BlockLen)
      BY DEF Tight
    <2> HIDE DEF p, one
    <2> QED
      BY <1>4, <2>2, <2>3, <2>4 DEF p
  <1> QED
    BY <1>7, <1>8

\* Push() keeps every byte, in a whole block or behind the blocks.
LEMMA TakingCuts ==
  ASSUME NEW S, NEW rb \in Seq(S), NEW d \in Seq(S), BlockLen \in Nat \ {0}, Word \in Nat,
         Len(rb) + Len(d) + BlockLen < Word
  PROVE  LET p == Taking(rb, d)
         IN /\ p.out \in Seq(Seq(S)) /\ p.rest \in Seq(S)
            /\ Cat(All(p.out), p.rest) = Cat(rb, d)
            /\ Len(rb) <= BlockLen => Len(p.rest) <= BlockLen /\ Full(p.out, BlockLen)
  <1> DEFINE p == Taking(rb, d)
  <1>1. CASE d = <<>>
    <2>1. p.out = <<>> /\ p.rest = rb
      BY <1>1 DEF Taking
    <2>2. <<>> \in Seq(Seq(S)) /\ Full(<<>>, BlockLen)
      BY DEF Full
    <2>3. Cat(<<>>, rb) = rb /\ Cat(rb, <<>>) = rb
      BY CatEmpty
    <2> HIDE DEF p
    <2>4. p.out \in Seq(Seq(S)) /\ p.rest \in Seq(S) /\ Full(p.out, BlockLen)
      BY <2>1, <2>2
    <2>5. Cat(All(p.out), p.rest) = Cat(rb, d)
      BY <1>1, <2>1, <2>3, AllEmpty
    <2> QED
      BY <2>1, <2>4, <2>5 DEF p
  <1>2. CASE d # <<>>
    BY <1>2, ProcCuts DEF Taking
  <1> QED
    BY <1>1, <1>2

\* Pieces of a text, joined and cut.
LEMMA PieceCat ==
  ASSUME NEW S, NEW text, NEW n \in Nat, NEW m \in Nat, NEW k \in Nat,
         NEW s, Piece(S, text, s, n, m), NEW t, Piece(S, text, t, m, k)
  PROVE  Piece(S, text, Cat(s, t), n, k)
  BY PieceJoin DEF Cat

\* The same of the opaque concatenation.
LEMMA PieceParts ==
  ASSUME NEW S, NEW text, NEW n \in Nat, NEW m \in Nat,
         NEW s \in Seq(S), NEW t \in Seq(S), Piece(S, text, Cat(s, t), n, m)
  PROVE  Piece(S, text, s, n, n + Len(s)) /\ Piece(S, text, t, n + Len(s), m)
  BY PieceSplit DEF Cat

\* The same of the opaque cuts.
LEMMA PieceHalves ==
  ASSUME NEW S, NEW text, NEW s, NEW n \in Nat, NEW m \in Nat, Piece(S, text, s, n, m),
         NEW i \in Nat, i <= Len(s)
  PROVE  /\ Piece(S, text, Cut(s, 1, i), n, n + i)
         /\ Piece(S, text, Cut(s, i + 1, Len(s)), n + i, m)
  BY PieceCut DEF Cut

\* The first lists of a list of lists: their text, and that of the others.
LEMMA AllHalves ==
  ASSUME NEW S, NEW s \in Seq(Seq(S)), NEW i \in Nat, i <= Len(s)
  PROVE  /\ Cut(s, 1, i) \in Seq(Seq(S))
         /\ \E e \in Seq(S) : All(s) = Cat(All(Cut(s, 1, i)), e)
  <1> DEFINE Lists == Seq(S)
             a == Cut(s, 1, i)
             b == Cut(s, i + 1, Len(s))
  <1>t. s \in Seq(Lists)
    OBVIOUS
  <1>1. a \in Seq(Lists) /\ b \in Seq(Lists) /\ Cat(a, b) = s
    <2> HIDE DEF Lists
    <2> QED
      BY <1>t, CutHalves
  <1> HIDE DEF a, b
  <1>2. All(s) = Cat(All(a), All(b)) /\ All(b) \in Seq(S)
    BY <1>1, AllCat, AllType
  <1> QED
    BY <1>1, <1>2 DEF a

\* What is handed over of one read, and what is kept.
LEMMA TakingPieces ==
  ASSUME NEW S, NEW text, NEW rb, NEW d, NEW j \in Nat, NEW m \in Nat, NEW k \in Nat,
         Piece(S, text, rb, j, m), Piece(S, text, d, m, k),
         BlockLen \in Nat \ {0}, Word \in Nat, k - j + BlockLen < Word
  PROVE  LET p == Taking(rb, d)
         IN /\ p.out \in Seq(Seq(S))
            /\ \E i \in Nat : Piece(S, text, All(p.out), j, i) /\ Piece(S, text, p.rest, i, k)
            /\ Len(rb) <= BlockLen => Len(p.rest) <= BlockLen /\ Full(p.out, BlockLen)
  <1> DEFINE p == Taking(rb, d)
  <1>1. rb \in Seq(S) /\ d \in Seq(S) /\ Len(rb) = m - j /\ Len(d) = k - m
    BY PieceLength
  <1>2. Len(rb) + Len(d) + BlockLen < Word
    BY <1>1
  <1>3. /\ p.out \in Seq(Seq(S)) /\ p.rest \in Seq(S)
        /\ Cat(All(p.out), p.rest) = Cat(rb, d)
        /\ Len(rb) <= BlockLen => Len(p.rest) <= BlockLen /\ Full(p.out, BlockLen)
    BY <1>1, <1>2, TakingCuts
  <1> HIDE DEF p
  <1>4. Piece(S, text, Cat(rb, d), j, k)
    BY PieceCat
  <1>5. All(p.out) \in Seq(S)
    BY <1>3, AllType
  <1> DEFINE i == j + Len(All(p.out))
  <1>6. Piece(S, text, Cat(All(p.out), p.rest), j, k)
    BY <1>3, <1>4
  <1>7. Piece(S, text, All(p.out), j, i) /\ Piece(S, text, p.rest, i, k)
    BY <1>3, <1>5, <1>6, PieceParts
  <1>8. i \in Nat
    <2>1. Len(All(p.out)) \in Nat
      BY <1>5
    <2> QED
      BY <2>1
  <1> HIDE DEF i
  <1> QED
    BY <1>3, <1>7, <1>8 DEF p

\* The answer as its list of bytes: status line, one field, blank line, body.
Byte == Int
ReplyOf(l) == <<-1, -3, -4, -2, -3, -4, -3, -4>> \o [i \in 1 .. l |-> i]
\* The bytes of the answer from behind the n-th to the m-th.
At(s, n, m) == Piece(Byte, ReplyOf(BodyLen), s, n, m)

\* The types of HttpReader, and no more read than sent.
AnswerTypes ==
    /\ BodyLen \in Nat /\ BlockLen \in Nat \ {0} /\ BodyLen + BlockLen + HeadMax < Word
    /\ mode \in {"push", "pull"} /\ peer \in {"open", "closed", "reset"}
    /\ sent \in Nat /\ pos \in Nat /\ pos <= sent /\ sent <= 8 + BodyLen
    /\ m_uRecvContentLength \in Nat /\ spill \in Nat
    /\ pc \in {"status", "header", "blocks", "ready", "pull", "done"}
    /\ blocks \in Seq(Seq(Byte))

\* While the head is read: what was received is the answer behind the lines that
\* are taken, first the part searched in vain, then the part not yet searched.
AnswerHead ==
    pc \in {"status", "header"} =>
        /\ blocks = <<>> /\ m_sReaderBuffer = <<>> /\ m_uRecvContentLength = 0
        /\ result = "none" /\ Len(buf) < HeadMax
        /\ buf # <<>> => ~Answer!HasLine(m_sRecvBuffer)
        /\ \E k \in (IF pc = "status" THEN {0} ELSE {3, 6}), j \in Nat :
              At(m_sRecvBuffer, k, j) /\ At(buf, j, pos)

\* What the head's last read got of the body, until it is counted.
Early == IF m_uRecvContentLength = 0 THEN m_sRecvBuffer ELSE <<>>

\* While the body is read: the blocks, the kept bytes and the bytes not yet
\* counted are the body up to where it is read.
AnswerBody ==
    /\ pc = "blocks" =>
          /\ mode = "push" /\ result = "none" /\ pos = 8 + m_uRecvContentLength
          /\ \E j \in Nat : At(All(blocks), 8, j) /\ At(m_sReaderBuffer, j, pos)
    /\ pc \in {"ready", "pull"} =>
          /\ mode = "pull"
          /\ \E j \in Nat : /\ At(All(blocks), 8, j)
                            /\ At(m_sReaderBuffer, j, 8 + m_uRecvContentLength)
                            /\ At(Early, 8 + m_uRecvContentLength, pos)
    /\ pc = "pull" => Early = <<>> /\ m_sReaderBuffer = <<>> /\ want \in Nat \ {0}

\* The blocks are the body from its beginning on.
AnswerGot == \E j \in Nat : j <= 8 + BodyLen /\ At(All(blocks), 8, j)

\* With a listener, success is the whole body.
AnswerEnd == mode = "push" /\ result = "ok" => pc = "done" /\ At(All(blocks), 8, 8 + BodyLen)

\* With a listener, only the last block may be short, unless the head's last read
\* got more than a block (spill).
AnswerBlocks ==
    mode = "push" /\ spill <= BlockLen =>
        /\ pc = "blocks" => Full(blocks, BlockLen)
        /\ Tight(blocks, BlockLen) /\ Len(m_sReaderBuffer) <= BlockLen

\* The inductive invariant of HttpReader.
AnswerInv ==
    AnswerTypes /\ AnswerHead /\ AnswerBody /\ AnswerGot /\ AnswerEnd /\ AnswerBlocks

\* The bytes of an answer with a body of l bytes.
LEMMA ReplyText ==
  ASSUME NEW l \in Nat
  PROVE  /\ ReplyOf(l) \in Seq(Byte) /\ Len(ReplyOf(l)) = 8 + l
         /\ ReplyOf(l)[1] = -1 /\ ReplyOf(l)[2] = -3 /\ ReplyOf(l)[3] = -4
         /\ ReplyOf(l)[4] = -2 /\ ReplyOf(l)[5] = -3 /\ ReplyOf(l)[6] = -4
         /\ ReplyOf(l)[7] = -3 /\ ReplyOf(l)[8] = -4
         /\ \A i \in 1 .. l : ReplyOf(l)[8 + i] = i
  <1> DEFINE h == <<-1, -3, -4, -2, -3, -4, -3, -4>>
             b == [i \in 1 .. l |-> i]
  <1>1. h \in Seq(Byte) /\ Len(h) = 8
    BY DEF Byte
  <1>2. b \in Seq(Byte) /\ Len(b) = l /\ \A i \in 1 .. l : b[i] = i
    BY DEF Byte
  <1>3. ReplyOf(l) = Cat(h, b)
    BY DEF ReplyOf, Cat
  <1>4. /\ h[1] = -1 /\ h[2] = -3 /\ h[3] = -4 /\ h[4] = -2 /\ h[5] = -3 /\ h[6] = -4
        /\ h[7] = -3 /\ h[8] = -4
    OBVIOUS
  <1> HIDE DEF h, b
  <1>5. Cat(h, b) \in Seq(Byte) /\ Len(Cat(h, b)) = 8 + l
    BY <1>1, <1>2, CatType
  <1>6. ASSUME NEW i \in 1 .. 8 + l PROVE Cat(h, b)[i] = IF i <= 8 THEN h[i] ELSE b[i - 8]
    <2>1. i \in 1 .. Len(h) + Len(b)
      BY <1>1, <1>2, <1>6
    <2>2. Cat(h, b)[i] = IF i <= Len(h) THEN h[i] ELSE b[i - Len(h)]
      BY <1>1, <1>2, <2>1, CatElement
    <2> QED
      BY <1>1, <2>2
  <1>7. ASSUME NEW i \in 1 .. 8 PROVE Cat(h, b)[i] = h[i]
    BY <1>6
  <1>8. ASSUME NEW i \in 1 .. l PROVE Cat(h, b)[8 + i] = i
    <2>1. 8 + i \in 1 .. 8 + l /\ ~(8 + i <= 8) /\ 8 + i - 8 = i
      OBVIOUS
    <2> QED
      BY <1>2, <1>6, <2>1
  <1>9. 1 \in 1 .. 8 /\ 2 \in 1 .. 8 /\ 3 \in 1 .. 8 /\ 4 \in 1 .. 8 /\ 5 \in 1 .. 8
        /\ 6 \in 1 .. 8 /\ 7 \in 1 .. 8 /\ 8 \in 1 .. 8
    OBVIOUS
  <1>10. /\ Cat(h, b)[1] = h[1] /\ Cat(h, b)[2] = h[2] /\ Cat(h, b)[3] = h[3]
         /\ Cat(h, b)[4] = h[4] /\ Cat(h, b)[5] = h[5] /\ Cat(h, b)[6] = h[6]
         /\ Cat(h, b)[7] = h[7] /\ Cat(h, b)[8] = h[8]
    BY <1>7, <1>9, Zenon
  <1> QED
    BY <1>3, <1>4, <1>5, <1>8, <1>10

\* The answer of HttpReader, and where its body begins.
LEMMA AnswerText ==
  Answer!Answer = ReplyOf(BodyLen) /\ Len(Answer!Header) = 8
  BY DEF ReplyOf, BodyLen, Answer!Answer, Answer!Header, Answer!STATUS, Answer!FIELD, Answer!CR, Answer!LF

\* What recv() takes with room for cap bytes.
LEMMA TakenBytes ==
  ASSUME AnswerTypes, NEW cap \in Nat
  PROVE  /\ Answer!Taken(cap) \in Nat /\ Answer!Taken(cap) <= cap
         /\ pos + Answer!Taken(cap) \in Nat /\ pos + Answer!Taken(cap) <= sent
         /\ At(Answer!Bytes(cap), pos, pos + Answer!Taken(cap))
         /\ Answer!Bytes(cap) \in Seq(Byte) /\ Len(Answer!Bytes(cap)) = Answer!Taken(cap)
         /\ Answer!RecvStatus(cap) = "again" => Answer!Taken(cap) < cap
  <1> DEFINE n == Answer!Taken(cap)
  <1>1. n \in Nat /\ n <= cap /\ pos + n \in Nat /\ pos + n <= sent /\ pos \in Nat /\ BodyLen \in Nat /\ pos + n <= 8 + BodyLen
    BY DEF AnswerTypes, Answer!Taken
  <1>2. Answer!RecvStatus(cap) = "again" => n < cap
    <2>1. CASE n = cap
      BY <2>1 DEF Answer!RecvStatus
    <2>2. CASE n # cap
      BY <1>1, <2>2
    <2> QED
      BY <2>1, <2>2
  <1>3. Answer!Bytes(cap) = SubSeq(ReplyOf(BodyLen), pos + 1, pos + n)
    BY AnswerText DEF Answer!Bytes
  <1> HIDE DEF n
  <1> DEFINE text == ReplyOf(BodyLen)
             e == pos + n
  <1>4. text \in Seq(Byte) /\ Len(text) = 8 + BodyLen
    BY <1>1, ReplyText
  <1> HIDE DEF text
  <1>5. e \in Nat /\ pos <= e /\ e <= Len(text)
    BY <1>1, <1>4
  <1> HIDE DEF e
  <1>6. Piece(Byte, text, SubSeq(text, pos + 1, e), pos, e)
    BY <1>1, <1>4, <1>5, PieceOf
  <1>7. At(Answer!Bytes(cap), pos, e)
    BY <1>3, <1>6 DEF At, text, e
  <1>8. Answer!Bytes(cap) \in Seq(Byte) /\ Len(Answer!Bytes(cap)) = e - pos
    BY <1>1, <1>5, <1>7, PieceLength DEF At
  <1>9. e - pos = n
    BY <1>1 DEF e
  <1> QED
    BY <1>1, <1>2, <1>7, <1>8, <1>9 DEF e, n

\* The first CR LF of a text is where LineEnd finds it.
LEMMA LineEndIs ==
  ASSUME NEW s, NEW n \in 1 .. Len(s) - 1, s[n] = -3, s[n + 1] = -4,
         \A i \in 1 .. n - 1 : ~(s[i] = -3 /\ s[i + 1] = -4), Len(s) \in Nat
  PROVE  Answer!LineEnd(s) = n
  <1> DEFINE Is(i) == /\ s[i] = -3 /\ s[i + 1] = -4
                      /\ \A j \in 1 .. i - 1 : ~(s[j] = -3 /\ s[j + 1] = -4)
  <1>1. Is(n)
    OBVIOUS
  <1>2. ASSUME NEW i \in 1 .. Len(s) - 1, Is(i) PROVE i = n
    <2>1. CASE i < n
      <3>1. i \in 1 .. n - 1
        BY <2>1
      <3> QED
        BY <1>2, <3>1
    <2>2. CASE n < i
      <3>1. n \in 1 .. i - 1
        BY <2>2
      <3> QED
        BY <1>2, <3>1
    <2> QED
      BY <2>1, <2>2
  <1>3. Answer!LineEnd(s) = CHOOSE i \in 1 .. Len(s) - 1 : Is(i)
    BY DEF Answer!LineEnd, Answer!CR, Answer!LF
  <1> HIDE DEF Is
  <1>4. (CHOOSE i \in 1 .. Len(s) - 1 : Is(i)) = n
    BY <1>1, <1>2
  <1> QED
    BY <1>3, <1>4

\* The first element, as a list.
LEMMA FirstElement ==
  ASSUME NEW S, NEW s \in Seq(S), Len(s) >= 1
  PROVE  SubSeq(s, 1, 1) = <<s[1]>>
  <1> DEFINE a == SubSeq(s, 0 + 1, 1)
             b == <<s[1]>>
  <1>0. Len(s) \in Nat /\ s[1] \in S
    OBVIOUS
  <1>1. Piece(S, s, a, 0, 1)
    BY <1>0, PieceOf
  <1>2. a \in Seq(S) /\ Len(a) = 1 /\ a[1] = s[1]
    <2>1. a \in Seq(S) /\ Len(a) = 1 /\ \A i \in 1 .. Len(a) : a[i] = s[0 + i]
      <3> HIDE DEF a
      <3> QED
        BY <1>1 DEF Piece
    <2> HIDE DEF a
    <2>2. 1 \in 1 .. Len(a) /\ 0 + 1 = 1
      BY <2>1
    <2> QED
      BY <2>1, <2>2
  <1>3. b \in Seq(S) /\ Len(b) = 1 /\ b[1] = s[1]
    BY <1>0
  <1>4. SubSeq(s, 1, 1) = a
    OBVIOUS
  <1> HIDE DEF a, b
  <1>5. a = b
    BY <1>2, <1>3, SeqEqual
  <1> QED
    BY <1>4, <1>5 DEF b

\* The line that the round's buffer starts with while the header is read.
LEMMA HeadLine ==
  ASSUME AnswerTypes, NEW s, NEW k \in {0, 3, 6}, NEW j \in Nat, At(s, k, j), Answer!HasLine(s)
  PROVE  /\ s \in Seq(Byte) /\ Len(s) \in Nat
         /\ Answer!LineEnd(s) = (IF k = 6 THEN 1 ELSE 2) /\ Answer!LineEnd(s) + 1 <= Len(s)
         /\ k = 0 => SubSeq(s, 1, 2 - 1) = <<-1>>
         /\ k = 3 => SubSeq(s, 1, 2 - 1) # <<>>
         /\ k = 6 => SubSeq(s, 1, 1 - 1) = <<>>
  <1> DEFINE text == ReplyOf(BodyLen)
  <1>1. BodyLen \in Nat
    BY DEF AnswerTypes
  <1>2. /\ text[1] = -1 /\ text[2] = -3 /\ text[3] = -4 /\ text[4] = -2 /\ text[5] = -3 /\ text[6] = -4
        /\ text[7] = -3 /\ text[8] = -4
    BY <1>1, ReplyText
  <1> HIDE DEF text
  <1>3. s \in Seq(Byte) /\ Len(s) \in Nat /\ \A i \in 1 .. Len(s) : s[i] = text[k + i]
    BY DEF At, Piece, text
  <1>4. PICK i \in 1 .. Len(s) - 1 : s[i] = -3 /\ s[i + 1] = -4
    BY DEF Answer!HasLine, Answer!CR, Answer!LF
  <1>5. CASE k = 6
    <2>1. Len(s) >= 2
      BY <1>3, <1>4
    <2>2. s[1] = -3 /\ s[2] = -4
      <3>1. 1 \in 1 .. Len(s) /\ 2 \in 1 .. Len(s) /\ 6 + 1 = 7 /\ 6 + 2 = 8
        BY <1>3, <2>1
      <3> QED
        BY <1>2, <1>3, <1>5, <3>1
    <2>3. Answer!LineEnd(s) = 1
      <3>1. 1 \in 1 .. Len(s) - 1 /\ s[1 + 1] = -4 /\ \A x \in 1 .. 1 - 1 : ~(s[x] = -3 /\ s[x + 1] = -4)
        BY <1>3, <2>1, <2>2
      <3> QED
        BY <1>3, <2>2, <3>1, LineEndIs
    <2>4. SubSeq(s, 1, 1 - 1) = <<>>
      BY <1>3
    <2> QED
      BY <1>3, <1>5, <2>1, <2>3, <2>4
  <1>6. CASE k \in {0, 3}
    <2>1. i # 1
      <3>1. i = 1 => s[1] = text[k + 1]
        BY <1>3
      <3>2. text[k + 1] # -3
        BY <1>2, <1>6
      <3> QED
        BY <1>4, <3>1, <3>2
    <2>2. Len(s) >= 3
      BY <1>3, <1>4, <2>1
    <2>3. s[1] = text[k + 1] /\ s[2] = text[k + 2] /\ s[3] = text[k + 3]
      BY <1>3, <2>2
    <2>4. s[1] # -3 /\ s[2] = -3 /\ s[3] = -4
      BY <1>2, <1>6, <2>3
    <2>5. Answer!LineEnd(s) = 2
      <3>1. 2 \in 1 .. Len(s) - 1 /\ s[2 + 1] = -4 /\ \A x \in 1 .. 2 - 1 : ~(s[x] = -3 /\ s[x + 1] = -4)
        BY <1>3, <2>2, <2>4
      <3> QED
        BY <1>3, <2>4, <3>1, LineEndIs
    <2>6. SubSeq(s, 1, 2 - 1) = <<s[1]>>
      BY <1>3, <2>2, FirstElement
    <2>7. k = 0 => s[1] = -1
      BY <1>2, <2>3
    <2> QED
      BY <1>3, <1>6, <2>2, <2>5, <2>6, <2>7
  <1> QED
    BY <1>5, <1>6

\* The server moves.
LEMMA ServerStep ==
  ASSUME AnswerInv, UNCHANGED <<pos, m_uContentLength, m_iBlockSize, mode, pc, buf, m_sRecvBuffer,
                                m_sReaderBuffer, m_uRecvContentLength, want, blocks, spill, result>>,
         peer' \in {"open", "closed", "reset"}, sent' \in Nat, pos <= sent', sent' <= 8 + BodyLen
  PROVE  AnswerInv'
  BY DEF AnswerInv, AnswerTypes, AnswerHead, AnswerBody, AnswerGot, AnswerEnd, AnswerBlocks, Early,
         BodyLen, BlockLen, At, Answer!HasLine

\* The query ends without another block.
LEMMA AnswerStops ==
  ASSUME AnswerInv, AnswerTypes', pc' = "done", mode = "push" => result' # "ok",
         UNCHANGED <<m_uContentLength, m_iBlockSize, mode, blocks, spill, m_sReaderBuffer>>
  PROVE  AnswerInv'
  <1>1. BodyLen' = BodyLen /\ BlockLen' = BlockLen
    BY DEF BodyLen, BlockLen
  <1>2. AnswerHead' /\ AnswerBody' /\ AnswerEnd'
    BY DEF AnswerHead, AnswerBody, AnswerEnd
  <1>3. AnswerGot'
    BY <1>1 DEF AnswerInv, AnswerGot, At
  <1>4. AnswerBlocks'
    BY <1>1 DEF AnswerInv, AnswerBlocks
  <1> QED
    BY <1>2, <1>3, <1>4 DEF AnswerInv

\* The outcomes of recv().
LEMMA HowRecvEnds ==
  ASSUME AnswerTypes, NEW cap \in Nat
  PROVE  Answer!RecvStatus(cap) \in {"full", "again", "disconnect", "reset"}
  <1>1. Answer!Taken(cap) \in Nat /\ Answer!Taken(cap) <= cap
    BY TakenBytes
  <1>2. CASE Answer!Taken(cap) = cap
    BY <1>2 DEF Answer!RecvStatus
  <1>3. CASE Answer!Taken(cap) # cap
    <2>1. Answer!Taken(cap) < cap
      BY <1>1, <1>3
    <2>2. peer \in {"open", "closed", "reset"}
      BY DEF AnswerTypes
    <2> HIDE DEF AnswerTypes
    <2> QED
      BY <1>3, <2>1, <2>2 DEF Answer!RecvStatus
  <1> QED
    BY <1>2, <1>3

\* A read of the status or header lines.
LEMMA LineRecvStep ==
  ASSUME AnswerInv, Answer!LineRecv
  PROVE  AnswerInv'
  <1> USE ReadersAssumption
  <1> DEFINE cap == HeadMax - Len(buf)
             got == Answer!Bytes(cap)
             n == Answer!Taken(cap)
             new == Cat(buf, got)
  <1>1. /\ pc \in {"status", "header"} /\ ~Answer!HasLine(m_sRecvBuffer)
        /\ pos' = pos + n
        /\ UNCHANGED <<sent, peer, m_uContentLength, m_iBlockSize, mode, m_sReaderBuffer,
                       m_uRecvContentLength, want, blocks, spill>>
        /\ \/ Answer!RecvStatus(cap) # "again" /\ pc' = "done" /\ result' = Answer!RecvStatus(cap)
           \/ /\ Answer!RecvStatus(cap) = "again"
              /\ m_sRecvBuffer' = Cat(m_sRecvBuffer, new) /\ buf' = <<>> /\ UNCHANGED <<pc, result>>
           \/ /\ Answer!RecvStatus(cap) = "again"
              /\ buf' = new /\ UNCHANGED <<m_sRecvBuffer, pc, result>>
    BY DEF Answer!LineRecv, Answer!Done, Answer!linevars, Answer!netvars, Answer!callvars,
           Answer!bodyvars, Cat
  <1>2. PICK k \in (IF pc = "status" THEN {0} ELSE {3, 6}), j \in Nat : At(m_sRecvBuffer, k, j) /\ At(buf, j, pos)
    BY <1>1 DEF AnswerInv, AnswerHead
  <1>3. buf \in Seq(Byte) /\ Len(buf) \in Nat /\ Len(buf) < HeadMax /\ cap \in Nat /\ pos \in Nat /\ k \in Nat
    <2>1. pos \in Nat /\ k \in Nat /\ Len(buf) < HeadMax
      BY <1>1, <1>2 DEF AnswerInv, AnswerTypes, AnswerHead
    <2>2. buf \in Seq(Byte) /\ Len(buf) \in Nat
      BY <1>2, <2>1, PieceLength DEF At
    <2> QED
      BY <2>1, <2>2
  <1>4. /\ n \in Nat /\ n <= cap /\ pos + n \in Nat /\ pos + n <= sent
        /\ At(got, pos, pos + n)
        /\ got \in Seq(Byte) /\ Len(got) = n
        /\ Answer!RecvStatus(cap) = "again" => n < cap
    BY <1>3, TakenBytes DEF AnswerInv
  <1>5. AnswerTypes'
    BY <1>1, <1>4 DEF AnswerInv, AnswerTypes, BodyLen, BlockLen
  <1>6. BodyLen' = BodyLen /\ BlockLen' = BlockLen
    BY <1>1 DEF BodyLen, BlockLen
  <1>7. Answer!RecvStatus(cap) # "ok"
    BY <1>3, HowRecvEnds DEF AnswerInv
  <1> HIDE DEF cap, n, got, new
  <1>8. CASE pc' = "done" /\ result' = Answer!RecvStatus(cap)
    BY <1>1, <1>5, <1>7, <1>8, AnswerStops
  <1>9. At(new, j, pos')
    BY <1>1, <1>2, <1>3, <1>4, PieceCat DEF At, new
  <1>10. CASE UNCHANGED <<pc, result>> /\ AnswerHead'
    <2>1. AnswerBody' /\ AnswerEnd' /\ AnswerGot' /\ AnswerBlocks'
      BY <1>1, <1>6, <1>10 DEF AnswerInv, AnswerBody, AnswerEnd, AnswerGot, AnswerBlocks, At
    <2> QED
      BY <1>5, <1>10, <2>1 DEF AnswerInv
  <1>11. CASE /\ m_sRecvBuffer' = Cat(m_sRecvBuffer, new) /\ buf' = <<>> /\ UNCHANGED <<pc, result>>
    <2>1. pos' \in Nat
      BY <1>1, <1>4
    <2>2. At(m_sRecvBuffer', k, pos') /\ At(buf', pos', pos')
      BY <1>2, <1>3, <1>9, <1>11, <2>1, PieceCat, PieceEmpty DEF At
    <2>3. Len(buf') < HeadMax
      BY <1>11
    <2>4. \E kk \in (IF pc' = "status" THEN {0} ELSE {3, 6}), jj \in Nat : At(m_sRecvBuffer, kk, jj)' /\ At(buf, jj, pos)'
      BY <1>6, <1>11, <2>1, <2>2 DEF At
    <2>5. AnswerHead'
      BY <1>1, <1>11, <2>3, <2>4 DEF AnswerInv, AnswerHead
    <2> QED
      BY <1>10, <1>11, <2>5
  <1>12. CASE Answer!RecvStatus(cap) = "again" /\ buf' = new /\ UNCHANGED <<m_sRecvBuffer, pc, result>>
    <2>1. Len(buf') = Len(buf) + n /\ n < cap
      BY <1>3, <1>4, <1>12, CatType DEF new
    <2>2. Len(buf') < HeadMax
      BY <1>3, <1>4, <2>1 DEF cap
    <2>3. ~Answer!HasLine(m_sRecvBuffer)'
      BY <1>1, <1>12 DEF Answer!HasLine
    <2>4. \E kk \in (IF pc' = "status" THEN {0} ELSE {3, 6}), jj \in Nat : At(m_sRecvBuffer, kk, jj)' /\ At(buf, jj, pos)'
      BY <1>2, <1>6, <1>9, <1>12 DEF At
    <2>5. AnswerHead'
      BY <1>1, <1>12, <2>2, <2>3, <2>4 DEF AnswerInv, AnswerHead
    <2> QED
      BY <1>10, <1>12, <2>5
  <1> QED
    BY <1>1, <1>8, <1>11, <1>12

\* The line that is taken, and what is left behind it.
LEMMA TakeLine ==
  ASSUME AnswerInv, pc \in {"status", "header"}, Answer!HasLine(m_sRecvBuffer)
  PROVE  /\ buf = <<>> /\ pos \in Nat
         /\ pc = "status" => /\ Answer!Line = <<-1>> /\ Answer!Line # <<>>
                             /\ At(Answer!Rest, 3, pos)
         /\ pc = "header" /\ Answer!Line # <<>> => At(Answer!Rest, 6, pos)
         /\ pc = "header" /\ Answer!Line = <<>> => At(Answer!Rest, 8, pos)
  <1>1. PICK k \in (IF pc = "status" THEN {0} ELSE {3, 6}), j \in Nat : At(m_sRecvBuffer, k, j) /\ At(buf, j, pos)
    BY DEF AnswerInv, AnswerHead
  <1>2. pos \in Nat /\ k \in {0, 3, 6} /\ k \in Nat /\ buf = <<>>
    BY DEF AnswerInv, AnswerTypes, AnswerHead
  <1>3. j = pos
    <2>1. pos = j + Len(<<>>)
      BY <1>1, <1>2 DEF At, Piece
    <2> QED
      BY <1>2, <2>1
  <1> DEFINE s == m_sRecvBuffer
             e == IF k = 6 THEN 1 ELSE 2
  <1>4. At(s, k, pos)
    BY <1>1, <1>3
  <1>5. /\ s \in Seq(Byte) /\ Len(s) \in Nat
        /\ Answer!LineEnd(s) = e /\ e + 1 <= Len(s)
        /\ k = 0 => SubSeq(s, 1, 2 - 1) = <<-1>>
        /\ k = 3 => SubSeq(s, 1, 2 - 1) # <<>>
        /\ k = 6 => SubSeq(s, 1, 1 - 1) = <<>>
    BY <1>2, <1>4, HeadLine DEF AnswerInv
  <1>6. Answer!Line = SubSeq(s, 1, e - 1) /\ Answer!Rest = Cut(s, e + 2, Len(s))
    BY <1>5 DEF Answer!Line, Answer!Rest, Cut
  <1>7. At(Answer!Rest, k + (e + 1), pos)
    <2> HIDE DEF s
    <2>1. e + 1 \in Nat /\ e + 1 + 1 = e + 2
      OBVIOUS
    <2> DEFINE i == e + 1
    <2>2. i \in Nat /\ i <= Len(s) /\ i + 1 = e + 2
      BY <1>5, <2>1
    <2> HIDE DEF i
    <2>3. At(Cut(s, i + 1, Len(s)), k + i, pos)
      BY <1>2, <1>4, <2>2, PieceHalves DEF At
    <2> QED
      BY <1>6, <2>2, <2>3 DEF i
  <1>8. CASE k = 0
    <2>1. pc = "status"
      BY <1>8
    <2>2. Answer!Line = <<-1>> /\ Answer!Line # <<>>
      BY <1>5, <1>6, <1>8
    <2>3. At(Answer!Rest, 3, pos)
      BY <1>7, <1>8
    <2> QED
      BY <1>2, <2>1, <2>2, <2>3
  <1>9. CASE k = 3
    <2>1. pc # "status"
      BY <1>9
    <2>2. Answer!Line # <<>>
      BY <1>5, <1>6, <1>9
    <2>3. At(Answer!Rest, 6, pos)
      BY <1>7, <1>9
    <2> QED
      BY <1>2, <2>1, <2>2, <2>3
  <1>10. CASE k = 6
    <2>1. pc # "status"
      BY <1>10
    <2>2. Answer!Line = <<>>
      BY <1>5, <1>6, <1>10
    <2>3. At(Answer!Rest, 8, pos)
      BY <1>7, <1>10
    <2> QED
      BY <1>2, <2>1, <2>2, <2>3
  <1> QED
    BY <1>2, <1>8, <1>9, <1>10

\* A line of the header is taken.
LEMMA LineStep ==
  ASSUME AnswerInv, Answer!StatusLine \/ Answer!HeaderField
  PROVE  AnswerInv'
  <1>1. /\ pc \in {"status", "header"} /\ Answer!HasLine(m_sRecvBuffer)
        /\ m_sRecvBuffer' = Answer!Rest
        /\ UNCHANGED <<sent, peer, pos, m_uContentLength, m_iBlockSize, mode, buf, m_sReaderBuffer,
                       m_uRecvContentLength, want, blocks, spill>>
    BY DEF Answer!StatusLine, Answer!HeaderField, Answer!netvars, Answer!callvars, Answer!bodyvars
  <1>2. /\ buf = <<>> /\ pos \in Nat
        /\ pc = "status" => /\ Answer!Line = <<-1>> /\ Answer!Line # <<>>
                            /\ At(Answer!Rest, 3, pos)
        /\ pc = "header" /\ Answer!Line # <<>> => At(Answer!Rest, 6, pos)
    BY <1>1, TakeLine
  <1>3. pc' = "header" /\ UNCHANGED result /\ (At(Answer!Rest, 3, pos) \/ At(Answer!Rest, 6, pos))
    <2>1. CASE Answer!StatusLine
      <3>1. pc = "status"
        BY <2>1 DEF Answer!StatusLine
      <3> QED
        BY <1>2, <2>1, <3>1 DEF Answer!StatusLine, Answer!STATUS
    <2>2. CASE Answer!HeaderField
      <3>1. pc = "header" /\ Answer!Line # <<>> /\ UNCHANGED <<pc, result>>
        BY <2>2 DEF Answer!HeaderField
      <3> QED
        BY <1>2, <3>1
    <2> QED
      BY <2>1, <2>2
  <1>4. BodyLen' = BodyLen /\ BlockLen' = BlockLen
    BY <1>1 DEF BodyLen, BlockLen
  <1>5. AnswerTypes'
    BY <1>1, <1>3 DEF AnswerInv, AnswerTypes, BodyLen, BlockLen
  <1>6. AnswerHead'
    <2>1. blocks = <<>> /\ m_sReaderBuffer = <<>> /\ m_uRecvContentLength = 0 /\ result = "none" /\ Len(buf) < HeadMax
      BY <1>1 DEF AnswerInv, AnswerHead
    <2>2. At(buf', pos', pos')
      BY <1>1, <1>2, PieceEmpty DEF At
    <2>3. At(m_sRecvBuffer', 3, pos') \/ At(m_sRecvBuffer', 6, pos')
      BY <1>1, <1>3
    <2>4. \E k \in (IF pc' = "status" THEN {0} ELSE {3, 6}), j \in Nat : At(m_sRecvBuffer, k, j)' /\ At(buf, j, pos)'
      BY <1>1, <1>2, <1>3, <1>4, <2>2, <2>3 DEF At
    <2>5. /\ blocks' = <<>> /\ m_sReaderBuffer' = <<>> /\ m_uRecvContentLength' = 0
          /\ result' = "none" /\ buf' = <<>> /\ Len(buf') < HeadMax
      BY <1>1, <1>2, <1>3, <2>1
    <2> QED
      BY <2>4, <2>5 DEF AnswerHead
  <1>7. AnswerBody' /\ AnswerEnd' /\ AnswerGot' /\ AnswerBlocks'
    <2>1. pc # "blocks" /\ result # "ok"
      BY <1>1 DEF AnswerInv, AnswerHead
    <2> QED
      BY <1>1, <1>3, <1>4, <2>1 DEF AnswerInv, AnswerBody, AnswerEnd, AnswerGot, AnswerBlocks, At
  <1> QED
    BY <1>5, <1>6, <1>7 DEF AnswerInv

\* wait_recv() fails.
LEMMA WaitStep ==
  ASSUME AnswerInv, NEW r \in {"timeout", "stopped"}, Answer!WaitFails(r)
  PROVE  AnswerInv'
  <1>1. /\ pc \in {"status", "header", "blocks", "pull"} /\ result' = r
        /\ pc' = IF pc = "pull" THEN "ready" ELSE "done"
        /\ UNCHANGED <<sent, peer, pos, m_uContentLength, m_iBlockSize, mode, buf, m_sRecvBuffer,
                       m_sReaderBuffer, m_uRecvContentLength, blocks, spill>>
    BY DEF Answer!WaitFails, Answer!Done, Answer!netvars, Answer!callvars, Answer!linevars
  <1>2. AnswerTypes'
    BY <1>1 DEF AnswerInv, AnswerTypes, BodyLen, BlockLen
  <1>3. CASE pc # "pull"
    BY <1>1, <1>2, <1>3, AnswerStops
  <1>4. CASE pc = "pull"
    <2>1. mode = "pull"
      BY <1>4 DEF AnswerInv, AnswerBody
    <2> QED
      BY <1>1, <1>2, <1>4, <2>1 DEF AnswerInv, AnswerHead, AnswerBody, AnswerEnd, AnswerGot, AnswerBlocks, At, Early, BodyLen, BlockLen
  <1> QED
    BY <1>3, <1>4

\* Push(): the blocks that are complete, and the last one.
LEMMA PushStep ==
  ASSUME AnswerTypes, UNCHANGED <<m_uContentLength, m_iBlockSize, mode>>,
         NEW rb, NEW d, NEW n \in Nat, n <= BodyLen, NEW j \in Nat, NEW m \in Nat,
         At(All(blocks), 8, j), At(rb, j, m), At(d, m, 8 + n),
         Answer!Push(rb, d, n)
  PROVE  /\ m_uRecvContentLength' = n
         /\ blocks' \in Seq(Seq(Byte))
         /\ \/ /\ pc' = "blocks" /\ result' = result
               /\ \E i \in Nat : At(All(blocks'), 8, i) /\ At(m_sReaderBuffer', i, 8 + n)
            \/ pc' = "done" /\ result' = "ok" /\ At(All(blocks'), 8, 8 + BodyLen)
            \/ /\ pc' = "done" /\ result' = "refused"
               /\ \E i \in Nat : i <= 8 + BodyLen /\ At(All(blocks'), 8, i)
         /\ Full(blocks, BlockLen) /\ Len(rb) <= BlockLen =>
               /\ pc' = "blocks" => Full(blocks', BlockLen)
               /\ Tight(blocks', BlockLen) /\ Len(m_sReaderBuffer') <= BlockLen
  <1> USE ReadersAssumption
  <1> DEFINE p == Taking(rb, d)
             q == IF n = BodyLen THEN Ends(p.rest) ELSE [out |-> <<>>, rest |-> p.rest]
             out == Cat(p.out, q.out)
  <1>1. /\ m_uRecvContentLength' = n
        /\ \/ /\ blocks' = Cat(blocks, out) /\ m_sReaderBuffer' = q.rest
              /\ IF n = BodyLen THEN pc' = "done" /\ result' = "ok" ELSE pc' = "blocks" /\ UNCHANGED result
           \/ \E i \in 1 .. Len(out) :
                 /\ blocks' = Cat(blocks, Cut(out, 1, i)) /\ m_sReaderBuffer' = <<>>
                 /\ pc' = "done" /\ result' = "refused"
    BY Zenon DEF Answer!Push, Answer!Complete, Answer!Done, Taking, Ends, Cuts, BodyLen, Cat, Cut
  <1>2. /\ BodyLen \in Nat /\ BlockLen \in Nat \ {0} /\ Word \in Nat /\ BodyLen + BlockLen < Word
        /\ blocks \in Seq(Seq(Byte))
    <2>1. BodyLen \in Nat /\ BlockLen \in Nat \ {0} /\ BodyLen + BlockLen + HeadMax < Word /\ blocks \in Seq(Seq(Byte))
      BY DEF AnswerTypes
    <2> QED
      BY <2>1
  <1>3. 8 <= j /\ j <= m /\ m <= 8 + n
    BY <1>2, PieceLength DEF At
  <1>4. 8 + n - j + BlockLen < Word /\ 8 + n \in Nat
    BY <1>2, <1>3
  <1>5. /\ p.out \in Seq(Seq(Byte))
        /\ \E i \in Nat : At(All(p.out), j, i) /\ At(p.rest, i, 8 + n)
        /\ Len(rb) <= BlockLen => Len(p.rest) <= BlockLen /\ Full(p.out, BlockLen)
    BY <1>2, <1>4, TakingPieces DEF At
  <1>6. PICK i \in Nat : At(All(p.out), j, i) /\ At(p.rest, i, 8 + n)
    BY <1>5
  <1>7. p.rest \in Seq(Byte) /\ Len(p.rest) = 8 + n - i /\ i <= 8 + n /\ j <= i
    <2> DEFINE u == p.rest
               e == 8 + n
    <2>1. e \in Nat /\ At(u, i, e)
      BY <1>4, <1>6
    <2> HIDE DEF e, u
    <2>2. u \in Seq(Byte) /\ Len(u) = e - i /\ i <= e
      BY <2>1, PieceLength DEF At
    <2>3. j <= i
      BY <1>6, PieceLength DEF At
    <2> QED
      BY <2>2, <2>3 DEF e, u
  <1> HIDE DEF p
  <1>8. /\ q.out \in Seq(Seq(Byte))
        /\ n = BodyLen => q.rest = <<>> /\ All(q.out) = p.rest /\ (Len(p.rest) <= BlockLen => Tight(q.out, BlockLen))
        /\ n # BodyLen => q.rest = p.rest /\ q.out = <<>>
    <2>1. CASE n = BodyLen
      <3>1. Len(p.rest) + BlockLen < Word
        BY <1>2, <1>3, <1>7
      <3> DEFINE u == p.rest
      <3>2. u \in Seq(Byte) /\ Len(u) + BlockLen < Word
        BY <1>7, <3>1
      <3> HIDE DEF u
      <3>3. /\ Ends(u).out \in Seq(Seq(Byte)) /\ Ends(u).rest = <<>>
            /\ All(Ends(u).out) = u
            /\ Len(u) <= BlockLen => Tight(Ends(u).out, BlockLen)
        BY <1>2, <3>2, EndsWith
      <3>4. q = Ends(u)
        BY <2>1 DEF u
      <3> QED
        BY <2>1, <3>3, <3>4 DEF u
    <2>2. CASE n # BodyLen
      <3>1. q.out = <<>> /\ q.rest = p.rest
        BY <2>2
      <3> QED
        BY <2>2, <3>1
    <2> QED
      BY <2>1, <2>2
  <1> HIDE DEF q
  <1>9. out \in Seq(Seq(Byte)) /\ All(out) = Cat(All(p.out), All(q.out))
    <2> DEFINE Lists == Seq(Byte)
    <2>1. All(out) = Cat(All(p.out), All(q.out))
      BY <1>5, <1>8, AllCat
    <2>2. p.out \in Seq(Lists) /\ q.out \in Seq(Lists)
      BY <1>5, <1>8
    <2> HIDE DEF Lists
    <2>3. out \in Seq(Lists)
      BY <2>2, CatType
    <2> QED
      BY <2>1, <2>3 DEF Lists
  <1>10. n = BodyLen => At(All(out), j, 8 + BodyLen)
    BY <1>4, <1>6, <1>7, <1>8, <1>9, PieceCat DEF At
  <1>11. n # BodyLen => At(All(out), j, i) /\ q.rest = p.rest
    <2>1. CASE n # BodyLen
      <3>1. All(p.out) \in Seq(Byte)
        BY <1>6 DEF At, Piece
      <3>2. All(out) = All(p.out)
        BY <1>8, <1>9, <2>1, <3>1, AllEmpty, CatEmpty
      <3> QED
        BY <1>6, <1>8, <2>1, <3>2
    <2> QED
      BY <2>1
  <1>12. \E e \in Nat : j <= e /\ e <= 8 + BodyLen /\ At(All(out), j, e)
    <2>1. 8 + BodyLen \in Nat /\ j <= 8 + BodyLen /\ 8 + n <= 8 + BodyLen
      BY <1>2, <1>3
    <2> QED
      BY <1>2, <1>4, <1>7, <1>10, <1>11, <2>1
  <1>13. Full(blocks, BlockLen) /\ Len(rb) <= BlockLen => Tight(out, BlockLen) /\ (n # BodyLen => Full(out, BlockLen) /\ Len(q.rest) <= BlockLen)
    <2> SUFFICES ASSUME Full(blocks, BlockLen), Len(rb) <= BlockLen
                 PROVE  Tight(out, BlockLen) /\ (n # BodyLen => Full(out, BlockLen) /\ Len(q.rest) <= BlockLen)
      OBVIOUS
    <2>1. Len(p.rest) <= BlockLen /\ Full(p.out, BlockLen) /\ BlockLen \in Nat
      BY <1>2, <1>5
    <2>2. CASE n = BodyLen
      BY <1>5, <1>8, <2>1, <2>2, TightCat
    <2>3. CASE n # BodyLen
      <3>1. Full(<<>>, BlockLen)
        BY DEF Full
      <3>2. Full(out, BlockLen)
        BY <1>5, <1>8, <2>1, <2>3, <3>1, FullCat
      <3> QED
        BY <1>8, <1>9, <2>1, <2>3, <3>2, FullTight
    <2> QED
      BY <2>2, <2>3
  <1> HIDE DEF out
  <1>14. CASE /\ blocks' = Cat(blocks, out) /\ m_sReaderBuffer' = q.rest
              /\ IF n = BodyLen THEN pc' = "done" /\ result' = "ok" ELSE pc' = "blocks" /\ UNCHANGED result
    <2>1. All(blocks') = Cat(All(blocks), All(out))
      BY <1>2, <1>9, <1>14, AllCat
    <2>2. blocks' \in Seq(Seq(Byte))
      <3> DEFINE Lists == Seq(Byte)
      <3>1. blocks \in Seq(Lists) /\ out \in Seq(Lists)
        BY <1>2, <1>9
      <3> HIDE DEF Lists
      <3>2. Cat(blocks, out) \in Seq(Lists)
        BY <3>1, CatType
      <3> QED
        BY <1>14, <3>2 DEF Lists
    <2>3. Full(blocks, BlockLen) /\ Len(rb) <= BlockLen =>
               /\ pc' = "blocks" => Full(blocks', BlockLen)
               /\ Tight(blocks', BlockLen) /\ Len(m_sReaderBuffer') <= BlockLen
      <3> SUFFICES ASSUME Full(blocks, BlockLen), Len(rb) <= BlockLen
                   PROVE /\ pc' = "blocks" => Full(blocks', BlockLen)
                         /\ Tight(blocks', BlockLen) /\ Len(m_sReaderBuffer') <= BlockLen
        OBVIOUS
      <3>1. Tight(blocks', BlockLen)
        BY <1>2, <1>9, <1>13, <1>14, TightCat
      <3>2. pc' = "blocks" => n # BodyLen
        BY <1>14
      <3>3. n # BodyLen => Full(blocks', BlockLen)
        BY <1>2, <1>9, <1>13, <1>14, FullCat
      <3>4. Len(m_sReaderBuffer') <= BlockLen
        BY <1>2, <1>8, <1>13, <1>14
      <3> QED
        BY <3>1, <3>2, <3>3, <3>4
    <2>4. CASE n = BodyLen
      <3>1. At(All(blocks'), 8, 8 + BodyLen)
        <4>1. 8 + BodyLen \in Nat /\ 8 \in Nat
          BY <1>2
        <4> QED
          BY <1>10, <2>1, <2>4, <4>1, PieceCat DEF At
      <3> QED
        BY <1>1, <1>14, <2>2, <2>3, <2>4, <3>1
    <2>5. CASE n # BodyLen
      <3>1. At(All(blocks'), 8, i) /\ At(m_sReaderBuffer', i, 8 + n)
        <4>1. At(All(blocks'), 8, i)
          BY <1>11, <2>1, <2>5, PieceCat DEF At
        <4> QED
          BY <1>6, <1>11, <1>14, <2>5, <4>1
      <3> QED
        BY <1>1, <1>14, <2>2, <2>3, <2>5, <3>1
    <2> QED
      BY <2>4, <2>5
  <1>15. ASSUME NEW x \in 1 .. Len(out), blocks' = Cat(blocks, Cut(out, 1, x)), m_sReaderBuffer' = <<>>,
                pc' = "done", result' = "refused"
         PROVE  /\ blocks' \in Seq(Seq(Byte))
                /\ \E e \in Nat : e <= 8 + BodyLen /\ At(All(blocks'), 8, e)
                /\ Full(blocks, BlockLen) /\ Len(rb) <= BlockLen => Tight(blocks', BlockLen) /\ Len(m_sReaderBuffer') <= BlockLen
    <2> DEFINE c == Cut(out, 1, x)
    <2>1. x \in Nat /\ x <= Len(out)
      <3>1. Len(out) \in Nat
        BY <1>9
      <3> QED
        BY <1>15, <3>1
    <2>2. c \in Seq(Seq(Byte)) /\ \E e \in Seq(Byte) : All(out) = Cat(All(c), e)
      BY <1>9, <2>1, AllHalves
    <2>3. Full(blocks, BlockLen) /\ Len(rb) <= BlockLen => Tight(c, BlockLen)
      BY <1>2, <1>9, <1>13, <2>1, TightCut
    <2> HIDE DEF c
    <2>4. PICK e \in Seq(Byte) : All(out) = Cat(All(c), e)
      BY <2>2
    <2>5. PICK y \in Nat : j <= y /\ y <= 8 + BodyLen /\ At(All(out), j, y)
      BY <1>12
    <2>6. All(c) \in Seq(Byte) /\ Len(All(c)) \in Nat
      BY <2>2, AllType
    <2> DEFINE z == j + Len(All(c))
    <2>7. z \in Nat
      BY <2>6
    <2>8. At(All(c), j, z) /\ At(e, z, y)
      BY <2>4, <2>5, <2>6, PieceParts DEF At
    <2> HIDE DEF z
    <2>9. z <= 8 + BodyLen
      <3>1. z <= y
        BY <2>5, <2>7, <2>8, PieceLength DEF At
      <3> QED
        BY <1>2, <2>5, <2>7, <3>1
    <2>10. blocks' = Cat(blocks, c)
      BY <1>15 DEF c
    <2>11. All(blocks') = Cat(All(blocks), All(c))
      BY <1>2, <2>2, <2>10, AllCat
    <2>12. At(All(blocks'), 8, z)
      BY <2>7, <2>8, <2>11, PieceCat DEF At
    <2>13. blocks' \in Seq(Seq(Byte))
      <3> DEFINE Lists == Seq(Byte)
      <3>1. blocks \in Seq(Lists) /\ c \in Seq(Lists)
        BY <1>2, <2>2
      <3> HIDE DEF Lists
      <3>2. Cat(blocks, c) \in Seq(Lists)
        BY <3>1, CatType
      <3> QED
        BY <2>10, <3>2 DEF Lists
    <2>14. Full(blocks, BlockLen) /\ Len(rb) <= BlockLen => Tight(blocks', BlockLen) /\ Len(m_sReaderBuffer') <= BlockLen
      <3>1. Full(blocks, BlockLen) /\ Len(rb) <= BlockLen => Tight(blocks', BlockLen)
        BY <1>2, <2>2, <2>3, <2>10, TightCat
      <3>2. Len(m_sReaderBuffer') <= BlockLen
        <4>1. Len(m_sReaderBuffer') = 0
          BY <1>15
        <4> QED
          BY <1>2, <4>1
      <3> QED
        BY <3>1, <3>2
    <2> QED
      BY <2>7, <2>9, <2>12, <2>13, <2>14
  <1> QED
    BY <1>1, <1>14, <1>15

\* The body begins to be pushed or read.
LEMMA PushedInv ==
  ASSUME AnswerInv, BodyLen' = BodyLen, BlockLen' = BlockLen, mode' = mode, mode = "push",
         peer' = peer, sent' = sent, pos' \in Nat, pos' <= sent, spill' \in Nat,
         NEW n \in Nat, n <= BodyLen, 8 + n = pos', NEW rb,
         spill' <= BlockLen => Full(blocks, BlockLen) /\ Len(rb) <= BlockLen,
         m_uRecvContentLength' = n,
         blocks' \in Seq(Seq(Byte)),
         \/ /\ pc' = "blocks" /\ result' = "none"
            /\ \E i \in Nat : At(All(blocks'), 8, i) /\ At(m_sReaderBuffer', i, 8 + n)
         \/ pc' = "done" /\ result' = "ok" /\ At(All(blocks'), 8, 8 + BodyLen)
         \/ /\ pc' = "done" /\ result' = "refused"
            /\ \E i \in Nat : i <= 8 + BodyLen /\ At(All(blocks'), 8, i),
         Full(blocks, BlockLen) /\ Len(rb) <= BlockLen =>
               /\ pc' = "blocks" => Full(blocks', BlockLen)
               /\ Tight(blocks', BlockLen) /\ Len(m_sReaderBuffer') <= BlockLen
  PROVE  AnswerInv'
  <1>0. BodyLen \in Nat
    BY DEF AnswerInv, AnswerTypes
  <1>1. AnswerTypes'
    BY DEF AnswerInv, AnswerTypes
  <1>2. AnswerHead'
    BY DEF AnswerHead
  <1>3. AnswerBody'
    BY DEF AnswerBody, At
  <1>4. AnswerGot'
    <2>1. ASSUME NEW i \in Nat, At(m_sReaderBuffer', i, 8 + n) PROVE i <= 8 + BodyLen
      <3>1. i <= 8 + n
        BY <2>1, PieceLength DEF At
      <3> QED
        BY <1>0, <3>1
    <2>2. 8 + BodyLen \in Nat /\ 8 + BodyLen <= 8 + BodyLen
      BY <1>0
    <2> QED
      BY <2>1, <2>2 DEF AnswerGot, At
  <1>5. AnswerEnd'
    BY DEF AnswerEnd, At
  <1>6. AnswerBlocks'
    BY DEF AnswerBlocks
  <1> QED
    BY <1>1, <1>2, <1>3, <1>4, <1>5, <1>6 DEF AnswerInv

\* The blank line, with a listener.
LEMMA HeaderEndPushStep ==
  ASSUME AnswerInv, Answer!HeaderEndPush
  PROVE  AnswerInv'
  <1> DEFINE rest == Answer!Rest
  <1>1. /\ pc = "header" /\ Answer!HasLine(m_sRecvBuffer) /\ Answer!Line = <<>> /\ mode = "push"
        /\ spill' = Len(rest)
        /\ UNCHANGED <<sent, peer, pos, m_uContentLength, m_iBlockSize, mode, buf, want>>
        /\ \/ /\ m_uContentLength = 0 /\ pc' = "done" /\ result' = "ok"
              /\ UNCHANGED <<m_uRecvContentLength, m_sReaderBuffer, blocks>>
           \/ m_uContentLength # 0 /\ Answer!Push(rest, <<>>, Len(rest))
    BY DEF Answer!HeaderEndPush, Answer!Done, Answer!netvars, Answer!callvars
  <1>2. buf = <<>> /\ pos \in Nat /\ At(rest, 8, pos)
    BY <1>1, TakeLine
  <1> HIDE DEF rest
  <1>3. /\ BodyLen \in Nat /\ BlockLen \in Nat \ {0} /\ BodyLen' = BodyLen /\ BlockLen' = BlockLen /\ pos <= sent /\ sent <= 8 + BodyLen /\ sent \in Nat
        /\ blocks = <<>> /\ m_sReaderBuffer = <<>> /\ m_uRecvContentLength = 0 /\ result = "none"
    BY <1>1 DEF AnswerInv, AnswerTypes, AnswerHead, BodyLen, BlockLen
  <1>4. rest \in Seq(Byte) /\ Len(rest) \in Nat /\ pos = 8 + Len(rest)
    BY <1>2, PieceLength DEF At
  <1>5. At(All(blocks), 8, 8)
    BY <1>3, AllEmpty, PieceEmpty DEF At
  <1>6. Full(blocks, BlockLen)
    BY <1>3 DEF Full
  <1>7. CASE m_uContentLength = 0 /\ pc' = "done" /\ result' = "ok" /\ UNCHANGED <<m_uRecvContentLength, m_sReaderBuffer, blocks>>
    <2>1. BodyLen = 0
      BY <1>7 DEF BodyLen
    <2>2. AnswerTypes'
      BY <1>1, <1>3, <1>4, <1>7 DEF AnswerInv, AnswerTypes
    <2>3. AnswerHead' /\ AnswerBody'
      BY <1>7 DEF AnswerHead, AnswerBody
    <2>4. AnswerGot' /\ AnswerEnd'
      <3>1. At(All(blocks'), 8, 8 + BodyLen) /\ 8 + BodyLen \in Nat /\ 8 <= 8 + BodyLen /\ 8 + BodyLen = 8
        BY <1>5, <1>7, <2>1
      <3> QED
        BY <1>1, <1>3, <1>7, <3>1 DEF AnswerGot, AnswerEnd, At
    <2>5. AnswerBlocks'
      <3>1. Tight(<<>>, BlockLen) /\ Len(<<>>) <= BlockLen
        BY <1>3 DEF Tight
      <3> QED
        BY <1>3, <1>7, <3>1 DEF AnswerBlocks
    <2> QED
      BY <2>2, <2>3, <2>4, <2>5 DEF AnswerInv
  <1>8. CASE Answer!Push(rest, <<>>, Len(rest))
    <2> DEFINE n == Len(rest)
    <2>1. n \in Nat /\ n <= BodyLen /\ 8 + n = pos
      BY <1>2, <1>3, <1>4
    <2>2. At(<<>>, 8 + n, 8 + n) /\ At(rest, 8, 8 + n)
      BY <1>2, <2>1, PieceEmpty DEF At
    <2>3. Answer!Push(rest, <<>>, n)
      BY <1>8
    <2>4. spill' = n /\ (spill' <= BlockLen => Full(blocks, BlockLen) /\ Len(rest) <= BlockLen)
      BY <1>1, <1>6
    <2> HIDE DEF n
    <2>5. 8 \in Nat /\ 8 + n \in Nat
      BY <2>1
    <2>6. /\ m_uRecvContentLength' = n
          /\ blocks' \in Seq(Seq(Byte))
          /\ \/ /\ pc' = "blocks" /\ result' = result
                /\ \E i \in Nat : At(All(blocks'), 8, i) /\ At(m_sReaderBuffer', i, 8 + n)
             \/ pc' = "done" /\ result' = "ok" /\ At(All(blocks'), 8, 8 + BodyLen)
             \/ /\ pc' = "done" /\ result' = "refused"
                /\ \E i \in Nat : i <= 8 + BodyLen /\ At(All(blocks'), 8, i)
          /\ Full(blocks, BlockLen) /\ Len(rest) <= BlockLen =>
               /\ pc' = "blocks" => Full(blocks', BlockLen)
               /\ Tight(blocks', BlockLen) /\ Len(m_sReaderBuffer') <= BlockLen
      BY <1>1, <1>5, <2>1, <2>2, <2>3, <2>5, PushStep DEF AnswerInv
    <2> QED
      BY <1>1, <1>2, <1>3, <2>1, <2>4, <2>6, PushedInv
  <1> QED
    BY <1>1, <1>7, <1>8

\* A read of the body, with a listener.
LEMMA BlocksRecvStep ==
  ASSUME AnswerInv, Answer!BlocksRecv
  PROVE  AnswerInv'
  <1> USE ReadersAssumption
  <1> DEFINE d == Answer!Bytes(RecvMax)
             n == Answer!Taken(RecvMax)
  <1>1. /\ pc = "blocks" /\ pos' = pos + n
        /\ UNCHANGED <<sent, peer, m_uContentLength, m_iBlockSize, mode, buf, m_sRecvBuffer, want, spill>>
        /\ \/ d # <<>> /\ Answer!Push(m_sReaderBuffer, d, m_uRecvContentLength + Len(d))
           \/ /\ pc' = "done" /\ result' \in {"disconnect", "reset"}
              /\ UNCHANGED <<m_sReaderBuffer, m_uRecvContentLength, blocks>>
    BY DEF Answer!BlocksRecv, Answer!Done, Answer!netvars, Answer!callvars, Answer!linevars
  <1>2. /\ n \in Nat /\ pos + n \in Nat /\ pos + n <= sent
        /\ At(d, pos, pos + n)
        /\ d \in Seq(Byte) /\ Len(d) = n
    <2>1. RecvMax \in Nat
      OBVIOUS
    <2> QED
      BY <2>1, TakenBytes DEF AnswerInv
  <1> HIDE DEF d, n
  <1>3. /\ BodyLen \in Nat /\ BlockLen \in Nat \ {0} /\ BodyLen' = BodyLen /\ BlockLen' = BlockLen /\ pos \in Nat /\ sent <= 8 + BodyLen /\ sent \in Nat
        /\ m_uRecvContentLength \in Nat /\ spill' \in Nat
    BY <1>1 DEF AnswerInv, AnswerTypes, BodyLen, BlockLen
  <1>4. /\ mode = "push" /\ result = "none" /\ pos = 8 + m_uRecvContentLength
        /\ \E j \in Nat : At(All(blocks), 8, j) /\ At(m_sReaderBuffer, j, pos)
        /\ spill <= BlockLen => Full(blocks, BlockLen) /\ Len(m_sReaderBuffer) <= BlockLen
    BY <1>1 DEF AnswerInv, AnswerBody, AnswerBlocks
  <1>5. CASE /\ pc' = "done" /\ result' \in {"disconnect", "reset"}
             /\ UNCHANGED <<m_sReaderBuffer, m_uRecvContentLength, blocks>>
    <2>1. AnswerTypes'
      BY <1>1, <1>2, <1>5 DEF AnswerInv, AnswerTypes, BodyLen, BlockLen
    <2> QED
      BY <1>1, <1>5, <2>1, AnswerStops
  <1>6. CASE Answer!Push(m_sReaderBuffer, d, m_uRecvContentLength + Len(d))
    <2> DEFINE u == m_uRecvContentLength + Len(d)
    <2>1. u \in Nat /\ u <= BodyLen /\ 8 + u = pos' /\ At(d, pos, 8 + u) /\ pos' \in Nat /\ pos' <= sent /\ 8 + u = pos + n
      <3>1. u \in Nat /\ u <= BodyLen /\ 8 + u = pos + n
        BY <1>2, <1>3, <1>4
      <3> QED
        BY <1>1, <1>2, <3>1
    <2>2. Answer!Push(m_sReaderBuffer, d, u)
      BY <1>6
    <2> HIDE DEF u
    <2>3. PICK j \in Nat : At(All(blocks), 8, j) /\ At(m_sReaderBuffer, j, pos)
      BY <1>4
    <2> DEFINE rb == m_sReaderBuffer
    <2>4. /\ m_uRecvContentLength' = u
          /\ blocks' \in Seq(Seq(Byte))
          /\ \/ /\ pc' = "blocks" /\ result' = result
                /\ \E i \in Nat : At(All(blocks'), 8, i) /\ At(m_sReaderBuffer', i, 8 + u)
             \/ pc' = "done" /\ result' = "ok" /\ At(All(blocks'), 8, 8 + BodyLen)
             \/ /\ pc' = "done" /\ result' = "refused"
                /\ \E i \in Nat : i <= 8 + BodyLen /\ At(All(blocks'), 8, i)
          /\ Full(blocks, BlockLen) /\ Len(rb) <= BlockLen =>
               /\ pc' = "blocks" => Full(blocks', BlockLen)
               /\ Tight(blocks', BlockLen) /\ Len(m_sReaderBuffer') <= BlockLen
      BY <1>1, <1>3, <2>1, <2>2, <2>3, PushStep DEF AnswerInv
    <2>5. spill' <= BlockLen => Full(blocks, BlockLen) /\ Len(rb) <= BlockLen
      BY <1>1, <1>4
    <2> HIDE DEF rb
    <2> QED
      BY <1>1, <1>3, <1>4, <2>1, <2>4, <2>5, PushedInv
  <1> QED
    BY <1>1, <1>5, <1>6

\* The blank line, without a listener.
LEMMA HeaderEndPullStep ==
  ASSUME AnswerInv, Answer!HeaderEndPull
  PROVE  AnswerInv'
  <1> DEFINE rest == Answer!Rest
  <1>1. /\ pc = "header" /\ Answer!HasLine(m_sRecvBuffer) /\ Answer!Line = <<>> /\ mode = "pull"
        /\ spill' = Len(rest) /\ m_sRecvBuffer' = rest /\ pc' = "ready"
        /\ UNCHANGED <<sent, peer, pos, m_uContentLength, m_iBlockSize, mode, buf, m_sReaderBuffer,
                       m_uRecvContentLength, want, blocks, result>>
    BY DEF Answer!HeaderEndPull, Answer!netvars, Answer!callvars
  <1>2. buf = <<>> /\ pos \in Nat /\ At(rest, 8, pos)
    BY <1>1, TakeLine
  <1> HIDE DEF rest
  <1>3. /\ BodyLen \in Nat /\ BodyLen' = BodyLen /\ BlockLen' = BlockLen
        /\ blocks = <<>> /\ m_sReaderBuffer = <<>> /\ m_uRecvContentLength = 0 /\ result = "none"
    BY <1>1 DEF AnswerInv, AnswerTypes, AnswerHead, BodyLen, BlockLen
  <1>4. rest \in Seq(Byte) /\ Len(rest) \in Nat
    BY <1>2, PieceLength DEF At
  <1>5. At(All(blocks'), 8, 8) /\ At(m_sReaderBuffer', 8, 8)
    BY <1>1, <1>3, AllEmpty, PieceEmpty DEF At
  <1>6. AnswerTypes'
    BY <1>1, <1>3, <1>4 DEF AnswerInv, AnswerTypes
  <1>7. AnswerHead' /\ AnswerEnd' /\ AnswerBlocks'
    BY <1>1 DEF AnswerHead, AnswerEnd, AnswerBlocks
  <1>8. AnswerGot'
    <2>1. 8 \in Nat /\ 8 <= 8 + BodyLen
      BY <1>3
    <2> QED
      BY <1>3, <1>5, <2>1 DEF AnswerGot, At
  <1>9. AnswerBody'
    <2>1. At(Early', 8, pos') /\ m_uRecvContentLength' = 0 /\ 8 + 0 = 8
      BY <1>1, <1>2, <1>3 DEF Early
    <2> QED
      BY <1>1, <1>3, <1>5, <2>1 DEF AnswerBody, At
  <1> QED
    BY <1>6, <1>7, <1>8, <1>9 DEF AnswerInv

\* A block to a caller of read(), if there is any.
Handed(d) == IF d = <<>> THEN blocks ELSE Append(blocks, d)

\* The text of the blocks handed over, with one more.
LEMMA HandedText ==
  ASSUME blocks \in Seq(Seq(Byte)), NEW d \in Seq(Byte)
  PROVE  Handed(d) \in Seq(Seq(Byte)) /\ All(Handed(d)) = Cat(All(blocks), d)
  <1> DEFINE one == <<d>>
             x == blocks
  <1>0. x \in Seq(Seq(Byte)) /\ All(x) \in Seq(Byte)
    BY AllType
  <1>1. CASE d = <<>>
    BY <1>0, <1>1, CatEmpty DEF Handed
  <1>2. CASE d # <<>>
    <2>1. Append(x, d) \in Seq(Seq(Byte)) /\ FlattenSeq(Append(x, d)) = FlattenSeq(x) \o d
      <3> HIDE DEF x
      <3> QED
        BY <1>0, FlattenAppend
    <2>2. Handed(d) = Append(x, d)
      BY <1>2 DEF Handed
    <2> HIDE DEF x
    <2>3. All(Append(x, d)) = Cat(All(x), d)
      BY <2>1 DEF All, Cat
    <2> QED
      BY <2>1, <2>2, <2>3 DEF x
  <1> QED
    BY <1>1, <1>2

\* A call of read() that has got d so far and keeps what is behind it.
LEMMA PulledInv ==
  ASSUME AnswerInv, BodyLen' = BodyLen, BlockLen' = BlockLen, mode' = mode, mode = "pull",
         peer' = peer, sent' = sent, pos' \in Nat, pos' <= sent, spill' \in Nat,
         m_uRecvContentLength' \in Nat, pc' \in {"ready", "pull"},
         blocks' \in Seq(Seq(Byte)),
         \E i \in Nat : /\ At(All(blocks'), 8, i)
                        /\ At(m_sReaderBuffer', i, 8 + m_uRecvContentLength')
                        /\ At(Early', 8 + m_uRecvContentLength', pos'),
         pc' = "pull" => Early' = <<>> /\ m_sReaderBuffer' = <<>> /\ want' \in Nat \ {0}
  PROVE  AnswerInv'
  <1>0. BodyLen \in Nat /\ sent \in Nat /\ sent <= 8 + BodyLen
    BY DEF AnswerInv, AnswerTypes
  <1>1. AnswerTypes'
    BY DEF AnswerInv, AnswerTypes
  <1>2. AnswerHead' /\ AnswerEnd' /\ AnswerBlocks'
    BY DEF AnswerHead, AnswerEnd, AnswerBlocks
  <1>3. AnswerBody'
    BY DEF AnswerBody, At
  <1>4. AnswerGot'
    <2>1. PICK i \in Nat : /\ At(All(blocks'), 8, i)
                           /\ At(m_sReaderBuffer', i, 8 + m_uRecvContentLength')
                           /\ At(Early', 8 + m_uRecvContentLength', pos')
      OBVIOUS
    <2> DEFINE k == 8 + m_uRecvContentLength'
    <2>2. k \in Nat
      <3>1. \A x \in Nat : 8 + x \in Nat
        OBVIOUS
      <3> QED
        BY <3>1, Zenon
    <2>3. At(m_sReaderBuffer', i, k) /\ At(Early', k, pos')
      BY <2>1
    <2> HIDE DEF k
    <2>4. i <= k /\ k <= pos'
      BY <2>2, <2>3, PieceLength DEF At
    <2>5. i <= 8 + BodyLen
      BY <1>0, <2>2, <2>4
    <2> QED
      BY <2>1, <2>5 DEF AnswerGot, At
  <1> QED
    BY <1>1, <1>2, <1>3, <1>4 DEF AnswerInv

\* What a call of read() finds.
LEMMA KeptPieces ==
  ASSUME AnswerInv, pc = "ready"
  PROVE  /\ mode = "pull" /\ Answer!Counted \in Nat
         /\ \E j \in Nat : /\ At(All(blocks), 8, j) /\ At(Answer!Kept, j, 8 + Answer!Counted)
                           /\ \/ 8 + Answer!Counted = pos
                              \/ Answer!Counted > 0 /\ At(<<>>, 8 + Answer!Counted, pos)
  <1>1. PICK j \in Nat : /\ At(All(blocks), 8, j)
                         /\ At(m_sReaderBuffer, j, 8 + m_uRecvContentLength)
                         /\ At(Early, 8 + m_uRecvContentLength, pos)
    BY DEF AnswerInv, AnswerBody
  <1>2. m_uRecvContentLength \in Nat /\ mode = "pull" /\ pos \in Nat
    BY DEF AnswerInv, AnswerTypes, AnswerBody
  <1>3. CASE m_uRecvContentLength = 0
    <2>1. At(m_sRecvBuffer, 8, pos) /\ At(m_sReaderBuffer, j, 8)
      BY <1>1, <1>3 DEF Early
    <2>2. 8 <= j /\ j <= 8
      BY <1>1, <2>1, PieceLength DEF At
    <2>3. Len(m_sRecvBuffer) \in Nat /\ pos = 8 + Len(m_sRecvBuffer)
      BY <1>2, <2>1, PieceLength DEF At
    <2>4. Answer!Kept = m_sRecvBuffer /\ Answer!Counted = Len(m_sRecvBuffer)
      BY <1>3 DEF Answer!Kept, Answer!Counted, Answer!First
    <2>5. j = 8
      BY <2>2
    <2> QED
      BY <1>1, <1>2, <2>1, <2>3, <2>4, <2>5
  <1>4. CASE m_uRecvContentLength # 0
    <2>1. Answer!Kept = m_sReaderBuffer /\ Answer!Counted = m_uRecvContentLength /\ Early = <<>>
      BY <1>4 DEF Answer!Kept, Answer!Counted, Answer!First, Early
    <2> QED
      BY <1>1, <1>2, <1>4, <2>1
  <1> QED
    BY <1>3, <1>4

\* A call of read().
LEMMA ReadStartStep ==
  ASSUME AnswerInv, NEW s \in PullSizes, Answer!ReadStart(s)
  PROVE  AnswerInv'
  <1> DEFINE kept == Answer!Kept
             n == IF s < Len(kept) THEN s ELSE Len(kept)
             got == Cut(kept, 1, n)
             left == Cut(kept, n + 1, Len(kept))
             c == Answer!Counted
  <1>1. /\ pc = "ready" /\ m_uRecvContentLength' = c
        /\ m_sRecvBuffer' = IF Answer!First THEN <<>> ELSE m_sRecvBuffer
        /\ blocks' = Handed(got) /\ m_sReaderBuffer' = left
        /\ \/ pc' = "ready"
           \/ n # s /\ pc' = "pull" /\ want' = s - n
        /\ UNCHANGED <<sent, peer, pos, m_uContentLength, m_iBlockSize, mode, buf, spill>>
    BY DEF Answer!ReadStart, Answer!netvars, Answer!callvars, Handed, Cut
  <1>2. s \in Nat \ {0}
    BY ReadersAssumption
  <1>3. /\ mode = "pull" /\ c \in Nat
        /\ \E j \in Nat : /\ At(All(blocks), 8, j) /\ At(kept, j, 8 + c)
                          /\ \/ 8 + c = pos
                             \/ c > 0 /\ At(<<>>, 8 + c, pos)
    BY <1>1, KeptPieces
  <1>4. Early' = <<>>
    BY <1>1 DEF Early, Answer!First, Answer!Counted
  <1> HIDE DEF kept, c
  <1>5. PICK j \in Nat : /\ At(All(blocks), 8, j) /\ At(kept, j, 8 + c)
                         /\ \/ 8 + c = pos
                            \/ c > 0 /\ At(<<>>, 8 + c, pos)
    BY <1>3
  <1> DEFINE e == 8 + c
  <1>6. e \in Nat /\ At(kept, j, e) /\ (e = pos \/ At(<<>>, e, pos))
    BY <1>3, <1>5
  <1> HIDE DEF e
  <1>7. kept \in Seq(Byte) /\ Len(kept) \in Nat
    BY <1>6, PieceLength DEF At
  <1>8. n \in Nat /\ n <= Len(kept) /\ (n # s => n = Len(kept) /\ s - n \in Nat \ {0})
    BY <1>2, <1>7
  <1> HIDE DEF n
  <1>9. At(got, j, j + n) /\ At(left, j + n, e)
    BY <1>6, <1>8, PieceHalves DEF At
  <1>10. j + n \in Nat /\ 8 \in Nat
    BY <1>8
  <1>11. got \in Seq(Byte)
    BY <1>9 DEF At, Piece
  <1>12. BodyLen \in Nat /\ BodyLen' = BodyLen /\ BlockLen' = BlockLen /\ pos \in Nat /\ pos <= sent /\ spill \in Nat /\ blocks \in Seq(Seq(Byte))
    BY <1>1 DEF AnswerInv, AnswerTypes, BodyLen, BlockLen
  <1> HIDE DEF got, left
  <1>13. blocks' \in Seq(Seq(Byte)) /\ At(All(blocks'), 8, j + n)
    <2>1. Handed(got) \in Seq(Seq(Byte)) /\ All(Handed(got)) = Cat(All(blocks), got)
      BY <1>11, <1>12, HandedText
    <2>2. At(Cat(All(blocks), got), 8, j + n)
      BY <1>5, <1>9, <1>10, PieceCat DEF At
    <2> QED
      BY <1>1, <2>1, <2>2
  <1>14. At(<<>>, e, pos)
    BY <1>6, PieceEmpty DEF At
  <1>15. pc' = "pull" => left = <<>> /\ want' \in Nat \ {0}
    <2>1. ASSUME n = Len(kept) PROVE left = <<>>
      <3>1. left \in Seq(Byte) /\ Len(left) = 0
        BY <1>7, <1>8, <2>1, CutHalves DEF left
      <3> QED
        BY <3>1
    <2> QED
      BY <1>1, <1>8, <2>1
  <1>16. \E i \in Nat : /\ At(All(blocks'), 8, i)
                        /\ At(m_sReaderBuffer', i, 8 + m_uRecvContentLength')
                        /\ At(Early', 8 + m_uRecvContentLength', pos')
    <2>1. 8 + m_uRecvContentLength' = e
      BY <1>1 DEF e
    <2> QED
      BY <1>1, <1>4, <1>9, <1>10, <1>13, <1>14, <2>1
  <1> QED
    BY <1>1, <1>3, <1>4, <1>12, <1>13, <1>15, <1>16, PulledInv

\* recv() in a call of read().
LEMMA ReadRecvStep ==
  ASSUME AnswerInv, Answer!ReadRecv
  PROVE  AnswerInv'
  <1> DEFINE d == Answer!Bytes(want)
             n == Answer!Taken(want)
  <1>1. /\ pc = "pull" /\ pos' = pos + Len(d)
        /\ m_uRecvContentLength' = m_uRecvContentLength + Len(d)
        /\ blocks' = Handed(d)
        /\ \/ Len(d) < want /\ want' = want - Len(d) /\ UNCHANGED pc
           \/ pc' = "ready"
        /\ UNCHANGED <<sent, peer, m_uContentLength, m_iBlockSize, mode, buf, m_sRecvBuffer, m_sReaderBuffer, spill>>
    BY DEF Answer!ReadRecv, Answer!netvars, Answer!callvars, Answer!linevars, Handed
  <1>2. /\ mode = "pull" /\ Early = <<>> /\ m_sReaderBuffer = <<>> /\ want \in Nat \ {0}
    BY <1>1 DEF AnswerInv, AnswerBody
  <1>3. PICK j \in Nat : /\ At(All(blocks), 8, j)
                         /\ At(m_sReaderBuffer, j, 8 + m_uRecvContentLength)
                         /\ At(Early, 8 + m_uRecvContentLength, pos)
    BY <1>1 DEF AnswerInv, AnswerBody
  <1>4. /\ n \in Nat /\ n <= want /\ pos + n \in Nat /\ pos + n <= sent
        /\ At(d, pos, pos + n)
        /\ d \in Seq(Byte) /\ Len(d) = n
    BY <1>2, TakenBytes DEF AnswerInv
  <1> HIDE DEF d, n
  <1>5. /\ BodyLen \in Nat /\ BodyLen' = BodyLen /\ BlockLen' = BlockLen /\ pos \in Nat /\ m_uRecvContentLength \in Nat
        /\ spill' \in Nat /\ blocks \in Seq(Seq(Byte))
    BY <1>1 DEF AnswerInv, AnswerTypes, BodyLen, BlockLen
  <1>6. j = pos /\ pos = 8 + m_uRecvContentLength
    <2> DEFINE e == 8 + m_uRecvContentLength
    <2>1. e \in Nat /\ At(<<>>, j, e) /\ At(<<>>, e, pos)
      BY <1>2, <1>3, <1>5
    <2> HIDE DEF e
    <2>2. e = j + Len(<<>>) /\ pos = e + Len(<<>>)
      BY <1>5, <2>1, PieceLength DEF At
    <2>3. e = j /\ pos = e
      BY <1>5, <2>1, <2>2
    <2> QED
      BY <2>3 DEF e
  <1>7. blocks' \in Seq(Seq(Byte)) /\ At(All(blocks'), 8, pos')
    <2>1. Handed(d) \in Seq(Seq(Byte)) /\ All(Handed(d)) = Cat(All(blocks), d)
      BY <1>4, <1>5, HandedText
    <2>2. At(Cat(All(blocks), d), 8, pos + n)
      BY <1>3, <1>4, <1>5, <1>6, PieceCat DEF At
    <2> QED
      BY <1>1, <1>4, <2>1, <2>2
  <1>8. pos' \in Nat /\ pos' <= sent /\ m_uRecvContentLength' \in Nat /\ 8 + m_uRecvContentLength' = pos'
    BY <1>1, <1>4, <1>5, <1>6
  <1>9. Early' = <<>>
    BY <1>1, <1>2, <1>4, <1>5 DEF Early
  <1>10. m_sReaderBuffer' = <<>> /\ At(<<>>, pos', pos')
    BY <1>1, <1>2, <1>8, PieceEmpty DEF At
  <1>11. \E i \in Nat : /\ At(All(blocks'), 8, i)
                        /\ At(m_sReaderBuffer', i, 8 + m_uRecvContentLength')
                        /\ At(Early', 8 + m_uRecvContentLength', pos')
    BY <1>7, <1>8, <1>9, <1>10
  <1>12. pc' \in {"ready", "pull"} /\ (pc' = "pull" => Early' = <<>> /\ m_sReaderBuffer' = <<>> /\ want' \in Nat \ {0})
    BY <1>1, <1>2, <1>4, <1>9, <1>10
  <1> QED
    BY <1>1, <1>2, <1>5, <1>7, <1>8, <1>11, <1>12, PulledInv

\* A list that agrees with a longer one begins it.
LEMMA SamePrefix ==
  ASSUME NEW S, NEW s \in Seq(S), NEW t \in Seq(S), Len(s) <= Len(t),
         \A i \in 1 .. Len(s) : s[i] = t[i]
  PROVE  IsPrefix(s, t)
  <1> DEFINE n == Len(s)
  <1>1. n \in Nat /\ Len(t) \in Nat /\ n <= Len(t)
    OBVIOUS
  <1>2. Piece(S, t, s, 0, n)
    BY DEF Piece
  <1>3. SubSeq(s, 1, n) = s
    BY SubSeqFull
  <1> HIDE DEF n
  <1>4. Piece(S, t, SubSeq(t, 0 + 1, n), 0, n)
    BY <1>1, PieceOf
  <1>5. SubSeq(t, 0 + 1, n) = s
    BY <1>1, <1>2, <1>4, PieceSame
  <1>6. SubSeq(t, 1, n) = s
    BY <1>5
  <1> QED
    BY <1>1, <1>3, <1>6 DEF IsPrefix, n

\* The invariant of HttpReader holds at first.
LEMMA AnswerInit ==
  ASSUME Init PROVE AnswerInv
  <1> USE ReadersAssumption
  <1>1. Answer!Init
    BY DEF Init
  <1>2. /\ sent = 0 /\ pos = 0 /\ peer = "open" /\ m_uContentLength \in Lengths /\ m_iBlockSize \in BlockSizes
        /\ mode \in {"push", "pull"} /\ pc = "status" /\ buf = <<>> /\ m_sRecvBuffer = <<>>
        /\ m_sReaderBuffer = <<>> /\ m_uRecvContentLength = 0 /\ want = 0 /\ blocks = <<>> /\ spill = 0
        /\ result = "none"
    BY <1>1 DEF Answer!Init
  <1>3. BodyLen \in Nat /\ BlockLen \in Nat \ {0} /\ BodyLen + BlockLen + HeadMax < Word /\ HeadMax \in Nat \ {0}
    <2>1. BodyLen \in Lengths /\ BlockLen \in BlockSizes /\ HeadMax \in Nat \ {0} /\ Word \in Nat
      BY <1>2 DEF BodyLen, BlockLen
    <2>2. Word > BodyLen + BlockLen + HeadMax
      BY <2>1
    <2>3. BodyLen \in Nat /\ BlockLen \in Nat \ {0}
      BY <2>1
    <2> HIDE ReadersAssumption
    <2> QED
      BY <2>1, <2>2, <2>3
  <1> HIDE ReadersAssumption
  <1>4. <<>> \in Seq(Byte) /\ <<>> \in Seq(Seq(Byte)) /\ Len(<<>>) = 0
    OBVIOUS
  <1>5. AnswerTypes
    BY <1>2, <1>3, <1>4 DEF AnswerTypes
  <1>6. At(<<>>, 0, 0) /\ At(<<>>, 8, 8)
    BY PieceEmpty DEF At
  <1>7. AnswerHead
    BY <1>2, <1>3, <1>4, <1>6 DEF AnswerHead
  <1>8. AnswerBody /\ AnswerEnd
    BY <1>2 DEF AnswerBody, AnswerEnd
  <1>9. AnswerGot
    <2>1. At(All(blocks), 8, 8)
      BY <1>2, <1>6, AllEmpty
    <2>2. 8 \in Nat /\ 8 <= 8 + BodyLen
      BY <1>3
    <2> QED
      BY <2>1, <2>2 DEF AnswerGot
  <1>10. AnswerBlocks
    <2>1. Tight(<<>>, BlockLen) /\ Full(<<>>, BlockLen) /\ Len(<<>>) <= BlockLen
      BY <1>3 DEF Tight, Full
    <2> QED
      BY <1>2, <2>1 DEF AnswerBlocks
  <1> QED
    BY <1>5, <1>7, <1>8, <1>9, <1>10 DEF AnswerInv

\* One step of the client or the server.
LEMMA AnswerStep ==
  ASSUME AnswerInv, Answer!Next
  PROVE  AnswerInv'
  <1>1. BodyLen \in Nat /\ sent \in Nat /\ pos \in Nat /\ pos <= sent /\ sent <= 8 + BodyLen
        /\ peer \in {"open", "closed", "reset"}
    BY DEF AnswerInv, AnswerTypes
  <1>2. Len(Answer!Answer) = 8 + BodyLen
    BY <1>1, ReplyText, AnswerText
  <1>3. ASSUME NEW n \in 1 .. Len(Answer!Answer), Answer!Send(n) PROVE AnswerInv'
    <2>1. /\ sent' = sent + n /\ n \in 1 .. Len(Answer!Answer) - sent
          /\ UNCHANGED <<peer, pos, m_uContentLength, m_iBlockSize, mode, pc, buf, m_sRecvBuffer,
                         m_sReaderBuffer, m_uRecvContentLength, want, blocks, spill, result>>
      BY <1>3 DEF Answer!Send, Answer!callvars, Answer!linevars, Answer!bodyvars
    <2>2. sent' \in Nat /\ pos <= sent' /\ sent' <= 8 + BodyLen
      BY <1>1, <1>2, <2>1
    <2>3. peer' \in {"open", "closed", "reset"}
      BY <1>1, <2>1
    <2> QED
      BY <2>1, <2>2, <2>3, ServerStep
  <1>4. ASSUME Answer!Close \/ Answer!Reset PROVE AnswerInv'
    <2>1. /\ peer' \in {"open", "closed", "reset"} /\ sent' \in {sent, pos}
          /\ UNCHANGED <<pos, m_uContentLength, m_iBlockSize, mode, pc, buf, m_sRecvBuffer,
                         m_sReaderBuffer, m_uRecvContentLength, want, blocks, spill, result>>
      BY <1>4 DEF Answer!Close, Answer!Reset, Answer!callvars, Answer!linevars, Answer!bodyvars
    <2>2. sent' \in Nat /\ pos <= sent' /\ sent' <= 8 + BodyLen
      BY <1>1, <2>1
    <2> QED
      BY <2>1, <2>2, ServerStep
  <1>5. ASSUME Answer!Client PROVE AnswerInv'
    BY <1>5, WaitStep, LineRecvStep, LineStep, HeaderEndPushStep, HeaderEndPullStep, BlocksRecvStep,
       ReadRecvStep DEF Answer!Client
  <1>6. ASSUME NEW s \in PullSizes, Answer!ReadStart(s) PROVE AnswerInv'
    BY <1>6, ReadStartStep
  <1>7. ASSUME Answer!Finish PROVE AnswerInv'
    <2>1. /\ pc = "ready" /\ pc' = "done"
          /\ UNCHANGED <<sent, peer, pos, m_uContentLength, m_iBlockSize, mode, m_sReaderBuffer,
                         m_uRecvContentLength, blocks, spill>>
      BY <1>7 DEF Answer!Finish, Answer!Done, Answer!netvars, Answer!callvars, Answer!bodyvars
    <2>2. mode = "pull"
      BY <2>1 DEF AnswerInv, AnswerBody
    <2>3. AnswerTypes'
      BY <2>1 DEF AnswerInv, AnswerTypes, BodyLen, BlockLen
    <2> QED
      BY <2>1, <2>2, <2>3, AnswerStops
  <1>8. ASSUME Answer!Terminated PROVE AnswerInv'
    <2>1. UNCHANGED <<pos, peer, sent, m_uContentLength, m_iBlockSize, mode, pc, buf, m_sRecvBuffer,
                      m_sReaderBuffer, m_uRecvContentLength, want, blocks, spill, result>>
      BY <1>8 DEF Answer!Terminated, Answer!vars, Answer!netvars, Answer!callvars, Answer!linevars, Answer!bodyvars
    <2> QED
      BY <1>1, <2>1, ServerStep
  <1> QED
    BY <1>3, <1>4, <1>5, <1>6, <1>7, <1>8 DEF Answer!Next

\* Every step keeps the invariant of HttpReader.
LEMMA AnswerNext ==
  ASSUME AnswerInv, [Next]_vars
  PROVE  AnswerInv'
  <1>1. CASE AnswerMoves
    BY <1>1, AnswerStep DEF AnswerMoves
  <1>2. CASE UNCHANGED answer
    <2>1. UNCHANGED <<pos, peer, sent, m_uContentLength, m_iBlockSize, mode, pc, buf, m_sRecvBuffer,
                      m_sReaderBuffer, m_uRecvContentLength, want, blocks, spill, result>>
      BY <1>2 DEF answer
    <2>2. BodyLen \in Nat /\ sent \in Nat /\ pos \in Nat /\ pos <= sent /\ sent <= 8 + BodyLen
        /\ peer \in {"open", "closed", "reset"}
      BY DEF AnswerInv, AnswerTypes
    <2> QED
      BY <2>1, <2>2, ServerStep
  <1> QED
    BY <1>1, <1>2 DEF Next, ChunkedMoves, RequestMoves, ListingMoves, vars

\* What the invariant says of what was handed over.
LEMMA AnswerShows ==
  ASSUME AnswerInv PROVE AnswerHandedOver
  <1> DEFINE text == ReplyOf(BodyLen)
             got == All(blocks)
  <1>1. /\ BodyLen \in Nat /\ BlockLen \in Nat \ {0} /\ blocks \in Seq(Seq(Byte)) /\ pos \in Nat
        /\ m_uRecvContentLength \in Nat
    BY DEF AnswerInv, AnswerTypes
  <1>2. text \in Seq(Byte) /\ Len(text) = 8 + BodyLen
    BY <1>1, ReplyText
  <1>3. Answer!Got = got
    BY DEF Answer!Got, All, Answer!FlattenSeq, FlattenSeq
  <1>4. Answer!Body = SubSeq(text, 8 + 1, 8 + BodyLen)
    BY <1>2, AnswerText DEF Answer!Body
  <1> HIDE DEF text
  <1>5. /\ Answer!Body \in Seq(Byte) /\ Len(Answer!Body) = BodyLen
        /\ Piece(Byte, text, Answer!Body, 8, 8 + BodyLen)
    <2> DEFINE e == 8 + BodyLen
    <2>1. e \in Nat /\ 8 <= e /\ e = Len(text) /\ e - 8 = BodyLen
      BY <1>1, <1>2
    <2>2. Answer!Body = SubSeq(text, 8 + 1, e)
      BY <1>4
    <2> HIDE DEF e
    <2>3. Piece(Byte, text, SubSeq(text, 8 + 1, e), 8, e)
      BY <1>2, <2>1, PieceOf
    <2>4. Piece(Byte, text, Answer!Body, 8, e)
      BY <2>2, <2>3
    <2>5. Answer!Body \in Seq(Byte) /\ Len(Answer!Body) = e - 8
      BY <2>1, <2>4, PieceLength
    <2> QED
      BY <2>1, <2>4, <2>5 DEF e
  <1> HIDE DEF got
  <1>6. Answer!GotIsPrefix
    <2>1. PICK j \in Nat : j <= 8 + BodyLen /\ Piece(Byte, text, got, 8, j)
      BY DEF AnswerInv, AnswerGot, At, text, got
    <2>2. got \in Seq(Byte) /\ Len(got) \in Nat /\ Len(got) <= BodyLen /\ \A i \in 1 .. Len(got) : got[i] = text[8 + i]
      <3>1. got \in Seq(Byte) /\ Len(got) \in Nat /\ Len(got) = j - 8
        BY <2>1, PieceLength
      <3> QED
        BY <1>1, <2>1, <3>1 DEF Piece
    <2>3. \A i \in 1 .. BodyLen : Answer!Body[i] = text[8 + i]
      BY <1>5 DEF Piece
    <2>4. \A i \in 1 .. Len(got) : got[i] = Answer!Body[i]
      BY <1>1, <2>2, <2>3
    <2> DEFINE body0 == Answer!Body
    <2>5. IsPrefix(got, body0)
      <3>1. body0 \in Seq(Byte) /\ Len(got) <= Len(body0) /\ \A i \in 1 .. Len(got) : got[i] = body0[i]
        BY <1>5, <2>2, <2>4
      <3> HIDE DEF body0
      <3> QED
        BY <2>2, <3>1, SamePrefix
    <2> QED
      BY <1>3, <2>5 DEF Answer!GotIsPrefix, Answer!IsPrefix, IsPrefix
  <1>7. Answer!Accounted
    <2> SUFFICES ASSUME pc \in {"blocks", "pull", "ready"}
                 PROVE LET early == IF mode = "pull" /\ m_uRecvContentLength = 0 THEN m_sRecvBuffer ELSE <<>>
                       IN /\ pos = Len(Answer!Header) + m_uRecvContentLength + Len(early)
                          /\ Len(Answer!Got) + Len(m_sReaderBuffer) = m_uRecvContentLength
      BY DEF Answer!Accounted
    <2> DEFINE early == IF mode = "pull" /\ m_uRecvContentLength = 0 THEN m_sRecvBuffer ELSE <<>>
               u == 8 + m_uRecvContentLength
    <2>1. \E j \in Nat : At(got, 8, j) /\ At(m_sReaderBuffer, j, u) /\ At(early, u, pos)
      <3>1. CASE pc = "blocks"
        <4>1. mode = "push" /\ pos = u /\ \E j \in Nat : At(got, 8, j) /\ At(m_sReaderBuffer, j, pos)
          BY <3>1 DEF AnswerInv, AnswerBody, got
        <4>2. early = <<>> /\ At(<<>>, pos, pos)
          BY <1>1, <4>1, PieceEmpty DEF At
        <4> QED
          BY <4>1, <4>2
      <3>2. CASE pc \in {"ready", "pull"}
        <4>1. mode = "pull" /\ early = Early
          BY <3>2 DEF AnswerInv, AnswerBody, Early
        <4> QED
          BY <3>2, <4>1 DEF AnswerInv, AnswerBody, got
      <3> QED
        BY <3>1, <3>2
    <2>2. u \in Nat
      BY <1>1
    <2>3. PICK j \in Nat : At(got, 8, j) /\ At(m_sReaderBuffer, j, u) /\ At(early, u, pos)
      BY <2>1
    <2> HIDE DEF u, early
    <2>4. /\ Len(got) = j - 8 /\ Len(got) \in Nat
          /\ Len(m_sReaderBuffer) = u - j /\ Len(m_sReaderBuffer) \in Nat
          /\ Len(early) = pos - u /\ Len(early) \in Nat
      BY <1>1, <2>2, <2>3, PieceLength DEF At
    <2>5. pos = 8 + m_uRecvContentLength + Len(early) /\ Len(got) + Len(m_sReaderBuffer) = m_uRecvContentLength
      BY <1>1, <2>2, <2>4 DEF u
    <2> QED
      BY <1>3, <2>5, AnswerText DEF early
  <1>8. Answer!SuccessIsWhole
    <2> SUFFICES ASSUME mode = "push", result = "ok" PROVE got = Answer!Body
      BY <1>3 DEF Answer!SuccessIsWhole
    <2>1. Piece(Byte, text, got, 8, 8 + BodyLen)
      BY DEF AnswerInv, AnswerEnd, At, text, got
    <2>2. 8 + BodyLen \in Nat /\ 8 \in Nat
      BY <1>1
    <2> QED
      BY <1>2, <1>5, <2>1, <2>2, PieceSame
  <1>9. Answer!BlockBound
    BY DEF AnswerInv, AnswerBlocks, Answer!BlockBound, Tight, BlockLen
  <1> QED
    BY <1>6, <1>7, <1>8, <1>9 DEF AnswerHandedOver

\* HttpReader hands over the body of an answer from its beginning on, byte by
\* byte, in blocks of the chosen size, counts every byte once, and calls only a
\* whole body a success, however the answer is cut into reads.
THEOREM AnswerHolds == Spec => []AnswerHandedOver
  <1>1. Init => AnswerInv
    BY AnswerInit
  <1>2. AnswerInv /\ [Next]_vars => AnswerInv'
    BY AnswerNext
  <1>3. AnswerInv => AnswerHandedOver
    BY AnswerShows
  <1> QED
    BY <1>1, <1>2, <1>3, PTL DEF Spec

-----------------------------------------------------------------------------
(***************************************************************************)
(* RequestParser: the lines of a request.  The invariant says that the     *)
(* buffer is the request from behind the lines that were taken.            *)
(***************************************************************************)
\* Characters, the lines of a request as they are sent, where the k-th ends.
Char == {<<"cr">>, <<"lf">>} \cup {<<"char", x[1], x[2]>> : x \in Nat \X Nat}
EndOfLine == <<<<"cr">>, <<"lf">>>>
LineOf(r, i) == Request!LineText(r, i)
SentLine(r, i) == Cat(LineOf(r, i), EndOfLine)
SentLines(r) == [i \in 1 .. Len(r) |-> SentLine(r, i)]
Whole(r) == Request!Text(r)
EndOf(r, k) == Len(All(Cut(SentLines(r), 1, k)))

\* A request is its lines, one behind the other.
LEMMA WholeText ==
  ASSUME NEW r \in Seq(Nat)
  PROVE  Whole(r) = All(SentLines(r))
  <1>1. DOMAIN r = 1 .. Len(r)
    OBVIOUS
  <1> QED
    BY <1>1 DEF Whole, Request!Text, Request!CR, Request!LF, SentLines, SentLine, LineOf, Cat, EndOfLine,
       All, FlattenSeq, Request!FlattenSeq

\* A line has no CR before its CR LF.
LEMMA LineChars ==
  ASSUME NEW r \in Seq(Nat), NEW i \in 1 .. Len(r)
  PROVE  /\ LineOf(r, i) \in Seq(Char) /\ Len(LineOf(r, i)) = r[i] /\ r[i] \in Nat
         /\ EndOfLine \in Seq(Char) /\ Len(EndOfLine) = 2
         /\ SentLine(r, i) \in Seq(Char) /\ Len(SentLine(r, i)) = r[i] + 2
         /\ \A j \in 1 .. r[i] : SentLine(r, i)[j] # <<"cr">>
         /\ SentLine(r, i)[r[i] + 1] = <<"cr">> /\ SentLine(r, i)[r[i] + 2] = <<"lf">>
  <1>1. r[i] \in Nat /\ i \in Nat
    OBVIOUS
  <1> DEFINE n == r[i]
             a == LineOf(r, i)
             e == EndOfLine
  <1>2. a = [j \in 1 .. n |-> <<"char", i, j>>]
    BY DEF LineOf, Request!LineText
  <1>3. ASSUME NEW j \in 1 .. n PROVE <<"char", i, j>> \in Char /\ <<"char", i, j>> # <<"cr">>
    <2>1. <<i, j>> \in Nat \X Nat /\ <<i, j>>[1] = i /\ <<i, j>>[2] = j
      BY <1>1
    <2>2. <<"char", i, j>> # <<"cr">>
      OBVIOUS
    <2> QED
      BY <2>1, <2>2 DEF Char
  <1>4. e \in Seq(Char) /\ Len(e) = 2 /\ e[1] = <<"cr">> /\ e[2] = <<"lf">>
    <2>1. <<"cr">> \in Char /\ <<"lf">> \in Char
      BY DEF Char
    <2> QED
      BY <2>1 DEF EndOfLine
  <1> HIDE DEF n, a, e
  <1>5. n \in Nat
    BY <1>1 DEF n
  <1>6. a \in Seq(Char) /\ Len(a) = n /\ \A j \in 1 .. n : a[j] # <<"cr">>
    <2>1. ASSUME NEW j \in 1 .. n PROVE a[j] \in Char /\ a[j] # <<"cr">>
      <3>1. a[j] = <<"char", i, j>>
        BY <1>2
      <3> QED
        BY <1>3, <3>1
    <2> QED
      BY <1>2, <1>5, <2>1
  <1>7. Cat(a, e) \in Seq(Char) /\ Len(Cat(a, e)) = n + 2
    BY <1>4, <1>6, CatType
  <1>8. ASSUME NEW j \in 1 .. n + 2 PROVE Cat(a, e)[j] = IF j <= n THEN a[j] ELSE e[j - n]
    <2>1. j \in 1 .. Len(a) + Len(e)
      BY <1>4, <1>6
    <2>2. Cat(a, e)[j] = IF j <= Len(a) THEN a[j] ELSE e[j - Len(a)]
      BY <1>4, <1>6, <2>1, CatElement
    <2> QED
      BY <1>6, <2>2
  <1>9. \A j \in 1 .. n : Cat(a, e)[j] # <<"cr">>
    BY <1>5, <1>6, <1>8
  <1>10. Cat(a, e)[n + 1] = <<"cr">> /\ Cat(a, e)[n + 2] = <<"lf">>
    <2>1. /\ n + 1 \in 1 .. n + 2 /\ n + 2 \in 1 .. n + 2 /\ ~(n + 1 <= n) /\ ~(n + 2 <= n)
          /\ n + 1 - n = 1 /\ n + 2 - n = 2
      BY <1>5
    <2> QED
      <3> DEFINE c == Cat(a, e)
                 p == n + 1
                 q == n + 2
      <3>a. p \in 1 .. n + 2 /\ ~(p <= n) /\ p - n = 1 /\ q \in 1 .. n + 2 /\ ~(q <= n) /\ q - n = 2
        BY <1>5
      <3> HIDE DEF c, p, q
      <3>b. \A j \in 1 .. n + 2 : c[j] = IF j <= n THEN a[j] ELSE e[j - n]
        BY <1>8 DEF c
      <3>c. c[p] = e[1] /\ c[q] = e[2]
        BY <3>a, <3>b
      <3> QED
        BY <1>4, <3>c DEF c, p, q
  <1>11. SentLine(r, i) = Cat(a, e)
    BY DEF SentLine, a, e
  <1> QED
    BY <1>4, <1>5, <1>6, <1>7, <1>9, <1>10, <1>11 DEF n, a, e

\* Where a line is in the text.
LEMMA LineInText ==
  ASSUME NEW r \in Seq(Nat), NEW k \in Nat, k < Len(r)
  PROVE  /\ EndOf(r, k) \in Nat /\ EndOf(r, k + 1) \in Nat /\ EndOf(r, k + 1) = EndOf(r, k) + r[k + 1] + 2
         /\ EndOf(r, k + 1) <= Len(Whole(r))
         /\ Piece(Char, Whole(r), SentLine(r, k + 1), EndOf(r, k), EndOf(r, k + 1))
         /\ Piece(Char, Whole(r), LineOf(r, k + 1), EndOf(r, k), EndOf(r, k) + r[k + 1])
  <1> DEFINE text == Whole(r)
             Lists == Seq(Char)
             w == SentLines(r)
             a == Cut(w, 1, k)
             a1 == Cut(w, 1, k + 1)
             x == SentLine(r, k + 1)
  <1>0. Len(r) \in Nat /\ k + 1 \in 1 .. Len(r) /\ k + 1 \in Nat /\ k + 1 <= Len(r) /\ k <= Len(r)
    OBVIOUS
  <1>1. w \in Seq(Lists) /\ Len(w) = Len(r) /\ w[k + 1] = x
    <2>1. \A i \in 1 .. Len(r) : SentLine(r, i) \in Lists
      BY LineChars
    <2> QED
      BY <1>0, <2>1 DEF SentLines
  <1>2. x \in Seq(Char) /\ Len(x) = r[k + 1] + 2 /\ r[k + 1] \in Nat /\ x = Cat(LineOf(r, k + 1), EndOfLine)
        /\ LineOf(r, k + 1) \in Seq(Char) /\ EndOfLine \in Seq(Char) /\ Len(LineOf(r, k + 1)) = r[k + 1]
    BY <1>0, LineChars DEF SentLine
  <1>3. text = All(w)
    BY WholeText
  <1> HIDE DEF w, text, x
  <1>4. a \in Seq(Lists) /\ a1 \in Seq(Lists) /\ a1 = Append(a, x)
    <2> HIDE DEF Lists
    <2>1. a \in Seq(Lists) /\ a1 \in Seq(Lists) /\ Len(a) = k /\ Len(a1) = k + 1
      BY <1>0, <1>1, CutHalves
    <2>2. Piece(Lists, w, SubSeq(w, 0 + 1, k), 0, k) /\ Piece(Lists, w, SubSeq(w, 0 + 1, k + 1), 0, k + 1)
      BY <1>0, <1>1, PieceOf
    <2>3. Piece(Lists, w, a, 0, k) /\ Piece(Lists, w, a1, 0, k + 1)
      BY <2>2 DEF Cut
    <2> HIDE DEF a, a1
    <2>4. (\A i \in 1 .. k : a[i] = w[i]) /\ (\A i \in 1 .. k + 1 : a1[i] = w[i])
      BY <2>1, <2>3 DEF Piece
    <2>5. x \in Lists
      BY <1>1, <1>0
    <2>6. /\ Append(a, x) \in Seq(Lists) /\ Len(Append(a, x)) = k + 1
          /\ Append(a, x)[k + 1] = x /\ \A i \in 1 .. k : a[i] = Append(a, x)[i]
      BY <2>1, <2>5, AppendProperties
    <2> DEFINE b == Append(a, x)
    <2>7. \A i \in 1 .. k + 1 : a1[i] = b[i]
      <3>1. \A i \in 1 .. k + 1 : i \in 1 .. k \/ i = k + 1
        OBVIOUS
      <3>2. a1[k + 1] = x
        BY <1>1, <2>4
      <3> QED
        BY <2>4, <2>6, <3>1, <3>2
    <2> HIDE DEF b
    <2>8. a1 = b
      BY <2>1, <2>6, <2>7, SeqEqual DEF b
    <2> QED
      BY <2>1, <2>8 DEF b
  <1> HIDE DEF a, a1
  <1>5. All(a) \in Seq(Char) /\ All(a1) = Cat(All(a), x) /\ All(a1) \in Seq(Char)
    <2>1. a \in Seq(Seq(Char)) /\ a1 \in Seq(Seq(Char))
      BY <1>4
    <2>2. FlattenSeq(Append(a, x)) = FlattenSeq(a) \o x
      BY <1>2, <2>1, FlattenAppend
    <2>3. All(a1) = Cat(All(a), x)
      BY <1>4, <2>2 DEF All, Cat
    <2> QED
      BY <2>1, <2>3, AllType
  <1>6. text \in Seq(Char) /\ \E e \in Seq(Char) : text = Cat(All(a1), e)
    <2>1. w \in Seq(Seq(Char)) /\ k + 1 <= Len(w)
      BY <1>0, <1>1
    <2> QED
      BY <1>0, <1>3, <2>1, AllHalves, AllType DEF a1
  <1>7. PICK e \in Seq(Char) : text = Cat(All(a1), e)
    BY <1>6
  <1>8. /\ Len(text) \in Nat /\ Len(All(a)) \in Nat /\ Len(All(a1)) \in Nat
        /\ Len(All(a1)) = Len(All(a)) + r[k + 1] + 2
    <2>1. Len(All(a1)) = Len(All(a)) + Len(x)
      BY <1>2, <1>5, CatType
    <2>2. Len(text) \in Nat /\ Len(All(a)) \in Nat /\ Len(All(a1)) \in Nat
      BY <1>5, <1>6
    <2>3. Len(All(a)) + Len(x) = Len(All(a)) + r[k + 1] + 2
      <3> DEFINE p == r[k + 1]
                 c == Len(All(a))
      <3>1. p \in Nat /\ c \in Nat /\ Len(x) = p + 2
        BY <1>2, <2>2
      <3> HIDE DEF p, c
      <3>2. c + Len(x) = c + p + 2
        BY <3>1
      <3> QED
        BY <3>2 DEF p, c
    <2> QED
      BY <2>1, <2>2, <2>3
  <1>9. Piece(Char, text, text, 0, Len(text))
    BY <1>6 DEF Piece
  <1> DEFINE n == Len(All(a))
             m == Len(All(a1))
             t == Len(text)
  <1>10. n \in Nat /\ m \in Nat /\ t \in Nat /\ m = n + (r[k + 1] + 2)
    BY <1>2, <1>8
  <1>11. Piece(Char, text, Cat(All(a1), e), 0, t)
    BY <1>7, <1>9
  <1>12. Piece(Char, text, All(a1), 0, m) /\ m <= t
    <2>1. Piece(Char, text, All(a1), 0, 0 + Len(All(a1))) /\ Piece(Char, text, e, 0 + Len(All(a1)), t)
      BY <1>5, <1>10, <1>11, PieceParts
    <2>2. 0 + Len(All(a1)) = m
      BY <1>10
    <2>3. Piece(Char, text, All(a1), 0, m) /\ Piece(Char, text, e, m, t)
      BY <2>1, <2>2
    <2> HIDE DEF m, t
    <2> QED
      BY <1>10, <2>3, PieceLength
  <1>13. Piece(Char, text, x, n, m)
    <2>1. Piece(Char, text, Cat(All(a), x), 0, m)
      BY <1>5, <1>12
    <2>2. Piece(Char, text, x, 0 + Len(All(a)), m)
      BY <1>2, <1>5, <1>10, <2>1, PieceParts
    <2>3. 0 + Len(All(a)) = n
      BY <1>10
    <2> QED
      BY <2>2, <2>3
  <1> HIDE DEF n, m, t
  <1>14. Piece(Char, text, LineOf(r, k + 1), n, n + r[k + 1])
    BY <1>2, <1>10, <1>13, PieceParts
  <1>15. EndOf(r, k) = n /\ EndOf(r, k + 1) = m
    BY DEF EndOf, a, a1, w, n, m
  <1> QED
    BY <1>8, <1>12, <1>13, <1>14, <1>15 DEF text, x, t, n, m

\* A request has a first line, and a blank one behind its head of n lines.
HeadOf(r, n) == n \in Nat /\ 1 <= n /\ n < Len(r) /\ r[n + 1] = 0 /\ \A i \in 1 .. n : r[i] # 0

\* The first k lines of a request, as the parser keeps them.
LinesOf(r, k) == [i \in 1 .. k |-> LineOf(r, i)]

\* The characters of the request from behind the n-th to the m-th.
Read(s, n, m) == Piece(Char, Whole(request), s, n, m)

\* The types of RequestParser, and no more read than sent.
RequestTypes ==
    /\ request \in Requests /\ request \in Seq(Nat)
    /\ r_sent \in Nat /\ r_pos \in Nat /\ r_pos <= r_sent /\ r_sent <= Len(Whole(request))
    /\ r_pc \in {"read", "parse", "done"} /\ m_cstatus \in {"ready", "header", "body"}

\* While the head is parsed: the lines taken are the first ones sent, and the
\* buffer is what has come behind them.
RequestLines ==
    m_cstatus # "body" =>
        /\ Len(lines) \in Nat /\ lines = LinesOf(request, Len(lines)) /\ lines \in Seq(Seq(Char))
        /\ Read(m_sBuffer, EndOf(request, Len(lines)), r_pos)
        /\ EndOf(request, Len(lines)) = Len(All(lines)) + 2 * Len(lines)
        /\ \A n : HeadOf(request, n) => Len(lines) <= n
        /\ m_cstatus = "header" <=> Len(lines) # 0
        /\ r_pc = "read" => ~Request!HasLine

\* What each result of the parser says of the request.
RequestEnd ==
    /\ m_cstatus = "body" => r_pc = "done"
    /\ r_pc # "done" => r_result = "none"
    /\ r_result = "ok" =>
          /\ m_cstatus = "body"
          /\ \A n : HeadOf(request, n) => lines = LinesOf(request, n) /\ Read(m_sBuffer, EndOf(request, n + 1), r_pos)
    /\ r_result = "full" =>
          \A n : HeadOf(request, n) => \E i \in 1 .. n + 1 : request[i] + 2 > MaxPacket
    /\ r_result = "null" =>
          /\ \A n : HeadOf(request, n) => Len(lines) <= n
          /\ r_pos = Len(All(lines)) + 2 * Len(lines)

\* The inductive invariant of RequestParser.
RequestInv == RequestTypes /\ RequestLines /\ RequestEnd

\* A line in the buffer is the next one of the request, and it is all there when
\* the buffer is long enough.
LEMMA BufferedLine ==
  ASSUME NEW r \in Seq(Nat), NEW k \in Nat, k < Len(r), NEW s, NEW m \in Nat,
         Piece(Char, Whole(r), s, EndOf(r, k), m)
  PROVE  /\ s \in Seq(Char) /\ Len(s) \in Nat /\ r[k + 1] \in Nat
         /\ \A i \in 1 .. Len(s) : i <= r[k + 1] => s[i] # <<"cr">>
         /\ Len(s) >= r[k + 1] + 2 => s[r[k + 1] + 1] = <<"cr">> /\ s[r[k + 1] + 2] = <<"lf">>
  <1> DEFINE x == SentLine(r, k + 1)
             q == r[k + 1]
             n == EndOf(r, k)
             text == Whole(r)
  <1>1. n \in Nat /\ Piece(Char, text, x, n, EndOf(r, k + 1))
    BY LineInText
  <1>2. k + 1 \in 1 .. Len(r)
    OBVIOUS
  <1>3. /\ q \in Nat /\ Len(x) = q + 2 /\ x \in Seq(Char)
        /\ \A j \in 1 .. q : x[j] # <<"cr">>
        /\ x[q + 1] = <<"cr">> /\ x[q + 2] = <<"lf">>
    BY <1>2, LineChars
  <1> HIDE DEF x, q, n, text
  <1>4. s \in Seq(Char) /\ Len(s) \in Nat /\ \A i \in 1 .. Len(s) : s[i] = text[n + i]
    BY DEF Piece, n, text
  <1>5. \A i \in 1 .. q + 2 : x[i] = text[n + i]
    BY <1>1, <1>3 DEF Piece
  <1>6. \A i \in 1 .. Len(s) : i <= q => s[i] # <<"cr">>
    <2> TAKE i \in 1 .. Len(s)
    <2> HAVE i <= q
    <2>1. i \in 1 .. q + 2 /\ i \in 1 .. q
      BY <1>3, <1>4
    <2> QED
      BY <1>3, <1>4, <1>5, <2>1
  <1>7. Len(s) >= q + 2 => s[q + 1] = <<"cr">> /\ s[q + 2] = <<"lf">>
    <2> HAVE Len(s) >= q + 2
    <2>1. /\ q + 1 \in 1 .. q + 2 /\ q + 2 \in 1 .. q + 2
          /\ q + 1 \in 1 .. Len(s) /\ q + 2 \in 1 .. Len(s)
      BY <1>3, <1>4
    <2> DEFINE u == q + 1
               v == q + 2
    <2>2. u \in 1 .. v /\ v \in 1 .. v /\ u \in 1 .. Len(s) /\ v \in 1 .. Len(s)
          /\ x[u] = <<"cr">> /\ x[v] = <<"lf">> /\ \A i \in 1 .. v : x[i] = text[n + i]
      BY <1>3, <1>5, <2>1
    <2> HIDE DEF u, v
    <2>3. s[u] = <<"cr">> /\ s[v] = <<"lf">>
      BY <1>4, <2>2
    <2> QED
      BY <2>3 DEF u, v
  <1> QED
    BY <1>3, <1>4, <1>6, <1>7 DEF q

\* The first CR LF of the buffer is where the parser finds it.
LEMMA RequestLineEnd ==
  ASSUME NEW n \in 1 .. Len(m_sBuffer) - 1, m_sBuffer[n] = <<"cr">>, m_sBuffer[n + 1] = <<"lf">>,
         \A i \in 1 .. n - 1 : m_sBuffer[i] # <<"cr">>, Len(m_sBuffer) \in Nat
  PROVE  Request!LineEnd = n /\ Request!HasLine
  <1> DEFINE s == m_sBuffer
             Is(i) == /\ s[i] = <<"cr">> /\ s[i + 1] = <<"lf">>
                      /\ \A j \in 1 .. i - 1 : ~(s[j] = <<"cr">> /\ s[j + 1] = <<"lf">>)
  <1>1. Is(n)
    OBVIOUS
  <1>2. ASSUME NEW i \in 1 .. Len(s) - 1, Is(i) PROVE i = n
    <2>1. CASE i < n
      <3>1. i \in 1 .. n - 1
        BY <2>1
      <3> QED
        BY <1>2, <3>1
    <2>2. CASE n < i
      <3>1. n \in 1 .. i - 1
        BY <2>2
      <3> QED
        BY <1>2, <3>1
    <2> QED
      BY <2>1, <2>2
  <1>3. Request!LineEnd = CHOOSE i \in 1 .. Len(s) - 1 : Is(i)
    BY DEF Request!LineEnd, Request!CR, Request!LF
  <1>4. Request!HasLine
    BY DEF Request!HasLine, Request!CR, Request!LF
  <1> HIDE DEF Is
  <1>5. (CHOOSE i \in 1 .. Len(s) - 1 : Is(i)) = n
    BY <1>1, <1>2
  <1> QED
    BY <1>3, <1>4, <1>5

\* Whether and where the buffer has a line.
LEMMA RequestBuffer ==
  ASSUME request \in Seq(Nat), NEW k \in Nat, k < Len(request), r_pos \in Nat,
         Read(m_sBuffer, EndOf(request, k), r_pos)
  PROVE  /\ Request!HasLine <=> Len(m_sBuffer) >= request[k + 1] + 2
         /\ Request!HasLine => /\ Request!Line = LineOf(request, k + 1)
                               /\ Read(Request!Shifted, EndOf(request, k + 1), r_pos)
         /\ m_sBuffer \in Seq(Char) /\ Len(m_sBuffer) \in Nat /\ request[k + 1] \in Nat
  <1> DEFINE s == m_sBuffer
             q == request[k + 1]
             e == EndOf(request, k)
             e1 == EndOf(request, k + 1)
  <1>1. /\ s \in Seq(Char) /\ Len(s) \in Nat /\ q \in Nat
        /\ \A i \in 1 .. Len(s) : i <= q => s[i] # <<"cr">>
        /\ Len(s) >= q + 2 => s[q + 1] = <<"cr">> /\ s[q + 2] = <<"lf">>
    BY BufferedLine DEF Read
  <1>2. /\ e \in Nat /\ e1 \in Nat /\ e1 = e + q + 2
        /\ Piece(Char, Whole(request), LineOf(request, k + 1), e, e + q)
    BY LineInText
  <1> HIDE DEF q, e, e1
  <1>3. Request!HasLine => Len(s) >= q + 2
    <2> HAVE Request!HasLine
    <2>1. PICK i \in 1 .. Len(s) - 1 : s[i] = <<"cr">>
      BY DEF Request!HasLine, Request!CR, Request!LF
    <2>2. i \in 1 .. Len(s) /\ ~(i <= q)
      BY <1>1, <2>1
    <2> QED
      BY <1>1, <2>1, <2>2
  <1>4. ASSUME Len(s) >= q + 2
        PROVE  /\ Request!HasLine /\ Request!Line = LineOf(request, k + 1)
               /\ Read(Request!Shifted, e1, r_pos)
    <2> DEFINE n == q + 1
    <2>1. /\ n \in 1 .. Len(s) - 1 /\ n + 1 = q + 2 /\ n - 1 = q /\ n + 2 = q + 2 + 1
          /\ \A i \in 1 .. n - 1 : i \in 1 .. Len(s) /\ i <= q
      BY <1>1, <1>4
    <2>2. s[n] = <<"cr">> /\ s[n + 1] = <<"lf">>
      BY <1>1, <1>4, <2>1
    <2> HIDE DEF n
    <2>3. \A i \in 1 .. n - 1 : s[i] # <<"cr">>
      BY <1>1, <2>1
    <2>4. Request!LineEnd = n /\ Request!HasLine
      BY <1>1, <2>1, <2>2, <2>3, RequestLineEnd
    <2>5. Request!Line = Cut(s, 1, q) /\ Request!Shifted = Cut(s, q + 2 + 1, Len(s))
      BY <2>1, <2>4 DEF Request!Line, Request!Shifted, Cut
    <2>6. q <= Len(s) /\ q + 2 \in Nat /\ e + q \in Nat
      BY <1>1, <1>2, <1>4
    <2>7. Read(Cut(s, 1, q), e, e + q)
      BY <1>1, <1>2, <2>6, PieceHalves DEF Read, e
    <2>8. Cut(s, 1, q) = LineOf(request, k + 1)
      BY <1>2, <2>6, <2>7, PieceSame DEF Read
    <2> DEFINE t == q + 2
    <2>9. t \in Nat /\ t <= Len(s) /\ e + t = e1
      <3>1. t \in Nat /\ t <= Len(s)
        BY <1>1, <1>4
      <3>2. e \in Nat /\ e1 = e + q + 2 /\ q \in Nat
        BY <1>1, <1>2
      <3>3. e + t = e1
        BY <3>2
      <3> QED
        BY <3>1, <3>3
    <2> HIDE DEF t
    <2>10. Read(Cut(s, t + 1, Len(s)), e + t, r_pos)
      BY <1>1, <1>2, <2>9, PieceHalves DEF Read, e
    <2> QED
      BY <2>4, <2>5, <2>8, <2>9, <2>10 DEF t
  <1> QED
    BY <1>1, <1>3, <1>4 DEF q, e1

\* A request has a head, and HeadLines is its length.
LEMMA HasHead ==
  ASSUME request \in Requests
  PROVE  /\ request \in Seq(Nat) /\ Len(request) \in Nat
         /\ HeadOf(request, Request!HeadLines) /\ Request!HeadLines \in Nat
  <1>1. /\ request \in Seq(Nat)
        /\ \E n \in 1 .. Len(request) - 1 : request[n + 1] = 0 /\ \A i \in 1 .. n : request[i] # 0
    BY RequestsAssumption
  <1> DEFINE n == Request!HeadLines
  <1>2. n \in 1 .. Len(request) - 1 /\ request[n + 1] = 0 /\ \A i \in 1 .. n : request[i] # 0
    BY <1>1, Zenon DEF Request!HeadLines
  <1>3. Len(request) \in Nat
    BY <1>1
  <1> HIDE DEF n
  <1>4. n \in Nat /\ 1 <= n /\ n < Len(request)
    BY <1>2, <1>3
  <1> QED
    BY <1>1, <1>2, <1>3, <1>4 DEF n, HeadOf

\* While the head is parsed there is a next line.
LEMMA NextLine ==
  ASSUME RequestInv, m_cstatus # "body"
  PROVE  /\ request \in Seq(Nat) /\ Len(lines) \in Nat /\ Len(lines) < Len(request) /\ r_pos \in Nat
         /\ Read(m_sBuffer, EndOf(request, Len(lines)), r_pos)
         /\ m_sBuffer \in Seq(Char) /\ Len(m_sBuffer) \in Nat /\ request[Len(lines) + 1] \in Nat
         /\ Request!HasLine <=> Len(m_sBuffer) >= request[Len(lines) + 1] + 2
         /\ Request!HasLine => /\ Request!Line = LineOf(request, Len(lines) + 1)
                               /\ Read(Request!Shifted, EndOf(request, Len(lines) + 1), r_pos)
  <1>1. /\ request \in Seq(Nat) /\ Len(lines) \in Nat /\ r_pos \in Nat /\ request \in Requests
        /\ Read(m_sBuffer, EndOf(request, Len(lines)), r_pos)
        /\ \A n : HeadOf(request, n) => Len(lines) <= n
    BY DEF RequestInv, RequestTypes, RequestLines
  <1>2. Len(lines) < Len(request)
    <2>1. HeadOf(request, Request!HeadLines) /\ Len(request) \in Nat /\ Request!HeadLines \in Nat
      BY <1>1, HasHead
    <2> DEFINE n == Request!HeadLines
    <2>2. Len(lines) <= n /\ n < Len(request) /\ n \in Nat
      BY <1>1, <2>1 DEF HeadOf
    <2> HIDE DEF n
    <2> QED
      BY <1>1, <2>1, <2>2
  <1> DEFINE k == Len(lines)
  <1>3. k \in Nat /\ k < Len(request) /\ Read(m_sBuffer, EndOf(request, k), r_pos)
    BY <1>1, <1>2
  <1> HIDE DEF k
  <1>4. /\ Request!HasLine <=> Len(m_sBuffer) >= request[k + 1] + 2
        /\ Request!HasLine => /\ Request!Line = LineOf(request, k + 1)
                              /\ Read(Request!Shifted, EndOf(request, k + 1), r_pos)
        /\ m_sBuffer \in Seq(Char) /\ Len(m_sBuffer) \in Nat /\ request[k + 1] \in Nat
    BY <1>1, <1>3, RequestBuffer
  <1> QED
    BY <1>1, <1>2, <1>4 DEF k

\* Nothing of the parser changes, or it ends without an answer about the head.
LEMMA RequestSame ==
  ASSUME RequestInv, UNCHANGED <<request, r_pos, m_sBuffer, m_cstatus, lines, r_pc, r_result>>,
         r_sent' \in Nat, r_pos <= r_sent', r_sent' <= Len(Whole(request))
  PROVE  RequestInv'
  BY DEF RequestInv, RequestTypes, RequestLines, RequestEnd, Read, Request!HasLine

\* The parser ends before the body.
LEMMA RequestQuits ==
  ASSUME RequestInv, UNCHANGED <<request, r_sent, r_pos, m_sBuffer, m_cstatus, lines>>,
         r_pc' = "done", m_cstatus # "body",
         \/ r_result' \in {"stopped", "timeout", "disconnect"}
         \/ r_result' = "full" /\ \A n : HeadOf(request, n) => \E i \in 1 .. n + 1 : request[i] + 2 > MaxPacket
         \/ r_result' = "null" /\ r_pos = Len(All(lines)) + 2 * Len(lines)
  PROVE  RequestInv'
  <1>1. RequestTypes' /\ RequestLines'
    BY DEF RequestInv, RequestTypes, RequestLines, Read
  <1>2. \A n : HeadOf(request, n) => Len(lines) <= n
    BY DEF RequestInv, RequestLines
  <1>3. RequestEnd'
    BY <1>2 DEF RequestEnd, Read
  <1> QED
    BY <1>1, <1>3 DEF RequestInv

\* read() gives up, or the client is gone.
LEMMA GiveUpStep ==
  ASSUME RequestInv, Request!GiveUp \/ Request!Disconnected
  PROVE  RequestInv'
  <1>1. /\ r_pc = "read" /\ r_pc' = "done"
        /\ UNCHANGED <<request, r_sent, r_pos, m_sBuffer, m_cstatus, lines>>
        /\ \/ r_result' \in {"stopped", "timeout", "disconnect"}
           \/ r_result' = "full" /\ MaxPacket - Len(m_sBuffer) = 0
    BY DEF Request!GiveUp, Request!Disconnected, Request!Done, Request!Room, Request!peervars
  <1>2. m_cstatus # "body" /\ ~Request!HasLine
    BY <1>1 DEF RequestInv, RequestEnd, RequestLines
  <1>3. CASE r_result' = "full" /\ MaxPacket - Len(m_sBuffer) = 0
    <2> DEFINE k == Len(lines)
               q == request[k + 1]
    <2>1. /\ request \in Seq(Nat) /\ k \in Nat /\ k < Len(request)
          /\ Len(m_sBuffer) \in Nat /\ q \in Nat /\ ~(Len(m_sBuffer) >= q + 2)
          /\ \A n : HeadOf(request, n) => k <= n
      BY <1>2, NextLine DEF RequestInv, RequestLines
    <2>2. MaxPacket \in Nat
      BY ReadersAssumption
    <2> HIDE DEF q
    <2>3. q + 2 > MaxPacket
      BY <1>3, <2>1, <2>2
    <2> HIDE DEF k
    <2>4. ASSUME NEW n, HeadOf(request, n) PROVE \E i \in 1 .. n + 1 : request[i] + 2 > MaxPacket
      <3>1. n \in Nat /\ k <= n /\ k \in Nat
        BY <2>1, <2>4 DEF HeadOf
      <3>2. \A a, b \in Nat : a <= b => a + 1 \in 1 .. b + 1
        OBVIOUS
      <3>3. k + 1 \in 1 .. n + 1
        BY <3>1, <3>2, Zenon
      <3> QED
        BY <2>3, <3>3 DEF q
    <2> QED
      BY <1>1, <1>2, <1>3, <2>4, RequestQuits
  <1>4. CASE r_result' \in {"stopped", "timeout", "disconnect"}
    BY <1>1, <1>2, <1>4, RequestQuits
  <1> QED
    BY <1>1, <1>3, <1>4

\* recv() appends to the buffer, if it fits.
LEMMA RecvStep ==
  ASSUME RequestInv, Request!Recv
  PROVE  RequestInv'
  <1> DEFINE n == Request!Taken
             d == SubSeq(Whole(request), r_pos + 1, r_pos + n)
  <1>1. /\ r_pc = "read" /\ r_pos' = r_pos + n /\ m_sBuffer' = Cat(m_sBuffer, d) /\ r_pc' = "parse"
        /\ UNCHANGED <<request, r_sent, m_cstatus, lines, r_result>>
        /\ Request!Room > 0 /\ r_sent > r_pos
    BY DEF Request!Recv, Request!peervars, Cat, Whole
  <1>2. m_cstatus # "body" /\ r_result = "none"
    BY <1>1 DEF RequestInv, RequestEnd
  <1>3. /\ request \in Seq(Nat) /\ Len(lines) \in Nat /\ r_pos \in Nat /\ Len(m_sBuffer) \in Nat
        /\ Read(m_sBuffer, EndOf(request, Len(lines)), r_pos) /\ Len(lines) < Len(request)
    BY <1>2, NextLine
  <1>4. r_sent \in Nat /\ r_sent <= Len(Whole(request))
    BY DEF RequestInv, RequestTypes
  <1>5. n \in Nat /\ r_pos + n \in Nat /\ r_pos + n <= r_sent
    <2>1. Request!Room \in Nat
      <3>1. MaxPacket \in Nat
        BY ReadersAssumption
      <3> QED
        BY <1>1, <1>3, <3>1 DEF Request!Room
    <2> QED
      BY <1>1, <1>3, <1>4, <2>1 DEF Request!Taken
  <1> HIDE DEF n
  <1> DEFINE e == EndOf(request, Len(lines))
             t == r_pos + n
  <1>6. Whole(request) \in Seq(Char) /\ Len(Whole(request)) \in Nat /\ e \in Nat
    <2> DEFINE Lists == Seq(Char)
    <2>1. SentLines(request) \in Seq(Seq(Char))
      <3>1. \A i \in 1 .. Len(request) : SentLine(request, i) \in Lists
        BY <1>3, LineChars
      <3> HIDE DEF Lists
      <3>2. SentLines(request) \in Seq(Lists)
        BY <1>3, <3>1 DEF SentLines
      <3> QED
        BY <3>2 DEF Lists
    <2>2. Whole(request) \in Seq(Char)
      BY <1>3, <2>1, WholeText, AllType
    <2>3. e \in Nat
      BY <1>3, LineInText
    <2> QED
      BY <2>2, <2>3
  <1>7. t \in Nat /\ r_pos <= t /\ t <= Len(Whole(request))
    BY <1>3, <1>4, <1>5, <1>6
  <1> HIDE DEF e, t
  <1>8. Read(SubSeq(Whole(request), r_pos + 1, t), r_pos, t)
    BY <1>3, <1>6, <1>7, PieceOf DEF Read
  <1>9. Read(d, r_pos, t)
    BY <1>8 DEF t
  <1> HIDE DEF d
  <1>10. Read(Cat(m_sBuffer, d), e, t)
    BY <1>3, <1>6, <1>7, <1>9, PieceCat DEF Read, e
  <1>11. RequestTypes'
    BY <1>1, <1>3, <1>5, <1>7 DEF RequestInv, RequestTypes, t
  <1>12. RequestLines'
    <2>1. Read(m_sBuffer, EndOf(request, Len(lines)), r_pos)'
      BY <1>1, <1>10 DEF Read, e, t
    <2> QED
      BY <1>1, <1>2, <2>1 DEF RequestInv, RequestLines
  <1>13. RequestEnd'
    BY <1>1, <1>2 DEF RequestEnd
  <1> QED
    BY <1>11, <1>12, <1>13 DEF RequestInv

\* A line that is not the last one of the head is taken.
LEMMA TakeLineStep ==
  ASSUME RequestInv, Request!RequestLine \/ Request!Field
  PROVE  RequestInv'
  <1> DEFINE k == Len(lines)
             x == LineOf(request, k + 1)
  <1>1. /\ r_pc = "parse" /\ m_cstatus # "body" /\ Request!HasLine
        /\ m_cstatus = "header" => Request!Line # <<>>
        /\ lines' = Append(lines, Request!Line) /\ m_sBuffer' = Request!Shifted /\ m_cstatus' = "header"
        /\ UNCHANGED <<request, r_sent, r_pos, r_pc, r_result>>
    BY DEF Request!RequestLine, Request!Field, Request!peervars
  <1>2. /\ request \in Seq(Nat) /\ k \in Nat /\ k < Len(request) /\ r_pos \in Nat
        /\ Request!Line = x
        /\ Read(Request!Shifted, EndOf(request, k + 1), r_pos)
    BY <1>1, NextLine
  <1>3. /\ lines = LinesOf(request, k) /\ lines \in Seq(Seq(Char))
        /\ EndOf(request, k) = Len(All(lines)) + 2 * k
        /\ \A n : HeadOf(request, n) => k <= n
        /\ m_cstatus = "header" <=> k # 0
        /\ r_result = "none"
    BY <1>1 DEF RequestInv, RequestLines, RequestEnd
  <1>4. x \in Seq(Char) /\ Len(x) = request[k + 1] /\ request[k + 1] \in Nat
        /\ EndOf(request, k + 1) = EndOf(request, k) + request[k + 1] + 2
    <2>1. k + 1 \in 1 .. Len(request)
      BY <1>2
    <2>2. EndOf(request, k + 1) = EndOf(request, k) + request[k + 1] + 2
      BY <1>2, LineInText
    <2> HIDE DEF k
    <2> QED
      BY <1>2, <2>1, <2>2, LineChars
  <1> HIDE DEF x
  <1> DEFINE new == Append(lines, x)
             Lists == Seq(Char)
  <1>5. new \in Seq(Seq(Char)) /\ Len(new) = k + 1 /\ new[k + 1] = x /\ \A i \in 1 .. k : new[i] = lines[i]
    <2>1. lines \in Seq(Lists) /\ x \in Lists
      BY <1>3, <1>4
    <2> HIDE DEF Lists
    <2>2. new \in Seq(Lists) /\ Len(new) = k + 1 /\ new[k + 1] = x /\ \A i \in 1 .. k : lines[i] = new[i]
      BY <2>1, AppendProperties
    <2> QED
      BY <2>2 DEF Lists
  <1>6. All(new) = Cat(All(lines), x)
    <2>1. FlattenSeq(Append(lines, x)) = FlattenSeq(lines) \o x
      BY <1>3, <1>4, FlattenAppend
    <2> QED
      BY <2>1 DEF All, Cat
  <1>7. Len(All(new)) = Len(All(lines)) + Len(x) /\ Len(All(lines)) \in Nat
    <2> DEFINE a == All(lines)
    <2>1. a \in Seq(Char) /\ x \in Seq(Char)
      BY <1>3, <1>4, AllType
    <2> HIDE DEF a
    <2>2. Len(Cat(a, x)) = Len(a) + Len(x)
      BY <2>1, CatType
    <2>3. Len(a) \in Nat
      BY <2>1
    <2> QED
      BY <1>6, <2>2, <2>3 DEF a
  <1>8. EndOf(request, k + 1) = Len(All(new)) + 2 * Len(new)
    <2> DEFINE a == Len(All(lines))
               q == request[k + 1]
    <2>1. a \in Nat /\ q \in Nat /\ k \in Nat /\ Len(All(new)) = a + q /\ Len(new) = k + 1
          /\ EndOf(request, k + 1) = a + 2 * k + q + 2
      BY <1>2, <1>3, <1>4, <1>5, <1>7
    <2> HIDE DEF a, q, k, new
    <2>2. a + 2 * k + q + 2 = a + q + 2 * (k + 1)
      BY <2>1
    <2> QED
      BY <2>1, <2>2
  <1>9. new = LinesOf(request, Len(new))
    <2> DEFINE z == LinesOf(request, k + 1)
    <2>1. ASSUME NEW i \in 1 .. k + 1 PROVE new[i] = LineOf(request, i)
      <3>1. CASE i = k + 1
        BY <1>5, <3>1 DEF x
      <3>2. CASE i # k + 1
        <4>1. i \in 1 .. k
          BY <1>2, <3>2
        <4> HIDE DEF new, k
        <4>2. lines[i] = LineOf(request, i)
          BY <1>3, <4>1 DEF LinesOf
        <4> QED
          BY <1>5, <4>1, <4>2
      <3> QED
        BY <3>1, <3>2
    <2>2. new = [i \in 1 .. k + 1 |-> new[i]]
      <3>1. new \in Seq(Lists) /\ Len(new) = k + 1
        BY <1>5
      <3> HIDE DEF new, Lists
      <3> QED
        BY <3>1
    <2> HIDE DEF new, k
    <2>3. [i \in 1 .. k + 1 |-> new[i]] = LinesOf(request, k + 1)
      BY <2>1 DEF LinesOf
    <2> QED
      BY <1>5, <2>2, <2>3
  <1>10. ASSUME NEW n, HeadOf(request, n) PROVE k + 1 <= n
    <2>1. n \in Nat /\ 1 <= n /\ k <= n /\ request[n + 1] = 0
      BY <1>3, <1>10 DEF HeadOf
    <2>2. CASE k = 0
      BY <2>1, <2>2
    <2>3. CASE k # 0
      <3>1. Request!Line # <<>>
        BY <1>1, <1>3, <2>3
      <3>2. Len(x) # 0
        BY <1>2, <1>4, <3>1
      <3>3. k # n
        BY <1>4, <2>1, <3>2
      <3> QED
        BY <1>2, <2>1, <3>3
    <2> QED
      BY <2>2, <2>3
  <1>11. lines' = new
    BY <1>1, <1>2
  <1>12. RequestTypes'
    BY <1>1 DEF RequestInv, RequestTypes
  <1>13. RequestLines'
    <2> DEFINE j == k + 1
    <2>1. /\ Len(lines') = j /\ j \in Nat /\ j # 0 /\ lines' = LinesOf(request, j) /\ lines' \in Seq(Seq(Char))
          /\ Read(m_sBuffer', EndOf(request, j), r_pos)
          /\ EndOf(request, j) = Len(All(lines')) + 2 * j
          /\ \A n : HeadOf(request, n) => j <= n
      BY <1>1, <1>2, <1>5, <1>8, <1>9, <1>10, <1>11
    <2> HIDE DEF j
    <2> QED
      BY <1>1, <2>1 DEF RequestLines, Read
  <1>14. RequestEnd'
    BY <1>1, <1>3 DEF RequestEnd
  <1> QED
    BY <1>12, <1>13, <1>14 DEF RequestInv

\* The blank line ends the head.
LEMMA BlankLineStep ==
  ASSUME RequestInv, Request!BlankLine
  PROVE  RequestInv'
  <1> DEFINE k == Len(lines)
             x == LineOf(request, k + 1)
  <1>1. /\ r_pc = "parse" /\ m_cstatus = "header" /\ Request!HasLine /\ Request!Line = <<>>
        /\ m_sBuffer' = Request!Shifted /\ m_cstatus' = "body" /\ r_pc' = "done" /\ r_result' = "ok"
        /\ UNCHANGED <<request, r_sent, r_pos, lines>>
    BY DEF Request!BlankLine, Request!Done, Request!peervars
  <1>2. /\ request \in Seq(Nat) /\ k \in Nat /\ k < Len(request)
        /\ Request!Line = x
        /\ Read(Request!Shifted, EndOf(request, k + 1), r_pos)
    BY <1>1, NextLine
  <1>3. lines = LinesOf(request, k) /\ \A n : HeadOf(request, n) => k <= n
    BY <1>1 DEF RequestInv, RequestLines
  <1>4. request[k + 1] = 0
    <2>1. k + 1 \in 1 .. Len(request)
      BY <1>2
    <2>2. Len(x) = request[k + 1]
      BY <1>2, <2>1, LineChars
    <2>3. Len(<<>>) = 0
      OBVIOUS
    <2> QED
      BY <1>1, <1>2, <2>2, <2>3
  <1> HIDE DEF k, x
  <1>5. ASSUME NEW n, HeadOf(request, n) PROVE k = n
    <2>1. n \in Nat /\ k <= n /\ \A i \in 1 .. n : request[i] # 0
      BY <1>3, <1>5 DEF HeadOf
    <2>2. ~(k < n)
      <3>1. k < n => k + 1 \in 1 .. n
        BY <1>2, <2>1
      <3> QED
        BY <1>4, <2>1, <3>1
    <2> QED
      BY <1>2, <2>1, <2>2
  <1>6. RequestTypes'
    BY <1>1 DEF RequestInv, RequestTypes
  <1>7. RequestLines'
    BY <1>1 DEF RequestLines
  <1>8. RequestEnd'
    BY <1>1, <1>2, <1>3, <1>5 DEF RequestEnd, Read
  <1> QED
    BY <1>6, <1>7, <1>8 DEF RequestInv

\* No line yet, and the empty buffer behind the last byte of one.
LEMMA AgainStep ==
  ASSUME RequestInv, Request!Again \/ Request!NullBuffer
  PROVE  RequestInv'
  <1>1. CASE Request!Again
    <2>1. /\ r_pc = "parse" /\ m_cstatus # "body" /\ ~Request!HasLine /\ r_pc' = "read"
          /\ UNCHANGED <<request, r_sent, r_pos, m_sBuffer, m_cstatus, lines, r_result>>
      BY <1>1 DEF Request!Again, Request!peervars
    <2>2. r_result = "none"
      BY <2>1 DEF RequestInv, RequestEnd
    <2>3. RequestTypes'
      BY <2>1 DEF RequestInv, RequestTypes
    <2>4. RequestLines'
      BY <2>1 DEF RequestInv, RequestLines, Read, Request!HasLine
    <2>5. RequestEnd'
      BY <2>1, <2>2 DEF RequestEnd
    <2> QED
      BY <2>3, <2>4, <2>5 DEF RequestInv
  <1>2. CASE Request!NullBuffer
    <2>1. /\ m_cstatus # "body" /\ m_sBuffer = <<>> /\ r_pc' = "done" /\ r_result' = "null"
          /\ UNCHANGED <<request, r_sent, r_pos, m_sBuffer, m_cstatus, lines>>
      BY <1>2 DEF Request!NullBuffer, Request!Done, Request!peervars
    <2>2. /\ Read(<<>>, EndOf(request, Len(lines)), r_pos) /\ r_pos \in Nat
          /\ request \in Seq(Nat) /\ Len(lines) \in Nat /\ Len(lines) < Len(request)
          /\ EndOf(request, Len(lines)) = Len(All(lines)) + 2 * Len(lines)
      BY <2>1, NextLine DEF RequestInv, RequestLines
    <2> DEFINE e == EndOf(request, Len(lines))
    <2>3. e \in Nat
      BY <2>2, LineInText
    <2>4. Read(<<>>, e, r_pos)
      BY <2>2
    <2> HIDE DEF e
    <2>5. r_pos = e + Len(<<>>)
      BY <2>2, <2>3, <2>4, PieceLength DEF Read
    <2>6. r_pos = e
      BY <2>2, <2>3, <2>5
    <2> QED
      BY <2>1, <2>2, <2>6, RequestQuits DEF e
  <1> QED
    BY <1>1, <1>2

\* Of two pieces of a text from the same place the shorter one begins the other.
LEMMA PiecePrefix ==
  ASSUME NEW S, NEW text, NEW n \in Nat, NEW m \in Nat, NEW k \in Nat, m <= k,
         NEW s, Piece(S, text, s, n, m), NEW t, Piece(S, text, t, n, k)
  PROVE  IsPrefix(s, t)
  <1>1. /\ s \in Seq(S) /\ t \in Seq(S) /\ Len(s) \in Nat /\ Len(t) \in Nat
        /\ Len(s) = m - n /\ Len(t) = k - n
    BY PieceLength
  <1>2. Len(s) <= Len(t)
    BY <1>1
  <1>3. \A i \in 1 .. Len(s) : s[i] = t[i]
    BY <1>1, <1>2 DEF Piece
  <1> QED
    BY <1>1, <1>2, <1>3, SamePrefix

\* The text behind the k-th line.
LEMMA RestText ==
  ASSUME NEW r \in Seq(Nat), NEW k \in Nat, k < Len(r)
  PROVE  Piece(Char, Whole(r), All([i \in 1 .. Len(r) - (k + 1) |-> SentLine(r, i + (k + 1))]),
               EndOf(r, k + 1), Len(Whole(r)))
  <1> DEFINE Lists == Seq(Char)
             w == SentLines(r)
             j == k + 1
             a == Cut(w, 1, j)
             b == Cut(w, j + 1, Len(w))
             text == Whole(r)
  <1>1. j \in Nat /\ j <= Len(r) /\ Len(r) \in Nat
    OBVIOUS
  <1>2. w \in Seq(Lists) /\ Len(w) = Len(r) /\ \A i \in 1 .. Len(r) : w[i] = SentLine(r, i)
    <2>1. \A i \in 1 .. Len(r) : SentLine(r, i) \in Lists
      BY LineChars
    <2> QED
      BY <1>1, <2>1 DEF SentLines
  <1>3. text = All(w)
    BY WholeText
  <1>4. EndOf(r, j) = Len(All(a)) /\ EndOf(r, j) \in Nat
    <2>1. EndOf(r, j) \in Nat
      BY LineInText
    <2> QED
      BY <2>1 DEF EndOf
  <1> HIDE DEF w, j, text
  <1>5. a \in Seq(Lists) /\ b \in Seq(Lists) /\ Len(b) = Len(r) - j /\ Cat(a, b) = w
    <2> HIDE DEF Lists
    <2>1. j <= Len(w)
      BY <1>1, <1>2
    <2>2. /\ Cut(w, 1, j) \in Seq(Lists) /\ Len(Cut(w, 1, j)) = j
          /\ Cut(w, j + 1, Len(w)) \in Seq(Lists) /\ Len(Cut(w, j + 1, Len(w))) = Len(w) - j
          /\ Cat(Cut(w, 1, j), Cut(w, j + 1, Len(w))) = w
      BY <1>1, <1>2, <2>1, CutHalves
    <2> QED
      BY <1>2, <2>2
  <1>6. Piece(Lists, w, b, j, Len(r))
    <2> HIDE DEF Lists
    <2>1. Piece(Lists, w, SubSeq(w, j + 1, Len(w)), j, Len(r))
      BY <1>1, <1>2, PieceOf
    <2> QED
      BY <2>1 DEF Cut
  <1> HIDE DEF a, b
  <1>7. b = [i \in 1 .. Len(r) - j |-> SentLine(r, i + j)]
    <2>1. ASSUME NEW i \in 1 .. Len(r) - j PROVE b[i] = SentLine(r, i + j)
      <3>1. b[i] = w[j + i]
        BY <1>5, <1>6 DEF Piece
      <3>2. i + j = j + i /\ i + j \in 1 .. Len(r)
        BY <1>1
      <3> QED
        BY <1>2, <3>1, <3>2
    <2>2. b = [i \in 1 .. Len(r) - j |-> b[i]]
      <3> HIDE DEF Lists
      <3> QED
        BY <1>5
    <2> DEFINE n == Len(r) - j
    <2> HIDE DEF n
    <2>3. [i \in 1 .. n |-> b[i]] = [i \in 1 .. n |-> SentLine(r, i + j)]
      BY <2>1 DEF n
    <2> QED
      BY <2>2, <2>3 DEF n
  <1>8. All(a) \in Seq(Char) /\ All(b) \in Seq(Char) /\ text = Cat(All(a), All(b)) /\ text \in Seq(Char)
    <2>1. text = Cat(All(a), All(b))
      BY <1>3, <1>5, AllCat
    <2> QED
      BY <1>2, <1>3, <1>5, <2>1, AllType
  <1>9. Piece(Char, text, Cat(All(a), All(b)), 0, Len(text)) /\ Len(text) \in Nat
    <2>1. Piece(Char, text, text, 0, Len(text)) /\ Len(text) \in Nat
      BY <1>8 DEF Piece
    <2> QED
      BY <1>8, <2>1
  <1>10. Piece(Char, text, All(b), 0 + Len(All(a)), Len(text))
    BY <1>8, <1>9, PieceParts
  <1>11. 0 + Len(All(a)) = Len(All(a))
    BY <1>8
  <1>12. Piece(Char, text, All(b), EndOf(r, j), Len(text))
    BY <1>4, <1>10, <1>11
  <1> QED
    BY <1>7, <1>12 DEF text, j

\* A request is a text of characters.
LEMMA WholeLength ==
  ASSUME NEW r \in Seq(Nat) PROVE Whole(r) \in Seq(Char) /\ Len(Whole(r)) \in Nat
  <1> DEFINE Lists == Seq(Char)
  <1>1. \A i \in 1 .. Len(r) : SentLine(r, i) \in Lists
    BY LineChars
  <1> HIDE DEF Lists
  <1>2. SentLines(r) \in Seq(Lists)
    BY <1>1 DEF SentLines
  <1>3. SentLines(r) \in Seq(Seq(Char))
    BY <1>2 DEF Lists
  <1>4. Whole(r) \in Seq(Char)
    BY <1>3, WholeText, AllType
  <1> QED
    BY <1>4

\* The invariant of RequestParser holds at first.
LEMMA RequestInit ==
  ASSUME Init PROVE RequestInv
  <1>1. Request!Init
    BY DEF Init
  <1>2. /\ request \in Requests /\ r_sent = 0 /\ r_pos = 0 /\ m_sBuffer = <<>> /\ m_cstatus = "ready"
        /\ lines = <<>> /\ r_pc = "read" /\ r_result = "none"
    BY <1>1 DEF Request!Init
  <1>3. request \in Seq(Nat) /\ Len(request) \in Nat /\ 0 < Len(request)
    <2>1. /\ request \in Seq(Nat) /\ Len(request) \in Nat
          /\ HeadOf(request, Request!HeadLines) /\ Request!HeadLines \in Nat
      BY <1>2, HasHead
    <2> QED
      BY <2>1 DEF HeadOf
  <1>4. Len(Whole(request)) \in Nat
    BY <1>3, WholeLength
  <1>5. EndOf(request, 0) = 0
    <2>1. Cut(SentLines(request), 1, 0) = <<>>
      BY DEF Cut
    <2> QED
      BY <2>1, AllEmpty DEF EndOf
  <1>6. Len(lines) = 0
    BY <1>2
  <1>7. LinesOf(request, 0) = <<>>
    BY DEF LinesOf
  <1>8. RequestTypes
    BY <1>2, <1>3, <1>4 DEF RequestTypes
  <1>9. RequestLines
    <2>1. lines = LinesOf(request, Len(lines)) /\ lines \in Seq(Seq(Char))
      BY <1>2, <1>6, <1>7
    <2>2. Read(m_sBuffer, EndOf(request, Len(lines)), r_pos)
      BY <1>2, <1>5, <1>6, PieceEmpty DEF Read
    <2>3. EndOf(request, Len(lines)) = Len(All(lines)) + 2 * Len(lines)
      BY <1>2, <1>5, <1>6, AllEmpty
    <2>4. \A n : HeadOf(request, n) => Len(lines) <= n
      BY <1>6 DEF HeadOf
    <2>5. ~Request!HasLine
      BY <1>2 DEF Request!HasLine
    <2> QED
      BY <1>2, <1>6, <2>1, <2>2, <2>3, <2>4, <2>5 DEF RequestLines
  <1>10. RequestEnd
    BY <1>2 DEF RequestEnd
  <1> QED
    BY <1>8, <1>9, <1>10 DEF RequestInv

\* One step of the client, of stop() or of the parser.
LEMMA RequestStep ==
  ASSUME RequestInv, Request!Next
  PROVE  RequestInv'
  <1>1. r_sent \in Nat /\ r_pos \in Nat /\ r_pos <= r_sent /\ r_sent <= Len(Whole(request))
    BY DEF RequestInv, RequestTypes
  <1>2. ASSUME NEW n \in 1 .. Len(Request!Text(request)), Request!Send(n) PROVE RequestInv'
    <2>1. /\ r_sent' = r_sent + n /\ n \in 1 .. Len(Whole(request)) - r_sent
          /\ UNCHANGED <<request, r_pos, m_sBuffer, m_cstatus, lines, r_pc, r_result>>
      BY <1>2 DEF Request!Send, Whole
    <2>2. Len(Whole(request)) \in Nat
      BY WholeLength DEF RequestInv, RequestTypes
    <2>3. r_sent' \in Nat /\ r_pos <= r_sent' /\ r_sent' <= Len(Whole(request))
      <3> DEFINE t == Len(Whole(request))
      <3>1. t \in Nat /\ n \in 1 .. t - r_sent /\ r_sent' = r_sent + n /\ r_sent <= t
        BY <1>1, <2>1, <2>2
      <3> HIDE DEF t
      <3>2. r_sent' \in Nat /\ r_pos <= r_sent' /\ r_sent' <= t
        BY <1>1, <3>1
      <3> QED
        BY <3>2 DEF t
    <2> QED
      BY <2>1, <2>3, RequestSame
  <1>3. ASSUME Request!Close \/ Request!Stop \/ Request!Terminated PROVE RequestInv'
    <2>1. UNCHANGED <<request, r_sent, r_pos, m_sBuffer, m_cstatus, lines, r_pc, r_result>>
      BY <1>3 DEF Request!Close, Request!Stop, Request!Terminated, Request!vars
    <2> QED
      BY <1>1, <2>1, RequestSame
  <1>4. ASSUME Request!Reader PROVE RequestInv'
    BY <1>4, GiveUpStep, RecvStep, TakeLineStep, BlankLineStep, AgainStep DEF Request!Reader
  <1> QED
    BY <1>2, <1>3, <1>4 DEF Request!Next

\* Every step keeps the invariant of RequestParser.
LEMMA RequestNext ==
  ASSUME RequestInv, [Next]_vars
  PROVE  RequestInv'
  <1>1. CASE RequestMoves
    BY <1>1, RequestStep DEF RequestMoves
  <1>2. CASE UNCHANGED requests
    <2>1. UNCHANGED <<request, r_sent, r_pos, m_sBuffer, m_cstatus, lines, r_pc, r_result>>
      BY <1>2 DEF requests
    <2>2. r_sent \in Nat /\ r_pos <= r_sent /\ r_sent <= Len(Whole(request))
      BY DEF RequestInv, RequestTypes
    <2> QED
      BY <2>1, <2>2, RequestSame
  <1> QED
    BY <1>1, <1>2 DEF Next, ChunkedMoves, AnswerMoves, ListingMoves, vars

\* What the invariant says of the answer of parseRequest().
LEMMA RequestShows ==
  ASSUME RequestInv PROVE RequestAsSent
  <1> DEFINE n == Request!HeadLines
  <1>1. request \in Seq(Nat) /\ Len(request) \in Nat /\ HeadOf(request, n) /\ n \in Nat
        /\ r_pos \in Nat /\ r_pos <= r_sent /\ r_sent \in Nat /\ r_sent <= Len(Whole(request))
    BY HasHead DEF RequestInv, RequestTypes
  <1> HIDE DEF n
  <1>2. n < Len(request)
    BY <1>1 DEF HeadOf
  <1>3. Request!ParsedIsSent
    <2> DEFINE f == [i \in 1 .. Len(request) - n - 1 |-> Request!LineText(request, i + n + 1) \o <<Request!CR, Request!LF>>]
               g == [i \in 1 .. Len(request) - (n + 1) |-> SentLine(request, i + (n + 1))]
    <2> SUFFICES ASSUME r_result = "ok"
                 PROVE /\ lines = LinesOf(request, n)
                       /\ IsPrefix(m_sBuffer, All(f))
      BY DEF Request!ParsedIsSent, Request!IsPrefix, IsPrefix, Request!FlattenSeq, FlattenSeq, All,
             LinesOf, LineOf, n
    <2>1. lines = LinesOf(request, n) /\ Read(m_sBuffer, EndOf(request, n + 1), r_pos)
      BY <1>1 DEF RequestInv, RequestEnd
    <2>2. f = g
      <3>1. Len(request) - n - 1 = Len(request) - (n + 1)
        BY <1>1
      <3>2. \A i \in 1 .. Len(request) - (n + 1) : i + n + 1 = i + (n + 1)
        BY <1>1
      <3>3. \A i : SentLine(request, i) = Request!LineText(request, i) \o <<Request!CR, Request!LF>>
        BY DEF SentLine, LineOf, EndOfLine, Cat, Request!CR, Request!LF
      <3> QED
        BY <3>1, <3>2, <3>3
    <2> HIDE DEF f
    <2>3. Piece(Char, Whole(request), All(g), EndOf(request, n + 1), Len(Whole(request)))
      BY <1>1, <1>2, RestText
    <2>4. EndOf(request, n + 1) \in Nat /\ Len(Whole(request)) \in Nat
      BY <1>1, <1>2, LineInText, WholeLength
    <2>5. r_pos <= Len(Whole(request))
      BY <1>1, <2>4
    <2> HIDE DEF g
    <2>6. IsPrefix(m_sBuffer, All(g))
      BY <1>1, <2>1, <2>3, <2>4, <2>5, PiecePrefix DEF Read
    <2> QED
      BY <2>1, <2>2, <2>6
  <1>4. Request!RefusedIfLong
    BY <1>1 DEF RequestInv, RequestEnd, Request!RefusedIfLong, n
  <1>5. Request!NullOnlyAtLineEnd
    BY <1>1 DEF RequestInv, RequestEnd, Request!NullOnlyAtLineEnd, n, Request!FlattenSeq, FlattenSeq, All
  <1> QED
    BY <1>3, <1>4, <1>5 DEF RequestAsSent

\* RequestParser accepts exactly the lines the client sent, keeps what follows
\* the blank line, and refuses no request whose lines fit into a packet, however
\* the request is cut into reads.
THEOREM RequestHolds == Spec => []RequestAsSent
  <1>1. Init => RequestInv
    BY RequestInit
  <1>2. RequestInv /\ [Next]_vars => RequestInv'
    BY RequestNext
  <1>3. RequestInv => RequestAsSent
    BY RequestShows
  <1> QED
    BY <1>1, <1>2, <1>3, PTL DEF Spec

-----------------------------------------------------------------------------
(***************************************************************************)
(* HttpChunked: the data of chunks.  The invariant finds the chunk up to   *)
(* which the body was parsed and says that the blocks, the bytes kept for  *)
(* the next block and the data at hand are the data of the chunks so far.  *)
(***************************************************************************)
\* Where the k-th of a list of lists ends in their text.
EndIn(w, k) == Len(All(Cut(w, 1, k)))

\* Nothing ends where nothing has begun.
LEMMA EndInFirst == \A w : EndIn(w, 0) = 0
  <1> TAKE w
  <1>1. Cut(w, 1, 0) = <<>>
    BY DEF Cut
  <1> QED
    BY <1>1, AllEmpty DEF EndIn

\* The last list ends where the text does.
LEMMA EndInLast ==
  ASSUME NEW S, NEW w \in Seq(Seq(S))
  PROVE  EndIn(w, Len(w)) = Len(All(w))
  <1> DEFINE Lists == Seq(S)
  <1>1. w \in Seq(Lists)
    OBVIOUS
  <1> HIDE DEF Lists
  <1>2. SubSeq(w, 1, Len(w)) = w
    BY <1>1, SubSeqFull
  <1> QED
    BY <1>2 DEF EndIn, Cut

\* Where a list is in the text of a list of lists.
LEMMA ListInText ==
  ASSUME NEW S, NEW w \in Seq(Seq(S)), NEW k \in Nat, k < Len(w), NEW x, x = w[k + 1]
  PROVE  /\ EndIn(w, k) \in Nat /\ EndIn(w, k + 1) \in Nat /\ EndIn(w, k + 1) = EndIn(w, k) + Len(x)
         /\ EndIn(w, k + 1) <= Len(All(w)) /\ x \in Seq(S) /\ Len(x) \in Nat
         /\ Piece(S, All(w), x, EndIn(w, k), EndIn(w, k + 1))
  <1> DEFINE Lists == Seq(S)
             a == Cut(w, 1, k)
             a1 == Cut(w, 1, k + 1)
             text == All(w)
  <1>0. Len(w) \in Nat /\ k + 1 \in 1 .. Len(w) /\ k + 1 \in Nat /\ k + 1 <= Len(w) /\ k <= Len(w)
    OBVIOUS
  <1>1. w \in Seq(Lists) /\ x \in Lists /\ x \in Seq(S)
    BY <1>0
  <1> HIDE DEF text
  <1>4. a \in Seq(Lists) /\ a1 \in Seq(Lists) /\ a1 = Append(a, x)
    <2> HIDE DEF Lists
    <2>1. a \in Seq(Lists) /\ a1 \in Seq(Lists) /\ Len(a) = k /\ Len(a1) = k + 1
      BY <1>0, <1>1, CutHalves
    <2>2. Piece(Lists, w, SubSeq(w, 0 + 1, k), 0, k) /\ Piece(Lists, w, SubSeq(w, 0 + 1, k + 1), 0, k + 1)
      BY <1>0, <1>1, PieceOf
    <2>3. Piece(Lists, w, a, 0, k) /\ Piece(Lists, w, a1, 0, k + 1)
      BY <2>2 DEF Cut
    <2> HIDE DEF a, a1
    <2>4. (\A i \in 1 .. k : a[i] = w[i]) /\ (\A i \in 1 .. k + 1 : a1[i] = w[i])
      BY <2>1, <2>3 DEF Piece
    <2>5. a \in Seq(Lists) /\ x \in Lists
      BY <1>1, <2>1
    <2>6. /\ Append(a, x) \in Seq(Lists) /\ Len(Append(a, x)) = k + 1
          /\ Append(a, x)[k + 1] = x /\ \A i \in 1 .. k : a[i] = Append(a, x)[i]
      BY <2>1, <2>5, AppendProperties
    <2> DEFINE b == Append(a, x)
    <2>7. \A i \in 1 .. k + 1 : a1[i] = b[i]
      <3>1. \A i \in 1 .. k + 1 : i \in 1 .. k \/ i = k + 1
        OBVIOUS
      <3>2. a1[k + 1] = x
        BY <1>0, <2>4
      <3> QED
        BY <2>4, <2>6, <3>1, <3>2
    <2> HIDE DEF b
    <2>8. a1 = b
      BY <2>1, <2>6, <2>7, SeqEqual DEF b
    <2> QED
      BY <2>1, <2>8 DEF b
  <1> HIDE DEF a, a1
  <1>5. All(a) \in Seq(S) /\ All(a1) = Cat(All(a), x) /\ All(a1) \in Seq(S)
    <2>1. a \in Seq(Seq(S)) /\ a1 \in Seq(Seq(S))
      BY <1>4
    <2>2. FlattenSeq(Append(a, x)) = FlattenSeq(a) \o x
      BY <1>1, <2>1, FlattenAppend
    <2>3. All(a1) = Cat(All(a), x)
      BY <1>4, <2>2 DEF All, Cat
    <2> QED
      BY <2>1, <2>3, AllType
  <1>6. text \in Seq(S) /\ \E e \in Seq(S) : text = Cat(All(a1), e)
    BY <1>0, AllHalves, AllType DEF a1, text
  <1>7. PICK e \in Seq(S) : text = Cat(All(a1), e)
    BY <1>6
  <1> DEFINE n == Len(All(a))
             m == Len(All(a1))
             t == Len(text)
  <1>8. n \in Nat /\ m \in Nat /\ t \in Nat /\ Len(x) \in Nat /\ m = n + Len(x)
    <2>1. Len(All(a1)) = Len(All(a)) + Len(x)
      BY <1>1, <1>5, CatType
    <2> QED
      BY <1>1, <1>5, <1>6, <2>1
  <1>9. Piece(S, text, text, 0, t)
    BY <1>6 DEF Piece
  <1>11. Piece(S, text, Cat(All(a1), e), 0, t)
    BY <1>7, <1>9
  <1>12. Piece(S, text, All(a1), 0, m) /\ m <= t
    <2>1. Piece(S, text, All(a1), 0, 0 + Len(All(a1))) /\ Piece(S, text, e, 0 + Len(All(a1)), t)
      BY <1>5, <1>8, <1>11, PieceParts
    <2>2. 0 + Len(All(a1)) = m
      BY <1>8
    <2>3. Piece(S, text, All(a1), 0, m) /\ Piece(S, text, e, m, t)
      BY <2>1, <2>2
    <2> HIDE DEF m, t
    <2> QED
      BY <1>8, <2>3, PieceLength
  <1>13. Piece(S, text, x, n, m)
    <2>1. Piece(S, text, Cat(All(a), x), 0, m)
      BY <1>5, <1>12
    <2>2. Piece(S, text, x, 0 + Len(All(a)), m)
      BY <1>1, <1>5, <1>8, <2>1, PieceParts
    <2>3. 0 + Len(All(a)) = n
      BY <1>8
    <2> QED
      BY <2>2, <2>3
  <1> HIDE DEF n, m, t
  <1>15. EndIn(w, k) = n /\ EndIn(w, k + 1) = m
    BY DEF EndIn, a, a1, n, m
  <1> QED
    BY <1>1, <1>8, <1>12, <1>13, <1>15 DEF text, t

\* A piece of a text is one of the text with something behind it.
LEMMA PieceLonger ==
  ASSUME NEW S, NEW text \in Seq(S), NEW e \in Seq(S), NEW n \in Nat, NEW m \in Nat, m <= Len(text),
         NEW s, Piece(S, text, s, n, m)
  PROVE  Piece(S, Cat(text, e), s, n, m)
  <1>1. s \in Seq(S) /\ Len(s) \in Nat /\ n + Len(s) = m /\ Len(text) \in Nat /\ Len(e) \in Nat
    BY PieceLength
  <1>2. ASSUME NEW i \in 1 .. Len(s) PROVE s[i] = Cat(text, e)[n + i]
    <2> DEFINE j == n + i
    <2>1. j \in 1 .. Len(text) + Len(e) /\ j <= Len(text)
      BY <1>1
    <2>2. s[i] = text[j]
      BY DEF Piece
    <2> HIDE DEF j
    <2>3. Cat(text, e)[j] = text[j]
      BY <2>1, CatElement
    <2> QED
      BY <2>2, <2>3 DEF j
  <1> QED
    BY <1>1, <1>2 DEF Piece

\* The symbols of a chunked body, its chunks, their data, and the text of both.
Symb == {<<"cr">>, <<"lf">>} \cup {<<"size", n>> : n \in Nat}
            \cup {<<"data", x[1], x[2]>> : x \in Nat \X Nat}
SizeLine(n) == <<<<"size", n>>, <<"cr">>, <<"lf">>>>
LastChunk == <<<<"size", 0>>, <<"cr">>, <<"lf">>, <<"cr">>, <<"lf">>>>
CrLf == <<<<"cr">>, <<"lf">>>>
DataOf(b, i) == Chunked!Data(b, i)
ChunkOf(b, i) == Cat(Cat(SizeLine(b[i]), DataOf(b, i)), CrLf)
ChunksOf(b) == [i \in 1 .. Len(b) |-> ChunkOf(b, i)]
DatasOf(b) == [i \in 1 .. Len(b) |-> DataOf(b, i)]
StreamOf(b) == Cat(All(ChunksOf(b)), LastChunk)
BodyOf(b) == All(DatasOf(b))

\* The size in the size line of the chunk behind the first k ones.
SizeAt(b, k) == IF k < Len(b) THEN b[k + 1] ELSE 0

\* What HttpChunked receives and is to hand over.
LEMMA StreamIs == Chunked!Stream = StreamOf(body) /\ Chunked!Body = BodyOf(body)
  <1>1. \A b : Chunked!Text(b) = StreamOf(b)
    <2> TAKE b
    <2>1. \A i : Chunked!Chunk(b, i) = ChunkOf(b, i)
      BY DEF Chunked!Chunk, Chunked!Size, Chunked!CR, Chunked!LF, ChunkOf, SizeLine, CrLf, Cat, DataOf
    <2>2. [i \in 1 .. Len(b) |-> Chunked!Chunk(b, i)] = ChunksOf(b)
      BY <2>1 DEF ChunksOf
    <2>3. Chunked!Text(b) = Cat(All([i \in 1 .. Len(b) |-> Chunked!Chunk(b, i)]), LastChunk)
      BY DEF Chunked!Text, Chunked!FlattenSeq, All, FlattenSeq, Cat, LastChunk, Chunked!Size, Chunked!CR, Chunked!LF
    <2> QED
      BY <2>2, <2>3 DEF StreamOf
  <1>2. Chunked!Body = BodyOf(body)
    BY DEF Chunked!Body, BodyOf, DatasOf, DataOf, All, Chunked!FlattenSeq, FlattenSeq
  <1> QED
    BY <1>1, <1>2 DEF Chunked!Stream

\* The symbols of a size line and of the last chunk.
LEMMA SizeLineIs ==
  ASSUME NEW n \in Nat
  PROVE  /\ SizeLine(n) \in Seq(Symb) /\ Len(SizeLine(n)) = 3
         /\ SizeLine(n)[1] = <<"size", n>> /\ SizeLine(n)[2] = <<"cr">> /\ SizeLine(n)[3] = <<"lf">>
         /\ CrLf \in Seq(Symb) /\ Len(CrLf) = 2 /\ LastChunk \in Seq(Symb) /\ Len(LastChunk) = 5
         /\ LastChunk[1] = <<"size", 0>> /\ LastChunk[2] = <<"cr">> /\ LastChunk[3] = <<"lf">>
  <1>1. <<"size", n>> \in Symb /\ <<"size", 0>> \in Symb /\ <<"cr">> \in Symb /\ <<"lf">> \in Symb
    BY DEF Symb
  <1> DEFINE s == <<"size", n>>
             z == <<"size", 0>>
             c == <<"cr">>
             l == <<"lf">>
  <1>2. SizeLine(n) = <<s, c, l>> /\ CrLf = <<c, l>> /\ LastChunk = <<z, c, l, c, l>>
    BY DEF SizeLine, CrLf, LastChunk
  <1>3. s \in Symb /\ z \in Symb /\ c \in Symb /\ l \in Symb
    BY <1>1
  <1> HIDE DEF s, z, c, l
  <1> QED
    BY <1>2, <1>3 DEF s, z, c, l

\* A chunk.
LEMMA ChunkIs ==
  ASSUME NEW b \in Seq(Nat \ {0}), NEW i \in 1 .. Len(b)
  PROVE  /\ b[i] \in Nat /\ b[i] # 0
         /\ DataOf(b, i) \in Seq(Symb) /\ Len(DataOf(b, i)) = b[i]
         /\ ChunkOf(b, i) \in Seq(Symb) /\ Len(ChunkOf(b, i)) = b[i] + 5
         /\ ChunkOf(b, i)[1] = <<"size", b[i]>> /\ ChunkOf(b, i)[2] = <<"cr">> /\ ChunkOf(b, i)[3] = <<"lf">>
         /\ Piece(Symb, ChunkOf(b, i), DataOf(b, i), 3, 3 + b[i])
  <1> DEFINE n == b[i]
             d == DataOf(b, i)
             h == SizeLine(n)
             e == CrLf
             g == Cat(h, d)
             c == Cat(g, e)
  <1>1. n \in Nat /\ n # 0 /\ i \in Nat
    OBVIOUS
  <1>2. d = [j \in 1 .. n |-> <<"data", i, j>>]
    BY DEF DataOf, Chunked!Data
  <1>3. ASSUME NEW j \in 1 .. n PROVE <<"data", i, j>> \in Symb
    <2>1. <<i, j>> \in Nat \X Nat /\ <<i, j>>[1] = i /\ <<i, j>>[2] = j
      BY <1>1
    <2> QED
      BY <2>1 DEF Symb
  <1> HIDE DEF d, n
  <1>4. d \in Seq(Symb) /\ Len(d) = n
    <2>1. \A j \in 1 .. n : d[j] \in Symb
      BY <1>2, <1>3
    <2> QED
      BY <1>1, <1>2, <2>1
  <1>5. /\ h \in Seq(Symb) /\ Len(h) = 3 /\ e \in Seq(Symb) /\ Len(e) = 2
        /\ h[1] = <<"size", n>> /\ h[2] = <<"cr">> /\ h[3] = <<"lf">>
    BY <1>1, SizeLineIs
  <1> HIDE DEF h, e
  <1>6. g \in Seq(Symb) /\ Len(g) = 3 + n /\ c \in Seq(Symb) /\ Len(c) = 3 + n + 2
    <2>1. g \in Seq(Symb) /\ Len(g) = Len(h) + Len(d)
      BY <1>4, <1>5, CatType
    <2> HIDE DEF g
    <2>2. c \in Seq(Symb) /\ Len(c) = Len(g) + Len(e)
      BY <1>5, <2>1, CatType
    <2> QED
      BY <1>1, <1>4, <1>5, <2>1, <2>2
  <1>7. Len(c) = n + 5
    BY <1>1, <1>6
  <1>8. Piece(Symb, c, c, 0, n + 5)
    BY <1>1, <1>6, <1>7 DEF Piece
  <1> DEFINE t == c
             m == n + 5
  <1>9. m \in Nat /\ Piece(Symb, t, Cat(g, e), 0, m)
    BY <1>1, <1>8
  <1> HIDE DEF t, m
  <1>10. Piece(Symb, t, g, 0, 0 + Len(g))
    BY <1>5, <1>6, <1>9, PieceParts
  <1> DEFINE k == 3 + n
  <1>11. k \in Nat /\ Piece(Symb, t, Cat(h, d), 0, k)
    <2>1. 0 + Len(g) = k /\ k \in Nat
      BY <1>1, <1>6
    <2> QED
      BY <1>10, <2>1
  <1> HIDE DEF k
  <1>12. Piece(Symb, t, h, 0, 0 + Len(h)) /\ Piece(Symb, t, d, 0 + Len(h), k)
    BY <1>4, <1>5, <1>11, PieceParts
  <1>13. Piece(Symb, t, h, 0, 3) /\ Piece(Symb, t, d, 3, k)
    <2>1. 0 + Len(h) = 3
      BY <1>5
    <2> QED
      BY <1>12, <2>1
  <1>14. t[1] = <<"size", n>> /\ t[2] = <<"cr">> /\ t[3] = <<"lf">>
    <2>1. h[1] = t[0 + 1] /\ h[2] = t[0 + 2] /\ h[3] = t[0 + 3]
      BY <1>5, <1>13 DEF Piece
    <2> QED
      BY <1>5, <2>1
  <1>15. ChunkOf(b, i) = c
    BY DEF ChunkOf, c, g, h, n, d, e
  <1> QED
    BY <1>1, <1>4, <1>6, <1>7, <1>13, <1>14, <1>15 DEF t, k, n, d

\* Where the chunks and the data begin behind the first k chunks.
ChunkEnd(b, k) == EndIn(ChunksOf(b), k)
DataEnd(b, k) == EndIn(DatasOf(b), k)

\* The types of the chunks, their data and both texts.
LEMMA ListsOf ==
  ASSUME NEW b \in Seq(Nat \ {0})
  PROVE  /\ ChunksOf(b) \in Seq(Seq(Symb)) /\ Len(ChunksOf(b)) = Len(b)
         /\ DatasOf(b) \in Seq(Seq(Symb)) /\ Len(DatasOf(b)) = Len(b)
         /\ All(ChunksOf(b)) \in Seq(Symb) /\ BodyOf(b) \in Seq(Symb)
         /\ LastChunk \in Seq(Symb) /\ Len(LastChunk) = 5 /\ StreamOf(b) \in Seq(Symb)
         /\ Len(StreamOf(b)) = Len(All(ChunksOf(b))) + 5
         /\ Len(All(ChunksOf(b))) \in Nat /\ Len(StreamOf(b)) \in Nat /\ Len(BodyOf(b)) \in Nat
  <1> DEFINE Lists == Seq(Symb)
  <1>1. \A i \in 1 .. Len(b) : ChunkOf(b, i) \in Lists /\ DataOf(b, i) \in Lists
    BY ChunkIs
  <1> HIDE DEF Lists
  <1>2. /\ ChunksOf(b) \in Seq(Lists) /\ Len(ChunksOf(b)) = Len(b)
        /\ DatasOf(b) \in Seq(Lists) /\ Len(DatasOf(b)) = Len(b)
    BY <1>1 DEF ChunksOf, DatasOf
  <1>3. ChunksOf(b) \in Seq(Seq(Symb)) /\ DatasOf(b) \in Seq(Seq(Symb))
    BY <1>2 DEF Lists
  <1>4. All(ChunksOf(b)) \in Seq(Symb) /\ BodyOf(b) \in Seq(Symb)
    BY <1>3, AllType DEF BodyOf
  <1>5. LastChunk \in Seq(Symb) /\ Len(LastChunk) = 5
    <2>1. 0 \in Nat
      OBVIOUS
    <2> QED
      BY <2>1, SizeLineIs
  <1>6. StreamOf(b) \in Seq(Symb) /\ Len(StreamOf(b)) = Len(All(ChunksOf(b))) + 5
    BY <1>4, <1>5, CatType DEF StreamOf
  <1> QED
    BY <1>2, <1>3, <1>4, <1>5, <1>6

\* The (k + 1)-th chunk in the stream, and its data in the body.
LEMMA StreamAt ==
  ASSUME NEW b \in Seq(Nat \ {0}), NEW k \in Nat, k < Len(b)
  PROVE  /\ ChunkEnd(b, k) \in Nat /\ ChunkEnd(b, k + 1) \in Nat
         /\ ChunkEnd(b, k + 1) = ChunkEnd(b, k) + (b[k + 1] + 5)
         /\ Piece(Symb, StreamOf(b), ChunkOf(b, k + 1), ChunkEnd(b, k), ChunkEnd(b, k + 1))
         /\ DataEnd(b, k) \in Nat /\ DataEnd(b, k + 1) \in Nat
         /\ DataEnd(b, k + 1) = DataEnd(b, k) + b[k + 1] /\ DataEnd(b, k + 1) <= Len(BodyOf(b))
         /\ Piece(Symb, BodyOf(b), DataOf(b, k + 1), DataEnd(b, k), DataEnd(b, k + 1))
         /\ b[k + 1] \in Nat /\ b[k + 1] # 0
  <1>1. k + 1 \in 1 .. Len(b) /\ Len(b) \in Nat
    OBVIOUS
  <1> DEFINE x == ChunkOf(b, k + 1)
             d == DataOf(b, k + 1)
             w == ChunksOf(b)
             v == DatasOf(b)
  <1>2. x = w[k + 1] /\ d = v[k + 1]
    BY <1>1 DEF ChunksOf, DatasOf
  <1>3. Len(x) = b[k + 1] + 5 /\ Len(d) = b[k + 1] /\ b[k + 1] \in Nat /\ b[k + 1] # 0
    BY <1>1, ChunkIs
  <1>4. /\ w \in Seq(Seq(Symb)) /\ v \in Seq(Seq(Symb)) /\ k < Len(w) /\ k < Len(v)
        /\ All(w) \in Seq(Symb) /\ LastChunk \in Seq(Symb)
    BY ListsOf
  <1> HIDE DEF x, d, w, v
  <1>5. /\ EndIn(w, k) \in Nat /\ EndIn(w, k + 1) \in Nat /\ EndIn(w, k + 1) = EndIn(w, k) + Len(x)
        /\ EndIn(w, k + 1) <= Len(All(w))
        /\ Piece(Symb, All(w), x, EndIn(w, k), EndIn(w, k + 1))
    BY <1>2, <1>4, ListInText
  <1>6. /\ EndIn(v, k) \in Nat /\ EndIn(v, k + 1) \in Nat /\ EndIn(v, k + 1) = EndIn(v, k) + Len(d)
        /\ EndIn(v, k + 1) <= Len(All(v))
        /\ Piece(Symb, All(v), d, EndIn(v, k), EndIn(v, k + 1))
    BY <1>2, <1>4, ListInText
  <1>7. Piece(Symb, Cat(All(w), LastChunk), x, EndIn(w, k), EndIn(w, k + 1))
    BY <1>4, <1>5, PieceLonger
  <1>8. ChunkEnd(b, k) = EndIn(w, k) /\ ChunkEnd(b, k + 1) = EndIn(w, k + 1)
        /\ DataEnd(b, k) = EndIn(v, k) /\ DataEnd(b, k + 1) = EndIn(v, k + 1)
        /\ StreamOf(b) = Cat(All(w), LastChunk) /\ BodyOf(b) = All(v)
    BY DEF ChunkEnd, DataEnd, StreamOf, BodyOf, w, v
  <1>9. ChunkEnd(b, k + 1) = ChunkEnd(b, k) + (b[k + 1] + 5) /\ DataEnd(b, k + 1) = DataEnd(b, k) + b[k + 1]
    BY <1>3, <1>5, <1>6, <1>8
  <1> QED
    BY <1>3, <1>5, <1>6, <1>7, <1>8, <1>9 DEF x, d

\* The end of the stream, and of the body.
LEMMA StreamEnds ==
  ASSUME NEW b \in Seq(Nat \ {0})
  PROVE  /\ ChunkEnd(b, Len(b)) \in Nat /\ Len(StreamOf(b)) = ChunkEnd(b, Len(b)) + 5
         /\ Piece(Symb, StreamOf(b), LastChunk, ChunkEnd(b, Len(b)), Len(StreamOf(b)))
         /\ DataEnd(b, Len(b)) = Len(BodyOf(b))
         /\ ChunkEnd(b, 0) = 0 /\ DataEnd(b, 0) = 0
  <1> DEFINE w == ChunksOf(b)
             text == StreamOf(b)
             t == All(w)
  <1>1. /\ w \in Seq(Seq(Symb)) /\ Len(w) = Len(b) /\ t \in Seq(Symb)
        /\ LastChunk \in Seq(Symb) /\ text \in Seq(Symb) /\ Len(text) = Len(t) + 5
        /\ Len(t) \in Nat /\ Len(text) \in Nat /\ text = Cat(t, LastChunk)
        /\ DatasOf(b) \in Seq(Seq(Symb)) /\ Len(DatasOf(b)) = Len(b)
    BY ListsOf DEF StreamOf
  <1>2. ChunkEnd(b, Len(b)) = Len(t) /\ DataEnd(b, Len(b)) = Len(BodyOf(b))
    BY <1>1, EndInLast DEF ChunkEnd, DataEnd, BodyOf
  <1> HIDE DEF t, text
  <1>3. Piece(Symb, text, Cat(t, LastChunk), 0, Len(text))
    <2>1. Piece(Symb, text, text, 0, Len(text))
      BY <1>1 DEF Piece
    <2> QED
      BY <1>1, <2>1
  <1>4. Piece(Symb, text, LastChunk, 0 + Len(t), Len(text))
    BY <1>1, <1>3, PieceParts
  <1>5. 0 + Len(t) = Len(t)
    BY <1>1
  <1>6. ChunkEnd(b, 0) = 0 /\ DataEnd(b, 0) = 0
    BY EndInFirst DEF ChunkEnd, DataEnd
  <1> QED
    BY <1>1, <1>2, <1>4, <1>5, <1>6 DEF text

\* What the stream has behind the first k chunks.
LEMMA HeadAt ==
  ASSUME NEW b \in Seq(Nat \ {0}), NEW k \in Nat, k <= Len(b)
  PROVE  \E x \in Seq(Symb) :
            /\ Len(x) = SizeAt(b, k) + 5
            /\ x[1] = <<"size", SizeAt(b, k)>> /\ x[2] = <<"cr">> /\ x[3] = <<"lf">>
            /\ ChunkEnd(b, k) \in Nat /\ SizeAt(b, k) \in Nat
            /\ Piece(Symb, StreamOf(b), x, ChunkEnd(b, k), ChunkEnd(b, k) + (SizeAt(b, k) + 5))
  <1>0. Len(b) \in Nat
    OBVIOUS
  <1>1. CASE k < Len(b)
    <2> DEFINE x == ChunkOf(b, k + 1)
               n == b[k + 1]
    <2>1. k + 1 \in 1 .. Len(b) /\ SizeAt(b, k) = n
      BY <1>0, <1>1 DEF SizeAt
    <2>2. /\ x \in Seq(Symb) /\ Len(x) = n + 5 /\ n \in Nat
          /\ x[1] = <<"size", n>> /\ x[2] = <<"cr">> /\ x[3] = <<"lf">>
      BY <2>1, ChunkIs
    <2>3. /\ ChunkEnd(b, k) \in Nat /\ ChunkEnd(b, k + 1) = ChunkEnd(b, k) + (n + 5)
          /\ Piece(Symb, StreamOf(b), x, ChunkEnd(b, k), ChunkEnd(b, k + 1))
      BY <1>1, StreamAt
    <2> HIDE DEF x, n
    <2> QED
      BY <2>1, <2>2, <2>3
  <1>2. CASE k = Len(b)
    <2>1. SizeAt(b, k) = 0 /\ 0 \in Nat
      BY <1>2 DEF SizeAt
    <2>2. /\ LastChunk \in Seq(Symb) /\ Len(LastChunk) = 5
          /\ LastChunk[1] = <<"size", 0>> /\ LastChunk[2] = <<"cr">> /\ LastChunk[3] = <<"lf">>
      BY <2>1, SizeLineIs
    <2>3. /\ ChunkEnd(b, k) \in Nat /\ Len(StreamOf(b)) = ChunkEnd(b, k) + 5
          /\ Piece(Symb, StreamOf(b), LastChunk, ChunkEnd(b, k), Len(StreamOf(b)))
      BY <1>2, StreamEnds
    <2>4. 0 + 5 = 5
      OBVIOUS
    <2> QED
      BY <2>1, <2>2, <2>3, <2>4
  <1>3. k < Len(b) \/ k = Len(b)
    BY <1>0
  <1> QED
    BY <1>1, <1>2, <1>3, Zenon

\* Before(b, k + 1) is where the data of the first k chunks end.
LEMMA BeforeIs ==
  ASSUME NEW b \in Seq(Nat \ {0}), NEW k \in Nat, k <= Len(b)
  PROVE  Chunked!Before(b, k + 1) = DataEnd(b, k)
  <1> DEFINE Lists == Seq(Symb)
             w == DatasOf(b)
             a == Cut(w, 1, k)
  <1>1. w \in Seq(Lists) /\ Len(w) = Len(b) /\ Len(b) \in Nat
    BY ListsOf
  <1>2. \A i \in 1 .. Len(b) : w[i] = DataOf(b, i)
    BY DEF DatasOf
  <1> HIDE DEF Lists, w
  <1>3. a \in Seq(Lists) /\ Len(a) = k
    BY <1>1, CutHalves
  <1>4. Piece(Lists, w, a, 0, k)
    <2>1. Piece(Lists, w, SubSeq(w, 0 + 1, k), 0, k)
      BY <1>1, PieceOf
    <2> QED
      BY <2>1 DEF Cut
  <1> HIDE DEF a
  <1>5. a = [i \in 1 .. k |-> DataOf(b, i)]
    <2>1. ASSUME NEW i \in 1 .. k PROVE a[i] = DataOf(b, i)
      <3>1. a[i] = w[0 + i] /\ 0 + i = i /\ i \in 1 .. Len(b)
        BY <1>1, <1>3, <1>4 DEF Piece
      <3> QED
        BY <1>2, <3>1
    <2>2. a = [i \in 1 .. k |-> a[i]]
      BY <1>3
    <2> QED
      BY <2>1, <2>2
  <1>6. k + 1 - 1 = k
    OBVIOUS
  <1>7. Chunked!Before(b, k + 1) = Len(All([i \in 1 .. k + 1 - 1 |-> DataOf(b, i)]))
    BY DEF Chunked!Before, DataOf, All, FlattenSeq, Chunked!FlattenSeq
  <1>8. Chunked!Before(b, k + 1) = Len(All(a))
    <2> DEFINE m == k + 1 - 1
    <2> HIDE DEF m
    <2>1. Chunked!Before(b, k + 1) = Len(All([i \in 1 .. m |-> DataOf(b, i)])) /\ m = k
      BY <1>6, <1>7 DEF m
    <2> QED
      BY <1>5, <2>1
  <1> QED
    BY <1>8 DEF DataEnd, EndIn, a, w

\* The received symbols from behind the n-th to the m-th, the same of the body.
Held(s, n, m) == Piece(Symb, StreamOf(body), s, n, m)
Part(s, n, m) == Piece(Symb, BodyOf(body), s, n, m)

\* The types of HttpChunked; the socket never holds more than Burst.
ChunkedTypes ==
    /\ body \in Bodies /\ body \in Seq(Nat \ {0}) /\ c_blockSize \in Nat \ {0}
    /\ c_sent \in Nat /\ c_pos \in Nat /\ c_pos <= c_sent /\ c_sent - c_pos <= Burst
    /\ c_sent <= Len(StreamOf(body))
    /\ c_peer \in {"open", "closed", "reset"}
    /\ c_peer = "reset" => c_sent = c_pos
    /\ buffer \in Seq(Symb) /\ data \in Seq(Symb) /\ m_sChunkedBuffer \in Seq(Symb)
    /\ c_blocks \in Seq(Seq(Symb))

\* k chunks are parsed: the buffer is what came behind them, and the blocks, the
\* kept bytes and the chunk at hand are their data.
ChunkedPlace ==
    \E k, i, j \in Nat :
        /\ k <= Len(body) /\ Held(buffer, ChunkEnd(body, k), c_pos)
        /\ ChunkEnd(body, k) = DataEnd(body, k) + 5 * k
        /\ Part(All(c_blocks), 0, i) /\ Part(m_sChunkedBuffer, i, j) /\ Part(data, j, DataEnd(body, k))

\* The room behind the kept bytes.
ChunkedRoom ==
    /\ c_pc \in {"parse", "block"} => o_size \in Nat /\ o_size + Len(buffer) <= RoomMax
    /\ c_pc = "recv" => size \in Nat /\ Len(buffer) + Burst <= RoomMax

\* The kept bytes fill no block, the blocks are full but for the last two.
ChunkedBlocks ==
    /\ Len(m_sChunkedBuffer) < c_blockSize
    /\ c_result # "end" => Full(c_blocks, c_blockSize)
    /\ c_result = "end" => \A i \in 1 .. Len(c_blocks) - 2 : Len(c_blocks[i]) = c_blockSize

\* What each result of HttpChunked says of the body.
ChunkedEnd ==
    /\ c_pc \in {"parse", "block", "recv", "done"}
    /\ c_pc \in {"parse", "recv"} => data = <<>>
    /\ c_pc # "done" => c_result = "none"
    /\ c_result = "end" => All(c_blocks) = BodyOf(body) /\ c_blocks # <<>> /\ c_blocks[Len(c_blocks)] = <<>>
    /\ c_result = "chunked" => Chunked!InSizeLine(c_pos)

\* The inductive invariant of HttpChunked.
ChunkedInv == ChunkedTypes /\ ChunkedPlace /\ ChunkedRoom /\ ChunkedBlocks /\ ChunkedEnd

\* The buffer of a socket, and that of readBlocks().
LEMMA ChunkedSizes ==
  /\ Burst \in Nat /\ RoomMax \in Nat /\ Burst + 4 <= RoomMax
  /\ \A b \in Bodies : b \in Seq(Nat \ {0}) /\ \A i \in 1 .. Len(b) : Burst + b[i] + 4 <= RoomMax
  <1>1. Burst \in Nat /\ RoomMax \in Nat /\ Burst + 5 - 1 <= RoomMax
    BY ChunkedAssumption
  <1>2. Burst + 4 <= RoomMax
    BY <1>1
  <1>3. ASSUME NEW b \in Bodies PROVE b \in Seq(Nat \ {0}) /\ \A i \in 1 .. Len(b) : Burst + b[i] + 4 <= RoomMax
    <2>1. b \in Seq(Nat \ {0}) /\ \A i \in DOMAIN b : Burst + b[i] + 5 - 1 <= RoomMax
      BY ChunkedAssumption
    <2>2. ASSUME NEW i \in 1 .. Len(b) PROVE Burst + b[i] + 4 <= RoomMax
      <3>1. Burst + b[i] + 5 - 1 <= RoomMax /\ b[i] \in Nat
        BY <2>1
      <3> DEFINE n == b[i]
      <3>2. n \in Nat /\ Burst + n + 5 - 1 <= RoomMax
        BY <3>1
      <3> HIDE DEF n
      <3>3. Burst + n + 4 <= RoomMax
        BY <1>1, <3>2
      <3> QED
        BY <3>3 DEF n
    <2> QED
      BY <2>1, <2>2
  <1> QED
    BY <1>1, <1>2, <1>3

\* What the buffer begins with.
LEMMA BufferHead ==
  ASSUME NEW b \in Seq(Nat \ {0}), NEW k \in Nat, k <= Len(b), NEW s, NEW m \in Nat,
         Piece(Symb, StreamOf(b), s, ChunkEnd(b, k), m)
  PROVE  /\ s \in Seq(Symb) /\ Len(s) \in Nat /\ SizeAt(b, k) \in Nat /\ ChunkEnd(b, k) \in Nat
         /\ Len(s) >= 1 => s[1] = <<"size", SizeAt(b, k)>> /\ StreamOf(b)[ChunkEnd(b, k) + 1] = <<"size", SizeAt(b, k)>>
         /\ Len(s) >= 2 => s[2] = <<"cr">> /\ StreamOf(b)[ChunkEnd(b, k) + 2] = <<"cr">>
         /\ Len(s) >= 3 => s[3] = <<"lf">>
  <1> DEFINE n == SizeAt(b, k)
             c == ChunkEnd(b, k)
             text == StreamOf(b)
             z == <<"size", n>>
  <1>1. PICK x \in Seq(Symb) :
            /\ Len(x) = n + 5 /\ x[1] = z /\ x[2] = <<"cr">> /\ x[3] = <<"lf">>
            /\ c \in Nat /\ n \in Nat /\ Piece(Symb, text, x, c, c + (n + 5))
    BY HeadAt
  <1> HIDE DEF n, c, text, z
  <1>2. s \in Seq(Symb) /\ Len(s) \in Nat /\ \A i \in 1 .. Len(s) : s[i] = text[c + i]
    BY DEF Piece, c, text
  <1>3. \A i \in 1 .. n + 5 : x[i] = text[c + i]
    BY <1>1 DEF Piece
  <1>4. x[1] = text[c + 1] /\ x[2] = text[c + 2] /\ x[3] = text[c + 3]
    <2>1. 1 \in 1 .. n + 5 /\ 2 \in 1 .. n + 5 /\ 3 \in 1 .. n + 5
      BY <1>1
    <2> QED
      BY <1>3, <2>1
  <1>5. Len(s) >= 1 => s[1] = text[c + 1]
    BY <1>2
  <1>6. Len(s) >= 2 => s[2] = text[c + 2]
    BY <1>2
  <1>7. Len(s) >= 3 => s[3] = text[c + 3]
    BY <1>2
  <1> QED
    BY <1>1, <1>2, <1>4, <1>5, <1>6, <1>7 DEF n, c, text, z

\* What strstr() and strtol() find in it.
LEMMA BufferIs ==
  ASSUME body \in Seq(Nat \ {0}), NEW k \in Nat, k <= Len(body), c_pos \in Nat,
         Held(buffer, ChunkEnd(body, k), c_pos)
  PROVE  /\ buffer \in Seq(Symb) /\ Len(buffer) \in Nat /\ SizeAt(body, k) \in Nat
         /\ buffer # <<>> => Len(buffer) >= 1 /\ Chunked!Val = SizeAt(body, k)
         /\ Chunked!HasLine <=> Len(buffer) >= 3
         /\ Chunked!HasLine => Chunked!LineEnd = 2 /\ Chunked!SaveLen = SizeAt(body, k) + 5
         /\ Chunked!Complete <=> SizeAt(body, k) # 0 /\ Len(buffer) >= SizeAt(body, k) + 5
  <1> DEFINE s == buffer
             n == SizeAt(body, k)
             z == <<"size", n>>
  <1>1. /\ s \in Seq(Symb) /\ Len(s) \in Nat /\ n \in Nat
        /\ Len(s) >= 1 => s[1] = z
        /\ Len(s) >= 2 => s[2] = <<"cr">>
        /\ Len(s) >= 3 => s[3] = <<"lf">>
    BY BufferHead DEF Held
  <1>2. z # <<"cr">> /\ z[2] = n
    OBVIOUS
  <1> HIDE DEF n, z
  <1>3. s # <<>> => Len(s) >= 1
    BY <1>1
  <1>4. Len(s) >= 1 => Chunked!Val = n
    BY <1>1, <1>2 DEF Chunked!Val
  <1>5. Len(s) >= 3 => Chunked!HasLine
    <2> HAVE Len(s) >= 3
    <2>1. 2 \in 1 .. Len(s) - 1 /\ 2 + 1 = 3
      BY <1>1
    <2> QED
      BY <1>1, <2>1 DEF Chunked!HasLine, Chunked!CR, Chunked!LF
  <1>6. Chunked!HasLine => Len(s) >= 3
    <2> HAVE Chunked!HasLine
    <2>1. PICK i \in 1 .. Len(s) - 1 : s[i] = <<"cr">>
      BY DEF Chunked!HasLine, Chunked!CR, Chunked!LF
    <2>2. i # 1
      <3>1. s[1] = z
        BY <1>1
      <3> QED
        BY <1>2, <2>1, <3>1
    <2> QED
      BY <1>1, <2>1, <2>2
  <1>7. Len(s) >= 3 => Chunked!LineEnd = 2 /\ Chunked!SaveLen = n + 5
    <2> HAVE Len(s) >= 3
    <2> DEFINE Is(i) == /\ s[i] = <<"cr">> /\ s[i + 1] = <<"lf">>
                        /\ \A j \in 1 .. i - 1 : ~(s[j] = <<"cr">> /\ s[j + 1] = <<"lf">>)
    <2>1. 2 \in 1 .. Len(s) - 1 /\ Is(2)
      <3>1. 2 \in 1 .. Len(s) - 1 /\ 2 + 1 = 3 /\ \A j \in 1 .. 2 - 1 : j = 1
        BY <1>1
      <3> QED
        BY <1>1, <1>2, <3>1
    <2>2. ASSUME NEW i \in 1 .. Len(s) - 1, Is(i) PROVE i = 2
      <3>1. i # 1
        BY <1>1, <1>2, <2>2
      <3>2. ~(2 < i)
        <4>1. 2 < i => 2 \in 1 .. i - 1
          BY <2>2
        <4> QED
          BY <2>1, <2>2, <4>1
      <3> QED
        BY <1>1, <2>2, <3>1, <3>2
    <2>3. Chunked!LineEnd = CHOOSE i \in 1 .. Len(s) - 1 : Is(i)
      BY DEF Chunked!LineEnd, Chunked!CR, Chunked!LF
    <2> HIDE DEF Is
    <2>4. (CHOOSE i \in 1 .. Len(s) - 1 : Is(i)) = 2
      BY <2>1, <2>2
    <2>5. Chunked!LineEnd = 2
      BY <2>3, <2>4
    <2>6. Chunked!SaveLen = (2 + 1) + n + 2
      BY <1>1, <1>4, <2>5 DEF Chunked!SaveLen
    <2>7. (2 + 1) + n + 2 = n + 5
      BY <1>1
    <2> QED
      BY <2>5, <2>6, <2>7
  <1>8. Chunked!Complete <=> n # 0 /\ Len(s) >= n + 5
    <2>1. Chunked!Complete <=> Len(s) >= 3 /\ n # 0 /\ n + 5 <= Len(s)
      BY <1>1, <1>4, <1>5, <1>6, <1>7 DEF Chunked!Complete
    <2>2. n + 5 <= Len(s) <=> Len(s) >= n + 5
      BY <1>1
    <2>3. Len(s) >= n + 5 => Len(s) >= 3
      BY <1>1
    <2> QED
      BY <2>1, <2>2, <2>3
  <1> QED
    BY <1>1, <1>3, <1>4, <1>5, <1>6, <1>7, <1>8 DEF n

\* The server moves: what was read stays.
LEMMA ChunkedServer ==
  ASSUME ChunkedInv,
         UNCHANGED <<body, c_blockSize, c_pos, c_pc, buffer, o_size, size, data, m_sChunkedBuffer,
                     c_blocks, c_result>>,
         c_sent' \in Nat, c_pos <= c_sent', c_sent' - c_pos <= Burst, c_sent' <= Len(StreamOf(body)),
         c_peer' \in {"open", "closed", "reset"}, c_peer' = "reset" => c_sent' = c_pos
  PROVE  ChunkedInv'
  <1>1. ChunkedTypes'
    BY DEF ChunkedInv, ChunkedTypes
  <1>2. ChunkedPlace'
    BY DEF ChunkedInv, ChunkedPlace, Held, Part
  <1>3. ChunkedRoom'
    BY DEF ChunkedInv, ChunkedRoom
  <1>4. ChunkedBlocks'
    BY DEF ChunkedInv, ChunkedBlocks
  <1>5. ChunkedEnd'
    BY DEF ChunkedInv, ChunkedEnd, Chunked!InSizeLine, Chunked!Stream
  <1> QED
    BY <1>1, <1>2, <1>3, <1>4, <1>5 DEF ChunkedInv

\* readBlocks() returns without a change to what was read.
LEMMA ChunkedStops ==
  ASSUME ChunkedInv, c_pc # "done", c_pc' = "done",
         UNCHANGED <<body, c_blockSize, c_sent, c_peer, c_pos, buffer, data, m_sChunkedBuffer, c_blocks>>,
         c_result' # "end", c_result' = "chunked" => Chunked!InSizeLine(c_pos)
  PROVE  ChunkedInv'
  <1>1. ChunkedTypes'
    BY DEF ChunkedInv, ChunkedTypes
  <1>2. ChunkedPlace'
    BY DEF ChunkedInv, ChunkedPlace, Held, Part
  <1>3. ChunkedRoom'
    BY DEF ChunkedRoom
  <1>4. ChunkedBlocks'
    BY DEF ChunkedInv, ChunkedBlocks, ChunkedEnd
  <1>5. ChunkedEnd'
    BY DEF ChunkedEnd, Chunked!InSizeLine, Chunked!Stream
  <1> QED
    BY <1>1, <1>2, <1>3, <1>4, <1>5 DEF ChunkedInv

\* A wait for the socket fails.
LEMMA ChunkedWaitStep ==
  ASSUME ChunkedInv, NEW r \in {"timeout", "stopped"}, Chunked!WaitFails(r)
  PROVE  ChunkedInv'
  <1>1. /\ c_pc = "recv" /\ c_pc' = "done" /\ c_result' = r
        /\ UNCHANGED <<body, c_blockSize, c_sent, c_peer, c_pos, buffer, data, m_sChunkedBuffer, c_blocks>>
    BY DEF Chunked!WaitFails, Chunked!Done, Chunked!netvars
  <1> QED
    BY <1>1, ChunkedStops

\* recv() fills the buffer behind the kept bytes.
LEMMA ChunkedRecvStep ==
  ASSUME ChunkedInv, Chunked!Recv
  PROVE  ChunkedInv'
  <1> DEFINE n == Chunked!Taken(size)
             d == SubSeq(StreamOf(body), c_pos + 1, c_pos + n)
             text == StreamOf(body)
  <1>0. Chunked!Stream = text
    BY StreamIs
  <1>1. /\ c_pc = "recv" /\ c_pos' = c_pos + n /\ o_size' = 0
        /\ UNCHANGED <<body, c_blockSize, c_sent, c_peer, data, m_sChunkedBuffer, c_blocks>>
        /\ status' = IF size = 0 THEN "full" ELSE Chunked!RecvStatus(size)
    BY DEF Chunked!Recv, Chunked!netvars
  <1>2. /\ c_sent \in Nat /\ c_pos \in Nat /\ c_pos <= c_sent /\ c_sent - c_pos <= Burst
        /\ c_sent <= Len(text) /\ buffer \in Seq(Symb) /\ body \in Seq(Nat \ {0})
        /\ c_peer \in {"open", "closed", "reset"}
        /\ c_peer = "reset" => c_sent = c_pos
    BY DEF ChunkedInv, ChunkedTypes
  <1>3. size \in Nat /\ Len(buffer) + Burst <= RoomMax /\ c_result = "none" /\ data = <<>>
    BY <1>1 DEF ChunkedInv, ChunkedRoom, ChunkedEnd
  <1>4. n \in Nat /\ c_pos + n \in Nat /\ c_pos + n <= c_sent /\ n <= c_sent - c_pos
    BY <1>2, <1>3 DEF Chunked!Taken
  <1>5. Len(text) \in Nat /\ text \in Seq(Symb)
    BY <1>2, ListsOf
  <1>6. CASE status' = "reset"
    <2>1. c_pc' = "done" /\ c_result' = "reset" /\ UNCHANGED buffer
      BY <1>6 DEF Chunked!Recv, Chunked!Done
    <2>2. c_peer = "reset"
      <3>1. Chunked!RecvStatus(size) = "reset"
        BY <1>1, <1>6
      <3>2. n >= size \/ n < size
        BY <1>3, <1>4
      <3> QED
        BY <1>2, <3>1, <3>2 DEF Chunked!RecvStatus
    <2>3. n = 0
      <3>1. n <= 0
        BY <1>2, <1>4, <2>2
      <3> QED
        BY <1>4, <3>1
    <2>4. c_pos' = c_pos
      BY <1>1, <1>2, <2>3
    <2> QED
      BY <1>1, <2>1, <2>4, ChunkedStops
  <1>7. CASE status' # "reset"
    <2>1. buffer' = Cat(buffer, d) /\ size' = size - n /\ c_pc' = "parse" /\ UNCHANGED c_result
      BY <1>0, <1>7, <1>1 DEF Chunked!Recv, Cat
    <2> DEFINE t == c_pos + n
    <2>2. t \in Nat /\ c_pos <= t /\ t <= Len(text) /\ t <= c_sent /\ c_sent - t <= Burst
      <3>1. t \in Nat /\ c_pos <= t /\ t <= c_sent
        BY <1>2, <1>4
      <3>2. Burst \in Nat
        BY ChunkedSizes
      <3> HIDE DEF t, text
      <3> QED
        BY <1>2, <1>5, <3>1, <3>2
    <2>3. Piece(Symb, text, d, c_pos, t)
      <3> HIDE DEF t
      <3> DEFINE dd == SubSeq(text, c_pos + 1, t)
      <3>1. Piece(Symb, text, dd, c_pos, t)
        BY <1>2, <1>5, <2>2, PieceOf
      <3> QED
        BY <3>1 DEF t
    <2> HIDE DEF n, d, text, t
    <2>4. /\ d \in Seq(Symb) /\ Len(d) = t - c_pos /\ Cat(buffer, d) \in Seq(Symb)
          /\ Len(Cat(buffer, d)) = Len(buffer) + Len(d) /\ Len(buffer) \in Nat /\ Len(d) \in Nat
      <3>1. d \in Seq(Symb) /\ Len(d) = t - c_pos /\ Len(d) \in Nat
        BY <1>2, <2>2, <2>3, PieceLength
      <3>2. Cat(buffer, d) \in Seq(Symb) /\ Len(Cat(buffer, d)) = Len(buffer) + Len(d)
        BY <1>2, <3>1, CatType
      <3>3. Len(buffer) \in Nat
        BY <1>2
      <3> QED
        BY <3>1, <3>2, <3>3
    <2>5. ChunkedTypes'
      <3>1. buffer' \in Seq(Symb) /\ c_pos' = t
        BY <1>1, <2>1, <2>4 DEF t
      <3>2. c_peer = "reset" => c_sent = t
        BY <1>2, <2>2
      <3> QED
        BY <1>1, <2>2, <3>1, <3>2 DEF ChunkedInv, ChunkedTypes, text
    <2>6. ChunkedPlace'
      <3>1. PICK k, i, j \in Nat :
              /\ k <= Len(body) /\ Held(buffer, ChunkEnd(body, k), c_pos)
              /\ ChunkEnd(body, k) = DataEnd(body, k) + 5 * k
              /\ Part(All(c_blocks), 0, i) /\ Part(m_sChunkedBuffer, i, j) /\ Part(data, j, DataEnd(body, k))
        BY DEF ChunkedInv, ChunkedPlace
      <3>2. ChunkEnd(body, k) \in Nat
        BY <1>2, <3>1, BufferHead DEF Held
      <3> DEFINE e == ChunkEnd(body, k)
      <3>3. Piece(Symb, text, buffer, e, c_pos) /\ e \in Nat
        BY <3>1, <3>2 DEF Held, text
      <3> HIDE DEF e
      <3>4. Piece(Symb, text, Cat(buffer, d), e, t)
        BY <1>2, <2>2, <2>3, <3>3, PieceCat
      <3>5. Held(buffer', ChunkEnd(body, k), c_pos')
        BY <1>1, <2>1, <3>4 DEF Held, text, t, e
      <3>6. Held(buffer', ChunkEnd(body', k), c_pos')
        BY <1>1, <3>5
      <3> QED
        BY <1>1, <3>1, <3>6 DEF ChunkedPlace, Held, Part
    <2>7. ChunkedRoom'
      <3>1. Len(buffer') <= RoomMax
        <4>1. Len(d) <= Burst
          BY <1>2, <2>2, <2>4, ChunkedSizes
        <4>2. Burst \in Nat /\ RoomMax \in Nat
          BY ChunkedSizes
        <4> QED
          BY <1>3, <2>1, <2>4, <4>1, <4>2
      <3>2. 0 + Len(buffer') <= RoomMax
        <4>1. Len(buffer') \in Nat
          BY <2>1, <2>4
        <4> QED
          BY <3>1, <4>1
      <3> QED
        BY <1>1, <2>1, <3>2 DEF ChunkedRoom
    <2>8. ChunkedBlocks'
      BY <1>1, <2>1 DEF ChunkedInv, ChunkedBlocks
    <2>9. ChunkedEnd'
      BY <1>1, <1>3, <2>1 DEF ChunkedEnd
    <2> QED
      BY <2>5, <2>6, <2>7, <2>8, <2>9 DEF ChunkedInv
  <1> QED
    BY <1>6, <1>7

\* A piece of a piece of a text.
LEMMA PieceInPiece ==
  ASSUME NEW S, NEW text, NEW n \in Nat, NEW m \in Nat, NEW x, Piece(S, text, x, n, m),
         NEW i \in Nat, NEW j \in Nat, NEW s, Piece(S, x, s, i, j), j <= Len(x)
  PROVE  Piece(S, text, s, n + i, n + j)
  <1>1. s \in Seq(S) /\ Len(s) \in Nat /\ i + Len(s) = j /\ x \in Seq(S) /\ Len(x) \in Nat
    BY PieceLength
  <1>2. ASSUME NEW l \in 1 .. Len(s) PROVE s[l] = text[n + i + l]
    <2> DEFINE p == i + l
    <2>1. p \in 1 .. Len(x) /\ n + p = n + i + l
      BY <1>1
    <2>2. s[l] = x[p]
      BY DEF Piece
    <2> HIDE DEF p
    <2>3. x[p] = text[n + p]
      BY <2>1 DEF Piece
    <2> QED
      BY <2>1, <2>2, <2>3
  <1>3. n + i + Len(s) = n + j
    BY <1>1
  <1> QED
    BY <1>1, <1>2, <1>3 DEF Piece

\* The data of the chunk that the buffer begins with, and what is behind it.
LEMMA ChunkInBuffer ==
  ASSUME body \in Seq(Nat \ {0}), NEW k \in Nat, k < Len(body), c_pos \in Nat,
         Held(buffer, ChunkEnd(body, k), c_pos), Len(buffer) >= body[k + 1] + 5
  PROVE  LET q == body[k + 1]
         IN /\ Cut(buffer, 4, 3 + q) = DataOf(body, k + 1)
            /\ Held(Cut(buffer, q + 5 + 1, Len(buffer)), ChunkEnd(body, k + 1), c_pos)
            /\ Len(Cut(buffer, q + 5 + 1, Len(buffer))) = Len(buffer) - (q + 5)
            /\ Cut(buffer, q + 5 + 1, Len(buffer)) \in Seq(Symb)
  <1> DEFINE q == body[k + 1]
             e == ChunkEnd(body, k)
             e1 == ChunkEnd(body, k + 1)
             s == buffer
             text == StreamOf(body)
             x == ChunkOf(body, k + 1)
             d == DataOf(body, k + 1)
  <1>1. /\ e \in Nat /\ e1 \in Nat /\ e1 = e + (q + 5) /\ Piece(Symb, text, x, e, e1) /\ q \in Nat
    BY StreamAt
  <1>2. k + 1 \in 1 .. Len(body)
    OBVIOUS
  <1>3. Piece(Symb, x, d, 3, 3 + q) /\ Len(x) = q + 5
    BY <1>2, ChunkIs
  <1>4. Piece(Symb, text, s, e, c_pos) /\ Len(s) >= q + 5
    BY DEF Held
  <1> HIDE DEF q, e, e1, text, x, d
  <1>5. s \in Seq(Symb) /\ Len(s) \in Nat
    BY <1>1, <1>4, PieceLength
  <1> DEFINE p == 3 + q
             r == q + 5
  <1>6. p \in Nat /\ r \in Nat /\ 3 \in Nat /\ 3 <= p /\ p <= Len(s) /\ p <= Len(x) /\ r <= Len(s)
    BY <1>1, <1>3, <1>4, <1>5
  <1>7. Piece(Symb, x, d, 3, p) /\ e1 = e + r
    BY <1>1, <1>3
  <1> HIDE DEF p, r
  <1>8. Piece(Symb, s, SubSeq(s, 3 + 1, p), 3, p)
    BY <1>5, <1>6, PieceOf
  <1>9. Piece(Symb, text, d, e + 3, e + p)
    BY <1>1, <1>6, <1>7, PieceInPiece
  <1>10. Piece(Symb, text, SubSeq(s, 3 + 1, p), e + 3, e + p)
    BY <1>1, <1>4, <1>6, <1>8, PieceInPiece
  <1>11. SubSeq(s, 3 + 1, p) = d
    <2>1. e + 3 \in Nat /\ e + p \in Nat
      BY <1>1, <1>6
    <2> QED
      BY <1>9, <1>10, <2>1, PieceSame
  <1>12. Cut(s, 4, p) = d
    <2>1. 3 + 1 = 4
      OBVIOUS
    <2> QED
      BY <1>11, <2>1 DEF Cut
  <1>13. Piece(Symb, text, Cut(s, r + 1, Len(s)), e1, c_pos)
    <2>1. Piece(Symb, text, Cut(s, r + 1, Len(s)), e + r, c_pos)
      BY <1>1, <1>4, <1>6, PieceHalves
    <2> QED
      BY <1>7, <2>1
  <1>14. Len(Cut(s, r + 1, Len(s))) = Len(s) - r /\ Cut(s, r + 1, Len(s)) \in Seq(Symb)
    BY <1>5, <1>6, CutHalves
  <1> QED
    BY <1>12, <1>13, <1>14 DEF Held, q, e, e1, text, d, p, r

\* A whole chunk is parsed.
LEMMA ParseChunkStep ==
  ASSUME ChunkedInv, Chunked!ParseChunk
  PROVE  ChunkedInv'
  <1>1. /\ c_pc = "parse" /\ Chunked!Complete /\ c_pc' = "block"
        /\ o_size' = o_size + Chunked!SaveLen
        /\ data' = Cut(buffer, Chunked!LineEnd + 2, Chunked!LineEnd + 1 + Chunked!Val)
        /\ buffer' = Cut(buffer, Chunked!SaveLen + 1, Len(buffer))
        /\ UNCHANGED <<body, c_blockSize, c_sent, c_peer, c_pos, m_sChunkedBuffer, c_blocks, c_result>>
    BY DEF Chunked!ParseChunk, Chunked!netvars, Cut
  <1>2. body \in Seq(Nat \ {0}) /\ c_pos \in Nat
    BY DEF ChunkedInv, ChunkedTypes
  <1>3. data = <<>> /\ c_result = "none" /\ o_size \in Nat /\ o_size + Len(buffer) <= RoomMax
    BY <1>1 DEF ChunkedInv, ChunkedEnd, ChunkedRoom
  <1>4. PICK k, i, j \in Nat :
          /\ k <= Len(body) /\ Held(buffer, ChunkEnd(body, k), c_pos)
          /\ ChunkEnd(body, k) = DataEnd(body, k) + 5 * k
          /\ Part(All(c_blocks), 0, i) /\ Part(m_sChunkedBuffer, i, j) /\ Part(data, j, DataEnd(body, k))
    BY DEF ChunkedInv, ChunkedPlace
  <1> DEFINE q == SizeAt(body, k)
  <1>5. /\ buffer # <<>> => Chunked!Val = q
        /\ Chunked!HasLine => Chunked!LineEnd = 2 /\ Chunked!SaveLen = q + 5
        /\ Chunked!Complete => q # 0 /\ Len(buffer) >= q + 5
        /\ buffer \in Seq(Symb) /\ Len(buffer) \in Nat /\ q \in Nat
    BY <1>2, <1>4, BufferIs
  <1>6. k < Len(body) /\ q = body[k + 1]
    BY <1>1, <1>5 DEF SizeAt
  <1> HIDE DEF q
  <1>7. /\ Chunked!Val = q /\ Chunked!LineEnd = 2 /\ Chunked!SaveLen = q + 5 /\ Len(buffer) >= q + 5
    <2>1. Chunked!HasLine
      BY <1>1 DEF Chunked!Complete
    <2>2. Len(buffer) >= q + 5
      BY <1>1, <1>5
    <2>3. Len(buffer) # 0
      BY <1>5, <2>2
    <2>4. buffer # <<>>
      BY <2>3
    <2> QED
      BY <1>5, <2>1, <2>2, <2>4
  <1>8. data' = Cut(buffer, 4, 3 + q) /\ buffer' = Cut(buffer, q + 5 + 1, Len(buffer))
    <2>1. data' = Cut(buffer, 2 + 2, 2 + 1 + q)
      BY <1>1, <1>7
    <2>2. 2 + 2 = 4 /\ 2 + 1 + q = 3 + q
      BY <1>5
    <2> QED
      BY <1>1, <1>7, <2>1, <2>2
  <1>9. /\ data' = DataOf(body, k + 1) /\ Held(buffer', ChunkEnd(body, k + 1), c_pos)
        /\ Len(buffer') = Len(buffer) - (q + 5) /\ buffer' \in Seq(Symb)
    BY <1>2, <1>4, <1>6, <1>7, <1>8, ChunkInBuffer
  <1>10. /\ DataEnd(body, k) \in Nat /\ DataEnd(body, k + 1) = DataEnd(body, k) + q
         /\ ChunkEnd(body, k + 1) = ChunkEnd(body, k) + (q + 5)
         /\ Part(data', DataEnd(body, k), DataEnd(body, k + 1))
         /\ k + 1 \in Nat /\ k + 1 <= Len(body)
    BY <1>2, <1>6, <1>9, StreamAt DEF Part
  <1>11. data' \in Seq(Symb)
    BY <1>10 DEF Part, Piece
  <1>12. ChunkedTypes'
    BY <1>1, <1>9, <1>11 DEF ChunkedInv, ChunkedTypes
  <1>13. ChunkedPlace'
    <2>1. j = DataEnd(body, k)
      <3> DEFINE e == DataEnd(body, k)
      <3>1. Piece(Symb, BodyOf(body), <<>>, j, e) /\ e \in Nat
        BY <1>3, <1>4, <1>10 DEF Part
      <3> HIDE DEF e
      <3>2. e = j + Len(<<>>)
        BY <3>1, PieceLength
      <3>3. e = j
        BY <3>2
      <3> QED
        BY <3>3 DEF e
    <2>2. ChunkEnd(body, k + 1) = DataEnd(body, k + 1) + 5 * (k + 1)
      <3> DEFINE a == DataEnd(body, k)
                 c == ChunkEnd(body, k)
                 c1 == ChunkEnd(body, k + 1)
                 a1 == DataEnd(body, k + 1)
      <3>1. a \in Nat /\ c = a + 5 * k /\ a1 = a + q /\ c1 = c + (q + 5)
        BY <1>4, <1>10
      <3> HIDE DEF a, c, a1, c1
      <3>2. c1 = a1 + 5 * (k + 1)
        BY <1>5, <3>1
      <3> QED
        BY <3>2 DEF c1, a1
    <2> DEFINE l == k + 1
    <2>3. l \in Nat /\ l <= Len(body) /\ Held(buffer', ChunkEnd(body, l), c_pos)
          /\ ChunkEnd(body, l) = DataEnd(body, l) + 5 * l
          /\ Part(All(c_blocks), 0, i) /\ Part(m_sChunkedBuffer, i, j) /\ Part(data', j, DataEnd(body, l))
      BY <1>4, <1>9, <1>10, <2>1, <2>2
    <2> HIDE DEF l
    <2>4. /\ l <= Len(body') /\ Held(buffer', ChunkEnd(body', l), c_pos')
          /\ ChunkEnd(body', l) = DataEnd(body', l) + 5 * l
          /\ Part(All(c_blocks'), 0, i) /\ Part(m_sChunkedBuffer', i, j) /\ Part(data', j, DataEnd(body', l))
      BY <1>1, <2>3
    <2> QED
      BY <1>1, <2>3, <2>4 DEF ChunkedPlace, Held, Part
  <1>14. ChunkedRoom'
    <2>1. o_size' = o_size + (q + 5) /\ Len(buffer') = Len(buffer) - (q + 5)
      BY <1>1, <1>7, <1>9
    <2>2. RoomMax \in Nat
      BY ChunkedSizes
    <2>3. o_size' \in Nat /\ o_size' + Len(buffer') <= RoomMax
      BY <1>3, <1>5, <2>1, <2>2
    <2> QED
      BY <1>1, <2>3 DEF ChunkedRoom
  <1>15. ChunkedBlocks'
    BY <1>1 DEF ChunkedInv, ChunkedBlocks
  <1>16. ChunkedEnd'
    BY <1>1, <1>3 DEF ChunkedEnd
  <1> QED
    BY <1>12, <1>13, <1>14, <1>15, <1>16 DEF ChunkedInv

\* A list of lists with two more behind it.
LEMMA TwoMore ==
  ASSUME NEW S, NEW s \in Seq(Seq(S)), NEW x \in Seq(S)
  PROVE  LET t == Cat(s, <<x, <<>>>>)
         IN /\ t \in Seq(Seq(S)) /\ Len(t) = Len(s) + 2 /\ t # <<>> /\ t[Len(t)] = <<>>
            /\ All(t) = Cat(All(s), x) /\ \A i \in 1 .. Len(s) : t[i] = s[i]
  <1> DEFINE Lists == Seq(S)
             n == <<>>
             y == <<x, n>>
             t == Cat(s, y)
  <1>1. x \in Lists /\ n \in Lists /\ s \in Seq(Lists)
    OBVIOUS
  <1>a. n = <<>>
    OBVIOUS
  <1> HIDE DEF Lists, n
  <1>2. y \in Seq(Lists) /\ Len(y) = 2 /\ y[1] = x /\ y[2] = n /\ y = Cat(<<x>>, <<n>>)
        /\ <<x>> \in Seq(Lists) /\ <<n>> \in Seq(Lists)
    BY <1>1 DEF Cat
  <1> HIDE DEF y
  <1>3. t \in Seq(Lists) /\ Len(t) = Len(s) + 2 /\ Len(s) \in Nat
    <2>1. t \in Seq(Lists) /\ Len(t) = Len(s) + Len(y)
      BY <1>1, <1>2, CatType
    <2>2. Len(s) \in Nat
      BY <1>1
    <2> QED
      BY <1>2, <2>1, <2>2
  <1>4. \A i \in 1 .. Len(s) : t[i] = s[i]
    <2> TAKE i \in 1 .. Len(s)
    <2>1. i \in 1 .. Len(s) + Len(y) /\ i <= Len(s)
      BY <1>2, <1>3
    <2> QED
      BY <1>1, <1>2, <2>1, CatElement
  <1>5. t[Len(s) + 2] = n
    <2> DEFINE j == Len(s) + 2
    <2>1. j \in 1 .. Len(s) + Len(y) /\ ~(j <= Len(s)) /\ j - Len(s) = 2
      BY <1>2, <1>3
    <2> HIDE DEF j
    <2>2. t[j] = y[j - Len(s)]
      BY <1>1, <1>2, <2>1, CatElement
    <2> QED
      BY <1>2, <2>1, <2>2 DEF j
  <1> HIDE DEF t
  <1>6. t # <<>>
    <2>1. Len(t) # 0
      BY <1>3
    <2> QED
      BY <2>1
  <1>7. t \in Seq(Seq(S))
    BY <1>3 DEF Lists
  <1>8. All(t) = Cat(All(s), x)
    <2>0. y \in Seq(Seq(S)) /\ <<x>> \in Seq(Seq(S)) /\ <<n>> \in Seq(Seq(S))
      BY <1>2 DEF Lists
    <2>1. All(t) = Cat(All(s), All(y))
      BY <2>0, AllCat DEF t
    <2>2. All(y) = Cat(All(<<x>>), All(<<n>>))
      BY <1>2, <2>0, AllCat
    <2>3. All(<<x>>) = x /\ All(<<n>>) = n
      BY <1>1, AllOne DEF Lists
    <2>4. Cat(x, n) = x
      BY <1>a, CatEmpty
    <2> QED
      BY <2>1, <2>2, <2>3, <2>4
  <1> QED
    BY <1>3, <1>4, <1>5, <1>6, <1>7, <1>8 DEF t, y, n

\* The last chunk is parsed.
LEMMA ParseLastStep ==
  ASSUME ChunkedInv, Chunked!ParseLast
  PROVE  ChunkedInv'
  <1>1. /\ c_pc = "parse" /\ buffer # <<>> /\ Chunked!Val = 0
        /\ c_blocks' = Cat(c_blocks, <<m_sChunkedBuffer, <<>>>>) /\ m_sChunkedBuffer' = <<>>
        /\ c_pc' = "done" /\ c_result' = "end"
        /\ UNCHANGED <<body, c_blockSize, c_sent, c_peer, c_pos, buffer, data>>
    BY DEF Chunked!ParseLast, Chunked!netvars, Chunked!Done, Cat
  <1>2. /\ body \in Seq(Nat \ {0}) /\ c_pos \in Nat /\ m_sChunkedBuffer \in Seq(Symb)
        /\ c_blocks \in Seq(Seq(Symb)) /\ c_blockSize \in Nat \ {0}
    BY DEF ChunkedInv, ChunkedTypes
  <1>3. data = <<>> /\ c_result = "none"
    BY <1>1 DEF ChunkedInv, ChunkedEnd
  <1>4. PICK k, i, j \in Nat :
          /\ k <= Len(body) /\ Held(buffer, ChunkEnd(body, k), c_pos)
          /\ ChunkEnd(body, k) = DataEnd(body, k) + 5 * k
          /\ Part(All(c_blocks), 0, i) /\ Part(m_sChunkedBuffer, i, j) /\ Part(data, j, DataEnd(body, k))
    BY DEF ChunkedInv, ChunkedPlace
  <1>5. SizeAt(body, k) = 0
    BY <1>1, <1>2, <1>4, BufferIs
  <1>6. k = Len(body)
    <2>1. Len(body) \in Nat
      BY <1>2
    <2>2. ~(k < Len(body))
      BY <1>2, <1>5, StreamAt DEF SizeAt
    <2> QED
      BY <1>4, <2>1, <2>2
  <1> DEFINE l == Len(BodyOf(body))
             e == DataEnd(body, k)
             b == BodyOf(body)
             t == Cat(c_blocks, <<m_sChunkedBuffer, <<>>>>)
  <1>7. e = l /\ l \in Nat /\ b \in Seq(Symb)
    BY <1>2, <1>6, StreamEnds, ListsOf
  <1>8. /\ t \in Seq(Seq(Symb)) /\ Len(t) = Len(c_blocks) + 2 /\ t # <<>> /\ t[Len(t)] = <<>>
        /\ All(t) = Cat(All(c_blocks), m_sChunkedBuffer) /\ \A n \in 1 .. Len(c_blocks) : t[n] = c_blocks[n]
    BY <1>2, TwoMore
  <1>9. /\ Piece(Symb, b, All(c_blocks), 0, i) /\ Piece(Symb, b, m_sChunkedBuffer, i, j)
        /\ Piece(Symb, b, <<>>, j, e)
    BY <1>3, <1>4 DEF Part
  <1> HIDE DEF l, e, b, t
  <1>10. j = l
    <2>1. e = j + Len(<<>>)
      BY <1>7, <1>9, PieceLength
    <2> QED
      BY <1>7, <2>1
  <1>11. Piece(Symb, b, All(t), 0, l)
    BY <1>8, <1>9, <1>10, PieceCat
  <1>12. All(t) = b
    <2>1. Piece(Symb, b, b, 0, l)
      BY <1>7 DEF Piece, l, b
    <2> QED
      BY <1>7, <1>11, <2>1, PieceSame
  <1>13. Piece(Symb, b, <<>>, l, l)
    BY <1>7, PieceEmpty
  <1>14. ChunkedTypes'
    <2>1. <<>> \in Seq(Symb) /\ c_blocks' \in Seq(Seq(Symb))
      BY <1>1, <1>8 DEF t
    <2> QED
      BY <1>1, <2>1 DEF ChunkedInv, ChunkedTypes
  <1>15. ChunkedPlace'
    <2>1. /\ k <= Len(body) /\ Held(buffer, ChunkEnd(body, k), c_pos)
          /\ ChunkEnd(body, k) = DataEnd(body, k) + 5 * k
          /\ Part(All(c_blocks'), 0, l) /\ Part(m_sChunkedBuffer', l, l) /\ Part(data, l, DataEnd(body, k))
      BY <1>1, <1>3, <1>4, <1>7, <1>11, <1>13 DEF Part, b, e, t
    <2> QED
      BY <1>1, <1>7, <2>1 DEF ChunkedPlace, Held, Part
  <1>16. ChunkedRoom'
    BY <1>1 DEF ChunkedRoom
  <1>17. ChunkedBlocks'
    <2>1. Len(<<>>) < c_blockSize
      BY <1>2
    <2>2. Full(c_blocks, c_blockSize)
      BY <1>3 DEF ChunkedInv, ChunkedBlocks
    <2>3. \A n \in 1 .. Len(t) - 2 : Len(t[n]) = c_blockSize
      <3>1. Len(c_blocks) \in Nat
        BY <1>2
      <3>2. Len(t) - 2 = Len(c_blocks)
        BY <1>8, <3>1
      <3> QED
        BY <1>8, <2>2, <3>2 DEF Full
    <2> QED
      BY <1>1, <2>1, <2>3 DEF ChunkedBlocks, t
  <1>18. ChunkedEnd'
    BY <1>1, <1>3, <1>8, <1>12 DEF ChunkedEnd, t, b
  <1> QED
    BY <1>14, <1>15, <1>16, <1>17, <1>18 DEF ChunkedInv

\* strstr() or strtol() meets a size line that is cut.
LEMMA ParseRefusesStep ==
  ASSUME ChunkedInv, Chunked!ParseRefuses
  PROVE  ChunkedInv'
  <1>1. /\ c_pc = "parse" /\ buffer # <<>> /\ ~Chunked!HasLine
        /\ c_pc' = "done" /\ c_result' = "chunked"
        /\ UNCHANGED <<body, c_blockSize, c_sent, c_peer, c_pos, buffer, data, m_sChunkedBuffer, c_blocks>>
    BY DEF Chunked!ParseRefuses, Chunked!netvars, Chunked!Done
  <1>2. body \in Seq(Nat \ {0}) /\ c_pos \in Nat
    BY DEF ChunkedInv, ChunkedTypes
  <1>3. PICK k \in Nat : k <= Len(body) /\ Held(buffer, ChunkEnd(body, k), c_pos)
    BY DEF ChunkedInv, ChunkedPlace
  <1> DEFINE e == ChunkEnd(body, k)
             z == <<"size", SizeAt(body, k)>>
             text == StreamOf(body)
  <1>4. /\ Len(buffer) \in Nat /\ Len(buffer) >= 1 /\ ~(Len(buffer) >= 3)
    BY <1>1, <1>2, <1>3, BufferIs
  <1>5. /\ e \in Nat /\ text[e + 1] = z
        /\ Len(buffer) >= 2 => text[e + 2] = <<"cr">>
    BY <1>2, <1>3, <1>4, BufferHead DEF Held
  <1>6. c_pos = e + Len(buffer)
    <2>1. Piece(Symb, text, buffer, e, c_pos)
      BY <1>3 DEF Held
    <2> HIDE DEF e, text
    <2> QED
      BY <1>2, <1>5, <2>1, PieceLength
  <1>7. z[1] = "size"
    OBVIOUS
  <1>8. Chunked!Stream = text
    BY StreamIs
  <1> HIDE DEF e, z, text
  <1>9. Chunked!InSizeLine(c_pos)
    <2>1. CASE Len(buffer) = 1
      BY <1>5, <1>6, <1>7, <1>8, <2>1 DEF Chunked!InSizeLine
    <2>2. CASE Len(buffer) = 2
      <3>1. c_pos = e + 2 /\ c_pos - 1 = e + 1 /\ c_pos > 0 /\ c_pos > 1
        BY <1>5, <1>6, <2>2
      <3>2. text[c_pos] = <<"cr">> /\ text[c_pos - 1] = z
        BY <1>5, <2>2, <3>1
      <3> QED
        BY <1>7, <1>8, <3>1, <3>2 DEF Chunked!InSizeLine, Chunked!CR
    <2>3. Len(buffer) = 1 \/ Len(buffer) = 2
      <3> DEFINE n == Len(buffer)
      <3>1. n \in Nat /\ n >= 1 /\ ~(n >= 3)
        BY <1>4
      <3> HIDE DEF n
      <3>2. n = 1 \/ n = 2
        BY <3>1
      <3> QED
        BY <3>2 DEF n
    <2> QED
      BY <2>1, <2>2, <2>3, Zenon
  <1> QED
    BY <1>1, <1>9, ChunkedStops

\* What is left is no whole chunk and is kept.
LEMMA ParseEndsStep ==
  ASSUME ChunkedInv, Chunked!ParseEnds
  PROVE  ChunkedInv'
  <1>1. /\ c_pc = "parse" /\ ~Chunked!Complete
        /\ buffer # <<>> => (Chunked!HasLine => Chunked!Val # 0)
        /\ size' = Chunked!NextRoom
        /\ \/ c_pc' = "done" /\ c_result' = "disconnect"
           \/ c_pc' = "recv" /\ c_result' = c_result
        /\ UNCHANGED <<body, c_blockSize, c_sent, c_peer, c_pos, buffer, data, m_sChunkedBuffer, c_blocks>>
    BY DEF Chunked!ParseEnds, Chunked!netvars, Chunked!Done
  <1>2. CASE c_pc' = "done" /\ c_result' = "disconnect"
    BY <1>1, <1>2, ChunkedStops
  <1>3. CASE c_pc' = "recv" /\ c_result' = c_result
    <2>1. body \in Seq(Nat \ {0}) /\ c_pos \in Nat /\ body \in Bodies
      BY DEF ChunkedInv, ChunkedTypes
    <2>2. PICK k \in Nat : k <= Len(body) /\ Held(buffer, ChunkEnd(body, k), c_pos)
      BY DEF ChunkedInv, ChunkedPlace
    <2> DEFINE q == SizeAt(body, k)
    <2>3. /\ Len(buffer) \in Nat /\ q \in Nat
          /\ buffer # <<>> => Chunked!Val = q
          /\ Chunked!HasLine <=> Len(buffer) >= 3
          /\ Chunked!Complete <=> q # 0 /\ Len(buffer) >= q + 5
      BY <2>1, <2>2, BufferIs
    <2>4. Burst \in Nat /\ RoomMax \in Nat /\ Burst + q + 4 <= RoomMax
      <3>1. Burst \in Nat /\ RoomMax \in Nat /\ Burst + 4 <= RoomMax
        BY ChunkedSizes
      <3>2. CASE k < Len(body)
        <4>1. k + 1 \in 1 .. Len(body)
          BY <2>1, <3>2
        <4>2. Burst + body[k + 1] + 4 <= RoomMax
          BY <2>1, <4>1, ChunkedSizes
        <4> QED
          BY <3>1, <3>2, <4>2 DEF SizeAt
      <3>3. CASE ~(k < Len(body))
        <4>1. q = 0
          BY <3>3 DEF SizeAt
        <4>2. Burst + 0 + 4 <= RoomMax
          BY <3>1
        <4> QED
          BY <3>1, <4>1, <4>2
      <3> QED
        BY <3>2, <3>3
    <2> HIDE DEF q
    <2>5. Len(buffer) <= q + 4
      <3>1. CASE buffer = <<>>
        BY <2>3, <3>1
      <3>2. CASE q = 0 /\ buffer # <<>>
        BY <1>1, <2>3, <3>2
      <3>3. CASE q # 0
        BY <1>1, <2>3, <3>3
      <3> QED
        BY <3>1, <3>2, <3>3
    <2>6. Len(buffer) + Burst <= RoomMax
      BY <2>3, <2>4, <2>5
    <2>7. o_size \in Nat /\ o_size + Len(buffer) <= RoomMax
      BY <1>1 DEF ChunkedInv, ChunkedRoom
    <2>8. size' \in Nat
      BY <1>1, <2>3, <2>4, <2>7 DEF Chunked!NextRoom
    <2>9. data = <<>> /\ c_result = "none"
      BY <1>1 DEF ChunkedInv, ChunkedEnd
    <2>10. ChunkedTypes'
      BY <1>1 DEF ChunkedInv, ChunkedTypes
    <2>11. ChunkedPlace'
      BY <1>1 DEF ChunkedInv, ChunkedPlace, Held, Part
    <2>12. ChunkedRoom'
      BY <1>1, <1>3, <2>6, <2>8 DEF ChunkedRoom
    <2>13. ChunkedBlocks'
      BY <1>1, <1>3 DEF ChunkedInv, ChunkedBlocks
    <2>14. ChunkedEnd'
      BY <1>1, <1>3, <2>9 DEF ChunkedEnd
    <2> QED
      BY <2>10, <2>11, <2>12, <2>13, <2>14 DEF ChunkedInv
  <1> QED
    BY <1>1, <1>2, <1>3

\* A list of lists with one more behind it.
LEMMA OneMore ==
  ASSUME NEW S, NEW s \in Seq(Seq(S)), NEW x \in Seq(S), NEW c, Full(s, c), Len(x) = c
  PROVE  /\ Append(s, x) \in Seq(Seq(S)) /\ All(Append(s, x)) = Cat(All(s), x)
         /\ Full(Append(s, x), c)
  <1> DEFINE Lists == Seq(S)
             t == Append(s, x)
  <1>1. s \in Seq(Lists) /\ x \in Lists
    OBVIOUS
  <1>2. All(t) = Cat(All(s), x)
    BY FlattenAppend DEF All, Cat
  <1> HIDE DEF Lists
  <1>3. t \in Seq(Lists) /\ Len(t) = Len(s) + 1 /\ t[Len(s) + 1] = x /\ Len(s) \in Nat
        /\ \A i \in 1 .. Len(s) : s[i] = t[i]
    BY <1>1, AppendProperties
  <1> HIDE DEF t
  <1>4. Full(t, c)
    <2>1. ASSUME NEW i \in 1 .. Len(t) PROVE Len(t[i]) = c
      <3>1. i \in 1 .. Len(s) \/ i = Len(s) + 1
        BY <1>3
      <3> QED
        BY <1>3, <3>1 DEF Full
    <2> QED
      BY <2>1 DEF Full
  <1> QED
    BY <1>2, <1>3, <1>4 DEF t, Lists

\* The data of k chunks are not longer than the body.
LEMMA DataEndType ==
  ASSUME NEW b \in Seq(Nat \ {0}), NEW k \in Nat, k <= Len(b)
  PROVE  DataEnd(b, k) \in Nat /\ DataEnd(b, k) <= Len(BodyOf(b)) /\ Len(BodyOf(b)) \in Nat
  <1>0. Len(b) \in Nat /\ Len(BodyOf(b)) \in Nat
    BY ListsOf
  <1>1. CASE k = Len(b)
    <2>1. DataEnd(b, k) = Len(BodyOf(b))
      BY <1>1, StreamEnds
    <2> QED
      BY <1>0, <2>1
  <1>2. CASE k < Len(b)
    <2>1. /\ DataEnd(b, k) \in Nat /\ DataEnd(b, k + 1) <= Len(BodyOf(b))
          /\ DataEnd(b, k + 1) = DataEnd(b, k) + b[k + 1] /\ b[k + 1] \in Nat
      BY <1>2, StreamAt
    <2> DEFINE a == DataEnd(b, k)
               q == b[k + 1]
               t == Len(BodyOf(b))
    <2>2. a \in Nat /\ q \in Nat /\ t \in Nat /\ a + q <= t
      BY <1>0, <2>1
    <2> HIDE DEF a, q, t
    <2>3. a <= t
      BY <2>2
    <2> QED
      BY <1>0, <2>1, <2>3 DEF a, t
  <1>3. k = Len(b) \/ k < Len(b)
    BY <1>0
  <1> QED
    BY <1>1, <1>2, <1>3, Zenon

\* A full block is handed over.
LEMMA BlockStep ==
  ASSUME ChunkedInv, Chunked!Block
  PROVE  ChunkedInv'
  <1> DEFINE n == Chunked!Missing
             d == Cut(data, 1, n)
             r == Cut(data, n + 1, Len(data))
             x == Cat(m_sChunkedBuffer, d)
  <1>1. /\ c_pc = "block" /\ n <= Len(data)
        /\ c_blocks' = Append(c_blocks, x) /\ m_sChunkedBuffer' = <<>> /\ data' = r
        /\ \/ UNCHANGED <<c_pc, c_result>>
           \/ c_pc' = "done" /\ c_result' = "refused"
        /\ UNCHANGED <<body, c_blockSize, c_sent, c_peer, c_pos, buffer, o_size>>
    BY DEF Chunked!Block, Chunked!netvars, Chunked!Done, Cat, Cut
  <1>2. /\ body \in Seq(Nat \ {0}) /\ m_sChunkedBuffer \in Seq(Symb) /\ data \in Seq(Symb)
        /\ c_blocks \in Seq(Seq(Symb)) /\ c_blockSize \in Nat \ {0}
    BY DEF ChunkedInv, ChunkedTypes
  <1>3. c_result = "none" /\ Full(c_blocks, c_blockSize) /\ Len(m_sChunkedBuffer) < c_blockSize
    BY <1>1 DEF ChunkedInv, ChunkedEnd, ChunkedBlocks
  <1>4. n = c_blockSize - Len(m_sChunkedBuffer) /\ n \in Nat /\ Len(m_sChunkedBuffer) \in Nat
    <2>1. n = c_blockSize - Len(m_sChunkedBuffer)
      BY DEF Chunked!Missing
    <2>2. Len(m_sChunkedBuffer) \in Nat
      BY <1>2
    <2> QED
      BY <1>2, <1>3, <2>1, <2>2
  <1> HIDE DEF n
  <1>5. d \in Seq(Symb) /\ Len(d) = n /\ r \in Seq(Symb)
    BY <1>1, <1>2, <1>4, CutHalves
  <1>6. PICK k, i, j \in Nat :
          /\ k <= Len(body) /\ Held(buffer, ChunkEnd(body, k), c_pos)
          /\ ChunkEnd(body, k) = DataEnd(body, k) + 5 * k
          /\ Part(All(c_blocks), 0, i) /\ Part(m_sChunkedBuffer, i, j) /\ Part(data, j, DataEnd(body, k))
    BY DEF ChunkedInv, ChunkedPlace
  <1>7. DataEnd(body, k) \in Nat
    BY <1>2, <1>6, DataEndType
  <1> DEFINE b == BodyOf(body)
             e == DataEnd(body, k)
             p == j + n
  <1>8. e \in Nat /\ p \in Nat /\ Piece(Symb, b, All(c_blocks), 0, i) /\ Piece(Symb, b, m_sChunkedBuffer, i, j)
        /\ Piece(Symb, b, data, j, e)
    BY <1>4, <1>6, <1>7 DEF Part
  <1> HIDE DEF b, e
  <1>9. Piece(Symb, b, d, j, j + n) /\ Piece(Symb, b, r, j + n, e)
    BY <1>1, <1>4, <1>8, PieceHalves
  <1> HIDE DEF p, d, r
  <1>10. Piece(Symb, b, d, j, p) /\ Piece(Symb, b, r, p, e)
    BY <1>9 DEF p
  <1>11. Piece(Symb, b, x, i, p)
    BY <1>8, <1>10, PieceCat
  <1>12. x \in Seq(Symb) /\ Len(x) = c_blockSize
    <2>1. x \in Seq(Symb) /\ Len(x) = Len(m_sChunkedBuffer) + Len(d)
      BY <1>2, <1>5, CatType
    <2> QED
      BY <1>2, <1>4, <1>5, <2>1
  <1> HIDE DEF x
  <1>13. /\ Append(c_blocks, x) \in Seq(Seq(Symb)) /\ All(Append(c_blocks, x)) = Cat(All(c_blocks), x)
         /\ Full(Append(c_blocks, x), c_blockSize)
    BY <1>2, <1>3, <1>12, OneMore
  <1>14. Piece(Symb, b, Cat(All(c_blocks), x), 0, p)
    BY <1>8, <1>11, PieceCat
  <1>15. Piece(Symb, b, <<>>, p, p)
    BY <1>8, PieceEmpty
  <1>16. ChunkedTypes'
    <2>1. <<>> \in Seq(Symb)
      OBVIOUS
    <2> QED
      BY <1>1, <1>5, <1>13, <2>1 DEF ChunkedInv, ChunkedTypes
  <1>17. ChunkedPlace'
    <2>1. /\ k <= Len(body) /\ Held(buffer, ChunkEnd(body, k), c_pos)
          /\ ChunkEnd(body, k) = DataEnd(body, k) + 5 * k
          /\ Part(All(c_blocks'), 0, p) /\ Part(m_sChunkedBuffer', p, p) /\ Part(data', p, DataEnd(body, k))
      BY <1>1, <1>6, <1>10, <1>13, <1>14, <1>15 DEF Part, b, e
    <2> QED
      BY <1>1, <1>8, <2>1 DEF ChunkedPlace, Held, Part
  <1>18. ChunkedRoom'
    BY <1>1 DEF ChunkedInv, ChunkedRoom
  <1>19. ChunkedBlocks'
    <2>1. Len(<<>>) < c_blockSize
      BY <1>2
    <2> QED
      BY <1>1, <1>3, <1>13, <2>1 DEF ChunkedBlocks
  <1>20. ChunkedEnd'
    BY <1>1, <1>3 DEF ChunkedEnd
  <1> QED
    BY <1>16, <1>17, <1>18, <1>19, <1>20 DEF ChunkedInv

\* What fills no block is kept.
LEMMA KeepStep ==
  ASSUME ChunkedInv, Chunked!Keep
  PROVE  ChunkedInv'
  <1> DEFINE x == Cat(m_sChunkedBuffer, data)
  <1>1. /\ c_pc = "block" /\ Chunked!Missing > Len(data)
        /\ m_sChunkedBuffer' = x /\ data' = <<>> /\ c_pc' = "parse"
        /\ UNCHANGED <<body, c_blockSize, c_sent, c_peer, c_pos, buffer, o_size, c_blocks, c_result>>
    BY DEF Chunked!Keep, Chunked!netvars, Cat
  <1>2. /\ body \in Seq(Nat \ {0}) /\ m_sChunkedBuffer \in Seq(Symb) /\ data \in Seq(Symb)
        /\ c_blockSize \in Nat \ {0}
    BY DEF ChunkedInv, ChunkedTypes
  <1>3. c_result = "none"
    BY <1>1 DEF ChunkedInv, ChunkedEnd
  <1>4. x \in Seq(Symb) /\ Len(x) < c_blockSize
    <2>1. x \in Seq(Symb) /\ Len(x) = Len(m_sChunkedBuffer) + Len(data)
      BY <1>2, CatType
    <2>2. Len(m_sChunkedBuffer) \in Nat /\ Len(data) \in Nat
      BY <1>2
    <2>3. c_blockSize - Len(m_sChunkedBuffer) > Len(data)
      BY <1>1 DEF Chunked!Missing
    <2> QED
      BY <1>2, <2>1, <2>2, <2>3
  <1>5. PICK k, i, j \in Nat :
          /\ k <= Len(body) /\ Held(buffer, ChunkEnd(body, k), c_pos)
          /\ ChunkEnd(body, k) = DataEnd(body, k) + 5 * k
          /\ Part(All(c_blocks), 0, i) /\ Part(m_sChunkedBuffer, i, j) /\ Part(data, j, DataEnd(body, k))
    BY DEF ChunkedInv, ChunkedPlace
  <1>6. DataEnd(body, k) \in Nat
    BY <1>2, <1>5, DataEndType
  <1> DEFINE b == BodyOf(body)
             e == DataEnd(body, k)
  <1>7. e \in Nat /\ Piece(Symb, b, m_sChunkedBuffer, i, j) /\ Piece(Symb, b, data, j, e)
    BY <1>5, <1>6 DEF Part
  <1> HIDE DEF b, e
  <1>8. Piece(Symb, b, x, i, e)
    BY <1>7, PieceCat
  <1> HIDE DEF x
  <1>9. Piece(Symb, b, <<>>, e, e)
    BY <1>7, PieceEmpty
  <1>10. ChunkedTypes'
    <2>1. <<>> \in Seq(Symb)
      OBVIOUS
    <2> QED
      BY <1>1, <1>4, <2>1 DEF ChunkedInv, ChunkedTypes
  <1>11. ChunkedPlace'
    <2>1. /\ k <= Len(body) /\ Held(buffer, ChunkEnd(body, k), c_pos)
          /\ ChunkEnd(body, k) = DataEnd(body, k) + 5 * k
          /\ Part(All(c_blocks), 0, i) /\ Part(m_sChunkedBuffer', i, e) /\ Part(data', e, DataEnd(body, k))
      BY <1>1, <1>5, <1>8, <1>9 DEF Part, b, e
    <2> QED
      BY <1>1, <1>7, <2>1 DEF ChunkedPlace, Held, Part
  <1>12. ChunkedRoom'
    BY <1>1 DEF ChunkedInv, ChunkedRoom
  <1>13. ChunkedBlocks'
    BY <1>1, <1>4 DEF ChunkedInv, ChunkedBlocks
  <1>14. ChunkedEnd'
    BY <1>1, <1>3 DEF ChunkedEnd
  <1> QED
    BY <1>10, <1>11, <1>12, <1>13, <1>14 DEF ChunkedInv

\* The invariant of HttpChunked holds at first.
LEMMA ChunkedInit ==
  ASSUME Init PROVE ChunkedInv
  <1>1. Chunked!Init
    BY DEF Init
  <1> DEFINE text == StreamOf(body)
  <1>2. Chunked!Text(body) = text
    BY StreamIs DEF Chunked!Stream
  <1>3. PICK s \in Spills :
          /\ s <= Len(Chunked!Text(body)) /\ c_sent = s /\ c_pos = s
          /\ buffer = SubSeq(Chunked!Text(body), 1, s)
          /\ c_pc = IF s > 0 THEN "parse" ELSE "recv"
    BY <1>1 DEF Chunked!Init
  <1>4. /\ body \in Bodies /\ c_blockSize \in BlockSizes /\ c_peer = "open" /\ o_size = 0 /\ size = RoomMax
        /\ data = <<>> /\ m_sChunkedBuffer = <<>> /\ c_blocks = <<>> /\ c_result = "none"
    BY <1>1 DEF Chunked!Init
  <1>5. body \in Seq(Nat \ {0}) /\ c_blockSize \in Nat \ {0}
    BY <1>4, ChunkedSizes, ReadersAssumption
  <1>6. Burst \in Nat /\ RoomMax \in Nat /\ Burst <= RoomMax /\ s \in 0 .. Burst
    <2>1. Burst \in Nat /\ RoomMax \in Nat /\ Burst + 4 <= RoomMax
      BY ChunkedSizes
    <2>2. s \in 0 .. Burst
      BY ChunkedAssumption
    <2> QED
      BY <2>1, <2>2
  <1>7. text \in Seq(Symb) /\ Len(text) \in Nat /\ s \in Nat /\ s <= Len(text)
    BY <1>2, <1>3, <1>5, <1>6, ListsOf
  <1>8. buffer = SubSeq(text, 0 + 1, s)
    BY <1>2, <1>3
  <1>9. Piece(Symb, text, buffer, 0, s)
    <2> HIDE DEF text
    <2>1. Piece(Symb, text, SubSeq(text, 0 + 1, s), 0, s)
      BY <1>7, PieceOf
    <2> QED
      BY <1>8, <2>1
  <1>10. buffer \in Seq(Symb) /\ Len(buffer) = s
    <2> HIDE DEF text
    <2>1. s = 0 + Len(buffer) /\ Len(buffer) \in Nat /\ buffer \in Seq(Symb)
      BY <1>7, <1>9, PieceLength
    <2> QED
      BY <2>1
  <1>11. ChunkedTypes
    <2>1. <<>> \in Seq(Symb) /\ <<>> \in Seq(Seq(Symb))
      OBVIOUS
    <2>2. s - s <= Burst
      BY <1>6
    <2> QED
      BY <1>3, <1>4, <1>5, <1>7, <1>10, <2>1, <2>2 DEF ChunkedTypes
  <1>12. ChunkedPlace
    <2> DEFINE z == 0
    <2>0. z \in Nat /\ z = 0 /\ Len(body) \in Nat /\ z <= Len(body) /\ 0 = 0 + 5 * z
      BY <1>5
    <2> HIDE DEF z
    <2>1. ChunkEnd(body, z) = 0 /\ DataEnd(body, z) = 0
      BY <1>5, <2>0, StreamEnds
    <2>2. Held(buffer, ChunkEnd(body, z), c_pos)
      BY <1>3, <1>9, <2>1 DEF Held
    <2>3. Part(<<>>, 0, z) /\ Part(<<>>, z, z) /\ Part(<<>>, z, DataEnd(body, z))
      BY <2>0, <2>1, PieceEmpty DEF Part
    <2>4. All(c_blocks) = <<>>
      BY <1>4, AllEmpty
    <2>5. /\ z <= Len(body) /\ Held(buffer, ChunkEnd(body, z), c_pos)
          /\ ChunkEnd(body, z) = DataEnd(body, z) + 5 * z
          /\ Part(All(c_blocks), 0, z) /\ Part(m_sChunkedBuffer, z, z) /\ Part(data, z, DataEnd(body, z))
      BY <1>4, <2>0, <2>1, <2>2, <2>3, <2>4
    <2> QED
      BY <2>0, <2>5 DEF ChunkedPlace
  <1>13. ChunkedRoom
    <2>1. 0 + s <= RoomMax
      BY <1>6
    <2>2. c_pc = "recv" => s + Burst <= RoomMax
      <3>1. c_pc = "recv" => s = 0
        BY <1>3, <1>6
      <3> QED
        BY <1>6, <3>1
    <2> QED
      BY <1>4, <1>6, <1>10, <2>1, <2>2 DEF ChunkedRoom
  <1>14. ChunkedBlocks
    <2>1. Len(<<>>) < c_blockSize /\ Full(<<>>, c_blockSize)
      BY <1>5 DEF Full
    <2> QED
      BY <1>4, <2>1 DEF ChunkedBlocks
  <1>15. ChunkedEnd
    BY <1>3, <1>4 DEF ChunkedEnd
  <1> QED
    BY <1>11, <1>12, <1>13, <1>14, <1>15 DEF ChunkedInv

\* One step of the server or of readBlocks().
LEMMA ChunkedStep ==
  ASSUME ChunkedInv, Chunked!Next
  PROVE  ChunkedInv'
  <1> DEFINE t == Len(StreamOf(body))
  <1>1. /\ c_sent \in Nat /\ c_pos \in Nat /\ c_pos <= c_sent /\ c_sent - c_pos <= Burst
        /\ c_sent <= t /\ c_peer \in {"open", "closed", "reset"}
        /\ c_peer = "reset" => c_sent = c_pos
        /\ body \in Seq(Nat \ {0})
    BY DEF ChunkedInv, ChunkedTypes
  <1>2. t \in Nat /\ Burst \in Nat
    BY <1>1, ListsOf, ChunkedSizes
  <1>3. ASSUME NEW n \in 1 .. Burst, Chunked!Send(n) PROVE ChunkedInv'
    <2>1. /\ c_sent' = c_sent + n /\ n \in 1 .. t - c_sent /\ c_sent + n - c_pos <= Burst /\ c_peer = "open"
          /\ UNCHANGED <<body, c_blockSize, c_peer, c_pos, c_pc, buffer, o_size, size, data,
                         m_sChunkedBuffer, c_blocks, c_result>>
      BY <1>3, StreamIs DEF Chunked!Send
    <2> HIDE DEF t
    <2>2. c_sent' \in Nat /\ c_pos <= c_sent' /\ c_sent' - c_pos <= Burst /\ c_sent' <= t
      BY <1>1, <1>2, <2>1
    <2> QED
      BY <1>1, <2>1, <2>2, ChunkedServer DEF t
  <1>4. ASSUME Chunked!Close PROVE ChunkedInv'
    <2>1. /\ c_peer' = "closed"
          /\ UNCHANGED <<body, c_blockSize, c_sent, c_pos, c_pc, buffer, o_size, size, data,
                         m_sChunkedBuffer, c_blocks, c_result>>
      BY <1>4 DEF Chunked!Close
    <2> QED
      BY <1>1, <2>1, ChunkedServer
  <1>5. ASSUME Chunked!Reset PROVE ChunkedInv'
    <2>1. /\ c_peer' = "reset" /\ c_sent' = c_pos
          /\ UNCHANGED <<body, c_blockSize, c_pos, c_pc, buffer, o_size, size, data,
                         m_sChunkedBuffer, c_blocks, c_result>>
      BY <1>5 DEF Chunked!Reset
    <2> HIDE DEF t
    <2>2. c_sent' \in Nat /\ c_pos <= c_sent' /\ c_sent' - c_pos <= Burst /\ c_sent' <= t
      BY <1>1, <1>2, <2>1
    <2> QED
      BY <2>1, <2>2, ChunkedServer DEF t
  <1>6. ASSUME Chunked!Client PROVE ChunkedInv'
    BY <1>6, ChunkedWaitStep, ChunkedRecvStep, ParseChunkStep, ParseLastStep, ParseRefusesStep,
       ParseEndsStep, BlockStep, KeepStep DEF Chunked!Client
  <1>7. ASSUME Chunked!Terminated PROVE ChunkedInv'
    <2>1. UNCHANGED <<body, c_blockSize, c_sent, c_peer, c_pos, c_pc, buffer, o_size, size, data,
                      m_sChunkedBuffer, c_blocks, c_result>>
      BY <1>7 DEF Chunked!Terminated, Chunked!vars, Chunked!netvars
    <2> QED
      BY <1>1, <2>1, ChunkedServer
  <1> QED
    BY <1>3, <1>4, <1>5, <1>6, <1>7 DEF Chunked!Next

\* Every step keeps the invariant of HttpChunked.
LEMMA ChunkedNext ==
  ASSUME ChunkedInv, [Next]_vars
  PROVE  ChunkedInv'
  <1>1. CASE ChunkedMoves
    BY <1>1, ChunkedStep DEF ChunkedMoves
  <1>2. CASE UNCHANGED chunks
    <2>1. UNCHANGED <<body, c_blockSize, c_sent, c_peer, c_pos, c_pc, buffer, o_size, size, data,
                      m_sChunkedBuffer, c_blocks, c_result>>
      BY <1>2 DEF chunks
    <2>2. /\ c_sent \in Nat /\ c_pos <= c_sent /\ c_sent - c_pos <= Burst
          /\ c_sent <= Len(StreamOf(body)) /\ c_peer \in {"open", "closed", "reset"}
          /\ c_peer = "reset" => c_sent = c_pos
      BY DEF ChunkedInv, ChunkedTypes
    <2> QED
      BY <2>1, <2>2, ChunkedServer
  <1> QED
    BY <1>1, <1>2 DEF Next, AnswerMoves, RequestMoves, ListingMoves, vars

\* What the invariant says of what was handed over.
LEMMA ChunkedShows ==
  ASSUME ChunkedInv PROVE ChunkedHandedOver
  <1> DEFINE b == BodyOf(body)
             got == All(c_blocks)
             all == Cat(Cat(got, m_sChunkedBuffer), data)
  <1>1. /\ body \in Seq(Nat \ {0}) /\ c_pos \in Nat /\ buffer \in Seq(Symb)
        /\ c_sent \in Nat /\ c_pos <= c_sent /\ c_sent - c_pos <= Burst
        /\ c_blocks \in Seq(Seq(Symb))
    BY DEF ChunkedInv, ChunkedTypes
  <1>2. Chunked!Body = b /\ Chunked!Stream = StreamOf(body)
    BY StreamIs
  <1>3. Chunked!Got = got
    BY DEF Chunked!Got, All, Chunked!FlattenSeq, FlattenSeq
  <1>4. PICK k, i, j \in Nat :
          /\ k <= Len(body) /\ Held(buffer, ChunkEnd(body, k), c_pos)
          /\ ChunkEnd(body, k) = DataEnd(body, k) + 5 * k
          /\ Part(got, 0, i) /\ Part(m_sChunkedBuffer, i, j) /\ Part(data, j, DataEnd(body, k))
    BY DEF ChunkedInv, ChunkedPlace
  <1>5. /\ DataEnd(body, k) \in Nat /\ DataEnd(body, k) <= Len(b) /\ Len(b) \in Nat
        /\ b \in Seq(Symb) /\ ChunkEnd(body, k) \in Nat /\ Len(buffer) \in Nat
    BY <1>1, <1>4, DataEndType, ListsOf, BufferHead DEF Held
  <1> DEFINE e == DataEnd(body, k)
             c == ChunkEnd(body, k)
             t == Len(b)
             text == StreamOf(body)
  <1>6. /\ Piece(Symb, b, got, 0, i) /\ Piece(Symb, b, m_sChunkedBuffer, i, j) /\ Piece(Symb, b, data, j, e)
        /\ Piece(Symb, text, buffer, c, c_pos)
        /\ e \in Nat /\ c \in Nat /\ t \in Nat /\ e <= t /\ c = e + 5 * k /\ t = Len(b)
    BY <1>4, <1>5 DEF Part, Held
  <1> HIDE DEF e, c, t, text, b, got
  <1>7. Piece(Symb, b, all, 0, e)
    <2>1. Piece(Symb, b, Cat(got, m_sChunkedBuffer), 0, j)
      BY <1>6, PieceCat
    <2> QED
      BY <1>6, <2>1, PieceCat
  <1>8. all = Chunked!Got \o m_sChunkedBuffer \o data
    BY <1>3 DEF Cat
  <1> HIDE DEF all
  <1>9. Chunked!Accounted
    <2>1. IsPrefix(all, b)
      <3>1. Piece(Symb, b, b, 0, t)
        BY <1>5, <1>6 DEF Piece
      <3> QED
        BY <1>6, <1>7, <3>1, PiecePrefix
    <2>2. Len(all) = e
      <3>1. e = 0 + Len(all) /\ Len(all) \in Nat
        BY <1>6, <1>7, PieceLength
      <3> QED
        BY <3>1
    <2>3. c_pos - Len(buffer) = c
      <3>1. c_pos = c + Len(buffer)
        BY <1>1, <1>6, PieceLength
      <3> QED
        BY <1>5, <1>6, <3>1
    <2> DEFINE l == k + 1
    <2>4. l \in 1 .. Len(body) + 1 /\ l - 1 = k /\ Chunked!Before(body, l) = e
      <3>1. Len(body) \in Nat
        BY <1>1
      <3>2. Chunked!Before(body, k + 1) = e
        BY <1>1, <1>4, BeforeIs DEF e
      <3> QED
        BY <1>4, <3>1, <3>2
    <2> HIDE DEF l
    <2>5. /\ Len(all) = Chunked!Before(body, l)
          /\ c_pos - Len(buffer) = Chunked!Before(body, l) + 5 * (l - 1)
      BY <1>6, <2>2, <2>3, <2>4
    <2> QED
      BY <1>2, <1>8, <2>1, <2>4, <2>5 DEF Chunked!Accounted, Chunked!IsPrefix, IsPrefix
  <1>10. Chunked!EndIsWhole
    BY <1>2, <1>3 DEF ChunkedInv, ChunkedEnd, Chunked!EndIsWhole, Chunked!Last, b, got
  <1>11. Chunked!BlocksFull
    <2>1. Len(c_blocks) \in Nat /\ DOMAIN c_blocks = 1 .. Len(c_blocks)
      BY <1>1
    <2>2. ASSUME NEW n \in 1 .. Len(c_blocks)
          PROVE Len(c_blocks[n]) = c_blockSize \/ (c_result = "end" /\ n >= Len(c_blocks) - 1)
      <3>1. CASE c_result # "end"
        BY <3>1 DEF ChunkedInv, ChunkedBlocks, Full
      <3>2. CASE c_result = "end" /\ ~(n >= Len(c_blocks) - 1)
        <4>1. n \in 1 .. Len(c_blocks) - 2
          BY <2>1, <3>2
        <4> QED
          BY <3>2, <4>1 DEF ChunkedInv, ChunkedBlocks
      <3> QED
        BY <3>1, <3>2
    <2> QED
      BY <2>1, <2>2 DEF Chunked!BlocksFull
  <1>12. Chunked!NoFalseRefusal
    BY DEF ChunkedInv, ChunkedEnd, Chunked!NoFalseRefusal
  <1>13. Chunked!WithinBuffer
    <2> SUFFICES ASSUME c_pc = "recv" PROVE Len(buffer) + Chunked!Taken(size) <= RoomMax
      BY DEF Chunked!WithinBuffer
    <2>1. size \in Nat /\ Len(buffer) + Burst <= RoomMax
      BY DEF ChunkedInv, ChunkedRoom
    <2>2. Burst \in Nat /\ RoomMax \in Nat
      BY ChunkedSizes
    <2>3. Chunked!Taken(size) \in Nat /\ Chunked!Taken(size) <= c_sent - c_pos
      BY <1>1, <2>1 DEF Chunked!Taken
    <2>4. Chunked!Taken(size) <= Burst
      BY <1>1, <2>2, <2>3
    <2> QED
      BY <1>5, <2>1, <2>2, <2>3, <2>4
  <1> QED
    BY <1>9, <1>10, <1>11, <1>12, <1>13 DEF ChunkedHandedOver

\* HttpChunked hands over exactly the data of the chunks, in full blocks but for
\* the last, refuses a well-formed body only at a cut in a size line, and never
\* reads over the end of its buffer, however chunks and reads are cut.
THEOREM ChunkedHolds == Spec => []ChunkedHandedOver
  <1>1. Init => ChunkedInv
    BY ChunkedInit
  <1>2. ChunkedInv /\ [Next]_vars => ChunkedInv'
    BY ChunkedNext
  <1>3. ChunkedInv => ChunkedHandedOver
    BY ChunkedShows
  <1> QED
    BY <1>1, <1>2, <1>3, PTL DEF Spec
=============================================================================
